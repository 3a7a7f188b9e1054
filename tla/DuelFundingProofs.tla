-------------------------- MODULE DuelFundingProofs --------------------------
(***************************************************************************)
(* Machine-checked proofs about DuelFunding, for any number of intents and *)
(* of concurrent requests and passes.                                      *)
(***************************************************************************)
EXTENDS DuelFunding, TLAPS

\* The names the actions use belong to their types.
LEMMA Names ==
  /\ "WAITING" \in DuelStatuses /\ "MATCHED" \in DuelStatuses
  /\ "COMMITTING" \in DuelStatuses /\ "FUNDED" \in DuelStatuses
  /\ "REFUNDING" \in DuelStatuses /\ "CANCELLED" \in DuelStatuses
  /\ "FAILED" \in DuelStatuses
  /\ \A r \in {"PREPARED", "SUBMITTED", "CONFIRMED", "FINALIZED", "EXPIRED",
                "FAILED"} : r \in RowStatuses
  /\ \A c \in {"none", "WALLET_REJECTED", "NOT_FOUND_AFTER_FINALITY",
                "BLOCKHASH_EXPIRED", "TRANSACTION_EXECUTION_ERROR", "DUEL_STATE_MISMATCH",
                "FUNDING_QUORUM_INVALID"} : c \in ErrorCodes
  /\ \A r \in {"user", "timeout", "commitment_timeout",
                "creator_funding_terminal"} : r \in Reasons
  /\ \A o \in {"prepare", "timeout", "seen", "record", "scan", "bind", "alert"} :
       o \in Ops
  /\ \A x \in {"null", "err", "confirmed", "finalized"} : x \in Sights
  /\ DuelStatuses \subseteq Sights
  BY DEF DuelStatuses, RowStatuses, ErrorCodes, Reasons, Ops, Sights

\* One field of the duel row at a time.
LEMMA DuelFields ==
  ASSUME NEW d \in DuelType
  PROVE  /\ \A s \in DuelStatuses, n \in Nat :
              [d EXCEPT !.status = s, !.version = n] \in DuelType
         /\ \A r \in Reasons : [d EXCEPT !.reason = r] \in DuelType
         /\ \A b \in BOOLEAN : [d EXCEPT !.escrow = b] \in DuelType
         /\ [d EXCEPT !.opponent = Opponent] \in DuelType
  BY DEF DuelType

\* What an update of the duel row leaves and changes.
LEMMA MoveType ==
  ASSUME TypeOK, NEW s \in DuelStatuses
  PROVE  /\ Move(s) \in DuelType
         /\ Move(s).status = s
         /\ Move(s).version = duel.version + 1
         /\ Move(s).escrow = duel.escrow
         /\ Move(s).reason = duel.reason
         /\ Move(s).opponent = duel.opponent
<1>1. duel \in DuelType /\ duel.version + 1 \in Nat
  BY DEF TypeOK, DuelType
<1>2. Move(s) \in DuelType
  BY <1>1, DuelFields DEF Move
<1>3. /\ Move(s).status = s /\ Move(s).version = duel.version + 1
      /\ Move(s).reason = duel.reason /\ Move(s).opponent = duel.opponent
  BY <1>1 DEF Move, DuelType
<1>4. Move(s).escrow = duel.escrow
  BY <1>1 DEF Move, DuelType
<1> QED
  BY <1>2, <1>3, <1>4

\* One transaction row; t is a value of job[p].tx, in or out of TxIds.
LEMMA RowCode ==
  ASSUME NEW R \in [TxIds -> RowType], NEW t,
         NEW r \in RowStatuses, NEW c \in ErrorCodes
  PROVE  [R EXCEPT ![t].st = r, ![t].code = c] \in [TxIds -> RowType]
  BY DEF RowType

\* The alert flag of one row.
LEMMA RowAlert ==
  ASSUME NEW R \in [TxIds -> RowType], NEW t
  PROVE  [R EXCEPT ![t].alert = TRUE] \in [TxIds -> RowType]
  BY DEF RowType

\* A bound row is well formed.
LEMMA BoundType ==
  ASSUME TypeOK, NEW t
  PROVE  Bound(t) \in [TxIds -> RowType]
  BY DEF Bound, TypeOK, RowType, RowStatuses

\* A process at rest is well formed.
LEMMA IdleType == Idle \in JobType
  BY DEF Idle, JobType, Ops, Sights

\* A row not yet created is well formed.
LEMMA NoRowType == NoRow \in RowType
  BY DEF NoRow, RowType, RowStatuses, ErrorCodes

\* The routing tables stay within the statuses.
LEMMA RoutingType ==
  ASSUME NEW s \in DuelStatuses, NEW w
  PROVE  /\ RecoveryStatusAfterTransactionFailure(s) \in DuelStatuses
         /\ RecoveryAlertTarget(s) \in DuelStatuses
         /\ RecoveryStatusForTerminal(w, s) \in DuelStatuses
  BY DEF RecoveryStatusAfterTransactionFailure, RecoveryAlertTarget,
         RecoveryStatusForTerminal, CanTransition, AllowedTransitions, DuelStatuses

\* Every step writes well-formed values.
LEMMA TypeStep == TypeOK /\ [Next]_vars => TypeOK'
<1> SUFFICES ASSUME TypeOK, [Next]_vars PROVE TypeOK'
  OBVIOUS
<1> USE IdleType, NoRowType, Names
<1>1. CASE Join
  BY <1>1, MoveType, DuelFields DEF Join, TypeOK
<1>2. CASE Cancel
  BY <1>2, MoveType, DuelFields DEF Cancel, TypeOK
<1>3. ASSUME NEW p \in Procs, ReadTimedOut(p) PROVE TypeOK'
  BY <1>3 DEF ReadTimedOut, TypeOK, JobType, DuelType, HasFinalizedFunding
<1>4. ASSUME NEW p \in Procs, ExpireTimedOut(p) PROVE TypeOK'
  BY <1>4, MoveType, DuelFields DEF ExpireTimedOut, TypeOK, TimedOutDuelRecovery
<1>5. ASSUME NEW p \in Procs, NEW w \in Wallets, BeginPrepare(p, w)
  PROVE TypeOK'
  BY <1>5 DEF BeginPrepare, TypeOK, JobType
<1>6. ASSUME NEW p \in Procs, NEW t \in TxIds, PersistPrepared(p, t)
  PROVE TypeOK'
  BY <1>6 DEF PersistPrepared, TypeOK, JobType, RowType
<1>7. ASSUME NEW p \in Procs, PersistRefused(p) PROVE TypeOK'
  BY <1>7 DEF PersistRefused, TypeOK
<1>8. ASSUME NEW p \in Procs, NEW t \in TxIds, ReadStatus(p, t) PROVE TypeOK'
  BY <1>8 DEF ReadStatus, SignatureStatus, TypeOK, JobType
<1>9. ASSUME NEW p \in Procs, LoadRow(p) PROVE TypeOK'
  BY <1>9 DEF LoadRow, TypeOK, JobType
<1>10. ASSUME NEW p \in Procs, RecordConfirmed(p) PROVE TypeOK'
  BY <1>10 DEF RecordConfirmed, TypeOK, RowType
<1>11. ASSUME NEW p \in Procs, RecordTerminal(p) PROVE TypeOK'
  <2> DEFINE t == job[p].tx
             target == RecoveryStatusForTerminal(rows[t].wallet, duel.status)
  <2>1. target \in DuelStatuses
    BY RoutingType DEF TypeOK, DuelType
  <2> HIDE DEF target
  <2>2. duel' \in DuelType
    <3>1. Move(target) \in DuelType /\ Move(target).reason \in Reasons
      BY <2>1, MoveType DEF DuelType
    <3> QED
      BY <1>11, <2>1, <3>1, DuelFields DEF RecordTerminal, TypeOK, target
  <2>3. rows' \in [TxIds -> RowType]
    BY <1>11 DEF RecordTerminal, TypeOK, RowType
  <2> QED
    BY <1>11, <2>2, <2>3 DEF RecordTerminal, TypeOK
<1>12. ASSUME NEW p \in Procs, RecordFinalized(p) PROVE TypeOK'
  <2>2. duel' \in DuelType
    BY <1>12, MoveType DEF RecordFinalized, TypeOK
  <2>3. rows' \in [TxIds -> RowType]
    <3>1. \E r \in RowStatuses, c \in ErrorCodes :
            rows' = [rows EXCEPT ![job[p].tx].st = r, ![job[p].tx].code = c]
      <4>1. CASE duel.status # "COMMITTING"
        BY <1>12, <4>1 DEF RecordFinalized
      <4>2. CASE duel.status = "COMMITTING"
        <5> DEFINE c == IF ResolveFundingQuorum(job[p].tx) = "invalid"
                        THEN "FUNDING_QUORUM_INVALID" ELSE "none"
        <5>1. c \in ErrorCodes
          OBVIOUS
        <5>2. rows' = [rows EXCEPT ![job[p].tx].st = "FINALIZED",
                                   ![job[p].tx].code = c]
          BY <1>12, <4>2 DEF RecordFinalized
        <5> HIDE DEF c
        <5> QED
          BY <5>1, <5>2
      <4> QED
        BY <4>1, <4>2
    <3> QED
      BY <3>1, RowCode DEF TypeOK
  <2> QED
    BY <1>12, <2>2, <2>3 DEF RecordFinalized, TypeOK
<1>13. ASSUME NEW p \in Procs, NEW t \in TxIds, BeginRecovery(p, t)
  PROVE TypeOK'
  BY <1>13 DEF BeginRecovery, TypeOK, JobType, DuelType
<1>14. ASSUME NEW p \in Procs, ScanFound(p) PROVE TypeOK'
  BY <1>14 DEF ScanFound, TypeOK, JobType, DuelType
<1>15. ASSUME NEW p \in Procs, ScanEmpty(p) PROVE TypeOK'
  BY <1>15 DEF ScanEmpty, TypeOK, RowType
<1>16. ASSUME NEW p \in Procs, BindRecovered(p) PROVE TypeOK'
  <2>1. duel' \in DuelType
    <3> DEFINE moved == Move("COMMITTING")
               b == moved.escrow \/ EntersCommitting(job[p].tx)
    <3>1. moved \in DuelType /\ b \in BOOLEAN
      BY MoveType
    <3>2. duel' = duel \/ duel' = [moved EXCEPT !.escrow = b]
      BY <1>16 DEF BindRecovered
    <3> HIDE DEF moved, b
    <3> QED
      BY <3>1, <3>2, DuelFields DEF TypeOK
  <2>2. rows' \in [TxIds -> RowType]
    <3>1. rows' = rows \/ rows' = Bound(job[p].tx)
      BY <1>16 DEF BindRecovered
    <3> QED
      BY <3>1, BoundType DEF TypeOK
  <2>3. job' \in [Procs -> JobType]
    BY <1>16 DEF BindRecovered, TypeOK, JobType
  <2> QED
    BY <1>16, <2>1, <2>2, <2>3 DEF BindRecovered, TypeOK
<1>17. ASSUME NEW p \in Procs, RecordRecoveryAlert(p) PROVE TypeOK'
  <2>1. RecoveryAlertTarget(duel.status) \in DuelStatuses
    BY RoutingType DEF TypeOK, DuelType
  <2>2. duel' \in DuelType
    <3> DEFINE moved == Move(RecoveryAlertTarget(duel.status))
               b == moved.escrow \/ RecoveryAlertTarget(duel.status) = "REFUNDING"
    <3>1. moved \in DuelType /\ b \in BOOLEAN
      BY <2>1, MoveType
    <3>2. duel' = duel \/ duel' = [moved EXCEPT !.escrow = b]
      BY <1>17 DEF RecordRecoveryAlert
    <3> HIDE DEF moved, b
    <3> QED
      BY <3>1, <3>2, DuelFields DEF TypeOK
  <2>3. rows' \in [TxIds -> RowType]
    <3>1. rows' = rows \/ rows' = [rows EXCEPT ![job[p].tx].alert = TRUE]
      BY <1>17 DEF RecordRecoveryAlert
    <3> QED
      BY <3>1, RowAlert DEF TypeOK
  <2> QED
    BY <1>17, <2>2, <2>3 DEF RecordRecoveryAlert, TypeOK
<1>18. ASSUME NEW t \in TxIds, RecordWalletRejection(t) PROVE TypeOK'
  BY <1>18 DEF RecordWalletRejection, TypeOK, RowType
<1>19. ASSUME NEW t \in TxIds, BindSubmission(t) PROVE TypeOK'
  <2>1. duel' \in DuelType
    BY <1>19, MoveType, DuelFields DEF BindSubmission, TypeOK
  <2>2. rows' \in [TxIds -> RowType]
    BY <1>19, BoundType DEF BindSubmission
  <2> QED
    BY <1>19, <2>1, <2>2 DEF BindSubmission, TypeOK
<1>20. ASSUME NEW t \in TxIds, Sends(t) PROVE TypeOK'
  BY <1>20 DEF Sends, TypeOK, ChainStates
<1>21. ASSUME NEW t \in TxIds, Lands(t) PROVE TypeOK'
  BY <1>21 DEF Lands, TypeOK, ChainStates
<1>22. ASSUME NEW t \in TxIds, Finalizes(t) PROVE TypeOK'
  BY <1>22 DEF Finalizes, TypeOK, ChainStates
<1>23. ASSUME NEW t \in TxIds, HeightPasses(t) PROVE TypeOK'
  BY <1>23 DEF HeightPasses, TypeOK, ChainStates
<1>24. CASE DuelExpires
  BY <1>24 DEF DuelExpires, TypeOK
<1>25. CASE UNCHANGED vars
  BY <1>25 DEF vars, TypeOK
<1> QED
  BY <1>1, <1>2, <1>3, <1>4, <1>5, <1>6, <1>7, <1>8, <1>9, <1>10, <1>11, <1>12,
     <1>13, <1>14, <1>15, <1>16, <1>17, <1>18, <1>19, <1>20, <1>21, <1>22,
     <1>23, <1>24, <1>25 DEF Next, Reconcile, Recover

\* What no step undoes: the owner of a row, and a final deposit.
Grows ==
  \A t \in TxIds :
    /\ rows[t].st # "NONE" => /\ rows'[t].st # "NONE"
                              /\ rows'[t].wallet = rows[t].wallet
    /\ chain[t] \in Final => chain'[t] \in Final

\* No step undoes an owner or a final deposit.
LEMMA StepGrows == FundingInv /\ [Next]_vars => Grows
<1> SUFFICES ASSUME FundingInv, [Next]_vars PROVE Grows
  OBVIOUS
<1>0. /\ rows \in [TxIds -> RowType] /\ chain \in [TxIds -> ChainStates]
      /\ JobsHoldIntents
  BY DEF FundingInv, TypeOK
<1>1. CASE Join
  BY <1>1, <1>0 DEF Join, Grows
<1>2. CASE Cancel
  BY <1>2, <1>0 DEF Cancel, Grows
<1>3. ASSUME NEW p \in Procs, ReadTimedOut(p) PROVE Grows
  BY <1>3, <1>0 DEF ReadTimedOut, Grows
<1>4. ASSUME NEW p \in Procs, ExpireTimedOut(p) PROVE Grows
  BY <1>4, <1>0 DEF ExpireTimedOut, Grows
<1>5. ASSUME NEW p \in Procs, NEW w \in Wallets, BeginPrepare(p, w) PROVE Grows
  BY <1>5, <1>0 DEF BeginPrepare, Grows
<1>6. ASSUME NEW p \in Procs, NEW t \in TxIds, PersistPrepared(p, t)
  PROVE Grows
  BY <1>6, <1>0 DEF PersistPrepared, RowType, Grows
<1>7. ASSUME NEW p \in Procs, PersistRefused(p) PROVE Grows
  BY <1>7, <1>0 DEF PersistRefused, Grows
<1>8. ASSUME NEW p \in Procs, NEW t \in TxIds, ReadStatus(p, t) PROVE Grows
  BY <1>8, <1>0 DEF ReadStatus, Grows
<1>9. ASSUME NEW p \in Procs, LoadRow(p) PROVE Grows
  BY <1>9, <1>0 DEF LoadRow, Grows
<1>10. ASSUME NEW p \in Procs, RecordConfirmed(p) PROVE Grows
  BY <1>10, <1>0 DEF RecordConfirmed, RowType, Grows
<1>11. ASSUME NEW p \in Procs, RecordTerminal(p) PROVE Grows
  BY <1>11, <1>0 DEF RecordTerminal, RowType, Grows
<1>12. ASSUME NEW p \in Procs, RecordFinalized(p) PROVE Grows
  BY <1>12, <1>0 DEF RecordFinalized, RowType, Grows
<1>13. ASSUME NEW p \in Procs, NEW t \in TxIds, BeginRecovery(p, t) PROVE Grows
  BY <1>13, <1>0 DEF BeginRecovery, Grows
<1>14. ASSUME NEW p \in Procs, ScanFound(p) PROVE Grows
  BY <1>14, <1>0 DEF ScanFound, Grows
<1>15. ASSUME NEW p \in Procs, ScanEmpty(p) PROVE Grows
  BY <1>15, <1>0 DEF ScanEmpty, RowType, Grows
<1>16. ASSUME NEW p \in Procs, BindRecovered(p) PROVE Grows
  BY <1>16, <1>0 DEF BindRecovered, Bound, RowType, Grows
<1>17. ASSUME NEW p \in Procs, RecordRecoveryAlert(p) PROVE Grows
  BY <1>17, <1>0 DEF RecordRecoveryAlert, RowType, Grows
<1>18. ASSUME NEW t \in TxIds, RecordWalletRejection(t) PROVE Grows
  BY <1>18, <1>0 DEF RecordWalletRejection, RowType, Grows
<1>19. ASSUME NEW t \in TxIds, BindSubmission(t) PROVE Grows
  BY <1>19, <1>0 DEF BindSubmission, Bound, RowType, Grows
<1>20. ASSUME NEW t \in TxIds, Sends(t) PROVE Grows
  BY <1>20, <1>0 DEF Sends, Final, Grows
<1>21. ASSUME NEW t \in TxIds, Lands(t) PROVE Grows
  BY <1>21, <1>0 DEF Lands, Final, Grows
<1>22. ASSUME NEW t \in TxIds, Finalizes(t) PROVE Grows
  BY <1>22, <1>0 DEF Finalizes, Final, Grows
<1>23. ASSUME NEW t \in TxIds, HeightPasses(t) PROVE Grows
  BY <1>23, <1>0 DEF HeightPasses, Final, Grows
<1>24. CASE DuelExpires
  BY <1>24, <1>0 DEF DuelExpires, Grows
<1>25. CASE UNCHANGED vars
  BY <1>25, <1>0 DEF vars, Grows
<1> QED
  BY <1>1, <1>2, <1>3, <1>4, <1>5, <1>6, <1>7, <1>8, <1>9, <1>10, <1>11,
     <1>12, <1>13, <1>14, <1>15, <1>16, <1>17, <1>18, <1>19, <1>20, <1>21,
     <1>22, <1>23, <1>24, <1>25
     DEF Next, Reconcile, Recover

\* Rows keep their owners: prepare writes the wallet, nothing clears it.
LEMMA OwnersStep == FundingInv /\ [Next]_vars => RowsHaveOwners'
<1> SUFFICES ASSUME FundingInv, [Next]_vars PROVE RowsHaveOwners'
  OBVIOUS
<1>0. /\ rows \in [TxIds -> RowType] /\ chain \in [TxIds -> ChainStates]
      /\ JobsHoldIntents /\ RowsHaveOwners
  BY DEF FundingInv, TypeOK
<1>1. CASE Join
  BY <1>1, <1>0 DEF Join, RowsHaveOwners
<1>2. CASE Cancel
  BY <1>2, <1>0 DEF Cancel, RowsHaveOwners
<1>3. ASSUME NEW p \in Procs, ReadTimedOut(p) PROVE RowsHaveOwners'
  BY <1>3, <1>0 DEF ReadTimedOut, RowsHaveOwners
<1>4. ASSUME NEW p \in Procs, ExpireTimedOut(p) PROVE RowsHaveOwners'
  BY <1>4, <1>0 DEF ExpireTimedOut, RowsHaveOwners
<1>5. ASSUME NEW p \in Procs, NEW w \in Wallets, BeginPrepare(p, w)
  PROVE RowsHaveOwners'
  BY <1>5, <1>0 DEF BeginPrepare, RowsHaveOwners
<1>6. ASSUME NEW p \in Procs, NEW t \in TxIds, PersistPrepared(p, t)
  PROVE RowsHaveOwners'
  BY <1>6, <1>0 DEF PersistPrepared, NoRow, JobsHoldIntents, Wallets,
     RowsHaveOwners
<1>7. ASSUME NEW p \in Procs, PersistRefused(p) PROVE RowsHaveOwners'
  BY <1>7, <1>0 DEF PersistRefused, RowsHaveOwners
<1>8. ASSUME NEW p \in Procs, NEW t \in TxIds, ReadStatus(p, t)
  PROVE RowsHaveOwners'
  BY <1>8, <1>0 DEF ReadStatus, RowsHaveOwners
<1>9. ASSUME NEW p \in Procs, LoadRow(p) PROVE RowsHaveOwners'
  BY <1>9, <1>0 DEF LoadRow, RowsHaveOwners
<1>10. ASSUME NEW p \in Procs, RecordConfirmed(p) PROVE RowsHaveOwners'
  BY <1>10, <1>0 DEF RecordConfirmed, RowType, JobsHoldIntents, RowsHaveOwners
<1>11. ASSUME NEW p \in Procs, RecordTerminal(p) PROVE RowsHaveOwners'
  BY <1>11, <1>0 DEF RecordTerminal, RowType, JobsHoldIntents, RowsHaveOwners
<1>12. ASSUME NEW p \in Procs, RecordFinalized(p) PROVE RowsHaveOwners'
  BY <1>12, <1>0 DEF RecordFinalized, RowType, JobsHoldIntents, RowsHaveOwners
<1>13. ASSUME NEW p \in Procs, NEW t \in TxIds, BeginRecovery(p, t)
  PROVE RowsHaveOwners'
  BY <1>13, <1>0 DEF BeginRecovery, RowsHaveOwners
<1>14. ASSUME NEW p \in Procs, ScanFound(p) PROVE RowsHaveOwners'
  BY <1>14, <1>0 DEF ScanFound, RowsHaveOwners
<1>15. ASSUME NEW p \in Procs, ScanEmpty(p) PROVE RowsHaveOwners'
  BY <1>15, <1>0 DEF ScanEmpty, RowType, JobsHoldIntents, RowsHaveOwners
<1>16. ASSUME NEW p \in Procs, BindRecovered(p) PROVE RowsHaveOwners'
  BY <1>16, <1>0 DEF BindRecovered, Bound, RowType, JobsHoldIntents,
     RowsHaveOwners
<1>17. ASSUME NEW p \in Procs, RecordRecoveryAlert(p) PROVE RowsHaveOwners'
  BY <1>17, <1>0 DEF RecordRecoveryAlert, RowType, JobsHoldIntents,
     RowsHaveOwners
<1>18. ASSUME NEW t \in TxIds, RecordWalletRejection(t) PROVE RowsHaveOwners'
  BY <1>18, <1>0 DEF RecordWalletRejection, RowType, RowsHaveOwners
<1>19. ASSUME NEW t \in TxIds, BindSubmission(t) PROVE RowsHaveOwners'
  BY <1>19, <1>0 DEF BindSubmission, Bound, RowType, RowsHaveOwners
<1>20. ASSUME NEW t \in TxIds, Sends(t) PROVE RowsHaveOwners'
  BY <1>20, <1>0 DEF Sends, RowsHaveOwners
<1>21. ASSUME NEW t \in TxIds, Lands(t) PROVE RowsHaveOwners'
  BY <1>21, <1>0 DEF Lands, RowsHaveOwners
<1>22. ASSUME NEW t \in TxIds, Finalizes(t) PROVE RowsHaveOwners'
  BY <1>22, <1>0 DEF Finalizes, RowsHaveOwners
<1>23. ASSUME NEW t \in TxIds, HeightPasses(t) PROVE RowsHaveOwners'
  BY <1>23, <1>0 DEF HeightPasses, RowsHaveOwners
<1>24. CASE DuelExpires
  BY <1>24, <1>0 DEF DuelExpires, RowsHaveOwners
<1>25. CASE UNCHANGED vars
  BY <1>25, <1>0 DEF vars, RowsHaveOwners
<1> QED
  BY <1>1, <1>2, <1>3, <1>4, <1>5, <1>6, <1>7, <1>8, <1>9, <1>10, <1>11,
     <1>12, <1>13, <1>14, <1>15, <1>16, <1>17, <1>18, <1>19, <1>20, <1>21,
     <1>22, <1>23, <1>24, <1>25
     DEF Next, Reconcile, Recover

\* What a request or a pass holds stays meaningful while others run.
LEMMA JobsStep == FundingInv /\ [Next]_vars => JobsHoldIntents'
<1> SUFFICES ASSUME FundingInv, [Next]_vars PROVE JobsHoldIntents'
  OBVIOUS
<1>0. /\ rows \in [TxIds -> RowType] /\ job \in [Procs -> JobType]
      /\ JobsHoldIntents /\ Grows
  BY StepGrows DEF FundingInv, TypeOK
<1> USE DEF Grows
<1>1. CASE Join
  BY <1>1, <1>0 DEF Join, JobsHoldIntents
<1>2. CASE Cancel
  BY <1>2, <1>0 DEF Cancel, JobsHoldIntents
<1>3. ASSUME NEW p \in Procs, ReadTimedOut(p) PROVE JobsHoldIntents'
  BY <1>3, <1>0 DEF ReadTimedOut, Idle, JobType, JobsHoldIntents
<1>4. ASSUME NEW p \in Procs, ExpireTimedOut(p) PROVE JobsHoldIntents'
  BY <1>4, <1>0 DEF ExpireTimedOut, Idle, JobType, JobsHoldIntents
<1>5. ASSUME NEW p \in Procs, NEW w \in Wallets, BeginPrepare(p, w)
  PROVE JobsHoldIntents'
  BY <1>5, <1>0 DEF BeginPrepare, Idle, JobType, JobsHoldIntents
<1>6. ASSUME NEW p \in Procs, NEW t \in TxIds, PersistPrepared(p, t)
  PROVE JobsHoldIntents'
  BY <1>6, <1>0 DEF PersistPrepared, Idle, JobType, JobsHoldIntents
<1>7. ASSUME NEW p \in Procs, PersistRefused(p) PROVE JobsHoldIntents'
  BY <1>7, <1>0 DEF PersistRefused, Idle, JobType, JobsHoldIntents
<1>8. ASSUME NEW p \in Procs, NEW t \in TxIds, ReadStatus(p, t)
  PROVE JobsHoldIntents'
  BY <1>8, <1>0 DEF ReadStatus, Idle, JobType, ACTIVE_STATUSES,
     JobsHoldIntents
<1>9. ASSUME NEW p \in Procs, LoadRow(p) PROVE JobsHoldIntents'
  BY <1>9, <1>0 DEF LoadRow, Idle, JobType, JobsHoldIntents
<1>10. ASSUME NEW p \in Procs, RecordConfirmed(p) PROVE JobsHoldIntents'
  BY <1>10, <1>0 DEF RecordConfirmed, Idle, JobType, JobsHoldIntents
<1>11. ASSUME NEW p \in Procs, RecordTerminal(p) PROVE JobsHoldIntents'
  BY <1>11, <1>0 DEF RecordTerminal, Idle, JobType, JobsHoldIntents
<1>12. ASSUME NEW p \in Procs, RecordFinalized(p) PROVE JobsHoldIntents'
  BY <1>12, <1>0 DEF RecordFinalized, Idle, JobType, JobsHoldIntents
<1>13. ASSUME NEW p \in Procs, NEW t \in TxIds, BeginRecovery(p, t)
  PROVE JobsHoldIntents'
  BY <1>13, <1>0 DEF BeginRecovery, Idle, JobType, JobsHoldIntents
<1>14. ASSUME NEW p \in Procs, ScanFound(p) PROVE JobsHoldIntents'
  BY <1>14, <1>0 DEF ScanFound, Idle, JobType, JobsHoldIntents
<1>15. ASSUME NEW p \in Procs, ScanEmpty(p) PROVE JobsHoldIntents'
  BY <1>15, <1>0 DEF ScanEmpty, Idle, JobType, JobsHoldIntents
<1>16. ASSUME NEW p \in Procs, BindRecovered(p) PROVE JobsHoldIntents'
  BY <1>16, <1>0 DEF BindRecovered, Idle, JobType, JobsHoldIntents
<1>17. ASSUME NEW p \in Procs, RecordRecoveryAlert(p) PROVE JobsHoldIntents'
  BY <1>17, <1>0 DEF RecordRecoveryAlert, Idle, JobType, JobsHoldIntents
<1>18. ASSUME NEW t \in TxIds, RecordWalletRejection(t) PROVE JobsHoldIntents'
  BY <1>18, <1>0 DEF RecordWalletRejection, JobsHoldIntents
<1>19. ASSUME NEW t \in TxIds, BindSubmission(t) PROVE JobsHoldIntents'
  BY <1>19, <1>0 DEF BindSubmission, JobsHoldIntents
<1>20. ASSUME NEW t \in TxIds, Sends(t) PROVE JobsHoldIntents'
  BY <1>20, <1>0 DEF Sends, JobsHoldIntents
<1>21. ASSUME NEW t \in TxIds, Lands(t) PROVE JobsHoldIntents'
  BY <1>21, <1>0 DEF Lands, JobsHoldIntents
<1>22. ASSUME NEW t \in TxIds, Finalizes(t) PROVE JobsHoldIntents'
  BY <1>22, <1>0 DEF Finalizes, JobsHoldIntents
<1>23. ASSUME NEW t \in TxIds, HeightPasses(t) PROVE JobsHoldIntents'
  BY <1>23, <1>0 DEF HeightPasses, JobsHoldIntents
<1>24. CASE DuelExpires
  BY <1>24, <1>0 DEF DuelExpires, JobsHoldIntents
<1>25. CASE UNCHANGED vars
  BY <1>25, <1>0 DEF vars, JobsHoldIntents
<1> QED
  BY <1>1, <1>2, <1>3, <1>4, <1>5, <1>6, <1>7, <1>8, <1>9, <1>10, <1>11,
     <1>12, <1>13, <1>14, <1>15, <1>16, <1>17, <1>18, <1>19, <1>20, <1>21,
     <1>22, <1>23, <1>24, <1>25
     DEF Next, Reconcile, Recover

\* What was read as finalized stays finalized.
LEMMA FinalityStep == FundingInv /\ [Next]_vars => FinalityIsStable'
<1> SUFFICES ASSUME FundingInv, [Next]_vars PROVE FinalityIsStable'
  OBVIOUS
<1>0. /\ rows \in [TxIds -> RowType] /\ job \in [Procs -> JobType]
      /\ chain \in [TxIds -> ChainStates]
      /\ JobsHoldIntents /\ FinalityIsStable /\ Grows
  BY StepGrows DEF FundingInv, TypeOK
<1> USE DEF Grows, JobsHoldIntents
<1>1. CASE Join
  BY <1>1, <1>0 DEF Join, FinalityIsStable
<1>2. CASE Cancel
  BY <1>2, <1>0 DEF Cancel, FinalityIsStable
<1>3. ASSUME NEW p \in Procs, ReadTimedOut(p) PROVE FinalityIsStable'
  BY <1>3, <1>0 DEF ReadTimedOut, Idle, JobType, FinalityIsStable
<1>4. ASSUME NEW p \in Procs, ExpireTimedOut(p) PROVE FinalityIsStable'
  BY <1>4, <1>0 DEF ExpireTimedOut, Idle, JobType, FinalityIsStable
<1>5. ASSUME NEW p \in Procs, NEW w \in Wallets, BeginPrepare(p, w)
  PROVE FinalityIsStable'
  BY <1>5, <1>0 DEF BeginPrepare, Idle, JobType, FinalityIsStable
<1>6. ASSUME NEW p \in Procs, NEW t \in TxIds, PersistPrepared(p, t)
  PROVE FinalityIsStable'
  BY <1>6, <1>0 DEF PersistPrepared, Idle, NoRow, JobType, FinalityIsStable
<1>7. ASSUME NEW p \in Procs, PersistRefused(p) PROVE FinalityIsStable'
  BY <1>7, <1>0 DEF PersistRefused, Idle, JobType, FinalityIsStable
<1>8. ASSUME NEW p \in Procs, NEW t \in TxIds, ReadStatus(p, t)
  PROVE FinalityIsStable'
  BY <1>8, <1>0 DEF ReadStatus, Idle, JobType, ACTIVE_STATUSES,
     SignatureStatus, Final, FinalityIsStable
<1>9. ASSUME NEW p \in Procs, LoadRow(p) PROVE FinalityIsStable'
  BY <1>9, <1>0 DEF LoadRow, Idle, JobType, FinalityIsStable
<1>10. ASSUME NEW p \in Procs, RecordConfirmed(p) PROVE FinalityIsStable'
  BY <1>10, <1>0 DEF RecordConfirmed, Idle, JobType, RowType, FinalityIsStable
<1>11. ASSUME NEW p \in Procs, RecordTerminal(p) PROVE FinalityIsStable'
  BY <1>11, <1>0 DEF RecordTerminal, Idle, JobType, RowType, FinalityIsStable
<1>12. ASSUME NEW p \in Procs, RecordFinalized(p) PROVE FinalityIsStable'
  BY <1>12, <1>0 DEF RecordFinalized, Idle, JobType, RowType, FinalityIsStable
<1>13. ASSUME NEW p \in Procs, NEW t \in TxIds, BeginRecovery(p, t)
  PROVE FinalityIsStable'
  BY <1>13, <1>0 DEF BeginRecovery, Idle, JobType, FinalityIsStable
<1>14. ASSUME NEW p \in Procs, ScanFound(p) PROVE FinalityIsStable'
  BY <1>14, <1>0 DEF ScanFound, Idle, JobType, Final, FinalityIsStable
<1>15. ASSUME NEW p \in Procs, ScanEmpty(p) PROVE FinalityIsStable'
  BY <1>15, <1>0 DEF ScanEmpty, Idle, JobType, RowType, FinalityIsStable
<1>16. ASSUME NEW p \in Procs, BindRecovered(p) PROVE FinalityIsStable'
  <2>1. chain' = chain /\ \A t \in TxIds :
                           rows'[t].st = "FINALIZED" => rows[t].st = "FINALIZED"
    BY <1>16, <1>0 DEF BindRecovered, Bound, RowType
  <2>2. \A q \in Procs : job'[q].op # "idle" =>
          /\ job'[q].tx = job[q].tx /\ job'[q].saw = job[q].saw
          /\ \/ job'[q].op = job[q].op
             \/ job'[q].op = "alert" /\ job[q].op = "bind"
    <3>1. /\ job[p].op = "bind"
          /\ \/ job' = [job EXCEPT ![p] = Idle]
             \/ job' = [job EXCEPT ![p].op = "alert"]
      BY <1>16 DEF BindRecovered
    <3>2. CASE job' = [job EXCEPT ![p] = Idle]
      BY <1>0, <3>2 DEF Idle
    <3>3. CASE job' = [job EXCEPT ![p].op = "alert"]
      BY <1>0, <3>1, <3>3 DEF JobType
    <3> QED
      BY <3>1, <3>2, <3>3
  <2> QED
    BY <1>0, <2>1, <2>2 DEF FinalityIsStable
<1>17. ASSUME NEW p \in Procs, RecordRecoveryAlert(p) PROVE FinalityIsStable'
  BY <1>17, <1>0 DEF RecordRecoveryAlert, Idle, JobType, RowType,
     FinalityIsStable
<1>18. ASSUME NEW t \in TxIds, RecordWalletRejection(t) PROVE FinalityIsStable'
  BY <1>18, <1>0 DEF RecordWalletRejection, RowType, FinalityIsStable
<1>19. ASSUME NEW t \in TxIds, BindSubmission(t) PROVE FinalityIsStable'
  BY <1>19, <1>0 DEF BindSubmission, Bound, RowType, FinalityIsStable
<1>20. ASSUME NEW t \in TxIds, Sends(t) PROVE FinalityIsStable'
  BY <1>20, <1>0 DEF Sends, FinalityIsStable
<1>21. ASSUME NEW t \in TxIds, Lands(t) PROVE FinalityIsStable'
  BY <1>21, <1>0 DEF Lands, FinalityIsStable
<1>22. ASSUME NEW t \in TxIds, Finalizes(t) PROVE FinalityIsStable'
  BY <1>22, <1>0 DEF Finalizes, FinalityIsStable
<1>23. ASSUME NEW t \in TxIds, HeightPasses(t) PROVE FinalityIsStable'
  BY <1>23, <1>0 DEF HeightPasses, FinalityIsStable
<1>24. CASE DuelExpires
  BY <1>24, <1>0 DEF DuelExpires, FinalityIsStable
<1>25. CASE UNCHANGED vars
  BY <1>25, <1>0 DEF vars, FinalityIsStable
<1> QED
  BY <1>1, <1>2, <1>3, <1>4, <1>5, <1>6, <1>7, <1>8, <1>9, <1>10, <1>11,
     <1>12, <1>13, <1>14, <1>15, <1>16, <1>17, <1>18, <1>19, <1>20, <1>21,
     <1>22, <1>23, <1>24, <1>25
     DEF Next, Reconcile, Recover

(***************************************************************************)
(* What each action that updates the duel row leaves in it.                *)
(***************************************************************************)
\* The duel row moved with a reason.
LEMMA WithReason ==
  ASSUME TypeOK, NEW s \in DuelStatuses, NEW r \in Reasons
  PROVE  LET d == [Move(s) EXCEPT !.reason = r]
         IN /\ d.status = s /\ d.version = duel.version + 1
            /\ d.escrow = duel.escrow /\ d.reason = r
<1>1. Move(s) \in DuelType
  BY MoveType
<1> QED
  BY <1>1, MoveType DEF DuelType

\* The duel row moved with its escrow address.
LEMMA WithEscrow ==
  ASSUME TypeOK, NEW s \in DuelStatuses, NEW b \in BOOLEAN
  PROVE  LET d == [Move(s) EXCEPT !.escrow = b]
         IN /\ d.status = s /\ d.version = duel.version + 1
            /\ d.escrow = b /\ d.reason = duel.reason
<1>1. Move(s) \in DuelType
  BY MoveType
<1> QED
  BY <1>1, MoveType DEF DuelType

\* join writes the duel row.
LEMMA JoinMoves ==
  ASSUME TypeOK, Join
  PROVE  /\ duel'.status = "MATCHED" /\ duel'.version = duel.version + 1
         /\ duel'.escrow = duel.escrow /\ duel'.reason = duel.reason
<1>1. Move("MATCHED") \in DuelType
  BY MoveType, Names
<1> QED
  BY <1>1, MoveType, Names DEF Join, DuelType

\* cancel writes the duel row.
LEMMA CancelMoves ==
  ASSUME TypeOK, Cancel
  PROVE  /\ duel'.status = "CANCELLED" /\ duel'.version = duel.version + 1
         /\ duel'.escrow = duel.escrow /\ duel'.reason = "user"
  BY WithReason, Names DEF Cancel

\* The sweep writes the row it read, or nothing.
LEMMA TimeoutMoves ==
  ASSUME TypeOK, NEW p \in Procs, ExpireTimedOut(p), duel' # duel
  PROVE  /\ duel.status = job[p].saw /\ duel.version = job[p].version
         /\ duel'.version = duel.version + 1 /\ duel'.escrow = duel.escrow
         /\ \/ /\ job[p].saw # "COMMITTING"
               /\ duel'.status = "CANCELLED" /\ duel'.reason = "timeout"
            \/ /\ job[p].saw = "COMMITTING" /\ ~job[p].funded
               /\ duel'.status = "CANCELLED" /\ duel'.reason = "commitment_timeout"
            \/ job[p].saw = "COMMITTING" /\ duel'.status = "REFUNDING"
<1> DEFINE r == TimedOutDuelRecovery(job[p].saw, job[p].funded)
<1>1. TimeoutRowUnchanged(p) /\ duel' = [Move(r.status) EXCEPT !.reason = r.reason]
  BY DEF ExpireTimedOut
<1>2. duel.status = job[p].saw /\ duel.version = job[p].version
  BY <1>1 DEF TimeoutRowUnchanged
<1>3. CASE job[p].saw # "COMMITTING"
  <2>1. r = [status |-> "CANCELLED", reason |-> "timeout"]
    BY <1>3 DEF TimedOutDuelRecovery
  <2>2. duel' = [Move("CANCELLED") EXCEPT !.reason = "timeout"]
    BY <1>1, <2>1
  <2> QED
    BY <1>2, <1>3, <2>2, WithReason, Names
<1>4. CASE job[p].saw = "COMMITTING" /\ job[p].funded
  <2>1. r = [status |-> "REFUNDING", reason |-> "commitment_timeout"]
    BY <1>4 DEF TimedOutDuelRecovery
  <2>2. duel' = [Move("REFUNDING") EXCEPT !.reason = "commitment_timeout"]
    BY <1>1, <2>1
  <2>3. /\ duel'.status = "REFUNDING" /\ duel'.version = duel.version + 1
        /\ duel'.escrow = duel.escrow
    BY <2>2, WithReason, Names
  <2> QED
    BY <1>2, <1>4, <2>3
<1>5. CASE job[p].saw = "COMMITTING" /\ ~job[p].funded
  <2>1. r = [status |-> "CANCELLED", reason |-> "commitment_timeout"]
    BY <1>5 DEF TimedOutDuelRecovery
  <2>2. duel' = [Move("CANCELLED") EXCEPT !.reason = "commitment_timeout"]
    BY <1>1, <2>1
  <2>3. /\ duel'.status = "CANCELLED" /\ duel'.version = duel.version + 1
        /\ duel'.escrow = duel.escrow /\ duel'.reason = "commitment_timeout"
    BY <2>2, WithReason, Names
  <2> QED
    BY <1>2, <1>5, <2>3
<1> QED
  BY <1>3, <1>4, <1>5

\* recordTerminal follows the recovery routing, or leaves the duel.
LEMMA TerminalMoves ==
  ASSUME TypeOK, NEW p \in Procs, RecordTerminal(p), duel' # duel
  PROVE  LET target == RecoveryStatusForTerminal(rows[job[p].tx].wallet, duel.status)
         IN /\ CanTransition(duel.status, target)
            /\ duel'.status = target
            /\ duel'.version = duel.version + 1 /\ duel'.escrow = duel.escrow
            /\ duel'.reason = IF target = "CANCELLED"
                              THEN "creator_funding_terminal" ELSE duel.reason
<1> DEFINE target == RecoveryStatusForTerminal(rows[job[p].tx].wallet, duel.status)
           r == IF target = "CANCELLED"
                THEN "creator_funding_terminal" ELSE duel.reason
<1>1. target \in DuelStatuses
  BY RoutingType DEF TypeOK, DuelType
<1>2. r \in Reasons
  BY Names DEF TypeOK, DuelType
<1>3. CanTransition(duel.status, target) /\ duel' = [Move(target) EXCEPT !.reason = r]
  BY <1>1, MoveType DEF RecordTerminal
<1> HIDE DEF target, r
<1>4. /\ CanTransition(duel.status, target)
      /\ duel'.status = target
      /\ duel'.version = duel.version + 1 /\ duel'.escrow = duel.escrow
      /\ duel'.reason = r
  BY <1>1, <1>2, <1>3, WithReason
<1> QED
  BY <1>4 DEF target, r

\* recordFinalized moves a committing duel only.
LEMMA FinalizedMoves ==
  ASSUME TypeOK, NEW p \in Procs, RecordFinalized(p)
  PROVE  \/ duel.status # "COMMITTING" /\ duel' = duel
         \/ /\ duel.status = "COMMITTING"
            /\ duel'.status \in {"REFUNDING", "FUNDED", "COMMITTING"}
            /\ duel'.status = "FUNDED" => ResolveFundingQuorum(job[p].tx) = "complete"
            /\ duel'.version = duel.version + 1
            /\ duel'.escrow = duel.escrow /\ duel'.reason = duel.reason
<1>1. CASE duel.status # "COMMITTING"
  BY <1>1 DEF RecordFinalized
<1>2. CASE duel.status = "COMMITTING"
  <2> DEFINE q == ResolveFundingQuorum(job[p].tx)
             s == CASE q = "invalid"  -> "REFUNDING"
                    [] q = "complete" -> "FUNDED"
                    [] OTHER          -> "COMMITTING"
  <2>1. /\ s \in {"REFUNDING", "FUNDED", "COMMITTING"} /\ s \in DuelStatuses
        /\ s = "FUNDED" => q = "complete"
    BY Names
  <2>2. duel' = Move(s)
    BY <1>2 DEF RecordFinalized
  <2> HIDE DEF s
  <2> QED
    BY <1>2, <2>1, <2>2, MoveType
<1> QED
  BY <1>1, <1>2

\* bindRecoveredSubmission takes a bindable duel to COMMITTING.
LEMMA RecoveredMoves ==
  ASSUME TypeOK, NEW p \in Procs, BindRecovered(p), duel' # duel
  PROVE  /\ MayBind(job[p].tx) /\ rows' = Bound(job[p].tx)
         /\ duel'.status = "COMMITTING" /\ duel'.version = duel.version + 1
         /\ duel'.escrow = (duel.escrow \/ EntersCommitting(job[p].tx))
         /\ duel'.reason = duel.reason
<1> DEFINE b == Move("COMMITTING").escrow \/ EntersCommitting(job[p].tx)
<1>1. b \in BOOLEAN
  OBVIOUS
<1>2. /\ MayBind(job[p].tx) /\ rows' = Bound(job[p].tx)
      /\ duel' = [Move("COMMITTING") EXCEPT !.escrow = b]
  BY DEF BindRecovered
<1>3. b = (duel.escrow \/ EntersCommitting(job[p].tx))
  BY MoveType, Names
<1> HIDE DEF b
<1>4. /\ duel'.status = "COMMITTING" /\ duel'.version = duel.version + 1
      /\ duel'.escrow = b /\ duel'.reason = duel.reason
  BY <1>1, <1>2, WithEscrow, Names
<1> QED
  BY <1>2, <1>3, <1>4

\* recordRecoveryAlert follows the alert routing.
LEMMA AlertMoves ==
  ASSUME TypeOK, NEW p \in Procs, RecordRecoveryAlert(p), duel' # duel
  PROVE  LET target == RecoveryAlertTarget(duel.status)
         IN /\ rows[job[p].tx].st = "PREPARED"
            /\ duel'.status = target /\ duel'.version = duel.version + 1
            /\ duel'.escrow = (duel.escrow \/ target = "REFUNDING")
            /\ duel'.reason = duel.reason
<1> DEFINE target == RecoveryAlertTarget(duel.status)
           b == Move(target).escrow \/ target = "REFUNDING"
<1>1. target \in DuelStatuses /\ b \in BOOLEAN
  BY RoutingType DEF TypeOK, DuelType
<1>2. /\ rows[job[p].tx].st = "PREPARED"
      /\ duel' = [Move(target) EXCEPT !.escrow = b]
  BY DEF RecordRecoveryAlert
<1>3. b = (duel.escrow \/ target = "REFUNDING")
  BY <1>1, MoveType
<1> HIDE DEF target, b
<1>4. /\ duel'.status = target /\ duel'.version = duel.version + 1
      /\ duel'.escrow = b /\ duel'.reason = duel.reason
  BY <1>1, <1>2, WithEscrow
<1> QED
  BY <1>2, <1>3, <1>4 DEF target

\* The creator's submission takes MATCHED to COMMITTING.
LEMMA SubmissionMoves ==
  ASSUME TypeOK, NEW t \in TxIds, BindSubmission(t), duel' # duel
  PROVE  /\ duel.status = "MATCHED"
         /\ duel'.status = "COMMITTING" /\ duel'.version = duel.version + 1
         /\ duel'.escrow = TRUE /\ duel'.reason = duel.reason
<1>1. duel.status = "MATCHED" /\ duel' = [Move("COMMITTING") EXCEPT !.escrow = TRUE]
  BY DEF BindSubmission, EntersCommitting
<1> QED
  BY <1>1, WithEscrow, Names

\* The eight operations that write the duel row.
LEMMA DuelSteps ==
  ASSUME [Next]_vars, duel' # duel
  PROVE  \/ Join
         \/ Cancel
         \/ \E p \in Procs : \/ ExpireTimedOut(p) \/ RecordTerminal(p)
                             \/ RecordFinalized(p) \/ BindRecovered(p)
                             \/ RecordRecoveryAlert(p)
         \/ \E t \in TxIds : BindSubmission(t)
  BY DEF Next, Reconcile, Recover, vars, ReadTimedOut, BeginPrepare,
         PersistPrepared, PersistRefused, ReadStatus, LoadRow, RecordConfirmed,
         BeginRecovery, ScanFound, ScanEmpty, RecordWalletRejection, Sends,
         Lands, Finalizes, HeightPasses, DuelExpires

\* A final deposit stays one.
LEMMA DepositStays ==
  ASSUME FundingInv, Grows, NEW w \in Wallets, FinalDeposit(w)
  PROVE  FinalDeposit(w)'
<1>1. PICK t \in TxIds : rows[t].wallet = w /\ chain[t] \in Final
  BY DEF FinalDeposit
<1>2. rows[t].st # "NONE"
  BY <1>1, FundingConstants DEF FundingInv, RowsHaveOwners
<1> QED
  BY <1>1, <1>2 DEF Grows, FinalDeposit

\* A finalized row is a final deposit of its wallet.
LEMMA FinalizedRowDeposits ==
  ASSUME FundingInv, NEW w, HasRow(w, {"FINALIZED"})
  PROVE  FinalDeposit(w)
  BY DEF FundingInv, FinalityIsStable, HasRow, FinalDeposit

\* The opponent's intents stay behind the creator's deposit.
LEMMA OpponentStep ==
  FundingInv /\ [Next]_vars => OpponentWaits' /\ OpponentPaysSecond'
<1> SUFFICES ASSUME FundingInv, [Next]_vars
             PROVE  OpponentWaits' /\ OpponentPaysSecond'
  OBVIOUS
<1>0. /\ rows \in [TxIds -> RowType] /\ job \in [Procs -> JobType]
      /\ OpponentWaits /\ OpponentPaysSecond /\ JobsHoldIntents
  BY DEF FundingInv, TypeOK
<1>a. FinalDeposit(Creator) => FinalDeposit(Creator)'
  BY StepGrows, DepositStays DEF Wallets
<1>1. CASE Join
  BY <1>1, <1>0, <1>a DEF Join, OpponentWaits, OpponentPaysSecond
<1>2. CASE Cancel
  BY <1>2, <1>0, <1>a DEF Cancel, OpponentWaits, OpponentPaysSecond
<1>3. ASSUME NEW p \in Procs, ReadTimedOut(p)
  PROVE OpponentWaits' /\ OpponentPaysSecond'
  BY <1>3, <1>0, <1>a DEF ReadTimedOut, Idle, JobType, OpponentWaits,
     OpponentPaysSecond
<1>4. ASSUME NEW p \in Procs, ExpireTimedOut(p)
  PROVE OpponentWaits' /\ OpponentPaysSecond'
  BY <1>4, <1>0, <1>a DEF ExpireTimedOut, Idle, JobType, OpponentWaits,
     OpponentPaysSecond
<1>5. ASSUME NEW p \in Procs, NEW w \in Wallets, BeginPrepare(p, w)
  PROVE OpponentWaits' /\ OpponentPaysSecond'
  <2>1. w = Opponent => FinalDeposit(Creator)
    BY <1>5, FinalizedRowDeposits, FundingConstants DEF BeginPrepare, MayFund
  <2> QED
    BY <1>5, <1>0, <1>a, <2>1
    DEF BeginPrepare, Idle, JobType, OpponentWaits, OpponentPaysSecond
<1>6. ASSUME NEW p \in Procs, NEW t \in TxIds, PersistPrepared(p, t)
  PROVE OpponentWaits' /\ OpponentPaysSecond'
  BY <1>6, <1>0, <1>a DEF PersistPrepared, Idle, JobType, NoRow, RowType,
     OpponentWaits, OpponentPaysSecond
<1>7. ASSUME NEW p \in Procs, PersistRefused(p)
  PROVE OpponentWaits' /\ OpponentPaysSecond'
  BY <1>7, <1>0, <1>a DEF PersistRefused, Idle, JobType, OpponentWaits,
     OpponentPaysSecond
<1>8. ASSUME NEW p \in Procs, NEW t \in TxIds, ReadStatus(p, t)
  PROVE OpponentWaits' /\ OpponentPaysSecond'
  BY <1>8, <1>0, <1>a DEF ReadStatus, Idle, JobType, OpponentWaits,
     OpponentPaysSecond
<1>9. ASSUME NEW p \in Procs, LoadRow(p)
  PROVE OpponentWaits' /\ OpponentPaysSecond'
  BY <1>9, <1>0, <1>a DEF LoadRow, Idle, JobType, OpponentWaits,
     OpponentPaysSecond
<1>10. ASSUME NEW p \in Procs, RecordConfirmed(p)
  PROVE OpponentWaits' /\ OpponentPaysSecond'
  BY <1>10, <1>0, <1>a DEF RecordConfirmed, Idle, JobType, RowType,
     OpponentWaits, OpponentPaysSecond
<1>11. ASSUME NEW p \in Procs, RecordTerminal(p)
  PROVE OpponentWaits' /\ OpponentPaysSecond'
  BY <1>11, <1>0, <1>a DEF RecordTerminal, Idle, JobType, RowType,
     OpponentWaits, OpponentPaysSecond
<1>12. ASSUME NEW p \in Procs, RecordFinalized(p)
  PROVE OpponentWaits' /\ OpponentPaysSecond'
  BY <1>12, <1>0, <1>a DEF RecordFinalized, Idle, JobType, RowType,
     OpponentWaits, OpponentPaysSecond
<1>13. ASSUME NEW p \in Procs, NEW t \in TxIds, BeginRecovery(p, t)
  PROVE OpponentWaits' /\ OpponentPaysSecond'
  BY <1>13, <1>0, <1>a DEF BeginRecovery, Idle, JobType, OpponentWaits,
     OpponentPaysSecond
<1>14. ASSUME NEW p \in Procs, ScanFound(p)
  PROVE OpponentWaits' /\ OpponentPaysSecond'
  BY <1>14, <1>0, <1>a DEF ScanFound, Idle, JobType, OpponentWaits,
     OpponentPaysSecond
<1>15. ASSUME NEW p \in Procs, ScanEmpty(p)
  PROVE OpponentWaits' /\ OpponentPaysSecond'
  BY <1>15, <1>0, <1>a DEF ScanEmpty, Idle, JobType, RowType, OpponentWaits,
     OpponentPaysSecond
<1>16. ASSUME NEW p \in Procs, BindRecovered(p)
  PROVE OpponentWaits' /\ OpponentPaysSecond'
  BY <1>16, <1>0, <1>a DEF BindRecovered, Idle, JobType, Bound, RowType,
     OpponentWaits, OpponentPaysSecond
<1>17. ASSUME NEW p \in Procs, RecordRecoveryAlert(p)
  PROVE OpponentWaits' /\ OpponentPaysSecond'
  BY <1>17, <1>0, <1>a DEF RecordRecoveryAlert, Idle, JobType, RowType,
     OpponentWaits, OpponentPaysSecond
<1>18. ASSUME NEW t \in TxIds, RecordWalletRejection(t)
  PROVE OpponentWaits' /\ OpponentPaysSecond'
  BY <1>18, <1>0, <1>a DEF RecordWalletRejection, RowType, OpponentWaits,
     OpponentPaysSecond
<1>19. ASSUME NEW t \in TxIds, BindSubmission(t)
  PROVE OpponentWaits' /\ OpponentPaysSecond'
  BY <1>19, <1>0, <1>a DEF BindSubmission, Bound, RowType, OpponentWaits,
     OpponentPaysSecond
<1>20. ASSUME NEW t \in TxIds, Sends(t)
  PROVE OpponentWaits' /\ OpponentPaysSecond'
  BY <1>20, <1>0, <1>a DEF Sends, OpponentWaits, OpponentPaysSecond
<1>21. ASSUME NEW t \in TxIds, Lands(t)
  PROVE OpponentWaits' /\ OpponentPaysSecond'
  BY <1>21, <1>0, <1>a DEF Lands, OpponentWaits, OpponentPaysSecond
<1>22. ASSUME NEW t \in TxIds, Finalizes(t)
  PROVE OpponentWaits' /\ OpponentPaysSecond'
  BY <1>22, <1>0, <1>a DEF Finalizes, OpponentWaits, OpponentPaysSecond
<1>23. ASSUME NEW t \in TxIds, HeightPasses(t)
  PROVE OpponentWaits' /\ OpponentPaysSecond'
  BY <1>23, <1>0, <1>a DEF HeightPasses, OpponentWaits, OpponentPaysSecond
<1>24. CASE DuelExpires
  BY <1>24, <1>0, <1>a DEF DuelExpires, OpponentWaits, OpponentPaysSecond
<1>25. CASE UNCHANGED vars
  BY <1>25, <1>0, <1>a DEF vars, OpponentWaits, OpponentPaysSecond
<1> QED
  BY <1>1, <1>2, <1>3, <1>4, <1>5, <1>6, <1>7, <1>8, <1>9, <1>10, <1>11,
     <1>12, <1>13, <1>14, <1>15, <1>16, <1>17, <1>18, <1>19, <1>20, <1>21,
     <1>22, <1>23, <1>24, <1>25
     DEF Next, Reconcile, Recover

\* The quorum is complete only over the finalized row of the other wallet.
LEMMA QuorumDeposits ==
  ASSUME FundingInv, NEW t \in TxIds, chain[t] \in Final,
         ResolveFundingQuorum(t) = "complete", NEW w \in Wallets
  PROVE  FinalDeposit(w)
<1>1. CASE w = rows[t].wallet
  BY <1>1 DEF FinalDeposit
<1>2. CASE w # rows[t].wallet
  <2>1. {u \in {v \in TxIds \ {t} : rows[v].st = "FINALIZED"} : rows[u].wallet = w} # {}
    BY <1>2 DEF ResolveFundingQuorum
  <2>2. HasRow(w, {"FINALIZED"})
    BY <2>1 DEF HasRow
  <2> QED
    BY <2>2, FinalizedRowDeposits
<1> QED
  BY <1>1, <1>2

\* FUNDED stays, and becomes, backed.
LEMMA FundedStep == FundingInv /\ [Next]_vars => FundedIsBacked'
<1> SUFFICES ASSUME FundingInv, [Next]_vars, duel'.status = "FUNDED"
             PROVE  \A w \in Wallets : FinalDeposit(w)'
  BY DEF FundedIsBacked
<1> DEFINE Goal == \A w \in Wallets : FinalDeposit(w)'
<1>0. TypeOK /\ JobsHoldIntents /\ FinalityIsStable /\ EscrowStored
  BY DEF FundingInv
<1>a. (\A w \in Wallets : FinalDeposit(w)) => Goal
  BY StepGrows, DepositStays
<1>b. duel.status = "FUNDED" => Goal
  BY <1>a DEF FundingInv, FundedIsBacked
<1> HIDE DEF Goal
<1>1. ASSUME Join PROVE Goal
  BY <1>1, <1>0, <1>b, JoinMoves
<1>2. ASSUME Cancel PROVE Goal
  BY <1>2, <1>0, <1>b, CancelMoves
<1>3. ASSUME NEW p \in Procs, ExpireTimedOut(p) PROVE Goal
  BY <1>3, <1>0, <1>b, TimeoutMoves
<1>4. ASSUME NEW p \in Procs, RecordTerminal(p) PROVE Goal
  BY <1>4, <1>0, <1>b, TerminalMoves
  DEF RecoveryStatusForTerminal, RecoveryStatusAfterTransactionFailure
<1>5. ASSUME NEW p \in Procs, RecordFinalized(p) PROVE Goal
  <2>1. duel.status # "FUNDED" => ResolveFundingQuorum(job[p].tx) = "complete"
    BY <1>5, <1>0, FinalizedMoves
  <2>2. job[p].tx \in TxIds /\ chain[job[p].tx] \in Final
    BY <1>5, <1>0 DEF RecordFinalized, JobsHoldIntents, FinalityIsStable
  <2> QED
    BY <1>a, <1>b, <2>1, <2>2, QuorumDeposits
<1>6. ASSUME NEW p \in Procs, BindRecovered(p) PROVE Goal
  BY <1>6, <1>0, <1>b, RecoveredMoves
<1>7. ASSUME NEW p \in Procs, RecordRecoveryAlert(p) PROVE Goal
  BY <1>7, <1>0, <1>b, AlertMoves DEF RecoveryAlertTarget
<1>8. ASSUME NEW t \in TxIds, BindSubmission(t) PROVE Goal
  BY <1>8, <1>0, <1>b, SubmissionMoves
<1> QED
  BY <1>1, <1>2, <1>3, <1>4, <1>5, <1>6, <1>7, <1>8, <1>b, DuelSteps DEF Goal

\* No status is its own successor.
LEMMA NoSelfLoop ==
  ASSUME NEW s \in DuelStatuses PROVE ~CanTransition(s, s)
  BY DEF CanTransition, AllowedTransitions, DuelStatuses

\* The escrow address is stored before a status needs it.
LEMMA EscrowStep == FundingInv /\ [Next]_vars => EscrowStored'
<1> SUFFICES ASSUME FundingInv, [Next]_vars PROVE EscrowStored'
  OBVIOUS
<1>0. TypeOK /\ EscrowStored
  BY DEF FundingInv
<1>a. duel' = duel => EscrowStored'
  BY <1>0 DEF EscrowStored
<1>1. CASE Join
  BY <1>1, <1>0, <1>a, JoinMoves DEF EscrowStored
<1>2. CASE Cancel
  BY <1>2, <1>0, <1>a, CancelMoves DEF EscrowStored
<1>3. ASSUME NEW p \in Procs, ExpireTimedOut(p) PROVE EscrowStored'
  BY <1>3, <1>0, <1>a, TimeoutMoves DEF EscrowStored
<1>4. ASSUME NEW p \in Procs, RecordTerminal(p) PROVE EscrowStored'
  <2>1. duel' # duel => duel'.status \in {"CANCELLED", "REFUNDING", "FAILED"}
    BY <1>4, <1>0, TerminalMoves, NoSelfLoop
    DEF TypeOK, DuelType, RecoveryStatusForTerminal, RecoveryStatusAfterTransactionFailure
  <2>2. duel' # duel /\ duel'.status = "REFUNDING" =>
          duel.status \in {"COMMITTING", "FUNDED"}
    BY <1>4, <1>0, TerminalMoves, NoSelfLoop
    DEF TypeOK, DuelType, RecoveryStatusForTerminal, RecoveryStatusAfterTransactionFailure,
        EscrowStored
  <2> QED
    BY <1>4, <1>0, <1>a, <2>1, <2>2, TerminalMoves DEF EscrowStored
<1>5. ASSUME NEW p \in Procs, RecordFinalized(p) PROVE EscrowStored'
  BY <1>5, <1>0, <1>a, FinalizedMoves DEF EscrowStored
<1>6. ASSUME NEW p \in Procs, BindRecovered(p) PROVE EscrowStored'
  <2>1. duel' # duel => duel'.status = "COMMITTING" /\ duel'.escrow
    BY <1>6, <1>0, RecoveredMoves DEF MayBind, EscrowStored
  <2> QED
    BY <1>a, <2>1 DEF EscrowStored
<1>7. ASSUME NEW p \in Procs, RecordRecoveryAlert(p) PROVE EscrowStored'
  <2>1. RecoveryAlertTarget(duel.status) \in {duel.status, "REFUNDING"}
    BY <1>0 DEF RecoveryAlertTarget, EscrowStored
  <2> QED
    BY <1>7, <1>0, <1>a, <2>1, AlertMoves DEF EscrowStored
<1>8. ASSUME NEW t \in TxIds, BindSubmission(t) PROVE EscrowStored'
  BY <1>8, <1>0, <1>a, SubmissionMoves DEF EscrowStored
<1> QED
  BY <1>1, <1>2, <1>3, <1>4, <1>5, <1>6, <1>7, <1>8, <1>a, DuelSteps

\* Every change of the duel row is a new version of it, and so is the first
\* finalized funding row, which only a committing duel accepts.
Versioned ==
  /\ duel' = duel \/ duel'.version = duel.version + 1
  /\ HasFinalizedFunding' =>
       \/ HasFinalizedFunding
       \/ /\ duel.status = "COMMITTING" /\ duel'.status # "CANCELLED"
          /\ duel'.version = duel.version + 1

\* Every step is versioned in this sense.
LEMMA VersionedStep == FundingInv /\ [Next]_vars => Versioned
<1> SUFFICES ASSUME FundingInv, [Next]_vars PROVE Versioned
  OBVIOUS
<1>0. TypeOK /\ rows \in [TxIds -> RowType] /\ JobsHoldIntents
  BY DEF FundingInv, TypeOK
<1>a. duel' = duel /\ rows' = rows => Versioned
  BY DEF Versioned, HasFinalizedFunding
<1>1. CASE Join
  BY <1>1, <1>0, JoinMoves DEF Versioned, HasFinalizedFunding, Join
<1>2. CASE Cancel
  BY <1>2, <1>0, CancelMoves DEF Versioned, HasFinalizedFunding, Cancel
<1>3. ASSUME NEW p \in Procs, ReadTimedOut(p) PROVE Versioned
  BY <1>3, <1>a DEF ReadTimedOut
<1>4. ASSUME NEW p \in Procs, ExpireTimedOut(p) PROVE Versioned
  BY <1>4, <1>0, TimeoutMoves DEF Versioned, HasFinalizedFunding, ExpireTimedOut
<1>5. ASSUME NEW p \in Procs, NEW w \in Wallets, BeginPrepare(p, w)
  PROVE Versioned
  BY <1>5, <1>a DEF BeginPrepare
<1>6. ASSUME NEW p \in Procs, NEW t \in TxIds, PersistPrepared(p, t)
  PROVE Versioned
  BY <1>6, <1>0 DEF Versioned, HasFinalizedFunding, NoRow, PersistPrepared
<1>7. ASSUME NEW p \in Procs, PersistRefused(p) PROVE Versioned
  BY <1>7, <1>a DEF PersistRefused
<1>8. ASSUME NEW p \in Procs, NEW t \in TxIds, ReadStatus(p, t) PROVE Versioned
  BY <1>8, <1>a DEF ReadStatus
<1>9. ASSUME NEW p \in Procs, LoadRow(p) PROVE Versioned
  BY <1>9, <1>a DEF LoadRow
<1>10. ASSUME NEW p \in Procs, RecordConfirmed(p) PROVE Versioned
  BY <1>10, <1>0 DEF Versioned, HasFinalizedFunding, RowType, RecordConfirmed
<1>11. ASSUME NEW p \in Procs, RecordTerminal(p) PROVE Versioned
  <2>1. HasFinalizedFunding' => HasFinalizedFunding
    BY <1>11, <1>0 DEF RecordTerminal, RowType, HasFinalizedFunding
  <2> QED
    BY <1>11, <1>0, <2>1, TerminalMoves DEF Versioned
<1>12. ASSUME NEW p \in Procs, RecordFinalized(p) PROVE Versioned
  <2>1. CASE duel.status # "COMMITTING"
    <3>1. HasFinalizedFunding' => HasFinalizedFunding
      BY <1>12, <1>0, <2>1 DEF RecordFinalized, RowType, HasFinalizedFunding
    <3> QED
      BY <1>12, <1>0, <2>1, <3>1, FinalizedMoves DEF Versioned
  <2>2. CASE duel.status = "COMMITTING"
    BY <1>12, <1>0, <2>2, FinalizedMoves DEF Versioned
  <2> QED
    BY <2>1, <2>2
<1>13. ASSUME NEW p \in Procs, NEW t \in TxIds, BeginRecovery(p, t)
  PROVE Versioned
  BY <1>13, <1>a DEF BeginRecovery
<1>14. ASSUME NEW p \in Procs, ScanFound(p) PROVE Versioned
  BY <1>14, <1>a DEF ScanFound
<1>15. ASSUME NEW p \in Procs, ScanEmpty(p) PROVE Versioned
  BY <1>15, <1>0 DEF Versioned, HasFinalizedFunding, RowType, ScanEmpty
<1>16. ASSUME NEW p \in Procs, BindRecovered(p) PROVE Versioned
  <2>1. HasFinalizedFunding' => HasFinalizedFunding
    BY <1>16, <1>0 DEF BindRecovered, Bound, RowType, HasFinalizedFunding
  <2> QED
    BY <1>16, <1>0, <2>1, RecoveredMoves DEF Versioned
<1>17. ASSUME NEW p \in Procs, RecordRecoveryAlert(p) PROVE Versioned
  <2>1. HasFinalizedFunding' => HasFinalizedFunding
    BY <1>17, <1>0 DEF RecordRecoveryAlert, RowType, HasFinalizedFunding
  <2> QED
    BY <1>17, <1>0, <2>1, AlertMoves DEF Versioned
<1>18. ASSUME NEW t \in TxIds, RecordWalletRejection(t) PROVE Versioned
  BY <1>18, <1>0 DEF Versioned, HasFinalizedFunding, RowType,
     RecordWalletRejection
<1>19. ASSUME NEW t \in TxIds, BindSubmission(t) PROVE Versioned
  <2>1. HasFinalizedFunding' => HasFinalizedFunding
    BY <1>19, <1>0 DEF BindSubmission, Bound, RowType, HasFinalizedFunding
  <2> QED
    BY <1>19, <1>0, <2>1, SubmissionMoves DEF Versioned
<1>20. ASSUME NEW t \in TxIds, Sends(t) PROVE Versioned
  BY <1>20, <1>a DEF Sends
<1>21. ASSUME NEW t \in TxIds, Lands(t) PROVE Versioned
  BY <1>21, <1>a DEF Lands
<1>22. ASSUME NEW t \in TxIds, Finalizes(t) PROVE Versioned
  BY <1>22, <1>a DEF Finalizes
<1>23. ASSUME NEW t \in TxIds, HeightPasses(t) PROVE Versioned
  BY <1>23, <1>a DEF HeightPasses
<1>24. CASE DuelExpires
  BY <1>24, <1>a DEF DuelExpires
<1>25. CASE UNCHANGED vars
  BY <1>25, <1>a DEF vars
<1> QED
  BY <1>1, <1>2, <1>3, <1>4, <1>5, <1>6, <1>7, <1>8, <1>9, <1>10, <1>11,
     <1>12, <1>13, <1>14, <1>15, <1>16, <1>17, <1>18, <1>19, <1>20, <1>21,
     <1>22, <1>23, <1>24, <1>25
     DEF Next, Reconcile, Recover

\* A sweep holds the snapshot it read, or reads one now.
Snapshot(p) ==
  job'[p].op = "timeout" =>
    \/ job'[p] = job[p]
    \/ /\ duel' = duel /\ rows' = rows
       /\ job'[p].version = duel.version
       /\ job'[p].funded = HasFinalizedFunding

\* No other process touches a snapshot.
LEMMA SnapshotKept == FundingInv /\ [Next]_vars => \A q \in Procs : Snapshot(q)
<1> SUFFICES ASSUME FundingInv, [Next]_vars, NEW q \in Procs PROVE Snapshot(q)
  OBVIOUS
<1>0. job \in [Procs -> JobType]
  BY DEF FundingInv, TypeOK
<1>1. CASE Join
  BY <1>1, <1>0 DEF Join, Snapshot
<1>2. CASE Cancel
  BY <1>2, <1>0 DEF Cancel, Snapshot
<1>3. ASSUME NEW p \in Procs, ReadTimedOut(p) PROVE Snapshot(q)
  <2>1. HasFinalizedFunding \in BOOLEAN /\ duel.version \in Nat /\ duel.status \in DuelStatuses
    BY DEF FundingInv, TypeOK, DuelType, HasFinalizedFunding
  <2>2. job' = [job EXCEPT ![p] = [Idle EXCEPT !.op = "timeout",
                  !.saw = duel.status, !.version = duel.version,
                  !.funded = HasFinalizedFunding]]
        /\ duel' = duel /\ rows' = rows
    BY <1>3 DEF ReadTimedOut
  <2> HIDE DEF HasFinalizedFunding
  <2> QED
    BY <1>0, <2>1, <2>2 DEF Snapshot, Idle, JobType
<1>4. ASSUME NEW p \in Procs, ExpireTimedOut(p) PROVE Snapshot(q)
  BY <1>4, <1>0 DEF ExpireTimedOut, Idle, JobType, Snapshot
<1>5. ASSUME NEW p \in Procs, NEW w \in Wallets, BeginPrepare(p, w)
  PROVE Snapshot(q)
  BY <1>5, <1>0 DEF BeginPrepare, Idle, JobType, Snapshot
<1>6. ASSUME NEW p \in Procs, NEW t \in TxIds, PersistPrepared(p, t)
  PROVE Snapshot(q)
  BY <1>6, <1>0 DEF PersistPrepared, Idle, JobType, Snapshot
<1>7. ASSUME NEW p \in Procs, PersistRefused(p) PROVE Snapshot(q)
  BY <1>7, <1>0 DEF PersistRefused, Idle, JobType, Snapshot
<1>8. ASSUME NEW p \in Procs, NEW t \in TxIds, ReadStatus(p, t)
  PROVE Snapshot(q)
  BY <1>8, <1>0 DEF ReadStatus, Idle, JobType, Snapshot
<1>9. ASSUME NEW p \in Procs, LoadRow(p) PROVE Snapshot(q)
  BY <1>9, <1>0 DEF LoadRow, Idle, JobType, Snapshot
<1>10. ASSUME NEW p \in Procs, RecordConfirmed(p) PROVE Snapshot(q)
  BY <1>10, <1>0 DEF RecordConfirmed, Idle, JobType, Snapshot
<1>11. ASSUME NEW p \in Procs, RecordTerminal(p) PROVE Snapshot(q)
  BY <1>11, <1>0 DEF RecordTerminal, Idle, JobType, Snapshot
<1>12. ASSUME NEW p \in Procs, RecordFinalized(p) PROVE Snapshot(q)
  BY <1>12, <1>0 DEF RecordFinalized, Idle, JobType, Snapshot
<1>13. ASSUME NEW p \in Procs, NEW t \in TxIds, BeginRecovery(p, t)
  PROVE Snapshot(q)
  BY <1>13, <1>0 DEF BeginRecovery, Idle, JobType, Snapshot
<1>14. ASSUME NEW p \in Procs, ScanFound(p) PROVE Snapshot(q)
  BY <1>14, <1>0 DEF ScanFound, Idle, JobType, Snapshot
<1>15. ASSUME NEW p \in Procs, ScanEmpty(p) PROVE Snapshot(q)
  BY <1>15, <1>0 DEF ScanEmpty, Idle, JobType, Snapshot
<1>16. ASSUME NEW p \in Procs, BindRecovered(p) PROVE Snapshot(q)
  BY <1>16, <1>0 DEF BindRecovered, Idle, JobType, Snapshot
<1>17. ASSUME NEW p \in Procs, RecordRecoveryAlert(p) PROVE Snapshot(q)
  BY <1>17, <1>0 DEF RecordRecoveryAlert, Idle, JobType, Snapshot
<1>18. ASSUME NEW t \in TxIds, RecordWalletRejection(t) PROVE Snapshot(q)
  BY <1>18, <1>0 DEF RecordWalletRejection, Snapshot
<1>19. ASSUME NEW t \in TxIds, BindSubmission(t) PROVE Snapshot(q)
  BY <1>19, <1>0 DEF BindSubmission, Snapshot
<1>20. ASSUME NEW t \in TxIds, Sends(t) PROVE Snapshot(q)
  BY <1>20, <1>0 DEF Sends, Snapshot
<1>21. ASSUME NEW t \in TxIds, Lands(t) PROVE Snapshot(q)
  BY <1>21, <1>0 DEF Lands, Snapshot
<1>22. ASSUME NEW t \in TxIds, Finalizes(t) PROVE Snapshot(q)
  BY <1>22, <1>0 DEF Finalizes, Snapshot
<1>23. ASSUME NEW t \in TxIds, HeightPasses(t) PROVE Snapshot(q)
  BY <1>23, <1>0 DEF HeightPasses, Snapshot
<1>24. CASE DuelExpires
  BY <1>24, <1>0 DEF DuelExpires, Snapshot
<1>25. CASE UNCHANGED vars
  BY <1>25, <1>0 DEF vars, Snapshot
<1> QED
  BY <1>1, <1>2, <1>3, <1>4, <1>5, <1>6, <1>7, <1>8, <1>9, <1>10, <1>11,
     <1>12, <1>13, <1>14, <1>15, <1>16, <1>17, <1>18, <1>19, <1>20, <1>21,
     <1>22, <1>23, <1>24, <1>25
     DEF Next, Reconcile, Recover

\* A snapshot ages truthfully.
LEMMA SnapshotStep == FundingInv /\ [Next]_vars => SnapshotsAge'
<1> SUFFICES ASSUME FundingInv, [Next]_vars, NEW p \in Procs,
                    job'[p].op = "timeout"
             PROVE  /\ job'[p].version <= duel'.version
                    /\ job'[p].version = duel'.version /\ ~job'[p].funded
                         => ~HasFinalizedFunding'
  BY DEF SnapshotsAge
<1>0. /\ duel.version \in Nat /\ job[p].version \in Nat
      /\ Versioned /\ Snapshot(p)
  BY VersionedStep, SnapshotKept DEF FundingInv, TypeOK, DuelType, JobType
<1>1. CASE job'[p] = job[p]
  <2>1. /\ job[p].version <= duel.version
        /\ job[p].version = duel.version /\ ~job[p].funded => ~HasFinalizedFunding
    BY <1>1 DEF FundingInv, SnapshotsAge
  <2> QED
    BY <1>0, <1>1, <2>1 DEF Versioned
<1>2. CASE job'[p] # job[p]
  <2>1. /\ duel' = duel /\ rows' = rows /\ job'[p].version = duel.version
        /\ job'[p].funded = HasFinalizedFunding
    BY <1>0, <1>2 DEF Snapshot
  <2>2. HasFinalizedFunding' = HasFinalizedFunding
    BY <2>1 DEF HasFinalizedFunding
  <2> QED
    BY <1>0, <2>1, <2>2
<1> QED
  BY <1>1, <1>2

\* The sweep spares finalized funding.
LEMMA TimeoutStep ==
  FundingInv /\ [Next]_vars => TimeoutSparesFinalizedFunding'
<1> SUFFICES ASSUME FundingInv, [Next]_vars, HasFinalizedFunding',
                    duel'.reason = "commitment_timeout",
                    duel'.status = "CANCELLED"
             PROVE  FALSE
  BY DEF TimeoutSparesFinalizedFunding
<1>0. TypeOK /\ Versioned /\ EscrowStored
  BY VersionedStep DEF FundingInv
<1>a. HasFinalizedFunding
  BY <1>0 DEF Versioned
<1>b. duel' # duel
  BY <1>a DEF FundingInv, TimeoutSparesFinalizedFunding
<1>1. CASE Join
  BY <1>1, <1>0, <1>b, JoinMoves
<1>2. CASE Cancel
  BY <1>2, <1>0, <1>b, CancelMoves
<1>3. ASSUME NEW p \in Procs, ExpireTimedOut(p) PROVE FALSE
  <2>1. job[p].op = "timeout"
    BY <1>3 DEF ExpireTimedOut
  <2>2. job[p].version = duel.version /\ ~job[p].funded
    BY <1>3, <1>0, <1>b, TimeoutMoves
  <2> QED
    BY <1>a, <2>1, <2>2 DEF FundingInv, SnapshotsAge
<1>4. ASSUME NEW p \in Procs, RecordTerminal(p) PROVE FALSE
  BY <1>4, <1>0, <1>b, TerminalMoves
<1>5. ASSUME NEW p \in Procs, RecordFinalized(p) PROVE FALSE
  BY <1>5, <1>0, <1>b, FinalizedMoves
<1>6. ASSUME NEW p \in Procs, BindRecovered(p) PROVE FALSE
  BY <1>6, <1>0, <1>b, RecoveredMoves
<1>7. ASSUME NEW p \in Procs, RecordRecoveryAlert(p) PROVE FALSE
  <2>1. duel.status = "CANCELLED" /\ duel.reason = "commitment_timeout"
    BY <1>7, <1>0, <1>b, AlertMoves DEF RecoveryAlertTarget
  <2> QED
    BY <1>a, <2>1 DEF FundingInv, TimeoutSparesFinalizedFunding
<1>8. ASSUME NEW t \in TxIds, BindSubmission(t) PROVE FALSE
  BY <1>8, <1>0, <1>b, SubmissionMoves
<1> QED
  BY <1>1, <1>2, <1>3, <1>4, <1>5, <1>6, <1>7, <1>8, <1>b, DuelSteps

\* No step unsettles what the block height has settled.
LEMMA HeightStep == FundingInv /\ [Next]_vars => HeightSettles'
<1> SUFFICES ASSUME FundingInv, [Next]_vars PROVE HeightSettles'
  OBVIOUS
<1>0. /\ rows \in [TxIds -> RowType] /\ job \in [Procs -> JobType]
      /\ chain \in [TxIds -> ChainStates] /\ height \in [TxIds -> 0..2]
      /\ JobsHoldIntents /\ HeightSettles /\ RowsHaveOwners
  BY DEF FundingInv, TypeOK
<1> USE DEF OnChain
<1>1. CASE Join
  BY <1>1, <1>0 DEF Join, HeightSettles
<1>2. CASE Cancel
  BY <1>2, <1>0 DEF Cancel, HeightSettles
<1>3. ASSUME NEW p \in Procs, ReadTimedOut(p) PROVE HeightSettles'
  BY <1>3, <1>0 DEF ReadTimedOut, Idle, JobType, HeightSettles
<1>4. ASSUME NEW p \in Procs, ExpireTimedOut(p) PROVE HeightSettles'
  BY <1>4, <1>0 DEF ExpireTimedOut, Idle, JobType, HeightSettles
<1>5. ASSUME NEW p \in Procs, NEW w \in Wallets, BeginPrepare(p, w)
  PROVE HeightSettles'
  BY <1>5, <1>0 DEF BeginPrepare, Idle, JobType, HeightSettles
<1>6. ASSUME NEW p \in Procs, NEW t \in TxIds, PersistPrepared(p, t)
  PROVE HeightSettles'
  BY <1>6, <1>0 DEF PersistPrepared, Idle, JobType, NoRow, RowType,
     HeightSettles
<1>7. ASSUME NEW p \in Procs, PersistRefused(p) PROVE HeightSettles'
  BY <1>7, <1>0 DEF PersistRefused, Idle, JobType, HeightSettles
<1>8. ASSUME NEW p \in Procs, NEW t \in TxIds, ReadStatus(p, t)
  PROVE HeightSettles'
  BY <1>8, <1>0 DEF ReadStatus, Idle, JobType, HeightSettles
<1>9. ASSUME NEW p \in Procs, LoadRow(p) PROVE HeightSettles'
  BY <1>9, <1>0 DEF LoadRow, Idle, JobType, JobsHoldIntents, HeightSettles
<1>10. ASSUME NEW p \in Procs, RecordConfirmed(p) PROVE HeightSettles'
  BY <1>10, <1>0 DEF RecordConfirmed, Idle, JobType, RowType, HeightSettles
<1>11. ASSUME NEW p \in Procs, RecordTerminal(p) PROVE HeightSettles'
  BY <1>11, <1>0 DEF RecordTerminal, Idle, JobType, RowType, HeightSettles
<1>12. ASSUME NEW p \in Procs, RecordFinalized(p) PROVE HeightSettles'
  <2>1. /\ chain' = chain /\ height' = height
        /\ \A t \in TxIds :
             rows'[t].code \in {"WALLET_REJECTED", "NOT_FOUND_AFTER_FINALITY"}
               => rows'[t].code = rows[t].code
    <3>1. PICK r, c :
            /\ c \notin {"WALLET_REJECTED", "NOT_FOUND_AFTER_FINALITY"}
            /\ rows' = [rows EXCEPT ![job[p].tx].st = r, ![job[p].tx].code = c]
      <4>1. CASE duel.status # "COMMITTING"
        BY <1>12, <4>1 DEF RecordFinalized
      <4>2. CASE duel.status = "COMMITTING"
        <5> DEFINE c == IF ResolveFundingQuorum(job[p].tx) = "invalid"
                        THEN "FUNDING_QUORUM_INVALID" ELSE "none"
        <5>1. c \notin {"WALLET_REJECTED", "NOT_FOUND_AFTER_FINALITY"}
          OBVIOUS
        <5>2. rows' = [rows EXCEPT ![job[p].tx].st = "FINALIZED",
                                   ![job[p].tx].code = c]
          BY <1>12, <4>2 DEF RecordFinalized
        <5> HIDE DEF c
        <5> QED
          BY <5>1, <5>2
      <4> QED
        BY <4>1, <4>2
    <3> QED
      BY <1>12, <1>0, <3>1 DEF RecordFinalized, RowType
  <2>2. \A q \in Procs : job'[q].op = "scan" => job'[q] = job[q]
    BY <1>12, <1>0 DEF RecordFinalized, Idle, JobType
  <2> QED
    BY <1>0, <2>1, <2>2 DEF HeightSettles
<1>13. ASSUME NEW p \in Procs, NEW t \in TxIds, BeginRecovery(p, t)
  PROVE HeightSettles'
  BY <1>13, <1>0 DEF BeginRecovery, Idle, JobType, HeightSettles
<1>14. ASSUME NEW p \in Procs, ScanFound(p) PROVE HeightSettles'
  BY <1>14, <1>0 DEF ScanFound, Idle, JobType, JobsHoldIntents, HeightSettles
<1>15. ASSUME NEW p \in Procs, ScanEmpty(p) PROVE HeightSettles'
  BY <1>15, <1>0 DEF ScanEmpty, Idle, JobType, RowType, AbsenceIsFinal,
     JobsHoldIntents, HeightSettles
<1>16. ASSUME NEW p \in Procs, BindRecovered(p) PROVE HeightSettles'
  <2>1. /\ chain' = chain /\ height' = height
        /\ \A t \in TxIds :
             rows'[t].code \in {"WALLET_REJECTED", "NOT_FOUND_AFTER_FINALITY"}
               => rows'[t].code = rows[t].code
    <3>1. /\ chain' = chain /\ height' = height
          /\ rows' = rows \/ rows' = Bound(job[p].tx)
      BY <1>16 DEF BindRecovered
    <3> QED
      BY <1>0, <3>1 DEF Bound, RowType
  <2>2. \A q \in Procs : job'[q].op = "scan" => job'[q] = job[q]
    BY <1>16, <1>0 DEF BindRecovered, Idle, JobType
  <2> QED
    BY <1>0, <2>1, <2>2 DEF HeightSettles
<1>17. ASSUME NEW p \in Procs, RecordRecoveryAlert(p) PROVE HeightSettles'
  <2>1. /\ chain' = chain /\ height' = height
        /\ \A t \in TxIds :
             rows'[t].code \in {"WALLET_REJECTED", "NOT_FOUND_AFTER_FINALITY"}
               => rows'[t].code = rows[t].code
    BY <1>17, <1>0 DEF RecordRecoveryAlert, RowType
  <2>2. \A q \in Procs : job'[q].op = "scan" => job'[q] = job[q]
    BY <1>17, <1>0 DEF RecordRecoveryAlert, Idle, JobType
  <2> QED
    BY <1>0, <2>1, <2>2 DEF HeightSettles
<1>18. ASSUME NEW t \in TxIds, RecordWalletRejection(t) PROVE HeightSettles'
  BY <1>18, <1>0 DEF RecordWalletRejection, RowType, HeightSettles
<1>19. ASSUME NEW t \in TxIds, BindSubmission(t) PROVE HeightSettles'
  BY <1>19, <1>0 DEF BindSubmission, Bound, RowType, HeightSettles
<1>20. ASSUME NEW t \in TxIds, Sends(t) PROVE HeightSettles'
  BY <1>20, <1>0 DEF Sends, RowsHaveOwners, RowType, HeightSettles
<1>21. ASSUME NEW t \in TxIds, Lands(t) PROVE HeightSettles'
  BY <1>21, <1>0 DEF Lands, RowsHaveOwners, RowType, HeightSettles
<1>22. ASSUME NEW t \in TxIds, Finalizes(t) PROVE HeightSettles'
  BY <1>22, <1>0 DEF Finalizes, RowsHaveOwners, RowType, HeightSettles
<1>23. ASSUME NEW t \in TxIds, HeightPasses(t) PROVE HeightSettles'
  <2>1. /\ rows' = rows /\ job' = job
        /\ \A u \in TxIds \ {t} : chain'[u] = chain[u] /\ height'[u] = height[u]
        /\ height'[t] = height[t] + 1 /\ height[t] \in {0, 1}
    BY <1>23, <1>0 DEF HeightPasses
  <2>2. /\ chain'[t] = IF chain[t] = "sent" THEN "dropped" ELSE chain[t]
        /\ height[t] = 0 => chain[t] # "confirmed"
        /\ height[t] = 1 /\ IndexKeepsHistory => chain[t] # "finalized"
    BY <1>23, <1>0 DEF HeightPasses
  <2>3. \A u \in TxIds : height[u] \in 0..2 /\ height'[u] >= height[u]
    BY <1>0, <2>1
  <2>4. \A q \in Procs :
          job[q].op = "scan" => job[q].tx \in TxIds /\ job[q].height \in 0..2
    BY <1>0 DEF JobsHoldIntents, JobType
  <2>5. \A q \in Procs : job'[q].op = "scan" => job'[q].height <= height'[job'[q].tx]
    BY <1>0, <2>1, <2>3, <2>4 DEF HeightSettles
  <2>6. /\ height'[t] > 0 => chain'[t] \notin {"sent", "confirmed"}
        /\ IndexKeepsHistory /\ height'[t] = 2 => chain'[t] # "finalized"
        /\ rows[t].code = "WALLET_REJECTED" => chain'[t] = "declined"
        /\ IndexKeepsHistory /\ rows[t].code = "NOT_FOUND_AFTER_FINALITY" =>
             height'[t] = 2 /\ chain'[t] \notin OnChain
    BY <1>0, <2>1, <2>2 DEF HeightSettles
  <2> QED
    BY <1>0, <2>1, <2>5, <2>6 DEF HeightSettles
<1>24. CASE DuelExpires
  BY <1>24, <1>0 DEF DuelExpires, HeightSettles
<1>25. CASE UNCHANGED vars
  BY <1>25, <1>0 DEF vars, HeightSettles
<1> QED
  BY <1>1, <1>2, <1>3, <1>4, <1>5, <1>6, <1>7, <1>8, <1>9, <1>10, <1>11,
     <1>12, <1>13, <1>14, <1>15, <1>16, <1>17, <1>18, <1>19, <1>20, <1>21,
     <1>22, <1>23, <1>24, <1>25
     DEF Next, Reconcile, Recover

\* The invariant holds of a duel just created.
LEMMA InitInv == Init => FundingInv
<1> SUFFICES ASSUME Init PROVE FundingInv
  OBVIOUS
<1>1. duel \in DuelType
  <2>1. "none" \in Reasons /\ 1 \in Nat /\ FALSE \in BOOLEAN
    BY DEF Reasons
  <2>2. \A s \in DuelStatuses, o \in {Opponent, NoWallet} :
          [status |-> s, version |-> 1, escrow |-> FALSE, opponent |-> o,
           reason |-> "none"] \in DuelType
    BY <2>1 DEF DuelType
  <2>3. Create(TRUE) \in DuelType /\ Create(FALSE) \in DuelType
    BY <2>2, Names DEF Create
  <2> QED
    BY <2>3 DEF Init
<1>2. /\ duel.status \in {"WAITING", "MATCHED"} /\ duel.reason = "none"
  BY DEF Init, Create
<1>3. TypeOK
  <2>1. rows \in [TxIds -> RowType] /\ job \in [Procs -> JobType]
    BY IdleType, NoRowType DEF Init
  <2>2. chain \in [TxIds -> ChainStates] /\ height \in [TxIds -> 0..2]
    BY DEF Init, ChainStates
  <2>3. expired \in BOOLEAN
    BY DEF Init
  <2> QED
    BY <1>1, <2>1, <2>2, <2>3 DEF TypeOK
<1>4. \A t \in TxIds : rows[t] = NoRow /\ chain[t] = "unsent"
  BY DEF Init
<1>5. \A p \in Procs : job[p].op = "idle"
  BY DEF Init, Idle
<1>6. \A t \in TxIds : rows[t].st = "NONE" /\ rows[t].wallet = NoWallet
  BY <1>4 DEF NoRow
<1>7. RowsHaveOwners /\ JobsHoldIntents /\ FinalityIsStable
  BY <1>4, <1>5, <1>6 DEF RowsHaveOwners, JobsHoldIntents, FinalityIsStable
<1>8. OpponentWaits /\ OpponentPaysSecond
  BY <1>5, <1>6, FundingConstants DEF OpponentWaits, OpponentPaysSecond, Wallets
<1>9. FundedIsBacked /\ EscrowStored /\ TimeoutSparesFinalizedFunding
  BY <1>2 DEF FundedIsBacked, EscrowStored, TimeoutSparesFinalizedFunding
<1>10. SnapshotsAge
  BY <1>5 DEF SnapshotsAge
<1>11. HeightSettles
  <2>1. \A t \in TxIds : height[t] = 0 /\ rows[t].code = "none"
    BY <1>4 DEF Init, NoRow
  <2> QED
    BY <1>5, <2>1 DEF HeightSettles
<1> QED
  BY <1>3, <1>7, <1>8, <1>9, <1>10, <1>11 DEF FundingInv

\* The invariant is inductive.
LEMMA InvStep == FundingInv /\ [Next]_vars => FundingInv'
<1> SUFFICES ASSUME FundingInv, [Next]_vars PROVE FundingInv'
  OBVIOUS
<1>1. TypeOK'
  BY TypeStep DEF FundingInv
<1>2. RowsHaveOwners' /\ JobsHoldIntents' /\ FinalityIsStable'
  BY OwnersStep, JobsStep, FinalityStep
<1>3. OpponentWaits' /\ OpponentPaysSecond' /\ FundedIsBacked'
  BY OpponentStep, FundedStep
<1>4. EscrowStored' /\ SnapshotsAge' /\ TimeoutSparesFinalizedFunding'
  BY EscrowStep, SnapshotStep, TimeoutStep
<1>5. HeightSettles'
  BY HeightStep
<1> QED
  BY <1>1, <1>2, <1>3, <1>4, <1>5 DEF FundingInv

\* The inductive invariant: what every reachable state of the duel row, the
\* funding rows, the requests in flight and the cluster has in common.
THEOREM FundingInvariant == Spec => []FundingInv
<1> QED
  BY InitInv, InvStep, PTL DEF Spec

\* Every handler of the funding path writes well-formed rows.
THEOREM TypeCorrect == Spec => []TypeOK
<1>1. FundingInv => TypeOK
  BY DEF FundingInv
<1> QED
  BY <1>1, FundingInvariant, PTL

\* finalizeFundingSide says FUNDED only over a final deposit of each wallet,
\* whatever requests and passes are in flight.
THEOREM FundedBacked == Spec => []FundedIsBacked
<1>1. FundingInv => FundedIsBacked
  BY DEF FundingInv
<1> QED
  BY <1>1, FundingInvariant, PTL

\* prepare asks the opponent for money only after the creator's is final.
THEOREM OpponentSecond == Spec => []OpponentPaysSecond
<1>1. FundingInv => OpponentPaysSecond
  BY DEF FundingInv
<1> QED
  BY <1>1, FundingInvariant, PTL

\* expireTimedOut never cancels a committing duel over a finalized row, though
\* it decides on a snapshot: the version guard suffices.
THEOREM TimeoutSpares == Spec => []TimeoutSparesFinalizedFunding
<1>1. FundingInv => TimeoutSparesFinalizedFunding
  BY DEF FundingInv
<1> QED
  BY <1>1, FundingInvariant, PTL

\* A duel in refund recovery has stored its escrow address.
THEOREM RefundHasEscrow == Spec => []RefundKnowsEscrow
<1>1. FundingInv => RefundKnowsEscrow
  BY DEF FundingInv, EscrowStored, RefundKnowsEscrow
<1> QED
  BY <1>1, FundingInvariant, PTL

\* recordPreparedRecoveryExpired and recordWalletRejection close an intent that
\* made no deposit, if the RPC indexes what is finalized within the buffer.
THEOREM AbsenceCertified == Spec => [](IndexKeepsHistory => AbsenceIsCertain)
<1>1. FundingInv => (IndexKeepsHistory => AbsenceIsCertain)
  BY DEF FundingInv, HeightSettles, AbsenceIsCertain, OnChain
<1> QED
  BY <1>1, FundingInvariant, PTL

(***************************************************************************)
(* DuelFunding implements DuelPromise.                                     *)
(***************************************************************************)
deposits == {w \in Wallets : FinalDeposit(w)}

\* A step that leaves the cluster alone makes and undoes no deposit.
LEMMA DepositsStay ==
  ASSUME FundingInv, [Next]_vars, chain' = chain
  PROVE  deposits' = deposits
<1>1. ASSUME NEW w \in Wallets, FinalDeposit(w)' PROVE FinalDeposit(w)
  <2>1. PICK t \in TxIds : rows'[t].wallet = w /\ chain[t] \in Final
    BY <1>1 DEF FinalDeposit
  <2>2. rows[t].st # "NONE"
    BY <2>1 DEF FundingInv, RowsHaveOwners, Final
  <2>3. rows[t].wallet = w
    BY <2>1, <2>2, StepGrows DEF Grows
  <2> QED
    BY <2>1, <2>3 DEF FinalDeposit
<1>2. \A w \in Wallets : FinalDeposit(w) => FinalDeposit(w)'
  BY StepGrows, DepositStays
<1> QED
  BY <1>1, <1>2 DEF deposits, Wallets

\* The status after a step, as the promise sees it.
Promised ==
  \/ duel'.status = duel.status
  \/ /\ CanTransition(duel.status, duel'.status)
     /\ duel'.status = "FUNDED" => \A w \in Wallets : FinalDeposit(w)
  \/ /\ \E w \in Wallets : FinalDeposit(w)
     /\ duel'.status = RecoveryAlertTarget(duel.status)

\* The edges of the graph that funding uses.
LEMMA Edges ==
  /\ CanTransition("WAITING", "MATCHED") /\ CanTransition("WAITING", "CANCELLED")
  /\ CanTransition("MATCHED", "CANCELLED") /\ CanTransition("MATCHED", "COMMITTING")
  /\ CanTransition("COMMITTING", "CANCELLED")
  /\ CanTransition("COMMITTING", "REFUNDING")
  /\ CanTransition("COMMITTING", "FUNDED")
  BY DEF CanTransition, AllowedTransitions, DuelStatuses

\* Every step moves the status as promised.
LEMMA PromisedStep == FundingInv /\ [Next]_vars => Promised
<1> SUFFICES ASSUME FundingInv, [Next]_vars PROVE Promised
  OBVIOUS
<1>0. TypeOK /\ JobsHoldIntents /\ FinalityIsStable /\ RowsHaveOwners
  BY DEF FundingInv
<1>a. duel' = duel => Promised
  BY DEF Promised
<1>1. CASE Join
  BY <1>1, <1>0, Edges, JoinMoves DEF Promised, Join
<1>2. CASE Cancel
  BY <1>2, <1>0, Edges, CancelMoves
  DEF Promised, Cancel, ACTIVE_TIMEOUT_STATUSES
<1>3. ASSUME NEW p \in Procs, ExpireTimedOut(p) PROVE Promised
  <2>1. duel' # duel => duel.status \in {"WAITING", "MATCHED", "COMMITTING"}
    BY <1>3, <1>0, TimeoutMoves
    DEF ExpireTimedOut, JobsHoldIntents, ACTIVE_TIMEOUT_STATUSES
  <2> QED
    BY <1>3, <1>0, <1>a, <2>1, Edges, TimeoutMoves DEF Promised
<1>4. ASSUME NEW p \in Procs, RecordTerminal(p) PROVE Promised
  <2>1. duel' # duel => duel'.status # "FUNDED"
    BY <1>4, <1>0, TerminalMoves, NoSelfLoop
    DEF RecoveryStatusForTerminal, RecoveryStatusAfterTransactionFailure,
        TypeOK, DuelType
  <2> QED
    BY <1>4, <1>0, <1>a, <2>1, TerminalMoves DEF Promised
<1>5. ASSUME NEW p \in Procs, RecordFinalized(p) PROVE Promised
  <2>1. job[p].tx \in TxIds /\ chain[job[p].tx] \in Final
    BY <1>5, <1>0 DEF RecordFinalized, JobsHoldIntents, FinalityIsStable
  <2>2. duel'.status = "FUNDED" /\ duel.status = "COMMITTING" =>
          \A w \in Wallets : FinalDeposit(w)
    BY <1>5, <1>0, <2>1, FinalizedMoves, QuorumDeposits
  <2> QED
    BY <1>5, <1>0, <1>a, <2>2, Edges, FinalizedMoves DEF Promised
<1>6. ASSUME NEW p \in Procs, BindRecovered(p) PROVE Promised
  <2>1. duel' # duel => duel.status \in {"MATCHED", "COMMITTING"}
    BY <1>6, <1>0, RecoveredMoves DEF MayBind, EntersCommitting
  <2> QED
    BY <1>6, <1>0, <1>a, <2>1, Edges, RecoveredMoves DEF Promised
<1>7. ASSUME NEW p \in Procs, RecordRecoveryAlert(p) PROVE Promised
  <2>1. FinalDeposit(rows[job[p].tx].wallet) /\ rows[job[p].tx].wallet \in Wallets
    BY <1>7, <1>0 DEF RecordRecoveryAlert, JobsHoldIntents, FinalityIsStable,
                     RowsHaveOwners, FinalDeposit
  <2> QED
    BY <1>7, <1>0, <1>a, <2>1, AlertMoves DEF Promised
<1>8. ASSUME NEW t \in TxIds, BindSubmission(t) PROVE Promised
  BY <1>8, <1>0, <1>a, Edges, SubmissionMoves DEF Promised
<1> QED
  BY <1>1, <1>2, <1>3, <1>4, <1>5, <1>6, <1>7, <1>8, <1>a, DuelSteps

\* A step of the cluster adds at most the wallet of one intent.
LEMMA DepositStep ==
  ASSUME FundingInv, NEW t \in TxIds, Finalizes(t)
  PROVE  deposits' = deposits \/ \E w \in Wallets : deposits' = deposits \cup {w}
<1>0. PICK w : w = rows[t].wallet
  OBVIOUS
<1>1. /\ chain \in [TxIds -> ChainStates] /\ rows' = rows
      /\ \A u \in TxIds : u # t => chain'[u] = chain[u]
      /\ chain'[t] \in Final
  BY DEF Finalizes, FundingInv, TypeOK, Final
<1>2. w \in Wallets
  BY <1>0 DEF Finalizes, FundingInv, RowsHaveOwners
<1>3. FinalDeposit(w)'
  BY <1>0, <1>1 DEF FinalDeposit
<1>4. \A v \in Wallets : v # w => (FinalDeposit(v)' <=> FinalDeposit(v))
  BY <1>0, <1>1 DEF FinalDeposit
<1>5. \A v : v \in deposits' <=> v \in deposits \cup {w}
  BY <1>2, <1>3, <1>4 DEF deposits
<1>6. deposits' = deposits \cup {w}
  BY <1>5 DEF deposits
<1> QED
  BY <1>2, <1>6

\* Only the wallet and the cluster change what the cluster knows.
LEMMA ClusterSteps ==
  ASSUME [Next]_vars, chain' # chain
  PROVE  \E t \in TxIds : Sends(t) \/ Lands(t) \/ Finalizes(t) \/ HeightPasses(t)
  BY DEF Next, Reconcile, Recover, vars, Join, Cancel, ReadTimedOut,
         ExpireTimedOut, BeginPrepare, PersistPrepared, PersistRefused,
         ReadStatus, LoadRow, RecordConfirmed, RecordTerminal, RecordFinalized,
         BeginRecovery, ScanFound, ScanEmpty, BindRecovered,
         RecordRecoveryAlert, RecordWalletRejection, BindSubmission, DuelExpires

\* A step that changes the cluster leaves the duel row and adds at most one
\* deposit.
LEMMA ClusterStays ==
  ASSUME FundingInv, [Next]_vars
  PROVE  \/ chain' = chain
         \/ /\ duel' = duel
            /\ \/ deposits' = deposits
               \/ \E w \in Wallets : deposits' = deposits \cup {w}
<1> DEFINE Goal ==
      \/ chain' = chain
      \/ /\ duel' = duel
         /\ \/ deposits' = deposits
            \/ \E w \in Wallets : deposits' = deposits \cup {w}
<1>a. ASSUME duel' = duel, rows' = rows,
             \A t \in TxIds : chain'[t] \in Final <=> chain[t] \in Final
      PROVE  Goal
  BY <1>a DEF deposits, FinalDeposit, Wallets
<1>b. chain \in [TxIds -> ChainStates]
  BY DEF FundingInv, TypeOK
<1>c. chain' = chain => Goal
  OBVIOUS
<1> HIDE DEF Goal
<1>1. ASSUME NEW t \in TxIds, Sends(t) PROVE Goal
  BY <1>1, <1>a, <1>b DEF Sends, Final
<1>2. ASSUME NEW t \in TxIds, Lands(t) PROVE Goal
  BY <1>2, <1>a, <1>b DEF Lands, Final
<1>3. ASSUME NEW t \in TxIds, Finalizes(t) PROVE Goal
  BY <1>3, DepositStep DEF Finalizes, Goal
<1>4. ASSUME NEW t \in TxIds, HeightPasses(t) PROVE Goal
  BY <1>4, <1>a, <1>b DEF HeightPasses, Final
<1> QED
  BY <1>1, <1>2, <1>3, <1>4, <1>c, ClusterSteps DEF Goal

\* The promise and the funding path share duel-state.ts.
LEMMA SameGraph ==
  /\ \A a, b : Promise!CanTransition(a, b) <=> CanTransition(a, b)
  /\ \A s : Promise!RecoveryAlertTarget(s) = RecoveryAlertTarget(s)
<1>1. Promise!DuelStatuses = DuelStatuses
  BY DEF Promise!DuelStatuses, DuelStatuses
<1>2. Promise!AllowedTransitions = AllowedTransitions
  BY <1>1 DEF Promise!AllowedTransitions, AllowedTransitions
<1> QED
  BY <1>2 DEF Promise!CanTransition, CanTransition,
              Promise!RecoveryAlertTarget, RecoveryAlertTarget

\* Each step of the funding path is a step of the promise or changes nothing
\* of it.
LEMMA PromiseStep ==
  ASSUME FundingInv, [Next]_vars
  PROVE  [Promise!Next]_<<duel.status, deposits>>
<1>1. CASE chain' = chain
  <2>1. deposits' = deposits
    BY <1>1, DepositsStay
  <2>2. Promised
    BY PromisedStep
  <2>3. (\A w \in Wallets : FinalDeposit(w)) => deposits = Wallets
    BY DEF deposits
  <2>4. (\E w \in Wallets : FinalDeposit(w)) => deposits # {}
    BY DEF deposits
  <2>5. CASE duel'.status = duel.status
    BY <2>1, <2>5
  <2>6. CASE /\ CanTransition(duel.status, duel'.status)
             /\ duel'.status = "FUNDED" => deposits = Wallets
    <3>1. Promise!Advance
      BY <2>1, <2>6, SameGraph DEF Promise!Advance, deposits
    <3> QED
      BY <3>1 DEF Promise!Next
  <2>7. CASE deposits # {} /\ duel'.status = RecoveryAlertTarget(duel.status)
    <3>1. Promise!Reopen
      BY <2>1, <2>7, SameGraph DEF Promise!Reopen, deposits
    <3> QED
      BY <3>1 DEF Promise!Next
  <2> QED
    BY <2>2, <2>3, <2>4, <2>5, <2>6, <2>7 DEF Promised
<1>2. CASE chain' # chain
  <2>1. CASE deposits' = deposits
    BY <1>2, <2>1, ClusterStays
  <2>2. ASSUME NEW w \in Wallets, deposits' = deposits \cup {w}
        PROVE  [Promise!Next]_<<duel.status, deposits>>
    <3>1. Promise!Deposit(w)
      BY <1>2, <2>2, ClusterStays DEF Promise!Deposit, deposits
    <3> QED
      BY <3>1 DEF Promise!Next
  <2> QED
    BY <1>2, <2>1, <2>2, ClusterStays
<1> QED
  BY <1>1, <1>2

\* The public status follows the graph of duel-state.ts, says FUNDED only over
\* both deposits, and leaves the graph only to return a deposit.
THEOREM PromiseHolds == Spec => PromiseKept
<1>1. Init => Promise!Init
  BY FundingConstants DEF Init, Create, Promise!Init, FinalDeposit, Final
<1>2. FundingInv /\ [Next]_vars => [Promise!Next]_<<duel.status, deposits>>
  BY PromiseStep
<1> QED
  BY <1>1, <1>2, FundingInvariant, PTL
  DEF Spec, PromiseKept, Promise!Spec, deposits
=============================================================================
