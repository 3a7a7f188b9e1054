----------------------------- MODULE DuelReceipt -----------------------------
(***************************************************************************)
(* The public receipt of a duel while it is settled or refunded: the       *)
(* Duel and its commitment, settlement and refund rows, as getReceipt      *)
(* reads them, put through PublicProof.                                    *)
(***************************************************************************)
EXTENDS DuelSettlement, PublicProof

\* toDomainDuel: players 1 and 2, the creator's card is worth more.
ReceiptDuel ==
  [status |-> duel.status, reason |-> "none", creator |-> 1, opponent |-> 2,
   mode |-> "dailydraft-devnet", mock |-> FALSE, escrow |-> TRUE, ready |-> TRUE,
   values |-> IF duel.evidence THEN <<2, 1>> ELSE <<>>,
   winnerSide |-> IF duel.evidence THEN "creator" ELSE "none",
   winner |-> IF duel.evidence THEN 1 ELSE NoWallet, settledAt |-> 0]

ActionOf(r) == CASE r = Commit -> "commit_result" [] r = Settle -> "settle" [] OTHER -> "refund"

\* toTransactionRecord, with the row and the message its signature belongs to.
RowRecord(r) ==
  [action |-> ActionOf(r), wallet |-> 0, status |-> rows[r].st, signed |-> rows[r].sig > 0, fee |-> 0,
   alert |-> rows[r].alert, recovered |-> FALSE, row |-> r, sig |-> rows[r].sig]
ReceiptRows == {RowRecord(r) : r \in {q \in Rows : rows[q].st # "NONE"}}

Receipt == PublicReceipt(ReceiptDuel, ReceiptRows)

\* What the receipt calls final is final on the cluster, under the signature it names: the
\* card actions, the attested result, every finalized reference, and the candidate of an
\* alert.  While the duel is settled its settlement's signature is on the receipt, though
\* a late write of the monitor may have taken the word "finalized" from it.
ReceiptIsBacked ==
  LET receipt == Receipt
      FinalRow(t) == chain[t.row][t.sig] \in Final
  IN  /\ receipt.status # "refused"
      /\ receipt.cardActions = "available" => Landed(Settle, Final) /\ receipt.owners["opponent"] = 1
      /\ receipt.attestation = "on-chain-commitment-finalized" => Landed(Commit, Final)
      /\ \A t \in receipt.signatures : t.status = "FINALIZED" => FinalRow(t)
      /\ receipt.recovery = "attention-required" =>
           \E t \in RecoveryAlerts(ReceiptRows) : Landed(t.row, Final)
      /\ receipt.status = "SETTLED" => \E t \in receipt.signatures : t.action = "settle" /\ FinalRow(t)

(***************************************************************************)
(* The inductive invariant, for DuelSettlementProofs, with SettlementInv.  *)
(***************************************************************************)
\* A row that is final, or has an alert, is about a message that is final on the cluster; a
\* process on its way to an alert has found it there; and a settled duel keeps the signature
\* of its settlement, whatever is written over the status of the row.
RowsTellFinality ==
  \A r \in Rows : /\ rows[r].st = "FINALIZED" => chain[r][rows[r].sig] = "finalized"
                  /\ rows[r].alert => Landed(r, Final)
JobsTellFinality ==
  \A p \in Procs : job[p].op \in {"bindFound", "alert"} => Landed(job[p].row, Final)
SettledIsSigned ==
  duel.status = "SETTLED" => rows[Settle].sig > 0 /\ chain[Settle][rows[Settle].sig] = "finalized"
ReceiptInv == RowsTellFinality /\ JobsTellFinality /\ SettledIsSigned
=============================================================================
