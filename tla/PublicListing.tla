---------------------------- MODULE PublicListing ----------------------------
(***************************************************************************)
(* The lists the API pages through with a cursor: verified duel activity   *)
(* (games/games-lobby.service.ts), a player's crash rounds                 *)
(* (crash/crash-history.service.ts), and the operators' audit and          *)
(* attention lists (admin/admin.service.ts).  All are ordered by time and  *)
(* id, newest first, and a cursor is the position of a row.                *)
(*                                                                         *)
(* A row is [at, id, ok]; what ok means depends on the list: activity that *)
(* can be verified, a duel that needs attention.  An activity row also has *)
(* the duel, its transactions and its evidence [hashes, operations,        *)
(* consistent]: whether the hashes of the round are stored, the sides with *)
(* complete provider evidence, and whether the hashes agree.               *)
(***************************************************************************)
EXTENDS PublicProof

CONSTANT PUBLIC_ACTIVITY_SCAN_LIMIT
ASSUME ScanLimitAssumption == PUBLIC_ACTIVITY_SCAN_LIMIT \in Nat \ {0}

Sides == {"creator", "opponent"}

(***************************************************************************)
(* What may be listed.                                                     *)
(***************************************************************************)
\* verifiedDuelActivityWhere, without the cursor.
ActivityCandidate(r) ==
  /\ Len(r.duel.values) = 2 /\ ~r.duel.mock /\ r.evidence.operations = Sides
  /\ r.duel.mode # "mock" /\ r.duel.escrow /\ r.duel.ready /\ r.evidence.hashes
  /\ r.duel.settledAt > 0 /\ r.duel.status = "SETTLED"

\* buildDuelRgsProof: the winner by wallet, or "unavailable".
DuelRgsWinner(r) ==
  LET revealed == /\ r.evidence.hashes /\ r.duel.ready /\ Len(r.duel.values) = 2
                  /\ r.evidence.operations = Sides /\ r.evidence.consistent
  IN  IF ~revealed THEN "unavailable"
      ELSE IF r.duel.winner = NoWallet THEN "none"
      ELSE IF r.duel.winner = r.duel.creator THEN "creator"
      ELSE IF r.duel.winner = r.duel.opponent THEN "opponent" ELSE "unavailable"

\* projectVerifiedDuelActivity
VerifiedActivity(r) ==
  LET receipt == PublicReceipt(r.duel, r.txs) IN
  /\ receipt.status = "SETTLED" /\ receipt.missing = {}
  /\ DuelRgsWinner(r) # "unavailable" /\ r.duel.settledAt > 0
  /\ r.duel.values # <<>> /\ r.duel.ready
  /\ DuelRgsWinner(r) = r.duel.winnerSide

\* buildAttentionWhere: a duel is [status, fundedAt, txs], a transaction [status, stuck, candidate, recovered].
AttentionWhere(d, query, stuckBefore) ==
  LET stuck == \/ d.fundedAt < stuckBefore /\ d.status = "FUNDED"
               \/ \E t \in d.txs : t.stuck
               \/ \E t \in d.txs : ~t.recovered /\ t.candidate
      failed == d.status = "FAILED" \/ \E t \in d.txs : t.status \in {"FAILED", "EXPIRED"}
  IN  CASE query = "stuck" -> stuck [] query = "failed" -> failed [] OTHER -> stuck \/ failed

AttentionReasons(d, stuckBefore) ==
  LET When(condition, reason) == IF condition THEN {reason} ELSE {} IN
  When(d.status = "FAILED", "duel_failed")
    \cup When(d.status = "FUNDED" /\ d.fundedAt < stuckBefore, "funded_stuck")
    \cup When(\E t \in d.txs : t.stuck, "transaction_stuck")
    \cup When(\E t \in d.txs : t.candidate /\ ~t.recovered, "unbound_finalized_escrow")
    \cup When(\E t \in d.txs : t.status \in {"FAILED", "EXPIRED"}, "transaction_failed")

(***************************************************************************)
(* Pages: [data, more, next].                                              *)
(***************************************************************************)
NoCursor == [at |-> 0, id |-> 0]
Newer(x, y) == x.at > y.at \/ (x.at = y.at /\ x.id > y.id)
RowsAfter(rows, cursor) ==
  SetToSortSeq({r \in rows : cursor = NoCursor \/ Newer(cursor, r)}, Newer)
CursorForRow(r) == [at |-> r.at, id |-> r.id]
Take(s, n) == SubSeq(s, 1, Min({n, Len(s)}))

\* CrashHistoryService.list, listAudit and listAttentionDuels: one row more than the page holds
\* is read to see whether there is a next page.
CursorPage(rows, cursor, limit) ==
  LET read == Take(RowsAfter({r \in rows : r.ok}, cursor), limit + 1)
      visible == Take(read, limit)
      more == Len(read) > limit
  IN  [data |-> visible, more |-> more, next |-> IF more THEN CursorForRow(Last(visible)) ELSE NoCursor]

\* Mutant: the next page starts behind everything that was scanned.
BoundaryOfScan(found, scan, limit) == CursorForRow(Last(scan))

\* Where the next page starts: behind the last row shown, or behind the scan.
NextBoundary(found, scan, limit) ==
  IF Len(found) > limit THEN CursorForRow(found[limit]) ELSE CursorForRow(Last(scan))

\* loadVerifiedActivity: rows are scanned until the page and one more are found, or the limit
\* is reached.
ActivityPage(rows, cursor, limit) ==
  LET below == RowsAfter(rows, cursor)
      Found(n) == SelectSeq(SubSeq(below, 1, n), LAMBDA r : r.ok)
      most == Min({PUBLIC_ACTIVITY_SCAN_LIMIT, Len(below)})
      scanned == Min({n \in 0..most : n = most \/ Len(Found(n)) > limit})
      found == Found(scanned)
      exhausted == Len(found) <= limit /\ scanned < PUBLIC_ACTIVITY_SCAN_LIMIT
      more == Len(found) > limit \/ ~exhausted
  IN  [data |-> Take(found, limit), more |-> more,
       next |-> IF ~more THEN NoCursor ELSE NextBoundary(found, SubSeq(below, 1, scanned), limit)]

(***************************************************************************)
(* Properties, for the inputs a run enumerates.                            *)
(***************************************************************************)
\* A client follows the cursors; tables[n] is what the n-th request reads.
Walk(Page(_, _, _), tables, limit) ==
  FoldLeft(LAMBDA w, rows :
             IF w.done THEN w
             ELSE LET p == Page(rows, w.cursor, limit)
                  IN  [cursor |-> p.next, done |-> ~p.more, listed |-> w.listed \o p.data,
                       ok |-> w.ok /\ Len(p.data) <= limit],
           [cursor |-> NoCursor, done |-> FALSE, listed |-> <<>>, ok |-> TRUE], tables)

\* While newer rows come in and rows leave or enter the list between two requests, the
\* pages are never too long, end, and together show the rows in order, none twice, and
\* every row that was there all the time.
WalkIsComplete(Page(_, _, _), tables, limit) ==
  LET walk == Walk(Page, tables, limit)
      ids == {r.id : r \in UNION Range(tables)}
      stays == {i \in ids : \A n \in DOMAIN tables : \E r \in tables[n] : r.id = i /\ r.ok}
  IN  /\ walk.done /\ walk.ok
      /\ \A m, n \in DOMAIN walk.listed : m < n => Newer(walk.listed[m], walk.listed[n])
      /\ stays \subseteq {r.id : r \in Range(walk.listed)}

\* The database filter drops no duel that could be verified, and what is listed as verified
\* was paid for on both sides, settled on chain, and won by the better card.
ActivityIsVerified(r) ==
  VerifiedActivity(r) =>
    /\ ActivityCandidate(r)
    /\ FundingSides(r.txs) = 2 /\ FinalizedRows(r.txs, "settle") # {}
    /\ r.duel.winner = CASE WinnerSideOf(r.duel.values) = "creator" -> r.duel.creator
                         [] WinnerSideOf(r.duel.values) = "opponent" -> r.duel.opponent
                         [] OTHER -> NoWallet
    /\ CardActions(r.duel, r.txs) = "available"

\* The operators' list and the reasons shown beside each of its duels agree for every filter.
AttentionHasReason(d, stuckBefore) ==
  LET reasons == AttentionReasons(d, stuckBefore)
      stuck == {"funded_stuck", "transaction_stuck", "unbound_finalized_escrow"} IN
  /\ AttentionWhere(d, "all", stuckBefore) = (reasons # {})
  /\ AttentionWhere(d, "stuck", stuckBefore) = (reasons \cap stuck # {})
  /\ AttentionWhere(d, "failed", stuckBefore) = (reasons \ stuck # {})
=============================================================================
