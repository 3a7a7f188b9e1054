----------------------------- MODULE PublicProof -----------------------------
(***************************************************************************)
(* What the API tells the public of a duel: its receipt with the card      *)
(* actions of the owners, a wallet's profile, and the leaderboard          *)
(* (duels/public-duel-proof.ts, duels/public-duel-leaderboard.ts).  They   *)
(* are computed from the Duel and its DuelTransaction rows, read without a *)
(* common transaction.                                                     *)
(*                                                                         *)
(* A duel is [status, reason, creator, opponent, mode, mock, values,       *)
(* winnerSide, ready, winner, escrow, settledAt]: values holds the insured *)
(* values of the creator's and the opponent's outcome, empty without a     *)
(* result.  A transaction is [action, wallet, status, signed, fee, alert,  *)
(* recovered].  Wallets are positive numbers, 0 is none; texts, links and  *)
(* hashes are left out.                                                    *)
(***************************************************************************)
EXTENDS Integers, FiniteSetsExt, SequencesExt

NoWallet == 0
TERMINAL_STATUSES == {"CANCELLED", "EXPIRED", "FAILED", "REFUNDED", "SETTLED"}

PublicStatus(d) == IF d.status = "CANCELLED" /\ d.reason = "timeout" THEN "EXPIRED" ELSE d.status

FinalizedRows(txs, action) == {t \in txs : t.action = action /\ t.status = "FINALIZED"}

(***************************************************************************)
(* The result.                                                             *)
(***************************************************************************)
\* compareInsuredValues
WinnerSideOf(values) ==
  CASE values[1] > values[2] -> "creator" [] values[1] < values[2] -> "opponent" [] OTHER -> "none"

\* buildResult throws unless the recorded winner can be computed again.
ResultReproduces(d) ==
  /\ Len(d.values) = 2 /\ d.opponent # NoWallet /\ d.escrow /\ d.ready
  /\ WinnerSideOf(d.values) = d.winnerSide

\* Mutant: a commitment that was only submitted attests the result.
CommitmentSubmitted(txs) == \E t \in txs : t.action = "commit_result" /\ t.signed

ProviderCommitmentFinalized(txs) == FinalizedRows(txs, "commit_result") # {}

ProviderAttestation(d, txs) ==
  CASE d.mode = "mock" -> "mock-not-applicable"
    [] d.mode = "dailydraft-devnet" /\ ProviderCommitmentFinalized(txs) -> "on-chain-commitment-finalized"
    [] OTHER -> "not-recorded"

(***************************************************************************)
(* The card actions.                                                       *)
(***************************************************************************)
MockOutcome(d) == d.mode = "mock" \/ d.mock

HasSettlementReference(d, txs) == ~MockOutcome(d) /\ \E t \in FinalizedRows(txs, "settle") : t.signed

WinnerWalletMatchesResult(d) ==
  d.winner = CASE d.winnerSide = "creator" -> d.creator [] d.winnerSide = "opponent" -> d.opponent
               [] OTHER -> NoWallet

OwnerForOutcome(d, side) ==
  CASE d.winnerSide = "creator" -> d.creator [] d.winnerSide = "opponent" -> d.opponent
    [] OTHER -> IF side = "creator" THEN d.creator ELSE d.opponent

\* buildPostDuelCardActions: why they are hidden, or available.
CardActions(d, txs) ==
  CASE d.status # "SETTLED" -> "duel-not-settled"
    [] d.values = <<>> \/ d.opponent = NoWallet -> "ownership-pending"
    [] MockOutcome(d) -> "mock-assets"
    [] ~WinnerWalletMatchesResult(d) -> "ownership-mismatch"
    [] ~HasSettlementReference(d, txs) -> "ownership-pending"
    [] OTHER -> "available"

(***************************************************************************)
(* The rest of buildPublicDuelReceipt.                                     *)
(***************************************************************************)
FundingSides(txs) == Cardinality({t.wallet : t \in FinalizedRows(txs, "fund")})
FeeAmounts(txs) == {t.fee : t \in {f \in FinalizedRows(txs, "fund") : f.fee > 0}}
TotalFinalizedAmount(txs) ==
  IF Cardinality(FeeAmounts(txs)) = 1 THEN (CHOOSE x \in FeeAmounts(txs) : TRUE) * FundingSides(txs) ELSE -1

\* recoveryAlerts: the alert of a refund is not shown.
RecoveryAlerts(txs) ==
  {t \in txs : t.action \in {"fund", "commit_result", "settle"} /\ t.alert /\ ~t.recovered}
RecoveryStatus(txs) ==
  IF RecoveryAlerts(txs) # {} THEN "attention-required"
  ELSE IF \E t \in txs : t.recovered THEN "recovered" ELSE "none"

ReceiptMissingFields(d, txs) ==
  LET When(condition, field) == IF condition THEN {field} ELSE {} IN
  When(d.opponent = NoWallet, "opponent_wallet")
    \cup When(~d.escrow, "fee_escrow_address")
    \cup When(FundingSides(txs) < 2, "two_finalized_fee_deposits")
    \cup When(Cardinality(FeeAmounts(txs)) # 1, "single_persisted_fee_amount")
    \cup IF d.status # "SETTLED" THEN {}
         ELSE When(d.values = <<>>, "provider_results")
                \cup When(d.mode = "collector-crypt-sandbox", "provider_result_attestation")
                \cup When(d.mode = "dailydraft-devnet" /\ ~ProviderCommitmentFinalized(txs),
                          "on_chain_result_commitment")
                \cup When(~HasSettlementReference(d, txs), "card_settlement_reference")

\* receiptActions: the primary link.
ReceiptActions(d) ==
  CASE d.status = "WAITING" -> "accept" [] d.status = "SETTLED" -> "rematch"
    [] PublicStatus(d) \notin TERMINAL_STATUSES -> "open" [] OTHER -> "open-new"

\* "refused": the request fails.
PublicReceipt(d, txs) ==
  IF d.values # <<>> /\ ~ResultReproduces(d) THEN [status |-> "refused"]
  ELSE [status |-> PublicStatus(d), attestation |-> ProviderAttestation(d, txs),
        signatures |-> {t \in txs : t.signed}, missing |-> ReceiptMissingFields(d, txs),
        cardActions |-> CardActions(d, txs),
        owners |-> [side \in {"creator", "opponent"} |-> OwnerForOutcome(d, side)],
        fees |-> TotalFinalizedAmount(txs), recovery |-> RecoveryStatus(txs), primary |-> ReceiptActions(d)]

(***************************************************************************)
(* buildPublicWalletProfile.                                               *)
(***************************************************************************)
TotalValue(d) == d.values[1] + d.values[2]      \* sumMoney
Won(d, w) == d.status = "SETTLED" /\ d.winner = w
Lost(d, w) == d.status = "SETTLED" /\ d.winner # NoWallet /\ d.winner # w
Count(duels, Test(_)) == Cardinality({n \in DOMAIN duels : Test(duels[n])})

WalletProfile(w, duels) ==
  [wins |-> Count(duels, LAMBDA d : Won(d, w)), losses |-> Count(duels, LAMBDA d : Lost(d, w)),
   completed |-> Count(duels, LAMBDA d : d.status = "SETTLED"),
   refunded |-> Count(duels, LAMBDA d : d.status = "REFUNDED"),
   cancelledOrExpired |-> Count(duels, LAMBDA d : PublicStatus(d) \in {"CANCELLED", "EXPIRED"}),
   active |-> Count(duels, LAMBDA d : PublicStatus(d) \notin TERMINAL_STATUSES),
   biggestWin |-> Max({0} \cup {TotalValue(d) : d \in {e \in Range(duels) : Won(e, w) /\ e.values # <<>>}})]

(***************************************************************************)
(* buildPublicDuelLeaderboard.                                             *)
(***************************************************************************)
IsRankableDuel(d) ==
  /\ d.status = "SETTLED" /\ d.opponent # NoWallet /\ d.settledAt > 0
  /\ ~MockOutcome(d) /\ Len(d.values) = 2
  /\ d.winner \in {NoWallet, d.creator, d.opponent}

NoEntry(w) == [wallet |-> w, completed |-> 0, wins |-> 0, losses |-> 0, ties |-> 0, won |-> 0, last |-> 0]

LastPlayed(last, playedAt) == IF playedAt > last THEN playedAt ELSE last

\* A duel is added to the entry of one of its players.
Played(entry, d) ==
  LET one(condition) == IF condition THEN 1 ELSE 0
      won == d.winner = entry.wallet
  IN  [entry EXCEPT !.completed = @ + 1, !.last = LastPlayed(@, d.settledAt),
                    !.ties = @ + one(d.winner = NoWallet), !.wins = @ + one(won),
                    !.losses = @ + one(d.winner # NoWallet /\ ~won),
                    !.won = @ + (IF won THEN TotalValue(d) ELSE 0)]

Rankable(duels, w) == SelectSeq(duels, LAMBDA d : IsRankableDuel(d) /\ w \in {d.creator, d.opponent})
EntryOf(duels, w) == FoldLeft(Played, NoEntry(w), Rankable(duels, w))

\* compareEntries: more wins, more won, more completed, played later, then by name.
Outranks(e, f) ==
  LET key(x) == <<-x.wins, -x.won, -x.completed, -x.last, x.wallet>>
      first == {i \in 1..5 : key(e)[i] # key(f)[i]}
  IN  first # {} /\ key(e)[Min(first)] < key(f)[Min(first)]

Entries(duels, house) ==
  {EntryOf(duels, w) : w \in {v \in UNION {{d.creator, d.opponent} : d \in Range(duels)} \ {NoWallet, house} :
                                Rankable(duels, v) # <<>>}}

PublicDuelLeaderboard(duels, house, limit) ==
  LET ranked == SetToSortSeq(Entries(duels, house), Outranks)
  IN  SubSeq(ranked, 1, Min({limit, Len(ranked)}))

(***************************************************************************)
(* Property of the standings, for the inputs a run enumerates.             *)
(***************************************************************************)
\* The board does not depend on the order in which the duels are read, nobody left off it
\* outranks one who is on it, every decided duel is one win and one loss, and the board
\* agrees with the wallet's own profile over the duels that count for both.
StandingsAddUp(duels, house, limit) ==
  LET board == PublicDuelLeaderboard(duels, house, limit)
      all == Entries(duels, NoWallet)
      Sum(Field(_)) == MapThenSumSet(Field, all)
      decided == Count(duels, LAMBDA d : IsRankableDuel(d) /\ d.winner # NoWallet)
  IN  /\ PublicDuelLeaderboard(Reverse(duels), house, limit) = board
      /\ \A e \in Entries(duels, house) \ Range(board) : \A f \in Range(board) : Outranks(f, e)
      /\ Sum(LAMBDA e : e.wins) = decided /\ Sum(LAMBDA e : e.losses) = decided
      /\ Sum(LAMBDA e : e.won) = FoldLeft(LAMBDA n, d : n + (IF IsRankableDuel(d) /\ d.winner # NoWallet
                                                              THEN TotalValue(d) ELSE 0), 0, duels)
      /\ \A e \in all :
           LET mine == SelectSeq(duels, LAMBDA d : e.wallet \in {d.creator, d.opponent})
               profile == WalletProfile(e.wallet, mine)
               counted == WalletProfile(e.wallet, Rankable(duels, e.wallet))
           IN  /\ e.wins = counted.wins /\ e.losses = counted.losses /\ e.completed = counted.completed
               /\ e.completed = e.wins + e.losses + e.ties /\ counted.biggestWin <= e.won
               /\ profile.wins >= e.wins /\ profile.completed >= e.completed
               /\ Len(mine) = profile.active + profile.cancelledOrExpired + profile.completed
                                + profile.refunded + Count(mine, LAMBDA d : d.status = "FAILED")
=============================================================================
