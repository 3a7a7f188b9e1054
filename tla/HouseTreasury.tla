---------------------------- MODULE HouseTreasury ----------------------------
(***************************************************************************)
(* The house treasury: exposure reservations of house duels, the ledger,   *)
(* the cards the house wins, and the reconciliation of both with the chain *)
(* (treasury/house-treasury.policy.ts and house-treasury.service.ts).      *)
(*                                                                         *)
(* Amounts are counted in stakes of one tier.  A ledger entry's place in   *)
(* the ledger is its createdAt: two entries never tie, as in milliseconds. *)
(* Reservation and disposition transactions hold an advisory lock or run   *)
(* SERIALIZABLE, so each is one step; what is read before a transaction is *)
(* read in a step of its own.                                              *)
(***************************************************************************)
EXTENDS Integers, Sequences, FiniteSets, FiniteSetsExt, DuelState

CONSTANTS
  Duels, Wallets,
  DailyLossLimit, MaxTotalExposure, MaxActivePerWallet, MaxConcurrentPerTier,
  MinimumLiquidity, SnapshotMaxAge,     \* HouseTreasuryConfig
  InitialBalance,                       \* the house token account at the start
  DayLength, MaxTime,                   \* bounds on the clock
  MaxSlot, MaxListings,                 \* bounds on reconciliations and listings
  MaxVersion                            \* bound on the moves of one duel row

ASSUME TreasuryConstants ==
  /\ {DailyLossLimit, MaxTotalExposure, MaxActivePerWallet, MaxConcurrentPerTier,
      MinimumLiquidity, SnapshotMaxAge, InitialBalance, MaxTime, MaxSlot, MaxListings,
      MaxVersion}
       \subseteq Nat
  /\ DayLength \in Nat \ {0}
  /\ "none" \notin Duels /\ {"none", "house"} \cap Wallets = {}   \* ids and public keys

VARIABLES
  duel,       \* duel[d]: the Duel row, shared with matchmaking and the monitor
  res,        \* res[d]: status of the duel's HouseTreasuryReservation
  ledger,     \* HouseTreasuryLedgerEntry rows, oldest first
  asset,      \* asset[a]: the HouseInventoryAsset row of one card
  snap,       \* the HouseTreasurySnapshot row
  disc,       \* unresolved discrepancies: of the balance, and of single cards
  tier,       \* the HouseTierAdmissionState row
  paused,     \* RuntimeControl global_exposure
  rec,        \* where reconcileOnChain is, and what it has read
  chain,      \* finalized house account: balance, allowance, slot
  market,     \* market[n]: what the provider did with listing n
  clock

treasuryVars == <<res, ledger, asset, snap, disc, tier, paused, rec, chain, market>>

OutcomeSides == {"CREATOR", "OPPONENT"}
Assets == Duels \X OutcomeSides

ReservationStatuses == {"NONE", "RESERVED", "FUNDED", "SETTLEMENT_PENDING",
                        "RECOVERY_REQUIRED", "RELEASED", "SETTLED"}
ACTIVE_HOUSE_RESERVATION_STATUSES ==
  {"RESERVED", "FUNDED", "SETTLEMENT_PENDING", "RECOVERY_REQUIRED"}

\* Statuses of a house duel the house has money or an open promise in.
ACTIVE_HOUSE_DUEL == {"MATCHED", "COMMITTING", "FUNDED", "OPENING", "AWAITING_ASSETS", "SETTLING"}

NoWallet == "none"
House == "house"
NoDuel == [status |-> "NONE", mode |-> "OPEN", creator |-> NoWallet, opponent |-> NoWallet,
           winner |-> NoWallet, opened |-> FALSE, funded |-> FALSE, version |-> 0,
           expiresAt |-> 0, commitBy |-> -1]
NoAsset == [status |-> "NONE", disposition |-> "MANUAL_REVIEW", listing |-> "UNLISTED",
            quoted |-> FALSE, version |-> 0]
IdleRec == [pc |-> "idle", balance |-> 0, delegated |-> 0, slot |-> 0, mark |-> 0,
            at |-> 0, todo |-> {}]

(***************************************************************************)
(* The ledger.                                                             *)
(***************************************************************************)
Entry(type, ref, key, amount) ==
  [type |-> type, ref |-> ref, key |-> key, amount |-> amount, day |-> clock \div DayLength]

\* appendLedger: an entry whose idempotency key exists is not written again.
AppendLedger(l, e) ==
  IF \E i \in DOMAIN l : l[i].type = e.type /\ l[i].ref = e.ref /\ l[i].key = e.key
  THEN l ELSE Append(l, e)

Amounts(I) == MapThenSumSet(LAMBDA i : ledger[i].amount, I)
HasEntry(type, ref) == \E i \in DOMAIN ledger : ledger[i].type = type /\ ledger[i].ref = ref

DailyLoss == Amounts({i \in DOMAIN ledger : /\ ledger[i].type = "PLAYER_WIN_LOSS"
                                            /\ ledger[i].day = clock \div DayLength})
ActiveReservations == {d \in Duels : res[d] \in ACTIVE_HOUSE_RESERVATION_STATUSES}

(***************************************************************************)
(* reserveHouseExposure.                                                   *)
(***************************************************************************)
SnapshotIsUsable ==
  /\ snap.slot > 0
  /\ clock - snap.at <= SnapshotMaxAge
  /\ snap.delegated > 0 /\ snap.delegated <= MaxTotalExposure /\ snap.delegated <= snap.balance

\* Mutant: only money already lost counts against the day.
DecisionOnLossAlone(w) ==
  IF DailyLoss + 1 > DailyLossLimit THEN "daily_loss"
  ELSE IF Cardinality(ActiveReservations) + 1 > MaxTotalExposure THEN "total_exposure" ELSE "allowed"

\* evaluateHouseExposureLimits, in the order of the code.
ExposureDecision(w) ==
  LET requested == Cardinality(ActiveReservations) + 1
  IN  IF Cardinality({d \in ActiveReservations : duel[d].creator = w}) >= MaxActivePerWallet
      THEN "player_exposure"
      ELSE IF Cardinality(ActiveReservations) >= MaxConcurrentPerTier THEN "tier_concurrency"
      ELSE IF DailyLoss + requested > DailyLossLimit THEN "daily_loss"
      ELSE IF requested > MaxTotalExposure THEN "total_exposure"
      ELSE IF snap.balance < requested + MinimumLiquidity THEN "minimum_liquidity"
      ELSE IF snap.delegated < requested THEN "delegated_allowance"
      ELSE "allowed"

\* What the locked transaction decides for duel d of wallet w.
Admission(d, w) ==
  IF res[d] # "NONE" THEN "replay"
  ELSE IF paused THEN "paused"
  ELSE IF disc.balance.open \/ disc.assets # {} THEN "reconciliation_discrepancy"
  ELSE IF ~SnapshotIsUsable THEN "treasury_snapshot_stale"
  ELSE ExposureDecision(w)

\* Failures that are written to the tier by a transaction of their own.
TierDisabling == {"reconciliation_discrepancy", "treasury_snapshot_stale", "tier_concurrency",
                  "daily_loss", "total_exposure", "minimum_liquidity", "delegated_allowance"}

\* recordHouseTierAdmissionState: an older evaluation never replaces a newer one.
TierState(disabled, at) == IF tier.at <= at THEN [disabled |-> disabled, at |-> at] ELSE tier

\* The rows an admitted reservation writes.
Reserve(d) ==
  /\ res' = [res EXCEPT ![d] = "RESERVED"]
  /\ ledger' = AppendLedger(ledger, Entry("RESERVATION_CREATED", d, 0, 1))
  /\ tier' = TierState(FALSE, clock)

\* setEmergencyPause
SetPaused ==
  /\ paused' = ~paused
  /\ UNCHANGED <<duel, res, ledger, asset, snap, disc, tier, rec, chain, market>>

(***************************************************************************)
(* reconcileLifecycle: one reservation, re-read inside the transaction.    *)
(***************************************************************************)
\* Mutant: a refund after the packs were opened also releases.
ResolutionIgnoringOutcomes(r) ==
  IF r.status = "SETTLED" THEN IF r.winner = r.creator THEN "PLAYER_WIN_LOSS" ELSE "HOUSE_PACK_COST"
  ELSE IF r.status \in {"CANCELLED", "REFUNDED"} THEN "RELEASED" ELSE "none"

\* houseReservationResolution: the terminal entry a duel row calls for.
Resolution(r) ==
  CASE r.status = "SETTLED" /\ r.winner = r.creator -> "PLAYER_WIN_LOSS"
    [] r.status = "SETTLED" /\ r.winner # r.creator -> "HOUSE_PACK_COST"
    [] r.status = "REFUNDED" /\ r.opened -> "HOUSE_PACK_COST"
    [] r.status \in {"CANCELLED", "REFUNDED"} /\ ~r.opened -> "RELEASED"
    [] OTHER -> "none"

\* reservationTarget, with the two refinements of houseReservationResolution.
ReservationTarget(r) ==
  CASE Resolution(r) = "RELEASED" -> "RELEASED"
    [] Resolution(r) \in {"PLAYER_WIN_LOSS", "HOUSE_PACK_COST"} -> "SETTLED"
    [] Resolution(r) = "none" /\ r.status \in {"CANCELLED", "CANCELLING", "REFUNDING", "FAILED"}
         -> "RECOVERY_REQUIRED"
    [] r.status \in {"FUNDED", "OPENING"} -> "FUNDED"
    [] r.status \in {"AWAITING_ASSETS", "SETTLING"} -> "SETTLEMENT_PENDING"
    [] OTHER -> "NONE"

InventorySides(r) ==
  IF Resolution(r) # "HOUSE_PACK_COST" THEN {}
  ELSE IF r.status = "SETTLED" /\ r.winner = r.opponent THEN OutcomeSides ELSE {"OPPONENT"}

\* acquireHouseInventoryAsset keeps a row it finds; a new one is held, unlisted.
Acquired(a) == IF asset[a].status = "NONE" THEN [NoAsset EXCEPT !.status = "HELD"] ELSE asset[a]

TerminalLedger(d, target) ==
  CASE target = "RELEASED" -> AppendLedger(ledger, Entry("RESERVATION_RELEASED", d, 0, 1))
    [] target = "FUNDED"   -> AppendLedger(ledger, Entry("HOUSE_FUNDING_COMMITTED", d, 0, 1))
    [] target = "SETTLED"  -> AppendLedger(ledger, Entry(Resolution(duel[d]), d, 0, 1))
    [] OTHER -> ledger

ReconcileLifecycle(d) ==
  LET target == ReservationTarget(duel[d]) IN
  /\ d \in ActiveReservations
  /\ target \notin {"NONE", res[d]}
  /\ res' = [res EXCEPT ![d] = target]
  /\ ledger' = TerminalLedger(d, target)
  /\ asset' = [a \in Assets |-> IF a[1] = d /\ a[2] \in InventorySides(duel[d])
                                THEN Acquired(a) ELSE asset[a]]
  /\ UNCHANGED <<duel, snap, disc, tier, paused, rec, chain, market>>

(***************************************************************************)
(* reconcileOnChain: account, then slot, then the transaction, then the    *)
(* cards one by one under their row versions.                              *)
(***************************************************************************)
ReadAccount ==
  /\ rec.pc = "idle"
  /\ chain.delegated > 0 /\ chain.delegated <= MaxTotalExposure
  /\ chain.delegated <= chain.balance
  /\ rec' = [rec EXCEPT !.pc = "slot", !.balance = chain.balance, !.delegated = chain.delegated]
  /\ UNCHANGED <<duel, res, ledger, asset, snap, disc, tier, paused, chain, market>>

ReadSlot ==
  /\ rec.pc = "slot"
  /\ rec' = [rec EXCEPT !.pc = "record", !.slot = chain.slot, !.mark = Len(ledger), !.at = clock]
  /\ UNCHANGED <<duel, res, ledger, asset, snap, disc, tier, paused, chain, market>>

\* The balance the ledger explains: the base of the last unresolved discrepancy,
\* else of the last snapshot, moved by the entries written after it.
ExpectedBalance ==
  LET base   == IF disc.balance.open THEN disc.balance.expected ELSE snap.balance
      mark   == IF disc.balance.open THEN disc.balance.mark ELSE snap.mark
      Of(ts) == {i \in DOMAIN ledger : i > mark /\ ledger[i].type \in ts}
  IN  base + Amounts(Of({"INVENTORY_DISPOSED"}))
           - Amounts(Of({"PLAYER_WIN_LOSS", "HOUSE_PACK_COST"}))

RecordSnapshot ==
  /\ rec.pc = "record"
  /\ IF snap.slot >= rec.slot               \* the observation did not advance
     THEN rec' = IdleRec /\ UNCHANGED <<snap, disc>>
     ELSE /\ disc' = [disc EXCEPT !.balance =
                IF snap.slot > 0 /\ ExpectedBalance # rec.balance
                THEN [open |-> TRUE, expected |-> ExpectedBalance, mark |-> rec.mark]
                ELSE [@ EXCEPT !.open = FALSE]]
          /\ snap' = [balance |-> rec.balance, delegated |-> rec.delegated, slot |-> rec.slot,
                      mark |-> rec.mark, at |-> rec.at]
          /\ rec' = [rec EXCEPT !.pc = "cards"]
  /\ UNCHANGED <<duel, res, ledger, asset, tier, paused, chain, market>>

ListCards ==
  /\ rec.pc = "cards"
  /\ rec' = [rec EXCEPT !.pc = "verify",
                        !.todo = {<<a, asset[a]>> : a \in {b \in Assets :
                          asset[b].status \in {"HELD", "LISTED", "RECONCILIATION_REQUIRED"}}}]
  /\ UNCHANGED <<duel, res, ledger, asset, snap, disc, tier, paused, chain, market>>

\* Mutant: the row is updated by its id alone.
UnchangedByIdAlone(a, seen) == asset[a].status # "NONE"
UnchangedSince(a, seen) == asset[a].version = seen.version

\* The chain or its RPC answers whether the house still holds the card.
VerifyCard ==
  /\ rec.pc = "verify" /\ rec.todo # {}
  /\ \E t \in rec.todo, ok \in BOOLEAN :
       LET a == t[1] IN
       /\ rec' = [rec EXCEPT !.todo = @ \ {t}]
       /\ IF UnchangedSince(a, t[2])
          THEN /\ asset' = [asset EXCEPT
                    ![a].status = IF ~ok THEN "RECONCILIATION_REQUIRED"
                                  ELSE IF t[2].listing = "LISTED" THEN "LISTED" ELSE "HELD",
                    ![a].version = @ + 1]
               /\ disc' = [disc EXCEPT !.assets = IF ok THEN @ \ {a} ELSE @ \cup {a}]
               /\ ledger' = IF ok THEN ledger
                            ELSE AppendLedger(ledger, Entry("RECONCILIATION_ALERT", a, rec.slot, 1))
          ELSE UNCHANGED <<asset, disc, ledger>>
  /\ UNCHANGED <<duel, res, snap, tier, paused, chain, market>>

EndReconcile ==
  /\ rec.pc = "verify" /\ rec.todo = {}
  /\ rec' = IdleRec
  /\ UNCHANGED <<duel, res, ledger, asset, snap, disc, tier, paused, chain, market>>

(***************************************************************************)
(* Disposition of a held card.                                             *)
(***************************************************************************)
Listings == 1..MaxListings
Touch(a, fields) == asset' = [asset EXCEPT ![a] = [fields EXCEPT !.version = @ + 1]]

\* Buyback and listing quotes are written to the row by operators.
QuoteCard(a) ==
  /\ asset[a].status # "NONE" /\ ~asset[a].quoted
  /\ asset' = [asset EXCEPT ![a].quoted = TRUE]
  /\ UNCHANGED <<duel, res, ledger, snap, disc, tier, paused, rec, chain, market>>

\* dispositionDecision: what is not configured or not quoted goes to review.
DispositionDecision(a, requested) ==
  IF requested \in {"BUYBACK", "LIST"} /\ ~asset[a].quoted THEN "MANUAL_REVIEW" ELSE requested

\* The newest disposition entry of a card names its live listing.
ActiveListing(a) ==
  LET mine == {i \in DOMAIN ledger : /\ ledger[i].ref = a
                                     /\ ledger[i].type = "INVENTORY_DISPOSITION_SET"}
  IN  IF mine = {} THEN 0 ELSE ledger[Max(mine)].key

\* setDisposition; n is the provider's listing, 0 where none is made.
SetDisposition(a) ==
  \E requested \in {"HOLD", "BUYBACK", "LIST"}, n \in Listings :
    LET decided == DispositionDecision(a, requested) IN
    /\ asset[a].status \notin {"NONE", "DISPOSED"} /\ asset[a].listing # "LISTED"
    /\ market[n] = "NONE" /\ \A m \in Listings : m < n => market[m] # "NONE"
    /\ Touch(a, [asset[a] EXCEPT !.disposition = decided,
                   !.listing = IF decided = "LIST" THEN "LISTED" ELSE @,
                   !.status = IF decided = "LIST" THEN "LISTED" ELSE @])
    /\ ledger' = AppendLedger(ledger, Entry("INVENTORY_DISPOSITION_SET", a,
                                IF decided = "LIST" THEN n ELSE -n, 1))
    /\ market' = [market EXCEPT ![n] = IF decided = "LIST" THEN "LISTED" ELSE "UNUSED"]
    /\ UNCHANGED <<duel, res, snap, disc, tier, paused, rec, chain>>

\* The provider ends a listing: sold or cancelled, never both.  A sale pays the house.
ProviderEndsListing(n) ==
  /\ market[n] = "LISTED"
  /\ \E end \in {"SOLD", "CANCELLED"} :
       /\ market' = [market EXCEPT ![n] = end]
       /\ chain' = IF end = "SOLD" THEN [chain EXCEPT !.balance = @ + 1] ELSE chain
  /\ UNCHANGED <<duel, res, ledger, asset, snap, disc, tier, paused, rec>>

\* delistInventory: signed evidence that the active listing was cancelled.
DelistInventory(a) ==
  /\ asset[a].status = "LISTED" /\ asset[a].listing = "LISTED" /\ asset[a].disposition = "LIST"
  /\ \E n \in Listings :
       /\ market[n] = "CANCELLED" /\ ActiveListing(a) = n
       /\ Touch(a, [asset[a] EXCEPT !.listing = "UNLISTED", !.status = "HELD"])
       /\ ledger' = AppendLedger(ledger, Entry("INVENTORY_DISPOSITION_SET", a, -MaxListings - n, 1))
  /\ UNCHANGED <<duel, res, snap, disc, tier, paused, rec, chain, market>>

\* completeDisposition: a sale of the active listing, or a buyback.
CompleteDisposition(a) ==
  /\ asset[a].status \notin {"NONE", "DISPOSED", "RECONCILIATION_REQUIRED"}
  /\ \/ /\ asset[a].disposition = "LIST" /\ asset[a].listing = "LISTED"
        /\ \E n \in Listings : market[n] = "SOLD" /\ ActiveListing(a) = n
        /\ UNCHANGED chain
     \/ /\ asset[a].disposition = "BUYBACK" /\ asset[a].listing # "LISTED"
        /\ chain' = [chain EXCEPT !.balance = @ + 1]
  /\ Touch(a, [asset[a] EXCEPT !.status = "DISPOSED",
                 !.listing = IF asset[a].disposition = "LIST" THEN "SOLD" ELSE "UNLISTED"])
  /\ ledger' = AppendLedger(ledger, Entry("INVENTORY_DISPOSED", a, 0, 1))
  /\ UNCHANGED <<duel, res, snap, disc, tier, paused, rec, market>>

(***************************************************************************)
(* The rest of the system, as the treasury sees it: a house duel that was  *)
(* matched moves along the status graph, the house's own payment leaves    *)
(* its account when the duel is funded and returns with an unopened        *)
(* refund, and slots pass.                                                 *)
(***************************************************************************)
\* assertFundingAllowed: the house pays only under a reservation that is not in recovery.
FundingAllowed(d) == res[d] \in {"RESERVED", "FUNDED"}

HouseDuelMoves(d) ==
  /\ duel[d].mode = "HOUSE" /\ duel[d].version < MaxVersion
  /\ \E to \in DuelStatuses, winner \in {duel[d].creator, duel[d].opponent, NoWallet} :
       /\ \/ to \in AllowedTransitions[duel[d].status]
          \/ duel[d].status = "CANCELLED" /\ to = RecoveryAlertTarget("CANCELLED")
       /\ to \in {"COMMITTING", "FUNDED"} => FundingAllowed(d)
       /\ to = "SETTLING" => duel[d].opened
       /\ winner # duel[d].winner => to = "AWAITING_ASSETS"
       /\ duel' = [duel EXCEPT ![d].status = to, ![d].winner = winner,
                               ![d].funded = @ \/ to = "FUNDED",
                               ![d].opened = @ \/ to = "AWAITING_ASSETS",
                               ![d].commitBy = IF to = "CANCELLED" THEN -1 ELSE @,
                               ![d].version = @ + 1]
       /\ chain' = CASE to = "FUNDED" -> [chain EXCEPT !.balance = @ - 1, !.delegated = @ - 1]
                     [] to = "REFUNDED" /\ duel[d].funded /\ ~duel[d].opened
                          -> [chain EXCEPT !.balance = @ + 1]
                     [] OTHER -> chain
  /\ UNCHANGED <<res, ledger, asset, snap, disc, tier, paused, rec, market>>

SlotAdvances ==
  /\ chain.slot < MaxSlot
  /\ chain' = [chain EXCEPT !.slot = @ + 1]
  /\ UNCHANGED <<duel, res, ledger, asset, snap, disc, tier, paused, rec, market>>

ReconcileOnChain ==
  \/ ReadAccount \/ ReadSlot \/ RecordSnapshot \/ ListCards \/ VerifyCard \/ EndReconcile

DisposeCards ==
  \/ \E a \in Assets : \/ QuoteCard(a) \/ SetDisposition(a)
                       \/ DelistInventory(a) \/ CompleteDisposition(a)
  \/ \E n \in Listings : ProviderEndsListing(n)

TreasuryNext ==
  \/ SetPaused \/ SlotAdvances
  \/ \E d \in Duels : ReconcileLifecycle(d) \/ HouseDuelMoves(d)
  \/ ReconcileOnChain
  \/ DisposeCards

(***************************************************************************)
(* Properties.                                                             *)
(***************************************************************************)
TreasuryTypeOK ==
  /\ \A d \in Duels : duel[d].status \in DuelStatuses \cup {"NONE"}
  /\ res \in [Duels -> ReservationStatuses]
  /\ \A i \in DOMAIN ledger : ledger[i].amount \in Nat /\ ledger[i].ref \in Duels \cup Assets
  /\ \A a \in Assets : asset[a].status \in {"NONE", "HELD", "LISTED", "DISPOSED",
                                            "RECONCILIATION_REQUIRED"}
  /\ disc.assets \subseteq Assets
  /\ chain.balance \in Nat /\ chain.delegated \in Nat
  /\ snap.slot <= chain.slot /\ rec.mark <= Len(ledger)

\* What the house has lost today and what it may still lose never add up to more than
\* the daily limit: reserveHouseExposure admits against both, and a reservation leaves
\* the active set only in the transaction that books its loss.
ExposureWithinDailyLimit == DailyLoss + Cardinality(ActiveReservations) <= DailyLossLimit

\* A house duel that can still cost the house holds an active reservation, and an
\* ended reservation is booked exactly once, as the duel ended: a player's win as a
\* loss, every other opened duel as the cost of a pack, an unopened one not at all.
ReservationFollowsDuel ==
  \A d \in Duels :
    /\ duel[d].mode = "HOUSE" /\ duel[d].status \in ACTIVE_HOUSE_DUEL =>
         d \in ActiveReservations
    /\ HasEntry("PLAYER_WIN_LOSS", d) <=> res[d] = "SETTLED" /\ duel[d].winner = duel[d].creator
                                          /\ duel[d].status = "SETTLED"
    /\ res[d] = "SETTLED" => duel[d].opened /\ HasEntry(Resolution(duel[d]), d)
    /\ res[d] = "RELEASED" => /\ HasEntry("RESERVATION_RELEASED", d) /\ ~duel[d].opened
                              /\ ~HasEntry("HOUSE_PACK_COST", d)

\* A card that was disposed of stays disposed of and is booked once: a reconciliation
\* that listed the card before its sale does not bring the row back.
DisposedIsFinal ==
  [][\A a \in Assets : asset[a].status = "DISPOSED" => asset'[a] = asset[a]]_<<asset, rec>>
=============================================================================
