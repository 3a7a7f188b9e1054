---------------------------- MODULE PlayersProofs ---------------------------
(*****************************************************************************)
(* Machine-checked proofs about how players sign in, meet and pay:           *)
(* WalletSession, Matchmaking with HouseTreasury, and DuelEntry, for any     *)
(* accounts, rows, duels, wallets, intents, lifetimes, limits and windows.   *)
(*****************************************************************************)
EXTENDS Matchmaking, WalletSession, DuelEntry, Totals, SequenceTheorems

(*****************************************************************************)
(* Duels, tickets and the treasury.                                         *)
(*****************************************************************************)

DuelRow == [status : DuelStatuses \cup {"NONE"}, mode : {"OPEN", "HOUSE"},
            creator : Wallets \cup {NoWallet}, opponent : Wallets \cup {NoWallet, House},
            winner : Wallets \cup {NoWallet, House}, opened : BOOLEAN, funded : BOOLEAN,
            version : Nat, expiresAt : Nat, commitBy : Int]
EntryTypes == {"RESERVATION_CREATED", "RESERVATION_RELEASED", "HOUSE_FUNDING_COMMITTED",
               "PLAYER_WIN_LOSS", "HOUSE_PACK_COST", "RECONCILIATION_ALERT",
               "INVENTORY_DISPOSITION_SET", "INVENTORY_DISPOSED"}
EntryRow == [type : EntryTypes, ref : Duels \cup Assets, key : Int, amount : {1}, day : Int]
AssetRow == [status : {"NONE", "HELD", "LISTED", "DISPOSED", "RECONCILIATION_REQUIRED"},
             disposition : {"MANUAL_REVIEW", "HOLD", "BUYBACK", "LIST"},
             listing : {"UNLISTED", "LISTED", "SOLD"}, quoted : BOOLEAN, version : Nat]
RecRow == [pc : {"idle", "slot", "record", "cards", "verify"}, balance : Int, delegated : Int,
           slot : Nat, mark : Nat, at : Nat, todo : SUBSET (Assets \X AssetRow)]
TicketRow == [duel : Duels \cup {"none"}, role : {"none", "CREATOR", "OPPONENT"},
              status : {"none", "SEARCHING", "MATCHED"}, at : Nat]
BehaviorRow == [count : Nat, start : Nat, until : Nat]
Dues == (Duels \X DuelRow) \cup (Duels \X DuelRow \X SUBSET Wallets)
RequestRow == [op : Operations \cup {"none"},
               pc : {"idle", "commitments", "searches", "clean", "allowed", "assign", "cancel",
                     "house", "refused"},
               now : Nat, due : SUBSET Dues]

MatchTypes ==
  /\ duel \in [Duels -> DuelRow] /\ res \in [Duels -> ReservationStatuses]
  /\ ledger \in Seq(EntryRow) /\ asset \in [Assets -> AssetRow]
  /\ chain \in [balance : Int, delegated : Int, slot : Nat] /\ rec \in RecRow
  /\ ticket \in [Wallets -> TicketRow] /\ behavior \in [Wallets -> BehaviorRow]
  /\ call \in [Wallets -> RequestRow] /\ clock \in Nat

(***************************************************************************)
(* The inductive invariant: the duel rows with their reservations and      *)
(* their bookings, the exposure, the cards, the tickets, the requests.     *)
(***************************************************************************)
\* The creator is a player, a waiting duel has no opponent, and packs of a house duel
\* are opened before it waits for them, settles or is settled.
RowFits(row) ==
  /\ row # NoDuel => /\ row.version > 0 /\ row.status # "NONE" /\ row.creator \in Wallets
                     /\ row.opponent # row.creator
  /\ row.status = "WAITING" => row.mode = "OPEN" /\ row.opponent = NoWallet
  /\ row.mode = "OPEN" => ~row.opened
  /\ row.status \in {"AWAITING_ASSETS", "SETTLING", "SETTLED"} => row.opened

\* The types of the entries the ledger has of a duel.
Booked(l, d) == {ty \in EntryTypes : \E i \in DOMAIN l : l[i].type = ty /\ l[i].ref = d}

\* A reservation of status s beside its duel row and the entries booked.
ReservationFits(row, s, booked) ==
  /\ row.mode = "OPEN" <=> s = "NONE"
  /\ row.mode = "HOUSE" /\ row.status \in ACTIVE_HOUSE_DUEL =>
       s \in ACTIVE_HOUSE_RESERVATION_STATUSES
  /\ s = "SETTLED" => /\ row.status \in {"SETTLED", "REFUNDED"} /\ row.opened
                      /\ Resolution(row) \in booked
  /\ s = "RELEASED" => /\ row.status \in {"CANCELLED", "REFUNDING", "REFUNDED", "FAILED"}
                       /\ ~row.opened /\ "RESERVATION_RELEASED" \in booked
  /\ "PLAYER_WIN_LOSS" \in booked => s = "SETTLED" /\ Resolution(row) = "PLAYER_WIN_LOSS"
  /\ "HOUSE_PACK_COST" \in booked => s = "SETTLED"

DuelsFit == \A d \in Duels : /\ RowFits(duel[d])
                             /\ ReservationFits(duel[d], res[d], Booked(ledger, d))

\* No entry is of a day to come.
ExposureFits ==
  /\ IsFiniteSet(ActiveReservations)
  /\ \A i \in DOMAIN ledger : ledger[i].day <= clock \div DayLength
  /\ ExposureWithinDailyLimit

\* A disposed card was quoted and has moved on from every reading of it.
CardFits(row) ==
  /\ row.status = "NONE" => row.version = 0
  /\ row.disposition \in {"BUYBACK", "LIST"} => row.quoted
  /\ row.status = "DISPOSED" => row.quoted
ReadingFits(seen, row) ==
  /\ seen.version <= row.version
  /\ row.status = "DISPOSED" => seen.version < row.version
CardsFit ==
  /\ \A a \in Assets : CardFits(asset[a])
  /\ \A t \in rec.todo : ReadingFits(t[2], asset[t[1]])

TicketsFit ==
  /\ \A w \in Wallets :
       ticket[w] # NoTicket => ticket[w].duel \in Duels /\ duel[ticket[w].duel].version > 0
  /\ TicketsAgreeWithDuels

\* A row keeps its version only while nothing but its funding changes.
SeenFits(seen, row) ==
  /\ 0 < seen.version /\ seen.version <= row.version
  /\ seen.version = row.version =>
       /\ seen.status = row.status /\ seen.mode = row.mode /\ seen.creator = row.creator
       /\ seen.opponent = row.opponent /\ seen.commitBy = row.commitBy
Dead(row) == row.version > 0 /\ row.status \notin LiveForTicket

\* What a request of w has read.
DueFits(w, c, seen, row) ==
  /\ SeenFits(seen, row)
  /\ c.pc = "commitments" => seen.status \in {"MATCHED", "COMMITTING"} /\ seen.commitBy \in 0..c.now
  /\ c.pc = "searches" => seen.status = "WAITING"
  /\ c.pc = "cancel" => seen.status \in {"WAITING", "MATCHED"}
  /\ c.pc = "house" => seen.status = "WAITING" /\ seen.creator = w
  /\ c.pc = "clean" => Dead(row)
RequestFits(w, c, rows) ==
  /\ c.now <= clock
  /\ \A t \in c.due : DueFits(w, c, t[2], rows[t[1]])
RequestsFit == \A w \in Wallets : RequestFits(w, call[w], duel)

MatchInv ==
  /\ MatchTypes
  /\ DuelsFit
  /\ ExposureFits
  /\ CardsFit
  /\ TicketsFit
  /\ RequestsFit

(***************************************************************************)
(* Days and sums of the ledger.                                            *)
(***************************************************************************)
Today(c) == c \div DayLength
LossOn(l, day) == {i \in DOMAIN l : l[i].type = "PLAYER_WIN_LOSS" /\ l[i].day = day}
Loss(l, day) == Total(l, LossOn(l, day))

LEMMA DaysAdvance ==
  ASSUME NEW c \in Nat
  PROVE  Today(c) \in Int /\ Today(c) <= Today(c + 1)
<1>1. DayLength \in Nat \ {0}
  BY TreasuryConstants
<1> DEFINE q == Today(c)
           p == Today(c + 1)
<1>2. q \in Int /\ q * DayLength <= c /\ c < (q + 1) * DayLength
  BY <1>1, SMTT(30) DEF Today
<1>3. p \in Int /\ p * DayLength <= c + 1 /\ c + 1 < (p + 1) * DayLength
  BY <1>1, SMTT(30) DEF Today
<1> HIDE DEF q, p
<1>4. q <= p
  <2>1. SUFFICES ASSUME p + 1 <= q PROVE FALSE
    BY <1>2, <1>3
  <2>2. (p + 1) * DayLength <= q * DayLength
    BY <1>1, <1>2, <1>3, <2>1, SMTT(30)
  <2> DEFINE a == (p + 1) * DayLength
             b == q * DayLength
  <2>3. a \in Int /\ b \in Int
    BY <1>1, <1>2, <1>3
  <2> HIDE DEF a, b
  <2> QED BY <1>2, <1>3, <2>2, <2>3 DEF a, b
<1> QED BY <1>2, <1>4 DEF q, p

LEMMA DailyLossIsTotal ==
  /\ DailyLoss = Loss(ledger, Today(clock))
  /\ DailyLoss' = Loss(ledger', Today(clock'))
<1>1. DailyLoss = Loss(ledger, Today(clock))
  BY DEF DailyLoss, Loss, LossOn, Today, Amounts, MapThenSumSet, MapThenFoldSet, Totals, Pick, Total
<1>2. DailyLoss' = Loss(ledger', Today(clock'))
  BY DEF DailyLoss, Loss, LossOn, Today, Amounts, MapThenSumSet, MapThenFoldSet, Totals, Pick, Total
<1> QED BY <1>1, <1>2

LEMMA LedgerIsFinite ==
  ASSUME NEW l \in Seq(EntryRow)
  PROVE  /\ Len(l) \in Nat /\ DOMAIN l = 1..Len(l)
         /\ \A i \in DOMAIN l : l[i] \in EntryRow
         /\ IsFiniteSet(DOMAIN l)
         /\ \A day : LossOn(l, day) \in SUBSET DOMAIN l
<1>1. Len(l) \in Nat /\ DOMAIN l = 1..Len(l) /\ \A i \in DOMAIN l : l[i] \in EntryRow
  OBVIOUS
<1>2. IsFiniteSet(1..Len(l))
  BY <1>1, FS_Interval
<1> QED BY <1>1, <1>2 DEF LossOn

\* An appended entry is the last one; nothing else moves.
Appends(l, e, k) == k = AppendLedger(l, e)
Grown(l, e, k) ==
  \/ k = l /\ \E i \in DOMAIN l : l[i].type = e.type /\ l[i].ref = e.ref
  \/ /\ DOMAIN k = DOMAIN l \cup {Len(l) + 1} /\ Len(l) + 1 \notin DOMAIN l
     /\ k[Len(l) + 1] = e /\ \A i \in DOMAIN l : k[i] = l[i]

LEMMA Appended ==
  ASSUME NEW l \in Seq(EntryRow), NEW e \in EntryRow, NEW k, Appends(l, e, k)
  PROVE  k \in Seq(EntryRow) /\ Grown(l, e, k)
<1>1. CASE \E i \in DOMAIN l : l[i].type = e.type /\ l[i].ref = e.ref /\ l[i].key = e.key
  BY <1>1 DEF Appends, AppendLedger, Grown
<1>2. CASE ~ \E i \in DOMAIN l : l[i].type = e.type /\ l[i].ref = e.ref /\ l[i].key = e.key
  <2>1. k = Append(l, e)
    BY <1>2 DEF Appends, AppendLedger
  <2>2. k \in Seq(EntryRow) /\ Len(k) = Len(l) + 1 /\ k[Len(l) + 1] = e /\ \A i \in 1..Len(l) : k[i] = l[i]
    BY <2>1, AppendProperties
  <2>3. Len(l) \in Nat /\ DOMAIN l = 1..Len(l) /\ DOMAIN k = 1..Len(k)
    BY <2>2
  <2>4. DOMAIN k = DOMAIN l \cup {Len(l) + 1} /\ Len(l) + 1 \notin DOMAIN l
    BY <2>2, <2>3
  <2> QED BY <2>2, <2>3, <2>4 DEF Grown
<1> QED BY <1>1, <1>2

\* What is booked of a duel grows by the entry's type.
LEMMA BookedGrows ==
  ASSUME NEW l \in Seq(EntryRow), NEW e \in EntryRow, NEW d
  PROVE  Booked(AppendLedger(l, e), d) = Booked(l, d) \cup (IF d = e.ref THEN {e.type} ELSE {})
<1>0. PICK k : Appends(l, e, k)
  BY DEF Appends
<1>1. \/ k = l /\ \E i \in DOMAIN l : l[i].type = e.type /\ l[i].ref = e.ref
      \/ /\ DOMAIN k = DOMAIN l \cup {Len(l) + 1} /\ Len(l) + 1 \notin DOMAIN l
         /\ k[Len(l) + 1] = e /\ \A i \in DOMAIN l : k[i] = l[i]
  <2>1. Grown(l, e, k)
    BY <1>0, Appended
  <2> QED BY <2>1 DEF Grown
<1>2. e.type \in EntryTypes
  BY DEF EntryRow
<1>3. ASSUME k = l /\ \E i \in DOMAIN l : l[i].type = e.type /\ l[i].ref = e.ref
      PROVE  Booked(k, d) = Booked(l, d) \cup (IF d = e.ref THEN {e.type} ELSE {})
  <2>1. ASSUME NEW ty \in EntryTypes
        PROVE  (\E i \in DOMAIN k : k[i].type = ty /\ k[i].ref = d)
                 <=> ((\E i \in DOMAIN l : l[i].type = ty /\ l[i].ref = d) \/ (d = e.ref /\ ty = e.type))
    BY <1>3
  <2> QED BY <1>2, <2>1 DEF Booked
<1>4. ASSUME /\ DOMAIN k = DOMAIN l \cup {Len(l) + 1} /\ Len(l) + 1 \notin DOMAIN l
             /\ k[Len(l) + 1] = e /\ \A i \in DOMAIN l : k[i] = l[i]
      PROVE  Booked(k, d) = Booked(l, d) \cup (IF d = e.ref THEN {e.type} ELSE {})
  <2>1. ASSUME NEW ty \in EntryTypes
        PROVE  (\E i \in DOMAIN k : k[i].type = ty /\ k[i].ref = d)
                 <=> ((\E i \in DOMAIN l : l[i].type = ty /\ l[i].ref = d) \/ (d = e.ref /\ ty = e.type))
    BY <1>4
  <2> QED BY <1>2, <2>1 DEF Booked
<1>5. Booked(k, d) = Booked(l, d) \cup (IF d = e.ref THEN {e.type} ELSE {})
  BY <1>1, <1>3, <1>4
<1> QED BY <1>0, <1>5 DEF Appends

\* An entry adds at most its own amount to the loss of its day.
LEMMA LossGrows ==
  ASSUME NEW l \in Seq(EntryRow), NEW e \in EntryRow, NEW day, NEW k, Appends(l, e, k)
  PROVE  /\ Loss(l, day) \in Nat /\ Loss(k, day) \in Nat
         /\ Loss(k, day) <= Loss(l, day) + 1
         /\ e.type # "PLAYER_WIN_LOSS" => Loss(k, day) = Loss(l, day)
<1> DEFINE n == Len(l) + 1
           A == LossOn(l, day)
           B == LossOn(k, day)
<1>1. \/ k = l
      \/ /\ DOMAIN k = DOMAIN l \cup {n} /\ n \notin DOMAIN l
         /\ k[n] = e /\ \A i \in DOMAIN l : k[i] = l[i]
  <2>1. Grown(l, e, k)
    BY Appended
  <2> QED BY <2>1 DEF Grown
<1>2. k \in Seq(EntryRow)
  BY Appended
<1>3. IsFiniteSet(DOMAIN l) /\ A \in SUBSET DOMAIN l
  BY LedgerIsFinite
<1>4. IsFiniteSet(DOMAIN k) /\ B \in SUBSET DOMAIN k
  BY <1>2, LedgerIsFinite
<1>0. /\ \A i \in DOMAIN l : l[i].amount \in Nat
      /\ \A i \in DOMAIN k : k[i].amount \in Nat
  <2>1. /\ \A i \in DOMAIN l : l[i] \in EntryRow
        /\ \A i \in DOMAIN k : k[i] \in EntryRow
    BY <1>2, LedgerIsFinite
  <2> QED BY <2>1 DEF EntryRow
<1>5. Loss(l, day) = Total(l, A) /\ Loss(k, day) = Total(k, B)
  BY DEF Loss
<1> HIDE DEF A, B
<1>6. Total(l, A) \in Nat
  BY <1>0, <1>3, TotalSplits
<1>7. Total(k, B) \in Nat /\ \A x \in B : Total(k, B) = k[x].amount + Total(k, B \ {x})
  BY <1>0, <1>4, TotalSplits
<1>8. CASE k = l
  BY <1>5, <1>6, <1>8 DEF A, B
<1>9. CASE /\ DOMAIN k = DOMAIN l \cup {n} /\ n \notin DOMAIN l
           /\ k[n] = e /\ \A i \in DOMAIN l : k[i] = l[i]
  <2>1. Total(k, A) = Total(l, A)
    <3>1. \A i \in DOMAIN l : k[i].amount = l[i].amount
      BY <1>9
    <3>2. \A R \in SUBSET DOMAIN l : Total(k, R) = Total(l, R)
      BY <3>1, <1>3, TotalsEqual, Zenon
    <3> QED BY <3>2, <1>3
  <2>2. CASE n \in B
    <3>1. B \ {n} = A
      BY <1>9 DEF A, B, LossOn
    <3>2. Total(k, B) = k[n].amount + Total(k, B \ {n})
      BY <2>2, <1>7
    <3>3. k[n].amount = 1
      BY <1>9 DEF EntryRow
    <3>4. e.type = "PLAYER_WIN_LOSS"
      BY <2>2, <1>9 DEF B, LossOn
    <3>5. Total(k, B) = 1 + Total(l, A)
      BY <3>1, <3>2, <3>3, <2>1
    <3>6. Loss(k, day) = 1 + Loss(l, day) /\ Loss(l, day) \in Nat
      BY <3>5, <1>5, <1>6
    <3> QED BY <3>4, <3>6
  <2>3. CASE n \notin B
    <3>1. B = A
      BY <2>3, <1>9 DEF A, B, LossOn
    <3> QED BY <3>1, <2>1, <1>5, <1>6, <1>7
  <2> QED BY <2>2, <2>3
<1> QED BY <1>1, <1>8, <1>9

(***************************************************************************)
(* How the rows of duels are written.                                      *)
(***************************************************************************)
LEMMA NobodyIsAPlayer ==
  /\ NoWallet \notin Wallets /\ House \notin Wallets /\ NoWallet # House /\ "none" \notin Duels
BY TreasuryConstants DEF NoWallet, House

LEMMA LimitsAreNat ==
  /\ CommitmentWindow \in Nat /\ SearchLifetime \in Nat /\ FailureWindow \in Nat
  /\ MaxFailures \in Nat /\ BlockTime \in Nat /\ DailyLossLimit \in Nat /\ MaxListings \in Nat
BY TreasuryConstants, MatchmakingConstants

\* A move counts the version and leaves who made the duel and how it ends.
Kept(r, q) == /\ q \in DuelRow /\ q.version = r.version + 1 /\ q.creator = r.creator
              /\ q.opened = r.opened /\ q.winner = r.winner

LEMMA VersionCounted ==
  ASSUME NEW y \in DuelRow, NEW q, q = [y EXCEPT !.version = @ + 1]
  PROVE  /\ Kept(y, q) /\ q.status = y.status /\ q.mode = y.mode /\ q.opponent = y.opponent
         /\ q.commitBy = y.commitBy
<1>1. y.version \in Nat /\ y.version + 1 \in Nat
  BY DEF DuelRow
<1> DEFINE v == y.version + 1
<1>2. q = [y EXCEPT !.version = v]
  OBVIOUS
<1> HIDE DEF v
<1>3. q \in DuelRow /\ q.version = v
  BY <1>1, <1>2 DEF DuelRow, v
<1>4. /\ q.creator = y.creator /\ q.opened = y.opened /\ q.winner = y.winner
      /\ q.status = y.status /\ q.mode = y.mode /\ q.opponent = y.opponent
      /\ q.commitBy = y.commitBy
  BY <1>2 DEF DuelRow
<1> QED BY <1>3, <1>4 DEF Kept, v

LEMMA StatusWritten ==
  ASSUME NEW r \in DuelRow, NEW s \in DuelStatuses, NEW q,
         q = [[r EXCEPT !.status = s] EXCEPT !.version = @ + 1]
  PROVE  /\ Kept(r, q) /\ q.status = s /\ q.mode = r.mode /\ q.opponent = r.opponent
         /\ q.commitBy = r.commitBy
<1>1. PICK y \in DuelRow : y = [r EXCEPT !.status = s]
  BY DEF DuelRow, DuelStatuses
<1>2. /\ y.version = r.version /\ y.creator = r.creator /\ y.opened = r.opened
      /\ y.winner = r.winner /\ y.status = s /\ y.mode = r.mode /\ y.opponent = r.opponent
      /\ y.commitBy = r.commitBy
  BY <1>1 DEF DuelRow
<1>3. q = [y EXCEPT !.version = @ + 1]
  BY <1>1
<1>4. /\ Kept(y, q) /\ q.status = y.status /\ q.mode = y.mode /\ q.opponent = y.opponent
      /\ q.commitBy = y.commitBy
  BY <1>3, VersionCounted
<1>5. q \in DuelRow /\ q.version = r.version + 1
  BY <1>2, <1>4 DEF Kept
<1>6. q.creator = r.creator /\ q.opened = r.opened /\ q.winner = r.winner
  BY <1>2, <1>4, Zenon DEF Kept
<1> QED BY <1>2, <1>4, <1>5, <1>6, Zenon DEF Kept

LEMMA EndWritten ==
  ASSUME NEW r \in DuelRow, NEW s \in DuelStatuses, NEW q,
         q = [[r EXCEPT !.status = s, !.commitBy = -1] EXCEPT !.version = @ + 1]
  PROVE  Kept(r, q) /\ q.status = s /\ q.mode = r.mode /\ q.opponent = r.opponent
<1>1. PICK y \in DuelRow : y = [r EXCEPT !.status = s, !.commitBy = -1]
  <2>1. PICK m \in Int : m = -1
    OBVIOUS
  <2>2. [r EXCEPT !.status = s, !.commitBy = m] \in DuelRow
    BY DEF DuelRow
  <2> QED BY <2>1, <2>2
<1>2. /\ y.version = r.version /\ y.creator = r.creator /\ y.opened = r.opened
      /\ y.winner = r.winner /\ y.status = s /\ y.mode = r.mode /\ y.opponent = r.opponent
  BY <1>1 DEF DuelRow
<1>3. q = [y EXCEPT !.version = @ + 1]
  BY <1>1
<1>4. /\ Kept(y, q) /\ q.status = y.status /\ q.mode = y.mode /\ q.opponent = y.opponent
      /\ q.commitBy = y.commitBy
  BY <1>3, VersionCounted
<1>5. q \in DuelRow /\ q.version = r.version + 1
  BY <1>2, <1>4 DEF Kept
<1>6. q.creator = r.creator /\ q.opened = r.opened /\ q.winner = r.winner
  BY <1>2, <1>4, Zenon DEF Kept
<1> QED BY <1>2, <1>4, <1>5, <1>6, Zenon DEF Kept

LEMMA RequeueWritten ==
  ASSUME NEW r \in DuelRow, NEW q,
         q = [[r EXCEPT !.status = "WAITING", !.opponent = NoWallet, !.commitBy = -1]
                EXCEPT !.version = @ + 1]
  PROVE  Kept(r, q) /\ q.status = "WAITING" /\ q.mode = r.mode /\ q.opponent = NoWallet
<1>1. PICK y \in DuelRow : y = [r EXCEPT !.status = "WAITING", !.opponent = NoWallet, !.commitBy = -1]
  <2>1. PICK m \in Int : m = -1
    OBVIOUS
  <2>2. PICK to \in DuelStatuses : to = "WAITING"
    BY DEF DuelStatuses
  <2>3. [r EXCEPT !.status = to, !.opponent = NoWallet, !.commitBy = m] \in DuelRow
    BY DEF DuelRow
  <2> QED BY <2>1, <2>2, <2>3
<1>2. /\ y.version = r.version /\ y.creator = r.creator /\ y.opened = r.opened
      /\ y.winner = r.winner /\ y.status = "WAITING" /\ y.mode = r.mode /\ y.opponent = NoWallet
  BY <1>1 DEF DuelRow
<1>3. q = [y EXCEPT !.version = @ + 1]
  BY <1>1
<1>4. /\ Kept(y, q) /\ q.status = y.status /\ q.mode = y.mode /\ q.opponent = y.opponent
      /\ q.commitBy = y.commitBy
  BY <1>3, VersionCounted
<1>5. q \in DuelRow /\ q.version = r.version + 1
  BY <1>2, <1>4 DEF Kept
<1>6. q.creator = r.creator /\ q.opened = r.opened /\ q.winner = r.winner
  BY <1>2, <1>4, Zenon DEF Kept
<1> QED BY <1>2, <1>4, <1>5, <1>6, Zenon DEF Kept

\* The rows of a pair, of a house duel and of a search.
PairRow(r, w, by) ==
  [[r EXCEPT !.status = "MATCHED", !.opponent = w, !.commitBy = by] EXCEPT !.version = @ + 1]
HouseRow(r, by) ==
  [[r EXCEPT !.status = "MATCHED", !.mode = "HOUSE", !.opponent = House, !.commitBy = by]
     EXCEPT !.version = @ + 1]
SearchRow(w, m) ==
  [NoDuel EXCEPT !.status = "WAITING", !.creator = w, !.version = 1, !.expiresAt = m]

LEMMA MatchWritten ==
  ASSUME NEW r \in DuelRow, NEW w \in Wallets, NEW by \in Int, NEW q, q = PairRow(r, w, by)
  PROVE  Kept(r, q) /\ q.status = "MATCHED" /\ q.mode = r.mode /\ q.opponent = w
<1>1. PICK y \in DuelRow : y = [r EXCEPT !.status = "MATCHED", !.opponent = w, !.commitBy = by]
  BY DEF DuelRow, DuelStatuses
<1>2. /\ y.version = r.version /\ y.creator = r.creator /\ y.opened = r.opened
      /\ y.winner = r.winner /\ y.status = "MATCHED" /\ y.mode = r.mode /\ y.opponent = w
  BY <1>1 DEF DuelRow
<1>3. q = [y EXCEPT !.version = @ + 1]
  BY <1>1 DEF PairRow
<1>4. /\ Kept(y, q) /\ q.status = y.status /\ q.mode = y.mode /\ q.opponent = y.opponent
      /\ q.commitBy = y.commitBy
  BY <1>3, VersionCounted
<1>5. q \in DuelRow /\ q.version = r.version + 1
  BY <1>2, <1>4 DEF Kept
<1>6. q.creator = r.creator /\ q.opened = r.opened /\ q.winner = r.winner
  BY <1>2, <1>4, Zenon DEF Kept
<1> QED BY <1>2, <1>4, <1>5, <1>6, Zenon DEF Kept

LEMMA HouseWritten ==
  ASSUME NEW r \in DuelRow, NEW by \in Int, NEW q, q = HouseRow(r, by)
  PROVE  Kept(r, q) /\ q.status = "MATCHED" /\ q.mode = "HOUSE" /\ q.opponent = House
<1>1. PICK y \in DuelRow : y = [r EXCEPT !.status = "MATCHED", !.mode = "HOUSE", !.opponent = House,
                                        !.commitBy = by]
  BY DEF DuelRow, DuelStatuses
<1>2. /\ y.version = r.version /\ y.creator = r.creator /\ y.opened = r.opened
      /\ y.winner = r.winner /\ y.status = "MATCHED" /\ y.mode = "HOUSE" /\ y.opponent = House
  BY <1>1 DEF DuelRow
<1>3. q = [y EXCEPT !.version = @ + 1]
  BY <1>1 DEF HouseRow
<1>4. /\ Kept(y, q) /\ q.status = y.status /\ q.mode = y.mode /\ q.opponent = y.opponent
      /\ q.commitBy = y.commitBy
  BY <1>3, VersionCounted
<1>5. q \in DuelRow /\ q.version = r.version + 1
  BY <1>2, <1>4 DEF Kept
<1>6. q.creator = r.creator /\ q.opened = r.opened /\ q.winner = r.winner
  BY <1>2, <1>4, Zenon DEF Kept
<1> QED BY <1>2, <1>4, <1>5, <1>6, Zenon DEF Kept

LEMMA KeptRow ==
  ASSUME NEW r \in DuelRow, NEW q, Kept(r, q)
  PROVE  q.version > 0 /\ q.creator = r.creator
<1>1. r.version \in Nat /\ q.version = r.version + 1
  BY DEF DuelRow, Kept
<1> QED BY <1>1 DEF Kept

LEMMA NoDuelIs ==
  /\ NoDuel \in DuelRow /\ NoDuel.version = 0 /\ NoDuel.status = "NONE" /\ NoDuel.mode = "OPEN"
  /\ NoDuel.creator = NoWallet /\ NoDuel.opponent = NoWallet /\ ~NoDuel.opened
BY DEF NoDuel, DuelRow

\* The searching row, the row whose payment has become final, the row of a house duel.
LEMMA SearchWritten ==
  ASSUME NEW w \in Wallets, NEW m \in Nat, NEW q, q = SearchRow(w, m)
  PROVE  /\ q \in DuelRow /\ q.version = 1 /\ q.status = "WAITING" /\ q.mode = "OPEN"
         /\ q.creator = w /\ q.opponent = NoWallet /\ ~q.opened
<1>1. NoDuel \in DuelRow
  BY NoDuelIs
<1>2. q \in DuelRow /\ q.version = 1 /\ q.status = "WAITING" /\ q.creator = w
  <2>1. PICK to \in DuelStatuses : to = "WAITING"
    BY DEF DuelStatuses
  <2>2. PICK o \in Nat : o = 1
    OBVIOUS
  <2>3. q = [NoDuel EXCEPT !.status = to, !.creator = w, !.version = o, !.expiresAt = m]
    BY <2>1, <2>2 DEF SearchRow
  <2>4. q \in DuelRow /\ q.version = o /\ q.status = to /\ q.creator = w
    BY <1>1, <2>3 DEF DuelRow
  <2> QED BY <2>1, <2>2, <2>4
<1>3. q.mode = NoDuel.mode /\ q.opponent = NoDuel.opponent /\ q.opened = NoDuel.opened
  BY <1>1 DEF DuelRow, SearchRow
<1> QED BY <1>2, <1>3, NoDuelIs

LEMMA FundedWritten ==
  ASSUME NEW r \in DuelRow, NEW q, q = [r EXCEPT !.funded = TRUE]
  PROVE  /\ q \in DuelRow /\ q.version = r.version /\ q.status = r.status /\ q.mode = r.mode
         /\ q.creator = r.creator /\ q.opponent = r.opponent /\ q.opened = r.opened
         /\ q.commitBy = r.commitBy /\ q.winner = r.winner
BY DEF DuelRow

MovedRow(r, to, winner) ==
  [r EXCEPT !.status = to, !.winner = winner, !.funded = @ \/ to = "FUNDED",
            !.opened = @ \/ to = "AWAITING_ASSETS",
            !.commitBy = IF to = "CANCELLED" THEN -1 ELSE @,
            !.version = @ + 1]

LEMMA HouseRowWritten ==
  ASSUME NEW r \in DuelRow, NEW to \in DuelStatuses,
         NEW winner \in {r.creator, r.opponent, NoWallet}, NEW q, q = MovedRow(r, to, winner)
  PROVE  /\ q \in DuelRow /\ q.version = r.version + 1 /\ q.status = to /\ q.mode = r.mode
         /\ q.creator = r.creator /\ q.opponent = r.opponent /\ q.winner = winner
         /\ q.opened = (r.opened \/ to = "AWAITING_ASSETS")
<1>1. (r.funded \/ to = "FUNDED") \in BOOLEAN /\ (r.opened \/ to = "AWAITING_ASSETS") \in BOOLEAN
  OBVIOUS
<1>2. winner \in Wallets \cup {NoWallet, House}
  BY DEF DuelRow
<1>3. (IF to = "CANCELLED" THEN -1 ELSE r.commitBy) \in Int
  BY DEF DuelRow
<1> DEFINE f == r.funded \/ to = "FUNDED"
           o == r.opened \/ to = "AWAITING_ASSETS"
           c == IF to = "CANCELLED" THEN -1 ELSE r.commitBy
           v == r.version + 1
<1>4. v \in Nat
  BY DEF DuelRow
<1>5. q = [r EXCEPT !.status = to, !.winner = winner, !.funded = f, !.opened = o, !.commitBy = c,
                    !.version = v]
  BY DEF MovedRow
<1>6. f \in BOOLEAN /\ o \in BOOLEAN /\ c \in Int
  BY <1>1, <1>3
<1> HIDE DEF f, o, c, v
<1>7. q \in DuelRow /\ q.version = v /\ q.status = to /\ q.winner = winner /\ q.opened = o
  BY <1>2, <1>4, <1>5, <1>6 DEF DuelRow
<1>8. q.mode = r.mode /\ q.creator = r.creator /\ q.opponent = r.opponent
  BY <1>5 DEF DuelRow
<1> QED BY <1>7, <1>8 DEF o, v

(***************************************************************************)
(* What the moves keep of a row and its reservation.                       *)
(***************************************************************************)
\* A move counts the version unless it leaves what a request looks at; a dead duel
\* stays dead.
Follows(r, q) ==
  /\ \/ q.version > r.version
     \/ /\ q.version = r.version /\ q.status = r.status /\ q.mode = r.mode
        /\ q.creator = r.creator /\ q.opponent = r.opponent /\ q.commitBy = r.commitBy
  /\ Dead(r) => Dead(q)

\* A live duel after the move was as live before, between the same players.
Quiet(r, q) ==
  /\ r.version > 0 => q.version > 0
  /\ q.status \in LiveForTicket =>
       /\ r.status \in LiveForTicket /\ (q.status = "WAITING" <=> r.status = "WAITING")
       /\ q.creator = r.creator /\ q.opponent = r.opponent /\ q.mode = r.mode

LEMMA EndFits ==
  ASSUME NEW r \in DuelRow, NEW q, NEW s, NEW B, RowFits(r), ReservationFits(r, s, B),
         r.status \in LiveForTicket, Kept(r, q), q.status \in {"CANCELLED", "REFUNDING"},
         q.mode = r.mode, q.opponent = r.opponent
  PROVE  RowFits(q) /\ ReservationFits(q, s, B) /\ Follows(r, q) /\ Dead(q)
<1>1. r # NoDuel
  BY NoDuelIs DEF LiveForTicket
<1>2. r.version \in Nat /\ q.version = r.version + 1 /\ q \in DuelRow
  BY DEF Kept, DuelRow
<1>3. Dead(q) /\ Follows(r, q)
  BY <1>2 DEF Dead, Follows, LiveForTicket
<1>4. RowFits(q)
  BY <1>1, <1>2 DEF RowFits, Kept
<1>5. s \notin {"SETTLED", "RELEASED"}
  BY DEF ReservationFits, LiveForTicket
<1>6. ReservationFits(q, s, B)
  BY <1>5 DEF ReservationFits, ACTIVE_HOUSE_DUEL
<1> QED BY <1>3, <1>4, <1>6

LEMMA PlayerRowFits ==
  ASSUME NEW r \in DuelRow, NEW q, NEW s, NEW B, RowFits(r), ReservationFits(r, s, B),
         r.mode = "OPEN", r.status # "NONE", Kept(r, q), q.mode = r.mode,
         q.status \notin {"NONE", "AWAITING_ASSETS", "SETTLING", "SETTLED"},
         q.opponent # r.creator, q.status = "WAITING" => q.opponent = NoWallet
  PROVE  RowFits(q) /\ ReservationFits(q, s, B)
<1>1. r # NoDuel
  BY NoDuelIs
<1>2. r.version \in Nat /\ q.version = r.version + 1 /\ q \in DuelRow
  BY DEF Kept, DuelRow
<1>4. RowFits(q)
  BY <1>1, <1>2 DEF RowFits, Kept
<1>5. s = "NONE"
  BY DEF ReservationFits
<1>6. ReservationFits(q, s, B)
  BY <1>5 DEF ReservationFits
<1> QED BY <1>4, <1>6

LEMMA Graph ==
  ASSUME NEW s \in DuelStatuses, NEW to \in DuelStatuses,
         to \in AllowedTransitions[s] \/ (s = "CANCELLED" /\ to = RecoveryAlertTarget("CANCELLED"))
  PROVE  /\ s \notin {"SETTLED", "REFUNDED"} /\ to # "WAITING"
         /\ to \in LiveForTicket => s \in LiveForTicket
         /\ s \in {"CANCELLED", "REFUNDING", "FAILED"} =>
              to \in {"REFUNDED", "SETTLING", "FAILED", "REFUNDING"}
         /\ to = "SETTLED" => s = "SETTLING"
         /\ to \in ACTIVE_HOUSE_DUEL /\ to # "SETTLING" => s \in ACTIVE_HOUSE_DUEL \cup {"WAITING"}
BY DEF DuelStatuses, AllowedTransitions, RecoveryAlertTarget, LiveForTicket, ACTIVE_HOUSE_DUEL

LEMMA HouseRowFits ==
  ASSUME NEW r \in DuelRow, NEW q, NEW s \in ReservationStatuses, NEW B, RowFits(r),
         ReservationFits(r, s, B), r.mode = "HOUSE", NEW to \in DuelStatuses,
         to \in AllowedTransitions[r.status]
           \/ (r.status = "CANCELLED" /\ to = RecoveryAlertTarget("CANCELLED")),
         to = "SETTLING" => r.opened,
         q \in DuelRow, q.version = r.version + 1, q.status = to, q.mode = r.mode,
         q.creator = r.creator, q.opponent = r.opponent,
         q.opened = (r.opened \/ to = "AWAITING_ASSETS")
  PROVE  RowFits(q) /\ ReservationFits(q, s, B) /\ Follows(r, q) /\ Quiet(r, q)
<1>1. r # NoDuel /\ r.status \in DuelStatuses /\ r.status # "WAITING"
  BY NoDuelIs DEF RowFits, DuelRow
<1>2. r.version \in Nat
  BY DEF DuelRow
<1>3. /\ r.status \notin {"SETTLED", "REFUNDED"} /\ to # "WAITING"
      /\ to \in LiveForTicket => r.status \in LiveForTicket
      /\ r.status \in {"CANCELLED", "REFUNDING", "FAILED"} =>
           to \in {"REFUNDED", "SETTLING", "FAILED", "REFUNDING"}
      /\ to = "SETTLED" => r.status = "SETTLING"
      /\ to \in ACTIVE_HOUSE_DUEL /\ to # "SETTLING" => r.status \in ACTIVE_HOUSE_DUEL \cup {"WAITING"}
  BY <1>1, Graph
<1>4. Follows(r, q) /\ Quiet(r, q)
  BY <1>1, <1>2, <1>3 DEF Follows, Quiet, Dead
<1>5. RowFits(q)
  <2>1. q.status \in {"AWAITING_ASSETS", "SETTLING", "SETTLED"} => q.opened
    BY <1>3 DEF RowFits
  <2>2. q.status # "NONE"
    BY DEF DuelStatuses
  <2> QED BY <1>1, <1>2, <1>3, <2>1, <2>2 DEF RowFits
<1>6. ReservationFits(q, s, B)
  <2>1. s # "SETTLED" /\ s # "NONE"
    BY <1>3 DEF ReservationFits
  <2>2. CASE s = "RELEASED"
    <3>1. r.status \in {"CANCELLED", "REFUNDING", "FAILED"} /\ ~r.opened /\ "RESERVATION_RELEASED" \in B
      BY <2>2, <1>3 DEF ReservationFits
    <3>2. to \in {"REFUNDED", "FAILED", "REFUNDING"}
      BY <3>1, <1>3
    <3> QED BY <2>1, <2>2, <3>1, <3>2 DEF ReservationFits, ACTIVE_HOUSE_DUEL
  <2>3. CASE s # "RELEASED"
    <3>1. s \in ACTIVE_HOUSE_RESERVATION_STATUSES
      BY <2>1, <2>3 DEF ReservationStatuses, ACTIVE_HOUSE_RESERVATION_STATUSES
    <3> QED BY <2>1, <2>3, <3>1 DEF ReservationFits
  <2> QED BY <2>2, <2>3
<1> QED BY <1>4, <1>5, <1>6

(***************************************************************************)
(* What a step that writes one row, one ticket or one request keeps.       *)
(***************************************************************************)
LEMMA OneRowWritten ==
  ASSUME MatchTypes, DuelsFit, NEW d \in Duels, NEW q \in DuelRow, duel' = [duel EXCEPT ![d] = q],
         UNCHANGED <<res, ledger>>, RowFits(q), ReservationFits(q, res[d], Booked(ledger, d))
  PROVE  duel' \in [Duels -> DuelRow] /\ DuelsFit'
<1>1. /\ duel' \in [Duels -> DuelRow] /\ duel'[d] = q
      /\ \A e \in Duels : e # d => duel'[e] = duel[e]
  BY DEF MatchTypes
<1>2. ASSUME NEW e \in Duels
      PROVE  RowFits(duel'[e]) /\ ReservationFits(duel'[e], res[e], Booked(ledger, e))
  BY <1>1 DEF DuelsFit
<1>3. DuelsFit'
  BY <1>2 DEF DuelsFit
<1> QED BY <1>1, <1>3

LEMMA DuelFits ==
  ASSUME MatchTypes, DuelsFit, NEW d \in Duels
  PROVE  /\ duel[d] \in DuelRow /\ res[d] \in ReservationStatuses
         /\ RowFits(duel[d]) /\ ReservationFits(duel[d], res[d], Booked(ledger, d))
BY DEF MatchTypes, DuelsFit

LEMMA RowsFollow ==
  ASSUME MatchTypes, NEW d \in Duels, NEW q \in DuelRow, duel' = [duel EXCEPT ![d] = q],
         Follows(duel[d], q)
  PROVE  \A e \in Duels : Follows(duel[e], duel'[e])
<1>1. ASSUME NEW e \in Duels, e # d
      PROVE  Follows(duel[e], duel'[e])
  <2>1. duel'[e] = duel[e]
    BY <1>1 DEF MatchTypes
  <2> QED BY <2>1 DEF Follows
<1>2. duel'[d] = q
  BY DEF MatchTypes
<1> QED BY <1>1, <1>2

LEMMA RowsStay ==
  ASSUME UNCHANGED duel
  PROVE  \A e \in Duels : Follows(duel[e], duel'[e])
BY DEF Follows

LEMMA SeenStays ==
  ASSUME NEW s \in DuelRow, NEW r \in DuelRow, NEW q \in DuelRow, SeenFits(s, r), Follows(r, q)
  PROVE  SeenFits(s, q)
<1>1. s.version \in Nat /\ r.version \in Nat /\ q.version \in Nat
  BY DEF DuelRow
<1>2. CASE q.version > r.version
  BY <1>1, <1>2 DEF SeenFits
<1>3. CASE /\ q.version = r.version /\ q.status = r.status /\ q.mode = r.mode
           /\ q.creator = r.creator /\ q.opponent = r.opponent /\ q.commitBy = r.commitBy
  BY <1>3 DEF SeenFits
<1> QED BY <1>2, <1>3 DEF Follows

LEMMA DueParts ==
  ASSUME NEW t \in Dues
  PROVE  t[1] \in Duels /\ t[2] \in DuelRow
BY DEF Dues

\* Requests keep what they know while rows follow each other and time passes.
LEMMA RequestsKept ==
  ASSUME MatchTypes, RequestsFit, duel' \in [Duels -> DuelRow],
         \A d \in Duels : Follows(duel[d], duel'[d]), clock' \in Nat, clock <= clock',
         call' \in [Wallets -> RequestRow],
         \A w \in Wallets : call'[w] = call[w] \/ RequestFits(w, call'[w], duel)
  PROVE  RequestsFit'
<1>1. SUFFICES ASSUME NEW w \in Wallets
               PROVE  /\ call'[w].now <= clock'
                      /\ \A t \in call'[w].due : DueFits(w, call'[w], t[2], duel'[t[1]])
  BY DEF RequestsFit, RequestFits
<1>2. RequestFits(w, call'[w], duel)
  BY <1>1 DEF RequestsFit
<1>3. PICK c \in RequestRow : c = call'[w]
  OBVIOUS
<1>4. c.now \in Nat /\ clock \in Nat /\ c.now <= clock
  BY <1>2, <1>3 DEF RequestRow, MatchTypes, RequestFits
<1>5. ASSUME NEW t \in c.due
      PROVE  DueFits(w, c, t[2], duel'[t[1]])
  <2>1. t \in Dues
    BY DEF RequestRow
  <2>2. t[1] \in Duels /\ t[2] \in DuelRow
    BY <2>1, DueParts
  <2>3. DueFits(w, c, t[2], duel[t[1]])
    BY <1>2, <1>3 DEF RequestFits
  <2>4. duel[t[1]] \in DuelRow /\ duel'[t[1]] \in DuelRow /\ Follows(duel[t[1]], duel'[t[1]])
    BY <2>2 DEF MatchTypes
  <2>5. SeenFits(t[2], duel'[t[1]])
    BY <2>2, <2>3, <2>4, SeenStays DEF DueFits
  <2>6. c.pc = "clean" => Dead(duel'[t[1]])
    BY <2>3, <2>4 DEF DueFits, Follows
  <2> QED BY <2>3, <2>5, <2>6 DEF DueFits
<1> QED BY <1>3, <1>4, <1>5

LEMMA OneRequestWritten ==
  ASSUME MatchTypes, NEW w \in Wallets, NEW c \in RequestRow, call' = [call EXCEPT ![w] = c],
         RequestFits(w, c, duel)
  PROVE  /\ call' \in [Wallets -> RequestRow]
         /\ \A v \in Wallets : call'[v] = call[v] \/ RequestFits(v, call'[v], duel)
BY DEF MatchTypes

LEMMA RequestsStay ==
  ASSUME MatchTypes, UNCHANGED call
  PROVE  /\ call' \in [Wallets -> RequestRow]
         /\ \A v \in Wallets : call'[v] = call[v] \/ RequestFits(v, call'[v], duel)
BY DEF MatchTypes

LEMMA RequestReturns ==
  ASSUME MatchTypes, NEW w \in Wallets, Return(w)
  PROVE  /\ call' \in [Wallets -> RequestRow]
         /\ \A v \in Wallets : call'[v] = call[v] \/ RequestFits(v, call'[v], duel)
<1>1. Idle \in RequestRow /\ Idle.now = 0 /\ Idle.due = {}
  BY DEF Idle, RequestRow
<1>2. RequestFits(w, Idle, duel)
  BY <1>1 DEF RequestFits, MatchTypes
<1>3. call' = [call EXCEPT ![w] = Idle]
  BY DEF Return
<1> QED BY <1>1, <1>2, <1>3, OneRequestWritten

\* A read pair is done with; the others of the request stay.
LEMMA RequestDrops ==
  ASSUME MatchTypes, RequestsFit, NEW w \in Wallets, NEW t, call' = [call EXCEPT ![w].due = @ \ {t}]
  PROVE  /\ call' \in [Wallets -> RequestRow]
         /\ \A v \in Wallets : call'[v] = call[v] \/ RequestFits(v, call'[v], duel)
<1>1. PICK x \in RequestRow : x = call[w]
  BY DEF MatchTypes
<1>2. PICK c \in RequestRow : c = [x EXCEPT !.due = x.due \ {t}]
  BY DEF RequestRow
<1>3. c.pc = x.pc /\ c.now = x.now /\ c.due \subseteq x.due
  BY <1>2 DEF RequestRow
<1>4. RequestFits(w, c, duel)
  BY <1>1, <1>3 DEF RequestsFit, RequestFits, DueFits
<1>5. call' = [call EXCEPT ![w] = c]
  BY <1>1, <1>2 DEF MatchTypes
<1> QED BY <1>4, <1>5, OneRequestWritten

\* A request goes on with what it reads now, or with nothing.
LEMMA RequestReads ==
  ASSUME MatchTypes, RequestsFit, NEW w \in Wallets,
         NEW pc \in {"idle", "commitments", "searches", "clean", "allowed", "assign", "cancel",
                     "house", "refused"},
         NEW D \in SUBSET Dues, call' = [call EXCEPT ![w].pc = pc, ![w].due = D],
         \A t \in D : DueFits(w, [call[w] EXCEPT !.pc = pc], t[2], duel[t[1]])
  PROVE  /\ call' \in [Wallets -> RequestRow]
         /\ \A v \in Wallets : call'[v] = call[v] \/ RequestFits(v, call'[v], duel)
<1>1. PICK x \in RequestRow : x = call[w]
  BY DEF MatchTypes
<1>2. PICK c \in RequestRow : c = [x EXCEPT !.pc = pc, !.due = D]
  BY DEF RequestRow
<1>3. c.pc = pc /\ c.now = x.now /\ c.due = D
  BY <1>2 DEF RequestRow
<1>4. PICK y \in RequestRow : y = [x EXCEPT !.pc = pc]
  BY DEF RequestRow
<1>5. y.pc = pc /\ y.now = x.now
  BY <1>4 DEF RequestRow
<1>6. \A t \in D : DueFits(w, y, t[2], duel[t[1]])
  BY <1>1, <1>4
<1>7. RequestFits(w, c, duel)
  BY <1>1, <1>3, <1>5, <1>6 DEF RequestsFit, RequestFits, DueFits
<1>8. call' = [call EXCEPT ![w] = c]
  BY <1>1, <1>2 DEF MatchTypes
<1> QED BY <1>7, <1>8, OneRequestWritten

(***************************************************************************)
(* Tickets.                                                                *)
(***************************************************************************)
LEMMA TicketsKept ==
  ASSUME MatchTypes, TicketsFit, NEW d \in Duels, NEW q \in DuelRow, duel' = [duel EXCEPT ![d] = q],
         UNCHANGED ticket, RowFits(q), Quiet(duel[d], q)
  PROVE  TicketsFit'
<1>1. /\ duel'[d] = q /\ \A e \in Duels : e # d => duel'[e] = duel[e]
  BY DEF MatchTypes
<1>2. ASSUME NEW w \in Wallets, ticket[w] # NoTicket
      PROVE  ticket[w].duel \in Duels /\ duel'[ticket[w].duel].version > 0
  BY <1>1, <1>2 DEF TicketsFit, Quiet
<1>3. ASSUME NEW w \in Wallets, ticket[w] # NoTicket, duel'[ticket[w].duel].status \in LiveForTicket
      PROVE  /\ w = IF ticket[w].role = "CREATOR" THEN duel'[ticket[w].duel].creator
                    ELSE duel'[ticket[w].duel].opponent
             /\ ticket[w].status = IF duel'[ticket[w].duel].status = "WAITING" THEN "SEARCHING"
                                   ELSE "MATCHED"
  <2>1. ticket[w].duel \in Duels
    BY <1>2, <1>3
  <2> QED BY <1>1, <1>3, <2>1 DEF TicketsFit, TicketsAgreeWithDuels, Quiet
<1>4. ASSUME NEW e \in Duels
      PROVE  /\ duel'[e].status \in LiveForTicket /\ duel'[e].mode = "OPEN" =>
                  TicketsOf(e) = {duel'[e].creator, duel'[e].opponent} \ {NoWallet}
             /\ duel'[e].status = "WAITING" => duel'[e].opponent = NoWallet /\ duel'[e].mode = "OPEN"
  BY <1>1 DEF TicketsFit, TicketsAgreeWithDuels, Quiet, RowFits
<1> QED BY <1>2, <1>3, <1>4 DEF TicketsFit, TicketsAgreeWithDuels, TicketsOf

LEMMA TicketsDropped ==
  ASSUME MatchTypes, TicketsFit, NEW d \in Duels, NEW q \in DuelRow, duel' = [duel EXCEPT ![d] = q],
         ticket' = WithoutTickets(d), RowFits(q), Dead(q)
  PROVE  ticket' \in [Wallets -> TicketRow] /\ TicketsFit'
<1>1. /\ duel'[d] = q /\ \A e \in Duels : e # d => duel'[e] = duel[e]
  BY DEF MatchTypes
<1>2. \A w \in Wallets : ticket'[w] = IF ticket[w].duel = d THEN NoTicket ELSE ticket[w]
  BY DEF WithoutTickets
<1>3. NoTicket \in TicketRow /\ NoTicket.duel = "none" /\ "none" \notin Duels
  BY NobodyIsAPlayer DEF NoTicket, TicketRow
<1>4. ticket' \in [Wallets -> TicketRow]
  BY <1>3 DEF WithoutTickets, MatchTypes
<1>5. \A e \in Duels : e # d => TicketsOf(e)' = TicketsOf(e)
  BY <1>2, <1>3 DEF TicketsOf
<1>6. ASSUME NEW w \in Wallets, ticket'[w] # NoTicket
      PROVE  /\ ticket'[w] = ticket[w] /\ ticket[w].duel \in Duels /\ ticket[w].duel # d
             /\ duel'[ticket[w].duel] = duel[ticket[w].duel] /\ duel[ticket[w].duel].version > 0
  BY <1>1, <1>2, <1>6 DEF TicketsFit
<1>7. ASSUME NEW w \in Wallets, ticket'[w] # NoTicket, duel'[ticket'[w].duel].status \in LiveForTicket
      PROVE  /\ w = IF ticket'[w].role = "CREATOR" THEN duel'[ticket'[w].duel].creator
                    ELSE duel'[ticket'[w].duel].opponent
             /\ ticket'[w].status = IF duel'[ticket'[w].duel].status = "WAITING" THEN "SEARCHING"
                                    ELSE "MATCHED"
  BY <1>6, <1>7 DEF TicketsFit, TicketsAgreeWithDuels
<1>8. ASSUME NEW e \in Duels
      PROVE  /\ duel'[e].status \in LiveForTicket /\ duel'[e].mode = "OPEN" =>
                  TicketsOf(e)' = {duel'[e].creator, duel'[e].opponent} \ {NoWallet}
             /\ duel'[e].status = "WAITING" => duel'[e].opponent = NoWallet /\ duel'[e].mode = "OPEN"
  BY <1>1, <1>5 DEF TicketsFit, TicketsAgreeWithDuels, RowFits, Dead
<1>9. TicketsFit'
  BY <1>6, <1>7, <1>8 DEF TicketsFit, TicketsAgreeWithDuels
<1> QED BY <1>4, <1>9

(***************************************************************************)
(* The steps of the queue.                                                 *)
(***************************************************************************)
LEMMA ExposureStays ==
  ASSUME ExposureFits, UNCHANGED <<res, ledger, clock>>
  PROVE  ExposureFits'
<1>1. DailyLoss' = DailyLoss
  BY DailyLossIsTotal
<1>2. ActiveReservations' = ActiveReservations
  BY DEF ActiveReservations
<1>3. ExposureWithinDailyLimit'
  BY <1>1, <1>2 DEF ExposureFits, ExposureWithinDailyLimit
<1>4. /\ IsFiniteSet(ActiveReservations')
      /\ \A i \in DOMAIN ledger' : ledger'[i].day <= clock' \div DayLength
  BY <1>2 DEF ExposureFits
<1> QED BY <1>3, <1>4 DEF ExposureFits

LEMMA QueueStep ==
  ASSUME MatchInv, UNCHANGED <<res, ledger, asset, chain, rec, clock>>,
         duel' \in [Duels -> DuelRow], DuelsFit', \A d \in Duels : Follows(duel[d], duel'[d]),
         ticket' \in [Wallets -> TicketRow], TicketsFit', behavior' \in [Wallets -> BehaviorRow],
         call' \in [Wallets -> RequestRow],
         \A v \in Wallets : call'[v] = call[v] \/ RequestFits(v, call'[v], duel)
  PROVE  MatchInv'
<1>1. MatchTypes'
  BY DEF MatchInv, MatchTypes
<1>2. ExposureFits'
  BY ExposureStays DEF MatchInv
<1>3. CardsFit'
  BY DEF MatchInv, CardsFit
<1>4. RequestsFit'
  <2>1. clock' \in Nat /\ clock <= clock'
    BY DEF MatchInv, MatchTypes
  <2> QED BY <2>1, RequestsKept DEF MatchInv
<1> QED BY <1>1, <1>2, <1>3, <1>4 DEF MatchInv

LEMMA RequestStep ==
  ASSUME MatchInv, UNCHANGED <<duel, res, ledger, asset, chain, rec, clock, ticket, behavior>>,
         call' \in [Wallets -> RequestRow],
         \A v \in Wallets : call'[v] = call[v] \/ RequestFits(v, call'[v], duel)
  PROVE  MatchInv'
<1>1. /\ duel' \in [Duels -> DuelRow] /\ ticket' \in [Wallets -> TicketRow]
      /\ behavior' \in [Wallets -> BehaviorRow]
  BY DEF MatchInv, MatchTypes
<1>2. DuelsFit'
  BY DEF MatchInv, DuelsFit
<1>3. TicketsFit'
  BY DEF MatchInv, TicketsFit, TicketsAgreeWithDuels, TicketsOf
<1> QED BY <1>1, <1>2, <1>3, RowsStay, QueueStep

LEMMA RequestGoes ==
  ASSUME MatchTypes, RequestsFit, NEW w \in Wallets, NEW pc \in {"allowed", "assign"},
         Goto(w, pc), call[w].due = {} \/ call[w].pc = "allowed"
  PROVE  /\ call' \in [Wallets -> RequestRow]
         /\ \A v \in Wallets : call'[v] = call[v] \/ RequestFits(v, call'[v], duel)
<1>1. PICK x \in RequestRow : x = call[w]
  BY DEF MatchTypes
<1>2. PICK c \in RequestRow : c = [x EXCEPT !.pc = pc]
  BY DEF RequestRow
<1>3. c.pc = pc /\ c.now = x.now /\ c.due = x.due
  BY <1>2 DEF RequestRow
<1>4. RequestFits(w, c, duel)
  BY <1>1, <1>3 DEF RequestsFit, RequestFits, DueFits
<1>5. call' = [call EXCEPT ![w] = c]
  BY <1>1, <1>2 DEF MatchTypes, Goto
<1> QED BY <1>4, <1>5, OneRequestWritten

\* A row with a status was made.
LEMMA RowExists ==
  ASSUME MatchInv, NEW d \in Duels, duel[d].status # "NONE"
  PROVE  /\ duel[d] \in DuelRow /\ duel[d].version > 0 /\ duel[d].creator \in Wallets
         /\ duel[d].opponent # duel[d].creator
         /\ SeenFits(duel[d], duel[d])
<1>1. duel[d] \in DuelRow /\ RowFits(duel[d]) /\ duel[d] # NoDuel
  BY DuelFits, NoDuelIs DEF MatchInv
<1>2. duel[d].version > 0 /\ duel[d].creator \in Wallets /\ duel[d].opponent # duel[d].creator
  BY <1>1 DEF RowFits
<1>3. duel[d].version \in Nat
  BY <1>1 DEF DuelRow
<1> QED BY <1>1, <1>2, <1>3 DEF SeenFits

LEMMA BeginCallStep ==
  ASSUME MatchInv, NEW w \in Wallets, BeginCall(w), UNCHANGED clock
  PROVE  MatchInv'
<1>1. PICK op \in Operations :
        call' = [call EXCEPT ![w] = [Idle EXCEPT !.op = op, !.pc = "commitments", !.now = clock,
                                                 !.due = CommitmentsDue(clock)]]
  BY DEF BeginCall
<1>2. clock \in Nat
  BY DEF MatchInv, MatchTypes
<1>3. ASSUME NEW t \in CommitmentsDue(clock)
      PROVE  /\ t \in Dues /\ SeenFits(t[2], duel[t[1]])
             /\ t[2].status \in {"MATCHED", "COMMITTING"} /\ t[2].commitBy \in 0..clock
  <2>1. PICK d \in Duels : /\ t = <<d, duel[d], CreatorTicket(d)>>
                           /\ duel[d].status \in {"MATCHED", "COMMITTING"}
                           /\ duel[d].commitBy \in 0..clock
    BY DEF CommitmentsDue
  <2>2. duel[d] \in DuelRow /\ SeenFits(duel[d], duel[d])
    BY <2>1, RowExists
  <2>3. CreatorTicket(d) \in SUBSET Wallets
    BY DEF CreatorTicket, TicketsOf
  <2> QED BY <2>1, <2>2, <2>3 DEF Dues
<1> DEFINE D == CommitmentsDue(clock)
<1>4. D \in SUBSET Dues
  BY <1>3
<1> HIDE DEF D
<1>5. PICK c \in RequestRow : c = [Idle EXCEPT !.op = op, !.pc = "commitments", !.now = clock, !.due = D]
  BY <1>2, <1>4 DEF Idle, RequestRow
<1>6. c.pc = "commitments" /\ c.now = clock /\ c.due = D
  BY <1>5 DEF Idle
<1>7. RequestFits(w, c, duel)
  BY <1>2, <1>3, <1>6 DEF RequestFits, DueFits, D
<1>8. call' = [call EXCEPT ![w] = c]
  BY <1>1, <1>5 DEF D
<1>9. /\ call' \in [Wallets -> RequestRow]
      /\ \A v \in Wallets : call'[v] = call[v] \/ RequestFits(v, call'[v], duel)
  BY <1>7, <1>8, OneRequestWritten DEF MatchInv
<1> QED BY <1>9, RequestStep DEF BeginCall, treasuryVars

LEMMA ReadSearchesStep ==
  ASSUME MatchInv, NEW w \in Wallets, ReadSearches(w), UNCHANGED clock
  PROVE  MatchInv'
<1> DEFINE D == SearchesDue(call[w].now)
<1>1. ASSUME NEW t \in D
      PROVE  /\ t \in Dues /\ SeenFits(t[2], duel[t[1]]) /\ t[2].status = "WAITING"
  <2>1. PICK d \in Duels : t = <<d, duel[d]>> /\ duel[d].status = "WAITING"
    BY DEF SearchesDue
  <2>2. duel[d] \in DuelRow /\ SeenFits(duel[d], duel[d])
    BY <2>1, RowExists
  <2> QED BY <2>1, <2>2 DEF Dues
<1>2. call' = [call EXCEPT ![w].pc = "searches", ![w].due = D]
  BY DEF ReadSearches
<1> HIDE DEF D
<1>3. PICK x \in RequestRow : x = call[w]
  BY DEF MatchInv, MatchTypes
<1>4. PICK y \in RequestRow : y = [x EXCEPT !.pc = "searches"]
  BY DEF RequestRow
<1>5. y.pc = "searches"
  BY <1>4 DEF RequestRow
<1>6. D \in SUBSET Dues
  BY <1>1
<1>7. \A t \in D : DueFits(w, [call[w] EXCEPT !.pc = "searches"], t[2], duel[t[1]])
  BY <1>1, <1>3, <1>4, <1>5 DEF DueFits
<1>8. /\ call' \in [Wallets -> RequestRow]
      /\ \A v \in Wallets : call'[v] = call[v] \/ RequestFits(v, call'[v], duel)
  BY <1>2, <1>6, <1>7, RequestReads DEF MatchInv
<1> QED BY <1>8, RequestStep DEF ReadSearches, treasuryVars

\* What a request has read of the duel whose pair it takes up.
LEMMA SeenBy ==
  ASSUME MatchInv, NEW w \in Wallets, NEW t \in call[w].due
  PROVE  /\ t[1] \in Duels /\ t[2] \in DuelRow /\ DueFits(w, call[w], t[2], duel[t[1]])
         /\ call[w].now \in Nat /\ call[w].now <= clock /\ clock \in Nat
<1>1. call[w] \in RequestRow
  BY DEF MatchInv, MatchTypes
<1>2. t \in Dues /\ call[w].now \in Nat
  BY <1>1 DEF RequestRow
<1>3. t[1] \in Duels /\ t[2] \in DuelRow
  BY <1>2, DueParts
<1> QED BY <1>2, <1>3 DEF MatchInv, MatchTypes, RequestsFit, RequestFits

\* What a request found unchanged it finds as it read it.
LEMMA SameRow ==
  ASSUME MatchInv, NEW w \in Wallets, NEW t \in call[w].due, SameVersion(t[1], t[2])
  PROVE  /\ t[2].status = duel[t[1]].status /\ t[2].mode = duel[t[1]].mode
         /\ t[2].creator = duel[t[1]].creator /\ t[2].opponent = duel[t[1]].opponent
         /\ t[2].commitBy = duel[t[1]].commitBy /\ duel[t[1]].version > 0
BY SeenBy DEF SameVersion, DueFits, SeenFits

LEMMA ExpireSearchStep ==
  ASSUME MatchInv, NEW w \in Wallets, ExpireSearch(w), UNCHANGED clock
  PROVE  MatchInv'
<1>1. PICK t \in call[w].due :
        /\ call' = [call EXCEPT ![w].due = @ \ {t}]
        /\ IF SameVersion(t[1], t[2])
           THEN /\ MoveDuel(t[1], [duel[t[1]] EXCEPT !.status = "CANCELLED"])
                /\ ticket' = WithoutTickets(t[1])
           ELSE UNCHANGED <<duel, ticket>>
  BY DEF ExpireSearch
<1>2. /\ call' \in [Wallets -> RequestRow]
      /\ \A v \in Wallets : call'[v] = call[v] \/ RequestFits(v, call'[v], duel)
  BY <1>1, RequestDrops DEF MatchInv
<1>3. UNCHANGED <<behavior, res, ledger, asset, chain, rec, clock>>
  BY DEF ExpireSearch, treasuryVars
<1>4. CASE ~SameVersion(t[1], t[2])
  BY <1>1, <1>2, <1>3, <1>4, RequestStep
<1>5. CASE SameVersion(t[1], t[2])
  <2>1. PICK d \in Duels : d = t[1]
    BY SeenBy
  <2>2. PICK r \in DuelRow : r = duel[d]
    BY DEF MatchInv, MatchTypes
  <2>3. r.status = "WAITING"
    BY <1>5, <2>1, <2>2, SeenBy, SameRow DEF DueFits, ExpireSearch
  <2>s. PICK s \in DuelStatuses : s = "CANCELLED"
    BY DEF DuelStatuses
  <2>q. PICK q : q = [[r EXCEPT !.status = s] EXCEPT !.version = @ + 1]
    OBVIOUS
  <2>4. Kept(r, q) /\ q.status = "CANCELLED" /\ q.mode = r.mode /\ q.opponent = r.opponent
    <3>1. Kept(r, q) /\ q.status = s /\ q.mode = r.mode /\ q.opponent = r.opponent
      BY <2>q, StatusWritten
    <3> QED BY <2>s, <3>1
  <2>5. duel' = [duel EXCEPT ![d] = q] /\ ticket' = WithoutTickets(d)
    BY <1>1, <1>5, <2>q, <2>s, <2>1, <2>2 DEF MoveDuel
  <2>6. RowFits(r) /\ ReservationFits(r, res[d], Booked(ledger, d))
    BY <2>2, DuelFits DEF MatchInv
  <2>7. q \in DuelRow /\ RowFits(q) /\ ReservationFits(q, res[d], Booked(ledger, d)) /\ Follows(r, q) /\ Dead(q)
    BY <2>3, <2>4, <2>6, EndFits DEF LiveForTicket, Kept
  <2>8. duel' \in [Duels -> DuelRow] /\ DuelsFit'
    BY <1>3, <2>5, <2>7, OneRowWritten DEF MatchInv
  <2>9. \A e \in Duels : Follows(duel[e], duel'[e])
    BY <2>2, <2>5, <2>7, RowsFollow DEF MatchInv
  <2>10. ticket' \in [Wallets -> TicketRow] /\ TicketsFit'
    BY <2>5, <2>7, TicketsDropped DEF MatchInv
  <2>11. behavior' \in [Wallets -> BehaviorRow]
    BY <1>3 DEF MatchInv, MatchTypes
  <2> QED BY <1>2, <1>3, <2>8, <2>9, <2>10, <2>11, QueueStep
<1> QED BY <1>4, <1>5

LEMMA FindSessionStep ==
  ASSUME MatchInv, NEW w \in Wallets, FindSession(w), UNCHANGED clock
  PROVE  MatchInv'
<1> DEFINE d == ticket[w].duel
<1>1. UNCHANGED <<duel, res, ledger, asset, chain, rec, clock, ticket, behavior>>
  BY DEF FindSession, treasuryVars
<1>2. CASE Return(w)
  BY <1>1, <1>2, RequestReturns, RequestStep DEF MatchInv
<1>3. CASE Goto(w, "allowed")
  <2>1. call[w].due = {}
    BY DEF FindSession
  <2> QED BY <1>1, <1>3, <2>1, RequestGoes, RequestStep DEF MatchInv
<1>4. CASE /\ ticket[w] # NoTicket /\ duel[d].status \notin LiveForTicket
           /\ call' = [call EXCEPT ![w].pc = "clean", ![w].due = {<<d, duel[d]>>}]
  <2>1. PICK e \in Duels : e = d /\ duel[e].version > 0
    BY <1>4 DEF MatchInv, TicketsFit
  <2>2. duel[e] \in DuelRow /\ duel[e].version \in Nat
    BY DEF MatchInv, MatchTypes, DuelRow
  <2>3. SeenFits(duel[e], duel[e]) /\ Dead(duel[e])
    BY <1>4, <2>1, <2>2 DEF SeenFits, Dead
  <2>4. PICK x \in RequestRow : x = call[w]
    BY DEF MatchInv, MatchTypes
  <2>5. PICK y \in RequestRow : y = [x EXCEPT !.pc = "clean"]
    BY DEF RequestRow
  <2>6. y.pc = "clean"
    BY <2>5 DEF RequestRow
  <2> DEFINE D == {<<e, duel[e]>>}
  <2>7. D \in SUBSET Dues
    BY <2>2 DEF Dues
  <2>8. \A t \in D : t[1] = e /\ t[2] = duel[e]
    OBVIOUS
  <2>9. call' = [call EXCEPT ![w].pc = "clean", ![w].due = D]
    BY <1>4, <2>1
  <2> HIDE DEF D, d
  <2>10. \A t \in D : DueFits(w, [call[w] EXCEPT !.pc = "clean"], t[2], duel[t[1]])
    BY <2>3, <2>4, <2>5, <2>6, <2>8 DEF DueFits
  <2>11. /\ call' \in [Wallets -> RequestRow]
         /\ \A v \in Wallets : call'[v] = call[v] \/ RequestFits(v, call'[v], duel)
    BY <2>7, <2>9, <2>10, RequestReads DEF MatchInv
  <2> QED BY <1>1, <2>11, RequestStep
<1> QED BY <1>2, <1>3, <1>4 DEF FindSession

LEMMA DeleteStaleTicketsStep ==
  ASSUME MatchInv, NEW w \in Wallets, DeleteStaleTickets(w), UNCHANGED clock
  PROVE  MatchInv'
<1>1. PICK t \in call[w].due : ticket' = WithoutTickets(t[1])
  BY DEF DeleteStaleTickets
<1>2. PICK d \in Duels : d = t[1]
  BY SeenBy
<1>3. UNCHANGED <<duel, res, ledger, asset, chain, rec, clock, behavior>>
  BY DEF DeleteStaleTickets, treasuryVars
<1>4. Dead(duel[d]) /\ duel[d] \in DuelRow /\ RowFits(duel[d])
  BY <1>2, SeenBy, DuelFits DEF DueFits, DeleteStaleTickets, MatchInv
<1>5. duel' = [duel EXCEPT ![d] = duel[d]]
  BY <1>3 DEF MatchInv, MatchTypes
<1>6. ticket' \in [Wallets -> TicketRow] /\ TicketsFit'
  BY <1>1, <1>2, <1>4, <1>5, TicketsDropped DEF MatchInv
<1>7. /\ call' \in [Wallets -> RequestRow]
      /\ \A v \in Wallets : call'[v] = call[v] \/ RequestFits(v, call'[v], duel)
  <2>1. CASE Return(w)
    BY <2>1, RequestReturns DEF MatchInv
  <2>2. CASE call' = [call EXCEPT ![w].pc = "allowed", ![w].due = {}]
    <3> DEFINE D == {}
    <3>1. D \in SUBSET Dues /\ \A x \in D : DueFits(w, [call[w] EXCEPT !.pc = "allowed"], x[2], duel[x[1]])
      OBVIOUS
    <3>2. call' = [call EXCEPT ![w].pc = "allowed", ![w].due = D]
      BY <2>2
    <3> HIDE DEF D
    <3> QED BY <3>1, <3>2, RequestReads DEF MatchInv
  <2> QED BY <2>1, <2>2 DEF DeleteStaleTickets
<1>8. DuelsFit' /\ duel' \in [Duels -> DuelRow] /\ behavior' \in [Wallets -> BehaviorRow]
  BY <1>3 DEF MatchInv, MatchTypes, DuelsFit
<1> QED BY <1>3, <1>6, <1>7, <1>8, RowsStay, QueueStep

LEMMA AssertAllowedStep ==
  ASSUME MatchInv, NEW w \in Wallets, AssertAllowed(w), UNCHANGED clock
  PROVE  MatchInv'
<1>1. UNCHANGED <<duel, res, ledger, asset, chain, rec, clock, ticket, behavior>>
  BY DEF AssertAllowed, treasuryVars
<1>2. CASE Return(w)
  BY <1>1, <1>2, RequestReturns, RequestStep DEF MatchInv
<1>3. CASE Goto(w, "assign")
  <2>1. call[w].pc = "allowed"
    BY DEF AssertAllowed
  <2> QED BY <1>1, <1>3, <2>1, RequestGoes, RequestStep DEF MatchInv
<1> QED BY <1>2, <1>3 DEF AssertAllowed

LEMMA ReplaySearchStep ==
  ASSUME MatchInv, NEW w \in Wallets, ReplaySearch(w), UNCHANGED clock
  PROVE  MatchInv'
<1>1. UNCHANGED <<duel, res, ledger, asset, chain, rec, clock, ticket, behavior>>
  BY DEF ReplaySearch, treasuryVars
<1> QED BY <1>1, RequestReturns, RequestStep DEF MatchInv, ReplaySearch

\* The duel of the ticket of a player who searches waits for one, and is his.
LEMMA TicketTells ==
  ASSUME MatchInv, NEW w \in Wallets, ticket[w] # NoTicket,
         duel[ticket[w].duel].status \in LiveForTicket
  PROVE  /\ ticket[w].duel \in Duels /\ ticket[w] \in TicketRow
         /\ w = IF ticket[w].role = "CREATOR" THEN duel[ticket[w].duel].creator
                ELSE duel[ticket[w].duel].opponent
         /\ ticket[w].status = IF duel[ticket[w].duel].status = "WAITING" THEN "SEARCHING"
                               ELSE "MATCHED"
         /\ duel[ticket[w].duel].status = "WAITING" =>
              /\ w = duel[ticket[w].duel].creator /\ ticket[w].role = "CREATOR"
              /\ duel[ticket[w].duel].mode = "OPEN" /\ TicketsOf(ticket[w].duel) = {w}
<1>1. PICK d \in Duels : d = ticket[w].duel
  BY DEF MatchInv, TicketsFit
<1>2. /\ w = IF ticket[w].role = "CREATOR" THEN duel[d].creator ELSE duel[d].opponent
      /\ ticket[w].status = IF duel[d].status = "WAITING" THEN "SEARCHING" ELSE "MATCHED"
      /\ duel[d].status = "WAITING" => duel[d].opponent = NoWallet /\ duel[d].mode = "OPEN"
      /\ duel[d].mode = "OPEN" => TicketsOf(d) = {duel[d].creator, duel[d].opponent} \ {NoWallet}
  BY <1>1 DEF MatchInv, TicketsFit, TicketsAgreeWithDuels
<1>3. duel[d].status = "WAITING" => /\ w = duel[d].creator /\ ticket[w].role = "CREATOR"
                                    /\ TicketsOf(d) = {w}
  BY <1>2, NobodyIsAPlayer
<1>4. ticket[w] \in TicketRow
  BY DEF MatchInv, MatchTypes
<1> QED BY <1>1, <1>2, <1>3, <1>4

LEMMA ReadTicketStep ==
  ASSUME MatchInv, NEW w \in Wallets, ReadTicket(w), UNCHANGED clock
  PROVE  MatchInv'
<1> DEFINE d == ticket[w].duel
           op == call[w].op
           D == {<<d, duel[d]>>}
<1>1. UNCHANGED <<duel, res, ledger, asset, chain, rec, clock, ticket, behavior>>
  BY DEF ReadTicket, treasuryVars
<1>2. CASE Return(w)
  BY <1>1, <1>2, RequestReturns, RequestStep DEF MatchInv
<1>3. CASE /\ ticket[w] # NoTicket
           /\ IF op = "cancel" THEN duel[d].status \in {"WAITING", "MATCHED"}
              ELSE duel[d].status = "WAITING"
           /\ call' = [call EXCEPT ![w].pc = op, ![w].due = D]
  <2>1. PICK e \in Duels : e = d
    BY <1>3 DEF MatchInv, TicketsFit
  <2>2. duel[e] \in DuelRow /\ SeenFits(duel[e], duel[e])
    BY <1>3, <2>1, RowExists
  <2>3. duel[e].status = "WAITING" => duel[e].creator = w
    BY <1>3, <2>1, TicketTells DEF LiveForTicket
  <2>4. op \in {"cancel", "house"}
    BY DEF ReadTicket
  <2>5. PICK x \in RequestRow : x = call[w]
    BY DEF MatchInv, MatchTypes
  <2> HIDE DEF op
  <2>6. PICK y \in RequestRow : y = [x EXCEPT !.pc = op]
    BY <2>4 DEF RequestRow
  <2>7. y.pc = op
    BY <2>6 DEF RequestRow
  <2>8. D \in SUBSET Dues /\ \A t \in D : t[1] = e /\ t[2] = duel[e]
    BY <2>1, <2>2 DEF Dues
  <2>9. call' = [call EXCEPT ![w].pc = op, ![w].due = D]
    BY <1>3
  <2>10. IF op = "cancel" THEN duel[e].status \in {"WAITING", "MATCHED"} ELSE duel[e].status = "WAITING"
    BY <1>3, <2>1
  <2> HIDE DEF D, d
  <2>11. \A t \in D : DueFits(w, [call[w] EXCEPT !.pc = op], t[2], duel[t[1]])
    BY <2>2, <2>3, <2>4, <2>5, <2>6, <2>7, <2>8, <2>10 DEF DueFits
  <2>12. /\ call' \in [Wallets -> RequestRow]
         /\ \A v \in Wallets : call'[v] = call[v] \/ RequestFits(v, call'[v], duel)
    BY <2>4, <2>8, <2>9, <2>11, RequestReads DEF MatchInv
  <2> QED BY <1>1, <2>12, RequestStep
<1> QED BY <1>2, <1>3 DEF ReadTicket

LEMMA BehaviorWritten ==
  ASSUME MatchInv, NEW w \in Wallets, NEW now \in Nat
  PROVE  RecordFailedCommitment(w, now) \in [Wallets -> BehaviorRow]
<1>1. PICK b \in BehaviorRow : b = behavior[w]
  BY DEF MatchInv, MatchTypes
<1>2. NextBehavior(b, now) \in BehaviorRow
  <2> DEFINE same == b.count > 0 /\ now - b.start < FailureWindow
             count == IF same THEN b.count + 1 ELSE 1
             start == IF same THEN b.start ELSE now
             until == IF count >= MaxFailures THEN now + BlockTime ELSE 0
  <2>1. b.count \in Nat /\ b.start \in Nat
    BY DEF BehaviorRow
  <2>2. count \in Nat /\ start \in Nat /\ until \in Nat
    BY <2>1, LimitsAreNat
  <2>3. NextBehavior(b, now) = [count |-> count, start |-> start, until |-> until]
    BY DEF NextBehavior
  <2> HIDE DEF count, start, until
  <2> QED BY <2>2, <2>3 DEF BehaviorRow
<1> QED BY <1>1, <1>2 DEF RecordFailedCommitment, MatchInv, MatchTypes

LEMMA CancelStep ==
  ASSUME MatchInv, NEW w \in Wallets, Cancel(w), UNCHANGED clock
  PROVE  MatchInv'
<1>1. PICK t \in call[w].due :
       IF SameVersion(t[1], t[2])
       THEN /\ MoveDuel(t[1], [duel[t[1]] EXCEPT !.status = "CANCELLED", !.commitBy = -1])
            /\ behavior' = IF t[2].status = "MATCHED" THEN RecordFailedCommitment(w, call[w].now)
                           ELSE behavior
            /\ ticket' = WithoutTickets(t[1])
       ELSE UNCHANGED <<duel, behavior, ticket>>
  BY DEF Cancel
<1>2. /\ call' \in [Wallets -> RequestRow]
      /\ \A v \in Wallets : call'[v] = call[v] \/ RequestFits(v, call'[v], duel)
  BY RequestReturns DEF MatchInv, Cancel
<1>3. UNCHANGED <<res, ledger, asset, chain, rec, clock>>
  BY DEF Cancel, treasuryVars
<1>4. CASE ~SameVersion(t[1], t[2])
  BY <1>1, <1>2, <1>3, <1>4, RequestStep
<1>5. CASE SameVersion(t[1], t[2])
  <2>1. PICK d \in Duels : d = t[1]
    BY SeenBy
  <2>2. PICK r \in DuelRow : r = duel[d]
    BY DEF MatchInv, MatchTypes
  <2>3. r.status \in {"WAITING", "MATCHED"}
    BY <1>5, <2>1, <2>2, SeenBy, SameRow DEF DueFits, Cancel
  <2> DEFINE q == [[r EXCEPT !.status = "CANCELLED", !.commitBy = -1] EXCEPT !.version = @ + 1]
  <2>4. Kept(r, q) /\ q.status = "CANCELLED" /\ q.mode = r.mode /\ q.opponent = r.opponent
    <3>1. "CANCELLED" \in DuelStatuses
      BY DEF DuelStatuses
    <3> QED BY <3>1, EndWritten
  <2>5. duel' = [duel EXCEPT ![d] = q] /\ ticket' = WithoutTickets(d)
    BY <1>1, <1>5, <2>1, <2>2 DEF MoveDuel
  <2> HIDE DEF q
  <2>6. RowFits(r) /\ ReservationFits(r, res[d], Booked(ledger, d))
    BY <2>2, DuelFits DEF MatchInv
  <2>7. q \in DuelRow /\ RowFits(q) /\ ReservationFits(q, res[d], Booked(ledger, d)) /\ Follows(r, q) /\ Dead(q)
    BY <2>3, <2>4, <2>6, EndFits DEF LiveForTicket, Kept
  <2>8. duel' \in [Duels -> DuelRow] /\ DuelsFit'
    BY <1>3, <2>5, <2>7, OneRowWritten DEF MatchInv
  <2>9. \A e \in Duels : Follows(duel[e], duel'[e])
    BY <2>2, <2>5, <2>7, RowsFollow DEF MatchInv
  <2>10. ticket' \in [Wallets -> TicketRow] /\ TicketsFit'
    BY <2>5, <2>7, TicketsDropped DEF MatchInv
  <2>11. behavior' \in [Wallets -> BehaviorRow]
    <3>1. RecordFailedCommitment(w, call[w].now) \in [Wallets -> BehaviorRow]
      BY SeenBy, BehaviorWritten
    <3> QED BY <1>1, <1>5, <3>1 DEF MatchInv, MatchTypes
  <2> QED BY <1>2, <1>3, <2>8, <2>9, <2>10, <2>11, QueueStep
<1> QED BY <1>4, <1>5

LEMMA PersistRefusalStep ==
  ASSUME MatchInv, NEW w \in Wallets, PersistRefusal(w), UNCHANGED clock
  PROVE  MatchInv'
<1>1. UNCHANGED <<duel, res, ledger, asset, chain, rec, clock, ticket, behavior>>
  BY DEF PersistRefusal
<1> QED BY <1>1, RequestReturns, RequestStep DEF MatchInv, PersistRefusal

\* The creator of a pair that was dissolved searches on with his ticket.
LEMMA TicketsRequeued ==
  ASSUME MatchInv, NEW d \in Duels, NEW r \in DuelRow, r = duel[d], NEW q \in DuelRow,
         duel' = [duel EXCEPT ![d] = q],
         r.status = "MATCHED", r.mode = "OPEN", Kept(r, q), q.status = "WAITING", q.mode = "OPEN",
         q.opponent = NoWallet,
         ticket' = [WithoutTickets(d) EXCEPT ![r.creator] = [ticket[r.creator] EXCEPT !.status = "SEARCHING"]]
  PROVE  ticket' \in [Wallets -> TicketRow] /\ TicketsFit'
<1>1. PICK c \in Wallets : c = r.creator /\ c # r.opponent
  BY RowExists
<1>2. /\ duel'[d] = q /\ \A e \in Duels : e # d => duel'[e] = duel[e]
  BY DEF MatchInv, MatchTypes
<1>3. TicketsOf(d) = {c, r.opponent} \ {NoWallet} /\ c # NoWallet
  BY <1>1, NobodyIsAPlayer DEF MatchInv, TicketsFit, TicketsAgreeWithDuels, LiveForTicket
<1>4. ticket[c].duel = d /\ ticket[c] # NoTicket
  BY <1>3, NobodyIsAPlayer DEF TicketsOf, NoTicket
<1>5. ticket[c].role = "CREATOR"
  BY <1>1, <1>4, TicketTells DEF LiveForTicket
<1>6. PICK x \in TicketRow : x = ticket[c]
  BY DEF MatchInv, MatchTypes
<1>7. PICK y \in TicketRow : y = [x EXCEPT !.status = "SEARCHING"]
  BY DEF TicketRow
<1>8. y.duel = d /\ y.role = "CREATOR" /\ y.status = "SEARCHING"
  BY <1>4, <1>5, <1>6, <1>7 DEF TicketRow
<1>9. NoTicket \in TicketRow /\ NoTicket.duel = "none" /\ "none" \notin Duels
  BY NobodyIsAPlayer DEF NoTicket, TicketRow
<1>10. \A v \in Wallets : ticket'[v] = IF v = c THEN y
                                       ELSE IF ticket[v].duel = d THEN NoTicket ELSE ticket[v]
  BY <1>1, <1>6, <1>7 DEF WithoutTickets
<1>11. ticket' \in [Wallets -> TicketRow]
  <2>1. WithoutTickets(d) \in [Wallets -> TicketRow]
    BY <1>9 DEF WithoutTickets, MatchInv, MatchTypes
  <2>2. ticket' = [WithoutTickets(d) EXCEPT ![c] = y]
    BY <1>1, <1>6, <1>7
  <2> QED BY <2>1, <2>2
<1>12. q.version > 0 /\ q.creator = c
  BY <1>1 DEF Kept, DuelRow
<1>13. \A e \in Duels : e # d => TicketsOf(e)' = TicketsOf(e)
  BY <1>4, <1>8, <1>9, <1>10 DEF TicketsOf
<1>14. TicketsOf(d)' = {c}
  <2>1. \A v \in Wallets : ticket'[v].duel = d <=> v = c
    <3>1. SUFFICES ASSUME NEW v \in Wallets PROVE ticket'[v].duel = d <=> v = c
      OBVIOUS
    <3>2. CASE v = c
      BY <3>2, <1>8, <1>10
    <3>3. CASE v # c
      <4>1. ticket'[v].duel = "none" \/ ticket'[v].duel # d
        BY <3>3, <1>9, <1>10
      <4> QED BY <4>1, <3>3, <1>9
    <3> QED BY <3>2, <3>3
  <2> QED BY <2>1 DEF TicketsOf
<1>15. ASSUME NEW v \in Wallets, ticket'[v] # NoTicket
       PROVE  /\ ticket'[v].duel \in Duels /\ duel'[ticket'[v].duel].version > 0
              /\ duel'[ticket'[v].duel].status \in LiveForTicket =>
                   /\ v = IF ticket'[v].role = "CREATOR" THEN duel'[ticket'[v].duel].creator
                          ELSE duel'[ticket'[v].duel].opponent
                   /\ ticket'[v].status = IF duel'[ticket'[v].duel].status = "WAITING" THEN "SEARCHING"
                                          ELSE "MATCHED"
  <2>1. CASE v = c
    BY <2>1, <1>2, <1>8, <1>10, <1>12
  <2>2. CASE v # c
    <3>1. ticket'[v] = ticket[v] /\ ticket[v].duel # d
      BY <2>2, <1>10, <1>15
    <3>2. ticket[v].duel \in Duels /\ duel[ticket[v].duel].version > 0
      BY <3>1, <1>15 DEF MatchInv, TicketsFit
    <3>3. duel'[ticket[v].duel] = duel[ticket[v].duel]
      BY <3>1, <3>2, <1>2
    <3>4. duel[ticket[v].duel].status \in LiveForTicket =>
            /\ v = IF ticket[v].role = "CREATOR" THEN duel[ticket[v].duel].creator
                   ELSE duel[ticket[v].duel].opponent
            /\ ticket[v].status = IF duel[ticket[v].duel].status = "WAITING" THEN "SEARCHING"
                                  ELSE "MATCHED"
      BY <3>1, <1>15, TicketTells
    <3> QED BY <3>1, <3>2, <3>3, <3>4
  <2> QED BY <2>1, <2>2
<1>16. ASSUME NEW e \in Duels
       PROVE  /\ duel'[e].status \in LiveForTicket /\ duel'[e].mode = "OPEN" =>
                   TicketsOf(e)' = {duel'[e].creator, duel'[e].opponent} \ {NoWallet}
              /\ duel'[e].status = "WAITING" => duel'[e].opponent = NoWallet /\ duel'[e].mode = "OPEN"
  <2>1. CASE e = d
    BY <2>1, <1>2, <1>3, <1>12, <1>14
  <2>2. CASE e # d
    BY <2>2, <1>2, <1>13 DEF MatchInv, TicketsFit, TicketsAgreeWithDuels
  <2> QED BY <2>1, <2>2
<1>17. TicketsFit'
  BY <1>15, <1>16 DEF TicketsFit, TicketsAgreeWithDuels
<1> QED BY <1>11, <1>17

LEMMA ExpireCommitmentStep ==
  ASSUME MatchInv, NEW w \in Wallets, ExpireCommitment(w), UNCHANGED clock
  PROVE  MatchInv'
<1> DEFINE now == call[w].now
           Charged(who) == IF who \in Wallets THEN RecordFailedCommitment(who, now) ELSE behavior
           Requeued(seen) == CanRequeueCreator(seen, /\ Offender(seen) = seen.creator
                                                     /\ Charged(Offender(seen))[Offender(seen)].until > now)
<1>1. PICK t \in call[w].due :
        /\ call' = [call EXCEPT ![w].due = @ \ {t}]
        /\ IF SameVersion(t[1], t[2]) /\ t[3] # {}
           THEN /\ behavior' = Charged(Offender(t[2]))
                /\ MoveDuel(t[1], IF Requeued(t[2])
                     THEN [duel[t[1]] EXCEPT !.status = "WAITING", !.opponent = NoWallet, !.commitBy = -1]
                     ELSE [duel[t[1]] EXCEPT !.commitBy = -1,
                             !.status = IF t[2].status = "COMMITTING" THEN "REFUNDING"
                                        ELSE "CANCELLED"])
                /\ ticket' = IF Requeued(t[2])
                     THEN [WithoutTickets(t[1]) EXCEPT ![t[2].creator] =
                             [ticket[t[2].creator] EXCEPT !.status = "SEARCHING"]]
                     ELSE WithoutTickets(t[1])
           ELSE UNCHANGED <<duel, behavior, ticket>>
  BY DEF ExpireCommitment
<1>2. /\ call' \in [Wallets -> RequestRow]
      /\ \A v \in Wallets : call'[v] = call[v] \/ RequestFits(v, call'[v], duel)
  BY <1>1, RequestDrops DEF MatchInv
<1>3. UNCHANGED <<res, ledger, asset, chain, rec, clock>>
  BY DEF ExpireCommitment, treasuryVars
<1>4. CASE ~(SameVersion(t[1], t[2]) /\ t[3] # {})
  BY <1>1, <1>2, <1>3, <1>4, RequestStep
<1>5. CASE SameVersion(t[1], t[2]) /\ t[3] # {}
  <2>1. PICK d \in Duels : d = t[1]
    BY SeenBy
  <2>2. PICK r \in DuelRow : r = duel[d]
    BY DEF MatchInv, MatchTypes
  <2>3. /\ r.status \in {"MATCHED", "COMMITTING"} /\ t[2].status = r.status /\ t[2].mode = r.mode
        /\ t[2].creator = r.creator /\ now \in Nat
    BY <1>5, <2>1, <2>2, SeenBy, SameRow DEF DueFits, ExpireCommitment
  <2>4. behavior' \in [Wallets -> BehaviorRow]
    <3>1. \A who \in Wallets : RecordFailedCommitment(who, now) \in [Wallets -> BehaviorRow]
      BY <2>3, BehaviorWritten
    <3>2. behavior \in [Wallets -> BehaviorRow]
      BY DEF MatchInv, MatchTypes
    <3> QED BY <1>1, <1>5, <3>1, <3>2
  <2> HIDE DEF now, Charged
  <2>6. RowFits(r) /\ ReservationFits(r, res[d], Booked(ledger, d))
    BY <2>2, DuelFits DEF MatchInv
  <2>7. CASE Requeued(t[2])
    <3>1. r.status = "MATCHED" /\ r.mode = "OPEN"
      BY <2>3, <2>7 DEF CanRequeueCreator
    <3> HIDE DEF Requeued
    <3>2. PICK q : q = [[r EXCEPT !.status = "WAITING", !.opponent = NoWallet, !.commitBy = -1]
                          EXCEPT !.version = @ + 1]
      OBVIOUS
    <3>3. Kept(r, q) /\ q.status = "WAITING" /\ q.mode = r.mode /\ q.opponent = NoWallet
      BY <3>2, RequeueWritten
    <3>4. /\ duel' = [duel EXCEPT ![d] = q]
          /\ ticket' = [WithoutTickets(d) EXCEPT ![r.creator] =
                          [ticket[r.creator] EXCEPT !.status = "SEARCHING"]]
      BY <1>1, <1>5, <2>1, <2>2, <2>3, <2>7, <3>2 DEF MoveDuel
    <3>5. r.creator # NoWallet /\ r.version \in Nat
      BY <2>2, <3>1, RowExists, NobodyIsAPlayer DEF DuelRow
    <3>6. q \in DuelRow /\ RowFits(q) /\ ReservationFits(q, res[d], Booked(ledger, d))
      BY <2>6, <3>1, <3>3, <3>5, PlayerRowFits DEF Kept
    <3>7. Follows(r, q)
      BY <3>1, <3>3, <3>5 DEF Follows, Kept, Dead, LiveForTicket
    <3>8. duel' \in [Duels -> DuelRow] /\ DuelsFit'
      BY <1>3, <3>4, <3>6, OneRowWritten DEF MatchInv
    <3>9. \A e \in Duels : Follows(duel[e], duel'[e])
      BY <2>2, <3>4, <3>6, <3>7, RowsFollow DEF MatchInv
    <3>10. ticket' \in [Wallets -> TicketRow] /\ TicketsFit'
      BY <2>2, <3>1, <3>3, <3>4, <3>6, TicketsRequeued
    <3> QED BY <1>2, <1>3, <2>4, <3>8, <3>9, <3>10, QueueStep
  <2>8. CASE ~Requeued(t[2])
    <3> HIDE DEF Requeued
    <3>1. PICK s \in DuelStatuses : s = IF r.status = "COMMITTING" THEN "REFUNDING" ELSE "CANCELLED"
      BY DEF DuelStatuses
    <3>2. PICK q : q = [[r EXCEPT !.status = s, !.commitBy = -1] EXCEPT !.version = @ + 1]
      OBVIOUS
    <3>3. Kept(r, q) /\ q.status = s /\ q.mode = r.mode /\ q.opponent = r.opponent
      BY <3>2, EndWritten
    <3>4. duel' = [duel EXCEPT ![d] = q] /\ ticket' = WithoutTickets(d)
      <4>1. MoveDuel(d, [r EXCEPT !.commitBy = -1, !.status = s])
        BY <1>1, <1>5, <2>1, <2>2, <2>3, <2>8, <3>1
      <4>2. [r EXCEPT !.commitBy = -1, !.status = s] = [r EXCEPT !.status = s, !.commitBy = -1]
        BY DEF DuelRow
      <4> QED BY <1>1, <1>5, <2>1, <2>8, <3>2, <4>1, <4>2 DEF MoveDuel
    <3>7. q \in DuelRow /\ RowFits(q) /\ ReservationFits(q, res[d], Booked(ledger, d)) /\ Follows(r, q) /\ Dead(q)
      BY <2>3, <2>6, <3>1, <3>3, EndFits DEF LiveForTicket, Kept
    <3>8. duel' \in [Duels -> DuelRow] /\ DuelsFit'
      BY <1>3, <3>4, <3>7, OneRowWritten DEF MatchInv
    <3>9. \A e \in Duels : Follows(duel[e], duel'[e])
      BY <2>2, <3>4, <3>7, RowsFollow DEF MatchInv
    <3>10. ticket' \in [Wallets -> TicketRow] /\ TicketsFit'
      BY <3>4, <3>7, TicketsDropped DEF MatchInv
    <3> QED BY <1>2, <1>3, <2>4, <3>8, <3>9, <3>10, QueueStep
  <2> QED BY <2>7, <2>8
<1> QED BY <1>4, <1>5

LEMMA TicketsMatched ==
  ASSUME MatchInv, NEW w \in Wallets, NEW v \in Wallets, v # w, ticket[w] = NoTicket,
         ticket[v] # NoTicket, NEW d \in Duels, d = ticket[v].duel, duel[d].status = "WAITING",
         NEW q \in DuelRow, duel' = [duel EXCEPT ![d] = q],
         Kept(duel[d], q), q.status = "MATCHED", q.opponent = w, NEW at \in Nat,
         ticket' = [ticket EXCEPT ![v].status = "MATCHED",
                       ![w] = [duel |-> d, role |-> "OPPONENT", status |-> "MATCHED", at |-> at]]
  PROVE  ticket' \in [Wallets -> TicketRow] /\ TicketsFit'
<1>1. /\ v = duel[d].creator /\ ticket[v].role = "CREATOR" /\ TicketsOf(d) = {v}
  BY TicketTells DEF LiveForTicket
<1>2. /\ duel'[d] = q /\ \A e \in Duels : e # d => duel'[e] = duel[e]
  BY DEF MatchInv, MatchTypes
<1>3. PICK x \in TicketRow : x = ticket[v]
  BY DEF MatchInv, MatchTypes
<1>4. PICK y \in TicketRow : y = [x EXCEPT !.status = "MATCHED"]
  BY DEF TicketRow
<1>5. y.duel = d /\ y.role = "CREATOR" /\ y.status = "MATCHED"
  BY <1>1, <1>3, <1>4 DEF TicketRow
<1>6. PICK z \in TicketRow : z = [duel |-> d, role |-> "OPPONENT", status |-> "MATCHED", at |-> at]
  BY DEF TicketRow
<1>7. z.duel = d /\ z.role = "OPPONENT" /\ z.status = "MATCHED"
  BY <1>6
<1>8. ticket \in [Wallets -> TicketRow]
  BY DEF MatchInv, MatchTypes
<1>9. ticket' = [[ticket EXCEPT ![v] = y] EXCEPT ![w] = z]
  BY <1>3, <1>4, <1>6, <1>8
<1>10. /\ ticket' \in [Wallets -> TicketRow] /\ ticket'[v] = y /\ ticket'[w] = z
       /\ \A u \in Wallets \ {v, w} : ticket'[u] = ticket[u]
  BY <1>8, <1>9
<1>11. q.version > 0 /\ q.creator = v
  <2>1. PICK r \in DuelRow : r = duel[d]
    BY DEF MatchInv, MatchTypes
  <2>2. Kept(r, q) /\ r.creator = v
    BY <1>1, <2>1
  <2> QED BY <2>2, KeptRow
<1>12. NoTicket.duel = "none" /\ "none" \notin Duels
  BY NobodyIsAPlayer DEF NoTicket
<1>13. \A u \in Wallets : ticket[u].duel = d <=> u = v
  BY <1>1 DEF TicketsOf
<1>14. ASSUME NEW u \in Wallets
       PROVE  /\ ticket'[u].duel = d <=> u \in {v, w}
              /\ \A e \in Duels : e # d => (ticket'[u].duel = e <=> ticket[u].duel = e)
  <2>1. CASE u = v
    BY <2>1, <1>5, <1>10, <1>13
  <2>2. CASE u = w
    BY <2>2, <1>7, <1>10, <1>12
  <2>3. CASE u \notin {v, w}
    BY <2>3, <1>10, <1>13
  <2> QED BY <2>1, <2>2, <2>3
<1>15. TicketsOf(d)' = {v, w} /\ \A e \in Duels : e # d => TicketsOf(e)' = TicketsOf(e)
  BY <1>14 DEF TicketsOf
<1>16. ASSUME NEW u \in Wallets, ticket'[u] # NoTicket
       PROVE  /\ ticket'[u].duel \in Duels /\ duel'[ticket'[u].duel].version > 0
              /\ duel'[ticket'[u].duel].status \in LiveForTicket =>
                   /\ u = IF ticket'[u].role = "CREATOR" THEN duel'[ticket'[u].duel].creator
                          ELSE duel'[ticket'[u].duel].opponent
                   /\ ticket'[u].status = IF duel'[ticket'[u].duel].status = "WAITING" THEN "SEARCHING"
                                          ELSE "MATCHED"
  <2>1. CASE u = v
    BY <2>1, <1>2, <1>5, <1>10, <1>11
  <2>2. CASE u = w
    BY <2>2, <1>2, <1>7, <1>10, <1>11
  <2>3. CASE u \notin {v, w}
    <3>1. ticket'[u] = ticket[u] /\ ticket[u].duel # d
      BY <2>3, <1>10, <1>13
    <3>2. ticket[u].duel \in Duels /\ duel[ticket[u].duel].version > 0
      BY <3>1, <1>16 DEF MatchInv, TicketsFit
    <3>3. duel'[ticket[u].duel] = duel[ticket[u].duel]
      BY <3>1, <3>2, <1>2
    <3>4. duel[ticket[u].duel].status \in LiveForTicket =>
            /\ u = IF ticket[u].role = "CREATOR" THEN duel[ticket[u].duel].creator
                   ELSE duel[ticket[u].duel].opponent
            /\ ticket[u].status = IF duel[ticket[u].duel].status = "WAITING" THEN "SEARCHING"
                                  ELSE "MATCHED"
      BY <3>1, <1>16, TicketTells
    <3> QED BY <3>1, <3>2, <3>3, <3>4
  <2> QED BY <2>1, <2>2, <2>3
<1>17. ASSUME NEW e \in Duels
       PROVE  /\ duel'[e].status \in LiveForTicket /\ duel'[e].mode = "OPEN" =>
                   TicketsOf(e)' = {duel'[e].creator, duel'[e].opponent} \ {NoWallet}
              /\ duel'[e].status = "WAITING" => duel'[e].opponent = NoWallet /\ duel'[e].mode = "OPEN"
  <2>1. CASE e = d
    BY <2>1, <1>2, <1>11, <1>15, NobodyIsAPlayer
  <2>2. CASE e # d
    BY <2>2, <1>2, <1>15 DEF MatchInv, TicketsFit, TicketsAgreeWithDuels
  <2> QED BY <2>1, <2>2
<1>18. TicketsFit'
  BY <1>16, <1>17 DEF TicketsFit, TicketsAgreeWithDuels
<1> QED BY <1>10, <1>18

LEMMA AssignCandidateStep ==
  ASSUME MatchInv, NEW w \in Wallets, AssignCandidate(w), UNCHANGED clock
  PROVE  MatchInv'
<1>1. PICK v \in Candidates(w) :
        /\ ticket' = [ticket EXCEPT ![v].status = "MATCHED",
                        ![w] = [duel |-> ticket[v].duel, role |-> "OPPONENT", status |-> "MATCHED",
                                at |-> call[w].now]]
        /\ MoveDuel(ticket[v].duel, [duel[ticket[v].duel] EXCEPT !.status = "MATCHED", !.opponent = w,
                                       !.commitBy = call[w].now + CommitmentWindow])
  BY DEF AssignCandidate
<1>2. v \in Wallets /\ v # w /\ ticket[v] # NoTicket /\ duel[ticket[v].duel].status = "WAITING"
  BY DEF Candidates, NoTicket
<1>3. PICK d \in Duels : d = ticket[v].duel
  BY <1>2 DEF MatchInv, TicketsFit
<1>4. PICK r \in DuelRow : r = duel[d]
  BY DEF MatchInv, MatchTypes
<1>5. PICK n \in Nat : n = call[w].now
  BY DEF MatchInv, MatchTypes, RequestRow
<1>0. PICK by \in Int : by = n + CommitmentWindow
  BY LimitsAreNat
<1>6. PICK q : q = PairRow(r, w, by)
  OBVIOUS
<1>7. Kept(r, q) /\ q.status = "MATCHED" /\ q.mode = r.mode /\ q.opponent = w
  BY <1>6, MatchWritten
<1>8. duel' = [duel EXCEPT ![d] = q]
  BY <1>0, <1>1, <1>3, <1>4, <1>5, <1>6 DEF MoveDuel, PairRow
<1>9. RowFits(r) /\ ReservationFits(r, res[d], Booked(ledger, d))
  BY <1>4, DuelFits DEF MatchInv
<1>10. v = r.creator /\ r.mode = "OPEN" /\ r.status = "WAITING" /\ r.version \in Nat
  BY <1>2, <1>3, <1>4, TicketTells DEF LiveForTicket, DuelRow
<1>11. q \in DuelRow /\ RowFits(q) /\ ReservationFits(q, res[d], Booked(ledger, d))
  BY <1>2, <1>7, <1>9, <1>10, PlayerRowFits DEF Kept
<1>12. Follows(r, q)
  BY <1>7, <1>10 DEF Follows, Kept, Dead, LiveForTicket
<1>13. UNCHANGED <<res, ledger, asset, chain, rec, clock, behavior>>
  BY DEF AssignCandidate, treasuryVars
<1>14. duel' \in [Duels -> DuelRow] /\ DuelsFit'
  BY <1>8, <1>11, <1>13, OneRowWritten DEF MatchInv
<1>15. \A e \in Duels : Follows(duel[e], duel'[e])
  BY <1>4, <1>8, <1>11, <1>12, RowsFollow DEF MatchInv
<1>16. ticket' \in [Wallets -> TicketRow] /\ TicketsFit'
  <2>1. ticket[w] = NoTicket
    BY DEF AssignCandidate
  <2>2. ticket' = [ticket EXCEPT ![v].status = "MATCHED",
                       ![w] = [duel |-> d, role |-> "OPPONENT", status |-> "MATCHED", at |-> n]]
    BY <1>1, <1>3, <1>5
  <2>3. Kept(duel[d], q) /\ q.status = "MATCHED" /\ q.opponent = w /\ duel[d].status = "WAITING"
    BY <1>4, <1>7, <1>10
  <2> QED BY <1>2, <1>3, <1>8, <1>11, <2>1, <2>2, <2>3, TicketsMatched
<1>17. /\ call' \in [Wallets -> RequestRow]
       /\ \A u \in Wallets : call'[u] = call[u] \/ RequestFits(u, call'[u], duel)
  BY RequestReturns DEF MatchInv, AssignCandidate
<1>18. behavior' \in [Wallets -> BehaviorRow]
  BY <1>13 DEF MatchInv, MatchTypes
<1> QED BY <1>13, <1>14, <1>15, <1>16, <1>17, <1>18, QueueStep

LEMMA CreateSearchStep ==
  ASSUME MatchInv, NEW w \in Wallets, CreateSearch(w), UNCHANGED clock
  PROVE  MatchInv'
<1>1. PICK d \in Duels :
       /\ duel[d] = NoDuel
       /\ duel' = [duel EXCEPT ![d] = [NoDuel EXCEPT !.status = "WAITING", !.creator = w,
                     !.version = 1, !.expiresAt = call[w].now + SearchLifetime]]
       /\ ticket' = [ticket EXCEPT ![w] = [duel |-> d, role |-> "CREATOR",
                       status |-> "SEARCHING", at |-> call[w].now]]
  BY DEF CreateSearch
<1>2. PICK n \in Nat : n = call[w].now
  BY DEF MatchInv, MatchTypes, RequestRow
<1>0. PICK m \in Nat : m = n + SearchLifetime
  BY LimitsAreNat
<1>3. PICK q : q = SearchRow(w, m)
  OBVIOUS
<1>4. /\ q \in DuelRow /\ q.version = 1 /\ q.status = "WAITING" /\ q.mode = "OPEN"
      /\ q.creator = w /\ q.opponent = NoWallet /\ ~q.opened
  BY <1>3, SearchWritten
<1>5. duel' = [duel EXCEPT ![d] = q]
  BY <1>0, <1>1, <1>2, <1>3 DEF SearchRow
<1>6. RowFits(q)
  BY <1>4, NobodyIsAPlayer DEF RowFits
<1>7. ReservationFits(q, res[d], Booked(ledger, d))
  <2>1. ReservationFits(NoDuel, res[d], Booked(ledger, d))
    BY <1>1, DuelFits DEF MatchInv
  <2>2. res[d] = "NONE"
    BY <2>1, NoDuelIs DEF ReservationFits
  <2> QED BY <1>4, <2>1, <2>2 DEF ReservationFits
<1>8. Follows(duel[d], q)
  BY <1>1, <1>4, NoDuelIs DEF Follows, Dead
<1>9. UNCHANGED <<res, ledger, asset, chain, rec, clock, behavior>>
  BY DEF CreateSearch, treasuryVars
<1>10. duel' \in [Duels -> DuelRow] /\ DuelsFit'
  BY <1>4, <1>5, <1>6, <1>7, <1>9, OneRowWritten DEF MatchInv
<1>11. \A e \in Duels : Follows(duel[e], duel'[e])
  BY <1>4, <1>5, <1>8, RowsFollow DEF MatchInv
<1>12. PICK y \in TicketRow : y = [duel |-> d, role |-> "CREATOR", status |-> "SEARCHING", at |-> n]
  BY DEF TicketRow
<1>13. y.duel = d /\ y.role = "CREATOR" /\ y.status = "SEARCHING"
  BY <1>12
<1>14. ticket \in [Wallets -> TicketRow] /\ ticket' = [ticket EXCEPT ![w] = y]
  BY <1>1, <1>2, <1>12 DEF MatchInv, MatchTypes
<1>15. /\ ticket' \in [Wallets -> TicketRow] /\ ticket'[w] = y
       /\ \A u \in Wallets : u # w => ticket'[u] = ticket[u]
  BY <1>14
<1>16. /\ duel'[d] = q /\ \A e \in Duels : e # d => duel'[e] = duel[e]
  BY <1>5 DEF MatchInv, MatchTypes
<1>17. ticket[w].duel \notin Duels /\ ticket[w] = NoTicket
  BY NobodyIsAPlayer DEF CreateSearch, NoTicket
<1>18. \A u \in Wallets : ticket[u].duel # d
  <2>1. SUFFICES ASSUME NEW u \in Wallets, ticket[u].duel = d PROVE FALSE
    OBVIOUS
  <2>2. ticket[u] # NoTicket
    BY <2>1, NobodyIsAPlayer DEF NoTicket
  <2>3. duel[d].version > 0
    BY <2>1, <2>2 DEF MatchInv, TicketsFit
  <2> QED BY <2>3, <1>1, NoDuelIs
<1>19. TicketsOf(d)' = {w} /\ \A e \in Duels : e # d => TicketsOf(e)' = TicketsOf(e)
  <2>1. ASSUME NEW u \in Wallets
        PROVE  /\ ticket'[u].duel = d <=> u = w
               /\ \A e \in Duels : e # d => (ticket'[u].duel = e <=> ticket[u].duel = e)
    <3>1. CASE u = w
      BY <3>1, <1>13, <1>15, <1>17
    <3>2. CASE u # w
      BY <3>2, <1>15, <1>18
    <3> QED BY <3>1, <3>2
  <2> QED BY <2>1 DEF TicketsOf
<1>20. ASSUME NEW u \in Wallets, ticket'[u] # NoTicket
       PROVE  /\ ticket'[u].duel \in Duels /\ duel'[ticket'[u].duel].version > 0
              /\ duel'[ticket'[u].duel].status \in LiveForTicket =>
                   /\ u = IF ticket'[u].role = "CREATOR" THEN duel'[ticket'[u].duel].creator
                          ELSE duel'[ticket'[u].duel].opponent
                   /\ ticket'[u].status = IF duel'[ticket'[u].duel].status = "WAITING" THEN "SEARCHING"
                                          ELSE "MATCHED"
  <2>1. CASE u = w
    BY <2>1, <1>4, <1>13, <1>15, <1>16
  <2>2. CASE u # w
    <3>1. ticket'[u] = ticket[u] /\ ticket[u].duel # d
      BY <2>2, <1>15, <1>18
    <3>2. ticket[u].duel \in Duels /\ duel[ticket[u].duel].version > 0
      BY <3>1, <1>20 DEF MatchInv, TicketsFit
    <3>3. duel'[ticket[u].duel] = duel[ticket[u].duel]
      BY <3>1, <3>2, <1>16
    <3>4. duel[ticket[u].duel].status \in LiveForTicket =>
            /\ u = IF ticket[u].role = "CREATOR" THEN duel[ticket[u].duel].creator
                   ELSE duel[ticket[u].duel].opponent
            /\ ticket[u].status = IF duel[ticket[u].duel].status = "WAITING" THEN "SEARCHING"
                                  ELSE "MATCHED"
      BY <3>1, <1>20, TicketTells
    <3> QED BY <3>1, <3>2, <3>3, <3>4
  <2> QED BY <2>1, <2>2
<1>21. ASSUME NEW e \in Duels
       PROVE  /\ duel'[e].status \in LiveForTicket /\ duel'[e].mode = "OPEN" =>
                   TicketsOf(e)' = {duel'[e].creator, duel'[e].opponent} \ {NoWallet}
              /\ duel'[e].status = "WAITING" => duel'[e].opponent = NoWallet /\ duel'[e].mode = "OPEN"
  <2>1. CASE e = d
    BY <2>1, <1>4, <1>16, <1>19, NobodyIsAPlayer
  <2>2. CASE e # d
    BY <2>2, <1>16, <1>19 DEF MatchInv, TicketsFit, TicketsAgreeWithDuels
  <2> QED BY <2>1, <2>2
<1>22. TicketsFit'
  BY <1>20, <1>21 DEF TicketsFit, TicketsAgreeWithDuels
<1>23. /\ call' \in [Wallets -> RequestRow]
       /\ \A u \in Wallets : call'[u] = call[u] \/ RequestFits(u, call'[u], duel)
  BY RequestReturns DEF MatchInv, CreateSearch
<1>24. behavior' \in [Wallets -> BehaviorRow]
  BY <1>9 DEF MatchInv, MatchTypes
<1> QED BY <1>9, <1>10, <1>11, <1>15, <1>22, <1>23, <1>24, QueueStep

(***************************************************************************)
(* The ledger and the exposure.                                            *)
(***************************************************************************)
LEMMA EntryIs ==
  ASSUME MatchTypes, NEW ty \in EntryTypes, NEW ref \in Duels \cup Assets, NEW key \in Int
  PROVE  /\ Entry(ty, ref, key, 1) \in EntryRow
         /\ Entry(ty, ref, key, 1).type = ty /\ Entry(ty, ref, key, 1).ref = ref
         /\ Entry(ty, ref, key, 1).day = clock \div DayLength
<1>1. clock \div DayLength \in Int
  BY DaysAdvance DEF Today, MatchTypes
<1> QED BY <1>1 DEF Entry, EntryRow

Books(ty, ref, key) == ledger' = AppendLedger(ledger, Entry(ty, ref, key, 1))

LEMMA LedgerGrows ==
  ASSUME MatchTypes, ExposureFits, NEW ty \in EntryTypes, NEW ref \in Duels \cup Assets, NEW key \in Int,
         Books(ty, ref, key), UNCHANGED clock
  PROVE  /\ ledger' \in Seq(EntryRow)
         /\ \A i \in DOMAIN ledger' : ledger'[i].day <= clock' \div DayLength
         /\ DailyLoss \in Nat /\ DailyLoss' \in Nat /\ DailyLoss' <= DailyLoss + 1
         /\ ty # "PLAYER_WIN_LOSS" => DailyLoss' = DailyLoss
         /\ \A d : Booked(ledger', d) = Booked(ledger, d) \cup (IF d = ref THEN {ty} ELSE {})
<1>1. PICK e \in EntryRow : /\ e = Entry(ty, ref, key, 1) /\ e.type = ty /\ e.ref = ref
                            /\ e.day = clock \div DayLength
  BY EntryIs
<1>2. ledger \in Seq(EntryRow) /\ ledger' = AppendLedger(ledger, e)
  BY <1>1 DEF MatchTypes, Books
<1>3. /\ ledger' \in Seq(EntryRow)
      /\ \/ ledger' = ledger
         \/ /\ DOMAIN ledger' = DOMAIN ledger \cup {Len(ledger) + 1}
            /\ ledger'[Len(ledger) + 1] = e /\ \A i \in DOMAIN ledger : ledger'[i] = ledger[i]
  <2>1. PICK k : Appends(ledger, e, k)
    BY DEF Appends
  <2>2. k \in Seq(EntryRow) /\ Grown(ledger, e, k)
    BY <1>2, <2>1, Appended
  <2>3. ledger' = k
    BY <1>2, <2>1 DEF Appends
  <2> QED BY <2>2, <2>3 DEF Grown
<1>4. \A i \in DOMAIN ledger' : ledger'[i].day <= clock' \div DayLength
  <2>1. clock \div DayLength \in Int /\ clock' = clock
    BY DaysAdvance DEF Today, MatchTypes
  <2>2. \A i \in DOMAIN ledger : ledger[i].day <= clock \div DayLength
    BY DEF ExposureFits
  <2> DEFINE today == clock \div DayLength
  <2>3. today \in Int /\ clock' \div DayLength = today /\ e.day = today
    BY <1>1, <2>1
  <2>4. \A i \in DOMAIN ledger : ledger[i].day <= today
    BY <2>2
  <2> HIDE DEF today
  <2>5. \A i \in DOMAIN ledger' : ledger'[i].day <= today
    BY <1>3, <2>3, <2>4
  <2> QED BY <2>3, <2>5
<1>5. /\ DailyLoss = Loss(ledger, Today(clock)) /\ DailyLoss' = Loss(ledger', Today(clock))
  BY DailyLossIsTotal
<1>6. /\ Loss(ledger, Today(clock)) \in Nat /\ Loss(ledger', Today(clock)) \in Nat
      /\ Loss(ledger', Today(clock)) <= Loss(ledger, Today(clock)) + 1
      /\ e.type # "PLAYER_WIN_LOSS" => Loss(ledger', Today(clock)) = Loss(ledger, Today(clock))
  <2>1. PICK k : Appends(ledger, e, k)
    BY DEF Appends
  <2>2. PICK today : today = Today(clock)
    OBVIOUS
  <2>3. /\ Loss(ledger, today) \in Nat /\ Loss(k, today) \in Nat
        /\ Loss(k, today) <= Loss(ledger, today) + 1
        /\ e.type # "PLAYER_WIN_LOSS" => Loss(k, today) = Loss(ledger, today)
    BY <1>2, <2>1, LossGrows
  <2>4. ledger' = k
    BY <1>2, <2>1 DEF Appends
  <2> QED BY <2>2, <2>3, <2>4
<1>7. \A d : Booked(ledger', d) = Booked(ledger, d) \cup (IF d = ref THEN {ty} ELSE {})
  BY <1>1, <1>2, BookedGrows
<1> QED BY <1>1, <1>3, <1>4, <1>5, <1>6, <1>7

\* An entry that books neither an end nor a release changes no reservation's standing.
LEMMA QuietEntry ==
  ASSUME NEW r, NEW s, NEW B, NEW C, ReservationFits(r, s, B), B \subseteq C,
         C \cap {"PLAYER_WIN_LOSS", "HOUSE_PACK_COST"} \subseteq B
  PROVE  ReservationFits(r, s, C)
BY DEF ReservationFits

LEMMA AdmissionAllows ==
  ASSUME NEW d, NEW w
  PROVE  /\ Admission(d, w) = "replay" => res[d] # "NONE"
         /\ Admission(d, w) = "allowed" =>
              ~ (DailyLoss + (Cardinality(ActiveReservations) + 1) > DailyLossLimit)
<1>1. ExposureDecision(w) = "allowed" => ~ (DailyLoss + (Cardinality(ActiveReservations) + 1) > DailyLossLimit)
  BY DEF ExposureDecision
<1>2. ExposureDecision(w) # "replay"
  BY DEF ExposureDecision
<1> HIDE DEF ExposureDecision
<1>3. Admission(d, w) = "replay" => res[d] # "NONE"
  BY <1>2 DEF Admission
<1>4. Admission(d, w) = "allowed" => ExposureDecision(w) = "allowed"
  BY DEF Admission
<1> QED BY <1>1, <1>3, <1>4

HouseMatched(w, d, q) ==
  duel' = [duel EXCEPT ![d] = q] /\ ticket' = [ticket EXCEPT ![w].status = "MATCHED"]

LEMMA HouseTakesOver ==
  ASSUME MatchInv, NEW w \in Wallets, NEW d \in Duels, NEW r \in DuelRow, r = duel[d],
         r.status = "WAITING", r.creator = w, NEW by \in Int, NEW q, q = HouseRow(r, by),
         HouseMatched(w, d, q)
  PROVE  /\ q \in DuelRow /\ RowFits(q) /\ Follows(r, q) /\ q.mode = "HOUSE" /\ q.status = "MATCHED"
         /\ ticket' \in [Wallets -> TicketRow] /\ TicketsFit'
<1>1. Kept(r, q) /\ q.status = "MATCHED" /\ q.mode = "HOUSE" /\ q.opponent = House
  BY HouseWritten
<1>2. r.opponent = NoWallet /\ r.mode = "OPEN" /\ ~r.opened /\ r.version > 0 /\ r.version \in Nat
  BY RowExists, DuelFits DEF MatchInv, RowFits, DuelRow
<1>3. q.version = r.version + 1 /\ q.creator = w /\ ~q.opened /\ q \in DuelRow
  BY <1>1, <1>2 DEF Kept
<1>4. RowFits(q)
  BY <1>1, <1>2, <1>3, NobodyIsAPlayer DEF RowFits
<1>5. Follows(r, q)
  BY <1>2, <1>3 DEF Follows, Dead, LiveForTicket
<1>6. TicketsOf(d) = {w}
  BY <1>2, NobodyIsAPlayer DEF MatchInv, TicketsFit, TicketsAgreeWithDuels, LiveForTicket
<1>7. ticket[w].duel = d /\ ticket[w] # NoTicket
  BY <1>6, NobodyIsAPlayer DEF TicketsOf, NoTicket
<1>8. ticket[w].role = "CREATOR"
  BY <1>7, TicketTells DEF LiveForTicket
<1>9. PICK x \in TicketRow : x = ticket[w]
  BY DEF MatchInv, MatchTypes
<1>10. PICK y \in TicketRow : y = [x EXCEPT !.status = "MATCHED"]
  BY DEF TicketRow
<1>11. y.duel = d /\ y.role = "CREATOR" /\ y.status = "MATCHED"
  BY <1>7, <1>8, <1>9, <1>10 DEF TicketRow
<1>12. ticket \in [Wallets -> TicketRow] /\ ticket' = [ticket EXCEPT ![w] = y]
  BY <1>9, <1>10 DEF MatchInv, MatchTypes, HouseMatched
<1>13. /\ ticket' \in [Wallets -> TicketRow] /\ ticket'[w] = y
       /\ \A u \in Wallets : u # w => ticket'[u] = ticket[u]
  BY <1>12
<1>14. /\ duel'[d] = q /\ \A e \in Duels : e # d => duel'[e] = duel[e]
  BY DEF MatchInv, MatchTypes, HouseMatched
<1>15. \A e \in Duels : TicketsOf(e)' = TicketsOf(e)
  <2>1. \A u \in Wallets : ticket'[u].duel = ticket[u].duel
    BY <1>7, <1>11, <1>13
  <2> QED BY <2>1 DEF TicketsOf
<1>16. ASSUME NEW u \in Wallets, ticket'[u] # NoTicket
       PROVE  /\ ticket'[u].duel \in Duels /\ duel'[ticket'[u].duel].version > 0
              /\ duel'[ticket'[u].duel].status \in LiveForTicket =>
                   /\ u = IF ticket'[u].role = "CREATOR" THEN duel'[ticket'[u].duel].creator
                          ELSE duel'[ticket'[u].duel].opponent
                   /\ ticket'[u].status = IF duel'[ticket'[u].duel].status = "WAITING" THEN "SEARCHING"
                                          ELSE "MATCHED"
  <2>1. CASE u = w
    <3>1. ticket'[u].duel = d /\ ticket'[u].role = "CREATOR" /\ ticket'[u].status = "MATCHED"
      BY <2>1, <1>11, <1>13
    <3>2. q.version > 0 /\ q.creator = u /\ q.status # "WAITING"
      BY <2>1, <1>1, <1>3, KeptRow
    <3>3. duel'[ticket'[u].duel] = q
      BY <3>1, <1>14
    <3> QED BY <3>1, <3>2, <3>3
  <2>2. CASE u # w
    <3>1. ticket'[u] = ticket[u] /\ ticket[u].duel # d
      BY <2>2, <1>6, <1>13 DEF TicketsOf
    <3>2. ticket[u].duel \in Duels /\ duel[ticket[u].duel].version > 0
      BY <3>1, <1>16 DEF MatchInv, TicketsFit
    <3>3. duel'[ticket[u].duel] = duel[ticket[u].duel]
      BY <3>1, <3>2, <1>14
    <3>4. duel[ticket[u].duel].status \in LiveForTicket =>
            /\ u = IF ticket[u].role = "CREATOR" THEN duel[ticket[u].duel].creator
                   ELSE duel[ticket[u].duel].opponent
            /\ ticket[u].status = IF duel[ticket[u].duel].status = "WAITING" THEN "SEARCHING"
                                  ELSE "MATCHED"
      BY <3>1, <1>16, TicketTells
    <3> QED BY <3>1, <3>2, <3>3, <3>4
  <2> QED BY <2>1, <2>2
<1>17. ASSUME NEW e \in Duels
       PROVE  /\ duel'[e].status \in LiveForTicket /\ duel'[e].mode = "OPEN" =>
                   TicketsOf(e)' = {duel'[e].creator, duel'[e].opponent} \ {NoWallet}
              /\ duel'[e].status = "WAITING" => duel'[e].opponent = NoWallet /\ duel'[e].mode = "OPEN"
  <2>1. CASE e = d
    BY <2>1, <1>1, <1>14
  <2>2. CASE e # d
    BY <2>2, <1>14, <1>15 DEF MatchInv, TicketsFit, TicketsAgreeWithDuels
  <2> QED BY <2>1, <2>2
<1>18. TicketsFit'
  BY <1>16, <1>17 DEF TicketsFit, TicketsAgreeWithDuels
<1> QED BY <1>1, <1>3, <1>4, <1>5, <1>13, <1>18

LEMMA HouseFallbackStep ==
  ASSUME MatchInv, NEW w \in Wallets, HouseFallback(w), UNCHANGED clock
  PROVE  MatchInv'
<1>1. PICK t \in call[w].due :
        IF Admission(t[1], w) \in {"allowed", "replay"} /\ SameVersion(t[1], t[2])
        THEN /\ MoveDuel(t[1], [duel[t[1]] EXCEPT !.status = "MATCHED", !.mode = "HOUSE",
                       !.opponent = House, !.commitBy = call[w].now + CommitmentWindow])
             /\ ticket' = [ticket EXCEPT ![w].status = "MATCHED"]
             /\ IF Admission(t[1], w) = "allowed" THEN Reserve(t[1]) ELSE UNCHANGED <<res, ledger, tier>>
             /\ Return(w)
        ELSE /\ IF Admission(t[1], w) \in TierDisabling
                THEN call' = [call EXCEPT ![w].pc = "refused", ![w].due = {}, ![w].now = clock]
                ELSE Return(w)
             /\ UNCHANGED <<duel, ticket, res, ledger, tier>>
  BY DEF HouseFallback
<1>2. UNCHANGED <<asset, chain, rec, clock, behavior>>
  BY DEF HouseFallback
<1>3. CASE ~ (Admission(t[1], w) \in {"allowed", "replay"} /\ SameVersion(t[1], t[2]))
  <2>1. UNCHANGED <<duel, ticket, res, ledger>>
    BY <1>1, <1>3
  <2>2. CASE Return(w)
    BY <1>2, <2>1, <2>2, RequestReturns, RequestStep DEF MatchInv
  <2>3. CASE call' = [call EXCEPT ![w].pc = "refused", ![w].due = {}, ![w].now = clock]
    <3>1. PICK x \in RequestRow : x = call[w]
      BY DEF MatchInv, MatchTypes
    <3>2. clock \in Nat
      BY DEF MatchInv, MatchTypes
    <3>3. PICK c \in RequestRow : c = [x EXCEPT !.pc = "refused", !.due = {}, !.now = clock]
      BY <3>2 DEF RequestRow
    <3>4. c.due = {} /\ c.now = clock
      BY <3>3 DEF RequestRow
    <3>5. RequestFits(w, c, duel)
      BY <3>2, <3>4 DEF RequestFits
    <3>6. call' = [call EXCEPT ![w] = c]
      BY <2>3, <3>1, <3>3 DEF MatchInv, MatchTypes
    <3>7. /\ call' \in [Wallets -> RequestRow]
          /\ \A v \in Wallets : call'[v] = call[v] \/ RequestFits(v, call'[v], duel)
      BY <3>5, <3>6, OneRequestWritten DEF MatchInv
    <3> QED BY <1>2, <2>1, <3>7, RequestStep
  <2> QED BY <1>1, <1>3, <2>2, <2>3
<1>4. CASE Admission(t[1], w) \in {"allowed", "replay"} /\ SameVersion(t[1], t[2])
  <2>1. PICK d \in Duels : d = t[1]
    BY SeenBy
  <2>2. PICK r \in DuelRow : r = duel[d]
    BY DEF MatchInv, MatchTypes
  <2>3. r.status = "WAITING" /\ r.creator = w
    BY <1>4, <2>1, <2>2, SeenBy, SameRow DEF DueFits, HouseFallback
  <2>4. RowFits(r) /\ ReservationFits(r, res[d], Booked(ledger, d))
    BY <2>2, DuelFits DEF MatchInv
  <2>5. res[d] = "NONE"
    BY <2>3, <2>4 DEF RowFits, ReservationFits
  <2>6. Admission(d, w) = "allowed" /\ Reserve(d)
    BY <1>1, <1>4, <2>1, <2>5, AdmissionAllows
  <2>7. PICK by \in Int : by = call[w].now + CommitmentWindow
    BY SeenBy, LimitsAreNat
  <2>8. PICK q : q = HouseRow(r, by)
    OBVIOUS
  <2>9. HouseMatched(w, d, q)
    BY <1>1, <1>4, <2>1, <2>2, <2>7, <2>8 DEF MoveDuel, HouseRow, HouseMatched
  <2>10. /\ q \in DuelRow /\ RowFits(q) /\ Follows(r, q) /\ q.mode = "HOUSE" /\ q.status = "MATCHED"
         /\ ticket' \in [Wallets -> TicketRow] /\ TicketsFit'
    <3>1. r.status = "WAITING"
      BY <2>3
    <3>2. r.creator = w
      BY <2>3
    <3> QED BY <2>2, <2>8, <2>9, <3>1, <3>2, HouseTakesOver
  <2>11. PICK ty \in EntryTypes, key \in Int :
           /\ ty = "RESERVATION_CREATED" /\ Books(ty, d, key)
           /\ res' = [res EXCEPT ![d] = "RESERVED"]
    <3>1. "RESERVATION_CREATED" \in EntryTypes
      BY DEF EntryTypes
    <3>2. 0 \in Int
      OBVIOUS
    <3> QED BY <2>6, <3>1, <3>2 DEF Reserve, Books
  <2>12. /\ ledger' \in Seq(EntryRow)
         /\ \A i \in DOMAIN ledger' : ledger'[i].day <= clock' \div DayLength
         /\ DailyLoss \in Nat /\ DailyLoss' = DailyLoss
         /\ \A e : Booked(ledger', e) = Booked(ledger, e) \cup (IF e = d THEN {ty} ELSE {})
    <3>1. d \in Duels \cup Assets /\ UNCHANGED clock /\ ty # "PLAYER_WIN_LOSS"
      BY <1>2, <2>11
    <3>2. MatchTypes /\ ExposureFits
      BY DEF MatchInv
    <3> QED BY <2>11, <3>1, <3>2, LedgerGrows
  <2>13. /\ res' \in [Duels -> ReservationStatuses] /\ res'[d] = "RESERVED"
         /\ \A e \in Duels : e # d => res'[e] = res[e]
    BY <2>11 DEF MatchInv, MatchTypes, ReservationStatuses
  <2>14. /\ duel' \in [Duels -> DuelRow] /\ duel'[d] = q
         /\ \A e \in Duels : e # d => duel'[e] = duel[e]
    BY <2>9, <2>10 DEF MatchInv, MatchTypes, HouseMatched
  <2>15. ReservationFits(q, "RESERVED", Booked(ledger', d))
    <3>1. Booked(ledger, d) \cap {"PLAYER_WIN_LOSS", "HOUSE_PACK_COST"} = {}
      BY <2>4, <2>5 DEF ReservationFits
    <3>2. Booked(ledger', d) \cap {"PLAYER_WIN_LOSS", "HOUSE_PACK_COST"} = {}
      BY <2>11, <2>12, <3>1
    <3> QED BY <2>10, <3>2 DEF ReservationFits, ACTIVE_HOUSE_RESERVATION_STATUSES
  <2>16. DuelsFit'
    <3>1. ASSUME NEW e \in Duels
          PROVE  RowFits(duel'[e]) /\ ReservationFits(duel'[e], res'[e], Booked(ledger', e))
      <4>1. CASE e = d
        BY <4>1, <2>10, <2>13, <2>14, <2>15
      <4>2. CASE e # d
        <5>1. Booked(ledger', e) = Booked(ledger, e)
          BY <4>2, <2>12
        <5> QED BY <4>2, <5>1, <2>13, <2>14, DuelFits DEF MatchInv
      <4> QED BY <4>1, <4>2
    <3> QED BY <3>1 DEF DuelsFit
  <2>17. ExposureFits'
    <3>1. ActiveReservations' = ActiveReservations \cup {d} /\ d \notin ActiveReservations
      BY <2>5, <2>13 DEF ActiveReservations, ACTIVE_HOUSE_RESERVATION_STATUSES
    <3>2. IsFiniteSet(ActiveReservations)
      BY DEF MatchInv, ExposureFits
    <3>3. /\ IsFiniteSet(ActiveReservations') /\ Cardinality(ActiveReservations) \in Nat
          /\ Cardinality(ActiveReservations') = Cardinality(ActiveReservations) + 1
      BY <3>1, <3>2, FS_AddElement, FS_CardinalityType
    <3>4. ~ (DailyLoss + (Cardinality(ActiveReservations) + 1) > DailyLossLimit)
      BY <2>6, AdmissionAllows
    <3>5. ExposureWithinDailyLimit'
      <4> DEFINE n == Cardinality(ActiveReservations)
                 m == Cardinality(ActiveReservations')
                 l == DailyLoss
                 k == DailyLoss'
      <4>1. n \in Nat /\ m = n + 1 /\ l \in Nat /\ k = l /\ ~ (l + (n + 1) > DailyLossLimit)
        BY <3>3, <3>4, <2>12
      <4>2. ExposureWithinDailyLimit' <=> k + m <= DailyLossLimit
        BY DEF ExposureWithinDailyLimit
      <4> HIDE DEF n, m, l, k
      <4> QED BY <4>1, <4>2, LimitsAreNat
    <3> QED BY <3>3, <3>5, <2>12 DEF ExposureFits
  <2>18. \A e \in Duels : Follows(duel[e], duel'[e])
    BY <2>2, <2>9, <2>10, RowsFollow DEF MatchInv, HouseMatched
  <2>19. /\ call' \in [Wallets -> RequestRow]
         /\ \A v \in Wallets : call'[v] = call[v] \/ RequestFits(v, call'[v], duel)
    BY <1>1, <1>4, RequestReturns DEF MatchInv
  <2>20. RequestsFit'
    <3>1. clock' \in Nat /\ clock <= clock'
      BY <1>2 DEF MatchInv, MatchTypes
    <3> QED BY <2>14, <2>18, <2>19, <3>1, RequestsKept DEF MatchInv
  <2>21. MatchTypes'
    BY <1>2, <2>10, <2>12, <2>13, <2>14, <2>19 DEF MatchInv, MatchTypes
  <2>22. CardsFit'
    BY <1>2 DEF MatchInv, CardsFit
  <2> QED BY <2>10, <2>16, <2>17, <2>20, <2>21, <2>22 DEF MatchInv
<1> QED BY <1>3, <1>4

(***************************************************************************)
(* The steps of other services on a row.                                   *)
(***************************************************************************)
LEMMA RowMoves ==
  ASSUME MatchInv, NEW d \in Duels, NEW r \in DuelRow, r = duel[d], NEW q \in DuelRow,
         duel' = [duel EXCEPT ![d] = q],
         UNCHANGED <<res, ledger, asset, rec, clock, ticket, behavior, call>>,
         chain' \in [balance : Int, delegated : Int, slot : Nat],
         RowFits(q), ReservationFits(q, res[d], Booked(ledger, d)), Follows(r, q), Quiet(r, q)
  PROVE  MatchInv'
<1>1. duel' \in [Duels -> DuelRow] /\ DuelsFit'
  BY OneRowWritten DEF MatchInv
<1>2. \A e \in Duels : Follows(duel[e], duel'[e])
  BY RowsFollow DEF MatchInv
<1>3. TicketsFit'
  BY TicketsKept DEF MatchInv
<1>4. /\ call' \in [Wallets -> RequestRow]
      /\ \A v \in Wallets : call'[v] = call[v] \/ RequestFits(v, call'[v], duel)
  BY RequestsStay DEF MatchInv
<1>5. RequestsFit'
  <2>1. clock' \in Nat /\ clock <= clock'
    BY DEF MatchInv, MatchTypes
  <2> QED BY <1>1, <1>2, <1>4, <2>1, RequestsKept DEF MatchInv
<1>6. MatchTypes'
  BY <1>1 DEF MatchInv, MatchTypes
<1>7. ExposureFits' /\ CardsFit'
  BY ExposureStays DEF MatchInv, CardsFit
<1> QED BY <1>1, <1>3, <1>5, <1>6, <1>7 DEF MatchInv

LEMMA PlayerDuelMovesStep ==
  ASSUME MatchInv, NEW d \in Duels, PlayerDuelMoves(d), UNCHANGED clock
  PROVE  MatchInv'
<1>1. PICK r \in DuelRow : r = duel[d]
  BY DEF MatchInv, MatchTypes
<1>2. /\ r.mode = "OPEN"
      /\ UNCHANGED <<res, ledger, asset, rec, clock, ticket, behavior, call, chain>>
  BY <1>1 DEF PlayerDuelMoves, treasuryVars
<1>3. RowFits(r) /\ ReservationFits(r, res[d], Booked(ledger, d)) /\ r.version \in Nat
  BY <1>1, DuelFits DEF MatchInv, DuelRow
<1>4. chain' \in [balance : Int, delegated : Int, slot : Nat]
  BY <1>2 DEF MatchInv, MatchTypes
<1>5. CASE r.status = "COMMITTING" /\ ~r.funded /\ duel' = [duel EXCEPT ![d].funded = TRUE]
  <2>1. PICK q : q = [r EXCEPT !.funded = TRUE]
    OBVIOUS
  <2>2. /\ q \in DuelRow /\ q.version = r.version /\ q.status = r.status /\ q.mode = r.mode
        /\ q.creator = r.creator /\ q.opponent = r.opponent /\ q.opened = r.opened
        /\ q.commitBy = r.commitBy /\ q.winner = r.winner
    BY <2>1, FundedWritten
  <2>3. duel' = [duel EXCEPT ![d] = q]
    BY <1>1, <1>5, <2>1 DEF MatchInv, MatchTypes
  <2>4. Follows(r, q) /\ Quiet(r, q)
    BY <2>2 DEF Follows, Quiet, Dead
  <2>5. RowFits(q)
    <3>1. r # NoDuel
      BY <1>5, NoDuelIs
    <3> QED BY <1>3, <2>2, <3>1 DEF RowFits
  <2>6. ReservationFits(q, res[d], Booked(ledger, d))
    <3>1. res[d] = "NONE"
      BY <1>2, <1>3 DEF ReservationFits
    <3> QED BY <1>2, <1>3, <2>2, <3>1 DEF ReservationFits
  <2> QED BY <1>1, <1>2, <1>4, <2>2, <2>3, <2>4, <2>5, <2>6, RowMoves
<1>6. ASSUME NEW to \in {"CANCELLED", "COMMITTING", "FUNDED", "REFUNDING"},
             r.status \in {"WAITING", "MATCHED", "COMMITTING"},
             to = "COMMITTING" => r.status = "MATCHED",
             MoveDuel(d, [duel[d] EXCEPT !.status = to])
      PROVE  MatchInv'
  <2>1. to \in DuelStatuses /\ to \notin {"NONE", "WAITING", "AWAITING_ASSETS", "SETTLING", "SETTLED"}
    BY DEF DuelStatuses
  <2>2. PICK q : q = [[r EXCEPT !.status = to] EXCEPT !.version = @ + 1]
    OBVIOUS
  <2>3. /\ Kept(r, q) /\ q.status = to /\ q.mode = r.mode /\ q.opponent = r.opponent
        /\ q.commitBy = r.commitBy
    BY <2>1, <2>2, StatusWritten
  <2>4. duel' = [duel EXCEPT ![d] = q]
    BY <1>1, <1>6, <2>2 DEF MoveDuel
  <2>5. q \in DuelRow /\ q.version = r.version + 1 /\ q.creator = r.creator
    BY <2>3 DEF Kept
  <2>6. Follows(r, q) /\ Quiet(r, q)
    BY <1>3, <1>6, <2>1, <2>3, <2>5 DEF Follows, Quiet, Dead, LiveForTicket
  <2>7. r.status # "NONE" /\ q.opponent # r.creator
    <3>1. r # NoDuel
      BY <1>6, NoDuelIs
    <3> QED BY <1>3, <1>6, <2>3, <3>1 DEF RowFits
  <2>8. q.status \notin {"NONE", "AWAITING_ASSETS", "SETTLING", "SETTLED"} /\ q.status # "WAITING"
    BY <2>1, <2>3
  <2>9. RowFits(q) /\ ReservationFits(q, res[d], Booked(ledger, d))
    BY <1>2, <1>3, <2>3, <2>7, <2>8, PlayerRowFits
  <2> QED BY <1>1, <1>2, <1>4, <2>4, <2>5, <2>6, <2>9, RowMoves
<1>7. \/ r.status = "COMMITTING" /\ ~r.funded /\ duel' = [duel EXCEPT ![d].funded = TRUE]
      \/ \E to \in {"CANCELLED", "COMMITTING", "FUNDED", "REFUNDING"} :
           /\ r.status \in {"WAITING", "MATCHED", "COMMITTING"}
           /\ to = "COMMITTING" => r.status = "MATCHED"
           /\ MoveDuel(d, [duel[d] EXCEPT !.status = to])
  <2>1. \/ r.status = "COMMITTING" /\ ~r.funded /\ duel' = [duel EXCEPT ![d].funded = TRUE]
        \/ \E to \in CASE r.status = "WAITING" -> {"CANCELLED"}
                       [] r.status = "MATCHED" -> {"COMMITTING"}
                       [] r.status = "COMMITTING" -> {"FUNDED", "CANCELLED", "REFUNDING"}
                       [] OTHER -> {} :
             MoveDuel(d, [duel[d] EXCEPT !.status = to])
    BY <1>1 DEF PlayerDuelMoves
  <2> QED BY <2>1
<1> QED BY <1>5, <1>6, <1>7

LEMMA HouseDuelMovesStep ==
  ASSUME MatchInv, NEW d \in Duels, HouseDuelMoves(d), UNCHANGED <<ticket, behavior, call, clock>>
  PROVE  MatchInv'
<1>1. PICK r \in DuelRow : r = duel[d]
  BY DEF MatchInv, MatchTypes
<1>0. PICK to \in DuelStatuses, winner \in {duel[d].creator, duel[d].opponent, NoWallet} :
        /\ \/ to \in AllowedTransitions[duel[d].status]
           \/ duel[d].status = "CANCELLED" /\ to = RecoveryAlertTarget("CANCELLED")
        /\ to \in {"COMMITTING", "FUNDED"} => FundingAllowed(d)
        /\ to = "SETTLING" => duel[d].opened
        /\ winner # duel[d].winner => to = "AWAITING_ASSETS"
        /\ duel' = [duel EXCEPT ![d].status = to, ![d].winner = winner,
                                ![d].funded = @ \/ to = "FUNDED",
                                ![d].opened = @ \/ to = "AWAITING_ASSETS",
                                ![d].commitBy = IF to = "CANCELLED" THEN -1 ELSE @,
                                ![d].version = @ + 1]
        /\ chain' = CASE to = "FUNDED" -> [chain EXCEPT !.balance = @ - 1, !.delegated = @ - 1]
                      [] to = "REFUNDED" /\ duel[d].funded /\ ~duel[d].opened
                           -> [chain EXCEPT !.balance = @ + 1]
                      [] OTHER -> chain
  BY Zenon DEF HouseDuelMoves
<1>2. /\ to \in AllowedTransitions[r.status]
           \/ (r.status = "CANCELLED" /\ to = RecoveryAlertTarget("CANCELLED"))
      /\ to = "SETTLING" => r.opened
      /\ winner \in {r.creator, r.opponent, NoWallet}
  BY <1>0, <1>1
<1>3. r.mode = "HOUSE" /\ UNCHANGED <<res, ledger, asset, rec>>
  BY <1>1 DEF HouseDuelMoves
<1>4. RowFits(r) /\ ReservationFits(r, res[d], Booked(ledger, d)) /\ res[d] \in ReservationStatuses
  BY <1>1, DuelFits DEF MatchInv
<1>5. chain' \in [balance : Int, delegated : Int, slot : Nat]
  <2>1. PICK c \in [balance : Int, delegated : Int, slot : Nat] : c = chain
    BY DEF MatchInv, MatchTypes
  <2>2. c.balance \in Int /\ c.delegated \in Int
    OBVIOUS
  <2>3. PICK up \in Int, down \in Int, less \in Int :
          up = c.balance + 1 /\ down = c.balance - 1 /\ less = c.delegated - 1
    BY <2>2
  <2>4. \/ chain' = [c EXCEPT !.balance = down, !.delegated = less]
        \/ chain' = [c EXCEPT !.balance = up]
        \/ chain' = c
    <3>1. \/ chain' = [chain EXCEPT !.balance = @ - 1, !.delegated = @ - 1]
          \/ chain' = [chain EXCEPT !.balance = @ + 1]
          \/ chain' = chain
      BY <1>0
    <3> QED BY <2>1, <2>3, <3>1
  <2> QED BY <2>4
<1>6. PICK q : q = MovedRow(r, to, winner)
  OBVIOUS
<1>7. /\ q \in DuelRow /\ q.version = r.version + 1 /\ q.status = to /\ q.mode = r.mode
      /\ q.creator = r.creator /\ q.opponent = r.opponent /\ q.winner = winner
      /\ q.opened = (r.opened \/ to = "AWAITING_ASSETS")
  BY <1>2, <1>6, HouseRowWritten
<1>8. duel' = [duel EXCEPT ![d] = q]
  BY <1>0, <1>1, <1>6 DEF MatchInv, MatchTypes, MovedRow
<1>9. RowFits(q) /\ ReservationFits(q, res[d], Booked(ledger, d)) /\ Follows(r, q) /\ Quiet(r, q)
  <2>1. q.status = to /\ q.mode = r.mode /\ q.creator = r.creator /\ q.opponent = r.opponent
    BY <1>7
  <2>2. q \in DuelRow /\ q.version = r.version + 1
    BY <1>7
  <2>3. q.opened = (r.opened \/ to = "AWAITING_ASSETS")
    BY <1>7
  <2> QED BY <1>2, <1>3, <1>4, <2>1, <2>2, <2>3, HouseRowFits
<1> QED BY <1>1, <1>3, <1>5, <1>7, <1>8, <1>9, RowMoves

(***************************************************************************)
(* The steps of the treasury.                                              *)
(***************************************************************************)
LEMMA TreasuryStep ==
  ASSUME MatchInv, UNCHANGED <<duel, ticket, behavior, call, clock>>,
         res' \in [Duels -> ReservationStatuses], ledger' \in Seq(EntryRow),
         asset' \in [Assets -> AssetRow], rec' \in RecRow,
         chain' \in [balance : Int, delegated : Int, slot : Nat],
         DuelsFit', ExposureFits', CardsFit'
  PROVE  MatchInv'
<1>1. MatchTypes'
  BY DEF MatchInv, MatchTypes
<1>2. TicketsFit'
  BY DEF MatchInv, TicketsFit, TicketsAgreeWithDuels, TicketsOf
<1>3. RequestsFit'
  <2>1. /\ call' \in [Wallets -> RequestRow]
        /\ \A v \in Wallets : call'[v] = call[v] \/ RequestFits(v, call'[v], duel)
    BY RequestsStay DEF MatchInv
  <2>2. clock' \in Nat /\ clock <= clock' /\ duel' \in [Duels -> DuelRow]
    BY DEF MatchInv, MatchTypes
  <2> QED BY <2>1, <2>2, RowsStay, RequestsKept DEF MatchInv
<1> QED BY <1>1, <1>2, <1>3 DEF MatchInv

LEMMA LossIsNat ==
  ASSUME NEW l \in Seq(EntryRow), NEW day
  PROVE  Loss(l, day) \in Nat
<1>1. IsFiniteSet(DOMAIN l) /\ LossOn(l, day) \in SUBSET DOMAIN l
  BY LedgerIsFinite
<1>2. \A i \in DOMAIN l : l[i].amount \in Nat
  <2>1. \A i \in DOMAIN l : l[i] \in EntryRow
    BY LedgerIsFinite
  <2> QED BY <2>1 DEF EntryRow
<1>3. Total(l, LossOn(l, day)) \in Nat
  BY <1>1, <1>2, TotalSplits
<1> QED BY <1>3 DEF Loss

LEMMA ReservationEnds ==
  ASSUME NEW d \in Duels, NEW r \in DuelRow, NEW s, NEW B, NEW C, NEW to, RowFits(r),
         ReservationFits(r, s, B), s \in ACTIVE_HOUSE_RESERVATION_STATUSES,
         to = ReservationTarget(r), to # "NONE",
         \/ to = "RELEASED" /\ C = B \cup {"RESERVATION_RELEASED"}
         \/ to = "FUNDED" /\ C = B \cup {"HOUSE_FUNDING_COMMITTED"}
         \/ to = "SETTLED" /\ C = B \cup {Resolution(r)}
         \/ to \in {"RECOVERY_REQUIRED", "SETTLEMENT_PENDING"} /\ C = B
  PROVE  ReservationFits(r, to, C)
<1>1. /\ "PLAYER_WIN_LOSS" \notin B /\ "HOUSE_PACK_COST" \notin B /\ r.mode = "HOUSE"
      /\ s \notin {"NONE", "RELEASED", "SETTLED"}
  BY DEF ReservationFits, ACTIVE_HOUSE_RESERVATION_STATUSES, DuelRow
<1>0. /\ Resolution(r) \in {"PLAYER_WIN_LOSS", "HOUSE_PACK_COST"} =>
           r.status \in {"SETTLED", "REFUNDED"}
      /\ Resolution(r) = "RELEASED" => r.status \in {"CANCELLED", "REFUNDED"}
  BY DEF Resolution
<1>2. to = "SETTLED" <=> Resolution(r) \in {"PLAYER_WIN_LOSS", "HOUSE_PACK_COST"}
  BY <1>0 DEF ReservationTarget
<1>3. to = "RELEASED" <=> Resolution(r) = "RELEASED"
  BY <1>0 DEF ReservationTarget
<1>4. Resolution(r) = "RELEASED" => r.status \in {"CANCELLED", "REFUNDED"} /\ ~r.opened
  BY DEF Resolution
<1>5. Resolution(r) \in {"PLAYER_WIN_LOSS", "HOUSE_PACK_COST"} =>
        /\ r.status \in {"SETTLED", "REFUNDED"} /\ r.opened
  BY DEF Resolution, RowFits
<1>6. r.status \in ACTIVE_HOUSE_DUEL => to \in ACTIVE_HOUSE_RESERVATION_STATUSES
  <2>1. r.status \in ACTIVE_HOUSE_DUEL => r.status \notin {"SETTLED", "REFUNDED", "CANCELLED"}
    BY DEF ACTIVE_HOUSE_DUEL
  <2>2. \/ to \in {"RELEASED", "SETTLED"}
        \/ to \in ACTIVE_HOUSE_RESERVATION_STATUSES
    BY DEF ACTIVE_HOUSE_RESERVATION_STATUSES
  <2> QED BY <2>1, <2>2, <1>2, <1>3, <1>4, <1>5
<1>7. CASE to = "SETTLED"
  <2>1. C = B \cup {Resolution(r)} /\ Resolution(r) \in {"PLAYER_WIN_LOSS", "HOUSE_PACK_COST"}
    BY <1>2, <1>7
  <2>2. PICK n : n = Resolution(r)
    OBVIOUS
  <2>3. "PLAYER_WIN_LOSS" \in C => n = "PLAYER_WIN_LOSS"
    BY <1>1, <2>1, <2>2
  <2> QED BY <1>1, <1>5, <1>6, <1>7, <2>1, <2>2, <2>3 DEF ReservationFits
<1>8. CASE to # "SETTLED"
  <2>1. "PLAYER_WIN_LOSS" \notin C /\ "HOUSE_PACK_COST" \notin C
    BY <1>1, <1>8
  <2>2. to = "RELEASED" => "RESERVATION_RELEASED" \in C
    OBVIOUS
  <2> QED BY <1>1, <1>3, <1>4, <1>6, <1>8, <2>1, <2>2 DEF ReservationFits
<1> QED BY <1>7, <1>8

\* A reservation that ends leaves the exposure in the step that books its loss.
LEMMA ExposureMoves ==
  ASSUME MatchTypes, ExposureFits, NEW d \in Duels, d \in ActiveReservations, NEW to,
         res' = [res EXCEPT ![d] = to], DailyLoss \in Nat, DailyLoss' \in Nat,
         DailyLoss' <= DailyLoss + 1,
         to \in ACTIVE_HOUSE_RESERVATION_STATUSES => DailyLoss' = DailyLoss,
         \A i \in DOMAIN ledger' : ledger'[i].day <= clock' \div DayLength
  PROVE  ExposureFits'
<1>1. /\ res'[d] = to /\ \A e \in Duels : e # d => res'[e] = res[e]
  BY DEF MatchTypes
<1>2. IsFiniteSet(ActiveReservations) /\ Cardinality(ActiveReservations) \in Nat
  BY FS_CardinalityType DEF ExposureFits
<1>3. DailyLoss + Cardinality(ActiveReservations) <= DailyLossLimit
  BY DEF ExposureFits, ExposureWithinDailyLimit
<1>4. CASE to \in ACTIVE_HOUSE_RESERVATION_STATUSES
  <2>1. ActiveReservations' = ActiveReservations
    BY <1>1, <1>4 DEF ActiveReservations
  <2>2. DailyLoss' = DailyLoss
    BY <1>4
  <2>3. ExposureWithinDailyLimit'
    BY <1>3, <2>1, <2>2 DEF ExposureWithinDailyLimit
  <2> QED BY <1>2, <2>1, <2>3 DEF ExposureFits
<1>5. CASE to \notin ACTIVE_HOUSE_RESERVATION_STATUSES
  <2>1. ActiveReservations' = ActiveReservations \ {d}
    BY <1>1, <1>5 DEF ActiveReservations
  <2>2. /\ IsFiniteSet(ActiveReservations')
        /\ Cardinality(ActiveReservations') = Cardinality(ActiveReservations) - 1
    BY <1>2, <2>1, FS_RemoveElement
  <2>3. ExposureWithinDailyLimit'
    <3> DEFINE n == Cardinality(ActiveReservations)
               m == Cardinality(ActiveReservations')
               l == DailyLoss
               k == DailyLoss'
    <3>1. n \in Nat /\ m = n - 1 /\ l \in Nat /\ k \in Nat /\ k <= l + 1 /\ l + n <= DailyLossLimit
      BY <1>2, <1>3, <2>2
    <3>2. ExposureWithinDailyLimit' <=> k + m <= DailyLossLimit
      BY DEF ExposureWithinDailyLimit
    <3> HIDE DEF n, m, l, k
    <3> QED BY <3>1, <3>2, LimitsAreNat
  <2> QED BY <2>2, <2>3 DEF ExposureFits
<1> QED BY <1>4, <1>5

\* A card that was not known becomes a held one; the others are found.
LEMMA CardsAcquired ==
  ASSUME MatchTypes, CardsFit, UNCHANGED rec, NEW A \in SUBSET Assets,
         asset' = [a \in Assets |-> IF a \in A THEN Acquired(a) ELSE asset[a]]
  PROVE  asset' \in [Assets -> AssetRow] /\ CardsFit'
<1>1. PICK held \in AssetRow : held = [NoAsset EXCEPT !.status = "HELD"]
  BY DEF NoAsset, AssetRow
<1>2. held.version = 0 /\ held.status = "HELD" /\ held.disposition = "MANUAL_REVIEW"
  BY <1>1 DEF NoAsset
<1>3. \A a \in Assets : asset'[a] = asset[a] \/ (asset[a].status = "NONE" /\ asset'[a] = held)
  BY <1>1 DEF Acquired
<1>4. asset' \in [Assets -> AssetRow]
  BY <1>1, <1>3 DEF MatchTypes
<1>5. \A a \in Assets : CardFits(asset'[a])
  BY <1>2, <1>3 DEF CardsFit, CardFits
<1>6. ASSUME NEW t \in rec.todo
      PROVE  ReadingFits(t[2], asset'[t[1]])
  <2>1. t[1] \in Assets
    BY DEF MatchTypes, RecRow
  <2>2. ReadingFits(t[2], asset[t[1]]) /\ CardFits(asset[t[1]])
    BY <2>1 DEF CardsFit
  <2>3. CASE asset'[t[1]] = asset[t[1]]
    BY <2>2, <2>3
  <2>4. CASE asset[t[1]].status = "NONE" /\ asset'[t[1]] = held
    BY <1>2, <2>2, <2>4 DEF ReadingFits, CardFits
  <2> QED BY <1>3, <2>1, <2>3, <2>4
<1> QED BY <1>4, <1>5, <1>6 DEF CardsFit

LEMMA ReconcileLifecycleStep ==
  ASSUME MatchInv, NEW d \in Duels, ReconcileLifecycle(d), UNCHANGED <<ticket, behavior, call, clock>>
  PROVE  MatchInv'
<1>1. PICK r \in DuelRow : r = duel[d]
  BY DEF MatchInv, MatchTypes
<1>2. PICK to : to = ReservationTarget(r)
  OBVIOUS
<1>3. /\ d \in ActiveReservations /\ to # "NONE" /\ res' = [res EXCEPT ![d] = to]
      /\ ledger' = TerminalLedger(d, to) /\ UNCHANGED <<duel, rec, chain>>
  BY <1>1, <1>2 DEF ReconcileLifecycle
<1>4. /\ RowFits(r) /\ ReservationFits(r, res[d], Booked(ledger, d))
      /\ res[d] \in ACTIVE_HOUSE_RESERVATION_STATUSES
  BY <1>1, <1>3, DuelFits DEF MatchInv, ActiveReservations
<1>5. to \in {"RELEASED", "SETTLED", "RECOVERY_REQUIRED", "FUNDED", "SETTLEMENT_PENDING"}
  BY <1>2, <1>3 DEF ReservationTarget
<1>6. to = "SETTLED" => Resolution(r) \in {"PLAYER_WIN_LOSS", "HOUSE_PACK_COST"}
  BY <1>2 DEF ReservationTarget
<1>7. \/ to \in {"RECOVERY_REQUIRED", "SETTLEMENT_PENDING"} /\ ledger' = ledger
      \/ \E ty \in EntryTypes, key \in Int :
           /\ Books(ty, d, key)
           /\ \/ to = "RELEASED" /\ ty = "RESERVATION_RELEASED"
              \/ to = "FUNDED" /\ ty = "HOUSE_FUNDING_COMMITTED"
              \/ to = "SETTLED" /\ ty = Resolution(r)
  <2>1. PICK key \in Int : key = 0
    OBVIOUS
  <2>2. CASE to = "RELEASED"
    <3>1. PICK ty \in EntryTypes : ty = "RESERVATION_RELEASED"
      BY DEF EntryTypes
    <3>2. Books(ty, d, key)
      BY <1>3, <2>1, <2>2, <3>1 DEF TerminalLedger, Books
    <3> QED BY <2>2, <3>1, <3>2
  <2>3. CASE to = "FUNDED"
    <3>1. PICK ty \in EntryTypes : ty = "HOUSE_FUNDING_COMMITTED"
      BY DEF EntryTypes
    <3>2. Books(ty, d, key)
      BY <1>3, <2>1, <2>3, <3>1 DEF TerminalLedger, Books
    <3> QED BY <2>3, <3>1, <3>2
  <2>4. CASE to = "SETTLED"
    <3>1. PICK ty \in EntryTypes : ty = Resolution(r)
      BY <1>6, <2>4 DEF EntryTypes
    <3>2. Books(ty, d, key)
      BY <1>1, <1>3, <2>1, <2>4, <3>1 DEF TerminalLedger, Books
    <3> QED BY <2>4, <3>1, <3>2
  <2>5. CASE to \in {"RECOVERY_REQUIRED", "SETTLEMENT_PENDING"}
    BY <1>3, <2>5 DEF TerminalLedger
  <2> QED BY <1>5, <2>2, <2>3, <2>4, <2>5
<1>8. /\ ledger' \in Seq(EntryRow)
      /\ \A i \in DOMAIN ledger' : ledger'[i].day <= clock' \div DayLength
      /\ DailyLoss \in Nat /\ DailyLoss' \in Nat /\ DailyLoss' <= DailyLoss + 1
      /\ to \in ACTIVE_HOUSE_RESERVATION_STATUSES => DailyLoss' = DailyLoss
      /\ \A e : e # d => Booked(ledger', e) = Booked(ledger, e)
      /\ \/ to = "RELEASED" /\ Booked(ledger', d) = Booked(ledger, d) \cup {"RESERVATION_RELEASED"}
         \/ to = "FUNDED" /\ Booked(ledger', d) = Booked(ledger, d) \cup {"HOUSE_FUNDING_COMMITTED"}
         \/ to = "SETTLED" /\ Booked(ledger', d) = Booked(ledger, d) \cup {Resolution(r)}
         \/ to \in {"RECOVERY_REQUIRED", "SETTLEMENT_PENDING"} /\ Booked(ledger', d) = Booked(ledger, d)
  <2>1. CASE to \in {"RECOVERY_REQUIRED", "SETTLEMENT_PENDING"} /\ ledger' = ledger
    <3>1. DailyLoss' = DailyLoss /\ DailyLoss \in Nat
      <4>1. ledger \in Seq(EntryRow)
        BY DEF MatchInv, MatchTypes
      <4>2. Loss(ledger, Today(clock)) \in Nat
        BY <4>1, LossIsNat
      <4> QED BY <2>1, <4>2, DailyLossIsTotal
    <3>2. /\ ledger' \in Seq(EntryRow)
          /\ \A i \in DOMAIN ledger' : ledger'[i].day <= clock' \div DayLength
      BY <2>1 DEF MatchInv, MatchTypes, ExposureFits
    <3> QED BY <2>1, <3>1, <3>2
  <2>2. CASE \E ty \in EntryTypes, key \in Int :
               /\ Books(ty, d, key)
               /\ \/ to = "RELEASED" /\ ty = "RESERVATION_RELEASED"
                  \/ to = "FUNDED" /\ ty = "HOUSE_FUNDING_COMMITTED"
                  \/ to = "SETTLED" /\ ty = Resolution(r)
    <3>1. PICK ty \in EntryTypes, key \in Int :
            /\ Books(ty, d, key)
            /\ \/ to = "RELEASED" /\ ty = "RESERVATION_RELEASED"
               \/ to = "FUNDED" /\ ty = "HOUSE_FUNDING_COMMITTED"
               \/ to = "SETTLED" /\ ty = Resolution(r)
      BY <2>2
    <3>2. d \in Duels \cup Assets /\ UNCHANGED clock
      OBVIOUS
    <3>3. MatchTypes /\ ExposureFits
      BY DEF MatchInv
    <3>4. /\ ledger' \in Seq(EntryRow)
          /\ \A i \in DOMAIN ledger' : ledger'[i].day <= clock' \div DayLength
          /\ DailyLoss \in Nat /\ DailyLoss' \in Nat /\ DailyLoss' <= DailyLoss + 1
          /\ ty # "PLAYER_WIN_LOSS" => DailyLoss' = DailyLoss
          /\ \A e : Booked(ledger', e) = Booked(ledger, e) \cup (IF e = d THEN {ty} ELSE {})
      BY <3>1, <3>2, <3>3, LedgerGrows
    <3>5. to \in ACTIVE_HOUSE_RESERVATION_STATUSES => ty # "PLAYER_WIN_LOSS"
      BY <3>1 DEF ACTIVE_HOUSE_RESERVATION_STATUSES
    <3>6. \A e : e # d => Booked(ledger', e) = Booked(ledger, e)
      BY <3>4
    <3>7. Booked(ledger', d) = Booked(ledger, d) \cup {ty}
      BY <3>4
    <3> QED BY <3>1, <3>4, <3>5, <3>6, <3>7
  <2> QED BY <1>7, <2>1, <2>2
<1>9. ReservationFits(r, to, Booked(ledger', d))
  <2>1. PICK B, C : B = Booked(ledger, d) /\ C = Booked(ledger', d)
    OBVIOUS
  <2>2. \/ to = "RELEASED" /\ C = B \cup {"RESERVATION_RELEASED"}
        \/ to = "FUNDED" /\ C = B \cup {"HOUSE_FUNDING_COMMITTED"}
        \/ to = "SETTLED" /\ C = B \cup {Resolution(r)}
        \/ to \in {"RECOVERY_REQUIRED", "SETTLEMENT_PENDING"} /\ C = B
    BY <1>8, <2>1
  <2>3. ReservationFits(r, res[d], B) /\ to # "NONE"
    BY <1>3, <1>4, <2>1
  <2>4. ReservationFits(r, to, C)
    BY <1>2, <1>4, <2>2, <2>3, ReservationEnds
  <2> QED BY <2>1, <2>4
<1>10. /\ res' \in [Duels -> ReservationStatuses] /\ res'[d] = to
       /\ \A e \in Duels : e # d => res'[e] = res[e]
  BY <1>3, <1>5 DEF MatchInv, MatchTypes, ReservationStatuses
<1>11. DuelsFit'
  <2>1. ASSUME NEW e \in Duels
        PROVE  RowFits(duel'[e]) /\ ReservationFits(duel'[e], res'[e], Booked(ledger', e))
    <3>1. CASE e = d
      BY <3>1, <1>1, <1>3, <1>4, <1>9, <1>10
    <3>2. CASE e # d
      BY <3>2, <1>3, <1>8, <1>10, DuelFits DEF MatchInv
    <3> QED BY <3>1, <3>2
  <2> QED BY <2>1 DEF DuelsFit
<1>12. ExposureFits'
  BY <1>3, <1>8, ExposureMoves DEF MatchInv
<1>13. asset' \in [Assets -> AssetRow] /\ CardsFit'
  <2>1. PICK A \in SUBSET Assets : A = {a \in Assets : a[1] = d /\ a[2] \in InventorySides(duel[d])}
    OBVIOUS
  <2>2. asset' = [a \in Assets |-> IF a \in A THEN Acquired(a) ELSE asset[a]]
    <3>1. asset' = [a \in Assets |-> IF a[1] = d /\ a[2] \in InventorySides(duel[d])
                                     THEN Acquired(a) ELSE asset[a]]
      BY DEF ReconcileLifecycle
    <3> QED BY <2>1, <3>1
  <2> QED BY <1>3, <2>2, CardsAcquired DEF MatchInv
<1>14. /\ rec' \in RecRow /\ chain' \in [balance : Int, delegated : Int, slot : Nat]
  BY <1>3 DEF MatchInv, MatchTypes
<1> QED BY <1>3, <1>8, <1>10, <1>11, <1>12, <1>13, <1>14, TreasuryStep

(***************************************************************************)
(* The steps on cards, snapshots and the market.                           *)
(***************************************************************************)
\* What may be booked of a card.
CardBooked ==
  \/ UNCHANGED ledger
  \/ \E ty \in EntryTypes \ {"PLAYER_WIN_LOSS", "HOUSE_PACK_COST"}, a \in Assets, key \in Int :
       Books(ty, a, key)

LEMMA CardStep ==
  ASSUME MatchInv, UNCHANGED <<duel, res, ticket, behavior, call, clock>>, CardBooked,
         asset' \in [Assets -> AssetRow], rec' \in RecRow,
         chain' \in [balance : Int, delegated : Int, slot : Nat], CardsFit'
  PROVE  MatchInv'
<1>1. MatchTypes /\ ExposureFits
  BY DEF MatchInv
<1>2. res' \in [Duels -> ReservationStatuses]
  BY DEF MatchInv, MatchTypes
<1>3. CASE UNCHANGED ledger
  <2>1. ledger' \in Seq(EntryRow) /\ DuelsFit'
    BY <1>3 DEF MatchInv, MatchTypes, DuelsFit
  <2>2. ExposureFits'
    BY <1>1, <1>3, ExposureStays
  <2> QED BY <1>2, <2>1, <2>2, TreasuryStep
<1>4. ASSUME NEW ty \in EntryTypes \ {"PLAYER_WIN_LOSS", "HOUSE_PACK_COST"}, NEW a \in Assets,
             NEW key \in Int, Books(ty, a, key)
      PROVE  MatchInv'
  <2>1. a \in Duels \cup Assets /\ UNCHANGED clock
    OBVIOUS
  <2>2. /\ ledger' \in Seq(EntryRow)
        /\ \A i \in DOMAIN ledger' : ledger'[i].day <= clock' \div DayLength
        /\ ty # "PLAYER_WIN_LOSS" => DailyLoss' = DailyLoss
        /\ \A e : Booked(ledger', e) = Booked(ledger, e) \cup (IF e = a THEN {ty} ELSE {})
    BY <1>1, <1>4, <2>1, LedgerGrows
  <2>3. ASSUME NEW d \in Duels
        PROVE  RowFits(duel'[d]) /\ ReservationFits(duel'[d], res'[d], Booked(ledger', d))
    <3>1. PICK B, C : B = Booked(ledger, d) /\ C = Booked(ledger', d)
      OBVIOUS
    <3>2. B \subseteq C /\ C \cap {"PLAYER_WIN_LOSS", "HOUSE_PACK_COST"} \subseteq B
      BY <2>2, <3>1
    <3>3. RowFits(duel[d]) /\ ReservationFits(duel[d], res[d], B)
      BY <3>1, DuelFits DEF MatchInv
    <3>4. ReservationFits(duel[d], res[d], C)
      BY <3>2, <3>3, QuietEntry
    <3> QED BY <3>1, <3>3, <3>4
  <2>4. DuelsFit'
    BY <2>3 DEF DuelsFit
  <2>5. ActiveReservations' = ActiveReservations /\ DailyLoss' = DailyLoss
    BY <2>2 DEF ActiveReservations
  <2>6. ExposureFits'
    BY <1>1, <2>2, <2>5 DEF ExposureFits, ExposureWithinDailyLimit
  <2> QED BY <1>2, <2>2, <2>4, <2>6, TreasuryStep
<1> QED BY <1>3, <1>4 DEF CardBooked

\* A step that writes no card.
LEMMA ReadingStep ==
  ASSUME MatchInv, UNCHANGED <<duel, res, ticket, behavior, call, clock, ledger, asset>>,
         rec' \in RecRow, chain' \in [balance : Int, delegated : Int, slot : Nat],
         \A t \in rec'.todo : ReadingFits(t[2], asset[t[1]])
  PROVE  MatchInv'
<1>1. CardsFit'
  BY DEF MatchInv, CardsFit
<1>2. asset' \in [Assets -> AssetRow] /\ CardBooked
  BY DEF MatchInv, MatchTypes, CardBooked
<1> QED BY <1>1, <1>2, CardStep

\* A row keeps its version only with its status.
Turns(x, q) == q.version > x.version \/ (q.version = x.version /\ q.status = x.status)

LEMMA OneCardWritten ==
  ASSUME MatchTypes, CardsFit, NEW a \in Assets, NEW x \in AssetRow, x = asset[a], NEW q \in AssetRow,
         asset' = [asset EXCEPT ![a] = q], CardFits(q), Turns(x, q), rec'.todo \subseteq rec.todo
  PROVE  asset' \in [Assets -> AssetRow] /\ CardsFit'
<1>1. /\ asset' \in [Assets -> AssetRow] /\ asset'[a] = q
      /\ \A b \in Assets : b # a => asset'[b] = asset[b]
  BY DEF MatchTypes
<1>2. \A b \in Assets : CardFits(asset'[b])
  BY <1>1 DEF CardsFit
<1>3. ASSUME NEW t \in rec'.todo
      PROVE  ReadingFits(t[2], asset'[t[1]])
  <2>1. t[1] \in Assets /\ t[2] \in AssetRow /\ ReadingFits(t[2], asset[t[1]])
    BY DEF MatchTypes, RecRow, CardsFit
  <2>2. CASE t[1] = a
    <3>1. x.version \in Nat /\ q.version \in Nat /\ t[2].version \in Nat
      BY <2>1 DEF AssetRow
    <3> QED BY <1>1, <2>1, <2>2, <3>1 DEF ReadingFits, Turns
  <2>3. CASE t[1] # a
    BY <1>1, <2>1, <2>3
  <2> QED BY <2>2, <2>3
<1> QED BY <1>1, <1>2, <1>3 DEF CardsFit

\* A card's row is written with its version counted.
Touched(f) == [f EXCEPT !.version = @ + 1]

LEMMA CardTouched ==
  ASSUME NEW f \in AssetRow, NEW q, q = Touched(f)
  PROVE  /\ q \in AssetRow /\ q.version = f.version + 1 /\ q.status = f.status
         /\ q.disposition = f.disposition /\ q.listing = f.listing /\ q.quoted = f.quoted
<1>1. PICK v \in Nat : v = f.version + 1
  BY DEF AssetRow
<1>2. q = [f EXCEPT !.version = v]
  BY <1>1 DEF Touched
<1> QED BY <1>1, <1>2 DEF AssetRow

\* A card that is held, listed or under review is written and touched.
LEMMA TouchStep ==
  ASSUME MatchInv, NEW a \in Assets, NEW x \in AssetRow, x = asset[a], NEW f \in AssetRow,
         Touch(a, f), UNCHANGED <<duel, res, ticket, behavior, call, clock, rec>>, CardBooked,
         chain' \in [balance : Int, delegated : Int, slot : Nat],
         f.version = x.version, f.status # "NONE", f.quoted = x.quoted,
         f.disposition \in {"BUYBACK", "LIST"} \/ f.status = "DISPOSED" => x.quoted
  PROVE  MatchInv'
<1>1. PICK q : q = Touched(f)
  OBVIOUS
<1>2. /\ q \in AssetRow /\ q.version = f.version + 1 /\ q.status = f.status
      /\ q.disposition = f.disposition /\ q.quoted = f.quoted
  BY <1>1, CardTouched
<1>3. asset' = [asset EXCEPT ![a] = q]
  BY <1>1 DEF Touch, Touched
<1>4. CardFits(q)
  BY <1>2 DEF CardFits
<1>5. Turns(x, q)
  <2>1. x.version \in Nat
    BY DEF AssetRow
  <2> QED BY <1>2, <2>1 DEF Turns
<1>6. asset' \in [Assets -> AssetRow] /\ CardsFit'
  <2>1. rec'.todo \subseteq rec.todo /\ MatchTypes /\ CardsFit
    BY DEF MatchInv
  <2> QED BY <1>2, <1>3, <1>4, <1>5, <2>1, OneCardWritten
<1>7. rec' \in RecRow
  BY DEF MatchInv, MatchTypes
<1> QED BY <1>6, <1>7, CardStep

LEMMA CardIs ==
  ASSUME MatchInv, NEW a \in Assets
  PROVE  asset[a] \in AssetRow /\ CardFits(asset[a])
BY DEF MatchInv, MatchTypes, CardsFit

LEMMA QuoteCardStep ==
  ASSUME MatchInv, NEW a \in Assets, QuoteCard(a), UNCHANGED <<ticket, behavior, call, clock>>
  PROVE  MatchInv'
<1>1. PICK x \in AssetRow : x = asset[a] /\ CardFits(x)
  BY CardIs
<1>2. PICK q : q = [x EXCEPT !.quoted = TRUE]
  OBVIOUS
<1>3. /\ q \in AssetRow /\ q.version = x.version /\ q.status = x.status /\ q.quoted = TRUE
      /\ q.disposition = x.disposition
  BY <1>2 DEF AssetRow
<1>4. asset' = [asset EXCEPT ![a] = q] /\ UNCHANGED <<duel, res, ledger, rec, chain>>
  BY <1>1, <1>2 DEF QuoteCard, MatchInv, MatchTypes
<1>5. CardFits(q) /\ Turns(x, q)
  BY <1>1, <1>3 DEF CardFits, Turns
<1>6. asset' \in [Assets -> AssetRow] /\ CardsFit'
  <2>1. rec'.todo \subseteq rec.todo /\ MatchTypes /\ CardsFit
    BY <1>4 DEF MatchInv
  <2> QED BY <1>1, <1>3, <1>4, <1>5, <2>1, OneCardWritten
<1>7. rec' \in RecRow /\ chain' \in [balance : Int, delegated : Int, slot : Nat] /\ CardBooked
  BY <1>4 DEF MatchInv, MatchTypes, CardBooked
<1> QED BY <1>4, <1>6, <1>7, CardStep

LEMMA SetDispositionStep ==
  ASSUME MatchInv, NEW a \in Assets, SetDisposition(a), UNCHANGED <<ticket, behavior, call, clock>>
  PROVE  MatchInv'
<1>1. PICK x \in AssetRow : x = asset[a] /\ CardFits(x)
  BY CardIs
<1>2. PICK requested \in {"HOLD", "BUYBACK", "LIST"}, n \in Listings :
        /\ asset[a].status \notin {"NONE", "DISPOSED"}
        /\ Touch(a, [asset[a] EXCEPT !.disposition = DispositionDecision(a, requested),
             !.listing = IF DispositionDecision(a, requested) = "LIST" THEN "LISTED" ELSE @,
             !.status = IF DispositionDecision(a, requested) = "LIST" THEN "LISTED" ELSE @])
        /\ ledger' = AppendLedger(ledger, Entry("INVENTORY_DISPOSITION_SET", a,
                       IF DispositionDecision(a, requested) = "LIST" THEN n ELSE -n, 1))
        /\ UNCHANGED <<duel, res, rec, chain>>
  BY DEF SetDisposition
<1>3. PICK decided : decided = DispositionDecision(a, requested)
  OBVIOUS
<1>4. /\ decided \in {"MANUAL_REVIEW", "HOLD", "BUYBACK", "LIST"}
      /\ decided \in {"BUYBACK", "LIST"} => x.quoted
  BY <1>1, <1>3 DEF DispositionDecision
<1>5. PICK ls \in {"UNLISTED", "LISTED", "SOLD"}, st \in {"NONE", "HELD", "LISTED", "DISPOSED", "RECONCILIATION_REQUIRED"} :
        /\ ls = IF decided = "LIST" THEN "LISTED" ELSE x.listing
        /\ st = IF decided = "LIST" THEN "LISTED" ELSE x.status
  BY DEF AssetRow
<1>6. PICK f : f = [x EXCEPT !.disposition = decided, !.listing = ls, !.status = st]
  OBVIOUS
<1>7. /\ f \in AssetRow /\ f.version = x.version /\ f.quoted = x.quoted
      /\ f.disposition = decided /\ f.status = st
  BY <1>4, <1>6 DEF AssetRow
<1>8. Touch(a, f)
  BY <1>1, <1>2, <1>3, <1>5, <1>6 DEF Touch
<1>9. st \notin {"NONE", "DISPOSED"}
  BY <1>1, <1>2, <1>5
<1>10. CardBooked
  <2>1. PICK key \in Int : key = IF decided = "LIST" THEN n ELSE -n
    BY LimitsAreNat DEF Listings
  <2>2. PICK ty \in EntryTypes \ {"PLAYER_WIN_LOSS", "HOUSE_PACK_COST"} : ty = "INVENTORY_DISPOSITION_SET"
    BY DEF EntryTypes
  <2>3. Books(ty, a, key)
    BY <1>2, <1>3, <2>1, <2>2 DEF Books
  <2> QED BY <2>3 DEF CardBooked
<1>11. chain' \in [balance : Int, delegated : Int, slot : Nat]
  BY <1>2 DEF MatchInv, MatchTypes
<1>12. /\ f.status # "NONE"
       /\ f.disposition \in {"BUYBACK", "LIST"} \/ f.status = "DISPOSED" => x.quoted
  BY <1>4, <1>7, <1>9
<1> QED BY <1>1, <1>2, <1>7, <1>8, <1>10, <1>11, <1>12, TouchStep

LEMMA DelistInventoryStep ==
  ASSUME MatchInv, NEW a \in Assets, DelistInventory(a), UNCHANGED <<ticket, behavior, call, clock>>
  PROVE  MatchInv'
<1>1. PICK x \in AssetRow : x = asset[a] /\ CardFits(x)
  BY CardIs
<1>2. PICK n \in Listings :
        /\ Touch(a, [asset[a] EXCEPT !.listing = "UNLISTED", !.status = "HELD"])
        /\ ledger' = AppendLedger(ledger, Entry("INVENTORY_DISPOSITION_SET", a, -MaxListings - n, 1))
  BY DEF DelistInventory
<1>3. UNCHANGED <<duel, res, rec, chain>>
  BY DEF DelistInventory
<1>4. PICK f : f = [x EXCEPT !.listing = "UNLISTED", !.status = "HELD"]
  OBVIOUS
<1>5. /\ f \in AssetRow /\ f.version = x.version /\ f.quoted = x.quoted
      /\ f.disposition = x.disposition /\ f.status = "HELD"
  BY <1>4 DEF AssetRow
<1>6. Touch(a, f)
  BY <1>1, <1>2, <1>4
<1>7. CardBooked
  <2>1. PICK key \in Int : key = -MaxListings - n
    BY LimitsAreNat DEF Listings
  <2>2. PICK ty \in EntryTypes \ {"PLAYER_WIN_LOSS", "HOUSE_PACK_COST"} : ty = "INVENTORY_DISPOSITION_SET"
    BY DEF EntryTypes
  <2>3. Books(ty, a, key)
    BY <1>2, <2>1, <2>2 DEF Books
  <2> QED BY <2>3 DEF CardBooked
<1>8. chain' \in [balance : Int, delegated : Int, slot : Nat]
  BY <1>3 DEF MatchInv, MatchTypes
<1>9. /\ f.status # "NONE"
      /\ f.disposition \in {"BUYBACK", "LIST"} \/ f.status = "DISPOSED" => x.quoted
  BY <1>1, <1>5 DEF CardFits
<1> QED BY <1>1, <1>3, <1>5, <1>6, <1>7, <1>8, <1>9, TouchStep

LEMMA CompleteDispositionStep ==
  ASSUME MatchInv, NEW a \in Assets, CompleteDisposition(a), UNCHANGED <<ticket, behavior, call, clock>>
  PROVE  MatchInv'
<1>1. PICK x \in AssetRow : x = asset[a] /\ CardFits(x)
  BY CardIs
<1>2. /\ UNCHANGED <<duel, res, rec>> /\ x.disposition \in {"LIST", "BUYBACK"}
      /\ UNCHANGED chain \/ chain' = [chain EXCEPT !.balance = @ + 1]
      /\ Touch(a, [asset[a] EXCEPT !.status = "DISPOSED",
                     !.listing = IF asset[a].disposition = "LIST" THEN "SOLD" ELSE "UNLISTED"])
      /\ ledger' = AppendLedger(ledger, Entry("INVENTORY_DISPOSED", a, 0, 1))
  BY <1>1 DEF CompleteDisposition
<1>3. PICK ls \in {"UNLISTED", "LISTED", "SOLD"} : ls = IF x.disposition = "LIST" THEN "SOLD" ELSE "UNLISTED"
  OBVIOUS
<1>4. PICK f : f = [x EXCEPT !.status = "DISPOSED", !.listing = ls]
  OBVIOUS
<1>5. /\ f \in AssetRow /\ f.version = x.version /\ f.quoted = x.quoted
      /\ f.disposition = x.disposition /\ f.status = "DISPOSED"
  BY <1>4 DEF AssetRow
<1>6. Touch(a, f)
  BY <1>1, <1>2, <1>3, <1>4
<1>7. CardBooked
  <2>1. PICK key \in Int : key = 0
    OBVIOUS
  <2>2. PICK ty \in EntryTypes \ {"PLAYER_WIN_LOSS", "HOUSE_PACK_COST"} : ty = "INVENTORY_DISPOSED"
    BY DEF EntryTypes
  <2>3. Books(ty, a, key)
    BY <1>2, <2>1, <2>2 DEF Books
  <2> QED BY <2>3 DEF CardBooked
<1>8. chain' \in [balance : Int, delegated : Int, slot : Nat]
  <2>1. PICK c \in [balance : Int, delegated : Int, slot : Nat] : c = chain
    BY DEF MatchInv, MatchTypes
  <2>2. PICK up \in Int : up = c.balance + 1
    OBVIOUS
  <2>3. chain' = c \/ chain' = [c EXCEPT !.balance = up]
    BY <1>2, <2>1, <2>2
  <2> QED BY <2>3
<1>9. /\ f.status # "NONE"
      /\ f.disposition \in {"BUYBACK", "LIST"} \/ f.status = "DISPOSED" => x.quoted
  BY <1>1, <1>2, <1>5 DEF CardFits
<1> QED BY <1>1, <1>2, <1>5, <1>6, <1>7, <1>8, <1>9, TouchStep

LEMMA RecordsStand ==
  ASSUME MatchInv
  PROVE  /\ rec \in RecRow /\ chain \in [balance : Int, delegated : Int, slot : Nat] /\ clock \in Nat
         /\ ledger \in Seq(EntryRow) /\ asset \in [Assets -> AssetRow]
         /\ IdleRec \in RecRow /\ IdleRec.todo = {}
         /\ \A t \in rec.todo : t[1] \in Assets /\ t[2] \in AssetRow /\ ReadingFits(t[2], asset[t[1]])
<1>1. rec \in RecRow /\ clock \in Nat /\ asset \in [Assets -> AssetRow]
  BY DEF MatchInv, MatchTypes
<1>2. IdleRec \in RecRow /\ IdleRec.todo = {}
  BY DEF IdleRec, RecRow
<1>3. \A t \in rec.todo : t[1] \in Assets /\ t[2] \in AssetRow
  BY <1>1 DEF RecRow
<1> QED BY <1>1, <1>2, <1>3 DEF MatchInv, MatchTypes, CardsFit

LEMMA ReadAccountStep ==
  ASSUME MatchInv, ReadAccount, UNCHANGED <<ticket, behavior, call, clock>>
  PROVE  MatchInv'
<1>1. PICK r \in RecRow, c \in [balance : Int, delegated : Int, slot : Nat] : r = rec /\ c = chain
  BY RecordsStand
<1>2. UNCHANGED <<duel, res, ledger, asset, chain>>
  BY DEF ReadAccount
<1>3. rec' = [r EXCEPT !.pc = "slot", !.balance = c.balance, !.delegated = c.delegated]
  BY <1>1 DEF ReadAccount
<1>4. rec' \in RecRow /\ rec'.todo = r.todo
  BY <1>3 DEF RecRow
<1>5. chain' \in [balance : Int, delegated : Int, slot : Nat]
  BY <1>1, <1>2
<1> QED BY <1>1, <1>2, <1>4, <1>5, RecordsStand, ReadingStep

LEMMA ReadSlotStep ==
  ASSUME MatchInv, ReadSlot, UNCHANGED <<ticket, behavior, call, clock>>
  PROVE  MatchInv'
<1>1. PICK r \in RecRow, c \in [balance : Int, delegated : Int, slot : Nat] : r = rec /\ c = chain
  BY RecordsStand
<1>2. UNCHANGED <<duel, res, ledger, asset, chain>>
  BY DEF ReadSlot
<1>3. PICK n \in Nat : n = Len(ledger)
  BY RecordsStand
<1>4. rec' = [r EXCEPT !.pc = "record", !.slot = c.slot, !.mark = n, !.at = clock]
  BY <1>1, <1>3 DEF ReadSlot
<1>5. rec' \in RecRow /\ rec'.todo = r.todo
  BY <1>3, <1>4, RecordsStand DEF RecRow
<1>6. chain' \in [balance : Int, delegated : Int, slot : Nat]
  BY <1>1, <1>2
<1> QED BY <1>1, <1>2, <1>5, <1>6, RecordsStand, ReadingStep

LEMMA RecordSnapshotStep ==
  ASSUME MatchInv, RecordSnapshot, UNCHANGED <<ticket, behavior, call, clock>>
  PROVE  MatchInv'
<1>1. PICK r \in RecRow : r = rec
  BY RecordsStand
<1>2. UNCHANGED <<duel, res, ledger, asset, chain>>
  BY DEF RecordSnapshot
<1>3. rec' = IdleRec \/ rec' = [r EXCEPT !.pc = "cards"]
  BY <1>1 DEF RecordSnapshot
<1>4. rec' \in RecRow /\ rec'.todo \subseteq r.todo
  <2>1. CASE rec' = IdleRec
    BY <2>1, RecordsStand
  <2>2. CASE rec' = [r EXCEPT !.pc = "cards"]
    BY <2>2 DEF RecRow
  <2> QED BY <1>3, <2>1, <2>2
<1>5. chain' \in [balance : Int, delegated : Int, slot : Nat]
  BY <1>2, RecordsStand
<1>6. \A t \in rec'.todo : ReadingFits(t[2], asset[t[1]])
  BY <1>1, <1>4, RecordsStand
<1> QED BY <1>2, <1>4, <1>5, <1>6, ReadingStep

LEMMA ListCardsStep ==
  ASSUME MatchInv, ListCards, UNCHANGED <<ticket, behavior, call, clock>>
  PROVE  MatchInv'
<1>1. PICK r \in RecRow : r = rec
  BY RecordsStand
<1>2. UNCHANGED <<duel, res, ledger, asset, chain>>
  BY DEF ListCards
<1>3. PICK D : D = {<<a, asset[a]>> : a \in {b \in Assets :
                     asset[b].status \in {"HELD", "LISTED", "RECONCILIATION_REQUIRED"}}}
  OBVIOUS
<1>4. ASSUME NEW t \in D
      PROVE  t \in Assets \X AssetRow /\ ReadingFits(t[2], asset[t[1]])
  <2>1. PICK a \in Assets : /\ t = <<a, asset[a]>>
                            /\ asset[a].status \in {"HELD", "LISTED", "RECONCILIATION_REQUIRED"}
    BY <1>3
  <2>2. asset[a] \in AssetRow /\ asset[a].version \in Nat
    BY RecordsStand DEF AssetRow
  <2> QED BY <2>1, <2>2 DEF ReadingFits
<1>5. rec' = [r EXCEPT !.pc = "verify", !.todo = D]
  BY <1>1, <1>3 DEF ListCards
<1>6. rec' \in RecRow /\ rec'.todo = D
  BY <1>4, <1>5 DEF RecRow
<1>7. chain' \in [balance : Int, delegated : Int, slot : Nat]
  BY <1>2, RecordsStand
<1>8. \A t \in rec'.todo : ReadingFits(t[2], asset[t[1]])
  BY <1>4, <1>6
<1> QED BY <1>2, <1>6, <1>7, <1>8, ReadingStep

LEMMA EndReconcileStep ==
  ASSUME MatchInv, EndReconcile, UNCHANGED <<ticket, behavior, call, clock>>
  PROVE  MatchInv'
<1>1. UNCHANGED <<duel, res, ledger, asset, chain>> /\ rec' = IdleRec
  BY DEF EndReconcile
<1>2. rec' \in RecRow /\ chain' \in [balance : Int, delegated : Int, slot : Nat]
  BY <1>1, RecordsStand
<1>3. \A t \in rec'.todo : ReadingFits(t[2], asset[t[1]])
  BY <1>1, RecordsStand
<1> QED BY <1>1, <1>2, <1>3, ReadingStep

\* The card whose row nobody has written since it was listed is not disposed of.
LEMMA ListedCardStands ==
  ASSUME MatchInv, NEW t \in rec.todo, UnchangedSince(t[1], t[2])
  PROVE  t[1] \in Assets /\ asset[t[1]].status # "DISPOSED"
<1>1. /\ t[1] \in Assets /\ t[2] \in AssetRow /\ ReadingFits(t[2], asset[t[1]])
      /\ asset[t[1]].version = t[2].version
  BY RecordsStand DEF UnchangedSince
<1>2. t[2].version \in Nat
  BY <1>1 DEF AssetRow
<1> QED BY <1>1, <1>2 DEF ReadingFits

LEMMA VerifyCardStep ==
  ASSUME MatchInv, VerifyCard, UNCHANGED <<ticket, behavior, call, clock>>
  PROVE  MatchInv'
<1>1. PICK t \in rec.todo, ok \in BOOLEAN :
        /\ rec' = [rec EXCEPT !.todo = @ \ {t}]
        /\ IF UnchangedSince(t[1], t[2])
           THEN /\ asset' = [asset EXCEPT
                     ![t[1]].status = IF ~ok THEN "RECONCILIATION_REQUIRED"
                                      ELSE IF t[2].listing = "LISTED" THEN "LISTED" ELSE "HELD",
                     ![t[1]].version = @ + 1]
                /\ disc' = [disc EXCEPT !.assets = IF ok THEN @ \ {t[1]} ELSE @ \cup {t[1]}]
                /\ ledger' = IF ok THEN ledger
                             ELSE AppendLedger(ledger, Entry("RECONCILIATION_ALERT", t[1], rec.slot, 1))
           ELSE UNCHANGED <<asset, disc, ledger>>
  BY Zenon DEF VerifyCard
<1>2. UNCHANGED <<duel, res, chain>>
  BY DEF VerifyCard
<1>3. PICK r \in RecRow : r = rec
  BY RecordsStand
<1>4. rec' \in RecRow /\ rec'.todo \subseteq rec.todo
  <2>1. rec' = [r EXCEPT !.todo = r.todo \ {t}]
    BY <1>1, <1>3
  <2> QED BY <1>3, <2>1 DEF RecRow
<1>5. chain' \in [balance : Int, delegated : Int, slot : Nat]
  BY <1>2, RecordsStand
<1>6. CASE ~ UnchangedSince(t[1], t[2])
  <2>1. UNCHANGED <<asset, ledger>>
    BY <1>1, <1>6
  <2>2. \A u \in rec'.todo : ReadingFits(u[2], asset[u[1]])
    BY <1>4, RecordsStand
  <2> QED BY <1>2, <1>4, <1>5, <2>1, <2>2, ReadingStep
<1>7. CASE UnchangedSince(t[1], t[2])
  <2>1. PICK a \in Assets : a = t[1] /\ asset[a].status # "DISPOSED"
    BY <1>7, ListedCardStands
  <2>2. PICK x \in AssetRow : x = asset[a] /\ CardFits(x)
    BY CardIs
  <2>3. PICK st \in {"RECONCILIATION_REQUIRED", "LISTED", "HELD"} :
          st = IF ~ok THEN "RECONCILIATION_REQUIRED"
               ELSE IF t[2].listing = "LISTED" THEN "LISTED" ELSE "HELD"
    OBVIOUS
  <2>4. PICK f : f = [x EXCEPT !.status = st]
    OBVIOUS
  <2>5. /\ f \in AssetRow /\ f.version = x.version /\ f.quoted = x.quoted
        /\ f.disposition = x.disposition /\ f.status = st
    BY <2>3, <2>4 DEF AssetRow
  <2>6. PICK q : q = Touched(f)
    OBVIOUS
  <2>7. /\ q \in AssetRow /\ q.version = f.version + 1 /\ q.status = f.status
        /\ q.disposition = f.disposition /\ q.quoted = f.quoted
    BY <2>5, <2>6, CardTouched
  <2>8. asset' = [asset EXCEPT ![a] = q]
    <3>1. asset' = [asset EXCEPT ![a].status = st, ![a].version = @ + 1]
      BY <1>1, <1>7, <2>1, <2>3
    <3> QED BY <2>2, <2>4, <2>6, <3>1, RecordsStand DEF Touched
  <2>9. CardFits(q)
    BY <2>2, <2>3, <2>5, <2>7 DEF CardFits
  <2>10. Turns(x, q)
    <3>1. x.version \in Nat
      BY DEF AssetRow
    <3> QED BY <2>5, <2>7, <3>1 DEF Turns
  <2>11. asset' \in [Assets -> AssetRow] /\ CardsFit'
    <3>1. MatchTypes /\ CardsFit
      BY DEF MatchInv
    <3> QED BY <1>4, <2>2, <2>7, <2>8, <2>9, <2>10, <3>1, OneCardWritten
  <2>12. CardBooked
    <3>1. PICK key \in Int : key = rec.slot
      BY RecordsStand DEF RecRow
    <3>2. PICK ty \in EntryTypes \ {"PLAYER_WIN_LOSS", "HOUSE_PACK_COST"} : ty = "RECONCILIATION_ALERT"
      BY DEF EntryTypes
    <3>3. UNCHANGED ledger \/ Books(ty, a, key)
      BY <1>1, <1>7, <2>1, <3>1, <3>2 DEF Books
    <3> QED BY <3>3 DEF CardBooked
  <2> QED BY <1>2, <1>4, <1>5, <2>11, <2>12, CardStep
<1> QED BY <1>6, <1>7

LEMMA ProviderEndsListingStep ==
  ASSUME MatchInv, NEW n \in Listings, ProviderEndsListing(n), UNCHANGED <<ticket, behavior, call, clock>>
  PROVE  MatchInv'
<1>1. /\ UNCHANGED <<duel, res, ledger, asset, rec>>
      /\ chain' = chain \/ chain' = [chain EXCEPT !.balance = @ + 1]
  BY DEF ProviderEndsListing
<1>2. chain' \in [balance : Int, delegated : Int, slot : Nat]
  <2>1. PICK c \in [balance : Int, delegated : Int, slot : Nat] : c = chain
    BY RecordsStand
  <2>2. PICK up \in Int : up = c.balance + 1
    OBVIOUS
  <2>3. chain' = c \/ chain' = [c EXCEPT !.balance = up]
    BY <1>1, <2>1, <2>2
  <2> QED BY <2>3
<1>3. rec' \in RecRow /\ \A t \in rec'.todo : ReadingFits(t[2], asset[t[1]])
  BY <1>1, RecordsStand
<1> QED BY <1>1, <1>2, <1>3, ReadingStep

LEMMA SlotAdvancesStep ==
  ASSUME MatchInv, SlotAdvances, UNCHANGED <<ticket, behavior, call, clock>>
  PROVE  MatchInv'
<1>1. UNCHANGED <<duel, res, ledger, asset, rec>> /\ chain' = [chain EXCEPT !.slot = @ + 1]
  BY DEF SlotAdvances
<1>2. chain' \in [balance : Int, delegated : Int, slot : Nat]
  <2>1. PICK c \in [balance : Int, delegated : Int, slot : Nat] : c = chain
    BY RecordsStand
  <2>2. PICK up \in Nat : up = c.slot + 1
    OBVIOUS
  <2>3. chain' = [c EXCEPT !.slot = up]
    BY <1>1, <2>1, <2>2
  <2> QED BY <2>3
<1>3. rec' \in RecRow /\ \A t \in rec'.todo : ReadingFits(t[2], asset[t[1]])
  BY <1>1, RecordsStand
<1> QED BY <1>1, <1>2, <1>3, ReadingStep

LEMMA SetPausedStep ==
  ASSUME MatchInv, SetPaused, UNCHANGED <<ticket, behavior, call, clock>>
  PROVE  MatchInv'
<1>1. UNCHANGED <<duel, res, ledger, asset, rec, chain>>
  BY DEF SetPaused
<1>2. chain' \in [balance : Int, delegated : Int, slot : Nat]
  BY <1>1, RecordsStand
<1>3. rec' \in RecRow /\ \A t \in rec'.todo : ReadingFits(t[2], asset[t[1]])
  BY <1>1, RecordsStand
<1> QED BY <1>1, <1>2, <1>3, ReadingStep

(***************************************************************************)
(* Time, the initial states and the invariant.                             *)
(***************************************************************************)
\* On a new day nothing has been lost yet.
LEMMA NothingLostTomorrow ==
  ASSUME NEW l \in Seq(EntryRow), NEW c \in Nat, \A i \in DOMAIN l : l[i].day <= Today(c)
  PROVE  /\ Loss(l, Today(c)) \in Nat /\ Loss(l, Today(c + 1)) \in Nat
         /\ Loss(l, Today(c + 1)) <= Loss(l, Today(c))
         /\ \A i \in DOMAIN l : l[i].day <= Today(c + 1)
<1>1. PICK today, next : today = Today(c) /\ next = Today(c + 1)
  OBVIOUS
<1>2. today \in Int /\ next \in Int /\ today <= next
  <2>1. Today(c) \in Int /\ Today(c) <= Today(c + 1)
    BY DaysAdvance
  <2>2. c + 1 \in Nat
    OBVIOUS
  <2>3. PICK m \in Nat : m = c + 1
    BY <2>2
  <2>4. Today(m) \in Int
    BY DaysAdvance
  <2> QED BY <1>1, <2>1, <2>3, <2>4
<1>3. Loss(l, today) \in Nat /\ Loss(l, next) \in Nat
  BY LossIsNat
<1>4. \A i \in DOMAIN l : l[i].day \in Int /\ l[i].day <= today
  <2>1. \A i \in DOMAIN l : l[i] \in EntryRow
    BY LedgerIsFinite
  <2> QED BY <1>1, <2>1 DEF EntryRow
<1>5. CASE next = today
  BY <1>1, <1>2, <1>3, <1>4, <1>5
<1>6. CASE next # today
  <2>1. LossOn(l, next) = {}
    BY <1>2, <1>4, <1>6 DEF LossOn
  <2>2. IsFiniteSet({}) /\ Total(l, {}) = 0
    BY FS_EmptySet, TotalUnfold
  <2>3. Loss(l, next) = 0
    BY <2>1, <2>2 DEF Loss
  <2> QED BY <1>1, <1>2, <1>3, <1>4, <2>3
<1> QED BY <1>5, <1>6

LEMMA TickStep ==
  ASSUME MatchInv, Tick
  PROVE  MatchInv'
<1>1. /\ UNCHANGED <<duel, res, ledger, asset, rec, chain, ticket, behavior, call>>
      /\ clock' = clock + 1
  BY DEF Tick, treasuryVars
<1>2. clock \in Nat /\ clock' \in Nat /\ clock <= clock' /\ ledger \in Seq(EntryRow)
  BY <1>1 DEF MatchInv, MatchTypes
<1>3. MatchTypes' /\ DuelsFit' /\ CardsFit'
  BY <1>1, <1>2 DEF MatchInv, MatchTypes, DuelsFit, CardsFit
<1>4. TicketsFit'
  BY <1>1 DEF MatchInv, TicketsFit, TicketsAgreeWithDuels, TicketsOf
<1>5. RequestsFit'
  <2>1. /\ call' \in [Wallets -> RequestRow]
        /\ \A v \in Wallets : call'[v] = call[v] \/ RequestFits(v, call'[v], duel)
    BY <1>1, RequestsStay DEF MatchInv
  <2>2. duel' \in [Duels -> DuelRow] /\ \A e \in Duels : Follows(duel[e], duel'[e])
    BY <1>1, RowsStay DEF MatchInv, MatchTypes
  <2> QED BY <1>2, <2>1, <2>2, RequestsKept DEF MatchInv
<1>6. ExposureFits'
  <2>1. \A i \in DOMAIN ledger : ledger[i].day <= Today(clock)
    BY DEF MatchInv, ExposureFits, Today
  <2>2. /\ Loss(ledger, Today(clock)) \in Nat /\ Loss(ledger, Today(clock + 1)) \in Nat
        /\ Loss(ledger, Today(clock + 1)) <= Loss(ledger, Today(clock))
        /\ \A i \in DOMAIN ledger : ledger[i].day <= Today(clock + 1)
    BY <1>2, <2>1, NothingLostTomorrow
  <2>3. DailyLoss = Loss(ledger, Today(clock)) /\ DailyLoss' = Loss(ledger, Today(clock + 1))
    BY <1>1, DailyLossIsTotal
  <2>4. ActiveReservations' = ActiveReservations
    BY <1>1 DEF ActiveReservations
  <2>5. IsFiniteSet(ActiveReservations) /\ Cardinality(ActiveReservations) \in Nat
    BY FS_CardinalityType DEF MatchInv, ExposureFits
  <2>6. DailyLoss + Cardinality(ActiveReservations) <= DailyLossLimit
    BY DEF MatchInv, ExposureFits, ExposureWithinDailyLimit
  <2>7. ExposureWithinDailyLimit'
    <3> DEFINE n == Cardinality(ActiveReservations)
               l == DailyLoss
               k == DailyLoss'
    <3>1. n \in Nat /\ l \in Nat /\ k \in Nat /\ k <= l /\ l + n <= DailyLossLimit
      BY <2>2, <2>3, <2>5, <2>6
    <3>2. ExposureWithinDailyLimit' <=> k + n <= DailyLossLimit
      BY <2>4 DEF ExposureWithinDailyLimit
    <3> HIDE DEF n, l, k
    <3> QED BY <3>1, <3>2, LimitsAreNat
  <2>8. \A i \in DOMAIN ledger' : ledger'[i].day <= clock' \div DayLength
    BY <1>1, <2>2 DEF Today
  <2> QED BY <2>4, <2>5, <2>7, <2>8 DEF ExposureFits
<1> QED BY <1>3, <1>4, <1>5, <1>6 DEF MatchInv

LEMMA MatchInitFits == MatchInit => MatchInv
<1> SUFFICES ASSUME MatchInit PROVE MatchInv
  OBVIOUS
<1> USE DEF MatchInit, RestInit
<1>1. NoDuel \in DuelRow /\ NoDuel.status = "NONE" /\ NoDuel.mode = "OPEN" /\ ~NoDuel.opened
  BY NoDuelIs
<1>2. NoAsset \in AssetRow /\ NoAsset.status = "NONE" /\ NoAsset.version = 0
      /\ NoAsset.disposition = "MANUAL_REVIEW"
  BY DEF NoAsset, AssetRow
<1>3. IdleRec \in RecRow /\ IdleRec.todo = {}
  BY DEF IdleRec, RecRow
<1>4. NoTicket \in TicketRow
  BY DEF NoTicket, TicketRow
<1>5. Idle \in RequestRow /\ Idle.now = 0 /\ Idle.due = {}
  BY DEF Idle, RequestRow
<1>6. ledger \in Seq(EntryRow) /\ DOMAIN ledger = {}
  OBVIOUS
<1>7. chain \in [balance : Int, delegated : Int, slot : Nat]
  BY TreasuryConstants
<1>8. behavior \in [Wallets -> BehaviorRow]
  BY DEF BehaviorRow
<1>9. MatchTypes
  BY <1>1, <1>2, <1>3, <1>4, <1>5, <1>6, <1>7, <1>8 DEF MatchTypes, ReservationStatuses
<1>10. DuelsFit
  <2>1. RowFits(NoDuel)
    BY <1>1 DEF RowFits
  <2>2. \A d \in Duels : Booked(ledger, d) = {}
    BY <1>6 DEF Booked
  <2>3. ReservationFits(NoDuel, "NONE", {})
    BY <1>1 DEF ReservationFits, ACTIVE_HOUSE_DUEL
  <2> QED BY <2>1, <2>2, <2>3 DEF DuelsFit
<1>11. ExposureFits
  <2>1. ActiveReservations = {}
    BY DEF ActiveReservations, ACTIVE_HOUSE_RESERVATION_STATUSES
  <2>2. IsFiniteSet(ActiveReservations) /\ Cardinality(ActiveReservations) = 0
    BY <2>1, FS_EmptySet
  <2>3. DailyLoss = 0
    <3>1. PICK l, today : l \in Seq(EntryRow) /\ l = ledger /\ today = Today(clock)
      BY <1>6
    <3>2. LossOn(l, today) = {}
      BY <1>6, <3>1 DEF LossOn
    <3>3. IsFiniteSet({}) /\ Total(l, {}) = 0
      BY FS_EmptySet, TotalUnfold
    <3>4. Loss(l, today) = 0
      BY <3>2, <3>3 DEF Loss
    <3> QED BY <3>1, <3>4, DailyLossIsTotal
  <2>4. ExposureWithinDailyLimit
    BY <2>2, <2>3, LimitsAreNat DEF ExposureWithinDailyLimit
  <2> QED BY <1>6, <2>2, <2>4 DEF ExposureFits
<1>12. CardsFit
  BY <1>2, <1>3 DEF CardsFit, CardFits
<1>13. TicketsFit
  <2>1. NoDuel.status \notin LiveForTicket
    BY <1>1 DEF LiveForTicket
  <2> QED BY <1>1, <2>1 DEF TicketsFit, TicketsAgreeWithDuels
<1>14. RequestsFit
  BY <1>5 DEF RequestsFit, RequestFits
<1> QED BY <1>9, <1>10, <1>11, <1>12, <1>13, <1>14 DEF MatchInv

LEMMA QueueKeeps ==
  ASSUME MatchInv, NEW w \in Wallets, MatchStep(w), UNCHANGED clock
  PROVE  MatchInv'
BY BeginCallStep, ExpireCommitmentStep, ReadSearchesStep, ExpireSearchStep, FindSessionStep,
   DeleteStaleTicketsStep, AssertAllowedStep, ReplaySearchStep, AssignCandidateStep,
   CreateSearchStep, ReadTicketStep, CancelStep, HouseFallbackStep, PersistRefusalStep
DEF MatchStep

LEMMA TreasuryKeeps ==
  ASSUME MatchInv, TreasuryNext, UNCHANGED <<ticket, behavior, call, clock>>
  PROVE  MatchInv'
<1>1. CASE SetPaused \/ SlotAdvances
  BY <1>1, SetPausedStep, SlotAdvancesStep
<1>2. CASE \E d \in Duels : ReconcileLifecycle(d) \/ HouseDuelMoves(d)
  BY <1>2, ReconcileLifecycleStep, HouseDuelMovesStep
<1>3. CASE ReconcileOnChain
  BY <1>3, ReadAccountStep, ReadSlotStep, RecordSnapshotStep, ListCardsStep, VerifyCardStep,
     EndReconcileStep DEF ReconcileOnChain
<1>4. CASE DisposeCards
  BY <1>4, QuoteCardStep, SetDispositionStep, DelistInventoryStep, CompleteDispositionStep,
     ProviderEndsListingStep DEF DisposeCards
<1> QED BY <1>1, <1>2, <1>3, <1>4 DEF TreasuryNext

LEMMA MatchInvIsInductive == MatchInv /\ [MatchNext]_matchVars => MatchInv'
<1> SUFFICES ASSUME MatchInv, [MatchNext]_matchVars PROVE MatchInv'
  OBVIOUS
<1>1. CASE (\E w \in Wallets : MatchStep(w)) /\ UNCHANGED clock
  BY <1>1, QueueKeeps
<1>2. CASE (\E d \in Duels : PlayerDuelMoves(d)) /\ UNCHANGED clock
  BY <1>2, PlayerDuelMovesStep
<1>3. CASE TreasuryNext /\ UNCHANGED <<ticket, behavior, call, calls, clock>>
  BY <1>3, TreasuryKeeps
<1>4. CASE Tick
  BY <1>4, TickStep
<1>5. CASE UNCHANGED matchVars
  <2>1. UNCHANGED <<duel, res, ledger, asset, chain, rec, clock, ticket, behavior, call>>
    BY <1>5 DEF matchVars
  <2>2. /\ call' \in [Wallets -> RequestRow]
        /\ \A v \in Wallets : call'[v] = call[v] \/ RequestFits(v, call'[v], duel)
    BY <2>1, RequestsStay DEF MatchInv
  <2> QED BY <2>1, <2>2, RequestStep
<1> QED BY <1>1, <1>2, <1>3, <1>4, <1>5 DEF MatchNext

\* Every state of the queue and the treasury satisfies the inductive invariant: rows,
\* reservations, ledger, cards, tickets and what every request has read fit together.
THEOREM MatchInvariant == MatchSpec => []MatchInv
BY MatchInitFits, MatchInvIsInductive, PTL DEF MatchSpec

(***************************************************************************)
(* What the invariant and the steps say.                                   *)
(***************************************************************************)
\* Tickets and duel rows tell the same story, whatever requests run between the awaits
\* of search, cancel, house fallback and the expiry pass.
THEOREM TicketsStayWithDuels == MatchSpec => []TicketsAgreeWithDuels
<1>1. MatchInv => TicketsAgreeWithDuels
  BY DEF MatchInv, TicketsFit
<1> QED BY <1>1, MatchInvariant, PTL

\* The day's booked losses and the active reservations never exceed the daily limit.
THEOREM ExposureStaysWithinLimit == MatchSpec => []ExposureWithinDailyLimit
<1>1. MatchInv => ExposureWithinDailyLimit
  BY DEF MatchInv, ExposureFits
<1> QED BY <1>1, MatchInvariant, PTL

\* A house duel the house can still lose holds an active reservation, and an ended one
\* is booked as its duel ended.
THEOREM ReservationsFollowDuels == MatchSpec => []ReservationFollowsDuel
<1>1. ASSUME MatchInv, NEW d \in Duels
      PROVE  /\ duel[d].mode = "HOUSE" /\ duel[d].status \in ACTIVE_HOUSE_DUEL =>
                  d \in ActiveReservations
             /\ HasEntry("PLAYER_WIN_LOSS", d) <=> res[d] = "SETTLED" /\ duel[d].winner = duel[d].creator
                                                   /\ duel[d].status = "SETTLED"
             /\ res[d] = "SETTLED" => duel[d].opened /\ HasEntry(Resolution(duel[d]), d)
             /\ res[d] = "RELEASED" => /\ HasEntry("RESERVATION_RELEASED", d) /\ ~duel[d].opened
                                       /\ ~HasEntry("HOUSE_PACK_COST", d)
  <2>1. PICK B : B = Booked(ledger, d)
    OBVIOUS
  <2>2. ReservationFits(duel[d], res[d], B)
    BY <1>1, <2>1, DuelFits DEF MatchInv
  <2>3. \A ty \in EntryTypes : HasEntry(ty, d) <=> ty \in B
    BY <2>1 DEF HasEntry, Booked
  <2>4. /\ HasEntry("PLAYER_WIN_LOSS", d) <=> "PLAYER_WIN_LOSS" \in B
        /\ HasEntry("HOUSE_PACK_COST", d) <=> "HOUSE_PACK_COST" \in B
        /\ HasEntry("RESERVATION_RELEASED", d) <=> "RESERVATION_RELEASED" \in B
    BY <2>3 DEF EntryTypes
  <2>5. Resolution(duel[d]) = "PLAYER_WIN_LOSS" <=>
          duel[d].status = "SETTLED" /\ duel[d].winner = duel[d].creator
    BY DEF Resolution
  <2>6. ASSUME res[d] = "SETTLED"
        PROVE  duel[d].opened /\ Resolution(duel[d]) \in B /\ HasEntry(Resolution(duel[d]), d)
    <3>1. Resolution(duel[d]) \in B /\ duel[d].opened
      BY <2>2, <2>6 DEF ReservationFits
    <3>2. Resolution(duel[d]) \in EntryTypes
      BY <2>1, <3>1 DEF Booked
    <3> QED BY <2>3, <3>1, <3>2
  <2>7. "PLAYER_WIN_LOSS" \in B => res[d] = "SETTLED" /\ Resolution(duel[d]) = "PLAYER_WIN_LOSS"
    BY <2>2 DEF ReservationFits
  <2>8. res[d] = "RELEASED" => /\ "RESERVATION_RELEASED" \in B /\ ~duel[d].opened
                               /\ "HOUSE_PACK_COST" \notin B
    BY <2>2 DEF ReservationFits
  <2>9. duel[d].mode = "HOUSE" /\ duel[d].status \in ACTIVE_HOUSE_DUEL => d \in ActiveReservations
    BY <2>2 DEF ReservationFits, ActiveReservations
  <2>10. HasEntry("PLAYER_WIN_LOSS", d) <=> res[d] = "SETTLED" /\ duel[d].winner = duel[d].creator
                                              /\ duel[d].status = "SETTLED"
    BY <2>4, <2>5, <2>6, <2>7
  <2> QED BY <2>4, <2>6, <2>8, <2>9, <2>10
<1>2. MatchInv => ReservationFollowsDuel
  BY <1>1 DEF ReservationFollowsDuel
<1> QED BY <1>2, MatchInvariant, PTL

\* The step that writes the row of a card disposed of is none of the code's.
LEMMA DisposedCardsStay ==
  ASSUME MatchInv, MatchNext, NEW a \in Assets, asset[a].status = "DISPOSED"
  PROVE  asset'[a] = asset[a]
<1>1. asset \in [Assets -> AssetRow] /\ asset[a] \in AssetRow /\ CardFits(asset[a])
  BY CardIs DEF MatchInv, MatchTypes
<1>2. CASE (\E w \in Wallets : MatchStep(w)) /\ UNCHANGED clock
  <2>1. PICK w \in Wallets : MatchStep(w)
    BY <1>2
  <2>2. UNCHANGED asset
    BY <2>1 DEF MatchStep, BeginCall, ExpireCommitment, ReadSearches, ExpireSearch, FindSession,
       DeleteStaleTickets, AssertAllowed, ReplaySearch, AssignCandidate, CreateSearch, ReadTicket,
       Cancel, HouseFallback, PersistRefusal, treasuryVars
  <2> QED BY <2>2
<1>3. CASE (\E d \in Duels : PlayerDuelMoves(d)) /\ UNCHANGED clock
  BY <1>3 DEF PlayerDuelMoves, treasuryVars
<1>4. CASE Tick
  BY <1>4 DEF Tick, treasuryVars
<1>5. CASE TreasuryNext
  <2>1. CASE SetPaused \/ SlotAdvances \/ \E d \in Duels : HouseDuelMoves(d)
    BY <2>1 DEF SetPaused, SlotAdvances, HouseDuelMoves
  <2>2. ASSUME NEW d \in Duels, ReconcileLifecycle(d)
        PROVE  asset'[a] = asset[a]
    BY <2>2 DEF ReconcileLifecycle, Acquired
  <2>3. CASE ReadAccount \/ ReadSlot \/ RecordSnapshot \/ ListCards \/ EndReconcile
    BY <2>3 DEF ReadAccount, ReadSlot, RecordSnapshot, ListCards, EndReconcile
  <2>4. CASE VerifyCard
    <3>1. PICK t, st :
            /\ t \in rec.todo
            /\ \/ UNCHANGED asset
               \/ /\ UnchangedSince(t[1], t[2])
                  /\ asset' = [asset EXCEPT ![t[1]].status = st, ![t[1]].version = @ + 1]
      BY <2>4 DEF VerifyCard
    <3>2. CASE UNCHANGED asset
      BY <3>2
    <3>3. CASE /\ UnchangedSince(t[1], t[2])
               /\ asset' = [asset EXCEPT ![t[1]].status = st, ![t[1]].version = @ + 1]
      <4>1. t[1] # a
        BY <3>1, <3>3, ListedCardStands
      <4> QED BY <1>1, <3>3, <4>1
    <3> QED BY <3>1, <3>2, <3>3
  <2>5. ASSUME NEW b \in Assets, QuoteCard(b)
        PROVE  asset'[a] = asset[a]
    <3>1. b # a /\ asset' = [asset EXCEPT ![b].quoted = TRUE]
      BY <1>1, <2>5 DEF QuoteCard, CardFits
    <3> QED BY <1>1, <3>1
  <2>6. ASSUME NEW b \in Assets, SetDisposition(b) \/ DelistInventory(b) \/ CompleteDisposition(b)
        PROVE  asset'[a] = asset[a]
    <3>1. b # a /\ \E q : asset' = [asset EXCEPT ![b] = q]
      BY <2>6 DEF SetDisposition, DelistInventory, CompleteDisposition, Touch
    <3> QED BY <1>1, <3>1
  <2>7. ASSUME NEW n \in Listings, ProviderEndsListing(n)
        PROVE  asset'[a] = asset[a]
    BY <2>7 DEF ProviderEndsListing
  <2> QED BY <1>5, <2>1, <2>2, <2>3, <2>4, <2>5, <2>6, <2>7 DEF TreasuryNext, ReconcileOnChain, DisposeCards
<1> QED BY <1>2, <1>3, <1>4, <1>5 DEF MatchNext

\* A card that was disposed of stays as it is: the reconciliation that listed it before
\* finds another version.
THEOREM DisposedCardsAreFinal == MatchSpec => DisposedIsFinal
<1>1. MatchInv /\ [MatchNext]_matchVars =>
        [\A a \in Assets : asset[a].status = "DISPOSED" => asset'[a] = asset[a]]_<<asset, rec>>
  BY DisposedCardsStay DEF matchVars
<1> QED BY <1>1, MatchInvariant, PTL DEF MatchSpec, DisposedIsFinal

\* The pair that is charged was late by the row the charging transaction finds.
LEMMA LateIsCharged ==
  ASSUME MatchInv, NEW w \in Wallets, ExpireCommitment(w), NEW v \in Wallets, behavior'[v] # behavior[v]
  PROVE  \E d \in Duels : /\ duel'[d] # duel[d] /\ v \in {duel[d].creator, duel[d].opponent}
                          /\ duel[d].commitBy \in 0..clock
<1>1. PICK t, q :
        /\ t \in call[w].due
        /\ SameVersion(t[1], t[2])
        /\ \/ q = [duel[t[1]] EXCEPT !.status = "WAITING", !.opponent = NoWallet, !.commitBy = -1]
           \/ \E s \in {"REFUNDING", "CANCELLED"} : q = [duel[t[1]] EXCEPT !.commitBy = -1, !.status = s]
        /\ MoveDuel(t[1], q)
        /\ behavior' = IF Offender(t[2]) \in Wallets THEN RecordFailedCommitment(Offender(t[2]), call[w].now)
                       ELSE behavior
  BY DEF ExpireCommitment
<1>2. PICK d \in Duels, r \in DuelRow : d = t[1] /\ r = duel[d]
  BY <1>1, SeenBy DEF MatchInv, MatchTypes
<1>3. /\ t[2].creator = r.creator /\ t[2].opponent = r.opponent /\ t[2].commitBy = r.commitBy
      /\ r.commitBy \in 0..clock
  <2>1. t[2].commitBy \in 0..call[w].now /\ call[w].now \in Nat /\ clock \in Nat /\ call[w].now <= clock
    BY <1>1, SeenBy DEF DueFits, ExpireCommitment
  <2> QED BY <1>1, <1>2, <2>1, SameRow
<1>4. v = Offender(t[2])
  <2>1. behavior \in [Wallets -> BehaviorRow]
    BY DEF MatchInv, MatchTypes
  <2> QED BY <1>1, <2>1 DEF RecordFailedCommitment
<1>5. v \in {r.creator, r.opponent}
  <2>1. v # NoWallet
    BY NobodyIsAPlayer
  <2> QED BY <1>3, <1>4, <2>1 DEF Offender
<1>6. duel'[d] # duel[d]
  <2>1. PICK y : y = [q EXCEPT !.version = @ + 1]
    OBVIOUS
  <2>2. y.version = r.version + 1
    <3>1. CASE q = [duel[t[1]] EXCEPT !.status = "WAITING", !.opponent = NoWallet, !.commitBy = -1]
      <4>1. y = [[r EXCEPT !.status = "WAITING", !.opponent = NoWallet, !.commitBy = -1]
                    EXCEPT !.version = @ + 1]
        BY <1>2, <2>1, <3>1
      <4> QED BY <4>1, RequeueWritten DEF Kept
    <3>2. CASE \E s \in {"REFUNDING", "CANCELLED"} : q = [duel[t[1]] EXCEPT !.commitBy = -1, !.status = s]
      <4>1. PICK s \in DuelStatuses : q = [r EXCEPT !.commitBy = -1, !.status = s]
        BY <1>2, <3>2 DEF DuelStatuses
      <4>2. [r EXCEPT !.commitBy = -1, !.status = s] = [r EXCEPT !.status = s, !.commitBy = -1]
        BY DEF DuelRow
      <4>3. y = [[r EXCEPT !.status = s, !.commitBy = -1] EXCEPT !.version = @ + 1]
        BY <2>1, <4>1, <4>2
      <4> QED BY <4>3, EndWritten DEF Kept
    <3> QED BY <1>1, <3>1, <3>2
  <2>3. duel'[d] = y
    BY <1>1, <1>2, <2>1 DEF MoveDuel, MatchInv, MatchTypes
  <2>4. r.version \in Nat
    BY DEF DuelRow
  <2> QED BY <1>2, <2>2, <2>3, <2>4
<1> QED BY <1>2, <1>3, <1>5, <1>6

\* Nobody is charged for a match whose own window has not ended, although the expiry
\* pass works from rows it read before other requests moved them.
THEOREM TheLateAreCharged == MatchSpec => OnlyTheLateAreCharged
<1> DEFINE Late == \A w \in Wallets : behavior'[w] # behavior[w] =>
                     \/ call[w].pc = "cancel"
                     \/ \E d \in Duels : /\ duel'[d] # duel[d] /\ w \in {duel[d].creator, duel[d].opponent}
                                         /\ duel[d].commitBy \in 0..clock
<1>1. ASSUME MatchInv, [MatchNext]_matchVars, ~ UNCHANGED behavior
      PROVE  Late
  <2>1. PICK w \in Wallets : Cancel(w) \/ ExpireCommitment(w)
    <3>1. ~ (TreasuryNext /\ UNCHANGED <<ticket, behavior, call, calls, clock>>) /\ ~ Tick
          /\ ~ UNCHANGED matchVars /\ \A d \in Duels : ~ PlayerDuelMoves(d)
      BY <1>1 DEF Tick, matchVars, PlayerDuelMoves
    <3>2. PICK w \in Wallets : MatchStep(w)
      BY <1>1, <3>1 DEF MatchNext
    <3>3. ~ (\/ BeginCall(w) \/ ReadSearches(w) \/ ExpireSearch(w) \/ FindSession(w)
             \/ DeleteStaleTickets(w) \/ AssertAllowed(w) \/ ReplaySearch(w) \/ AssignCandidate(w)
             \/ CreateSearch(w) \/ ReadTicket(w) \/ HouseFallback(w) \/ PersistRefusal(w))
      BY <1>1 DEF BeginCall, ReadSearches, ExpireSearch, FindSession, DeleteStaleTickets, AssertAllowed,
         ReplaySearch, AssignCandidate, CreateSearch, ReadTicket, HouseFallback, PersistRefusal
    <3> QED BY <3>2, <3>3 DEF MatchStep
  <2>2. CASE ExpireCommitment(w)
    BY <1>1, <2>2, LateIsCharged
  <2>3. CASE Cancel(w)
    <3>1. \A v \in Wallets : v # w => behavior'[v] = behavior[v]
      <4>1. behavior \in [Wallets -> BehaviorRow]
        BY <1>1 DEF MatchInv, MatchTypes
      <4>2. behavior' = behavior \/ behavior' = RecordFailedCommitment(w, call[w].now)
        BY <2>3 DEF Cancel
      <4> QED BY <4>1, <4>2 DEF RecordFailedCommitment
    <3>2. call[w].pc = "cancel"
      BY <2>3 DEF Cancel
    <3> QED BY <3>1, <3>2
  <2> QED BY <2>1, <2>2, <2>3
<1> HIDE DEF Late
<1>2. MatchInv /\ [MatchNext]_matchVars => [Late]_behavior
  BY <1>1
<1>3. MatchSpec => [][Late]_behavior
  BY <1>2, MatchInvariant, PTL DEF MatchSpec
<1> QED BY <1>3 DEF Late, OnlyTheLateAreCharged

(*****************************************************************************)
(* Signing in.                                                              *)
(*****************************************************************************)

\* Signing in with everything that may happen to the tab, the balances it reads included.
WalletSpec == AuthInit /\ [][SignInStep(AuthOps) \/ BalanceStep]_authVars

Wallet == Accounts \cup {NoAccount}
TabType == [address : Wallet,
            status : {"unauthenticated", "restoring", "preparing", "ready", "signing", "authenticated", "error"},
            session : WalletSessions \cup {0}, stored : WalletSessions \cup {0},
            challenge : Challenges \cup {0}, balance : Wallet,
            balanceStatus : {"idle", "loading", "ready", "error"}]
OpType == [pc : {"idle", "requestChallenge", "challengeReply", "postSignature", "consume", "sessionReply",
                 "sign", "validate", "refused"},
           wallet : Wallet, challenge : Challenges \cup {0}, session : WalletSessions \cup {0},
           current : BOOLEAN, now : Nat]
ReadType == [wallet : Wallet, current : BOOLEAN]
ChallengeType == [wallet : Wallet, row : {"none", "open", "consumed", "deleted"}, created : Nat]
SessionType == [wallet : Wallet, row : {"none", "live", "revoked", "deleted"},
                challenge : Challenges \cup {0}, ends : Nat]

AuthTypes ==
  /\ tab \in TabType /\ authOp \in [AuthOps -> OpType] /\ reads \subseteq ReadType
  /\ authTime \in Nat /\ left \subseteq Challenges

(***************************************************************************)
(* The inductive invariant: the rows, the operations, the tab.             *)
(***************************************************************************)
Issued == {c \in Challenges : challenge[c].row # "none"}

\* A deleted challenge is older than the window that counts it, and a session is of the
\* wallet of the challenge it consumed.
RowsFit ==
  /\ challenge \in [Challenges -> ChallengeType] /\ wsession \in [WalletSessions -> SessionType]
  /\ IsFiniteSet(Issued)
  /\ \A c \in Challenges : /\ challenge[c].created <= authTime
                           /\ challenge[c].row = "deleted" => challenge[c].created < authTime - CHALLENGE_WINDOW
  /\ \A s \in WalletSessions :
       IF wsession[s].row = "none" THEN wsession[s] = NoWalletSession
       ELSE /\ wsession[s].challenge \in Challenges
            /\ challenge[wsession[s].challenge].row = "consumed"
            /\ challenge[wsession[s].challenge].wallet = wsession[s].wallet
  /\ \A r, s \in WalletSessions :
       wsession[r].row # "none" /\ wsession[r].challenge = wsession[s].challenge => r = s

\* What an operation x waiting for a reply knows.  One that is current is of the connected
\* wallet and of nothing the player signed out of.
OpKnows(x) ==
  /\ x.now <= authTime
  /\ x.challenge # 0 => challenge[x.challenge].row # "none" /\ challenge[x.challenge].wallet = x.wallet
  /\ x.session # 0 => wsession[x.session].row # "none" /\ wsession[x.session].wallet = x.wallet
  /\ x.pc \in {"challengeReply", "sign", "postSignature", "consume", "sessionReply"} => x.challenge # 0
  /\ x.pc \in {"validate", "sessionReply"} => x.session # 0
  /\ x.current => /\ x.wallet = tab.address /\ x.challenge \notin left
                  /\ SessionChallenge(x.session) \notin left

TabKnows ==
  /\ tab.session # 0 => wsession[tab.session].row # "none"
  /\ tab.stored # 0 => wsession[tab.stored].row # "none"
  /\ tab.challenge # 0 => challenge[tab.challenge].row # "none"
  /\ tab.challenge \notin left /\ left \subseteq Issued
  /\ SessionChallenge(tab.session) \notin left /\ SessionChallenge(tab.stored) \notin left
  /\ tab.status = "authenticated" => tab.session # 0 /\ SessionWallet(tab.session) = tab.address
  /\ tab.balanceStatus = "ready" => tab.balance = tab.address
  /\ \A r \in reads : r.current => r.wallet = tab.address

AuthInv == AuthTypes /\ RowsFit /\ (\A o \in AuthOps : OpKnows(authOp[o])) /\ TabKnows

LEMMA Initial == AuthInit => AuthInv
<1> SUFFICES ASSUME AuthInit PROVE AuthInv
  OBVIOUS
<1>1. AuthTypes
  <2>1. tab \in TabType
    BY DEF AuthInit, TabType, Wallet
  <2>2. AuthIdle \in OpType
    BY DEF AuthIdle, OpType, Wallet
  <2> QED
    BY <2>1, <2>2 DEF AuthInit, AuthTypes, ReadType
<1>2. RowsFit
  <2>1. NoChallenge \in ChallengeType /\ NoWalletSession \in SessionType
    BY DEF NoChallenge, ChallengeType, NoWalletSession, SessionType, Wallet
  <2>2. Issued = {} /\ IsFiniteSet({})
    BY FS_EmptySet DEF AuthInit, Issued, NoChallenge
  <2> QED
    BY <2>1, <2>2 DEF AuthInit, RowsFit, NoChallenge, NoWalletSession
<1>3. \A o \in AuthOps : OpKnows(authOp[o])
  BY DEF AuthInit, OpKnows, AuthIdle, SessionChallenge
<1>4. TabKnows
  BY DEF AuthInit, TabKnows, SessionChallenge
<1> QED
  BY <1>1, <1>2, <1>3, <1>4 DEF AuthInv

\* A non-empty set of row numbers has a least one.
LEMMA Least ==
  ASSUME NEW S, S \subseteq Nat, S # {}
  PROVE  Min(S) \in S
<1> DEFINE Below == {p \in Nat \X Nat : p[1] < p[2]}
<1>1. OpToRel(<, Nat) = Below
  BY Zenon DEF OpToRel
<1>2. IsWellFoundedOn(Below, Nat)
  BY <1>1, NatLessThanWellFounded, Zenon
<1>3. \A x, y \in Nat : x < y => <<x, y>> \in Below
  OBVIOUS
<1> HIDE DEF Below
<1>4. PICK x \in S : \A y \in S : ~(<<y, x>> \in Below)
  BY <1>2, WFMin
<1>5. \A y \in S : x <= y
  <2> SUFFICES ASSUME NEW y \in S PROVE x <= y
    OBVIOUS
  <2>1. x \in Nat /\ y \in Nat
    OBVIOUS
  <2>2. ~(y < x)
    BY <1>3, <1>4, <2>1, Zenon
  <2> QED
    BY <2>1, <2>2
<1> QED
  BY <1>5 DEF Min

-----------------------------------------------------------------------------
(***************************************************************************)
(* The rows.                                                               *)
(***************************************************************************)
\* A row that was written stays, its wallet, its time and its challenge the same.
RowsGrow ==
  /\ RowsFit' /\ authTime' \in Nat /\ authTime <= authTime'
  /\ \A c \in Challenges : challenge[c].row # "none" =>
       /\ challenge'[c].row # "none" /\ challenge'[c].wallet = challenge[c].wallet
       /\ challenge'[c].created = challenge[c].created
  /\ \A s \in WalletSessions : wsession[s].row # "none" =>
       /\ wsession'[s].row # "none" /\ wsession'[s].wallet = wsession[s].wallet
       /\ wsession'[s].challenge = wsession[s].challenge

\* The tab keeps its wallet and nothing is signed out of: an operation knows what it knew.
LEMMA OpsStay ==
  ASSUME AuthInv, RowsGrow, tab'.address = tab.address, left' = left, NEW x \in OpType, OpKnows(x)
  PROVE  OpKnows(x)'
<1>1. /\ x.challenge \in Challenges \cup {0} /\ x.session \in WalletSessions \cup {0}
      /\ x.now \in Nat /\ x.now <= authTime /\ authTime \in Nat
  BY DEF OpKnows, OpType, AuthInv, AuthTypes
<1>2. SessionChallenge(x.session)' = SessionChallenge(x.session)
  BY <1>1 DEF RowsGrow, OpKnows, SessionChallenge
<1>3. x.now <= authTime'
  BY <1>1 DEF RowsGrow
<1> QED
  BY <1>1, <1>2, <1>3 DEF RowsGrow, OpKnows

LEMMA TabStays ==
  ASSUME AuthInv, RowsGrow, UNCHANGED <<tab, left, reads>>
  PROVE  TabKnows'
  BY WalletSessionConstants DEF AuthInv, AuthTypes, TabType, RowsGrow, RowsFit, TabKnows, SessionChallenge, SessionWallet, Issued

LEMMA RowsKept ==
  ASSUME AuthInv, UNCHANGED <<challenge, wsession, authTime>>
  PROVE  RowsGrow
  BY DEF AuthInv, AuthTypes, RowsGrow, RowsFit, Issued

\* Only the state of session rows changes.
LEMMA SessionsClosed ==
  ASSUME AuthInv, UNCHANGED <<challenge, authTime>>,
         wsession' \in [WalletSessions -> SessionType],
         \A s \in WalletSessions :
           /\ wsession[s].row = "none" => wsession'[s] = wsession[s]
           /\ wsession[s].row # "none" =>
                /\ wsession'[s].row # "none" /\ wsession'[s].wallet = wsession[s].wallet
                /\ wsession'[s].challenge = wsession[s].challenge
  PROVE  RowsGrow
  BY DEF AuthInv, AuthTypes, RowsGrow, RowsFit, Issued, NoWalletSession

LEMMA RevokeRows ==
  ASSUME AuthInv, NEW S, wsession' \in Revoked(S), UNCHANGED <<challenge, authTime>>
  PROVE  RowsGrow
<1>1. wsession \in [WalletSessions -> SessionType]
  BY DEF AuthInv, RowsFit
<1>2. \A y \in SessionType : /\ [y EXCEPT !.row = "revoked"] \in SessionType
                             /\ [y EXCEPT !.row = "revoked"].row = "revoked"
                             /\ [y EXCEPT !.row = "revoked"].wallet = y.wallet
                             /\ [y EXCEPT !.row = "revoked"].challenge = y.challenge
  BY DEF SessionType
<1>3. \/ wsession' = wsession
      \/ wsession' = [s \in WalletSessions |-> IF s \in S /\ wsession[s].row = "live"
                                                THEN [wsession[s] EXCEPT !.row = "revoked"] ELSE wsession[s]]
  BY DEF Revoked
<1>4. CASE wsession' = wsession
  BY <1>4, RowsKept
<1>5. CASE wsession' # wsession
  BY <1>1, <1>2, <1>3, <1>5, SessionsClosed
<1> QED
  BY <1>4, <1>5

\* What the cleanup at time now leaves.
LEMMA Cleaned ==
  ASSUME AuthInv, NEW now \in Nat
  PROVE  /\ CleanupSessions(now) \in [WalletSessions -> SessionType]
         /\ \A s \in WalletSessions :
              /\ wsession[s].row = "none" => CleanupSessions(now)[s] = wsession[s]
              /\ wsession[s].row # "none" =>
                   /\ CleanupSessions(now)[s].row # "none"
                   /\ CleanupSessions(now)[s].wallet = wsession[s].wallet
                   /\ CleanupSessions(now)[s].challenge = wsession[s].challenge
         /\ CleanupChallenges(now) \in [Challenges -> ChallengeType]
         /\ \A c \in Challenges :
              /\ CleanupChallenges(now)[c].wallet = challenge[c].wallet
              /\ CleanupChallenges(now)[c].created = challenge[c].created
              /\ \/ CleanupChallenges(now)[c].row = challenge[c].row
                 \/ /\ CleanupChallenges(now)[c].row = "deleted" /\ challenge[c].row = "open"
                    /\ challenge[c].created < now - CHALLENGE_WINDOW
<1>1. wsession \in [WalletSessions -> SessionType] /\ challenge \in [Challenges -> ChallengeType]
  BY DEF AuthInv, RowsFit
<1>2. \A y \in SessionType : /\ [y EXCEPT !.row = "deleted"] \in SessionType
                             /\ [y EXCEPT !.row = "deleted"].row = "deleted"
                             /\ [y EXCEPT !.row = "deleted"].wallet = y.wallet
                             /\ [y EXCEPT !.row = "deleted"].challenge = y.challenge
  BY DEF SessionType
<1>3. \A y \in ChallengeType : /\ [y EXCEPT !.row = "deleted"] \in ChallengeType
                               /\ [y EXCEPT !.row = "deleted"].row = "deleted"
                               /\ [y EXCEPT !.row = "deleted"].wallet = y.wallet
                               /\ [y EXCEPT !.row = "deleted"].created = y.created
  BY DEF ChallengeType
<1>4. \A s \in WalletSessions :
        \/ CleanupSessions(now)[s] = wsession[s]
        \/ wsession[s].row # "none" /\ CleanupSessions(now)[s] = [wsession[s] EXCEPT !.row = "deleted"]
  BY DEF CleanupSessions
<1>5. \A c \in Challenges :
        \/ CleanupChallenges(now)[c] = challenge[c]
        \/ /\ challenge[c].row = "open" /\ challenge[c].created < now - CHALLENGE_WINDOW
           /\ CleanupChallenges(now)[c] = [challenge[c] EXCEPT !.row = "deleted"]
  BY DEF CleanupChallenges
<1>6. CleanupSessions(now) \in [WalletSessions -> SessionType]
  BY <1>1, <1>2 DEF CleanupSessions
<1>7. CleanupChallenges(now) \in [Challenges -> ChallengeType]
  BY <1>1, <1>3 DEF CleanupChallenges
<1>8. \A s \in WalletSessions :
        /\ wsession[s].row = "none" => CleanupSessions(now)[s] = wsession[s]
        /\ wsession[s].row # "none" =>
             /\ CleanupSessions(now)[s].row # "none"
             /\ CleanupSessions(now)[s].wallet = wsession[s].wallet
             /\ CleanupSessions(now)[s].challenge = wsession[s].challenge
  BY <1>1, <1>2, <1>4
<1>9. \A c \in Challenges :
        /\ CleanupChallenges(now)[c].wallet = challenge[c].wallet
        /\ CleanupChallenges(now)[c].created = challenge[c].created
        /\ \/ CleanupChallenges(now)[c].row = challenge[c].row
           \/ /\ CleanupChallenges(now)[c].row = "deleted" /\ challenge[c].row = "open"
              /\ challenge[c].created < now - CHALLENGE_WINDOW
  <2> SUFFICES ASSUME NEW c \in Challenges
               PROVE  /\ CleanupChallenges(now)[c].wallet = challenge[c].wallet
                      /\ CleanupChallenges(now)[c].created = challenge[c].created
                      /\ \/ CleanupChallenges(now)[c].row = challenge[c].row
                         \/ /\ CleanupChallenges(now)[c].row = "deleted" /\ challenge[c].row = "open"
                            /\ challenge[c].created < now - CHALLENGE_WINDOW
    OBVIOUS
  <2>1. challenge[c] \in ChallengeType
    BY <1>1
  <2>2. CASE CleanupChallenges(now)[c] = challenge[c]
    BY <2>2
  <2>3. CASE CleanupChallenges(now)[c] # challenge[c]
    BY <1>3, <1>5, <2>1, <2>3
  <2> QED
    BY <2>2, <2>3
<1> QED
  BY <1>6, <1>7, <1>8, <1>9

\* What may become of challenge row c, and of session row s that no request creates.
ChallengeMay(c) ==
  \/ /\ challenge[c].row = "none" /\ challenge'[c].row = "open" /\ challenge'[c].created = authTime
  \/ /\ challenge'[c].wallet = challenge[c].wallet /\ challenge'[c].created = challenge[c].created
     /\ \/ challenge'[c].row = challenge[c].row
        \/ challenge[c].row = "open" /\ challenge'[c].row = "consumed"
        \/ /\ challenge[c].row = "open" /\ challenge'[c].row = "deleted"
           /\ challenge[c].created < authTime - CHALLENGE_WINDOW
SessionMay(s) ==
  /\ wsession[s].row = "none" => wsession'[s] = wsession[s]
  /\ wsession[s].row # "none" =>
       /\ wsession'[s].row # "none" /\ wsession'[s].wallet = wsession[s].wallet
       /\ wsession'[s].challenge = wsession[s].challenge
\* Session row s is created for challenge c.
SessionNew(s, c) ==
  /\ wsession[s].row = "none" /\ challenge[c].row = "open" /\ challenge'[c].row = "consumed"
  /\ wsession'[s].row = "live" /\ wsession'[s].challenge = c /\ wsession'[s].wallet = challenge[c].wallet

LEMMA RowsMove ==
  ASSUME AuthInv, authTime' = authTime, IsFiniteSet(Issued)',
         challenge' \in [Challenges -> ChallengeType], wsession' \in [WalletSessions -> SessionType],
         \A c \in Challenges : ChallengeMay(c),
         \/ \A s \in WalletSessions : SessionMay(s)
         \/ \E s \in WalletSessions, c \in Challenges :
              SessionNew(s, c) /\ \A r \in WalletSessions \ {s} : SessionMay(r)
  PROVE  RowsGrow
<1>1. /\ authTime \in Nat /\ CHALLENGE_WINDOW \in Nat
      /\ challenge \in [Challenges -> ChallengeType] /\ wsession \in [WalletSessions -> SessionType]
  BY WalletSessionConstants DEF AuthInv, AuthTypes, RowsFit
<1>2. \A c \in Challenges :
        /\ challenge[c].created \in Nat /\ challenge[c].created <= authTime
        /\ challenge[c].row = "deleted" => challenge[c].created < authTime - CHALLENGE_WINDOW
  BY <1>1 DEF AuthInv, RowsFit, ChallengeType
<1>3. \A c \in Challenges :
        /\ challenge'[c].created <= authTime
        /\ challenge'[c].row = "deleted" => challenge'[c].created < authTime - CHALLENGE_WINDOW
  BY <1>1, <1>2 DEF ChallengeMay
<1>4. \A c \in Challenges :
        /\ challenge[c].row = "consumed" => challenge'[c].row = "consumed"
        /\ challenge[c].row # "none" =>
             /\ challenge'[c].row # "none" /\ challenge'[c].wallet = challenge[c].wallet
             /\ challenge'[c].created = challenge[c].created
  BY DEF ChallengeMay
<1>5. \A s \in WalletSessions :
        IF wsession[s].row = "none" THEN wsession[s] = NoWalletSession
        ELSE /\ wsession[s].challenge \in Challenges
             /\ challenge[wsession[s].challenge].row = "consumed"
             /\ challenge[wsession[s].challenge].wallet = wsession[s].wallet
  BY DEF AuthInv, RowsFit
<1>6. \A r, s \in WalletSessions :
        wsession[r].row # "none" /\ wsession[r].challenge = wsession[s].challenge => r = s
  BY DEF AuthInv, RowsFit
<1>7. NoWalletSession.row = "none" /\ NoWalletSession.challenge \notin Challenges
  BY WalletSessionConstants DEF NoWalletSession
<1> DEFINE Fit == /\ \A s \in WalletSessions :
                       IF wsession'[s].row = "none" THEN wsession'[s] = NoWalletSession
                       ELSE /\ wsession'[s].challenge \in Challenges
                            /\ challenge'[wsession'[s].challenge].row = "consumed"
                            /\ challenge'[wsession'[s].challenge].wallet = wsession'[s].wallet
                  /\ \A r, s \in WalletSessions :
                       wsession'[r].row # "none" /\ wsession'[r].challenge = wsession'[s].challenge => r = s
                  /\ \A s \in WalletSessions : wsession[s].row # "none" =>
                       /\ wsession'[s].row # "none" /\ wsession'[s].wallet = wsession[s].wallet
                       /\ wsession'[s].challenge = wsession[s].challenge
<1>8. CASE \A s \in WalletSessions : SessionMay(s)
  <2>1. Fit
    BY <1>4, <1>5, <1>6, <1>7, <1>8 DEF SessionMay
  <2> QED
    BY <1>1, <1>3, <1>4, <2>1 DEF RowsGrow, RowsFit
<1>9. CASE \E s \in WalletSessions, c \in Challenges :
              SessionNew(s, c) /\ \A r \in WalletSessions \ {s} : SessionMay(r)
  <2> PICK s \in WalletSessions, c \in Challenges :
        SessionNew(s, c) /\ \A r \in WalletSessions \ {s} : SessionMay(r)
    BY <1>9
  <2>1. \A r \in WalletSessions : wsession[r].challenge # c /\ (r # s => wsession'[r].challenge = wsession[r].challenge)
    BY <1>5, <1>7 DEF SessionNew, SessionMay
  <2>2. Fit
    BY <1>4, <1>5, <1>6, <1>7, <2>1 DEF SessionMay, SessionNew
  <2> QED
    BY <1>1, <1>3, <1>4, <2>2 DEF RowsGrow, RowsFit
<1> QED
  BY <1>8, <1>9

-----------------------------------------------------------------------------
(***************************************************************************)
(* One operation moves on while the tab keeps its wallet.                  *)
(***************************************************************************)
\* The changed fields of an operation.
LEMMA OpFields ==
  /\ AuthIdle \in OpType
  /\ \A x \in OpType, pc \in {"challengeReply", "postSignature", "consume", "sessionReply", "refused"} :
       /\ [x EXCEPT !.pc = pc] \in OpType
       /\ [x EXCEPT !.pc = pc].pc = pc
  /\ \A x \in OpType, c \in Challenges \cup {0} : [x EXCEPT !.challenge = c] \in OpType
  /\ \A x \in OpType, s \in WalletSessions \cup {0} : [x EXCEPT !.session = s] \in OpType
  /\ \A x \in OpType, n \in Nat : [x EXCEPT !.now = n] \in OpType
<1>1. AuthIdle \in OpType
  BY DEF AuthIdle, OpType, Wallet
<1>2. \A x \in OpType, pc \in {"challengeReply", "postSignature", "consume", "sessionReply", "refused"} :
       /\ [x EXCEPT !.pc = pc] \in OpType
       /\ [x EXCEPT !.pc = pc].pc = pc
  BY DEF OpType
<1>3. \A x \in OpType, c \in Challenges \cup {0} : [x EXCEPT !.challenge = c] \in OpType
  BY DEF OpType
<1>4. \A x \in OpType, s \in WalletSessions \cup {0} : [x EXCEPT !.session = s] \in OpType
  BY DEF OpType
<1>5. \A x \in OpType, n \in Nat : [x EXCEPT !.now = n] \in OpType
  BY DEF OpType
<1> QED
  BY <1>1, <1>2, <1>3, <1>4, <1>5

LEMMA IdleKnows ==
  ASSUME AuthInv PROVE AuthIdle \in OpType /\ OpKnows(AuthIdle) /\ AuthIdle.session = 0
  BY OpFields, WalletSessionConstants DEF AuthInv, AuthTypes, AuthIdle, OpKnows, SessionChallenge

\* Operation o becomes x, the others stay what they are.
LEMMA OpMoves ==
  ASSUME AuthInv, RowsGrow, tab'.address = tab.address, left' = left,
         NEW o \in AuthOps, NEW x \in OpType, OpKnows(x)', authOp' = [authOp EXCEPT ![o] = x]
  PROVE  authOp' \in [AuthOps -> OpType] /\ (\A p \in AuthOps : OpKnows(authOp[p]))'
<1>1. authOp \in [AuthOps -> OpType] /\ \A p \in AuthOps : OpKnows(authOp[p])
  BY DEF AuthInv, AuthTypes
<1>2. \A y \in OpType : OpKnows(y) => OpKnows(y)'
  BY OpsStay
<1>3. authOp' \in [AuthOps -> OpType] /\ authOp'[o] = x /\ \A p \in AuthOps \ {o} : authOp'[p] = authOp[p]
  BY <1>1
<1>4. \A p \in AuthOps : OpKnows(authOp[p])'
  BY <1>1, <1>2, <1>3 DEF OpKnows
<1> QED
  BY <1>3, <1>4

LEMMA OpEnds ==
  ASSUME AuthInv, RowsGrow, tab'.address = tab.address, left' = left,
         NEW o \in AuthOps, EndAuthOp(o)
  PROVE  authOp' \in [AuthOps -> OpType] /\ (\A p \in AuthOps : OpKnows(authOp[p]))'
<1>1. PICK x \in OpType : x = AuthIdle /\ OpKnows(x)
  BY IdleKnows
<1>2. OpKnows(x)'
  BY <1>1, OpsStay
<1> QED
  BY <1>1, <1>2, OpMoves DEF EndAuthOp

\* The tab, its reads and what was left stay.
LEMMA OnlyOps ==
  ASSUME AuthInv, RowsGrow, UNCHANGED <<tab, reads, left>>,
         authOp' \in [AuthOps -> OpType], (\A p \in AuthOps : OpKnows(authOp[p]))'
  PROVE  AuthInv'
<1>1. TabKnows'
  BY TabStays
<1>2. AuthTypes'
  BY DEF AuthInv, AuthTypes, RowsGrow
<1> QED
  BY <1>1, <1>2 DEF AuthInv, RowsGrow

\* Operation o waits for something else.
LEMMA OpWaits ==
  ASSUME AuthInv, UNCHANGED <<tab, reads, left, challenge, wsession, authTime>>,
         NEW o \in AuthOps, NEW pc \in {"postSignature", "consume", "refused"},
         NEW now \in Nat, now <= authTime, pc # "refused" => authOp[o].challenge # 0,
         \/ authOp' = [authOp EXCEPT ![o].pc = pc]
         \/ authOp' = [authOp EXCEPT ![o].pc = pc, ![o].now = now]
  PROVE  AuthInv'
<1>1. authOp[o] \in OpType /\ OpKnows(authOp[o]) /\ authOp \in [AuthOps -> OpType]
  BY DEF AuthInv, AuthTypes
<1>2. RowsGrow
  BY RowsKept
<1>3. PICK y \in OpType : y = [authOp[o] EXCEPT !.pc = pc]
  BY <1>1, OpFields
<1>4. PICK z \in OpType : z = [y EXCEPT !.now = now]
  BY <1>3, OpFields
<1>5. OpKnows(y)
  <2>1. /\ y.pc = pc /\ y.challenge = authOp[o].challenge /\ y.wallet = authOp[o].wallet
        /\ y.session = authOp[o].session /\ y.current = authOp[o].current /\ y.now = authOp[o].now
    BY <1>1, <1>3 DEF OpType
  <2> QED
    BY <1>1, <2>1 DEF OpKnows
<1>6. OpKnows(z)
  <2>1. /\ z.pc = y.pc /\ z.challenge = y.challenge /\ z.wallet = y.wallet
        /\ z.session = y.session /\ z.current = y.current /\ z.now = now
    BY <1>4 DEF OpType
  <2> QED
    BY <1>5, <2>1 DEF OpKnows
<1>7. OpKnows(y)' /\ OpKnows(z)'
  BY <1>2, <1>5, <1>6, OpsStay
<1>8. \/ authOp' = [authOp EXCEPT ![o] = y]
      \/ authOp' = [authOp EXCEPT ![o] = z]
  BY <1>1, <1>3, <1>4
<1> QED
  BY <1>2, <1>7, <1>8, OpMoves, OnlyOps

LEMMA LoseStep ==
  ASSUME AuthInv, NEW o \in AuthOps, LoseAuthMessage(o) PROVE AuthInv'
<1>1. 0 \in Nat /\ 0 <= authTime
  BY DEF AuthInv, AuthTypes
<1> QED
  BY <1>1, OpWaits DEF LoseAuthMessage

LEMMA FindStep ==
  ASSUME AuthInv, NEW o \in AuthOps, FindChallenge(o) PROVE AuthInv'
<1>1. authTime \in Nat /\ authTime <= authTime /\ authOp[o].challenge # 0
  BY DEF AuthInv, AuthTypes, OpKnows, FindChallenge
<1>2. /\ UNCHANGED <<tab, reads, left, challenge, wsession, authTime>>
      /\ \/ authOp' = [authOp EXCEPT ![o].pc = "consume", ![o].now = authTime]
         \/ authOp' = [authOp EXCEPT ![o].pc = "refused"]
  BY DEF FindChallenge
<1> QED
  BY <1>1, <1>2, OpWaits

LEMMA SignedStep ==
  ASSUME AuthInv, NEW o \in AuthOps, MessageSigned(o) PROVE AuthInv'
<1>1. 0 \in Nat /\ 0 <= authTime /\ authOp[o].challenge # 0
  BY DEF AuthInv, AuthTypes, OpKnows, MessageSigned
<1>2. /\ UNCHANGED <<tab, reads, left, challenge, wsession, authTime>>
      /\ \/ authOp' = [authOp EXCEPT ![o].pc = "postSignature"]
         \/ authOp' = [authOp EXCEPT ![o].pc = "refused"]
         \/ EndAuthOp(o)
  BY DEF MessageSigned
<1>3. CASE EndAuthOp(o)
  BY <1>2, <1>3, RowsKept, OpEnds, OnlyOps
<1>4. CASE ~EndAuthOp(o)
  BY <1>1, <1>2, <1>4, OpWaits
<1> QED
  BY <1>3, <1>4

\* Operation o is answered: with challenge c, session s, or a refusal.
LEMMA OpAnswered ==
  ASSUME AuthInv, RowsGrow, UNCHANGED <<tab, reads, left>>, NEW o \in AuthOps,
         \/ authOp' = [authOp EXCEPT ![o].pc = "refused"]
         \/ \E c \in Challenges :
              /\ authOp[o].pc = "requestChallenge" /\ challenge[c].row = "none" /\ challenge'[c].row # "none"
              /\ challenge'[c].wallet = authOp[o].wallet
              /\ authOp' = [authOp EXCEPT ![o].pc = "challengeReply", ![o].challenge = c]
         \/ \E s \in WalletSessions :
              /\ authOp[o].pc = "consume" /\ wsession'[s].row # "none"
              /\ wsession'[s].wallet = authOp[o].wallet /\ wsession'[s].challenge = authOp[o].challenge
              /\ authOp' = [authOp EXCEPT ![o].pc = "sessionReply", ![o].session = s]
  PROVE  AuthInv'
<1>1. /\ authOp[o] \in OpType /\ OpKnows(authOp[o]) /\ authOp \in [AuthOps -> OpType]
      /\ left \subseteq Issued
  BY DEF AuthInv, AuthTypes, TabKnows
<1>3. PICK x \in OpType : x = authOp[o]
  BY <1>1
<1>4. OpKnows(x)'
  BY <1>1, <1>3, OpsStay
<1>5. \E y \in OpType : OpKnows(y)' /\ authOp' = [authOp EXCEPT ![o] = y]
  <2>1. CASE authOp' = [authOp EXCEPT ![o].pc = "refused"]
    <3>1. PICK y \in OpType : y = [x EXCEPT !.pc = "refused"]
      BY OpFields
    <3>2. OpKnows(y)'
      BY <1>4, <3>1 DEF OpKnows, OpType
    <3> QED
      BY <1>1, <1>3, <2>1, <3>1, <3>2
  <2>2. ASSUME NEW c \in Challenges,
               authOp[o].pc = "requestChallenge", challenge[c].row = "none", challenge'[c].row # "none",
               challenge'[c].wallet = authOp[o].wallet,
               authOp' = [authOp EXCEPT ![o].pc = "challengeReply", ![o].challenge = c]
        PROVE  \E y \in OpType : OpKnows(y)' /\ authOp' = [authOp EXCEPT ![o] = y]
    <3>1. PICK z \in OpType : z = [x EXCEPT !.pc = "challengeReply"]
      BY OpFields
    <3>2. PICK y \in OpType : y = [z EXCEPT !.challenge = c]
      BY OpFields
    <3>3. /\ y.pc = "challengeReply" /\ y.challenge = c /\ y.wallet = x.wallet
          /\ y.session = x.session /\ y.current = x.current /\ y.now = x.now
      BY <3>1, <3>2 DEF OpType
    <3>4. c \notin left
      BY <1>1, <2>2 DEF Issued
    <3>5. c # 0 /\ x.pc = "requestChallenge"
      BY <1>3, <2>2, WalletSessionConstants
    <3>6. OpKnows(y)'
      BY <1>3, <1>4, <2>2, <3>3, <3>4, <3>5 DEF OpKnows
    <3>7. authOp' = [authOp EXCEPT ![o] = y]
      BY <1>1, <1>3, <2>2, <3>1, <3>2
    <3> QED
      BY <3>6, <3>7
  <2>3. ASSUME NEW s \in WalletSessions,
               authOp[o].pc = "consume", wsession'[s].row # "none",
               wsession'[s].wallet = authOp[o].wallet, wsession'[s].challenge = authOp[o].challenge,
               authOp' = [authOp EXCEPT ![o].pc = "sessionReply", ![o].session = s]
        PROVE  \E y \in OpType : OpKnows(y)' /\ authOp' = [authOp EXCEPT ![o] = y]
    <3>1. PICK z \in OpType : z = [x EXCEPT !.pc = "sessionReply"]
      BY OpFields
    <3>2. PICK y \in OpType : y = [z EXCEPT !.session = s]
      BY OpFields
    <3>3. /\ y.pc = "sessionReply" /\ y.challenge = x.challenge /\ y.wallet = x.wallet
          /\ y.session = s /\ y.current = x.current /\ y.now = x.now
      BY <3>1, <3>2 DEF OpType
    <3>4. s # 0 /\ x.pc = "consume"
      BY <1>3, <2>3, WalletSessionConstants
    <3>5. OpKnows(y)'
      BY <1>3, <1>4, <2>3, <3>3, <3>4 DEF OpKnows, SessionChallenge
    <3>6. authOp' = [authOp EXCEPT ![o] = y]
      BY <1>1, <1>3, <2>3, <3>1, <3>2
    <3> QED
      BY <3>5, <3>6
  <2> QED
    BY <2>1, <2>2, <2>3
<1> QED
  BY <1>5, OpMoves, OnlyOps

\* No challenge row is created.
LEMMA SameIssued ==
  ASSUME \A c \in Challenges : challenge'[c].row = "none" <=> challenge[c].row = "none"
  PROVE  Issued' = Issued
  BY DEF Issued

LEMMA IssueStep ==
  ASSUME AuthInv, NEW o \in AuthOps, IssueChallenge(o)
  PROVE  RowsGrow /\ AuthInv'
<1> DEFINE now == authOp[o].now
           w == authOp[o].wallet
           kept == CleanupChallenges(now)
           unused == {c \in Challenges : challenge[c].row = "none"}
<1>1. /\ authOp[o] \in OpType /\ now \in Nat /\ now <= authTime /\ authTime \in Nat
      /\ CHALLENGE_WINDOW \in Nat /\ w \in Wallet /\ IsFiniteSet(Issued)
      /\ challenge \in [Challenges -> ChallengeType]
  BY WalletSessionConstants DEF AuthInv, AuthTypes, OpKnows, OpType, RowsFit
<1>2. /\ wsession' = CleanupSessions(now) /\ UNCHANGED <<tab, reads, left>> /\ authTime' = authTime
      /\ authOp[o].pc = "requestChallenge"
  BY DEF IssueChallenge
<1>3. \/ challenge' = kept /\ authOp' = [authOp EXCEPT ![o].pc = "refused"]
      \/ /\ unused # {}
         /\ challenge' = [kept EXCEPT ![Min(unused)] = [wallet |-> w, row |-> "open", created |-> authTime]]
         /\ authOp' = [authOp EXCEPT ![o].pc = "challengeReply", ![o].challenge = Min(unused)]
  BY DEF IssueChallenge
<1>4. /\ wsession' \in [WalletSessions -> SessionType] /\ \A s \in WalletSessions : SessionMay(s)
      /\ kept \in [Challenges -> ChallengeType]
      /\ \A c \in Challenges :
           /\ kept[c].wallet = challenge[c].wallet
           /\ kept[c].created = challenge[c].created
           /\ \/ kept[c].row = challenge[c].row
              \/ /\ kept[c].row = "deleted" /\ challenge[c].row = "open"
                 /\ challenge[c].created < now - CHALLENGE_WINDOW
  BY <1>1, <1>2, Cleaned DEF SessionMay
<1>5. \A c \in Challenges : challenge[c].created \in Nat
  BY <1>1 DEF ChallengeType
<1> HIDE DEF kept, now, w
<1>6. CASE challenge' = kept /\ authOp' = [authOp EXCEPT ![o].pc = "refused"]
  <2>1. \A c \in Challenges : ChallengeMay(c)
    BY <1>1, <1>4, <1>5, <1>6 DEF ChallengeMay
  <2>2. IsFiniteSet(Issued)'
    BY <1>1, <2>1, <1>4, <1>6, SameIssued
  <2>3. RowsGrow
    BY <1>2, <1>4, <1>6, <2>1, <2>2, RowsMove
  <2> QED
    BY <1>2, <1>6, <2>3, OpAnswered
<1>7. CASE /\ unused # {}
           /\ challenge' = [kept EXCEPT ![Min(unused)] = [wallet |-> w, row |-> "open", created |-> authTime]]
           /\ authOp' = [authOp EXCEPT ![o].pc = "challengeReply", ![o].challenge = Min(unused)]
  <2>1. PICK c \in Challenges : c = Min(unused) /\ challenge[c].row = "none"
    <3>1. unused \subseteq Nat
      BY WalletSessionConstants
    <3> QED
      BY <1>7, <3>1, Least
  <2> HIDE DEF unused
  <2>2. [wallet |-> w, row |-> "open", created |-> authTime] \in ChallengeType
    BY <1>1 DEF ChallengeType
  <2>3. /\ challenge' \in [Challenges -> ChallengeType]
        /\ challenge'[c].row = "open" /\ challenge'[c].created = authTime /\ challenge'[c].wallet = w
        /\ \A d \in Challenges \ {c} : challenge'[d] = kept[d]
    BY <1>4, <1>7, <2>1, <2>2
  <2>4. \A d \in Challenges : ChallengeMay(d)
    BY <1>1, <1>4, <1>5, <2>1, <2>3 DEF ChallengeMay
  <2>5. Issued' = Issued \cup {c}
    BY <1>4, <2>1, <2>3 DEF Issued
  <2>6. IsFiniteSet(Issued)'
    BY <1>1, <2>5, FS_AddElement
  <2>7. RowsGrow
    BY <1>2, <1>4, <2>3, <2>4, <2>6, RowsMove
  <2>8. authOp' = [authOp EXCEPT ![o].pc = "challengeReply", ![o].challenge = c]
    BY <1>7, <2>1
  <2>9. challenge'[c].row # "none" /\ challenge'[c].wallet = authOp[o].wallet
    BY <2>3 DEF w
  <2> QED
    BY <1>2, <2>1, <2>7, <2>8, <2>9, OpAnswered
<1> QED
  BY <1>3, <1>6, <1>7

LEMMA ConsumeStep ==
  ASSUME AuthInv, NEW o \in AuthOps, ConsumeChallengeAndCreateSession(o)
  PROVE  /\ RowsGrow /\ AuthInv'
         /\ \A c \in Challenges : challenge'[c].row = "none" <=> challenge[c].row = "none"
<1> DEFINE now == authOp[o].now
           c == authOp[o].challenge
           kept == CleanupChallenges(now)
           sessions == CleanupSessions(now)
           unused == {s \in WalletSessions : wsession[s].row = "none"}
           new == [wallet |-> challenge[c].wallet, row |-> "live", challenge |-> c, ends |-> now + SESSION_TTL]
<1>1. /\ authOp[o] \in OpType /\ now \in Nat /\ now <= authTime /\ authTime \in Nat
      /\ CHALLENGE_WINDOW \in Nat /\ SESSION_TTL \in Nat /\ IsFiniteSet(Issued)
      /\ challenge \in [Challenges -> ChallengeType] /\ authOp[o].pc = "consume"
      /\ c \in Challenges /\ challenge[c].wallet = authOp[o].wallet
  BY WalletSessionConstants
  DEF AuthInv, AuthTypes, OpKnows, OpType, RowsFit, ConsumeChallengeAndCreateSession
<1>2. UNCHANGED <<tab, reads, left>> /\ authTime' = authTime
  BY DEF ConsumeChallengeAndCreateSession
<1>3. \/ /\ challenge' = kept /\ wsession' = sessions
         /\ authOp' = [authOp EXCEPT ![o].pc = "refused"]
      \/ /\ challenge[c].row = "open" /\ unused # {}
         /\ challenge' = [kept EXCEPT ![c].row = "consumed"]
         /\ wsession' = [sessions EXCEPT ![Min(unused)] = new]
         /\ authOp' = [authOp EXCEPT ![o].pc = "sessionReply", ![o].session = Min(unused)]
  BY DEF ConsumeChallengeAndCreateSession
<1>4. /\ sessions \in [WalletSessions -> SessionType]
      /\ \A s \in WalletSessions :
           /\ wsession[s].row = "none" => sessions[s] = wsession[s]
           /\ wsession[s].row # "none" =>
                /\ sessions[s].row # "none" /\ sessions[s].wallet = wsession[s].wallet
                /\ sessions[s].challenge = wsession[s].challenge
      /\ kept \in [Challenges -> ChallengeType]
      /\ \A d \in Challenges :
           /\ kept[d].wallet = challenge[d].wallet
           /\ kept[d].created = challenge[d].created
           /\ \/ kept[d].row = challenge[d].row
              \/ /\ kept[d].row = "deleted" /\ challenge[d].row = "open"
                 /\ challenge[d].created < now - CHALLENGE_WINDOW
  BY <1>1, Cleaned
<1>5. \A d \in Challenges : challenge[d].created \in Nat
  BY <1>1 DEF ChallengeType
<1>6. new \in SessionType
  <2>1. challenge[c].wallet \in Wallet /\ now + SESSION_TTL \in Nat
    BY <1>1 DEF ChallengeType
  <2> QED
    BY <1>1, <2>1 DEF SessionType
<1>7. new.row = "live" /\ new.challenge = c /\ new.wallet = challenge[c].wallet
  OBVIOUS
<1> HIDE DEF kept, sessions, now, c, new
<1>8. CASE /\ challenge' = kept /\ wsession' = sessions
           /\ authOp' = [authOp EXCEPT ![o].pc = "refused"]
  <2>1. \A d \in Challenges : ChallengeMay(d)
    BY <1>1, <1>4, <1>5, <1>8 DEF ChallengeMay
  <2>2. \A s \in WalletSessions : SessionMay(s)
    BY <1>4, <1>8 DEF SessionMay
  <2>3. \A d \in Challenges : challenge'[d].row = "none" <=> challenge[d].row = "none"
    BY <2>1, <1>4, <1>8
  <2>4. RowsGrow
    BY <1>1, <1>2, <1>4, <1>8, <2>1, <2>2, <2>3, SameIssued, RowsMove
  <2> QED
    BY <1>2, <1>8, <2>3, <2>4, OpAnswered
<1>9. CASE /\ challenge[c].row = "open" /\ unused # {}
           /\ challenge' = [kept EXCEPT ![c].row = "consumed"]
           /\ wsession' = [sessions EXCEPT ![Min(unused)] = new]
           /\ authOp' = [authOp EXCEPT ![o].pc = "sessionReply", ![o].session = Min(unused)]
  <2>1. PICK s \in WalletSessions : s = Min(unused) /\ wsession[s].row = "none"
    <3>1. unused \subseteq Nat
      BY WalletSessionConstants
    <3> QED
      BY <1>9, <3>1, Least
  <2> HIDE DEF unused
  <2>2. /\ challenge' \in [Challenges -> ChallengeType]
        /\ challenge'[c].row = "consumed" /\ challenge'[c].created = challenge[c].created
        /\ challenge'[c].wallet = challenge[c].wallet
        /\ \A d \in Challenges \ {c} : challenge'[d] = kept[d]
    <3>1. \A y \in ChallengeType : /\ [y EXCEPT !.row = "consumed"] \in ChallengeType
                                   /\ [y EXCEPT !.row = "consumed"].row = "consumed"
                                   /\ [y EXCEPT !.row = "consumed"].wallet = y.wallet
                                   /\ [y EXCEPT !.row = "consumed"].created = y.created
      BY DEF ChallengeType
    <3>2. challenge' = [kept EXCEPT ![c] = [kept[c] EXCEPT !.row = "consumed"]]
      BY <1>4, <1>9
    <3>3. kept[c] \in ChallengeType
      BY <1>1, <1>4
    <3> QED
      BY <1>1, <1>4, <3>1, <3>2, <3>3
  <2>3. /\ wsession' \in [WalletSessions -> SessionType] /\ wsession'[s] = new
        /\ \A r \in WalletSessions \ {s} : wsession'[r] = sessions[r]
    BY <1>4, <1>6, <1>9, <2>1
  <2>4. \A d \in Challenges : ChallengeMay(d)
    BY <1>1, <1>4, <1>5, <1>9, <2>2 DEF ChallengeMay
  <2>5. SessionNew(s, c) /\ \A r \in WalletSessions \ {s} : SessionMay(r)
    BY <1>4, <1>7, <1>9, <2>1, <2>2, <2>3 DEF SessionNew, SessionMay
  <2>6. \A d \in Challenges : challenge'[d].row = "none" <=> challenge[d].row = "none"
    BY <1>4, <1>9, <2>2
  <2>7. RowsGrow
    BY <1>1, <1>2, <2>2, <2>3, <2>4, <2>5, <2>6, SameIssued, RowsMove
  <2>8. authOp' = [authOp EXCEPT ![o].pc = "sessionReply", ![o].session = s]
    BY <1>9, <2>1
  <2>9. /\ wsession'[s].row # "none" /\ wsession'[s].wallet = authOp[o].wallet
        /\ wsession'[s].challenge = authOp[o].challenge
    BY <1>1, <1>7, <2>3 DEF c
  <2> QED
    BY <1>1, <1>2, <2>6, <2>7, <2>8, <2>9, OpAnswered
<1> QED
  BY <1>3, <1>8, <1>9

-----------------------------------------------------------------------------
(***************************************************************************)
(* The tab moves on.                                                       *)
(***************************************************************************)
LEMMA TabMoves ==
  ASSUME AuthInv, RowsGrow, left' = left, tab' \in TabType, reads' \subseteq ReadType, TabKnows',
         authOp' \in [AuthOps -> OpType], (\A p \in AuthOps : OpKnows(authOp[p]))'
  PROVE  AuthInv'
  BY DEF AuthInv, AuthTypes, RowsGrow

\* An operation that begins now, for the connected wallet.
LEMMA OpBegins ==
  ASSUME AuthInv, UNCHANGED <<challenge, wsession, authTime, left>>, tab'.address = tab.address,
         NEW o \in AuthOps, NEW x \in OpType, authOp' = [authOp EXCEPT ![o] = x],
         x.wallet = tab.address, x.session = 0, x.now <= authTime,
         \/ x.pc = "requestChallenge" /\ x.challenge = 0
         \/ /\ x.pc = "sign" /\ x.challenge = tab.challenge /\ tab.challenge # 0
            /\ challenge[tab.challenge].wallet = tab.address
  PROVE  authOp' \in [AuthOps -> OpType] /\ (\A p \in AuthOps : OpKnows(authOp[p]))'
<1>1. RowsGrow
  BY RowsKept
<1>2. 0 \notin left /\ (tab.challenge # 0 => challenge[tab.challenge].row # "none") /\ tab.challenge \notin left
  BY WalletSessionConstants DEF AuthInv, AuthTypes, TabKnows
<1>3. OpKnows(x)'
  BY <1>2 DEF OpKnows, SessionChallenge
<1> QED
  BY <1>1, <1>3, OpMoves

LEMMA PrepareStep ==
  ASSUME AuthInv, NEW o \in AuthOps, Prepare(o) PROVE AuthInv'
<1>1. tab \in TabType /\ TabKnows /\ authTime \in Nat /\ reads \subseteq ReadType
  BY DEF AuthInv, AuthTypes
<1>2. tab' = [tab EXCEPT !.status = "preparing"] /\ UNCHANGED <<reads, challenge, wsession, authTime, left>>
  BY DEF Prepare
<1>3. /\ tab' \in TabType /\ tab'.status = "preparing"
      /\ tab'.address = tab.address /\ tab'.session = tab.session /\ tab'.stored = tab.stored
      /\ tab'.challenge = tab.challenge /\ tab'.balance = tab.balance /\ tab'.balanceStatus = tab.balanceStatus
  BY <1>1, <1>2 DEF TabType
<1>4. TabKnows'
  BY <1>1, <1>2, <1>3 DEF TabKnows, SessionChallenge, Issued
<1> DEFINE y == [AuthIdle EXCEPT !.pc = "requestChallenge", !.wallet = tab.address, !.current = TRUE, !.now = authTime]
<1>5. PICK x \in OpType : x = y
  <2>1. PICK w \in Wallet : w = tab.address
    BY <1>1 DEF TabType
  <2>2. [AuthIdle EXCEPT !.pc = "requestChallenge", !.wallet = w, !.current = TRUE, !.now = authTime] \in OpType
    BY <1>1, OpFields DEF OpType
  <2> QED
    BY <2>1, <2>2
<1>6. /\ x.pc = "requestChallenge" /\ x.wallet = tab.address /\ x.challenge = 0 /\ x.session = 0
      /\ x.now <= authTime
  BY <1>1, <1>5 DEF AuthIdle
<1>7. authOp' = [authOp EXCEPT ![o] = x]
  BY <1>5 DEF Prepare
<1> QED
  BY <1>1, <1>2, <1>3, <1>4, <1>6, <1>7, OpBegins, RowsKept, TabMoves

LEMMA SignInBegins ==
  ASSUME AuthInv, NEW o \in AuthOps, SignIn(o) PROVE AuthInv'
<1>1. tab \in TabType /\ TabKnows /\ authTime \in Nat /\ reads \subseteq ReadType
  BY DEF AuthInv, AuthTypes
<1>2. UNCHANGED <<reads, challenge, wsession, authTime, left>> /\ tab.challenge # 0
  BY DEF SignIn
<1>3. PICK st \in {"error", "signing"} : tab' = [tab EXCEPT !.status = st]
  BY DEF SignIn
<1>4. /\ tab' \in TabType /\ tab'.status = st
      /\ tab'.address = tab.address /\ tab'.session = tab.session /\ tab'.stored = tab.stored
      /\ tab'.challenge = tab.challenge /\ tab'.balance = tab.balance /\ tab'.balanceStatus = tab.balanceStatus
  BY <1>1, <1>3 DEF TabType
<1>5. TabKnows'
  BY <1>1, <1>2, <1>4 DEF TabKnows, SessionChallenge, Issued
<1> DEFINE y == [AuthIdle EXCEPT !.pc = "sign", !.wallet = tab.address, !.challenge = tab.challenge, !.current = TRUE]
<1>6. PICK x \in OpType : x = y
  <2>1. PICK w \in Wallet, c \in Challenges \cup {0} : w = tab.address /\ c = tab.challenge
    BY <1>1 DEF TabType
  <2>2. [AuthIdle EXCEPT !.pc = "sign", !.wallet = w, !.challenge = c, !.current = TRUE] \in OpType
    BY OpFields DEF OpType
  <2> QED
    BY <2>1, <2>2
<1>7. /\ x.pc = "sign" /\ x.wallet = tab.address /\ x.challenge = tab.challenge /\ x.session = 0
      /\ x.now <= authTime
  BY <1>1, <1>6 DEF AuthIdle
<1>8. CASE UNCHANGED authOp
  <2>1. authOp' \in [AuthOps -> OpType] /\ (\A p \in AuthOps : OpKnows(authOp[p]))'
    BY <1>2, <1>4, <1>8 DEF AuthInv, AuthTypes, OpKnows, SessionChallenge
  <2> QED
    BY <1>1, <1>2, <1>4, <1>5, <2>1, RowsKept, TabMoves
<1>9. CASE authOp' = [authOp EXCEPT ![o] = y] /\ challenge[tab.challenge].wallet = tab.address
  <2>1. authOp' = [authOp EXCEPT ![o] = x]
    BY <1>6, <1>9
  <2> QED
    BY <1>1, <1>2, <1>4, <1>5, <1>7, <1>9, <2>1, OpBegins, RowsKept, TabMoves
<1> QED
  BY <1>8, <1>9 DEF SignIn

LEMMA ChallengeArrivesStep ==
  ASSUME AuthInv, NEW o \in AuthOps, ChallengeArrives(o) PROVE AuthInv'
<1>1. /\ tab \in TabType /\ TabKnows /\ reads \subseteq ReadType /\ authOp[o] \in OpType
      /\ OpKnows(authOp[o]) /\ left \subseteq Challenges
  BY DEF AuthInv, AuthTypes
<1>2. UNCHANGED <<reads, challenge, wsession, authTime, left>> /\ EndAuthOp(o)
  BY DEF ChallengeArrives
<1>3. tab'.address = tab.address /\ tab' \in TabType /\ TabKnows'
  <2>1. CASE IsCurrentOperation(o)
    <3>1. PICK c \in Challenges \cup {0} : c = authOp[o].challenge
      BY <1>1 DEF OpType
    <3>2. c # 0 /\ challenge[c].row # "none" /\ c \notin left
      BY <1>1, <2>1, <3>1 DEF OpKnows, IsCurrentOperation, ChallengeArrives
    <3>3. tab' = [tab EXCEPT !.challenge = c, !.status = "ready"]
      BY <2>1, <3>1 DEF ChallengeArrives
    <3>4. /\ tab' \in TabType /\ tab'.status = "ready" /\ tab'.challenge = c
          /\ tab'.address = tab.address /\ tab'.session = tab.session /\ tab'.stored = tab.stored
          /\ tab'.balance = tab.balance /\ tab'.balanceStatus = tab.balanceStatus
      BY <1>1, <3>3 DEF TabType
    <3> QED
      BY <1>1, <1>2, <3>2, <3>4 DEF TabKnows, SessionChallenge, Issued
  <2>2. CASE ~IsCurrentOperation(o)
    BY <1>1, <1>2, <2>2 DEF ChallengeArrives, TabKnows, SessionChallenge, SessionWallet, Issued
  <2> QED
    BY <2>1, <2>2
<1> QED
  BY <1>1, <1>2, <1>3, OpEnds, RowsKept, TabMoves

LEMMA FailsStep ==
  ASSUME AuthInv, NEW o \in AuthOps, OperationFails(o) PROVE AuthInv'
<1>1. tab \in TabType /\ TabKnows /\ reads \subseteq ReadType
  BY DEF AuthInv, AuthTypes
<1>2. UNCHANGED <<reads, challenge, wsession, authTime, left>> /\ EndAuthOp(o)
  BY DEF OperationFails
<1>3. tab'.address = tab.address /\ tab' \in TabType /\ TabKnows'
  <2>1. CASE tab' = [tab EXCEPT !.status = "error"]
    <3>1. /\ tab' \in TabType /\ tab'.status = "error" /\ tab'.challenge = tab.challenge
          /\ tab'.address = tab.address /\ tab'.session = tab.session /\ tab'.stored = tab.stored
          /\ tab'.balance = tab.balance /\ tab'.balanceStatus = tab.balanceStatus
      BY <1>1, <2>1 DEF TabType
    <3> QED
      BY <1>1, <1>2, <3>1 DEF TabKnows, SessionChallenge, Issued
  <2>2. CASE tab' = tab
    BY <1>1, <1>2, <2>2 DEF TabKnows, SessionChallenge, SessionWallet, Issued
  <2> QED
    BY <2>1, <2>2 DEF OperationFails
<1> QED
  BY <1>1, <1>2, <1>3, OpEnds, RowsKept, TabMoves

LEMMA SessionArrivesStep ==
  ASSUME AuthInv, NEW o \in AuthOps, SessionArrives(o) PROVE AuthInv'
<1>1. /\ tab \in TabType /\ TabKnows /\ reads \subseteq ReadType /\ authOp[o] \in OpType
      /\ OpKnows(authOp[o]) /\ left \subseteq Challenges
  BY DEF AuthInv, AuthTypes
<1>2. UNCHANGED <<reads, challenge, authTime, left>> /\ EndAuthOp(o) /\ authOp[o].pc = "sessionReply"
  BY DEF SessionArrives
<1>3. CASE IsCurrentOperation(o)
  <2>1. PICK s \in WalletSessions : s = authOp[o].session
    BY <1>1, <1>2 DEF OpType, OpKnows
  <2>2. /\ s # 0 /\ wsession[s].row # "none" /\ wsession[s].wallet = tab.address
        /\ SessionChallenge(s) \notin left
    BY <1>1, <1>2, <1>3, <2>1 DEF OpKnows, IsCurrentOperation
  <2>3. UNCHANGED wsession
    BY <1>3 DEF SessionArrives
  <2>4. tab' = [tab EXCEPT !.session = s, !.stored = s, !.challenge = 0, !.status = "authenticated"]
    BY <1>3, <2>1 DEF SessionArrives
  <2>5. /\ tab' \in TabType /\ tab'.status = "authenticated" /\ tab'.challenge = 0
        /\ tab'.address = tab.address /\ tab'.session = s /\ tab'.stored = s
        /\ tab'.balance = tab.balance /\ tab'.balanceStatus = tab.balanceStatus
    BY <1>1, <2>4 DEF TabType
  <2>6. 0 \notin left
    BY <1>1, WalletSessionConstants
  <2>7. TabKnows'
    BY <1>1, <1>2, <2>2, <2>3, <2>5, <2>6 DEF TabKnows, SessionChallenge, SessionWallet, Issued
  <2> QED
    BY <1>1, <1>2, <2>3, <2>5, <2>7, OpEnds, RowsKept, TabMoves
<1>4. CASE ~IsCurrentOperation(o)
  <2>1. wsession' \in Revoked({authOp[o].session}) /\ UNCHANGED tab
    BY <1>4 DEF SessionArrives
  <2> QED
    BY <1>2, <2>1, RevokeRows, OpEnds, OnlyOps
<1> QED
  BY <1>3, <1>4

LEMMA ValidatedStep ==
  ASSUME AuthInv, NEW o \in AuthOps, SessionValidated(o) PROVE AuthInv'
<1>1. /\ tab \in TabType /\ TabKnows /\ reads \subseteq ReadType /\ authOp[o] \in OpType
      /\ OpKnows(authOp[o]) /\ left \subseteq Challenges
  BY DEF AuthInv, AuthTypes
<1>2. UNCHANGED <<reads, challenge, wsession, authTime, left>> /\ EndAuthOp(o) /\ authOp[o].pc = "validate"
  BY DEF SessionValidated
<1>3. PICK s \in WalletSessions : s = authOp[o].session
  BY <1>1, <1>2 DEF OpType, OpKnows
<1>4. 0 \notin left /\ SessionChallenge(0) = 0
  BY <1>1, WalletSessionConstants DEF SessionChallenge
<1>5. tab'.address = tab.address /\ tab' \in TabType /\ TabKnows'
  <2>1. CASE authOp[o].current /\ tab' = [tab EXCEPT !.session = s, !.status = "authenticated"]
    <3>1. /\ s # 0 /\ wsession[s].row # "none" /\ wsession[s].wallet = tab.address
          /\ SessionChallenge(s) \notin left
      BY <1>1, <1>2, <1>3, <2>1 DEF OpKnows
    <3>2. /\ tab' \in TabType /\ tab'.status = "authenticated" /\ tab'.challenge = tab.challenge
          /\ tab'.address = tab.address /\ tab'.session = s /\ tab'.stored = tab.stored
          /\ tab'.balance = tab.balance /\ tab'.balanceStatus = tab.balanceStatus
      BY <1>1, <2>1 DEF TabType
    <3> QED
      BY <1>1, <1>2, <3>1, <3>2 DEF TabKnows, SessionChallenge, SessionWallet, Issued
  <2>2. CASE tab' = [tab EXCEPT !.stored = 0, !.session = 0, !.status = "unauthenticated"]
    <3>1. /\ tab' \in TabType /\ tab'.status = "unauthenticated" /\ tab'.challenge = tab.challenge
          /\ tab'.address = tab.address /\ tab'.session = 0 /\ tab'.stored = 0
          /\ tab'.balance = tab.balance /\ tab'.balanceStatus = tab.balanceStatus
      BY <1>1, <2>2 DEF TabType
    <3> QED
      BY <1>1, <1>2, <1>4, <3>1 DEF TabKnows, SessionChallenge, Issued
  <2>3. CASE tab' = [tab EXCEPT !.stored = 0]
    <3>1. /\ tab' \in TabType /\ tab'.status = tab.status /\ tab'.challenge = tab.challenge
          /\ tab'.address = tab.address /\ tab'.session = tab.session /\ tab'.stored = 0
          /\ tab'.balance = tab.balance /\ tab'.balanceStatus = tab.balanceStatus
      BY <1>1, <2>3 DEF TabType
    <3> QED
      BY <1>1, <1>2, <1>4, <3>1 DEF TabKnows, SessionChallenge, SessionWallet, Issued
  <2>4. CASE tab' = [tab EXCEPT !.session = 0, !.status = "unauthenticated"]
    <3>1. /\ tab' \in TabType /\ tab'.status = "unauthenticated" /\ tab'.challenge = tab.challenge
          /\ tab'.address = tab.address /\ tab'.session = 0 /\ tab'.stored = tab.stored
          /\ tab'.balance = tab.balance /\ tab'.balanceStatus = tab.balanceStatus
      BY <1>1, <2>4 DEF TabType
    <3> QED
      BY <1>1, <1>2, <1>4, <3>1 DEF TabKnows, SessionChallenge, Issued
  <2>5. CASE tab' = tab
    BY <1>1, <1>2, <2>5 DEF TabKnows, SessionChallenge, SessionWallet, Issued
  <2>6. \/ authOp[o].current /\ tab' = [tab EXCEPT !.session = s, !.status = "authenticated"]
        \/ tab' = [tab EXCEPT !.stored = 0, !.session = 0, !.status = "unauthenticated"]
        \/ tab' = [tab EXCEPT !.stored = 0]
        \/ tab' = [tab EXCEPT !.session = 0, !.status = "unauthenticated"]
        \/ tab' = tab
    BY <1>3 DEF SessionValidated
  <2> QED
    BY <2>1, <2>2, <2>3, <2>4, <2>5, <2>6
<1> QED
  BY <1>1, <1>2, <1>5, OpEnds, RowsKept, TabMoves

\* Every operation in flight becomes stale, or ends.
LEMMA OpsStale ==
  ASSUME AuthInv, RowsGrow, left' \subseteq Challenges, NEW ops, ops \in [AuthOps -> OpType],
         \A o \in AuthOps : \/ ops[o] = AuthIdle
                            \/ ops[o] = [authOp[o] EXCEPT !.current = FALSE]
  PROVE  \A o \in AuthOps : OpKnows(ops[o])'
<1> SUFFICES ASSUME NEW o \in AuthOps PROVE \A x \in OpType : x = ops[o] => OpKnows(x)'
  BY DEF OpKnows
<1> SUFFICES ASSUME NEW x \in OpType, x = ops[o] PROVE OpKnows(x)'
  OBVIOUS
<1>1. authOp[o] \in OpType /\ OpKnows(authOp[o])
  BY DEF AuthInv, AuthTypes
<1>2. authTime \in Nat /\ authTime' \in Nat /\ authTime <= authTime'
  BY DEF RowsGrow, AuthInv, AuthTypes
<1>3. CASE x = AuthIdle
  BY <1>2, <1>3 DEF AuthIdle, OpKnows
<1>4. CASE x = [authOp[o] EXCEPT !.current = FALSE]
  <2>1. /\ x.current = FALSE /\ x.pc = authOp[o].pc /\ x.wallet = authOp[o].wallet /\ x.now = authOp[o].now
        /\ x.challenge = authOp[o].challenge /\ x.session = authOp[o].session
    BY <1>1, <1>4 DEF OpType
  <2>2. x.now \in Nat /\ x.challenge \in Challenges \cup {0} /\ x.session \in WalletSessions \cup {0}
    BY DEF OpType
  <2> QED
    BY <1>1, <1>2, <2>1, <2>2 DEF OpKnows, RowsGrow
<1> QED
  BY <1>3, <1>4

LEMMA StaleOps ==
  ASSUME AuthInv PROVE Stale(authOp) \in [AuthOps -> OpType]
<1>1. \A x \in OpType : [x EXCEPT !.current = FALSE] \in OpType
  BY DEF OpType
<1> QED
  BY <1>1 DEF Stale, AuthInv, AuthTypes

LEMMA ExpireStep ==
  ASSUME AuthInv, ExpireSession PROVE AuthInv'
<1>1. /\ tab \in TabType /\ TabKnows /\ reads \subseteq ReadType /\ left \subseteq Challenges
      /\ authOp \in [AuthOps -> OpType] /\ \A o \in AuthOps : OpKnows(authOp[o])
  BY DEF AuthInv, AuthTypes
<1>2. UNCHANGED <<reads, authOp, challenge, authTime, left>> /\ wsession' \in Revoked({tab.session})
  BY DEF ExpireSession
<1>3. RowsGrow
  BY <1>2, RevokeRows
<1>4. tab' = [tab EXCEPT !.session = 0, !.stored = 0, !.challenge = 0, !.status = "unauthenticated"]
  BY DEF ExpireSession
<1>5. /\ tab' \in TabType /\ tab'.status = "unauthenticated" /\ tab'.challenge = 0
      /\ tab'.address = tab.address /\ tab'.session = 0 /\ tab'.stored = 0
      /\ tab'.balance = tab.balance /\ tab'.balanceStatus = tab.balanceStatus
  BY <1>1, <1>4 DEF TabType
<1>6. 0 \notin left /\ Issued \subseteq Issued'
  BY <1>1, <1>3, WalletSessionConstants DEF RowsGrow, Issued
<1>7. TabKnows'
  BY <1>1, <1>2, <1>5, <1>6 DEF TabKnows, SessionChallenge
<1>8. \A x \in OpType : OpKnows(x) => OpKnows(x)'
  BY <1>2, <1>3, <1>5, OpsStay
<1>9. (\A p \in AuthOps : OpKnows(authOp[p]))'
  BY <1>1, <1>2, <1>8 DEF OpKnows
<1> QED
  BY <1>1, <1>2, <1>3, <1>5, <1>7, <1>9, TabMoves

\* The reads in flight are out of date; a new one is for wallet w.
LEMMA ReadsRestart ==
  ASSUME AuthInv, NEW w \in Wallet
  PROVE  /\ OutOfDate \subseteq ReadType /\ \A r \in OutOfDate : r.current = FALSE
         /\ ReadBalances(w) \subseteq ReadType /\ \A r \in ReadBalances(w) : r.current => r.wallet = w
<1>1. \A r \in ReadType : [r EXCEPT !.current = FALSE] \in ReadType /\ [r EXCEPT !.current = FALSE].current = FALSE
  BY DEF ReadType
<1>2. OutOfDate \subseteq ReadType /\ \A r \in OutOfDate : r.current = FALSE
  BY <1>1 DEF OutOfDate, AuthInv, AuthTypes
<1>3. PICK new \in ReadType : new = [wallet |-> w, current |-> TRUE]
  <2>1. [wallet |-> w, current |-> TRUE] \in ReadType
    BY DEF ReadType
  <2> QED
    BY <2>1
<1>4. ReadBalances(w) = OutOfDate \cup {new}
  BY <1>3 DEF ReadBalances
<1>5. new.wallet = w
  BY <1>3
<1> QED
  BY <1>2, <1>4, <1>5

LEMMA RefreshStep ==
  ASSUME AuthInv, RefreshBalances PROVE AuthInv'
<1>1. /\ tab \in TabType /\ TabKnows /\ reads \subseteq ReadType /\ left \subseteq Challenges
      /\ authOp \in [AuthOps -> OpType] /\ \A o \in AuthOps : OpKnows(authOp[o])
  BY DEF AuthInv, AuthTypes
<1>2. /\ UNCHANGED <<authOp, challenge, wsession, authTime, left>> /\ reads' = ReadBalances(tab.address)
      /\ tab' = [tab EXCEPT !.balanceStatus = "loading"]
  BY DEF RefreshBalances
<1>3. /\ tab' \in TabType /\ tab'.status = tab.status /\ tab'.challenge = tab.challenge
      /\ tab'.address = tab.address /\ tab'.session = tab.session /\ tab'.stored = tab.stored
      /\ tab'.balance = tab.balance /\ tab'.balanceStatus = "loading"
  BY <1>1, <1>2 DEF TabType
<1>4. reads' \subseteq ReadType /\ \A r \in reads' : r.current => r.wallet = tab'.address
  BY <1>1, <1>2, <1>3, ReadsRestart DEF TabType
<1>5. TabKnows'
  BY <1>1, <1>2, <1>3, <1>4 DEF TabKnows, SessionChallenge, SessionWallet, Issued
<1>6. (\A p \in AuthOps : OpKnows(authOp[p]))'
  BY <1>1, <1>2, <1>3 DEF OpKnows, SessionChallenge
<1> QED
  BY <1>1, <1>2, <1>3, <1>4, <1>5, <1>6, RowsKept, TabMoves

LEMMA BalanceArrivesStep ==
  ASSUME AuthInv, BalanceArrives PROVE AuthInv'
<1>1. /\ tab \in TabType /\ TabKnows /\ reads \subseteq ReadType /\ left \subseteq Challenges
      /\ authOp \in [AuthOps -> OpType] /\ \A o \in AuthOps : OpKnows(authOp[o])
  BY DEF AuthInv, AuthTypes
<1>2. UNCHANGED <<authOp, challenge, wsession, authTime, left>> /\ reads' \subseteq reads
  BY DEF BalanceArrives
<1>3. PICK r \in reads : \/ r.current /\ tab' = [tab EXCEPT !.balance = r.wallet, !.balanceStatus = "ready"]
                         \/ tab' = [tab EXCEPT !.balanceStatus = "error"]
                         \/ tab' = tab
  BY DEF BalanceArrives
<1>4. r \in ReadType /\ (r.current => r.wallet = tab.address)
  BY <1>1 DEF TabKnows
<1>5. /\ tab' \in TabType /\ tab'.status = tab.status /\ tab'.challenge = tab.challenge
      /\ tab'.address = tab.address /\ tab'.session = tab.session /\ tab'.stored = tab.stored
      /\ tab'.balanceStatus = "ready" => tab'.balance = tab.address
  <2>1. CASE r.current /\ tab' = [tab EXCEPT !.balance = r.wallet, !.balanceStatus = "ready"]
    <3>1. r.wallet \in Wallet /\ r.wallet = tab.address
      BY <1>4, <2>1 DEF ReadType
    <3> QED
      BY <1>1, <2>1, <3>1 DEF TabType
  <2>2. CASE tab' = [tab EXCEPT !.balanceStatus = "error"]
    BY <1>1, <2>2 DEF TabType
  <2>3. CASE tab' = tab
    BY <1>1, <2>3 DEF TabKnows
  <2> QED
    BY <1>3, <2>1, <2>2, <2>3
<1>6. TabKnows'
  BY <1>1, <1>2, <1>5 DEF TabKnows, SessionChallenge, SessionWallet, Issued
<1>7. (\A p \in AuthOps : OpKnows(authOp[p]))'
  BY <1>1, <1>2, <1>5 DEF OpKnows, SessionChallenge
<1> QED
  BY <1>1, <1>2, <1>5, <1>6, <1>7, RowsKept, TabMoves

LEMMA SignOutStep ==
  ASSUME AuthInv, SignOut PROVE AuthInv'
<1>1. /\ tab \in TabType /\ TabKnows /\ reads \subseteq ReadType /\ left \subseteq Challenges
      /\ authOp \in [AuthOps -> OpType] /\ \A o \in AuthOps : OpKnows(authOp[o])
  BY DEF AuthInv, AuthTypes
<1>2. /\ UNCHANGED <<reads, challenge, authTime>> /\ authOp' = Stale(authOp)
      /\ tab' = [tab EXCEPT !.session = 0, !.stored = 0, !.challenge = 0, !.status = "unauthenticated"]
  BY DEF SignOut
<1>3. PICK stored \in {0, tab.stored} :
        left' = (left \cup {SessionChallenge(tab.session), SessionChallenge(stored)}
                       \cup {authOp[o].challenge : o \in AuthOps}) \ {0}
  BY DEF SignOut, ReadStored
<1>4. RowsGrow
  <2>1. wsession' = wsession \/ \E S : wsession' \in Revoked(S)
    BY DEF SignOut
  <2> QED
    BY <1>2, <2>1, RevokeRows, RowsKept
<1>5. /\ tab' \in TabType /\ tab'.status = "unauthenticated" /\ tab'.challenge = 0
      /\ tab'.address = tab.address /\ tab'.session = 0 /\ tab'.stored = 0
      /\ tab'.balance = tab.balance /\ tab'.balanceStatus = tab.balanceStatus
  BY <1>1, <1>2 DEF TabType
<1>6. left' \subseteq Issued /\ Issued' = Issued
  <2>1. \A s \in WalletSessions \cup {0} :
          s # 0 /\ wsession[s].row # "none" => SessionChallenge(s) \in Issued
    BY DEF AuthInv, RowsFit, Issued, SessionChallenge
  <2>2. {SessionChallenge(tab.session), SessionChallenge(stored)} \ {0} \subseteq Issued
    BY <1>1, <2>1 DEF TabType, TabKnows, SessionChallenge
  <2>3. {authOp[o].challenge : o \in AuthOps} \ {0} \subseteq Issued
    BY <1>1 DEF OpKnows, OpType, Issued
  <2> QED
    BY <1>1, <1>2, <1>3, <2>2, <2>3 DEF TabKnows, Issued
<1>7. left' \subseteq Challenges /\ 0 \notin left'
  BY <1>3, <1>6 DEF Issued
<1>8. TabKnows'
  BY <1>1, <1>2, <1>5, <1>6, <1>7 DEF TabKnows, SessionChallenge
<1>9. authOp' \in [AuthOps -> OpType] /\ (\A p \in AuthOps : OpKnows(authOp[p]))'
  <2>1. PICK ops \in [AuthOps -> OpType] : ops = Stale(authOp)
    BY StaleOps
  <2>2. \A o \in AuthOps : ops[o] = [authOp[o] EXCEPT !.current = FALSE]
    BY <2>1 DEF Stale
  <2>3. \A o \in AuthOps : OpKnows(ops[o])'
    BY <1>4, <1>7, <2>2, OpsStale
  <2>4. authOp' = ops
    BY <1>2, <2>1
  <2> QED
    BY <2>3, <2>4 DEF OpKnows
<1> QED
  BY <1>1, <1>2, <1>4, <1>5, <1>7, <1>8, <1>9 DEF AuthInv, AuthTypes, RowsGrow

LEMMA ReloadStep ==
  ASSUME AuthInv, Reload PROVE AuthInv'
<1>1. /\ tab \in TabType /\ TabKnows /\ reads \subseteq ReadType /\ left \subseteq Challenges
  BY DEF AuthInv, AuthTypes
<1>2. UNCHANGED <<challenge, wsession, authTime, left>> /\ reads' = {}
  BY DEF Reload
<1>3. /\ tab' \in TabType /\ tab'.status = "unauthenticated" /\ tab'.challenge = 0
      /\ tab'.session = 0 /\ tab'.stored = tab.stored /\ tab'.balanceStatus = "idle"
  <2>1. PICK w \in Wallet : w = NoAccount
    BY DEF Wallet
  <2>2. tab' = [tab EXCEPT !.address = w, !.status = "unauthenticated", !.session = 0, !.challenge = 0,
                           !.balance = w, !.balanceStatus = "idle"]
    BY <2>1 DEF Reload
  <2> QED
    BY <1>1, <2>2 DEF TabType
<1>4. 0 \notin left
  BY <1>1, WalletSessionConstants
<1>5. TabKnows'
  BY <1>1, <1>2, <1>3, <1>4 DEF TabKnows, SessionChallenge, Issued
<1>6. authOp' \in [AuthOps -> OpType] /\ (\A p \in AuthOps : OpKnows(authOp[p]))'
  <2>1. PICK x \in OpType : x = AuthIdle /\ OpKnows(x)
    BY IdleKnows
  <2>2. x.current = FALSE /\ x.challenge = 0 /\ x.session = 0
    BY <2>1 DEF AuthIdle
  <2>3. OpKnows(x)'
    BY <1>2, <2>1, <2>2 DEF OpKnows
  <2>4. authOp' = [o \in AuthOps |-> x]
    BY <2>1 DEF Reload
  <2> QED
    BY <2>3, <2>4 DEF OpKnows
<1> QED
  BY <1>2, <1>3, <1>5, <1>6, RowsKept, TabMoves

LEMMA TabTickStep ==
  ASSUME AuthInv, AuthTick PROVE RowsGrow /\ AuthInv'
<1>1. RowsGrow
  BY WalletSessionConstants DEF AuthInv, AuthTypes, AuthTick, RowsGrow, RowsFit, Issued, ChallengeType
<1>2. \A x \in OpType : OpKnows(x) => OpKnows(x)'
  BY <1>1, OpsStay DEF AuthTick
<1>3. authOp' \in [AuthOps -> OpType] /\ (\A p \in AuthOps : OpKnows(authOp[p]))'
  BY <1>2 DEF AuthInv, AuthTypes, AuthTick, OpKnows
<1> QED
  BY <1>1, <1>3, OnlyOps DEF AuthTick

LEMMA AccountStep ==
  ASSUME AuthInv, NEW w \in Wallet, ChangeAccount(w) PROVE AuthInv'
<1> DEFINE stored == IF tab.session # 0 THEN 0 ELSE IF w = NoAccount THEN tab.stored ELSE ReadStored(w)
           restores == w # NoAccount /\ stored # 0
           ops == [o \in AuthOps |-> IF authOp[o].pc = "validate" THEN AuthIdle
                                     ELSE [authOp[o] EXCEPT !.current = FALSE]]
           restore == [AuthIdle EXCEPT !.pc = "validate", !.wallet = w, !.session = stored, !.current = TRUE]
<1>1. /\ tab \in TabType /\ TabKnows /\ reads \subseteq ReadType /\ left \subseteq Challenges
      /\ authOp \in [AuthOps -> OpType] /\ 0 \notin left
  BY WalletSessionConstants DEF AuthInv, AuthTypes
<1>2. UNCHANGED <<challenge, authTime, left>>
  BY DEF ChangeAccount
<1>3. RowsGrow
  <2>1. wsession' = wsession \/ \E S : wsession' \in Revoked(S)
    BY DEF ChangeAccount
  <2> QED
    BY <1>2, <2>1, RevokeRows, RowsKept
<1>4. PICK s \in WalletSessions \cup {0} :
        /\ s = stored /\ s \in {0, tab.stored}
        /\ w # NoAccount /\ s # 0 => SessionWallet(s) = w
  BY <1>1 DEF TabType, ReadStored
<1>5. SessionChallenge(s) \notin left /\ (s # 0 => wsession[s].row # "none")
  BY <1>1, <1>4 DEF TabKnows, SessionChallenge
<1>6. /\ tab' \in TabType /\ tab'.address = w /\ tab'.session = 0 /\ tab'.challenge = 0 /\ tab'.stored = s
      /\ tab'.status # "authenticated" /\ tab'.balanceStatus # "ready"
  <2>1. PICK st \in {"restoring", "unauthenticated"}, bs \in {"idle", "loading"}, b \in Wallet :
          tab' = [tab EXCEPT !.address = w, !.session = 0, !.challenge = 0, !.stored = s, !.status = st,
                             !.balance = b, !.balanceStatus = bs]
    <3>1. NoAccount \in Wallet /\ tab.balance \in Wallet
      BY <1>1 DEF TabType, Wallet
    <3>2. tab' = [tab EXCEPT !.address = w, !.session = 0, !.challenge = 0, !.stored = s,
                             !.status = IF restores THEN "restoring" ELSE "unauthenticated",
                             !.balance = IF w = NoAccount THEN NoAccount ELSE tab.balance,
                             !.balanceStatus = IF w = NoAccount THEN "idle" ELSE "loading"]
      BY <1>4 DEF ChangeAccount
    <3> QED
      BY <3>1, <3>2
  <2> QED
    BY <1>1, <2>1 DEF TabType
<1>7. reads' \subseteq ReadType /\ \A r \in reads' : r.current => r.wallet = w
  BY ReadsRestart DEF ChangeAccount
<1>8. TabKnows'
  BY <1>1, <1>2, <1>3, <1>5, <1>6, <1>7 DEF TabKnows, SessionChallenge, RowsGrow, Issued
<1>9. PICK f \in [AuthOps -> OpType] : f = ops
  <2>1. \A x \in OpType : [x EXCEPT !.current = FALSE] \in OpType
    BY DEF OpType
  <2>2. ops \in [AuthOps -> OpType]
    BY <1>1, <2>1, OpFields
  <2> QED
    BY <2>2
<1>10. \A o \in AuthOps : OpKnows(f[o])'
  <2>1. \A o \in AuthOps : f[o] = AuthIdle \/ f[o] = [authOp[o] EXCEPT !.current = FALSE]
    BY <1>9
  <2> QED
    BY <1>1, <1>2, <1>3, <2>1, OpsStale
<1>11. authOp' \in [AuthOps -> OpType] /\ (\A p \in AuthOps : OpKnows(authOp[p]))'
  <2>1. CASE authOp' = f
    BY <1>10, <2>1 DEF OpKnows
  <2>2. CASE restores /\ \E o \in AuthOps : authOp' = [f EXCEPT ![o] = restore]
    <3>1. PICK o \in AuthOps : authOp' = [f EXCEPT ![o] = restore]
      BY <2>2
    <3>2. PICK x \in OpType : x = restore
      <4>1. [AuthIdle EXCEPT !.pc = "validate", !.wallet = w, !.session = s, !.current = TRUE] \in OpType
        BY OpFields DEF OpType
      <4> QED
        BY <1>4, <4>1
    <3>3. /\ x.pc = "validate" /\ x.wallet = w /\ x.session = s /\ x.challenge = 0 /\ x.now = 0
      BY <1>4, <3>2 DEF AuthIdle
    <3>4. /\ s # 0 /\ wsession[s].row # "none" /\ wsession[s].wallet = w /\ authTime \in Nat
      BY <1>4, <1>5, <2>2 DEF SessionWallet, AuthInv, AuthTypes
    <3>5. SessionChallenge(s)' = SessionChallenge(s) /\ wsession'[s].row # "none" /\ wsession'[s].wallet = w
      BY <1>3, <1>4, <3>4 DEF RowsGrow, SessionChallenge
    <3>6. OpKnows(x)'
      BY <1>1, <1>2, <1>5, <1>6, <3>3, <3>4, <3>5 DEF OpKnows
    <3>7. authOp' = [f EXCEPT ![o] = x]
      BY <3>1, <3>2
    <3>8. authOp'[o] = x /\ \A p \in AuthOps \ {o} : authOp'[p] = f[p]
      BY <3>7
    <3> QED
      BY <1>10, <3>6, <3>7, <3>8 DEF OpKnows
  <2>3. \/ authOp' = f
        \/ restores /\ \E o \in AuthOps : authOp' = [f EXCEPT ![o] = restore]
    BY <1>9 DEF ChangeAccount
  <2> QED
    BY <2>1, <2>2, <2>3
<1> QED
  BY <1>2, <1>3, <1>6, <1>7, <1>8, <1>11, TabMoves

-----------------------------------------------------------------------------
(***************************************************************************)
(* The theorems.                                                           *)
(***************************************************************************)
LEMMA AuthStep ==
  ASSUME AuthInv, [SignInStep(AuthOps) \/ BalanceStep]_authVars PROVE AuthInv'
<1>1. CASE \E o \in AuthOps :
             \/ IssueChallenge(o) \/ FindChallenge(o) \/ ConsumeChallengeAndCreateSession(o) \/ LoseAuthMessage(o)
             \/ Prepare(o) \/ ChallengeArrives(o) \/ OperationFails(o) \/ SignIn(o) \/ MessageSigned(o)
             \/ SessionArrives(o) \/ SessionValidated(o)
  BY <1>1, IssueStep, FindStep, ConsumeStep, LoseStep, PrepareStep, ChallengeArrivesStep, FailsStep,
     SignInBegins, SignedStep, SessionArrivesStep, ValidatedStep
<1>2. CASE \E w \in Accounts \cup {NoAccount} : ChangeAccount(w)
  BY <1>2, AccountStep DEF Wallet
<1>3. CASE ExpireSession \/ SignOut \/ Reload \/ AuthTick \/ BalanceStep
  BY <1>3, ExpireStep, SignOutStep, ReloadStep, TabTickStep, RefreshStep, BalanceArrivesStep DEF BalanceStep
<1>4. CASE UNCHANGED authVars
  BY <1>4 DEF authVars, AuthInv, AuthTypes, RowsFit, Issued, OpKnows, TabKnows, SessionChallenge, SessionWallet
<1> QED
  BY <1>1, <1>2, <1>3, <1>4 DEF SignInStep

\* The rows, the operations in flight and the tab always fit together.
THEOREM AuthInvariant == WalletSpec => []AuthInv
<1>1. AuthInit => AuthInv
  BY Initial
<1>2. AuthInv /\ [SignInStep(AuthOps) \/ BalanceStep]_authVars => AuthInv'
  BY AuthStep
<1> QED
  BY <1>1, <1>2, PTL DEF WalletSpec

\* The tab and the rows stay in their ranges.
THEOREM AuthTypeCorrect == WalletSpec => []AuthTypeOK
<1>1. AuthInv => AuthTypeOK
  BY DEF AuthInv, AuthTypes, RowsFit, TabType, ChallengeType, SessionType, Wallet, AuthTypeOK
<1> QED
  BY <1>1, AuthInvariant, PTL

\* Whatever order accounts change, requests end and pages reload in, a tab shows the
\* session and the balance of the connected wallet, never uses or stores again a session
\* the player signed out of, and a challenge makes one session.
THEOREM SessionCurrent == WalletSpec => []WalletSessionIsCurrent
<1>1. AuthInv => WalletSessionIsCurrent
  BY DEF AuthInv, TabKnows, RowsFit, WalletSessionIsCurrent
<1> QED
  BY <1>1, AuthInvariant, PTL

-----------------------------------------------------------------------------
(***************************************************************************)
(* How many challenges a wallet is given.                                  *)
(***************************************************************************)
Counted(w, t) == {c \in Challenges : /\ challenge[c].row # "none" /\ challenge[c].wallet = w
                                     /\ challenge[c].created \in t..(t + CHALLENGE_WINDOW)}

LEMMA LimitCounts ==
  ChallengesAreLimited <=> \A w \in Accounts, t \in 0..MaxAuthTime : Cardinality(Counted(w, t)) <= CHALLENGE_LIMIT
  BY DEF ChallengesAreLimited, Counted

\* No challenge is issued.
LEMMA LimitKept ==
  ASSUME RowsGrow, ChallengesAreLimited,
         \A c \in Challenges : challenge'[c].row = "none" <=> challenge[c].row = "none"
  PROVE  ChallengesAreLimited'
<1>1. \A w \in Accounts, t \in 0..MaxAuthTime : Counted(w, t)' = Counted(w, t)
  BY DEF Counted, RowsGrow
<1>2. \A w \in Accounts, t \in 0..MaxAuthTime : Cardinality(Counted(w, t)) <= CHALLENGE_LIMIT
  BY LimitCounts
<1>3. \A w \in Accounts, t \in 0..MaxAuthTime : Cardinality(Counted(w, t)') <= CHALLENGE_LIMIT
  BY <1>1, <1>2
<1> QED
  BY <1>3 DEF ChallengesAreLimited, Counted

\* The challenges of the window that ends now are among those the limit looked at: the
\* cleanup deletes none of them.
LEMMA WindowIsLookedAt ==
  ASSUME AuthInv, NEW now \in Nat, now <= authTime, NEW w \in Wallet, NEW t \in Nat,
         authTime <= t + CHALLENGE_WINDOW
  PROVE  /\ Counted(w, t) \subseteq RecentChallenges(CleanupChallenges(now), w, now)
         /\ IsFiniteSet(RecentChallenges(CleanupChallenges(now), w, now))
<1> DEFINE kept == CleanupChallenges(now)
<1>1. /\ authTime \in Nat /\ CHALLENGE_WINDOW \in Nat /\ IsFiniteSet(Issued)
      /\ challenge \in [Challenges -> ChallengeType]
      /\ \A c \in Challenges : challenge[c].row = "deleted" => challenge[c].created < authTime - CHALLENGE_WINDOW
  BY WalletSessionConstants DEF AuthInv, AuthTypes, RowsFit
<1>2. \A c \in Challenges :
        /\ kept[c].wallet = challenge[c].wallet
        /\ kept[c].created = challenge[c].created
        /\ \/ kept[c].row = challenge[c].row
           \/ /\ kept[c].row = "deleted" /\ challenge[c].row = "open"
              /\ challenge[c].created < now - CHALLENGE_WINDOW
  BY Cleaned
<1>3. \A c \in Challenges : /\ challenge[c].created \in Nat
                            /\ challenge[c].row \in {"none", "open", "consumed", "deleted"}
  BY <1>1 DEF ChallengeType
<1> HIDE DEF kept
<1>4. ASSUME NEW c \in Counted(w, t) PROVE c \in RecentChallenges(kept, w, now)
  <2>1. /\ c \in Challenges /\ challenge[c].row # "none" /\ challenge[c].wallet = w
        /\ challenge[c].created \in Nat /\ t <= challenge[c].created
    BY <1>1, <1>3, <1>4 DEF Counted
  <2>2. challenge[c].created >= now - CHALLENGE_WINDOW /\ challenge[c].created >= authTime - CHALLENGE_WINDOW
    BY <1>1, <2>1
  <2>3. challenge[c].row # "deleted"
    BY <1>1, <2>1, <2>2
  <2>4. kept[c].row \in {"open", "consumed"} /\ kept[c].wallet = w
    BY <1>1, <1>2, <1>3, <2>1, <2>2, <2>3
  <2>5. kept[c].created >= now - CHALLENGE_WINDOW
    BY <1>2, <2>1, <2>2
  <2> QED
    BY <2>1, <2>4, <2>5 DEF RecentChallenges
<1>5. RecentChallenges(kept, w, now) \subseteq Issued
  BY <1>2 DEF RecentChallenges, Issued
<1>6. IsFiniteSet(RecentChallenges(kept, w, now))
  BY <1>1, <1>5, FS_Subset
<1> QED
  BY <1>4, <1>6 DEF kept

LEMMA LimitIssue ==
  ASSUME AuthInv, ChallengesAreLimited, NEW o \in AuthOps, IssueChallenge(o)
  PROVE  ChallengesAreLimited'
<1> DEFINE now == authOp[o].now
           w == authOp[o].wallet
           kept == CleanupChallenges(now)
           unused == {c \in Challenges : challenge[c].row = "none"}
<1>1. /\ now \in Nat /\ now <= authTime /\ authTime \in Nat /\ w \in Wallet
      /\ CHALLENGE_WINDOW \in Nat /\ CHALLENGE_LIMIT \in Nat
      /\ challenge \in [Challenges -> ChallengeType]
  BY WalletSessionConstants DEF AuthInv, AuthTypes, OpKnows, OpType, RowsFit
<1>2. RowsGrow
  BY IssueStep
<1>3. \/ challenge' = kept
      \/ /\ unused # {} /\ ~(Cardinality(RecentChallenges(kept, w, now)) >= CHALLENGE_LIMIT)
         /\ challenge' = [kept EXCEPT ![Min(unused)] = [wallet |-> w, row |-> "open", created |-> authTime]]
  BY DEF IssueChallenge
<1>4. /\ kept \in [Challenges -> ChallengeType]
      /\ \A c \in Challenges : kept[c].row = "none" <=> challenge[c].row = "none"
  <2>1. \A c \in Challenges :
          kept[c].row = challenge[c].row \/ (kept[c].row = "deleted" /\ challenge[c].row = "open")
    BY <1>1, Cleaned
  <2>2. kept \in [Challenges -> ChallengeType]
    BY <1>1, Cleaned
  <2> HIDE DEF kept
  <2> QED
    BY <2>1, <2>2
<1>5. CASE challenge' = kept
  <2> HIDE DEF kept
  <2> QED
    BY <1>2, <1>4, <1>5, LimitKept
<1>6. CASE /\ unused # {} /\ ~(Cardinality(RecentChallenges(kept, w, now)) >= CHALLENGE_LIMIT)
           /\ challenge' = [kept EXCEPT ![Min(unused)] = [wallet |-> w, row |-> "open", created |-> authTime]]
  <2>1. PICK c \in Challenges : c = Min(unused) /\ challenge[c].row = "none"
    <3>1. unused \subseteq Nat
      BY WalletSessionConstants
    <3> QED
      BY <1>6, <3>1, Least
  <2> HIDE DEF unused, kept, now, w
  <2>2. /\ challenge'[c].row = "open" /\ challenge'[c].wallet = w /\ challenge'[c].created = authTime
        /\ \A d \in Challenges \ {c} : challenge'[d] = kept[d]
    BY <1>4, <1>6, <2>1
  <2>3. \A d \in Challenges : challenge[d].row # "none" =>
          /\ challenge'[d].row # "none" /\ challenge'[d].wallet = challenge[d].wallet
          /\ challenge'[d].created = challenge[d].created
    BY <1>2 DEF RowsGrow
  <2>4. \A d \in Challenges \ {c} : challenge'[d].row = "none" <=> challenge[d].row = "none"
    BY <1>4, <2>2
  <2>5. ASSUME NEW v \in Accounts, NEW t \in 0..MaxAuthTime
        PROVE  Cardinality(Counted(v, t)') <= CHALLENGE_LIMIT
    <3>1. Cardinality(Counted(v, t)) <= CHALLENGE_LIMIT
      BY <2>5, LimitCounts
    <3>2. CASE v = w /\ authTime \in t..(t + CHALLENGE_WINDOW)
      <4>1. t \in Nat /\ authTime <= t + CHALLENGE_WINDOW
        BY <1>1, <3>2
      <4>2. Counted(v, t)' = Counted(v, t) \cup {c}
        BY <2>1, <2>2, <2>3, <2>4, <3>2 DEF Counted
      <4>3. /\ Counted(v, t) \subseteq RecentChallenges(kept, w, now)
            /\ IsFiniteSet(RecentChallenges(kept, w, now))
        BY <1>1, <3>2, <4>1, WindowIsLookedAt DEF kept
      <4>4. /\ IsFiniteSet(Counted(v, t))
            /\ Cardinality(Counted(v, t)) <= Cardinality(RecentChallenges(kept, w, now))
        BY <4>3, FS_Subset
      <4>5. /\ Cardinality(Counted(v, t)) \in Nat /\ Cardinality(RecentChallenges(kept, w, now)) \in Nat
            /\ Cardinality(Counted(v, t) \cup {c}) <= Cardinality(Counted(v, t)) + 1
        <5>1. Cardinality(Counted(v, t)) \in Nat /\ Cardinality(RecentChallenges(kept, w, now)) \in Nat
          BY <4>3, <4>4, FS_CardinalityType
        <5>2. Cardinality(Counted(v, t) \cup {c}) = IF c \in Counted(v, t) THEN Cardinality(Counted(v, t))
                                                   ELSE Cardinality(Counted(v, t)) + 1
          BY <4>4, FS_AddElement
        <5> QED
          BY <5>1, <5>2
      <4>6. ~(Cardinality(RecentChallenges(kept, w, now)) >= CHALLENGE_LIMIT)
        BY <1>6
      <4>7. Cardinality(Counted(v, t) \cup {c}) \in Nat
        BY <4>4, FS_AddElement, FS_CardinalityType
      <4>8. Cardinality(Counted(v, t) \cup {c}) <= CHALLENGE_LIMIT
        BY <1>1, <4>4, <4>5, <4>6, <4>7
      <4> QED
        BY <4>2, <4>8
    <3>3. CASE ~(v = w /\ authTime \in t..(t + CHALLENGE_WINDOW))
      <4>1. Counted(v, t)' = Counted(v, t)
        BY <2>1, <2>2, <2>3, <2>4, <3>3 DEF Counted
      <4> QED
        BY <3>1, <4>1
    <3> QED
      BY <3>2, <3>3
  <2> QED
    BY <2>5 DEF ChallengesAreLimited, Counted
<1> QED
  BY <1>3, <1>5, <1>6

\* A wallet is given at most CHALLENGE_LIMIT challenges in any window, those deleted since
\* included.
THEOREM ChallengeLimit == WalletSpec => []ChallengesAreLimited
<1>1. AuthInit => ChallengesAreLimited
  <2>1. ASSUME AuthInit, NEW w \in Accounts, NEW t \in 0..MaxAuthTime
        PROVE  Cardinality(Counted(w, t)) <= CHALLENGE_LIMIT
    <3>1. Counted(w, t) = {}
      BY <2>1 DEF AuthInit, Counted, NoChallenge
    <3> QED
      BY <3>1, FS_EmptySet, WalletSessionConstants
  <2> QED
    BY <2>1, LimitCounts
<1>2. AuthInv /\ ChallengesAreLimited /\ [SignInStep(AuthOps) \/ BalanceStep]_authVars => ChallengesAreLimited'
  <2> SUFFICES ASSUME AuthInv, ChallengesAreLimited, [SignInStep(AuthOps) \/ BalanceStep]_authVars
               PROVE  ChallengesAreLimited'
    OBVIOUS
  <2>1. CASE \E o \in AuthOps : IssueChallenge(o)
    BY <2>1, LimitIssue
  <2>2. CASE \E o \in AuthOps : ConsumeChallengeAndCreateSession(o)
    BY <2>2, ConsumeStep, LimitKept
  <2>3. CASE UNCHANGED challenge
    BY <2>3 DEF ChallengesAreLimited
  <2>4. \/ \E o \in AuthOps : IssueChallenge(o) \/ ConsumeChallengeAndCreateSession(o)
        \/ UNCHANGED challenge
    BY DEF SignInStep, BalanceStep, FindChallenge, LoseAuthMessage, Prepare, ChallengeArrives, OperationFails,
           SignIn, MessageSigned, SessionArrives, SessionValidated, ChangeAccount, ExpireSession, SignOut, Reload,
           AuthTick, RefreshBalances, BalanceArrives, authVars
  <2> QED
    BY <2>1, <2>2, <2>3, <2>4
<1> QED
  BY <1>1, <1>2, AuthInvariant, PTL DEF WalletSpec

(*****************************************************************************)
(* Paying for a duel from the page.                                          *)
(*****************************************************************************)

FundStatuses == {"NONE", "PREPARED", "SUBMITTED", "FINALIZED", "EXPIRED"}
EntryStatuses == {"none", "matched", "committing", "funded", "cancelled"}
Intent == EntryIntents \cup {0}
PageRow == [intent : Intent, rejected : Intent, phase : {"idle", "signing", "confirming", "recovering"},
            pending : BOOLEAN, restoring : BOOLEAN, restoreDraft : BOOLEAN, seen : EntryStatuses]
DraftRow == [saved : BOOLEAN, sent : BOOLEAN, rejected : Intent]
EntryOpRow == [pc : {"idle", "create", "prepare", "sign", "submit", "confirm", "settle", "load", "abandon",
                     "reconcile", "reload", "prepareRestored"},
               as : {"none", "again", "reset", "review", "resume", "draft"},
               intent : Intent, sent : BOOLEAN, rejected : Intent]

EntryRowTypes ==
  /\ page \in PageRow /\ draft \in DraftRow /\ entryOp \in [EntryOps -> EntryOpRow]
  /\ fund \in [EntryIntents -> FundStatuses]
  /\ message \in [EntryIntents -> {"unsigned", "signed", "landed", "dead"}]
  /\ entryDuel \in EntryStatuses /\ resigned \in SUBSET EntryIntents /\ reloads \in Nat

NoPayment == \A i \in EntryIntents : ~MayHavePaid(i)

\* A wallet has one open intent, and the duel's status follows it; what may have been paid
\* is never dropped.
ApiFit ==
  /\ \A i, j \in EntryIntents :
       /\ fund[i] \in {"PREPARED", "SUBMITTED", "FINALIZED"}
       /\ fund[j] \in {"PREPARED", "SUBMITTED", "FINALIZED"}
       => i = j
  /\ \A i \in EntryIntents :
       /\ MayHavePaid(i) => fund[i] \in {"PREPARED", "SUBMITTED", "FINALIZED"}
       /\ fund[i] \in {"SUBMITTED", "FINALIZED"} => message[i] # "unsigned"
       /\ i \in resigned => fund[i] = "EXPIRED"
       /\ entryDuel = "none" => fund[i] = "NONE"
       /\ entryDuel = "matched" => fund[i] \notin {"SUBMITTED", "FINALIZED"}
  /\ entryDuel = "funded" => \E i \in EntryIntents : fund[i] = "FINALIZED"

\* A rejected intent can be dropped: the wallet did not sign its message.
Refused(j) == j # 0 => fund[j] # "NONE" /\ (fund[j] = "PREPARED" => ~MayHavePaid(j))

\* What the page offers to pay, and what it may still report as rejected.
PageFit ==
  /\ page.intent # 0 => fund[page.intent] # "NONE" /\ (page.phase = "idle" => NoPayment)
  /\ Refused(page.rejected)
  /\ draft.rejected \in {0, page.rejected}
  /\ page.seen = "funded" => entryDuel = "funded"
  /\ page.restoreDraft => entryDuel # "none"
  /\ page.phase \in {"signing", "confirming"} => ~page.restoring

\* What the handler of a button knows between its awaits.
MainFit ==
  LET m == entryOp["main"] IN
  /\ m.pc = "create" => entryDuel = "none"
  /\ m.pc \in {"create", "prepare"} => ~page.restoring /\ (page.phase = "confirming" \/ ~page.restoreDraft)
  /\ m.pc = "sign" => page.phase = "signing" /\ NoPayment /\ page.rejected = 0
  /\ m.pc \in {"sign", "submit"} => m.intent \in EntryIntents /\ fund[m.intent] # "NONE"
  /\ m.pc \in {"submit", "confirm", "settle"} => page.phase = "confirming"
  /\ m.pc \in {"load", "abandon"} => page.rejected \in {0, m.rejected} /\ Refused(m.rejected) /\ ~m.sent
  /\ m.pc = "abandon" => m.rejected # 0
  /\ m.pc \in {"reconcile", "reload", "prepareRestored"} => page.rejected = 0 \/ fund[page.rejected] # "PREPARED"
  /\ m.pc \in {"prepare", "reload", "prepareRestored"} /\ entryDuel = "matched" => NoPayment

RestorePcs == {"idle", "load", "abandon", "reconcile", "reload", "prepareRestored"}
\* The restore works on the rejected intent of the page: when that changes, it is overtaken.
RestoreFit ==
  LET r == entryOp["restore"] IN
  /\ r.pc \in RestorePcs
  /\ r.pc # "idle" => page.restoring /\ r.rejected = page.rejected
  /\ r.pc = "abandon" => r.rejected # 0
  /\ r.pc \in {"reload", "prepareRestored"} /\ entryDuel = "matched" => NoPayment

\* A restore that was overtaken may still drop its intent: by then the intent is closed, or
\* the page offers no payment.
LateFit ==
  LET l == entryOp["late"] IN
  /\ l.pc \in RestorePcs
  /\ l.pc = "abandon" => l.rejected # 0
  /\ l.pc \in {"load", "abandon"} =>
       /\ Refused(l.rejected)
       /\ \/ l.rejected = 0
          \/ fund[l.rejected] # "PREPARED"
          \/ entryDuel \notin {"none", "matched"} /\ page.intent = 0 /\ entryOp["main"].pc # "sign"

EntryInv == EntryRowTypes /\ ApiFit /\ PageFit /\ MainFit /\ RestoreFit /\ LateFit

EntrySpec == EntryInit /\ [][EntryStep]_entryVars

(***************************************************************************)
(* What the API and the cluster may do without anybody's asking.           *)
(***************************************************************************)
ApiTypes ==
  /\ fund \in [EntryIntents -> FundStatuses]
  /\ message \in [EntryIntents -> {"unsigned", "signed", "landed", "dead"}]
  /\ entryDuel \in EntryStatuses /\ resigned \in SUBSET EntryIntents

\* No step but the wallet's signature makes a payment, and no step takes a refused
\* intent up again.
ApiGoesOn ==
  /\ ApiTypes' /\ ApiFit'
  /\ \A i \in EntryIntents : fund[i] # "NONE" =>
       fund'[i] # "NONE" /\ (fund'[i] = "PREPARED" => fund[i] = "PREPARED")
  /\ \A i \in EntryIntents : MayHavePaid(i)' => MayHavePaid(i)
  /\ entryDuel' = "matched" => entryDuel = "matched" \/ NoPayment'
  /\ entryDuel # "none" => entryDuel' # "none"
  /\ entryDuel \notin {"none", "matched"} => entryDuel' \notin {"none", "matched"}
  /\ entryDuel = "funded" => entryDuel' = "funded"

LEMMA ApiRests ==
  ASSUME EntryInv, UNCHANGED <<fund, message, entryDuel, resigned>>
  PROVE  ApiGoesOn
BY DEF EntryInv, EntryRowTypes, ApiTypes, ApiGoesOn, ApiFit, MayHavePaid, NoPayment

LEMMA LeastIntent ==
  ASSUME NEW S \in SUBSET EntryIntents, S # {}
  PROVE  Min(S) \in S
<1>1. S \in SUBSET Nat
  BY DuelEntryConstants
<1>2. \E n \in S : \A k \in S : n <= k
  <2>1. IsWellFoundedOn(OpToRel(<, Nat), Nat)
    BY NatLessThanWellFounded
  <2>2. PICK n \in S : \A k \in S : <<k, n>> \notin OpToRel(<, Nat)
    BY <1>1, <2>1, WFMin
  <2>3. \A k \in S : ~(k < n)
    BY <1>1, <2>2 DEF OpToRel
  <2> QED BY <1>1, <2>3
<1> QED BY <1>2 DEF Min

LEMMA PreparableIntents ==
  ASSUME EntryInv
  PROVE  /\ Preparable \subseteq EntryIntents
         /\ \A i \in Preparable :
              /\ entryDuel = "matched" /\ \A j \in EntryIntents : fund[j] \notin {"SUBMITTED", "FINALIZED"}
              /\ fund[i] = "PREPARED" \/ (fund[i] = "NONE" /\ \A j \in EntryIntents : fund[j] # "PREPARED")
<1> DEFINE unused == {j \in EntryIntents : fund[j] = "NONE"}
<1>1. ASSUME unused # {} PROVE Min(unused) \in unused
  BY <1>1, LeastIntent
<1> QED BY <1>1 DEF Preparable

LEMMA ApiPrepares ==
  ASSUME EntryInv, NEW i \in EntryIntents, i \in Preparable, EntryPrepared(i),
         UNCHANGED <<message, entryDuel, resigned>>
  PROVE  ApiGoesOn /\ entryDuel = "matched" /\ fund'[i] = "PREPARED"
<1>1. /\ entryDuel = "matched" /\ \A j \in EntryIntents : fund[j] \notin {"SUBMITTED", "FINALIZED"}
      /\ fund[i] = "PREPARED" \/ (fund[i] = "NONE" /\ \A j \in EntryIntents : fund[j] # "PREPARED")
  BY PreparableIntents
<1>2. fund' = [fund EXCEPT ![i] = "PREPARED"]
  BY DEF EntryPrepared
<1>3. /\ fund'[i] = "PREPARED" /\ \A j \in EntryIntents : j # i => fund'[j] = fund[j]
      /\ fund' \in [EntryIntents -> FundStatuses]
  BY <1>2 DEF EntryInv, EntryRowTypes, FundStatuses
<1>4. ApiTypes' /\ \A j \in EntryIntents : MayHavePaid(j)' <=> MayHavePaid(j)
  BY <1>3 DEF EntryInv, EntryRowTypes, ApiTypes, MayHavePaid
<1>5. ApiFit'
  BY <1>1, <1>3, <1>4 DEF EntryInv, ApiFit
<1> QED BY <1>1, <1>3, <1>4, <1>5 DEF ApiGoesOn, NoPayment

LEMMA ApiDrops ==
  ASSUME EntryInv, NEW i \in EntryIntents, Refused(i),
         \/ fund' = [fund EXCEPT ![i] = IF @ = "PREPARED" THEN "EXPIRED" ELSE @]
         \/ fund' = fund,
         UNCHANGED <<message, entryDuel, resigned>>
  PROVE  ApiGoesOn
<1>1. CASE fund' = fund
  BY <1>1, ApiRests
<1>2. CASE fund' = [fund EXCEPT ![i] = IF @ = "PREPARED" THEN "EXPIRED" ELSE @]
  <2>1. /\ fund' \in [EntryIntents -> FundStatuses]
        /\ \A j \in EntryIntents : fund'[j] = fund[j] \/ (j = i /\ fund[j] = "PREPARED" /\ fund'[j] = "EXPIRED")
    BY <1>2 DEF EntryInv, EntryRowTypes, FundStatuses
  <2>2. ApiTypes' /\ \A j \in EntryIntents : MayHavePaid(j)' <=> MayHavePaid(j)
    BY <2>1 DEF EntryInv, EntryRowTypes, ApiTypes, MayHavePaid
  <2>3. i # 0
    BY DuelEntryConstants
  <2>4. ApiFit'
    BY <2>1, <2>2, <2>3 DEF EntryInv, ApiFit, Refused
  <2> QED BY <2>1, <2>2, <2>4 DEF ApiGoesOn, NoPayment
<1> QED BY <1>1, <1>2

LEMMA ApiMonitors ==
  ASSUME EntryInv, Monitor, UNCHANGED <<message, resigned>>
  PROVE  ApiGoesOn /\ (entryDuel = "none" => entryDuel' = "none")
<1>1. /\ fund' \in [EntryIntents -> FundStatuses]
      /\ \A i \in EntryIntents :
           \/ fund'[i] = fund[i]
           \/ fund[i] = "PREPARED" /\ message[i] = "landed" /\ fund'[i] \in {"SUBMITTED", "FINALIZED"}
           \/ fund[i] = "SUBMITTED" /\ message[i] = "landed" /\ fund'[i] = "FINALIZED"
           \/ fund[i] \in {"PREPARED", "SUBMITTED"} /\ message[i] = "dead" /\ fund'[i] = "EXPIRED"
  BY DEF Monitor, Monitored, FundStatuses
<1>2. PICK f : f = fund'
  OBVIOUS
<1>3. entryDuel' = StatusAfter(f)
  BY <1>2 DEF Monitor
<1>4. /\ entryDuel' \in EntryStatuses
      /\ entryDuel \notin {"matched", "committing"} => entryDuel' = entryDuel
      /\ entryDuel \in {"matched", "committing"} => entryDuel' \notin {"none"}
      /\ entryDuel' = "matched" => entryDuel = "matched" /\ \A i \in EntryIntents : f[i] \notin {"SUBMITTED", "FINALIZED"}
      /\ entryDuel = "committing" => entryDuel' # "matched"
      /\ entryDuel' = "funded" => entryDuel = "funded" \/ \E i \in EntryIntents : f[i] = "FINALIZED"
  BY <1>3 DEF StatusAfter, EntryInv, EntryRowTypes, EntryStatuses
<1>5. ApiTypes' /\ \A j \in EntryIntents : MayHavePaid(j)' <=> MayHavePaid(j)
  BY <1>1, <1>4 DEF EntryInv, EntryRowTypes, ApiTypes, MayHavePaid
<1>6. ApiFit'
  BY <1>1, <1>2, <1>4, <1>5 DEF EntryInv, ApiFit, MayHavePaid
<1> QED BY <1>1, <1>4, <1>5, <1>6 DEF ApiGoesOn, NoPayment

LEMMA ApiBinds ==
  ASSUME EntryInv, NEW i \in EntryIntents, fund[i] = "PREPARED", message[i] # "unsigned",
         entryDuel \in {"matched", "committing"},
         fund' = [fund EXCEPT ![i] = "SUBMITTED"], entryDuel' = "committing", UNCHANGED <<message, resigned>>
  PROVE  ApiGoesOn
<1>1. /\ fund' \in [EntryIntents -> FundStatuses] /\ fund'[i] = "SUBMITTED"
      /\ \A j \in EntryIntents : j # i => fund'[j] = fund[j]
  BY DEF EntryInv, EntryRowTypes, FundStatuses
<1>2. ApiTypes' /\ \A j \in EntryIntents : MayHavePaid(j)' <=> MayHavePaid(j)
  BY <1>1 DEF EntryInv, EntryRowTypes, ApiTypes, MayHavePaid, EntryStatuses
<1>3. ApiFit'
  BY <1>1, <1>2 DEF EntryInv, ApiFit
<1> QED BY <1>1, <1>2, <1>3 DEF ApiGoesOn, NoPayment

LEMMA ApiCreates ==
  ASSUME EntryInv, entryDuel = "none", entryDuel' = "matched", UNCHANGED <<fund, message, resigned>>
  PROVE  ApiGoesOn /\ NoPayment'
<1>1. ApiTypes' /\ \A j \in EntryIntents : MayHavePaid(j)' <=> MayHavePaid(j)
  BY DEF EntryInv, EntryRowTypes, ApiTypes, MayHavePaid, EntryStatuses
<1>2. ApiFit'
  BY <1>1 DEF EntryInv, ApiFit
<1>3. NoPayment'
  BY <1>1 DEF EntryInv, ApiFit, NoPayment
<1> QED BY <1>1, <1>2, <1>3 DEF ApiGoesOn

LEMMA ApiCancels ==
  ASSUME EntryInv, entryDuel = "matched", entryDuel' = "cancelled", UNCHANGED <<fund, message, resigned>>
  PROVE  ApiGoesOn
<1>1. ApiTypes' /\ \A j \in EntryIntents : MayHavePaid(j)' <=> MayHavePaid(j)
  BY DEF EntryInv, EntryRowTypes, ApiTypes, MayHavePaid, EntryStatuses
<1>2. ApiFit'
  BY <1>1 DEF EntryInv, ApiFit
<1> QED BY <1>1, <1>2 DEF ApiGoesOn

\* A signed message lands, or a message dies.
LEMMA ApiDecides ==
  ASSUME EntryInv, NEW i \in EntryIntents, NEW w \in {"landed", "dead"},
         w = "landed" => message[i] = "signed",
         message' = [message EXCEPT ![i] = w], UNCHANGED <<fund, entryDuel, resigned>>
  PROVE  ApiGoesOn
<1>1. /\ message' \in [EntryIntents -> {"unsigned", "signed", "landed", "dead"}] /\ message'[i] = w
      /\ \A j \in EntryIntents : j # i => message'[j] = message[j]
  BY DEF EntryInv, EntryRowTypes
<1>2. ApiTypes' /\ \A j \in EntryIntents : MayHavePaid(j)' => MayHavePaid(j)
  BY <1>1 DEF EntryInv, EntryRowTypes, ApiTypes, MayHavePaid
<1>3. ApiFit'
  BY <1>1, <1>2 DEF EntryInv, ApiFit
<1> QED BY <1>1, <1>2, <1>3 DEF ApiGoesOn, NoPayment

(***************************************************************************)
(* What a change of the page does.                                         *)
(***************************************************************************)
LEMMA FreshRows ==
  /\ FreshPage \in PageRow /\ NoDraft \in DraftRow /\ EntryIdle \in EntryOpRow
  /\ FreshPage.intent = 0 /\ FreshPage.rejected = 0 /\ FreshPage.phase = "idle" /\ ~FreshPage.restoring
  /\ ~FreshPage.restoreDraft /\ FreshPage.seen = "none" /\ NoDraft.rejected = 0 /\ EntryIdle.pc = "idle"
BY DEF FreshPage, NoDraft, EntryIdle, PageRow, DraftRow, EntryOpRow, Intent, EntryStatuses

Completed(p, q) ==
  /\ q.intent = p.intent /\ q.phase = p.phase /\ q.pending = p.pending /\ q.seen = p.seen
  /\ q.restoring = p.restoring
  /\ IF p.seen = "funded" THEN q.rejected = 0 /\ ~q.restoreDraft
     ELSE q.rejected = p.rejected /\ q.restoreDraft = p.restoreDraft

LEMMA CompletesRow ==
  ASSUME NEW p \in PageRow
  PROVE  \E q \in PageRow : q = Completes(p) /\ Completed(p, q)
<1>1. CASE p.seen = "funded"
  <2>1. PICK q : q = [p EXCEPT !.rejected = 0, !.restoreDraft = FALSE]
    OBVIOUS
  <2>2. q \in PageRow /\ Completed(p, q)
    BY <1>1, <2>1 DEF PageRow, Intent, Completed
  <2> QED BY <1>1, <2>1, <2>2 DEF Completes, CompletedEntry
<1>2. CASE p.seen # "funded"
  BY <1>2 DEF Completes, CompletedEntry, Completed
<1> QED BY <1>1, <1>2

LEMMA DraftOfRow ==
  ASSUME NEW p \in PageRow
  PROVE  DraftOf(p) \in DraftRow /\ DraftOf(p).rejected \in {0, p.rejected}
BY DEF DraftOf, NoDraft, DraftRow, PageRow, Intent

\* The page p as it is written, with the operations ops.
Written(p, ops) ==
  /\ page' \in PageRow /\ draft' \in DraftRow /\ entryOp' \in [EntryOps -> EntryOpRow]
  /\ page'.intent = p.intent /\ page'.phase = p.phase /\ page'.seen = p.seen
  /\ page'.rejected = p.rejected \/ (page'.rejected = 0 /\ p.seen = "funded")
  /\ page'.restoreDraft = p.restoreDraft \/ (~page'.restoreDraft /\ p.seen = "funded")
  /\ draft'.rejected \in {0, page'.rejected}
  /\ entryOp'["main"] = ops["main"]
  /\ \/ /\ entryOp'["restore"] = ops["restore"] /\ entryOp'["late"] = ops["late"]
        /\ page'.restoring = p.restoring /\ page'.rejected = page.rejected /\ page'.phase = page.phase
        /\ page'.restoreDraft = page.restoreDraft
     \/ /\ page'.rejected # page.rejected \/ page'.phase # page.phase \/ page'.restoreDraft # page.restoreDraft
        /\ ~page'.restoring /\ entryOp'["restore"].pc = "idle"
        /\ entryOp'["late"] = IF ops["restore"].pc = "idle" THEN ops["late"] ELSE ops["restore"]

LEMMA OvertakenOps ==
  ASSUME NEW ops \in [EntryOps -> EntryOpRow]
  PROVE  /\ Overtaken(ops) \in [EntryOps -> EntryOpRow] /\ Overtaken(ops)["main"] = ops["main"]
         /\ Overtaken(ops)["restore"].pc = "idle"
         /\ Overtaken(ops)["late"] = IF ops["restore"].pc = "idle" THEN ops["late"] ELSE ops["restore"]
BY FreshRows DEF Overtaken, EntryOps

LEMMA PageIsWritten ==
  ASSUME NEW p \in PageRow, NEW ops \in [EntryOps -> EntryOpRow], PageBecomes(p, ops)
  PROVE  Written(p, ops)
<1>1. PICK q \in PageRow : q = Completes(p) /\ Completed(p, q)
  BY CompletesRow
<1>2. CASE EffectReruns(q)
  <2>1. page' = [q EXCEPT !.restoring = FALSE] /\ draft' = DraftOf(q) /\ entryOp' = Overtaken(ops)
    BY <1>1, <1>2 DEF PageBecomes
  <2>2. /\ page' \in PageRow /\ page'.intent = q.intent /\ page'.phase = q.phase /\ page'.seen = q.seen
        /\ page'.rejected = q.rejected /\ page'.restoreDraft = q.restoreDraft /\ ~page'.restoring
    BY <2>1 DEF PageRow
  <2>3. \/ page'.rejected # page.rejected \/ page'.phase # page.phase \/ page'.restoreDraft # page.restoreDraft
    BY <1>2, <2>2 DEF EffectReruns
  <2>4. draft' \in DraftRow /\ draft'.rejected \in {0, page'.rejected}
    BY <2>1, <2>2, DraftOfRow
  <2>5. /\ entryOp' \in [EntryOps -> EntryOpRow] /\ entryOp'["main"] = ops["main"]
        /\ entryOp'["restore"].pc = "idle"
        /\ entryOp'["late"] = IF ops["restore"].pc = "idle" THEN ops["late"] ELSE ops["restore"]
    BY <2>1, OvertakenOps
  <2>6. /\ page'.rejected = p.rejected \/ (page'.rejected = 0 /\ p.seen = "funded")
        /\ page'.restoreDraft = p.restoreDraft \/ (~page'.restoreDraft /\ p.seen = "funded")
        /\ page'.intent = p.intent /\ page'.phase = p.phase /\ page'.seen = p.seen
    BY <1>1, <2>2 DEF Completed
  <2> QED BY <2>2, <2>3, <2>4, <2>5, <2>6 DEF Written
<1>3. CASE ~EffectReruns(q)
  <2>1. page' = q /\ draft' = DraftOf(q) /\ entryOp' = ops
    BY <1>1, <1>3 DEF PageBecomes
  <2>2. page'.rejected = page.rejected /\ page'.phase = page.phase /\ page'.restoreDraft = page.restoreDraft
    BY <1>3, <2>1 DEF EffectReruns
  <2>3. draft' \in DraftRow /\ draft'.rejected \in {0, page'.rejected}
    BY <2>1, DraftOfRow
  <2>4. /\ page'.rejected = p.rejected \/ (page'.rejected = 0 /\ p.seen = "funded")
        /\ page'.restoreDraft = p.restoreDraft \/ (~page'.restoreDraft /\ p.seen = "funded")
        /\ page'.intent = p.intent /\ page'.phase = p.phase /\ page'.seen = p.seen
        /\ page'.restoring = p.restoring
    BY <1>1, <2>1 DEF Completed
  <2> QED BY <2>1, <2>2, <2>3, <2>4 DEF Written
<1> QED BY <1>2, <1>3

(***************************************************************************)
(* What a written page may be.                                             *)
(***************************************************************************)
RefusedNext(j) ==
  j # 0 => fund'[j] # "NONE" /\ (fund'[j] = "PREPARED" => \A i \in EntryIntents : i = j => ~MayHavePaid(i)')

PageAllowed(p) ==
  /\ p.intent # 0 => fund'[p.intent] # "NONE" /\ (p.phase = "idle" => NoPayment')
  /\ RefusedNext(p.rejected)
  /\ p.seen = "funded" => entryDuel' = "funded"
  /\ p.restoreDraft => entryDuel' # "none"
  /\ p.phase \in {"signing", "confirming"} => ~p.restoring \/ p.phase # page.phase

MainAllowed(p, m) ==
  /\ m.pc = "create" => entryDuel' = "none"
  /\ m.pc \in {"create", "prepare"} => ~p.restoring /\ (p.phase = "confirming" \/ ~p.restoreDraft)
  /\ m.pc = "sign" => p.phase = "signing" /\ NoPayment' /\ p.rejected = 0
  /\ m.pc \in {"sign", "submit"} => m.intent \in EntryIntents /\ fund'[m.intent] # "NONE"
  /\ m.pc \in {"submit", "confirm", "settle"} => p.phase = "confirming"
  /\ m.pc \in {"load", "abandon"} => p.rejected \in {0, m.rejected} /\ RefusedNext(m.rejected) /\ ~m.sent
  /\ m.pc = "abandon" => m.rejected # 0
  /\ m.pc \in {"reconcile", "reload", "prepareRestored"} => p.rejected = 0 \/ fund'[p.rejected] # "PREPARED"
  /\ m.pc \in {"prepare", "reload", "prepareRestored"} /\ entryDuel' = "matched" => NoPayment'

RestoreAllowed(p, r) ==
  /\ r.pc \in RestorePcs
  /\ r.pc # "idle" => p.restoring /\ r.rejected = page.rejected
  /\ r.pc = "abandon" => r.rejected # 0
  /\ r.pc \in {"reload", "prepareRestored"} /\ entryDuel' = "matched" => NoPayment'

LateAllowed(p, l, m) ==
  /\ l.pc \in RestorePcs
  /\ l.pc = "abandon" => l.rejected # 0
  /\ l.pc \in {"load", "abandon"} =>
       /\ RefusedNext(l.rejected)
       /\ \/ l.rejected = 0
          \/ fund'[l.rejected] # "PREPARED"
          \/ entryDuel' \notin {"none", "matched"} /\ p.intent = 0 /\ m.pc # "sign"

Reruns(p) ==
  p.phase # page.phase \/ p.rejected # page.rejected \/ p.restoreDraft # page.restoreDraft \/ p.seen = "funded"

LEMMA RefusedIsPrimed ==
  ASSUME EntryRowTypes', NEW j \in Intent, RefusedNext(j)
  PROVE  Refused(j)'
BY DEF RefusedNext, Refused, EntryRowTypes, Intent

LEMMA WritingKeeps ==
  ASSUME ApiTypes', ApiFit', reloads' \in Nat,
         NEW p \in PageRow, NEW ops \in [EntryOps -> EntryOpRow], PageBecomes(p, ops),
         PageAllowed(p), MainAllowed(p, ops["main"]), RestoreAllowed(p, ops["restore"]),
         LateAllowed(p, ops["late"], ops["main"]),
         ops["restore"].pc # "idle" /\ Reruns(p) => LateAllowed(p, ops["restore"], ops["main"])
  PROVE  EntryInv'
<1>1. Written(p, ops)
  BY PageIsWritten
<1>2. EntryRowTypes'
  BY <1>1 DEF Written, ApiTypes, EntryRowTypes
<1>3. /\ \A o \in EntryOps : ops[o] \in EntryOpRow /\ ops[o].rejected \in Intent
      /\ "main" \in EntryOps /\ "restore" \in EntryOps /\ "late" \in EntryOps
      /\ p.rejected \in Intent /\ 0 \in Intent
  BY DEF EntryOps, EntryOpRow, PageRow, Intent
<1>4. RefusedNext(page'.rejected)
  BY <1>1 DEF Written, PageAllowed, RefusedNext
<1>5. PageFit'
  <2>1. Refused(page.rejected)'
    <3>1. PICK j \in Intent : j = page'.rejected
      BY <1>2 DEF EntryRowTypes, PageRow
    <3>2. Refused(j)'
      BY <1>2, <1>4, <3>1, RefusedIsPrimed
    <3> QED BY <3>1, <3>2 DEF Refused
  <2>2. /\ page'.intent # 0 => fund'[page'.intent] # "NONE" /\ (page'.phase = "idle" => NoPayment')
        /\ draft'.rejected \in {0, page'.rejected}
        /\ page'.seen = "funded" => entryDuel' = "funded"
        /\ page'.restoreDraft => entryDuel' # "none"
        /\ page'.phase \in {"signing", "confirming"} => ~page'.restoring
    BY <1>1 DEF Written, PageAllowed
  <2> QED BY <2>1, <2>2 DEF PageFit
<1>6. MainFit'
  <2>1. PICK m \in EntryOpRow : m = ops["main"] /\ m = entryOp'["main"]
    BY <1>1, <1>3 DEF Written
  <2>2. m.pc \in {"load", "abandon"} => Refused(m.rejected)'
    <3>1. PICK j \in Intent : j = m.rejected
      BY DEF EntryOpRow
    <3>2. m.pc \in {"load", "abandon"} => Refused(j)'
      BY <1>2, <2>1, <3>1, RefusedIsPrimed DEF MainAllowed
    <3> QED BY <3>1, <3>2
  <2>3. /\ m.pc = "create" => entryDuel' = "none"
        /\ m.pc \in {"create", "prepare"} => ~page'.restoring /\ (page'.phase = "confirming" \/ ~page'.restoreDraft)
        /\ m.pc = "sign" => page'.phase = "signing" /\ NoPayment' /\ page'.rejected = 0
        /\ m.pc \in {"sign", "submit"} => m.intent \in EntryIntents /\ fund'[m.intent] # "NONE"
        /\ m.pc \in {"submit", "confirm", "settle"} => page'.phase = "confirming"
        /\ m.pc \in {"load", "abandon"} => page'.rejected \in {0, m.rejected} /\ ~m.sent
        /\ m.pc = "abandon" => m.rejected # 0
        /\ m.pc \in {"reconcile", "reload", "prepareRestored"} =>
             page'.rejected = 0 \/ fund'[page'.rejected] # "PREPARED"
        /\ m.pc \in {"prepare", "reload", "prepareRestored"} /\ entryDuel' = "matched" => NoPayment'
    BY <1>1, <2>1 DEF Written, MainAllowed
  <2> QED BY <2>1, <2>2, <2>3 DEF MainFit
<1>7. RestoreFit'
  BY <1>1, <1>3 DEF Written, RestoreAllowed, RestoreFit, RestorePcs
<1>8. LateFit'
  <2>1. PICK l \in EntryOpRow : l = entryOp'["late"]
    BY <1>2, <1>3 DEF EntryRowTypes
  <2>2. LateAllowed(p, l, ops["main"])
    BY <1>1, <2>1 DEF Written, Reruns
  <2>3. l.pc \in {"load", "abandon"} => Refused(l.rejected)'
    <3>1. PICK j \in Intent : j = l.rejected
      BY DEF EntryOpRow
    <3>2. l.pc \in {"load", "abandon"} => Refused(j)'
      BY <1>2, <2>2, <3>1, RefusedIsPrimed DEF LateAllowed
    <3> QED BY <3>1, <3>2
  <2>4. page'.intent = p.intent /\ entryOp'["main"] = ops["main"]
    BY <1>1 DEF Written
  <2> QED BY <2>1, <2>2, <2>3, <2>4 DEF LateFit, LateAllowed
<1> QED BY <1>2, <1>5, <1>6, <1>7, <1>8 DEF EntryInv

(***************************************************************************)
(* What stays allowed.                                                     *)
(***************************************************************************)
LEMMA RefusedStays ==
  ASSUME EntryInv, ApiGoesOn, NEW j \in Intent, Refused(j)
  PROVE  RefusedNext(j)
BY DEF ApiGoesOn, Refused, RefusedNext, Intent

\* Nothing of the rejected intent is open once the duel is paid for.
LEMMA FundedLeavesNothing ==
  ASSUME ApiFit', ApiTypes', entryDuel' = "funded", NEW j \in EntryIntents
  PROVE  fund'[j] # "PREPARED"
BY DEF ApiFit, ApiTypes

LEMMA PageStaysAllowed ==
  ASSUME EntryInv, ApiGoesOn, NEW p \in PageRow,
         p.intent = page.intent \/ p.intent = 0, p.phase = page.phase \/ p.phase # "idle",
         p.rejected \in {0, page.rejected},
         p.seen = page.seen \/ p.seen = entryDuel \/ p.seen = entryDuel',
         p.restoreDraft => page.restoreDraft,
         p.phase \in {"signing", "confirming"} => p.restoring = page.restoring \/ ~p.restoring
  PROVE  PageAllowed(p)
<1>1. page.rejected \in Intent /\ page.intent \in Intent /\ 0 \in Intent
  BY DEF EntryInv, EntryRowTypes, PageRow, Intent
<1>2. RefusedNext(page.rejected)
  <2>1. PICK j \in Intent : j = page.rejected
    BY <1>1
  <2>2. Refused(j)
    BY <2>1 DEF EntryInv, PageFit
  <2>3. RefusedNext(j)
    BY <2>2, RefusedStays
  <2> QED BY <2>1, <2>3 DEF RefusedNext
<1>3. RefusedNext(p.rejected)
  BY <1>2 DEF RefusedNext
<1>4. p.intent # 0 => fund'[p.intent] # "NONE" /\ (p.phase = "idle" => NoPayment')
  BY <1>1 DEF EntryInv, PageFit, ApiGoesOn, NoPayment, Intent
<1>5. /\ p.seen = "funded" => entryDuel' = "funded"
      /\ p.restoreDraft => entryDuel' # "none"
      /\ p.phase \in {"signing", "confirming"} => ~p.restoring \/ p.phase # page.phase
  BY DEF EntryInv, PageFit, ApiGoesOn
<1> QED BY <1>3, <1>4, <1>5 DEF PageAllowed

LEMMA MainStaysAllowed ==
  ASSUME EntryInv, ApiGoesOn, entryDuel = "none" => entryDuel' = "none",
         NEW p \in PageRow, NEW m \in EntryOpRow, m = entryOp["main"],
         p.phase = page.phase, p.rejected \in {0, page.rejected}, p.restoreDraft => page.restoreDraft,
         p.restoring => page.restoring \/ m.pc \notin {"create", "prepare"}
  PROVE  MainAllowed(p, m)
<1>1. m.pc \in {"load", "abandon"} => RefusedNext(m.rejected)
  <2>1. PICK j \in Intent : j = m.rejected
    BY DEF EntryOpRow
  <2>2. m.pc \in {"load", "abandon"} => Refused(j)
    BY <2>1 DEF EntryInv, MainFit
  <2> QED BY <2>1, <2>2, RefusedStays
<1>2. p.rejected = 0 \/ fund[p.rejected] # "PREPARED" => p.rejected = 0 \/ fund'[p.rejected] # "PREPARED"
  BY DEF EntryInv, PageFit, Refused, ApiGoesOn, PageRow, Intent
<1>3. NoPayment => NoPayment'
  BY DEF ApiGoesOn, NoPayment
<1>4. \A i \in EntryIntents : fund[i] # "NONE" => fund'[i] # "NONE"
  BY DEF ApiGoesOn
<1>5. entryDuel' = "matched" => entryDuel = "matched" \/ NoPayment'
  BY DEF ApiGoesOn
<1>6. MainFit
  BY DEF EntryInv
<1> QED BY <1>1, <1>2, <1>3, <1>4, <1>5, <1>6 DEF MainFit, MainAllowed

LEMMA RestoreStaysAllowed ==
  ASSUME EntryInv, ApiGoesOn, NEW p \in PageRow, NEW r \in EntryOpRow, r = entryOp["restore"],
         p.restoring = page.restoring
  PROVE  RestoreAllowed(p, r)
BY DEF EntryInv, RestoreFit, RestoreAllowed, ApiGoesOn, NoPayment

\* The restores whose result is ignored go on, with the rejected intent they have.
LEMMA LateStaysAllowed ==
  ASSUME EntryInv, ApiGoesOn, NEW p \in PageRow, NEW l \in EntryOpRow, NEW m \in EntryOpRow,
         l.pc \in RestorePcs, l.pc = "abandon" => l.rejected # 0,
         l.pc \in {"load", "abandon"} =>
           entryOp["late"].pc \in {"load", "abandon"} /\ l.rejected = entryOp["late"].rejected,
         p.intent = 0 \/ page.intent # 0 \/ entryDuel \in {"none", "matched"},
         m.pc = "sign" => entryOp["main"].pc = "sign" \/ page.intent # 0
  PROVE  LateAllowed(p, l, m)
<1>1. ASSUME l.pc \in {"load", "abandon"}
      PROVE  /\ RefusedNext(l.rejected)
             /\ \/ l.rejected = 0
                \/ fund'[l.rejected] # "PREPARED"
                \/ entryDuel' \notin {"none", "matched"} /\ p.intent = 0 /\ m.pc # "sign"
  <2>1. PICK j \in Intent : j = l.rejected
    BY DEF EntryOpRow
  <2>2. /\ Refused(j)
        /\ \/ j = 0
           \/ fund[j] # "PREPARED"
           \/ entryDuel \notin {"none", "matched"} /\ page.intent = 0 /\ entryOp["main"].pc # "sign"
    BY <1>1, <2>1 DEF EntryInv, LateFit
  <2>3. RefusedNext(j)
    BY <2>2, RefusedStays
  <2>4. fund[j] # "PREPARED" => j = 0 \/ fund'[j] # "PREPARED"
    BY <2>2 DEF Refused, ApiGoesOn, Intent
  <2>5. entryDuel \notin {"none", "matched"} => entryDuel' \notin {"none", "matched"}
    BY DEF ApiGoesOn
  <2> QED BY <2>1, <2>2, <2>3, <2>4, <2>5
<1> QED BY <1>1 DEF LateAllowed

\* A restore that the effect overtook may go on when its intent cannot be paid any more,
\* or the page offers none.
LEMMA OvertakenIsAllowed ==
  ASSUME EntryInv, ApiGoesOn, NEW p \in PageRow, NEW r \in EntryOpRow, NEW m \in EntryOpRow,
         r.pc \in RestorePcs, r.pc = "abandon" => r.rejected # 0, r.rejected = page.rejected,
         \/ page.rejected = 0
         \/ fund'[page.rejected] # "PREPARED"
         \/ entryDuel' \notin {"none", "matched"} /\ p.intent = 0 /\ m.pc # "sign"
         \/ entryDuel' = "funded"
  PROVE  LateAllowed(p, r, m)
<1>1. PICK j \in Intent : j = page.rejected
  BY DEF EntryInv, EntryRowTypes, PageRow
<1>2. RefusedNext(j)
  BY <1>1, RefusedStays DEF EntryInv, PageFit
<1>3. entryDuel' = "funded" => j = 0 \/ fund'[j] # "PREPARED"
  BY FundedLeavesNothing DEF ApiGoesOn, Intent
<1> QED BY <1>1, <1>2, <1>3 DEF LateAllowed

(***************************************************************************)
(* One operation moves.                                                    *)
(***************************************************************************)
LEMMA OpsRow ==
  ASSUME EntryInv, NEW p, NEW o \in EntryOps, NEW next \in EntryOpRow, Becomes(p, o, next)
  PROVE  \E ops \in [EntryOps -> EntryOpRow] :
           /\ PageBecomes(p, ops) /\ ops[o] = next
           /\ \A x \in EntryOps : x # o => ops[x] = entryOp[x]
<1>1. PICK ops : ops = [entryOp EXCEPT ![o] = next]
  OBVIOUS
<1>2. ops \in [EntryOps -> EntryOpRow] /\ ops[o] = next /\ \A x \in EntryOps : x # o => ops[x] = entryOp[x]
  BY <1>1 DEF EntryInv, EntryRowTypes
<1>3. PageBecomes(p, ops)
  BY <1>1 DEF Becomes
<1> QED BY <1>2, <1>3

LEMMA MainMoves ==
  ASSUME EntryInv, ApiGoesOn, reloads' = reloads, NEW p \in PageRow, NEW m \in EntryOpRow,
         Becomes(p, "main", m), p.restoring = page.restoring, PageAllowed(p), MainAllowed(p, m),
         p.intent = 0 \/ page.intent # 0 \/ entryDuel \in {"none", "matched"},
         m.pc = "sign" => entryOp["main"].pc = "sign" \/ page.intent # 0,
         \/ entryOp["restore"].pc = "idle"
         \/ p.phase = page.phase /\ p.rejected = page.rejected /\ p.restoreDraft = page.restoreDraft
         \/ page.rejected = 0
         \/ fund'[page.rejected] # "PREPARED"
         \/ entryDuel' \notin {"none", "matched"} /\ p.intent = 0 /\ m.pc # "sign"
  PROVE  EntryInv'
<1>1. PICK ops \in [EntryOps -> EntryOpRow] :
        /\ PageBecomes(p, ops) /\ ops["main"] = m
        /\ \A x \in EntryOps : x # "main" => ops[x] = entryOp[x]
  BY OpsRow DEF EntryOps
<1>2. PICK r \in EntryOpRow : r = entryOp["restore"]
  BY DEF EntryInv, EntryRowTypes, EntryOps
<1>3. PICK l \in EntryOpRow : l = entryOp["late"]
  BY DEF EntryInv, EntryRowTypes, EntryOps
<1>4. ops["restore"] = r /\ ops["late"] = l
  BY <1>1, <1>2, <1>3 DEF EntryOps
<1>5. RestoreAllowed(p, r)
  BY <1>2, RestoreStaysAllowed
<1>6. LateAllowed(p, l, m)
  <2>1. l.pc \in RestorePcs /\ (l.pc = "abandon" => l.rejected # 0)
    BY <1>3 DEF EntryInv, LateFit
  <2> QED BY <1>3, <2>1, LateStaysAllowed
<1>7. ASSUME r.pc # "idle", Reruns(p) PROVE LateAllowed(p, r, m)
  <2>1. r.pc \in RestorePcs /\ (r.pc = "abandon" => r.rejected # 0) /\ r.rejected = page.rejected
    BY <1>2, <1>7 DEF EntryInv, RestoreFit
  <2>2. p.seen = "funded" => entryDuel' = "funded"
    BY DEF PageAllowed
  <2> QED BY <1>2, <1>7, <2>1, <2>2, OvertakenIsAllowed DEF Reruns
<1>8. ApiTypes' /\ ApiFit' /\ reloads' \in Nat
  BY DEF ApiGoesOn, EntryInv, EntryRowTypes
<1> QED BY <1>1, <1>4, <1>5, <1>6, <1>7, <1>8, WritingKeeps

LEMMA RestoreMoves ==
  ASSUME EntryInv, ApiGoesOn, reloads' = reloads, entryDuel = "none" => entryDuel' = "none",
         NEW p \in PageRow, NEW r \in EntryOpRow,
         Becomes(p, "restore", r), PageAllowed(p), RestoreAllowed(p, r),
         p.phase = page.phase, p.rejected \in {0, page.rejected}, p.restoreDraft => page.restoreDraft,
         p.restoring => page.restoring \/ entryOp["main"].pc \notin {"create", "prepare"},
         p.intent = 0 \/ page.intent # 0 \/ entryDuel \in {"none", "matched"},
         r.pc # "idle" => p.rejected = page.rejected /\ p.restoreDraft = page.restoreDraft
  PROVE  EntryInv'
<1>1. PICK ops \in [EntryOps -> EntryOpRow] :
        /\ PageBecomes(p, ops) /\ ops["restore"] = r
        /\ \A x \in EntryOps : x # "restore" => ops[x] = entryOp[x]
  BY OpsRow DEF EntryOps
<1>2. PICK m \in EntryOpRow : m = entryOp["main"]
  BY DEF EntryInv, EntryRowTypes, EntryOps
<1>3. PICK l \in EntryOpRow : l = entryOp["late"]
  BY DEF EntryInv, EntryRowTypes, EntryOps
<1>4. ops["main"] = m /\ ops["late"] = l
  BY <1>1, <1>2, <1>3 DEF EntryOps
<1>5. MainAllowed(p, m)
  BY <1>2, MainStaysAllowed
<1>6. LateAllowed(p, l, m)
  <2>1. l.pc \in RestorePcs /\ (l.pc = "abandon" => l.rejected # 0)
    BY <1>3 DEF EntryInv, LateFit
  <2> QED BY <1>2, <1>3, <2>1, LateStaysAllowed
<1>7. ASSUME r.pc # "idle", Reruns(p) PROVE LateAllowed(p, r, m)
  <2>1. r.pc \in RestorePcs /\ (r.pc = "abandon" => r.rejected # 0) /\ r.rejected = page.rejected
    BY <1>7 DEF RestoreAllowed
  <2>2. entryDuel' = "funded"
    BY <1>7 DEF PageAllowed, Reruns
  <2> QED BY <2>1, <2>2, OvertakenIsAllowed
<1>8. ApiTypes' /\ ApiFit' /\ reloads' \in Nat
  BY DEF ApiGoesOn, EntryInv, EntryRowTypes
<1> QED BY <1>1, <1>4, <1>5, <1>6, <1>7, <1>8, WritingKeeps

LEMMA PageFits ==
  ASSUME EntryInv
  PROVE  \E p \in PageRow : p = page
BY DEF EntryInv, EntryRowTypes

LEMMA LateMoves ==
  ASSUME EntryInv, ApiGoesOn, reloads' = reloads, entryDuel = "none" => entryDuel' = "none",
         NEW l \in EntryOpRow, Becomes(page, "late", l), l.pc \in RestorePcs, l.pc = "abandon" => l.rejected # 0,
         l.pc \in {"load", "abandon"} =>
           entryOp["late"].pc \in {"load", "abandon"} /\ l.rejected = entryOp["late"].rejected
  PROVE  EntryInv'
<1>0. PICK p \in PageRow : p = page
  BY PageFits
<1>1. PICK ops \in [EntryOps -> EntryOpRow] :
        /\ PageBecomes(p, ops) /\ ops["late"] = l
        /\ \A x \in EntryOps : x # "late" => ops[x] = entryOp[x]
  BY <1>0, OpsRow DEF EntryOps
<1>2. PICK m \in EntryOpRow : m = entryOp["main"]
  BY DEF EntryInv, EntryRowTypes, EntryOps
<1>3. PICK r \in EntryOpRow : r = entryOp["restore"]
  BY DEF EntryInv, EntryRowTypes, EntryOps
<1>4. ops["main"] = m /\ ops["restore"] = r
  BY <1>1, <1>2, <1>3 DEF EntryOps
<1>5. MainAllowed(p, m) /\ RestoreAllowed(p, r) /\ PageAllowed(p)
  BY <1>0, <1>2, <1>3, MainStaysAllowed, RestoreStaysAllowed, PageStaysAllowed
<1>6. LateAllowed(p, l, m)
  BY <1>0, <1>2, LateStaysAllowed
<1>7. ASSUME r.pc # "idle", Reruns(p) PROVE LateAllowed(p, r, m)
  <2>1. r.pc \in RestorePcs /\ (r.pc = "abandon" => r.rejected # 0) /\ r.rejected = page.rejected
    BY <1>3, <1>7 DEF EntryInv, RestoreFit
  <2>2. entryDuel' = "funded"
    BY <1>0, <1>5, <1>7 DEF PageAllowed, Reruns
  <2> QED BY <2>1, <2>2, OvertakenIsAllowed
<1>8. ApiTypes' /\ ApiFit' /\ reloads' \in Nat
  BY DEF ApiGoesOn, EntryInv, EntryRowTypes
<1> QED BY <1>1, <1>4, <1>5, <1>6, <1>7, <1>8, WritingKeeps

\* The page learns the status of the duel.
LEMMA PageLearns ==
  ASSUME EntryInv, ApiGoesOn, reloads' = reloads, entryDuel = "none" => entryDuel' = "none",
         PageBecomes([page EXCEPT !.seen = entryDuel], entryOp), entryDuel' = entryDuel
  PROVE  EntryInv'
<1>0. PICK p \in PageRow : /\ p = [page EXCEPT !.seen = entryDuel] /\ p.seen = entryDuel /\ p.intent = page.intent
                           /\ p.phase = page.phase /\ p.rejected = page.rejected
                           /\ p.restoring = page.restoring /\ p.restoreDraft = page.restoreDraft
  BY DEF EntryInv, EntryRowTypes, PageRow
<1>1. PICK ops \in [EntryOps -> EntryOpRow] : ops = entryOp
  BY DEF EntryInv, EntryRowTypes
<1>2. PICK m \in EntryOpRow : m = entryOp["main"]
  BY DEF EntryInv, EntryRowTypes, EntryOps
<1>3. PICK r \in EntryOpRow : r = entryOp["restore"]
  BY DEF EntryInv, EntryRowTypes, EntryOps
<1>4. PICK l \in EntryOpRow : l = entryOp["late"]
  BY DEF EntryInv, EntryRowTypes, EntryOps
<1>5. MainAllowed(p, m) /\ RestoreAllowed(p, r) /\ PageAllowed(p)
  BY <1>0, <1>2, <1>3, MainStaysAllowed, RestoreStaysAllowed, PageStaysAllowed
<1>6. LateAllowed(p, l, m)
  <2>1. l.pc \in RestorePcs /\ (l.pc = "abandon" => l.rejected # 0)
    BY <1>4 DEF EntryInv, LateFit
  <2> QED BY <1>0, <1>2, <1>4, <2>1, LateStaysAllowed
<1>7. ASSUME r.pc # "idle", Reruns(p) PROVE LateAllowed(p, r, m)
  <2>1. r.pc \in RestorePcs /\ (r.pc = "abandon" => r.rejected # 0) /\ r.rejected = page.rejected
    BY <1>3, <1>7 DEF EntryInv, RestoreFit
  <2>2. entryDuel' = "funded"
    BY <1>0, <1>5, <1>7 DEF PageAllowed, Reruns
  <2> QED BY <2>1, <2>2, OvertakenIsAllowed
<1>8. ApiTypes' /\ ApiFit' /\ reloads' \in Nat /\ PageBecomes(p, ops)
  BY <1>0, <1>1 DEF ApiGoesOn, EntryInv, EntryRowTypes
<1> QED BY <1>1, <1>2, <1>3, <1>4, <1>5, <1>6, <1>7, <1>8, WritingKeeps

\* The page, the draft and the operations as they are after a step.
LEMMA FittingKeeps ==
  ASSUME ApiTypes', ApiFit', reloads' \in Nat, NEW p \in PageRow, page' = p,
         draft' \in DraftRow, draft'.rejected \in {0, p.rejected}, entryOp' \in [EntryOps -> EntryOpRow],
         NEW m \in EntryOpRow, entryOp'["main"] = m, NEW r \in EntryOpRow, entryOp'["restore"] = r,
         NEW l \in EntryOpRow, entryOp'["late"] = l,
         PageAllowed(p), p.phase \in {"signing", "confirming"} => ~p.restoring,
         MainAllowed(p, m), RestoreAllowed(p, r), r.pc # "idle" => r.rejected = p.rejected, LateAllowed(p, l, m)
  PROVE  EntryInv'
<1>7. EntryRowTypes' /\ ApiFit'
  BY DEF ApiTypes, EntryRowTypes
<1>8. \A j \in Intent : RefusedNext(j) => Refused(j)'
  BY <1>7, RefusedIsPrimed
<1>9. p.rejected \in Intent /\ m.rejected \in Intent /\ l.rejected \in Intent
  BY DEF PageRow, EntryOpRow
<1>10. PageFit'
  <2>1. Refused(p.rejected)'
    <3>1. PICK j \in Intent : j = p.rejected
      BY <1>9
    <3> QED BY <1>8, <3>1 DEF PageAllowed, Refused
  <2>2. Refused(page.rejected)'
    BY <2>1 DEF Refused
  <2> QED BY <2>2 DEF PageAllowed, PageFit
<1>11. MainFit'
  <2>1. m.pc \in {"load", "abandon"} => Refused(m.rejected)'
    <3>1. PICK j \in Intent : j = m.rejected
      BY <1>9
    <3> QED BY <1>8, <3>1 DEF MainAllowed
  <2> QED BY <2>1 DEF MainAllowed, MainFit
<1>12. RestoreFit'
  BY DEF RestoreAllowed, RestoreFit
<1>13. LateFit'
  <2>1. l.pc \in {"load", "abandon"} => Refused(l.rejected)'
    <3>1. PICK j \in Intent : j = l.rejected
      BY <1>9
    <3> QED BY <1>8, <3>1 DEF LateAllowed
  <2> QED BY <2>1 DEF LateAllowed, LateFit
<1> QED BY <1>7, <1>10, <1>11, <1>12, <1>13 DEF EntryInv

\* Nobody's page changes.
LEMMA PageRests ==
  ASSUME EntryInv, ApiGoesOn, reloads' = reloads, entryDuel = "none" => entryDuel' = "none",
         UNCHANGED <<page, draft, entryOp>>
  PROVE  EntryInv'
<1>0. PICK p \in PageRow : p = page
  BY PageFits
<1>2. PICK m \in EntryOpRow : m = entryOp["main"]
  BY DEF EntryInv, EntryRowTypes, EntryOps
<1>3. PICK r \in EntryOpRow : r = entryOp["restore"]
  BY DEF EntryInv, EntryRowTypes, EntryOps
<1>4. PICK l \in EntryOpRow : l = entryOp["late"]
  BY DEF EntryInv, EntryRowTypes, EntryOps
<1>5. MainAllowed(p, m) /\ RestoreAllowed(p, r) /\ PageAllowed(p)
  BY <1>0, <1>2, <1>3, MainStaysAllowed, RestoreStaysAllowed, PageStaysAllowed
<1>6. LateAllowed(p, l, m)
  <2>1. l.pc \in RestorePcs /\ (l.pc = "abandon" => l.rejected # 0)
    BY <1>4 DEF EntryInv, LateFit
  <2> QED BY <1>0, <1>2, <1>4, <2>1, LateStaysAllowed
<1>7. ApiTypes' /\ ApiFit' /\ reloads' \in Nat /\ draft' \in DraftRow /\ entryOp' \in [EntryOps -> EntryOpRow]
  BY DEF ApiGoesOn, EntryInv, EntryRowTypes
<1>8. /\ draft'.rejected \in {0, p.rejected} /\ (p.phase \in {"signing", "confirming"} => ~p.restoring)
      /\ r.pc # "idle" => r.rejected = p.rejected
  BY <1>0, <1>3 DEF EntryInv, PageFit, RestoreFit
<1> QED BY <1>0, <1>2, <1>3, <1>4, <1>5, <1>6, <1>7, <1>8, FittingKeeps

(***************************************************************************)
(* The buttons' handlers.                                                  *)
(***************************************************************************)
LEMMA RestoreIsIdle ==
  ASSUME EntryInv, ~page.restoring
  PROVE  entryOp["restore"].pc = "idle"
BY DEF EntryInv, RestoreFit

\* A main operation, of which the invariant asks nothing more, changes no more than the
\* payment the page offers, or withdraws it.
LEMMA MainEndsKeeps ==
  ASSUME EntryInv, ApiGoesOn, reloads' = reloads, NEW p \in PageRow, MainEnds(p),
         p.restoring = page.restoring, PageAllowed(p),
         p.intent = 0 \/ page.intent # 0 \/ entryDuel \in {"none", "matched"},
         \/ entryOp["restore"].pc = "idle"
         \/ p.phase = page.phase /\ p.rejected = page.rejected /\ p.restoreDraft = page.restoreDraft
         \/ page.rejected = 0
         \/ fund'[page.rejected] # "PREPARED"
         \/ entryDuel' \notin {"none", "matched"} /\ p.intent = 0
  PROVE  EntryInv'
<1>1. PICK q \in PageRow : /\ q = [p EXCEPT !.pending = FALSE] /\ q.intent = p.intent /\ q.phase = p.phase
                           /\ q.rejected = p.rejected /\ q.restoring = p.restoring
                           /\ q.restoreDraft = p.restoreDraft /\ q.seen = p.seen
  <2>1. PICK row : row = [p EXCEPT !.pending = FALSE]
    OBVIOUS
  <2>2. /\ row \in PageRow
        /\ row.intent = p.intent /\ row.phase = p.phase /\ row.rejected = p.rejected
        /\ row.restoring = p.restoring /\ row.restoreDraft = p.restoreDraft
        /\ row.seen = p.seen
    BY <2>1 DEF PageRow
  <2> QED BY <2>1, <2>2
<1>2. PICK m \in EntryOpRow : m = EntryIdle /\ m.pc = "idle"
  BY FreshRows
<1>3. Becomes(q, "main", m)
  BY <1>1, <1>2 DEF MainEnds
<1>4. PageAllowed(q)
  BY <1>1 DEF PageAllowed
<1>5. MainAllowed(q, m)
  BY <1>2 DEF MainAllowed
<1> QED BY <1>1, <1>2, <1>3, <1>4, <1>5, MainMoves

LEMMA MainStartsKeeps ==
  ASSUME EntryInv, NEW p \in PageRow, NEW m \in EntryOpRow, MainStarts(p, m), p.restoring = page.restoring,
         ApiGoesOn => PageAllowed(p) /\ MainAllowed(p, m), p.intent = page.intent,
         m.pc = "sign" => page.intent # 0,
         \/ ~page.restoring
         \/ p.phase = page.phase /\ p.rejected = page.rejected /\ p.restoreDraft = page.restoreDraft
  PROVE  EntryInv'
<1>1. PICK q \in PageRow : /\ q = [p EXCEPT !.pending = TRUE] /\ q.intent = p.intent /\ q.phase = p.phase
                           /\ q.rejected = p.rejected /\ q.restoring = p.restoring
                           /\ q.restoreDraft = p.restoreDraft /\ q.seen = p.seen
  <2>1. PICK row : row = [p EXCEPT !.pending = TRUE]
    OBVIOUS
  <2>2. /\ row \in PageRow /\ row.intent = p.intent /\ row.phase = p.phase /\ row.rejected = p.rejected
        /\ row.restoring = p.restoring /\ row.restoreDraft = p.restoreDraft /\ row.seen = p.seen
    BY <2>1 DEF PageRow
  <2> QED BY <2>1, <2>2
<1>2. Becomes(q, "main", m) /\ UNCHANGED <<fund, message, entryDuel, resigned, reloads>>
  BY <1>1 DEF MainStarts
<1>3. ApiGoesOn
  BY <1>2, ApiRests
<1>4. PageAllowed(q) /\ MainAllowed(q, m)
  <2>1. PageAllowed(p) /\ MainAllowed(p, m)
    BY <1>3
  <2> QED BY <1>1, <2>1 DEF PageAllowed, MainAllowed
<1> QED BY <1>1, <1>2, <1>3, <1>4, RestoreIsIdle, MainMoves

LEMMA ReviewDuelKeeps ==
  ASSUME EntryInv, ReviewDuel
  PROVE  EntryInv'
<1>1. PICK q \in PageRow : q = page
  BY PageFits
<1>2. PICK m \in EntryOpRow : m = [EntryIdle EXCEPT !.pc = "create"] /\ m.pc = "create"
  <2>1. PICK row : row = [EntryIdle EXCEPT !.pc = "create"]
    OBVIOUS
  <2>2. row \in EntryOpRow /\ row.pc = "create"
    BY <2>1 DEF EntryIdle, EntryOpRow, Intent
  <2> QED BY <2>1, <2>2
<1>3. ~page.restoring /\ entryDuel = "none" /\ entryDuel' = "none" /\ MainStarts(q, m)
  BY <1>1, <1>2 DEF ReviewDuel, ButtonsEnabled, MainStarts
<1>4. ApiGoesOn => PageAllowed(q)
  BY <1>1, PageStaysAllowed
<1>5. MainAllowed(q, m)
  BY <1>1, <1>2, <1>3 DEF MainAllowed, EntryInv, PageFit
<1> QED BY <1>1, <1>2, <1>3, <1>4, <1>5, MainStartsKeeps

LEMMA CreateDuelKeeps ==
  ASSUME EntryInv, CreateDuel
  PROVE  EntryInv'
<1>1. PICK q \in PageRow : q = page
  BY PageFits
<1>2. /\ entryOp["main"].pc = "create" /\ UNCHANGED <<message, resigned, reloads>> /\ entryDuel = "none"
      /\ ~page.restoring /\ (page.phase = "confirming" \/ ~page.restoreDraft)
  BY DEF CreateDuel, EntryInv, MainFit
<1>3. CASE /\ entryDuel' = "matched" /\ UNCHANGED fund
           /\ Becomes([page EXCEPT !.seen = "matched"], "main", [EntryIdle EXCEPT !.pc = "prepare"])
  <2>1. PICK p \in PageRow : /\ p = [page EXCEPT !.seen = "matched"] /\ p.intent = q.intent /\ p.phase = q.phase
                             /\ p.rejected = q.rejected /\ p.restoring = q.restoring
                             /\ p.restoreDraft = q.restoreDraft /\ p.seen = "matched"
    <3>1. PICK row : row = [page EXCEPT !.seen = "matched"]
      OBVIOUS
    <3>2. /\ row \in PageRow
          /\ row.intent = q.intent /\ row.phase = q.phase /\ row.rejected = q.rejected
          /\ row.restoring = q.restoring /\ row.restoreDraft = q.restoreDraft
          /\ row.seen = "matched"
      BY <3>1, <1>1 DEF PageRow, EntryStatuses
    <3> QED BY <3>1, <3>2
  <2>2. PICK m \in EntryOpRow : m = [EntryIdle EXCEPT !.pc = "prepare"] /\ m.pc = "prepare"
    <3>1. PICK row : row = [EntryIdle EXCEPT !.pc = "prepare"]
      OBVIOUS
    <3>2. /\ row \in EntryOpRow
          /\ row.pc = "prepare"
      BY <3>1 DEF EntryIdle, EntryOpRow, Intent
    <3> QED BY <3>1, <3>2
  <2>3. ApiGoesOn /\ NoPayment'
    BY <1>2, <1>3, ApiCreates
  <2>4. PageAllowed(p)
    BY <1>1, <1>3, <2>1, <2>3, PageStaysAllowed
  <2>5. MainAllowed(p, m)
    BY <1>1, <1>2, <2>1, <2>2, <2>3 DEF MainAllowed
  <2> QED BY <1>1, <1>2, <1>3, <2>1, <2>2, <2>3, <2>4, <2>5, RestoreIsIdle, MainMoves
<1>4. CASE MainEnds(page) /\ UNCHANGED <<fund, entryDuel>>
  <2>1. ApiGoesOn
    BY <1>2, <1>4, ApiRests
  <2>2. PageAllowed(q)
    BY <1>1, <2>1, PageStaysAllowed
  <2> QED BY <1>1, <1>2, <1>4, <2>1, <2>2, MainEndsKeeps
<1> QED BY <1>3, <1>4 DEF CreateDuel

\* Whether or not an intent was prepared on the way.
LEMMA MayPrepare ==
  ASSUME EntryInv, UNCHANGED <<message, entryDuel, resigned>>,
         UNCHANGED fund \/ \E i \in Preparable : EntryPrepared(i)
  PROVE  ApiGoesOn
<1>1. Preparable \subseteq EntryIntents
  BY PreparableIntents
<1>2. CASE UNCHANGED fund
  BY <1>2, ApiRests
<1>3. ASSUME NEW i \in Preparable, EntryPrepared(i) PROVE ApiGoesOn
  BY <1>1, <1>3, ApiPrepares
<1> QED BY <1>2, <1>3

LEMMA PrepareDuelIntentKeeps ==
  ASSUME EntryInv, PrepareDuelIntent
  PROVE  EntryInv'
<1>1. PICK q \in PageRow : q = page
  BY PageFits
<1>2. /\ entryOp["main"].pc = "prepare" /\ UNCHANGED <<message, entryDuel, resigned, reloads>>
      /\ ~page.restoring /\ (entryDuel = "matched" => NoPayment)
  BY DEF PrepareDuelIntent, EntryInv, MainFit
<1>3. ASSUME NEW i \in Preparable, EntryPrepared(i),
             MainEnds([page EXCEPT !.intent = i, !.rejected = 0, !.phase = "idle"])
      PROVE  EntryInv'
  <2>1. i \in EntryIntents
    BY PreparableIntents
  <2>2. ApiGoesOn /\ entryDuel = "matched" /\ fund'[i] = "PREPARED"
    BY <1>2, <1>3, <2>1, ApiPrepares
  <2>3. PICK p \in PageRow : /\ p = [page EXCEPT !.intent = i, !.rejected = 0, !.phase = "idle"] /\ p.intent = i
                             /\ p.rejected = 0 /\ p.phase = "idle" /\ p.restoring = q.restoring /\ p.seen = q.seen
                             /\ p.restoreDraft = q.restoreDraft
    <3>1. PICK row : row = [page EXCEPT !.intent = i, !.rejected = 0, !.phase = "idle"]
      OBVIOUS
    <3>2. /\ row \in PageRow
          /\ row.intent = i /\ row.rejected = 0 /\ row.phase = "idle"
          /\ row.restoring = q.restoring /\ row.seen = q.seen
          /\ row.restoreDraft = q.restoreDraft
      BY <3>1, <1>1, <2>1 DEF PageRow, Intent
    <3> QED BY <3>1, <3>2
  <2>4. PageAllowed(p)
    BY <1>1, <1>2, <2>2, <2>3 DEF PageAllowed, RefusedNext, ApiGoesOn, NoPayment, EntryInv, PageFit
  <2> QED BY <1>1, <1>2, <1>3, <2>2, <2>3, <2>4, RestoreIsIdle, MainEndsKeeps
<1>4. ASSUME MainEnds(IF entryOp["main"].as = "again" THEN [page EXCEPT !.phase = "recovering"] ELSE page),
             UNCHANGED fund \/ \E i \in Preparable : EntryPrepared(i)
      PROVE  EntryInv'
  <2>1. ApiGoesOn
    BY <1>2, <1>4, MayPrepare
  <2>2. PICK p \in PageRow : /\ p = [page EXCEPT !.phase = "recovering"] /\ p.intent = q.intent
                             /\ p.rejected = q.rejected /\ p.phase = "recovering" /\ p.restoring = q.restoring
                             /\ p.seen = q.seen /\ p.restoreDraft = q.restoreDraft
    <3>1. PICK row : row = [page EXCEPT !.phase = "recovering"]
      OBVIOUS
    <3>2. /\ row \in PageRow
          /\ row.intent = q.intent /\ row.rejected = q.rejected /\ row.phase = "recovering"
          /\ row.restoring = q.restoring /\ row.seen = q.seen
          /\ row.restoreDraft = q.restoreDraft
      BY <3>1, <1>1 DEF PageRow
    <3> QED BY <3>1, <3>2
  <2>3. PageAllowed(p) /\ PageAllowed(q)
    BY <1>1, <2>1, <2>2, PageStaysAllowed
  <2> QED BY <1>1, <1>2, <1>4, <2>1, <2>2, <2>3, RestoreIsIdle, MainEndsKeeps
<1> QED BY <1>3, <1>4 DEF PrepareDuelIntent

LEMMA ApproveIntentKeeps ==
  ASSUME EntryInv, ApproveIntent
  PROVE  EntryInv'
<1>1. PICK q \in PageRow : q = page
  BY PageFits
<1>2. /\ ~page.restoring /\ page.phase = "idle" /\ page.intent # 0
      /\ MainStarts([page EXCEPT !.phase = "signing", !.rejected = 0], [EntryIdle EXCEPT !.pc = "sign", !.intent = page.intent])
  BY DEF ApproveIntent, ButtonsEnabled, FundingReview
<1>3. PICK p \in PageRow : /\ p = [page EXCEPT !.phase = "signing", !.rejected = 0] /\ p.intent = q.intent
                           /\ p.phase = "signing" /\ p.rejected = 0 /\ p.restoring = q.restoring
                           /\ p.restoreDraft = q.restoreDraft /\ p.seen = q.seen
  <2>1. PICK row : row = [page EXCEPT !.phase = "signing", !.rejected = 0]
    OBVIOUS
  <2>2. /\ row \in PageRow
        /\ row.intent = q.intent /\ row.phase = "signing" /\ row.rejected = 0
        /\ row.restoring = q.restoring /\ row.restoreDraft = q.restoreDraft
        /\ row.seen = q.seen
    BY <2>1, <1>1 DEF PageRow, Intent
  <2> QED BY <2>1, <2>2
<1>4. PICK m \in EntryOpRow : /\ m = [EntryIdle EXCEPT !.pc = "sign", !.intent = page.intent] /\ m.pc = "sign"
                              /\ m.intent = q.intent
  <2>1. PICK row : row = [EntryIdle EXCEPT !.pc = "sign", !.intent = page.intent]
    OBVIOUS
  <2>2. /\ row \in EntryOpRow
        /\ row.pc = "sign" /\ row.intent = q.intent
    BY <2>1, <1>1 DEF EntryIdle, EntryOpRow, Intent, PageRow
  <2> QED BY <2>1, <2>2
<1>5. MainStarts(p, m)
  BY <1>2, <1>3, <1>4
<1>6. ApiGoesOn => PageAllowed(p)
  BY <1>1, <1>3, PageStaysAllowed
<1>7. ApiGoesOn => MainAllowed(p, m)
  <2>1. ApiGoesOn => NoPayment' /\ q.intent \in EntryIntents /\ fund'[q.intent] # "NONE"
    BY <1>1, <1>2 DEF EntryInv, PageFit, ApiGoesOn, NoPayment, PageRow, Intent
  <2> QED BY <1>3, <1>4, <2>1 DEF MainAllowed
<1> QED BY <1>1, <1>2, <1>3, <1>4, <1>5, <1>6, <1>7, MainStartsKeeps

LEMMA RecoveringKeeps ==
  ASSUME EntryInv, ApiGoesOn, reloads' = reloads, ~page.restoring,
         MainEnds([page EXCEPT !.phase = "recovering"])
  PROVE  EntryInv'
<1>1. PICK q \in PageRow : q = page
  BY PageFits
<1>2. PICK p \in PageRow : /\ p = [page EXCEPT !.phase = "recovering"] /\ p.intent = q.intent
                           /\ p.rejected = q.rejected /\ p.phase = "recovering" /\ p.restoring = q.restoring
                           /\ p.seen = q.seen /\ p.restoreDraft = q.restoreDraft
  <2>1. PICK row : row = [page EXCEPT !.phase = "recovering"]
    OBVIOUS
  <2>2. /\ row \in PageRow
        /\ row.intent = q.intent /\ row.rejected = q.rejected /\ row.phase = "recovering"
        /\ row.restoring = q.restoring /\ row.seen = q.seen
        /\ row.restoreDraft = q.restoreDraft
    BY <2>1, <1>1 DEF PageRow
  <2> QED BY <2>1, <2>2
<1>3. PageAllowed(p)
  BY <1>1, <1>2, PageStaysAllowed
<1> QED BY <1>1, <1>2, <1>3, RestoreIsIdle, MainEndsKeeps

\* The wallet signs, whether or not the page learns of it.
LEMMA SigningKeeps ==
  ASSUME EntryInv, entryOp["main"].pc = "sign", EntrySigned(entryOp["main"].intent),
         UNCHANGED <<fund, entryDuel, reloads>>,
         NEW p \in PageRow, p.intent = page.intent, p.phase \in {"confirming", "recovering"},
         p.rejected = page.rejected, p.restoring = page.restoring, p.restoreDraft = page.restoreDraft,
         p.seen = page.seen,
         NEW m \in EntryOpRow,
         m.pc = "idle" \/ (m.pc = "submit" /\ m.intent = entryOp["main"].intent /\ p.phase = "confirming"),
         Becomes(p, "main", m)
  PROVE  EntryInv'
<1>1. PICK i \in EntryIntents : i = entryOp["main"].intent /\ fund[i] # "NONE"
  BY DEF EntryInv, MainFit
<1>2. /\ NoPayment /\ page.rejected = 0 /\ page.phase = "signing" /\ ~page.restoring
      /\ entryOp["restore"].pc = "idle"
  BY RestoreIsIdle DEF EntryInv, MainFit, PageFit
<1>3. /\ message' = [message EXCEPT ![i] = IF @ = "unsigned" THEN "signed" ELSE @]
      /\ resigned' = IF fund[i] = "EXPIRED" THEN resigned \cup {i} ELSE resigned
  BY <1>1 DEF EntrySigned
<1>4. /\ message' \in [EntryIntents -> {"unsigned", "signed", "landed", "dead"}]
      /\ message'[i] # "unsigned" /\ \A j \in EntryIntents : j # i => message'[j] = message[j]
      /\ resigned' \in SUBSET EntryIntents
  BY <1>3 DEF EntryInv, EntryRowTypes
<1>5. ApiTypes'
  BY <1>4 DEF EntryInv, EntryRowTypes, ApiTypes
<1>6. \A j \in EntryIntents : MayHavePaid(j)' => j = i /\ fund[i] # "EXPIRED"
  BY <1>2, <1>3, <1>4 DEF NoPayment, MayHavePaid
<1>7. \A j \in EntryIntents : j \in resigned' => fund[j] = "EXPIRED"
  BY <1>3 DEF EntryInv, ApiFit
<1>8. ApiFit'
  <2>1. fund[i] \in FundStatuses
    BY DEF EntryInv, EntryRowTypes
  <2>2. fund[i] # "EXPIRED" => fund[i] \in {"PREPARED", "SUBMITTED", "FINALIZED"}
    BY <1>1, <2>1 DEF FundStatuses
  <2>3. \A j \in EntryIntents : message[j] # "unsigned" => message'[j] # "unsigned"
    BY <1>4
  <2> QED BY <1>6, <1>7, <2>2, <2>3 DEF EntryInv, ApiFit
<1>9. PageAllowed(p)
  BY <1>2 DEF PageAllowed, RefusedNext, EntryInv, PageFit
<1>10. PICK ops \in [EntryOps -> EntryOpRow] :
        /\ PageBecomes(p, ops) /\ ops["main"] = m
        /\ \A x \in EntryOps : x # "main" => ops[x] = entryOp[x]
  BY OpsRow DEF EntryOps
<1>11. PICK r \in EntryOpRow : r = entryOp["restore"]
  BY DEF EntryInv, EntryRowTypes, EntryOps
<1>12. PICK l \in EntryOpRow : l = entryOp["late"]
  BY DEF EntryInv, EntryRowTypes, EntryOps
<1>13. ops["restore"] = r /\ ops["late"] = l /\ r.pc = "idle"
  BY <1>2, <1>10, <1>11, <1>12 DEF EntryOps
<1>14. MainAllowed(p, m)
  BY <1>1 DEF MainAllowed
<1>15. RestoreAllowed(p, r)
  BY <1>13 DEF RestoreAllowed, RestorePcs
<1>16. LateAllowed(p, l, m)
  <2>1. l.pc \in RestorePcs /\ (l.pc = "abandon" => l.rejected # 0)
    BY <1>12 DEF EntryInv, LateFit
  <2>2. ASSUME l.pc \in {"load", "abandon"}
        PROVE  RefusedNext(l.rejected) /\ (l.rejected = 0 \/ fund'[l.rejected] # "PREPARED")
    <3>1. PICK j \in Intent : j = l.rejected
      BY DEF EntryOpRow
    <3>2. Refused(j) /\ (j = 0 \/ fund[j] # "PREPARED")
      BY <1>12, <2>2, <3>1 DEF EntryInv, LateFit
    <3> QED BY <3>1, <3>2 DEF Refused, RefusedNext
  <2> QED BY <2>1, <2>2 DEF LateAllowed
<1>17. reloads' \in Nat
  BY DEF EntryInv, EntryRowTypes
<1> QED BY <1>5, <1>8, <1>9, <1>10, <1>13, <1>14, <1>15, <1>16, <1>17, WritingKeeps

LEMMA WalletAnswersKeeps ==
  ASSUME EntryInv, WalletAnswers
  PROVE  EntryInv'
<1>1. PICK q \in PageRow : q = page
  BY PageFits
<1>2. PICK i \in EntryIntents : i = entryOp["main"].intent /\ fund[i] # "NONE"
  BY DEF WalletAnswers, EntryInv, MainFit
<1>3. /\ entryOp["main"].pc = "sign" /\ UNCHANGED <<fund, entryDuel, reloads>>
      /\ NoPayment /\ page.rejected = 0 /\ page.phase = "signing" /\ ~page.restoring
      /\ entryOp["restore"].pc = "idle"
  BY RestoreIsIdle DEF WalletAnswers, EntryInv, MainFit, PageFit
<1>4. PICK p \in PageRow : /\ p = [page EXCEPT !.phase = "confirming"] /\ p.intent = q.intent
                           /\ p.rejected = q.rejected /\ p.phase = "confirming" /\ p.restoring = q.restoring
                           /\ p.seen = q.seen /\ p.restoreDraft = q.restoreDraft
  <2>1. PICK row : row = [page EXCEPT !.phase = "confirming"]
    OBVIOUS
  <2>2. /\ row \in PageRow
        /\ row.intent = q.intent /\ row.rejected = q.rejected /\ row.phase = "confirming"
        /\ row.restoring = q.restoring /\ row.seen = q.seen
        /\ row.restoreDraft = q.restoreDraft
    BY <2>1, <1>1 DEF PageRow
  <2> QED BY <2>1, <2>2
<1>5. PICK p2 \in PageRow : /\ p2 = [page EXCEPT !.phase = "recovering"] /\ p2.intent = q.intent
                            /\ p2.rejected = q.rejected /\ p2.phase = "recovering" /\ p2.restoring = q.restoring
                            /\ p2.seen = q.seen /\ p2.restoreDraft = q.restoreDraft
  <2>1. PICK row : row = [page EXCEPT !.phase = "recovering"]
    OBVIOUS
  <2>2. /\ row \in PageRow
        /\ row.intent = q.intent /\ row.rejected = q.rejected /\ row.phase = "recovering"
        /\ row.restoring = q.restoring /\ row.seen = q.seen
        /\ row.restoreDraft = q.restoreDraft
    BY <2>1, <1>1 DEF PageRow
  <2> QED BY <2>1, <2>2
<1>6. CASE /\ EntrySigned(i)
           /\ Becomes([page EXCEPT !.phase = "confirming"], "main", [entryOp["main"] EXCEPT !.pc = "submit"])
  <2>1. PICK m \in EntryOpRow : /\ m = [entryOp["main"] EXCEPT !.pc = "submit"] /\ m.pc = "submit"
                                /\ m.intent = entryOp["main"].intent
    <3>1. PICK row : row = [entryOp["main"] EXCEPT !.pc = "submit"]
      OBVIOUS
    <3>2. /\ row \in EntryOpRow
          /\ row.pc = "submit" /\ row.intent = entryOp["main"].intent
      BY <3>1 DEF EntryInv, EntryRowTypes, EntryOps, EntryOpRow
    <3> QED BY <3>1, <3>2
  <2> QED BY <1>1, <1>2, <1>3, <1>4, <1>6, <2>1, SigningKeeps
<1>7. CASE MainEnds([page EXCEPT !.phase = "recovering"]) /\ (UNCHANGED <<message, resigned>> \/ EntrySigned(i))
  <2>1. CASE UNCHANGED <<message, resigned>>
    <3>1. ApiGoesOn
      BY <1>3, <2>1, ApiRests
    <3>2. PageAllowed(p2)
      BY <1>1, <1>5, <3>1, PageStaysAllowed
    <3> QED BY <1>1, <1>3, <1>5, <1>7, <3>1, <3>2, MainEndsKeeps
  <2>2. CASE EntrySigned(i)
    <3>1. PICK p3 \in PageRow : /\ p3 = [p2 EXCEPT !.pending = FALSE] /\ p3.intent = p2.intent
                                /\ p3.rejected = p2.rejected /\ p3.phase = p2.phase /\ p3.restoring = p2.restoring
                                /\ p3.seen = p2.seen /\ p3.restoreDraft = p2.restoreDraft
      <4>1. PICK row : row = [p2 EXCEPT !.pending = FALSE]
        OBVIOUS
      <4>2. /\ row \in PageRow
            /\ row.intent = p2.intent /\ row.rejected = p2.rejected /\ row.phase = p2.phase
            /\ row.restoring = p2.restoring /\ row.seen = p2.seen
            /\ row.restoreDraft = p2.restoreDraft
        BY <4>1 DEF PageRow
      <4> QED BY <4>1, <4>2
    <3>2. PICK m \in EntryOpRow : m = EntryIdle /\ m.pc = "idle"
      BY FreshRows
    <3>3. Becomes(p3, "main", m)
      BY <1>5, <1>7, <3>1, <3>2 DEF MainEnds
    <3> QED BY <1>1, <1>2, <1>3, <1>5, <2>2, <3>1, <3>2, <3>3, SigningKeeps
  <2> QED BY <1>7, <2>1, <2>2
<1>8. CASE /\ UNCHANGED <<message, resigned>>
           /\ Becomes([page EXCEPT !.phase = "idle", !.rejected = i], "main",
                      [EntryIdle EXCEPT !.pc = "load", !.as = "reset", !.rejected = i])
  <2>1. PICK p4 \in PageRow : /\ p4 = [page EXCEPT !.phase = "idle", !.rejected = i] /\ p4.intent = q.intent
                              /\ p4.rejected = i /\ p4.phase = "idle" /\ p4.restoring = q.restoring
                              /\ p4.seen = q.seen /\ p4.restoreDraft = q.restoreDraft
    <3>1. PICK row : row = [page EXCEPT !.phase = "idle", !.rejected = i]
      OBVIOUS
    <3>2. /\ row \in PageRow
          /\ row.intent = q.intent /\ row.rejected = i /\ row.phase = "idle"
          /\ row.restoring = q.restoring /\ row.seen = q.seen
          /\ row.restoreDraft = q.restoreDraft
      BY <3>1, <1>1 DEF PageRow, Intent
    <3> QED BY <3>1, <3>2
  <2>2. PICK m \in EntryOpRow : /\ m = [EntryIdle EXCEPT !.pc = "load", !.as = "reset", !.rejected = i]
                                /\ m.pc = "load" /\ m.rejected = i /\ ~m.sent
    <3>1. PICK row : row = [EntryIdle EXCEPT !.pc = "load", !.as = "reset", !.rejected = i]
      OBVIOUS
    <3>2. /\ row \in EntryOpRow
          /\ row.pc = "load" /\ row.rejected = i /\ ~row.sent
      BY <3>1 DEF EntryIdle, EntryOpRow, Intent
    <3> QED BY <3>1, <3>2
  <2>3. ApiGoesOn
    BY <1>3, <1>8, ApiRests
  <2>4. RefusedNext(i) /\ NoPayment'
    <3>1. Refused(i)
      BY <1>2, <1>3 DEF Refused, NoPayment
    <3>2. i \in Intent
      BY DEF Intent
    <3> QED BY <1>3, <2>3, <3>1, <3>2, RefusedStays DEF ApiGoesOn, NoPayment
  <2>5. PageAllowed(p4)
    BY <1>1, <1>3, <2>1, <2>3, <2>4 DEF PageAllowed, EntryInv, PageFit, ApiGoesOn, Intent, PageRow
  <2>6. MainAllowed(p4, m)
    BY <2>1, <2>2, <2>4, DuelEntryConstants DEF MainAllowed
  <2> QED BY <1>1, <1>3, <1>8, <2>1, <2>2, <2>3, <2>5, <2>6, MainMoves
<1> QED BY <1>2, <1>6, <1>7, <1>8 DEF WalletAnswers, NotBroadcast

LEMMA SubmitSignedIntentKeeps ==
  ASSUME EntryInv, SubmitSignedIntent
  PROVE  EntryInv'
<1>1. PICK q \in PageRow : q = page
  BY PageFits
<1>2. PICK i \in EntryIntents : i = entryOp["main"].intent /\ fund[i] # "NONE"
  BY DEF SubmitSignedIntent, EntryInv, MainFit
<1>3. /\ entryOp["main"].pc = "submit" /\ UNCHANGED <<message, resigned, reloads>>
      /\ page.phase = "confirming" /\ ~page.restoring /\ entryOp["restore"].pc = "idle"
  BY RestoreIsIdle DEF SubmitSignedIntent, EntryInv, MainFit, PageFit
<1>4. /\ \/ UNCHANGED <<fund, entryDuel>>
         \/ /\ fund[i] = "PREPARED" /\ message[i] # "unsigned" /\ entryDuel \in {"matched", "committing"}
            /\ fund' = [fund EXCEPT ![i] = "SUBMITTED"] /\ entryDuel' = "committing"
      /\ \/ Becomes(page, "main", [entryOp["main"] EXCEPT !.pc = "confirm"])
         \/ MainEnds([page EXCEPT !.phase = "recovering"])
  BY <1>2 DEF SubmitSignedIntent
<1>5. ApiGoesOn
  BY <1>3, <1>4, ApiRests, ApiBinds
<1>6. CASE Becomes(page, "main", [entryOp["main"] EXCEPT !.pc = "confirm"])
  <2>1. PICK m \in EntryOpRow : m = [entryOp["main"] EXCEPT !.pc = "confirm"] /\ m.pc = "confirm"
    <3>1. PICK row : row = [entryOp["main"] EXCEPT !.pc = "confirm"]
      OBVIOUS
    <3>2. /\ row \in EntryOpRow
          /\ row.pc = "confirm"
      BY <3>1 DEF EntryInv, EntryRowTypes, EntryOps, EntryOpRow
    <3> QED BY <3>1, <3>2
  <2>2. PageAllowed(q)
    BY <1>1, <1>5, PageStaysAllowed
  <2>3. MainAllowed(q, m)
    BY <1>1, <1>3, <2>1 DEF MainAllowed
  <2> QED BY <1>1, <1>3, <1>5, <1>6, <2>1, <2>2, <2>3, MainMoves
<1>7. CASE MainEnds([page EXCEPT !.phase = "recovering"])
  BY <1>3, <1>5, <1>7, RecoveringKeeps
<1> QED BY <1>4, <1>6, <1>7

LEMMA TrackConfirmationKeeps ==
  ASSUME EntryInv, TrackConfirmation
  PROVE  EntryInv'
<1>1. PICK q \in PageRow : q = page
  BY PageFits
<1>2. /\ entryOp["main"].pc = "confirm" /\ UNCHANGED <<fund, message, entryDuel, resigned, reloads>>
      /\ page.phase = "confirming" /\ ~page.restoring /\ entryOp["restore"].pc = "idle"
  BY RestoreIsIdle DEF TrackConfirmation, EntryInv, MainFit, PageFit
<1>3. ApiGoesOn
  BY <1>2, ApiRests
<1>4. CASE Becomes(page, "main", [entryOp["main"] EXCEPT !.pc = "settle"])
  <2>1. PICK m \in EntryOpRow : m = [entryOp["main"] EXCEPT !.pc = "settle"] /\ m.pc = "settle"
    <3>1. PICK row : row = [entryOp["main"] EXCEPT !.pc = "settle"]
      OBVIOUS
    <3>2. /\ row \in EntryOpRow
          /\ row.pc = "settle"
      BY <3>1 DEF EntryInv, EntryRowTypes, EntryOps, EntryOpRow
    <3> QED BY <3>1, <3>2
  <2>2. PageAllowed(q)
    BY <1>1, <1>3, PageStaysAllowed
  <2>3. MainAllowed(q, m)
    BY <1>1, <1>2, <2>1 DEF MainAllowed
  <2> QED BY <1>1, <1>2, <1>3, <1>4, <2>1, <2>2, <2>3, MainMoves
<1>5. CASE MainEnds([page EXCEPT !.phase = "recovering"])
  BY <1>2, <1>3, <1>5, RecoveringKeeps
<1> QED BY <1>4, <1>5 DEF TrackConfirmation

\* The counts of a wallet's transactions tell whether one is open.
LEMMA CountOfOne ==
  ASSUME NEW S, \A x, y \in S : x = y
  PROVE  Cardinality(S) \in Nat /\ (Cardinality(S) > 0 <=> S # {})
<1>1. CASE S = {}
  BY <1>1, FS_EmptySet
<1>2. CASE S # {}
  <2>1. PICK x \in S : TRUE
    BY <1>2
  <2>2. S = {x}
    BY <2>1
  <2>3. Cardinality(S) = 1
    BY <2>2, FS_Singleton
  <2> QED BY <1>2, <2>3
<1> QED BY <1>1, <1>2

LEMMA NothingIsOpen ==
  ASSUME ApiTypes', ApiFit', NEW f, f = fund'
  PROVE  /\ ActiveCount(f) \in Nat /\ UnboundCount(f) \in Nat
         /\ ~(ActiveCount(f) > 0) /\ ~(UnboundCount(f) > 0) =>
              /\ \A i \in EntryIntents : fund'[i] \notin {"PREPARED", "SUBMITTED"}
              /\ entryDuel' = "matched" => NoPayment'
<1> DEFINE active == {i \in EntryIntents : f[i] = "SUBMITTED"}
           unbound == {i \in EntryIntents : f[i] = "PREPARED"}
<1>1. (\A i, j \in active : i = j) /\ (\A i, j \in unbound : i = j)
  BY DEF ApiFit
<1>2. /\ Cardinality(active) \in Nat /\ Cardinality(unbound) \in Nat
      /\ (Cardinality(active) > 0 <=> active # {}) /\ (Cardinality(unbound) > 0 <=> unbound # {})
  BY <1>1, CountOfOne, Zenon
<1>3. /\ ActiveCount(f) = Cardinality(active) /\ UnboundCount(f) = Cardinality(unbound)
  BY DEF ActiveCount, UnboundCount
<1>4. active = {} /\ unbound = {} =>
        /\ \A i \in EntryIntents : fund'[i] \notin {"PREPARED", "SUBMITTED"}
        /\ entryDuel' = "matched" => NoPayment'
  BY DEF ApiFit, NoPayment
<1> QED BY <1>2, <1>3, <1>4

LEMMA ReconcileBroadcastFundingKeeps ==
  ASSUME EntryInv, ReconcileBroadcastFunding
  PROVE  EntryInv'
<1>1. PICK q \in PageRow : q = page
  BY PageFits
<1>2. /\ entryOp["main"].pc = "settle" /\ UNCHANGED <<message, resigned, reloads>> /\ Monitor
      /\ page.phase = "confirming" /\ ~page.restoring /\ entryOp["restore"].pc = "idle"
  BY RestoreIsIdle DEF ReconcileBroadcastFunding, EntryInv, MainFit, PageFit
<1>3. ApiGoesOn
  BY <1>2, ApiMonitors
<1>4. ApiTypes' /\ ApiFit' /\ entryDuel' \in EntryStatuses
  BY <1>3 DEF ApiGoesOn, ApiTypes
<1>5. PICK f : f = fund'
  OBVIOUS
<1>6. PICK d \in EntryStatuses : d = entryDuel'
  BY <1>4
<1>7. PICK outcome : outcome = ClassifyPostBroadcastRecovery(ActiveCount(f), UnboundCount(f), d)
  OBVIOUS
<1>8. /\ outcome \in {"still-confirming", "retry-safe", "waiting"}
      /\ outcome = "retry-safe" => d = "matched" /\ ~(ActiveCount(f) > 0) /\ ~(UnboundCount(f) > 0)
  BY <1>7 DEF ClassifyPostBroadcastRecovery
<1>9. PICK seen \in PageRow : /\ seen = [page EXCEPT !.seen = d] /\ seen.intent = q.intent
                              /\ seen.rejected = q.rejected /\ seen.phase = q.phase /\ seen.restoring = q.restoring
                              /\ seen.seen = d /\ seen.restoreDraft = q.restoreDraft
  <2>1. PICK row : row = [page EXCEPT !.seen = d]
    OBVIOUS
  <2>2. /\ row \in PageRow
        /\ row.intent = q.intent /\ row.rejected = q.rejected /\ row.phase = q.phase
        /\ row.restoring = q.restoring /\ row.seen = d /\ row.restoreDraft = q.restoreDraft
    BY <2>1, <1>1 DEF PageRow
  <2> QED BY <2>1, <2>2
<1>10. \/ outcome = "still-confirming" /\ MainEnds([seen EXCEPT !.phase = "recovering"])
       \/ outcome = "retry-safe" /\ Becomes(seen, "main", [entryOp["main"] EXCEPT !.pc = "prepare", !.as = "again"])
       \/ outcome = "waiting" /\ MainEnds([seen EXCEPT !.intent = 0, !.rejected = 0, !.phase = "idle"])
       \/ MainEnds([page EXCEPT !.phase = "recovering"])
  BY <1>5, <1>6, <1>7, <1>8, <1>9 DEF ReconcileBroadcastFunding
<1>11. CASE outcome = "still-confirming" /\ MainEnds([seen EXCEPT !.phase = "recovering"])
  <2>1. PICK p \in PageRow : /\ p = [seen EXCEPT !.phase = "recovering"] /\ p.intent = seen.intent
                             /\ p.rejected = seen.rejected /\ p.phase = "recovering" /\ p.restoring = seen.restoring
                             /\ p.seen = seen.seen /\ p.restoreDraft = seen.restoreDraft
    <3>1. PICK row : row = [seen EXCEPT !.phase = "recovering"]
      OBVIOUS
    <3>2. /\ row \in PageRow
          /\ row.intent = seen.intent /\ row.rejected = seen.rejected /\ row.phase = "recovering"
          /\ row.restoring = seen.restoring /\ row.seen = seen.seen
          /\ row.restoreDraft = seen.restoreDraft
      BY <3>1 DEF PageRow
    <3> QED BY <3>1, <3>2
  <2>2. PageAllowed(p)
    BY <1>1, <1>3, <1>6, <1>9, <2>1, PageStaysAllowed
  <2> QED BY <1>1, <1>2, <1>3, <1>9, <1>11, <2>1, <2>2, MainEndsKeeps
<1>12. CASE outcome = "retry-safe" /\ Becomes(seen, "main", [entryOp["main"] EXCEPT !.pc = "prepare", !.as = "again"])
  <2>1. PICK m \in EntryOpRow : m = [entryOp["main"] EXCEPT !.pc = "prepare", !.as = "again"] /\ m.pc = "prepare"
    <3>1. PICK row : row = [entryOp["main"] EXCEPT !.pc = "prepare", !.as = "again"]
      OBVIOUS
    <3>2. /\ row \in EntryOpRow
          /\ row.pc = "prepare"
      BY <3>1 DEF EntryInv, EntryRowTypes, EntryOps, EntryOpRow
    <3> QED BY <3>1, <3>2
  <2>2. entryDuel' = "matched" => NoPayment'
    BY <1>4, <1>5, <1>8, <1>12, NothingIsOpen
  <2>3. PageAllowed(seen)
    BY <1>1, <1>3, <1>6, <1>9, PageStaysAllowed
  <2>4. MainAllowed(seen, m)
    BY <1>1, <1>2, <1>9, <2>1, <2>2 DEF MainAllowed
  <2> QED BY <1>1, <1>2, <1>3, <1>9, <1>12, <2>1, <2>3, <2>4, MainMoves
<1>13. CASE outcome = "waiting" /\ MainEnds([seen EXCEPT !.intent = 0, !.rejected = 0, !.phase = "idle"])
  <2>1. PICK p \in PageRow : /\ p = [seen EXCEPT !.intent = 0, !.rejected = 0, !.phase = "idle"] /\ p.intent = 0
                             /\ p.rejected = 0 /\ p.phase = "idle" /\ p.restoring = seen.restoring
                             /\ p.seen = seen.seen /\ p.restoreDraft = seen.restoreDraft
    <3>1. PICK row : row = [seen EXCEPT !.intent = 0, !.rejected = 0, !.phase = "idle"]
      OBVIOUS
    <3>2. /\ row \in PageRow
          /\ row.intent = 0 /\ row.rejected = 0 /\ row.phase = "idle"
          /\ row.restoring = seen.restoring /\ row.seen = seen.seen
          /\ row.restoreDraft = seen.restoreDraft
      BY <3>1 DEF PageRow, Intent
    <3> QED BY <3>1, <3>2
  <2>2. PageAllowed(p)
    BY <1>1, <1>3, <1>6, <1>9, <2>1 DEF PageAllowed, RefusedNext, EntryInv, PageFit, ApiGoesOn
  <2> QED BY <1>1, <1>2, <1>3, <1>9, <1>13, <2>1, <2>2, MainEndsKeeps
<1>14. CASE MainEnds([page EXCEPT !.phase = "recovering"])
  BY <1>2, <1>3, <1>14, RecoveringKeeps
<1> QED BY <1>10, <1>11, <1>12, <1>13, <1>14

\* A handler that takes the page's rejected intent to the API.
LEMMA LoadingKeeps ==
  ASSUME EntryInv, NEW m \in EntryOpRow, m.pc = "load", m.rejected = page.rejected, ~m.sent, MainStarts(page, m)
  PROVE  EntryInv'
<1>1. PICK q \in PageRow : q = page
  BY PageFits
<1>2. ApiGoesOn => PageAllowed(q)
  BY <1>1, PageStaysAllowed
<1>3. ApiGoesOn => MainAllowed(q, m)
  BY <1>1, <1>2 DEF MainAllowed, PageAllowed
<1> QED BY <1>1, <1>2, <1>3, MainStartsKeeps

LEMMA ReviewPersistedFundingKeeps ==
  ASSUME EntryInv, ReviewPersistedFunding
  PROVE  EntryInv'
<1>1. PICK q \in PageRow : q = page
  BY PageFits
<1>2. PICK m \in EntryOpRow : /\ m = [EntryIdle EXCEPT !.pc = "load", !.as = "review", !.rejected = page.rejected]
                              /\ m.pc = "load" /\ m.rejected = q.rejected /\ ~m.sent
  <2>1. PICK row : row = [EntryIdle EXCEPT !.pc = "load", !.as = "review", !.rejected = page.rejected]
    OBVIOUS
  <2>2. /\ row \in EntryOpRow
        /\ row.pc = "load" /\ row.rejected = q.rejected /\ ~row.sent
    BY <2>1, <1>1 DEF EntryIdle, EntryOpRow, Intent, PageRow
  <2> QED BY <2>1, <2>2
<1> QED BY <1>1, <1>2, LoadingKeeps DEF ReviewPersistedFunding

LEMMA ResumeGuidedEntryKeeps ==
  ASSUME EntryInv, ResumeGuidedEntry
  PROVE  EntryInv'
<1>1. PICK q \in PageRow : q = page
  BY PageFits
<1>2. ~page.restoring
  BY DEF ResumeGuidedEntry, ButtonsEnabled
<1>3. CASE page.rejected # 0 /\ MainStarts(page, [EntryIdle EXCEPT !.pc = "load", !.as = "reset", !.rejected = page.rejected])
  <2>1. PICK m \in EntryOpRow : /\ m = [EntryIdle EXCEPT !.pc = "load", !.as = "reset", !.rejected = page.rejected]
                                /\ m.pc = "load" /\ m.rejected = q.rejected /\ ~m.sent
    <3>1. PICK row : row = [EntryIdle EXCEPT !.pc = "load", !.as = "reset", !.rejected = page.rejected]
      OBVIOUS
    <3>2. /\ row \in EntryOpRow
          /\ row.pc = "load" /\ row.rejected = q.rejected /\ ~row.sent
      BY <3>1, <1>1 DEF EntryIdle, EntryOpRow, Intent, PageRow
    <3> QED BY <3>1, <3>2
  <2> QED BY <1>1, <1>3, <2>1, LoadingKeeps
<1>4. CASE MainStarts([page EXCEPT !.phase = "confirming"], [EntryIdle EXCEPT !.pc = "settle", !.as = "resume"])
  <2>1. PICK m \in EntryOpRow : /\ m = [EntryIdle EXCEPT !.pc = "settle", !.as = "resume"] /\ m.pc = "settle"
    <3>1. PICK row : row = [EntryIdle EXCEPT !.pc = "settle", !.as = "resume"]
      OBVIOUS
    <3>2. /\ row \in EntryOpRow
          /\ row.pc = "settle"
      BY <3>1 DEF EntryIdle, EntryOpRow, Intent
    <3> QED BY <3>1, <3>2
  <2>2. PICK p \in PageRow : /\ p = [page EXCEPT !.phase = "confirming"] /\ p.intent = q.intent
                             /\ p.rejected = q.rejected /\ p.phase = "confirming" /\ p.restoring = q.restoring
                             /\ p.seen = q.seen /\ p.restoreDraft = q.restoreDraft
    <3>1. PICK row : row = [page EXCEPT !.phase = "confirming"]
      OBVIOUS
    <3>2. /\ row \in PageRow
          /\ row.intent = q.intent /\ row.rejected = q.rejected /\ row.phase = "confirming"
          /\ row.restoring = q.restoring /\ row.seen = q.seen
          /\ row.restoreDraft = q.restoreDraft
      BY <3>1, <1>1 DEF PageRow
    <3> QED BY <3>1, <3>2
  <2>3. ApiGoesOn => PageAllowed(p)
    BY <1>1, <2>2, PageStaysAllowed
  <2>4. MainAllowed(p, m)
    BY <2>1, <2>2 DEF MainAllowed
  <2> QED BY <1>1, <1>2, <1>4, <2>1, <2>2, <2>3, <2>4, MainStartsKeeps
<1>5. CASE page.rejected = 0 /\ MainStarts(page, [EntryIdle EXCEPT !.pc = "load", !.as = "review"])
  <2>1. PICK m \in EntryOpRow : /\ m = [EntryIdle EXCEPT !.pc = "load", !.as = "review"]
                                /\ m.pc = "load" /\ m.rejected = 0 /\ ~m.sent
    <3>1. PICK row : row = [EntryIdle EXCEPT !.pc = "load", !.as = "review"]
      OBVIOUS
    <3>2. /\ row \in EntryOpRow
          /\ row.pc = "load" /\ row.rejected = 0 /\ ~row.sent
      BY <3>1 DEF EntryIdle, EntryOpRow, Intent
    <3> QED BY <3>1, <3>2
  <2> QED BY <1>1, <1>5, <2>1, LoadingKeeps
<1> QED BY <1>3, <1>4, <1>5 DEF ResumeGuidedEntry

(***************************************************************************)
(* The steps of a restore.                                                 *)
(***************************************************************************)
LEMMA IdleRow ==
  \E m \in EntryOpRow : m = EntryIdle /\ m.pc = "idle"
BY FreshRows

LEMMA RestoreFailsKeeps ==
  ASSUME EntryInv, ApiGoesOn, reloads' = reloads, entryDuel = "none" => entryDuel' = "none",
         NEW o \in EntryOps, RestoreFails(o)
  PROVE  EntryInv'
<1>1. PICK q \in PageRow : q = page
  BY PageFits
<1>2. PageAllowed(q)
  BY <1>1, PageStaysAllowed
<1>3. PICK m \in EntryOpRow : m = EntryIdle /\ m.pc = "idle"
  BY IdleRow
<1>4. CASE o = "main"
  <2>1. MainEnds(q)
    BY <1>1, <1>4 DEF RestoreFails
  <2> QED BY <1>1, <1>2, <2>1, MainEndsKeeps
<1>5. CASE o = "restore"
  <2>1. PICK p \in PageRow : /\ p = [page EXCEPT !.restoring = FALSE] /\ p.intent = q.intent
                             /\ p.rejected = q.rejected /\ p.phase = q.phase /\ ~p.restoring
                             /\ p.seen = q.seen /\ p.restoreDraft = q.restoreDraft
    <3>1. PICK row : row = [page EXCEPT !.restoring = FALSE]
      OBVIOUS
    <3>2. /\ row \in PageRow
          /\ row.intent = q.intent /\ row.rejected = q.rejected /\ row.phase = q.phase
          /\ ~row.restoring /\ row.seen = q.seen /\ row.restoreDraft = q.restoreDraft
      BY <3>1, <1>1 DEF PageRow
    <3> QED BY <3>1, <3>2
  <2>2. Becomes(p, "restore", m)
    BY <1>3, <1>5, <2>1 DEF RestoreFails
  <2>3. PageAllowed(p)
    BY <1>1, <2>1, PageStaysAllowed
  <2>4. RestoreAllowed(p, m)
    BY <1>3 DEF RestoreAllowed, RestorePcs
  <2> QED BY <1>1, <1>3, <2>1, <2>2, <2>3, <2>4, RestoreMoves
<1>6. CASE o = "late"
  <2>1. Becomes(page, "late", m)
    BY <1>3, <1>6 DEF RestoreFails
  <2>2. m.pc \in RestorePcs
    BY <1>3 DEF RestorePcs
  <2> QED BY <1>3, <2>1, <2>2, LateMoves
<1> QED BY <1>4, <1>5, <1>6 DEF EntryOps

\* The restored intent i, or none.
LEMMA EntryRestoredKeeps ==
  ASSUME EntryInv, ApiGoesOn, reloads' = reloads, entryDuel = "none" => entryDuel' = "none",
         NEW o \in EntryOps, NEW i \in Intent, NEW still \in BOOLEAN, EntryRestored(o, i, still),
         i # 0 /\ o # "late" => NoPayment' /\ fund'[i] # "NONE" /\ entryDuel = "matched",
         o = "main" => \/ still
                       \/ page.rejected = 0
                       \/ fund'[page.rejected] # "PREPARED"
                       \/ entryDuel' \notin {"none", "matched"} /\ i = 0
  PROVE  EntryInv'
<1>1. PICK q \in PageRow : q = page
  BY PageFits
<1>2. PageAllowed(q)
  BY <1>1, PageStaysAllowed
<1>3. PICK m \in EntryOpRow : m = EntryIdle /\ m.pc = "idle"
  BY IdleRow
<1>4. PICK p \in PageRow : /\ p = [page EXCEPT !.seen = entryDuel, !.intent = i] /\ p.intent = i
                           /\ p.rejected = q.rejected /\ p.phase = q.phase /\ p.restoring = q.restoring
                           /\ p.seen = entryDuel /\ p.restoreDraft = q.restoreDraft
  <2>1. PICK row : row = [page EXCEPT !.seen = entryDuel, !.intent = i]
    OBVIOUS
  <2>2. /\ row \in PageRow
        /\ row.intent = i /\ row.rejected = q.rejected /\ row.phase = q.phase
        /\ row.restoring = q.restoring /\ row.seen = entryDuel
        /\ row.restoreDraft = q.restoreDraft
    BY <2>1, <1>1 DEF PageRow, EntryInv, EntryRowTypes
  <2> QED BY <2>1, <2>2
<1>5. RefusedNext(0) /\ (entryDuel = "funded" => entryDuel' = "funded")
  BY DEF RefusedNext, ApiGoesOn
<1>6. CASE o = "main"
  <2>1. PICK p2 \in PageRow : /\ p2 = [p EXCEPT !.rejected = 0, !.phase = "idle"] /\ p2.intent = p.intent
                              /\ p2.rejected = 0 /\ p2.phase = "idle" /\ p2.restoring = p.restoring
                              /\ p2.seen = p.seen /\ p2.restoreDraft = p.restoreDraft
    <3>1. PICK row : row = [p EXCEPT !.rejected = 0, !.phase = "idle"]
      OBVIOUS
    <3>2. /\ row \in PageRow
          /\ row.intent = p.intent /\ row.rejected = 0 /\ row.phase = "idle"
          /\ row.restoring = p.restoring /\ row.seen = p.seen
          /\ row.restoreDraft = p.restoreDraft
      BY <3>1 DEF PageRow, Intent
    <3> QED BY <3>1, <3>2
  <2>2. PICK p3 \in PageRow : /\ p3 = [p EXCEPT !.rejected = IF i # 0 THEN 0 ELSE @] /\ p3.intent = p.intent
                              /\ p3.rejected = (IF i # 0 THEN 0 ELSE p.rejected) /\ p3.phase = p.phase
                              /\ p3.restoring = p.restoring
                              /\ p3.seen = p.seen /\ p3.restoreDraft = p.restoreDraft
    <3>1. PICK row : row = [p EXCEPT !.rejected = IF i # 0 THEN 0 ELSE @]
      OBVIOUS
    <3>2. /\ row \in PageRow
          /\ row.intent = p.intent /\ row.rejected = (IF i # 0 THEN 0 ELSE p.rejected)
          /\ row.phase = p.phase /\ row.restoring = p.restoring /\ row.seen = p.seen
          /\ row.restoreDraft = p.restoreDraft
      BY <3>1 DEF PageRow, Intent
    <3> QED BY <3>1, <3>2
  <2>3. IF still THEN MainEnds(p) ELSE MainEnds(p2) \/ MainEnds(p3)
    <3>1. MainEnds(IF still THEN p ELSE IF entryOp["main"].as = "reset" THEN p2 ELSE p3)
      BY <1>4, <1>6, <2>1, <2>2 DEF EntryRestored
    <3> QED BY <3>1
  <2>4. PageAllowed(p) /\ PageAllowed(p2) /\ PageAllowed(p3)
    BY <1>1, <1>2, <1>4, <1>5, <1>6, <2>1, <2>2 DEF PageAllowed
  <2>5. CASE MainEnds(p)
    BY <1>1, <1>4, <1>6, <2>4, <2>5, MainEndsKeeps
  <2>6. CASE MainEnds(p2) /\ ~still
    BY <1>1, <1>4, <1>6, <2>1, <2>4, <2>6, MainEndsKeeps
  <2>7. CASE MainEnds(p3) /\ ~still
    BY <1>1, <1>4, <1>6, <2>2, <2>4, <2>7, MainEndsKeeps
  <2> QED BY <2>3, <2>5, <2>6, <2>7
<1>7. CASE o = "restore"
  <2>1. PICK p4 \in PageRow :
          /\ p4 = [p EXCEPT !.restoring = FALSE, !.restoreDraft = FALSE, !.rejected = IF i # 0 /\ ~still THEN 0 ELSE @]
          /\ p4.intent = p.intent /\ p4.rejected = (IF i # 0 /\ ~still THEN 0 ELSE p.rejected)
          /\ p4.phase = p.phase /\ ~p4.restoring /\ p4.seen = p.seen /\ ~p4.restoreDraft
    <3>1. PICK row : row = [p EXCEPT !.restoring = FALSE, !.restoreDraft = FALSE,
                                     !.rejected = IF i # 0 /\ ~still THEN 0 ELSE @]
      OBVIOUS
    <3>2. /\ row \in PageRow /\ row.intent = p.intent
          /\ row.rejected = (IF i # 0 /\ ~still THEN 0 ELSE p.rejected)
          /\ row.phase = p.phase /\ ~row.restoring /\ row.seen = p.seen /\ ~row.restoreDraft
      BY <3>1 DEF PageRow, Intent
    <3> QED BY <3>1, <3>2
  <2>2. Becomes(p4, "restore", m)
    BY <1>3, <1>4, <1>7, <2>1 DEF EntryRestored
  <2>3. PageAllowed(p4)
    BY <1>1, <1>2, <1>4, <1>5, <1>7, <2>1 DEF PageAllowed
  <2>4. RestoreAllowed(p4, m)
    BY <1>3 DEF RestoreAllowed, RestorePcs
  <2> QED BY <1>1, <1>3, <1>4, <1>7, <2>1, <2>2, <2>3, <2>4, RestoreMoves
<1>8. CASE o = "late"
  <2>1. Becomes(page, "late", m)
    BY <1>3, <1>8 DEF EntryRestored
  <2>2. m.pc \in RestorePcs
    BY <1>3 DEF RestorePcs
  <2> QED BY <1>3, <2>1, <2>2, LateMoves
<1> QED BY <1>6, <1>7, <1>8 DEF EntryOps

LEMMA GotoRestoreKeeps ==
  ASSUME EntryInv, ApiGoesOn, reloads' = reloads, entryDuel = "none" => entryDuel' = "none",
         NEW o \in EntryOps, NEW pc, GotoRestore(o, pc),
         \/ pc = "abandon" /\ entryOp[o].pc = "load" /\ entryOp[o].rejected # 0
         \/ /\ pc = "reconcile" /\ entryOp[o].pc \in {"load", "abandon"}
            /\ entryOp[o].rejected = 0 \/ fund'[entryOp[o].rejected] # "PREPARED"
         \/ /\ pc \in {"reload", "prepareRestored"} /\ entryOp[o].pc \in {"reconcile", "reload"}
            /\ entryDuel' = "matched" => NoPayment'
  PROVE  EntryInv'
<1>1. PICK q \in PageRow : q = page
  BY PageFits
<1>2. PageAllowed(q)
  BY <1>1, PageStaysAllowed
<1>3. PICK old \in EntryOpRow : old = entryOp[o]
  BY DEF EntryInv, EntryRowTypes
<1>4. PICK m \in EntryOpRow : m = [old EXCEPT !.pc = pc] /\ m.pc = pc /\ m.rejected = old.rejected /\ m.sent = old.sent
  <2>1. PICK row : row = [old EXCEPT !.pc = pc]
    OBVIOUS
  <2>2. row \in EntryOpRow /\ row.pc = pc /\ row.rejected = old.rejected /\ row.sent = old.sent
    BY <2>1 DEF EntryOpRow
  <2> QED BY <2>1, <2>2
<1>5. Becomes(q, o, m)
  BY <1>1, <1>3, <1>4 DEF GotoRestore
<1>6. /\ \/ pc = "abandon" /\ old.pc = "load" /\ old.rejected # 0
         \/ pc = "reconcile" /\ old.pc \in {"load", "abandon"} /\ (old.rejected = 0 \/ fund'[old.rejected] # "PREPARED")
         \/ /\ pc \in {"reload", "prepareRestored"} /\ old.pc \in {"reconcile", "reload"}
            /\ entryDuel' = "matched" => NoPayment'
      /\ pc \in RestorePcs
  BY <1>3 DEF RestorePcs
<1>7. CASE o = "main"
  <2>1. ASSUME pc = "abandon" PROVE RefusedNext(old.rejected) /\ ~old.sent /\ q.rejected \in {0, old.rejected}
    <3>1. PICK j \in Intent : j = old.rejected
      BY DEF EntryOpRow
    <3>2. Refused(j) /\ ~old.sent /\ q.rejected \in {0, j}
      BY <1>1, <1>3, <1>6, <1>7, <2>1, <3>1 DEF EntryInv, MainFit
    <3> QED BY <3>1, <3>2, RefusedStays
  <2>2. ASSUME pc \in {"reconcile", "reload", "prepareRestored"}
        PROVE  q.rejected = 0 \/ fund'[q.rejected] # "PREPARED"
    <3>1. CASE pc = "reconcile"
      <4>1. q.rejected \in {0, old.rejected}
        BY <1>1, <1>3, <1>6, <1>7, <3>1 DEF EntryInv, MainFit
      <4> QED BY <1>6, <3>1, <4>1
    <3>2. CASE pc # "reconcile"
      <4>1. q.rejected = 0 \/ fund[q.rejected] # "PREPARED"
        BY <1>1, <1>3, <1>6, <1>7, <2>2, <3>2 DEF EntryInv, MainFit
      <4>2. Refused(q.rejected) /\ q.rejected \in Intent
        BY <1>1 DEF EntryInv, PageFit, PageRow
      <4> QED BY <4>1, <4>2 DEF Refused, ApiGoesOn, Intent
    <3> QED BY <3>1, <3>2
  <2>3. MainAllowed(q, m)
    BY <1>4, <1>6, <2>1, <2>2 DEF MainAllowed
  <2>4. m.pc # "sign"
    BY <1>4, <1>6
  <2> QED BY <1>1, <1>2, <1>5, <1>7, <2>3, <2>4, MainMoves
<1>8. CASE o = "restore"
  <2>1. RestoreAllowed(q, m)
    BY <1>1, <1>3, <1>4, <1>6, <1>8 DEF RestoreAllowed, EntryInv, RestoreFit
  <2> QED BY <1>1, <1>2, <1>5, <1>8, <2>1, RestoreMoves
<1>9. CASE o = "late"
  <2>1. m.pc = "abandon" => m.rejected # 0
    BY <1>4, <1>6
  <2>2. m.pc \in {"load", "abandon"} => entryOp["late"].pc \in {"load", "abandon"} /\ m.rejected = entryOp["late"].rejected
    BY <1>3, <1>4, <1>6, <1>9
  <2> QED BY <1>1, <1>4, <1>5, <1>6, <1>9, <2>1, <2>2, LateMoves
<1> QED BY <1>7, <1>8, <1>9 DEF EntryOps

LEMMA LateGoesOn ==
  ASSUME EntryInv, ApiGoesOn, reloads' = reloads, entryDuel = "none" => entryDuel' = "none",
         NEW pc \in {"reload", "prepareRestored"}, GotoRestore("late", pc)
  PROVE  EntryInv'
<1>1. PICK old \in EntryOpRow : old = entryOp["late"]
  BY DEF EntryInv, EntryRowTypes, EntryOps
<1>2. PICK m \in EntryOpRow : m = [old EXCEPT !.pc = pc] /\ m.pc = pc
  <2>1. PICK row : row = [old EXCEPT !.pc = pc]
    OBVIOUS
  <2>2. /\ row \in EntryOpRow
        /\ row.pc = pc
    BY <2>1 DEF EntryOpRow
  <2> QED BY <2>1, <2>2
<1>3. Becomes(page, "late", m)
  BY <1>1, <1>2 DEF GotoRestore
<1>4. m.pc \in RestorePcs
  BY <1>2 DEF RestorePcs
<1> QED BY <1>2, <1>3, <1>4, LateMoves

LEMMA LoadDuelKeeps ==
  ASSUME EntryInv, NEW o \in EntryOps, LoadDuel(o)
  PROVE  EntryInv'
<1>1. ApiGoesOn /\ reloads' = reloads /\ entryDuel' = entryDuel /\ entryOp[o].pc = "load"
  BY ApiRests DEF LoadDuel
<1>2. CASE RestoreFails(o)
  BY <1>1, <1>2, RestoreFailsKeeps
<1>3. CASE entryDuel # "none" /\ (entryOp[o].sent \/ entryDuel # "matched") /\ EntryRestored(o, 0, FALSE)
  <2>1. o = "main" => entryDuel # "matched"
    BY <1>1, <1>3 DEF EntryInv, MainFit
  <2>2. 0 \in Intent
    BY DEF Intent
  <2> QED BY <1>1, <1>3, <2>1, <2>2, EntryRestoredKeeps
<1>4. CASE GotoRestore(o, IF entryOp[o].rejected # 0 THEN "abandon" ELSE "reconcile")
  BY <1>1, <1>4, GotoRestoreKeeps
<1> QED BY <1>2, <1>3, <1>4 DEF LoadDuel

LEMMA AbandonRejectedIntentKeeps ==
  ASSUME EntryInv, NEW o \in EntryOps, AbandonRejectedIntent(o)
  PROVE  EntryInv'
<1>1. /\ entryOp[o].pc = "abandon" /\ UNCHANGED <<message, entryDuel, resigned, reloads>>
  BY DEF AbandonRejectedIntent
<1>2. PICK i \in EntryIntents : i = entryOp[o].rejected /\ Refused(i)
  <2>1. entryOp[o].rejected \in Intent /\ entryOp[o].rejected # 0
    BY <1>1 DEF EntryInv, EntryRowTypes, EntryOpRow, MainFit, RestoreFit, LateFit, EntryOps
  <2>2. Refused(entryOp[o].rejected)
    <3>1. o = "main" \/ o = "restore" \/ o = "late"
      BY DEF EntryOps
    <3>2. CASE o = "main"
      BY <1>1, <3>2 DEF EntryInv, MainFit
    <3>3. CASE o = "restore"
      BY <1>1, <3>3 DEF EntryInv, RestoreFit, PageFit
    <3>4. CASE o = "late"
      BY <1>1, <3>4 DEF EntryInv, LateFit
    <3> QED BY <3>1, <3>2, <3>3, <3>4
  <2> QED BY <2>1, <2>2 DEF Intent
<1>3. /\ \/ fund' = [fund EXCEPT ![i] = IF @ = "PREPARED" THEN "EXPIRED" ELSE @]
         \/ fund' = fund
      /\ \/ /\ fund[i] \in {"PREPARED", "EXPIRED"} /\ GotoRestore(o, "reconcile")
            /\ fund' = [fund EXCEPT ![i] = IF @ = "PREPARED" THEN "EXPIRED" ELSE @]
         \/ RestoreFails(o)
  BY <1>2 DEF AbandonRejectedIntent
<1>4. ApiGoesOn
  BY <1>1, <1>2, <1>3, ApiDrops
<1>5. CASE /\ fund[i] \in {"PREPARED", "EXPIRED"} /\ GotoRestore(o, "reconcile")
           /\ fund' = [fund EXCEPT ![i] = IF @ = "PREPARED" THEN "EXPIRED" ELSE @]
  <2>1. fund'[i] # "PREPARED"
    BY <1>5 DEF EntryInv, EntryRowTypes
  <2> QED BY <1>1, <1>2, <1>4, <1>5, <2>1, GotoRestoreKeeps
<1>6. CASE RestoreFails(o)
  BY <1>1, <1>4, <1>6, RestoreFailsKeeps
<1> QED BY <1>3, <1>5, <1>6

LEMMA ReconcileTransactionsKeeps ==
  ASSUME EntryInv, NEW o \in EntryOps, ReconcileTransactions(o)
  PROVE  EntryInv'
<1>1. /\ entryOp[o].pc = "reconcile" /\ Monitor /\ UNCHANGED <<message, resigned, reloads>>
  BY DEF ReconcileTransactions
<1>2. ApiGoesOn /\ (entryDuel = "none" => entryDuel' = "none")
  BY <1>1, ApiMonitors
<1>3. ApiTypes' /\ ApiFit'
  BY <1>2 DEF ApiGoesOn
<1>4. PICK f : f = fund'
  OBVIOUS
<1>5. \/ RestoreFails(o)
      \/ EntryRestored(o, 0, TRUE)
      \/ ~(ActiveCount(f) + UnboundCount(f) > 0) /\ GotoRestore(o, "reload")
  BY <1>4 DEF ReconcileTransactions
<1>6. CASE RestoreFails(o)
  BY <1>1, <1>2, <1>6, RestoreFailsKeeps
<1>7. CASE EntryRestored(o, 0, TRUE)
  <2>1. 0 \in Intent
    BY DEF Intent
  <2> QED BY <1>1, <1>2, <1>7, <2>1, EntryRestoredKeeps
<1>8. CASE ~(ActiveCount(f) + UnboundCount(f) > 0) /\ GotoRestore(o, "reload")
  <2>1. entryDuel' = "matched" => NoPayment'
    <3>1. ActiveCount(f) \in Nat /\ UnboundCount(f) \in Nat
      BY <1>3, <1>4, NothingIsOpen
    <3>2. ~(ActiveCount(f) > 0) /\ ~(UnboundCount(f) > 0)
      BY <1>8, <3>1
    <3> QED BY <1>3, <1>4, <3>2, NothingIsOpen
  <2> QED BY <1>1, <1>2, <1>8, <2>1, GotoRestoreKeeps
<1> QED BY <1>5, <1>6, <1>7, <1>8

\* No payment is under way where a restore prepares an intent.
LEMMA RestoreIsClear ==
  ASSUME EntryInv, NEW o \in EntryOps, o # "late", entryOp[o].pc \in {"reload", "prepareRestored"},
         entryDuel = "matched"
  PROVE  NoPayment
BY DEF EntryInv, MainFit, RestoreFit, EntryOps

\* The rejected intent cannot be paid any more once a button's restore has dropped it.
LEMMA RejectedIsDropped ==
  ASSUME EntryInv, ApiGoesOn, entryOp["main"].pc \in {"reload", "prepareRestored"}
  PROVE  page.rejected = 0 \/ fund'[page.rejected] # "PREPARED"
<1>1. page.rejected = 0 \/ fund[page.rejected] # "PREPARED"
  BY DEF EntryInv, MainFit
<1>2. Refused(page.rejected) /\ page.rejected \in Intent
  BY DEF EntryInv, EntryRowTypes, PageFit, PageRow
<1> QED BY <1>1, <1>2 DEF Refused, ApiGoesOn, Intent

LEMMA ReloadDuelKeeps ==
  ASSUME EntryInv, NEW o \in EntryOps, ReloadDuel(o)
  PROVE  EntryInv'
<1>1. ApiGoesOn /\ reloads' = reloads /\ entryDuel' = entryDuel /\ entryOp[o].pc = "reload"
  BY ApiRests DEF ReloadDuel
<1>2. CASE RestoreFails(o)
  BY <1>1, <1>2, RestoreFailsKeeps
<1>3. CASE EntryRestored(o, 0, FALSE)
  <2>1. o = "main" => page.rejected = 0 \/ fund'[page.rejected] # "PREPARED"
    BY <1>1, RejectedIsDropped
  <2>2. 0 \in Intent
    BY DEF Intent
  <2> QED BY <1>1, <1>3, <2>1, <2>2, EntryRestoredKeeps
<1>4. CASE entryDuel = "matched" /\ GotoRestore(o, "prepareRestored")
  <2>1. CASE o = "late"
    BY <1>1, <1>4, <2>1, LateGoesOn
  <2>2. CASE o # "late"
    <3>1. NoPayment'
      BY <1>1, <1>4, <2>2, RestoreIsClear DEF ApiGoesOn, NoPayment
    <3> QED BY <1>1, <1>4, <3>1, GotoRestoreKeeps
  <2> QED BY <2>1, <2>2
<1> QED BY <1>2, <1>3, <1>4 DEF ReloadDuel

LEMMA PrepareRestoredKeeps ==
  ASSUME EntryInv, NEW o \in EntryOps, PrepareRestored(o)
  PROVE  EntryInv'
<1>1. /\ entryOp[o].pc = "prepareRestored" /\ UNCHANGED <<message, entryDuel, resigned, reloads>>
  BY DEF PrepareRestored
<1>2. ASSUME NEW i \in Preparable, EntryPrepared(i), EntryRestored(o, i, FALSE) PROVE EntryInv'
  <2>1. i \in EntryIntents /\ i \in Intent
    BY PreparableIntents DEF Intent
  <2>2. ApiGoesOn /\ entryDuel = "matched" /\ fund'[i] = "PREPARED"
    BY <1>1, <1>2, <2>1, ApiPrepares
  <2>3. o # "late" => NoPayment'
    BY <1>1, <2>2, RestoreIsClear DEF ApiGoesOn, NoPayment
  <2>4. o = "main" => page.rejected = 0 \/ fund'[page.rejected] # "PREPARED"
    BY <1>1, <2>2, RejectedIsDropped
  <2>5. fund'[i] # "NONE" /\ (entryDuel = "none" => entryDuel' = "none")
    BY <1>1, <2>2
  <2> QED BY <1>1, <1>2, <2>1, <2>2, <2>3, <2>4, <2>5, EntryRestoredKeeps
<1>3. CASE RestoreFails(o) /\ (UNCHANGED fund \/ \E i \in Preparable : EntryPrepared(i))
  <2>1. ApiGoesOn
    BY <1>1, <1>3, MayPrepare
  <2> QED BY <1>1, <1>3, <2>1, RestoreFailsKeeps
<1> QED BY <1>2, <1>3 DEF PrepareRestored

(***************************************************************************)
(* The steps of the page alone, and the others'.                           *)
(***************************************************************************)
LEMMA RestoreDraftKeeps ==
  ASSUME EntryInv, RestoreDraft
  PROVE  EntryInv'
<1>1. PICK q \in PageRow : q = page
  BY PageFits
<1>2. /\ page.restoreDraft /\ page.phase \in {"idle", "recovering"} /\ reloads' = reloads /\ entryDuel' = entryDuel
      /\ UNCHANGED <<fund, message, entryDuel, resigned>>
  BY DEF RestoreDraft
<1>3. ApiGoesOn
  BY <1>2, ApiRests
<1>4. PICK p \in PageRow : /\ p = [page EXCEPT !.restoring = TRUE] /\ p.intent = q.intent
                           /\ p.rejected = q.rejected /\ p.phase = q.phase /\ p.restoring
                           /\ p.seen = q.seen /\ p.restoreDraft = q.restoreDraft
  <2>1. PICK row : row = [page EXCEPT !.restoring = TRUE]
    OBVIOUS
  <2>2. /\ row \in PageRow
        /\ row.intent = q.intent /\ row.rejected = q.rejected /\ row.phase = q.phase
        /\ row.restoring /\ row.seen = q.seen /\ row.restoreDraft = q.restoreDraft
    BY <2>1, <1>1 DEF PageRow
  <2> QED BY <2>1, <2>2
<1>5. PICK r \in EntryOpRow : /\ r = [EntryIdle EXCEPT !.pc = "load", !.as = "draft",
                                                       !.sent = page.phase = "recovering", !.rejected = page.rejected]
                              /\ r.pc = "load" /\ r.rejected = q.rejected
  <2>1. PICK row : row = [EntryIdle EXCEPT !.pc = "load", !.as = "draft",
                                           !.sent = page.phase = "recovering", !.rejected = page.rejected]
    OBVIOUS
  <2>2. row \in EntryOpRow /\ row.pc = "load" /\ row.rejected = q.rejected
    BY <1>1, <2>1 DEF EntryIdle, EntryOpRow, PageRow, Intent
  <2> QED BY <2>1, <2>2
<1>6. Becomes(p, "restore", r)
  BY <1>4, <1>5 DEF RestoreDraft
<1>7. PageAllowed(p)
  BY <1>1, <1>2, <1>3, <1>4, PageStaysAllowed
<1>8. RestoreAllowed(p, r)
  BY <1>1, <1>4, <1>5 DEF RestoreAllowed, RestorePcs
<1>9. entryOp["main"].pc \notin {"create", "prepare"}
  BY <1>2 DEF EntryInv, MainFit
<1> QED BY <1>1, <1>2, <1>3, <1>4, <1>5, <1>6, <1>7, <1>8, <1>9, RestoreMoves

LEMMA PollDuelKeeps ==
  ASSUME EntryInv, PollDuel
  PROVE  EntryInv'
<1>1. ApiGoesOn /\ reloads' = reloads /\ entryDuel' = entryDuel
  BY ApiRests DEF PollDuel
<1> QED BY <1>1, PageLearns DEF PollDuel

LEMMA CancelGuidedEntryKeeps ==
  ASSUME EntryInv, CancelGuidedEntry
  PROVE  EntryInv'
<1>1. /\ ~page.restoring /\ page.phase = "idle" /\ entryDuel = "matched" /\ entryDuel' = "cancelled"
      /\ UNCHANGED <<fund, message, resigned, reloads>>
  BY DEF CancelGuidedEntry, ButtonsEnabled
<1>2. ApiGoesOn
  BY <1>1, ApiCancels
<1>3. CASE UNCHANGED <<page, draft, entryOp>>
  BY <1>1, <1>2, <1>3, PageRests
<1>4. CASE page' = FreshPage /\ draft' = NoDraft /\ entryOp' = Overtaken(entryOp)
  <2>1. PICK p \in PageRow : /\ p = FreshPage /\ p.intent = 0 /\ p.rejected = 0 /\ p.phase = "idle" /\ ~p.restoring
                             /\ ~p.restoreDraft /\ p.seen = "none"
    BY FreshRows
  <2>2. PICK m \in EntryOpRow : m = entryOp["main"]
    BY DEF EntryInv, EntryRowTypes, EntryOps
  <2>3. PICK r \in EntryOpRow : r = entryOp["restore"]
    BY DEF EntryInv, EntryRowTypes, EntryOps
  <2>4. PICK l \in EntryOpRow : l = entryOp["late"]
    BY DEF EntryInv, EntryRowTypes, EntryOps
  <2>5. r.pc = "idle"
    BY <1>1, <2>3, RestoreIsIdle
  <2>6. entryOp' = entryOp
    BY <1>4, <2>3, <2>5 DEF Overtaken
  <2>7. PageAllowed(p) /\ RestoreAllowed(p, r)
    BY <2>1, <2>5 DEF PageAllowed, RestoreAllowed, RefusedNext, RestorePcs
  <2>8. LateAllowed(p, l, m)
    <3>1. l.pc \in RestorePcs /\ (l.pc = "abandon" => l.rejected # 0)
      BY <2>4 DEF EntryInv, LateFit
    <3> QED BY <1>2, <2>1, <2>2, <2>4, <3>1, LateStaysAllowed
  <2>9. MainAllowed(p, m)
    <3>1. m.pc \in {"load", "abandon"} => RefusedNext(m.rejected) /\ ~m.sent
      <4>1. PICK j \in Intent : j = m.rejected
        BY DEF EntryOpRow
      <4>2. m.pc \in {"load", "abandon"} => Refused(j) /\ ~m.sent
        BY <2>2, <4>1 DEF EntryInv, MainFit
      <4> QED BY <1>2, <4>1, <4>2, RefusedStays
    <3>2. m.pc \notin {"create", "sign", "submit", "confirm", "settle"}
      BY <1>1, <2>2 DEF EntryInv, MainFit
    <3>3. m.pc = "abandon" => m.rejected # 0
      BY <2>2 DEF EntryInv, MainFit
    <3> QED BY <1>1, <2>1, <3>1, <3>2, <3>3 DEF MainAllowed
  <2>10. /\ ApiTypes' /\ ApiFit' /\ reloads' \in Nat /\ draft' \in DraftRow /\ draft'.rejected \in {0, p.rejected}
         /\ entryOp' \in [EntryOps -> EntryOpRow]
    BY <1>1, <1>2, <1>4, <2>1, <2>6, FreshRows DEF ApiGoesOn, EntryInv, EntryRowTypes
  <2> QED BY <1>4, <2>1, <2>2, <2>3, <2>4, <2>5, <2>6, <2>7, <2>8, <2>9, <2>10, FittingKeeps
<1> QED BY <1>3, <1>4 DEF CancelGuidedEntry

LEMMA ReloadPageKeeps ==
  ASSUME EntryInv, ReloadPage
  PROVE  EntryInv'
<1>1. /\ UNCHANGED <<fund, message, entryDuel, resigned>> /\ reloads' \in Nat
      /\ entryOp' = [o \in EntryOps |-> EntryIdle]
  BY DuelEntryConstants DEF ReloadPage, EntryInv, EntryRowTypes
<1>2. ApiGoesOn
  BY <1>1, ApiRests
<1>3. PICK d \in {draft, NoDraft} :
        LET p == Completes([FreshPage EXCEPT !.phase = IF d.sent THEN "recovering" ELSE "idle",
                                             !.rejected = d.rejected,
                                             !.restoreDraft = d.saved /\ entryDuel # "none", !.seen = entryDuel])
        IN  page' = p /\ draft' = IF d.saved \/ p.seen # "none" THEN DraftOf(p) ELSE NoDraft
  BY Zenon DEF ReloadPage
<1>4. d \in DraftRow /\ d.rejected \in {0, page.rejected}
  BY FreshRows DEF EntryInv, EntryRowTypes, PageFit
<1>5. PICK s : s = [FreshPage EXCEPT !.phase = IF d.sent THEN "recovering" ELSE "idle",
                                     !.rejected = d.rejected,
                                     !.restoreDraft = d.saved /\ entryDuel # "none", !.seen = entryDuel]
  OBVIOUS
<1>6. /\ s \in PageRow /\ s.intent = 0 /\ s.rejected = d.rejected /\ s.phase \in {"idle", "recovering"} /\ ~s.restoring
      /\ s.restoreDraft => entryDuel # "none"
      /\ s.seen = entryDuel
  BY <1>4, <1>5 DEF FreshPage, PageRow, DraftRow, EntryInv, EntryRowTypes, Intent
<1>7. PICK p \in PageRow : p = Completes(s) /\ Completed(s, p)
  BY <1>6, CompletesRow
<1>8. page' = p /\ draft' = IF d.saved \/ p.seen # "none" THEN DraftOf(p) ELSE NoDraft
  BY <1>3, <1>5, <1>7
<1>9. draft' \in DraftRow /\ draft'.rejected \in {0, p.rejected}
  BY <1>8, FreshRows, DraftOfRow
<1>10. /\ p.intent = 0 /\ p.rejected \in {0, page.rejected} /\ p.phase \in {"idle", "recovering"} /\ ~p.restoring
       /\ p.restoreDraft => entryDuel # "none"
       /\ p.seen = entryDuel
  BY <1>4, <1>6, <1>7 DEF Completed
<1>11. PICK m \in EntryOpRow : m = EntryIdle /\ m.pc = "idle"
  BY IdleRow
<1>12. /\ entryOp' \in [EntryOps -> EntryOpRow] /\ entryOp'["main"] = m /\ entryOp'["restore"] = m
       /\ entryOp'["late"] = m
  BY <1>1, <1>11 DEF EntryOps
<1>13. PageAllowed(p)
  <2>1. RefusedNext(p.rejected)
    <3>1. PICK j \in Intent : j = p.rejected
      BY DEF PageRow
    <3>2. Refused(j)
      BY <1>10, <3>1 DEF EntryInv, PageFit, Refused
    <3> QED BY <1>2, <3>1, <3>2, RefusedStays
  <2> QED BY <1>1, <1>10, <2>1 DEF PageAllowed
<1>14. MainAllowed(p, m) /\ RestoreAllowed(p, m) /\ LateAllowed(p, m, m)
  BY <1>11 DEF MainAllowed, RestoreAllowed, LateAllowed, RestorePcs
<1>15. ApiTypes' /\ ApiFit'
  BY <1>2 DEF ApiGoesOn
<1> QED BY <1>1, <1>8, <1>9, <1>10, <1>11, <1>12, <1>13, <1>14, <1>15, FittingKeeps

LEMMA MonitorStepKeeps ==
  ASSUME EntryInv, MonitorStep
  PROVE  EntryInv'
BY ApiMonitors, PageRests DEF MonitorStep

LEMMA MessageKeeps ==
  ASSUME EntryInv, NEW i \in EntryIntents, MessageLands(i) \/ MessageDies(i)
  PROVE  EntryInv'
<1>1. UNCHANGED <<page, draft, entryOp, fund, entryDuel, resigned, reloads>>
  BY DEF MessageLands, MessageDies
<1>2. CASE MessageLands(i)
  <2>1. ApiGoesOn
    BY <1>1, <1>2, ApiDecides DEF MessageLands
  <2> QED BY <1>1, <2>1, PageRests
<1>3. CASE MessageDies(i)
  <2>1. ApiGoesOn
    BY <1>1, <1>3, ApiDecides DEF MessageDies
  <2> QED BY <1>1, <2>1, PageRests
<1> QED BY <1>2, <1>3

LEMMA EntryStarts ==
  ASSUME EntryInit
  PROVE  EntryInv
<1>1. EntryRowTypes
  BY FreshRows, DuelEntryConstants DEF EntryInit, EntryRowTypes, FundStatuses, EntryStatuses
<1>2. ApiFit
  BY DEF EntryInit, ApiFit, MayHavePaid
<1>3. PageFit
  BY FreshRows DEF EntryInit, PageFit, Refused
<1>4. \A o \in EntryOps : entryOp[o].pc = "idle"
  BY FreshRows DEF EntryInit
<1>5. MainFit /\ RestoreFit /\ LateFit
  BY <1>4 DEF EntryOps, MainFit, RestoreFit, LateFit, RestorePcs
<1> QED BY <1>1, <1>2, <1>3, <1>5 DEF EntryInv

LEMMA EntryStutters ==
  ASSUME EntryInv, UNCHANGED entryVars
  PROVE  EntryInv'
<1>1. ApiGoesOn
  BY ApiRests DEF entryVars
<1> QED BY <1>1, PageRests DEF entryVars

\* The page, its draft, its operations in flight and the API's rows fit together.
THEOREM EntryInvariant == EntrySpec => []EntryInv
<1>1. ASSUME EntryInv, [EntryStep]_entryVars PROVE EntryInv'
  <2>1. CASE MonitorStep
    BY <1>1, <2>1, MonitorStepKeeps
  <2>2. ASSUME NEW i \in EntryIntents, MessageLands(i) \/ MessageDies(i) PROVE EntryInv'
    BY <1>1, <2>2, MessageKeeps
  <2>3. CASE ReviewDuel \/ CreateDuel \/ PrepareDuelIntent
    BY <1>1, <2>3, ReviewDuelKeeps, CreateDuelKeeps, PrepareDuelIntentKeeps
  <2>4. CASE ApproveIntent \/ WalletAnswers \/ SubmitSignedIntent \/ TrackConfirmation \/ ReconcileBroadcastFunding
    BY <1>1, <2>4, ApproveIntentKeeps, WalletAnswersKeeps, SubmitSignedIntentKeeps, TrackConfirmationKeeps,
       ReconcileBroadcastFundingKeeps
  <2>5. ASSUME NEW o \in EntryOps,
               LoadDuel(o) \/ AbandonRejectedIntent(o) \/ ReconcileTransactions(o) \/ ReloadDuel(o) \/ PrepareRestored(o)
        PROVE  EntryInv'
    BY <1>1, <2>5, LoadDuelKeeps, AbandonRejectedIntentKeeps, ReconcileTransactionsKeeps, ReloadDuelKeeps,
       PrepareRestoredKeeps
  <2>6. CASE RestoreDraft \/ ReviewPersistedFunding \/ ResumeGuidedEntry
    BY <1>1, <2>6, RestoreDraftKeeps, ReviewPersistedFundingKeeps, ResumeGuidedEntryKeeps
  <2>7. CASE PollDuel \/ CancelGuidedEntry \/ ReloadPage
    BY <1>1, <2>7, PollDuelKeeps, CancelGuidedEntryKeeps, ReloadPageKeeps
  <2>8. CASE UNCHANGED entryVars
    BY <1>1, <2>8, EntryStutters
  <2> QED BY <1>1, <2>1, <2>2, <2>3, <2>4, <2>5, <2>6, <2>7, <2>8 DEF EntryStep
<1>2. EntryInit => EntryInv
  BY EntryStarts
<1> QED BY <1>1, <1>2, PTL DEF EntrySpec

\* No wallet prompt is offered or open while a message the wallet signed before can still
\* land or has landed, and the API never drops a message that may have been paid.
THEOREM PromptsAreSafe == EntrySpec => []PromptIsSafe
<1>1. EntryInv => PromptIsSafe
  <2> SUFFICES ASSUME EntryInv, NEW i \in EntryIntents, MayHavePaid(i)
               PROVE  /\ ~(ButtonsEnabled /\ FundingReview)
                      /\ entryOp["main"].pc # "sign"
                      /\ fund[i] # "EXPIRED"
    BY DEF PromptIsSafe
  <2>1. ~(ButtonsEnabled /\ FundingReview)
    BY DEF EntryInv, PageFit, NoPayment, FundingReview
  <2>2. entryOp["main"].pc # "sign"
    BY DEF EntryInv, MainFit, NoPayment
  <2>3. fund[i] # "EXPIRED"
    BY DEF EntryInv, ApiFit
  <2> QED BY <2>1, <2>2, <2>3
<1> QED BY <1>1, EntryInvariant, PTL

=============================================================================
