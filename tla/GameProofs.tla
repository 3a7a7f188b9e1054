------------------------------ MODULE GameProofs ------------------------------
(***************************************************************************)
(* Proofs about the crash game: rounds, decisions, settlements and the     *)
(* receipts read from them, for any number of rounds, calls and settlers;  *)
(* and about the calculators: those of the fantasy league, the draws of    *)
(* the card games with what they are drawn from, and what players and      *)
(* operators are shown.                                                    *)
(***************************************************************************)
EXTENDS CrashHistory, Calculators, Totals, SequenceTheorems

(***************************************************************************)
(* The game: players and sweeps beside settlers, on the same rows.         *)
(***************************************************************************)
CrashGameInit ==
  /\ CrashRoundInit /\ CrashSettlementInit
  /\ crashRoll \in [Rounds -> [1..Len(CrashStages) -> 0..(PPM_SCALE - 1)]]

CrashGameNext ==
  \/ CrashRoundStep(Rounds, CrashCalls) /\ UNCHANGED settleVars
  \/ CrashSettlementStep(Rounds)

CrashSpec == CrashGameInit /\ [][CrashGameNext]_<<crashVars, settleVars>>

(***************************************************************************)
(* The inductive invariant of the rounds.                                  *)
(***************************************************************************)
Statuses == CrashEnded \cup {"NONE", "ACTIVE"}
RoundRows == [status : Statuses, stage : Nat, version : Nat, pot : Nat, deadline : Nat, expires : Nat,
              settlement : {"NOT_REQUIRED", "PENDING", "RECOVERY_REQUIRED", "SETTLED"}]
Kinds == {"ROUND_STARTED", "DEADLINE_DEFAULTED", "CASHED_OUT", "BUSTED", "COMPLETED", "STAGE_CONTINUED"}
Transitions == [kind : Kinds, key : CrashKeys \cup {0}, decision : {"none", "forfeit", "continue", "cash-out"},
                from : Nat, to : Nat, status : Statuses, asset : Nat]
Exposures == [status : {"NONE", "RESERVED", "RELEASED"}, amount : Nat]
Calls == [pc : {"idle", "resume", "decide", "again"}, round : Rounds \cup {0},
          action : {"none", "continue", "cash-out"}, key : CrashKeys \cup {0}, stage : Nat, version : Nat,
          at : Nat]

RowTypes ==
  /\ round \in [Rounds -> RoundRows]
  /\ crashLog \in [Rounds -> Seq(Transitions)]
  /\ intents \in [Rounds -> SUBSET Nat]
  /\ exposure \in [Rounds -> Exposures]
CallTypes == crashCall \in [CrashCalls -> Calls] /\ crashTime \in Nat

\* A call that is under way asks something of a round that was started.
CallFits(call, rows) ==
  call.pc # "idle" =>
    call.round \in Rounds /\ rows[call.round].status # "NONE" /\ call.action \in {"continue", "cash-out"}

\* The ledger of a round: one entry for each stage that was entered, which won the asset
\* of the stage before, and one for the end.
WonTheLast(row) == row.status \in {"BUSTED", "COMPLETED"}
LedgerFits(row, log) ==
  /\ row.version = Len(log)
  /\ Len(log) = IF row.status = "ACTIVE" THEN row.stage ELSE row.stage + 1
  /\ row.stage \in 1..CrashRisk.maxStage
  /\ log[1].kind = "ROUND_STARTED" /\ log[1].from = 0
  /\ \A i \in 1..row.stage : log[i].asset = i - 1 /\ log[i].to = i /\ log[i].status = "ACTIVE"
  /\ row.status # "ACTIVE" =>
       LET last == log[row.stage + 1] IN
       /\ last.status = row.status /\ last.to = row.stage
       /\ last.asset = IF WonTheLast(row) THEN row.stage ELSE 0

MoneyFits(row, paid, held) ==
  /\ paid = 1..(IF WonTheLast(row) THEN row.stage ELSE row.stage - 1)
  /\ row.status = "ACTIVE" =>
       /\ held = [status |-> "RESERVED", amount |-> row.pot] /\ row.pot <= CrashRisk.maxPot
       /\ 0 < row.deadline /\ row.deadline <= row.expires
       /\ row.settlement = "NOT_REQUIRED"
  /\ row.status # "ACTIVE" =>
       held.status = "RELEASED" /\ row.deadline = 0 /\ row.settlement # "NOT_REQUIRED"

RoundFits(row, log, paid, held) ==
  /\ row.status = "NONE" => row = NoRound /\ log = <<>> /\ paid = {} /\ held = [status |-> "NONE", amount |-> 0]
  /\ row.status # "NONE" => LedgerFits(row, log) /\ MoneyFits(row, paid, held)

RowsFit == \A r \in Rounds : RoundFits(round[r], crashLog[r], intents[r], exposure[r])
CallsFit == \A c \in CrashCalls : CallFits(crashCall[c], round)
RoundInv ==
  /\ RowTypes /\ RowsFit /\ ReservedAmount(Reserved) <= CrashRisk.maxWallet
  /\ CallTypes /\ CallsFit

(***************************************************************************)
(* The inductive invariant of the settlements.                             *)
(***************************************************************************)
OperationRows == [kind : {"PURCHASE", "OPEN", "TRANSFER", "LIQUIDATE"}, stage : Nat,
                  status : {"PREPARED", "FINALIZED", "RECOVERY_REQUIRED"},
                  mode : {"NONE", "RETRYABLE", "RECONCILE_ONLY"}, signed : BOOLEAN]
SettlementRows == [status : {"NONE", "PENDING", "RECOVERY_REQUIRED", "SETTLED"}, version : Nat,
                   owner : Settlers \cup {NoSettler}, expired : BOOLEAN, count : Nat,
                   ops : Seq(OperationRows)]
SettlerRows == [pc : {"idle", "claim", "operation", "execute", "finalize", "recover", "settle", "release"},
                round : Rounds \cup {0}, op : Nat, mode : {"NONE", "RETRYABLE", "RECONCILE_ONLY"},
                signed : BOOLEAN]
SettlementTypes ==
  /\ settle \in [Rounds -> SettlementRows]
  /\ settler \in [Settlers -> SettlerRows]
  /\ effect \in [Rounds -> [1..MaxOperations -> {"none", "sent", "applied"}]]
  /\ forfeited \in [Rounds -> SUBSET Nat]

FinalIn(ops, i) == ops[i].status = "FINALIZED"

\* The operations are those of the plan, and are carried out in its order.
PlanFollowed(ops, plan, done) ==
  /\ Len(ops) = Len(plan) /\ Len(plan) <= MaxOperations
  /\ \A i \in 1..Len(ops) :
       /\ ops[i].kind = plan[i].kind /\ ops[i].stage = plan[i].stage
       /\ FinalIn(ops, i) => done[i] = "applied"
       /\ done[i] # "none" \/ ops[i].status = "RECOVERY_REQUIRED" => \A j \in 1..(i - 1) : FinalIn(ops, j)
  /\ \A i \in 1..MaxOperations : i > Len(ops) => done[i] = "none"

CountFits(row) == row.count = Cardinality({i \in 1..Len(row.ops) : FinalIn(row.ops, i)})

SettlementFits(row, own, lost, paid, plan, done) ==
  /\ (row.status = "SETTLED") = (own.settlement = "SETTLED")
  /\ row.status = "NONE" =>
       row = NoSettlement /\ (\A i \in 1..MaxOperations : done[i] = "none")
  /\ row.status # "NONE" => own.status \in CrashEnded /\ PlanFollowed(row.ops, plan, done)
  /\ row.status # "SETTLED" => lost = {}
  /\ CountFits(row)
  /\ row.status = "SETTLED" =>
       /\ \A i \in 1..Len(row.ops) : FinalIn(row.ops, i)
       /\ row.count = Len(row.ops)
       /\ lost = IF own.status \in {"BUSTED", "DEFAULTED"} THEN paid ELSE {}

\* What a settler has seen done, it still finds done.
SettlerFits(call, rows, done) ==
  call.pc # "idle" =>
    LET r == call.round IN
    /\ r \in Rounds /\ rows[r].status # "NONE"
    /\ call.pc \in {"operation", "execute", "finalize", "recover", "settle"} =>
         /\ call.op >= 1
         /\ \A j \in 1..(call.op - 1) : j <= Len(rows[r].ops) /\ FinalIn(rows[r].ops, j)
    /\ call.pc \in {"execute", "finalize", "recover"} => call.op <= Len(rows[r].ops)
    /\ call.pc = "finalize" => done[r][call.op] = "applied"
    /\ call.pc = "recover" => call.mode # "NONE"

SettlementInv ==
  /\ SettlementTypes
  /\ \A r \in Rounds :
       SettlementFits(settle[r], round[r], forfeited[r], intents[r], PlanOperations(r), effect[r])
  /\ \A w \in Settlers : SettlerFits(settler[w], settle, effect)

CrashInv == RoundInv /\ SettlementInv

(***************************************************************************)
(* The sum of the reservations (Totals).                                   *)
(***************************************************************************)
LEMMA ReservedAmountIsTotal ==
  ASSUME NEW R
  PROVE  ReservedAmount(R) = Total(exposure, R)
BY DEF ReservedAmount, MapThenSumSet, MapThenFoldSet, Totals, Pick, Total

LEMMA ReservedAmountIsTotalNext ==
  ASSUME NEW R
  PROVE  ReservedAmount(R)' = Total(exposure', R')
BY DEF ReservedAmount, MapThenSumSet, MapThenFoldSet, Totals, Pick, Total

(***************************************************************************)
(* The rounds that hold a reservation, and how their sum moves.            *)
(***************************************************************************)
Holding(e) == {r \in Rounds : e[r].status = "RESERVED"}

LEMMA ReservedIsHolding ==
  /\ Reserved = Holding(exposure) /\ Reserved' = Holding(exposure')
  /\ ReservedAmount(Reserved) = Total(exposure, Holding(exposure))
  /\ ReservedAmount(Reserved)' = Total(exposure', Holding(exposure'))
<1>1. Reserved = Holding(exposure) /\ Reserved' = Holding(exposure')
  BY DEF Reserved, Holding
<1>2. ReservedAmount(Reserved) = Total(exposure, Reserved)
  BY ReservedAmountIsTotal
<1>3. ReservedAmount(Reserved)' = Total(exposure', Reserved')
  BY DEF ReservedAmount, MapThenSumSet, MapThenFoldSet, Totals, Pick, Total
<1> QED
  BY <1>1, <1>2, <1>3

LEMMA AmountsAreNat ==
  ASSUME NEW e \in [Rounds -> Exposures], NEW R \in SUBSET Rounds
  PROVE  Total(e, R) \in Nat /\ \A x \in R : Total(e, R) = e[x].amount + Total(e, R \ {x})
<1>1. IsFiniteSet(Rounds)
  BY CrashConstants
<1>2. \A r \in Rounds : e[r].amount \in Nat
  BY DEF Exposures
<1> QED
  BY <1>1, <1>2, TotalSplits

\* A round that lets go of its reservation never raises the sum.
LEMMA SumOfRelease ==
  ASSUME NEW e \in [Rounds -> Exposures], NEW r \in Rounds,
         NEW f \in [Rounds -> Exposures], \A q \in Rounds \ {r} : f[q] = e[q],
         f[r].amount = e[r].amount, f[r].status = "RELEASED"
  PROVE  Total(f, Holding(f)) <= Total(e, Holding(e))
<1>1. Holding(f) = Holding(e) \ {r}
  BY DEF Holding
<1>2. \A q \in Rounds : f[q].amount = e[q].amount
  OBVIOUS
<1>3. Holding(e) \in SUBSET Rounds /\ Holding(f) \in SUBSET Rounds /\ IsFiniteSet(Rounds)
  BY CrashConstants DEF Holding
<1>4. Total(f, Holding(f)) = Total(e, Holding(f))
  <2>1. \A R \in SUBSET Rounds : Total(f, R) = Total(e, R)
    <3>1. IsFiniteSet(Rounds)
      BY <1>3
    <3> QED
      BY <3>1, <1>2, TotalsEqual
  <2> QED
    BY <2>1, <1>3
<1>5. CASE r \in Holding(e)
  <2>1. Total(e, Holding(e)) = e[r].amount + Total(e, Holding(e) \ {r})
    BY <1>3, <1>5, AmountsAreNat
  <2>2. Total(e, Holding(f)) \in Nat /\ e[r].amount \in Nat
    BY <1>3, AmountsAreNat DEF Exposures
  <2> QED
    BY <2>1, <2>2, <1>1, <1>4
<1>6. CASE r \notin Holding(e)
  <2>1. Holding(f) = Holding(e)
    BY <1>1, <1>6
  <2>2. Total(e, Holding(e)) \in Nat
    BY <1>3, AmountsAreNat
  <2>3. Total(f, Holding(f)) = Total(e, Holding(e))
    BY <2>1, <1>4
  <2>4. \A n \in Nat : n <= n
    OBVIOUS
  <2> QED
    BY <2>2, <2>3, <2>4, Zenon
<1> QED
  BY <1>5, <1>6

\* A round that reserves a new amount replaces its own and leaves the others'.
LEMMA SumOfReserve ==
  ASSUME NEW e \in [Rounds -> Exposures], NEW r \in Rounds, NEW amount \in Nat,
         NEW f \in [Rounds -> Exposures], \A q \in Rounds \ {r} : f[q] = e[q],
         f[r] = [status |-> "RESERVED", amount |-> amount]
  PROVE  /\ Total(f, Holding(f)) = amount + Total(e, Holding(e) \ {r})
         /\ Total(e, Holding(e) \ {r}) \in Nat
<1>1. f[r].amount = amount /\ r \in Holding(f)
  BY DEF Holding
<1>2. Holding(f) \ {r} = Holding(e) \ {r}
  BY DEF Holding
<1> DEFINE others == Holding(e) \ {r}
<1>3. Holding(f) \in SUBSET Rounds /\ others \in SUBSET Rounds
  BY DEF Holding
<1>4. Total(f, Holding(f)) = amount + Total(f, others)
  <2>1. Total(f, Holding(f)) = f[r].amount + Total(f, Holding(f) \ {r})
    BY <1>1, <1>3, AmountsAreNat
  <2> QED
    BY <2>1, <1>1, <1>2
<1>5. Total(f, others) = Total(e, others)
  <2>1. IsFiniteSet(others)
    BY <1>3, CrashConstants, FS_Subset
  <2>2. \A q \in others : f[q].amount = e[q].amount
    <3>1. \A q \in others : q \in Rounds \ {r}
      BY <1>3
    <3> QED
      BY <3>1
  <2>3. others \in SUBSET others
    OBVIOUS
  <2> HIDE DEF others
  <2>4. \A R \in SUBSET others : Total(f, R) = Total(e, R)
    BY <2>1, <2>2, TotalsEqual
  <2> QED
    BY <2>3, <2>4
<1>6. Total(e, others) \in Nat
  BY <1>3, AmountsAreNat
<1> QED
  BY <1>1, <1>4, <1>5, <1>6

(***************************************************************************)
(* One round.                                                              *)
(***************************************************************************)
LEMMA RuleTypes ==
  /\ Len(CrashStages) \in Nat /\ CrashRisk.maxStage \in Nat /\ CrashRisk.maxPot \in Nat
  /\ CrashRisk.maxWallet \in Nat /\ CrashRisk.maxDuration \in Nat /\ CrashRisk.maxDuration > 0
  /\ CrashRisk.maxStage <= Len(CrashStages) /\ CrashRisk.maxStage > 0
  /\ DecisionTimeout \in Nat /\ DecisionTimeout > 0
BY CrashConstants DEF ValidStateRules, ValidRiskRules

LEMMA NextPotIsNat ==
  ASSUME NEW stage \in 1..Len(CrashStages), NEW pot \in Nat
  PROVE  NextPot(stage, pot) \in Nat
<1>1. CrashStages[stage].bps \in Nat
  <2>1. CrashStages[stage] \in [bps : Nat, maxPot : Nat, threshold : Nat]
    BY CrashConstants, ElementOfSeq
  <2> QED
    BY <2>1
<1>2. StageValue \in Nat /\ BPS_SCALE \in Nat \ {0}
  BY CrashConstants
<1>3. StageValue * CrashStages[stage].bps \in Nat
  BY <1>1, <1>2
<1>4. (StageValue * CrashStages[stage].bps) \div BPS_SCALE \in Nat
  BY <1>2, <1>3
<1> QED
  BY <1>4 DEF NextPot

LEMMA DeadlineIsBounded ==
  ASSUME NEW now \in Nat, NEW expires \in Nat, now < expires
  PROVE  /\ BoundedDeadline(now, expires) \in Nat
         /\ 0 < BoundedDeadline(now, expires) /\ BoundedDeadline(now, expires) <= expires
BY RuleTypes DEF BoundedDeadline

\* A round that was started is at its first stage and reserves its first pot.
LEMMA StartFits ==
  ASSUME NEW row \in RoundRows, row.status = "ACTIVE", row.stage = 1, row.version = 1,
         row.pot <= CrashRisk.maxPot, 0 < row.deadline, row.deadline <= row.expires,
         row.settlement = "NOT_REQUIRED",
         NEW entry \in Transitions, entry.kind = "ROUND_STARTED", entry.from = 0, entry.to = 1,
         entry.status = "ACTIVE", entry.asset = 0
  PROVE  RoundFits(row, <<entry>>, {}, [status |-> "RESERVED", amount |-> row.pot])
<1>1. LedgerFits(row, <<entry>>)
  BY RuleTypes DEF LedgerFits
<1>2. ~ WonTheLast(row) /\ row.stage - 1 = 0
  BY DEF WonTheLast
<1>3. 1..0 = {}
  OBVIOUS
<1>4. MoneyFits(row, {}, [status |-> "RESERVED", amount |-> row.pot])
  BY <1>2, <1>3 DEF MoneyFits
<1> QED
  BY <1>1, <1>4 DEF RoundFits

\* A round that ends keeps its stage, lets go of its reservation and owns the asset of
\* the stage it was decided at.
LEMMA EndFits ==
  ASSUME NEW row \in RoundRows, NEW next \in RoundRows, NEW log \in Seq(Transitions),
         NEW entry \in Transitions, NEW paid, NEW held, NEW given, NEW after,
         row.status = "ACTIVE", RoundFits(row, log, paid, held),
         next.status \in CrashEnded, next.stage = row.stage, next.version = row.version + 1,
         next.deadline = 0, next.settlement = "PENDING",
         entry.status = next.status, entry.to = row.stage,
         entry.asset = IF WonTheLast(next) THEN row.stage ELSE 0,
         given = IF WonTheLast(next) THEN paid \cup {row.stage} ELSE paid,
         after.status = "RELEASED"
  PROVE  RoundFits(next, Append(log, entry), given, after)
<1>1. LedgerFits(row, log) /\ MoneyFits(row, paid, held)
  BY DEF RoundFits
<1>2. row.stage \in Nat /\ row.stage >= 1 /\ Len(log) = row.stage /\ row.version = Len(log)
  BY <1>1, RuleTypes DEF LedgerFits
<1>3. next.status # "ACTIVE" /\ next.status # "NONE"
  BY DEF CrashEnded
<1> DEFINE longer == Append(log, entry)
<1>4. /\ Len(longer) = row.stage + 1 /\ longer[row.stage + 1] = entry
      /\ \A i \in 1..row.stage : longer[i] = log[i]
  BY <1>2, AppendProperties
<1> HIDE DEF longer
<1>5. LedgerFits(next, longer)
  <2>1. next.version = Len(longer)
    BY <1>2, <1>4
  <2>2. Len(longer) = IF next.status = "ACTIVE" THEN next.stage ELSE next.stage + 1
    BY <1>3, <1>4
  <2>3. next.stage \in 1..CrashRisk.maxStage
    BY <1>1 DEF LedgerFits
  <2>4. longer[1].kind = "ROUND_STARTED" /\ longer[1].from = 0
    BY <1>1, <1>2, <1>4 DEF LedgerFits
  <2>5. \A i \in 1..next.stage : longer[i].asset = i - 1 /\ longer[i].to = i /\ longer[i].status = "ACTIVE"
    BY <1>1, <1>4 DEF LedgerFits
  <2>6. LET last == longer[next.stage + 1] IN
        /\ last.status = next.status /\ last.to = next.stage
        /\ last.asset = IF WonTheLast(next) THEN next.stage ELSE 0
    BY <1>4
  <2> QED
    BY <2>1, <2>2, <2>3, <2>4, <2>5, <2>6 DEF LedgerFits
<1>6. paid = 1..(row.stage - 1)
  BY <1>1 DEF MoneyFits, WonTheLast
<1>7. given = 1..(IF WonTheLast(next) THEN next.stage ELSE next.stage - 1)
  <2>1. (1..(row.stage - 1)) \cup {row.stage} = 1..row.stage
    BY <1>2
  <2>2. CASE WonTheLast(next)
    BY <2>1, <2>2, <1>6
  <2>3. CASE ~ WonTheLast(next)
    BY <2>3, <1>6
  <2> QED
    BY <2>2, <2>3
<1>8. MoneyFits(next, given, after)
  BY <1>3, <1>7 DEF MoneyFits
<1> QED
  BY <1>3, <1>5, <1>8 DEF RoundFits, longer

\* A round that goes on is at the next stage, has paid for the one before and reserves
\* its new pot.
LEMMA ContinueFits ==
  ASSUME NEW row \in RoundRows, NEW next \in RoundRows, NEW log \in Seq(Transitions),
         NEW entry \in Transitions, NEW paid, NEW held,
         row.status = "ACTIVE", RoundFits(row, log, paid, held),
         next.status = "ACTIVE", next.stage = row.stage + 1, next.version = row.version + 1,
         next.stage <= CrashRisk.maxStage, next.pot <= CrashRisk.maxPot,
         0 < next.deadline, next.deadline <= next.expires, next.settlement = row.settlement,
         entry.status = "ACTIVE", entry.to = next.stage, entry.asset = row.stage
  PROVE  RoundFits(next, Append(log, entry), paid \cup {row.stage},
                   [status |-> "RESERVED", amount |-> next.pot])
<1>1. LedgerFits(row, log) /\ MoneyFits(row, paid, held)
  BY DEF RoundFits
<1>2. row.stage \in Nat /\ row.stage >= 1 /\ Len(log) = row.stage /\ row.version = Len(log)
  BY <1>1, RuleTypes DEF LedgerFits
<1> DEFINE longer == Append(log, entry)
<1>3. /\ Len(longer) = row.stage + 1 /\ longer[row.stage + 1] = entry
      /\ \A i \in 1..row.stage : longer[i] = log[i]
  BY <1>2, AppendProperties
<1> HIDE DEF longer
<1>4. LedgerFits(next, longer)
  <2>1. next.version = Len(longer) /\ Len(longer) = next.stage
    BY <1>2, <1>3
  <2>2. next.stage \in 1..CrashRisk.maxStage
    BY <1>2, RuleTypes
  <2>3. longer[1].kind = "ROUND_STARTED" /\ longer[1].from = 0
    BY <1>1, <1>2, <1>3 DEF LedgerFits
  <2>4. ASSUME NEW i \in 1..next.stage
        PROVE  longer[i].asset = i - 1 /\ longer[i].to = i /\ longer[i].status = "ACTIVE"
    <3>1. CASE i = row.stage + 1
      BY <3>1, <1>2, <1>3
    <3>2. CASE i \in 1..row.stage
      BY <3>2, <1>1, <1>3 DEF LedgerFits
    <3> QED
      BY <3>1, <3>2, <1>2
  <2> QED
    BY <2>1, <2>2, <2>3, <2>4 DEF LedgerFits
<1>5. paid = 1..(row.stage - 1)
  BY <1>1 DEF MoneyFits, WonTheLast
<1>6. (1..(row.stage - 1)) \cup {row.stage} = 1..row.stage
  BY <1>2
<1>7. ~ WonTheLast(next) /\ next.stage - 1 = row.stage
  BY <1>2 DEF WonTheLast
<1>8. MoneyFits(next, paid \cup {row.stage}, [status |-> "RESERVED", amount |-> next.pot])
  BY <1>1, <1>5, <1>6, <1>7 DEF MoneyFits
<1> QED
  BY <1>4, <1>8 DEF RoundFits, longer

(***************************************************************************)
(* Steps on the rows of one round.                                         *)
(***************************************************************************)
Writes(r, row, log, paid, held) ==
  /\ round' = [round EXCEPT ![r] = row] /\ crashLog' = [crashLog EXCEPT ![r] = log]
  /\ intents' = [intents EXCEPT ![r] = paid] /\ exposure' = [exposure EXCEPT ![r] = held]

\* A step that writes one round leaves the rows of the others as they fit.
LEMMA WrittenRowsFit ==
  ASSUME RowTypes, RowsFit, NEW r \in Rounds,
         NEW row \in RoundRows, NEW log \in Seq(Transitions), NEW paid \in SUBSET Nat, NEW held \in Exposures,
         Writes(r, row, log, paid, held), RoundFits(row, log, paid, held)
  PROVE  /\ RowTypes' /\ RowsFit'
         /\ round'[r] = row /\ \A q \in Rounds \ {r} : round'[q] = round[q]
         /\ exposure'[r] = held /\ \A q \in Rounds \ {r} : exposure'[q] = exposure[q]
<1>1. RowTypes'
  BY DEF RowTypes, Writes
<1>2. /\ round'[r] = row /\ crashLog'[r] = log /\ intents'[r] = paid /\ exposure'[r] = held
      /\ \A q \in Rounds \ {r} : /\ round'[q] = round[q] /\ crashLog'[q] = crashLog[q]
                                 /\ intents'[q] = intents[q] /\ exposure'[q] = exposure[q]
  BY DEF RowTypes, Writes
<1>3. ASSUME NEW q \in Rounds
      PROVE  RoundFits(round'[q], crashLog'[q], intents'[q], exposure'[q])
  <2>1. CASE q = r
    BY <2>1, <1>2
  <2>2. CASE q # r
    <3>1. RoundFits(round[q], crashLog[q], intents[q], exposure[q])
      BY DEF RowsFit
    <3> QED
      BY <3>1, <2>2, <1>2
  <2> QED
    BY <2>1, <2>2
<1>4. RowsFit'
  BY <1>3 DEF RowsFit
<1> QED
  BY <1>1, <1>2, <1>4

\* createFixtureRound: admitted against the reservations of the other rounds.
LEMMA CreateKeepsRows ==
  ASSUME RoundInv, NEW r \in Rounds, CreateFixtureRound(r)
  PROVE  /\ RowTypes' /\ RowsFit' /\ ReservedAmount(Reserved)' <= CrashRisk.maxWallet
         /\ round'[r].status # "NONE" /\ \A q \in Rounds \ {r} : round'[q] = round[q]
<1> DEFINE expires == crashTime + CrashRisk.maxDuration
           row == [NoRound EXCEPT !.status = "ACTIVE", !.stage = 1, !.version = 1, !.pot = InitialPot,
                       !.deadline = BoundedDeadline(crashTime, expires), !.expires = expires]
           entry == [kind |-> "ROUND_STARTED", key |-> 0, decision |-> "none", from |-> 0, to |-> 1,
                     status |-> "ACTIVE", asset |-> 0]
           held == [status |-> "RESERVED", amount |-> InitialPot]
<1>1. /\ RowTypes /\ RowsFit /\ crashTime \in Nat /\ InitialPot \in Nat
      /\ round[r].status = "NONE"
  BY CrashConstants DEF RoundInv, CallTypes, CreateFixtureRound
<1>2. /\ Admitted(r, InitialPot)
      /\ exposure' = [exposure EXCEPT ![r] = held]
      /\ round' = [round EXCEPT ![r] = row] /\ crashLog' = [crashLog EXCEPT ![r] = <<entry>>]
      /\ intents' = intents
  BY DEF CreateFixtureRound, ReserveRound
<1>3. expires \in Nat /\ crashTime < expires
  BY <1>1, RuleTypes
<1>4. /\ BoundedDeadline(crashTime, expires) \in Nat
      /\ 0 < BoundedDeadline(crashTime, expires) /\ BoundedDeadline(crashTime, expires) <= expires
  BY <1>1, <1>3, DeadlineIsBounded
<1>5. row \in RoundRows
  BY <1>1, <1>3, <1>4 DEF RoundRows, NoRound, Statuses
<1>6. entry \in Transitions
  BY DEF Transitions, Kinds, Statuses
<1>7. <<entry>> \in Seq(Transitions)
  BY <1>6
<1>8. InitialPot <= CrashRisk.maxPot
  BY <1>2 DEF Admitted
<1>9. RoundFits(row, <<entry>>, {}, [status |-> "RESERVED", amount |-> row.pot])
  <2>1. /\ row.status = "ACTIVE" /\ row.stage = 1 /\ row.version = 1 /\ row.pot <= CrashRisk.maxPot
        /\ 0 < row.deadline /\ row.deadline <= row.expires /\ row.settlement = "NOT_REQUIRED"
    BY <1>4, <1>8 DEF NoRound
  <2>2. /\ entry.kind = "ROUND_STARTED" /\ entry.from = 0 /\ entry.to = 1 /\ entry.status = "ACTIVE"
        /\ entry.asset = 0
    OBVIOUS
  <2> HIDE DEF row, entry
  <2> QED
    BY <1>5, <1>6, <2>1, <2>2, StartFits
<1>10. row.pot = InitialPot /\ row.status = "ACTIVE"
  BY DEF NoRound
<1>11. held \in Exposures
  BY <1>1 DEF Exposures
<1>12. intents' = [intents EXCEPT ![r] = {}]
  <2>1. intents[r] = {}
    BY <1>1 DEF RowsFit, RoundFits
  <2> QED
    BY <2>1, <1>1, <1>2 DEF RowTypes
<1>13. RoundFits(row, <<entry>>, {}, held)
  BY <1>9, <1>10
<1>14. /\ RowTypes' /\ RowsFit' /\ round'[r] = row /\ (\A q \in Rounds \ {r} : round'[q] = round[q])
       /\ exposure'[r] = held /\ \A q \in Rounds \ {r} : exposure'[q] = exposure[q]
  <2> HIDE DEF row, entry, held
  <2>1. {} \in SUBSET Nat
    OBVIOUS
  <2>2. RowTypes /\ RowsFit
    BY <1>1
  <2>3. Writes(r, row, <<entry>>, {}, held)
    BY <1>2, <1>12 DEF Writes
  <2> QED
    BY <1>5, <1>7, <1>11, <1>13, <2>1, <2>2, <2>3, WrittenRowsFit
<1> HIDE DEF row, entry
<1>15. /\ Total(exposure', Holding(exposure')) = InitialPot + Total(exposure, Holding(exposure) \ {r})
       /\ Total(exposure, Holding(exposure) \ {r}) \in Nat
  BY <1>1, <1>14, SumOfReserve DEF RowTypes
<1>16. ReservedAmount(Reserved \ {r}) + InitialPot <= CrashRisk.maxWallet
  BY <1>2 DEF Admitted
<1>17. ReservedAmount(Reserved \ {r}) = Total(exposure, Holding(exposure) \ {r})
  BY ReservedAmountIsTotal, ReservedIsHolding
<1>18. ReservedAmount(Reserved)' = Total(exposure', Holding(exposure'))
  BY ReservedIsHolding
<1>19. ReservedAmount(Reserved)' <= CrashRisk.maxWallet
  BY <1>1, <1>15, <1>16, <1>17, <1>18, RuleTypes
<1> QED
  BY <1>10, <1>14, <1>19

\* A round that ends releases its reservation, which never raises the sum.
LEMMA EndKeepsRows ==
  ASSUME RoundInv, NEW r \in Rounds, round[r].status = "ACTIVE",
         NEW next \in RoundRows, next.status \in CrashEnded, next.stage = round[r].stage,
         next.version = round[r].version + 1, next.deadline = 0, next.settlement = "PENDING",
         NEW entry \in Transitions, entry.status = next.status, entry.to = round[r].stage,
         entry.asset = IF WonTheLast(next) THEN round[r].stage ELSE 0,
         NEW given, given = IF WonTheLast(next) THEN intents[r] \cup {round[r].stage} ELSE intents[r],
         round' = [round EXCEPT ![r] = next],
         crashLog' = [crashLog EXCEPT ![r] = Append(@, entry)],
         intents' = [intents EXCEPT ![r] = given], exposure' = ReleasedExposure(r)
  PROVE  /\ RowTypes' /\ RowsFit' /\ ReservedAmount(Reserved)' <= CrashRisk.maxWallet
         /\ round'[r] = next /\ \A q \in Rounds \ {r} : round'[q] = round[q]
<1>1. RowTypes /\ RowsFit /\ ReservedAmount(Reserved) <= CrashRisk.maxWallet
  BY DEF RoundInv
<1>2. PICK row \in RoundRows : row = round[r]
  BY <1>1 DEF RowTypes
<1>3. PICK log \in Seq(Transitions) : log = crashLog[r]
  BY <1>1 DEF RowTypes
<1>4. PICK held \in Exposures : held = exposure[r]
  BY <1>1 DEF RowTypes
<1>5. PICK paid \in SUBSET Nat : paid = intents[r]
  BY <1>1 DEF RowTypes
<1>6. PICK after \in Exposures : after = [held EXCEPT !.status = "RELEASED"]
  BY DEF Exposures
<1>7. after.status = "RELEASED" /\ after.amount = held.amount
  BY <1>6 DEF Exposures
<1>8. RoundFits(row, log, paid, held) /\ row.status = "ACTIVE"
  BY <1>1, <1>2, <1>3, <1>4, <1>5 DEF RowsFit
<1>9. RoundFits(next, Append(log, entry), given, after)
  BY <1>2, <1>5, <1>7, <1>8, EndFits
<1>10. Append(log, entry) \in Seq(Transitions)
  BY AppendProperties
<1>11. given \in SUBSET Nat
  BY <1>2, <1>5 DEF RoundRows
<1>12. exposure' = [exposure EXCEPT ![r] = after]
  BY <1>1, <1>4, <1>6 DEF ReleasedExposure, RowTypes
<1>13. crashLog' = [crashLog EXCEPT ![r] = Append(log, entry)]
  BY <1>1, <1>3 DEF RowTypes
<1>14. /\ RowTypes' /\ RowsFit' /\ round'[r] = next /\ (\A q \in Rounds \ {r} : round'[q] = round[q])
       /\ exposure'[r] = after /\ \A q \in Rounds \ {r} : exposure'[q] = exposure[q]
  <2>1. Writes(r, next, Append(log, entry), given, after)
    BY <1>12, <1>13 DEF Writes
  <2> QED
    BY <2>1, <1>1, <1>9, <1>10, <1>11, WrittenRowsFit
<1>15. Total(exposure', Holding(exposure')) <= Total(exposure, Holding(exposure))
  <2>1. exposure \in [Rounds -> Exposures] /\ exposure' \in [Rounds -> Exposures]
    BY <1>1, <1>14 DEF RowTypes
  <2>2. exposure'[r].amount = exposure[r].amount /\ exposure'[r].status = "RELEASED"
    BY <1>4, <1>7, <1>14
  <2> QED
    BY <2>1, <2>2, <1>14, SumOfRelease
<1>16. ReservedAmount(Reserved)' <= CrashRisk.maxWallet
  <2>1. Total(exposure, Holding(exposure)) \in Nat /\ Total(exposure', Holding(exposure')) \in Nat
    <3>1. Holding(exposure) \in SUBSET Rounds /\ Holding(exposure') \in SUBSET Rounds
      BY DEF Holding
    <3> QED
      BY <3>1, <1>1, <1>14, AmountsAreNat DEF RowTypes
  <2> QED
    BY <2>1, <1>1, <1>15, ReservedIsHolding, RuleTypes
<1> QED
  BY <1>14, <1>16

\* applyDefault
LEMMA DefaultKeepsRows ==
  ASSUME RoundInv, NEW r \in Rounds, CanDefault(r), Defaulted(r), intents' = intents
  PROVE  /\ RowTypes' /\ RowsFit' /\ ReservedAmount(Reserved)' <= CrashRisk.maxWallet
         /\ round'[r].status = "DEFAULTED" /\ \A q \in Rounds \ {r} : round'[q] = round[q]
<1>1. RowTypes /\ round[r].status = "ACTIVE"
  BY DEF RoundInv, CanDefault
<1>2. PICK row \in RoundRows : row = round[r]
  BY <1>1 DEF RowTypes
<1>3. PICK next \in RoundRows : next = [row EXCEPT !.status = "DEFAULTED", !.version = row.version + 1,
                                                   !.deadline = 0, !.settlement = "PENDING"]
  <2>1. row.version + 1 \in Nat
    BY DEF RoundRows
  <2>2. "DEFAULTED" \in Statuses
    BY DEF Statuses, CrashEnded
  <2> QED
    BY <2>1, <2>2 DEF RoundRows
<1>4. /\ next.status = "DEFAULTED" /\ next.stage = row.stage /\ next.version = row.version + 1
      /\ next.deadline = 0 /\ next.settlement = "PENDING"
  BY <1>3 DEF RoundRows
<1>5. PICK entry \in Transitions : entry =
        [kind |-> "DEADLINE_DEFAULTED", key |-> 0, decision |-> "forfeit", from |-> row.stage,
         to |-> row.stage, status |-> "DEFAULTED", asset |-> 0]
  BY DEF Transitions, Kinds, Statuses, CrashEnded, RoundRows
<1>6. entry.status = "DEFAULTED" /\ entry.to = row.stage /\ entry.asset = 0
  BY <1>5
<1>7. round' = [round EXCEPT ![r] = next]
  BY <1>1, <1>2, <1>3 DEF Defaulted, RowTypes
<1>8. crashLog' = [crashLog EXCEPT ![r] = Append(@, entry)]
  BY <1>2, <1>5 DEF Defaulted
<1>9. exposure' = ReleasedExposure(r)
  BY DEF Defaulted
<1>10. intents' = [intents EXCEPT ![r] = intents[r]]
  BY <1>1 DEF RowTypes
<1>11. ~ WonTheLast(next) /\ next.status \in CrashEnded
  BY <1>4 DEF WonTheLast, CrashEnded
<1>12. /\ RowTypes' /\ RowsFit' /\ ReservedAmount(Reserved)' <= CrashRisk.maxWallet
       /\ round'[r] = next /\ \A q \in Rounds \ {r} : round'[q] = round[q]
  BY <1>1, <1>2, <1>4, <1>6, <1>7, <1>8, <1>9, <1>10, <1>11, EndKeepsRows
<1> QED
  BY <1>4, <1>12

\* A round that goes on reserves its new pot, admitted against the other rounds.
LEMMA ContinueKeepsRows ==
  ASSUME RoundInv, NEW r \in Rounds, round[r].status = "ACTIVE",
         NEW next \in RoundRows, next.status = "ACTIVE", next.stage = round[r].stage + 1,
         next.version = round[r].version + 1, next.stage <= CrashRisk.maxStage,
         0 < next.deadline, next.deadline <= next.expires, next.settlement = round[r].settlement,
         Admitted(r, next.pot),
         NEW entry \in Transitions, entry.status = "ACTIVE", entry.to = next.stage,
         entry.asset = round[r].stage,
         round' = [round EXCEPT ![r] = next],
         crashLog' = [crashLog EXCEPT ![r] = Append(@, entry)],
         intents' = [intents EXCEPT ![r] = @ \cup {round[r].stage}],
         exposure' = ExposureAfter(r, next)
  PROVE  /\ RowTypes' /\ RowsFit' /\ ReservedAmount(Reserved)' <= CrashRisk.maxWallet
         /\ round'[r] = next /\ \A q \in Rounds \ {r} : round'[q] = round[q]
<1>1. RowTypes /\ RowsFit
  BY DEF RoundInv
<1>2. PICK row \in RoundRows : row = round[r]
  BY <1>1 DEF RowTypes
<1>3. PICK log \in Seq(Transitions) : log = crashLog[r]
  BY <1>1 DEF RowTypes
<1>4. PICK held \in Exposures : held = exposure[r]
  BY <1>1 DEF RowTypes
<1>5. PICK paid \in SUBSET Nat : paid = intents[r]
  BY <1>1 DEF RowTypes
<1>6. PICK after \in Exposures : after = [status |-> "RESERVED", amount |-> next.pot]
  BY DEF Exposures, RoundRows
<1>7. RoundFits(row, log, paid, held) /\ row.status = "ACTIVE"
  BY <1>1, <1>2, <1>3, <1>4, <1>5 DEF RowsFit
<1>8. held = [status |-> "RESERVED", amount |-> row.pot]
  BY <1>7 DEF RoundFits, MoneyFits
<1>9. next.pot <= CrashRisk.maxPot
  BY DEF Admitted
<1>10. RoundFits(next, Append(log, entry), paid \cup {row.stage}, after)
  BY <1>2, <1>6, <1>7, <1>9, ContinueFits
<1>11. Append(log, entry) \in Seq(Transitions) /\ paid \cup {row.stage} \in SUBSET Nat
  <2>1. Append(log, entry) \in Seq(Transitions)
    BY AppendProperties
  <2> QED
    BY <2>1 DEF RoundRows
<1>12. exposure' = [exposure EXCEPT ![r] = after]
  <2>1. [exposure[r] EXCEPT !.amount = next.pot] = after
    BY <1>4, <1>6, <1>8
  <2>2. exposure' = [exposure EXCEPT ![r] = [exposure[r] EXCEPT !.amount = next.pot]]
    BY <1>1 DEF RowTypes, ExposureAfter
  <2> QED
    BY <2>1, <2>2
<1>13. crashLog' = [crashLog EXCEPT ![r] = Append(log, entry)]
  BY <1>1, <1>3 DEF RowTypes
<1>14. intents' = [intents EXCEPT ![r] = paid \cup {row.stage}]
  BY <1>1, <1>2, <1>5 DEF RowTypes
<1>15. /\ RowTypes' /\ RowsFit' /\ round'[r] = next /\ (\A q \in Rounds \ {r} : round'[q] = round[q])
       /\ exposure'[r] = after /\ \A q \in Rounds \ {r} : exposure'[q] = exposure[q]
  <2> DEFINE given == paid \cup {row.stage}
             longer == Append(log, entry)
  <2>1. longer \in Seq(Transitions) /\ given \in SUBSET Nat
    BY <1>11
  <2>2. Writes(r, next, longer, given, after)
    BY <1>12, <1>13, <1>14 DEF Writes
  <2>3. RoundFits(next, longer, given, after)
    BY <1>10
  <2> HIDE DEF given, longer
  <2> QED
    BY <1>1, <2>1, <2>2, <2>3, WrittenRowsFit
<1>16. next.pot \in Nat
  BY DEF RoundRows
<1>17. /\ Total(exposure', Holding(exposure')) = next.pot + Total(exposure, Holding(exposure) \ {r})
       /\ Total(exposure, Holding(exposure) \ {r}) \in Nat
  <2>1. exposure \in [Rounds -> Exposures] /\ exposure' \in [Rounds -> Exposures]
    BY <1>1, <1>15 DEF RowTypes
  <2>2. PICK amount \in Nat : amount = next.pot
    BY <1>16
  <2>3. exposure'[r] = [status |-> "RESERVED", amount |-> amount]
    BY <1>6, <1>15, <2>2
  <2>4. \A q \in Rounds \ {r} : exposure'[q] = exposure[q]
    BY <1>15
  <2>5. /\ Total(exposure', Holding(exposure')) = amount + Total(exposure, Holding(exposure) \ {r})
        /\ Total(exposure, Holding(exposure) \ {r}) \in Nat
    BY <2>1, <2>3, <2>4, SumOfReserve
  <2> QED
    BY <2>2, <2>5
<1>18. ReservedAmount(Reserved \ {r}) + next.pot <= CrashRisk.maxWallet
  BY DEF Admitted
<1>19. ReservedAmount(Reserved \ {r}) = Total(exposure, Holding(exposure) \ {r})
  BY ReservedAmountIsTotal, ReservedIsHolding
<1>20. ReservedAmount(Reserved)' <= CrashRisk.maxWallet
  BY <1>16, <1>17, <1>18, <1>19, ReservedIsHolding, RuleTypes
<1> QED
  BY <1>15, <1>20

(***************************************************************************)
(* A decision.                                                             *)
(***************************************************************************)
\* resolveDecision ends the round where it stands, or moves it one stage on.
LEMMA DecisionEndsOrContinues ==
  ASSUME NEW c \in CrashCalls, RowTypes, CallTypes,
         crashCall[c].round \in Rounds, crashCall[c].action \in {"continue", "cash-out"},
         round[crashCall[c].round].stage \in 1..CrashRisk.maxStage
  PROVE  LET row == round[crashCall[c].round]
             next == ResolvedDecision(c) IN
         /\ next.stage \in Nat /\ next.pot \in Nat /\ next.version = row.version + 1
         /\ \/ /\ next \in RoundRows /\ next.status \in {"CASHED_OUT", "BUSTED", "COMPLETED"}
               /\ next.stage = row.stage /\ next.deadline = 0 /\ next.settlement = "PENDING"
               /\ (next.status = "CASHED_OUT") = (crashCall[c].action = "cash-out")
            \/ /\ crashCall[c].action = "continue"
               /\ next.stage = row.stage + 1
               /\ next.deadline = BoundedDeadline(crashCall[c].at, row.expires)
               /\ next.expires = row.expires /\ next.settlement = row.settlement
               /\ next.status = row.status
               /\ next = [row EXCEPT !.version = row.version + 1, !.stage = row.stage + 1,
                                     !.pot = next.pot, !.deadline = next.deadline]
<1> DEFINE r == crashCall[c].round
<1>1. PICK row \in RoundRows : row = round[r]
  BY DEF RowTypes
<1>2. row.stage \in 1..Len(CrashStages) /\ row.pot \in Nat /\ row.version + 1 \in Nat /\ row.stage + 1 \in Nat
  <2>1. row.stage \in 1..CrashRisk.maxStage
    BY <1>1
  <2>2. row.stage \in 1..Len(CrashStages)
    BY <2>1, RuleTypes
  <2>3. row.stage \in Nat /\ row.version \in Nat /\ row.pot \in Nat
    BY DEF RoundRows
  <2> QED
    BY <2>2, <2>3
<1>3. PICK pot \in Nat : pot = NextPot(row.stage, row.pot)
  BY <1>2, NextPotIsNat
<1>9. PICK ended \in RoundRows :
        ended = [row EXCEPT !.version = row.version + 1, !.deadline = 0, !.settlement = "PENDING"]
  BY <1>2 DEF RoundRows
<1>10. /\ ended.stage = row.stage /\ ended.deadline = 0 /\ ended.settlement = "PENDING"
       /\ ended.version = row.version + 1
  BY <1>9 DEF RoundRows
<1>4. \/ ResolvedDecision(c) = [ended EXCEPT !.status = "CASHED_OUT"] /\ crashCall[c].action = "cash-out"
      \/ /\ crashCall[c].action = "continue"
         /\ \/ ResolvedDecision(c) = [ended EXCEPT !.status = "BUSTED", !.pot = pot]
            \/ ResolvedDecision(c) = [ended EXCEPT !.status = "COMPLETED", !.pot = pot]
            \/ ResolvedDecision(c) = [row EXCEPT !.version = row.version + 1, !.stage = row.stage + 1, !.pot = pot,
                                                 !.deadline = BoundedDeadline(crashCall[c].at, row.expires)]
  <2>1. CASE crashCall[c].action = "cash-out"
    BY <2>1, <1>1, <1>9 DEF ResolvedDecision
  <2>2. CASE crashCall[c].action = "continue" /\ Busted(row.stage, FixtureRoll(c))
    BY <2>2, <1>1, <1>9, <1>3 DEF ResolvedDecision
  <2>3. CASE /\ crashCall[c].action = "continue" /\ ~ Busted(row.stage, FixtureRoll(c))
             /\ row.stage = Len(CrashStages)
    BY <2>3, <1>1, <1>3, <1>9 DEF ResolvedDecision
  <2>4. CASE /\ crashCall[c].action = "continue" /\ ~ Busted(row.stage, FixtureRoll(c))
             /\ row.stage # Len(CrashStages)
    BY <2>4, <1>1, <1>3 DEF ResolvedDecision
  <2> QED
    BY <2>1, <2>2, <2>3, <2>4
<1>5. /\ "CASHED_OUT" \in Statuses /\ "BUSTED" \in Statuses /\ "COMPLETED" \in Statuses
  BY DEF Statuses, CrashEnded
<1> DEFINE next == ResolvedDecision(c)
<1>6. CASE next = [ended EXCEPT !.status = "CASHED_OUT"] /\ crashCall[c].action = "cash-out"
  <2>1. next \in RoundRows
    BY <1>5, <1>6 DEF RoundRows
  <2>2. /\ next.status = "CASHED_OUT" /\ next.stage = row.stage /\ next.deadline = 0
        /\ next.settlement = "PENDING" /\ next.version = row.version + 1
    BY <1>6, <1>10 DEF RoundRows
  <2>3. next.stage \in Nat /\ next.pot \in Nat
    BY <2>1 DEF RoundRows
  <2> HIDE DEF next
  <2> QED
    BY <2>1, <2>2, <2>3, <1>1, <1>6 DEF next
<1>7. CASE /\ crashCall[c].action = "continue"
           /\ \/ next = [ended EXCEPT !.status = "BUSTED", !.pot = pot]
              \/ next = [ended EXCEPT !.status = "COMPLETED", !.pot = pot]
  <2>1. next \in RoundRows
    BY <1>3, <1>5, <1>7 DEF RoundRows
  <2>2. /\ next.status \in {"BUSTED", "COMPLETED"} /\ next.stage = row.stage /\ next.deadline = 0
        /\ next.settlement = "PENDING" /\ next.version = row.version + 1
    BY <1>7, <1>10 DEF RoundRows
  <2>3. next.stage \in Nat /\ next.pot \in Nat
    BY <2>1 DEF RoundRows
  <2> HIDE DEF next
  <2> QED
    BY <2>1, <2>2, <2>3, <1>1, <1>7 DEF next
<1>8. CASE /\ crashCall[c].action = "continue"
           /\ next = [row EXCEPT !.version = row.version + 1, !.stage = row.stage + 1, !.pot = pot,
                                 !.deadline = BoundedDeadline(crashCall[c].at, row.expires)]
  <2>1. /\ next.status = row.status /\ next.stage = row.stage + 1 /\ next.version = row.version + 1
        /\ next.pot = pot /\ next.deadline = BoundedDeadline(crashCall[c].at, row.expires)
        /\ next.expires = row.expires /\ next.settlement = row.settlement
    BY <1>8 DEF RoundRows
  <2>2. next = [row EXCEPT !.version = row.version + 1, !.stage = row.stage + 1, !.pot = next.pot,
                           !.deadline = next.deadline]
    BY <1>8, <2>1
  <2> HIDE DEF next
  <2> QED
    BY <2>1, <2>2, <1>1, <1>2, <1>8 DEF next
<1> QED
  BY <1>4, <1>6, <1>7, <1>8

\* The transaction of a decision that is accepted.
DecisionAccepted(c) ==
  LET r == crashCall[c].round
      next == ResolvedDecision(c) IN
  /\ DecisionIsCurrent(c) /\ RiskAccepts(c)
  /\ round' = [round EXCEPT ![r] = next]
  /\ crashLog' = [crashLog EXCEPT ![r] = Append(@,
       [kind |-> TransitionKind(c), key |-> crashCall[c].key, decision |-> crashCall[c].action,
        from |-> round[r].stage, to |-> next.stage, status |-> next.status,
        asset |-> IF crashCall[c].action = "continue" THEN round[r].stage ELSE 0])]
  /\ intents' = [intents EXCEPT ![r] =
       IF crashCall[c].action = "continue" THEN @ \cup {round[r].stage} ELSE @]
  /\ exposure' = ExposureAfter(r, next)

LEMMA DecisionKeepsRows ==
  ASSUME RoundInv, NEW c \in CrashCalls, crashCall[c].pc # "idle", DecisionAccepted(c)
  PROVE  /\ RowTypes' /\ RowsFit' /\ ReservedAmount(Reserved)' <= CrashRisk.maxWallet
         /\ \A r \in Rounds : round'[r].status = "NONE" => round[r].status = "NONE"
<1>1. RowTypes /\ RowsFit /\ CallTypes /\ CallsFit
  BY DEF RoundInv
<1>2. PICK call \in Calls : call = crashCall[c]
  BY <1>1 DEF CallTypes
<1>3. call.round \in Rounds /\ call.action \in {"continue", "cash-out"}
  BY <1>1, <1>2 DEF CallsFit, CallFits
<1>4. PICK r \in Rounds : r = call.round
  BY <1>3
<1>5. round[r].status = "ACTIVE"
  BY <1>2, <1>4 DEF DecisionAccepted, DecisionIsCurrent
<1>6. PICK row \in RoundRows : row = round[r]
  BY <1>1 DEF RowTypes
<1>7. LedgerFits(row, crashLog[r]) /\ MoneyFits(row, intents[r], exposure[r])
  BY <1>1, <1>5, <1>6 DEF RowsFit, RoundFits
<1>8. row.stage \in 1..CrashRisk.maxStage /\ row.settlement = "NOT_REQUIRED" /\ row.stage \in Nat
  BY <1>5, <1>6, <1>7 DEF LedgerFits, MoneyFits, RoundRows
<1> DEFINE decided == ResolvedDecision(c)
<1>9. /\ decided.stage \in Nat /\ decided.pot \in Nat /\ decided.version = row.version + 1
      /\ \/ /\ decided \in RoundRows /\ decided.status \in {"CASHED_OUT", "BUSTED", "COMPLETED"}
            /\ decided.stage = row.stage /\ decided.deadline = 0 /\ decided.settlement = "PENDING"
            /\ (decided.status = "CASHED_OUT") = (call.action = "cash-out")
         \/ /\ call.action = "continue" /\ decided.stage = row.stage + 1
            /\ decided.deadline = BoundedDeadline(call.at, row.expires)
            /\ decided.expires = row.expires /\ decided.settlement = row.settlement
            /\ decided.status = row.status
            /\ decided = [row EXCEPT !.version = row.version + 1, !.stage = row.stage + 1,
                                     !.pot = decided.pot, !.deadline = decided.deadline]
  BY <1>1, <1>2, <1>3, <1>4, <1>6, <1>8, DecisionEndsOrContinues
<1> DEFINE entry == [kind |-> TransitionKind(c), key |-> call.key, decision |-> call.action,
                     from |-> row.stage, to |-> decided.stage, status |-> decided.status,
                     asset |-> IF call.action = "continue" THEN row.stage ELSE 0]
<1>10. /\ round' = [round EXCEPT ![r] = decided]
       /\ crashLog' = [crashLog EXCEPT ![r] = Append(@, entry)]
       /\ intents' = [intents EXCEPT ![r] = IF call.action = "continue" THEN @ \cup {row.stage} ELSE @]
       /\ exposure' = ExposureAfter(r, decided) /\ RiskAccepts(c)
  BY <1>2, <1>4, <1>6 DEF DecisionAccepted
<1>11. decided.status \in {"CASHED_OUT", "BUSTED", "COMPLETED", "ACTIVE"}
  BY <1>5, <1>6, <1>9
<1>12. TransitionKind(c) \in Kinds
  BY <1>11 DEF TransitionKind, Kinds
<1>13. entry \in Transitions
  <2>1. decided.status \in Statuses
    BY <1>11 DEF Statuses, CrashEnded
  <2>2. call.key \in CrashKeys \cup {0}
    BY DEF Calls
  <2> HIDE DEF decided
  <2> QED
    BY <2>1, <2>2, <1>3, <1>8, <1>9, <1>12 DEF Transitions
<1>14. PICK step \in Transitions : step = entry
  BY <1>13
<1>15. /\ step.status = decided.status /\ step.to = decided.stage
       /\ step.asset = IF call.action = "continue" THEN row.stage ELSE 0
  BY <1>14
<1>16. crashLog' = [crashLog EXCEPT ![r] = Append(@, step)]
  BY <1>10, <1>14
<1> HIDE DEF decided, entry
<1>17. CASE decided.status # "ACTIVE"
  <2>1. /\ decided \in RoundRows /\ decided.status \in {"CASHED_OUT", "BUSTED", "COMPLETED"}
        /\ decided.stage = row.stage /\ decided.deadline = 0 /\ decided.settlement = "PENDING"
        /\ (decided.status = "CASHED_OUT") = (call.action = "cash-out")
    BY <1>5, <1>6, <1>9, <1>17
  <2>2. PICK next \in RoundRows : next = decided
    BY <2>1
  <2>3. (call.action = "continue") = WonTheLast(next)
    BY <2>1, <2>2, <1>3 DEF WonTheLast
  <2>4. step.asset = IF WonTheLast(next) THEN row.stage ELSE 0
    BY <2>3, <1>15
  <2>5. PICK given : given = IF WonTheLast(next) THEN intents[r] \cup {row.stage} ELSE intents[r]
    OBVIOUS
  <2>6. intents' = [intents EXCEPT ![r] = given]
    BY <2>3, <2>5, <1>10
  <2>7. exposure' = ReleasedExposure(r)
    BY <1>10, <1>17 DEF ExposureAfter
  <2>8. next.status \in CrashEnded
    BY <2>1, <2>2 DEF CrashEnded
  <2>9. /\ RowTypes' /\ RowsFit' /\ ReservedAmount(Reserved)' <= CrashRisk.maxWallet
        /\ round'[r] = next /\ \A q \in Rounds \ {r} : round'[q] = round[q]
    <3>1. /\ next.stage = round[r].stage /\ next.version = round[r].version + 1 /\ next.deadline = 0
          /\ next.settlement = "PENDING" /\ step.status = next.status /\ step.to = round[r].stage
      BY <2>1, <2>2, <1>6, <1>9, <1>15
    <3>2. step.asset = IF WonTheLast(next) THEN round[r].stage ELSE 0
      BY <2>4, <1>6
    <3>3. given = IF WonTheLast(next) THEN intents[r] \cup {round[r].stage} ELSE intents[r]
      BY <2>5, <1>6
    <3>4. round' = [round EXCEPT ![r] = next]
      BY <2>2, <1>10
    <3> QED
      BY <3>1, <3>2, <3>3, <3>4, <2>6, <2>7, <2>8, <1>5, <1>16, EndKeepsRows
  <2>10. next.status # "NONE"
    BY <2>8 DEF CrashEnded
  <2> QED
    BY <2>9, <2>10
<1>18. CASE decided.status = "ACTIVE"
  <2>1. /\ call.action = "continue" /\ decided.stage = row.stage + 1
        /\ decided.deadline = BoundedDeadline(call.at, row.expires)
        /\ decided.expires = row.expires /\ decided.settlement = row.settlement
        /\ decided = [row EXCEPT !.version = row.version + 1, !.stage = row.stage + 1,
                                 !.pot = decided.pot, !.deadline = decided.deadline]
    BY <1>9, <1>18
  <2>2. /\ StageAndDuration(decided.stage, row.expires, call.at) /\ Admitted(r, decided.pot)
    BY <2>1, <1>2, <1>4, <1>6, <1>10 DEF RiskAccepts, decided
  <2>3. /\ decided.stage <= CrashRisk.maxStage /\ call.at < row.expires
    BY <2>2 DEF StageAndDuration
  <2>4. /\ decided.deadline \in Nat /\ 0 < decided.deadline /\ decided.deadline <= decided.expires
    <3>1. call.at \in Nat /\ row.expires \in Nat
      BY DEF Calls, RoundRows
    <3> QED
      BY <3>1, <2>1, <2>3, DeadlineIsBounded
  <2>5. decided \in RoundRows
    <3>1. row.version + 1 \in Nat /\ row.stage + 1 \in Nat
      BY DEF RoundRows
    <3>2. PICK pot \in Nat, deadline \in Nat : pot = decided.pot /\ deadline = decided.deadline
      BY <2>4, <1>9
    <3>3. decided = [row EXCEPT !.version = row.version + 1, !.stage = row.stage + 1, !.pot = pot,
                                !.deadline = deadline]
      BY <2>1, <3>2
    <3> QED
      BY <3>1, <3>3 DEF RoundRows
  <2>6. PICK next \in RoundRows : next = decided
    BY <2>5
  <2>7. intents' = [intents EXCEPT ![r] = @ \cup {round[r].stage}]
    BY <2>1, <1>6, <1>10
  <2>8. /\ RowTypes' /\ RowsFit' /\ ReservedAmount(Reserved)' <= CrashRisk.maxWallet
        /\ round'[r] = next /\ \A q \in Rounds \ {r} : round'[q] = round[q]
    <3>1. /\ next.status = "ACTIVE" /\ next.stage = round[r].stage + 1
          /\ next.version = round[r].version + 1 /\ next.stage <= CrashRisk.maxStage
          /\ 0 < next.deadline /\ next.deadline <= next.expires /\ next.settlement = round[r].settlement
      BY <2>1, <2>3, <2>4, <2>6, <1>6, <1>9, <1>18
    <3>2. step.status = "ACTIVE" /\ step.to = next.stage /\ step.asset = round[r].stage
      BY <2>1, <2>6, <1>6, <1>15, <1>18
    <3>3. round' = [round EXCEPT ![r] = next] /\ exposure' = ExposureAfter(r, next)
      BY <2>6, <1>10
    <3>4. Admitted(r, next.pot)
      BY <2>2, <2>6
    <3> QED
      BY <3>1, <3>2, <3>3, <3>4, <2>7, <1>5, <1>16, ContinueKeepsRows
  <2>9. next.status # "NONE"
    BY <2>6, <1>18
  <2> QED
    BY <2>8, <2>9
<1> QED
  BY <1>17, <1>18

(***************************************************************************)
(* The steps of players, sweeps and the environment.                       *)
(***************************************************************************)
RowsKept ==
  /\ RowTypes' /\ RowsFit' /\ ReservedAmount(Reserved)' <= CrashRisk.maxWallet
  /\ \A r \in Rounds : round'[r].status = "NONE" => round[r].status = "NONE"

\* A step of one call leaves what the others ask for.
LEMMA CallsStillFit ==
  ASSUME CallTypes, CallsFit, NEW c \in CrashCalls, NEW call \in Calls,
         crashCall' = [crashCall EXCEPT ![c] = call], crashTime' = crashTime,
         \A r \in Rounds : round'[r].status = "NONE" => round[r].status = "NONE",
         CallFits(call, round)
  PROVE  CallTypes' /\ CallsFit'
<1>1. CallTypes'
  BY DEF CallTypes
<1>2. ASSUME NEW d \in CrashCalls
      PROVE  CallFits(crashCall'[d], round')
  <2>1. CallFits(crashCall'[d], round)
    BY DEF CallTypes, CallsFit
  <2> QED
    BY <2>1 DEF CallFits
<1> QED
  BY <1>1, <1>2 DEF CallsFit

LEMMA CallsStayAsTheyAre ==
  ASSUME CallTypes, CallsFit, crashCall' = crashCall, crashTime' \in Nat,
         \A r \in Rounds : round'[r].status = "NONE" => round[r].status = "NONE"
  PROVE  CallTypes' /\ CallsFit'
BY DEF CallTypes, CallsFit, CallFits

LEMMA IdleFits == CrashIdle \in Calls /\ \A rows : CallFits(CrashIdle, rows)
BY DEF CrashIdle, Calls, CallFits

LEMMA CallEnds ==
  ASSUME CallTypes, CallsFit, NEW c \in CrashCalls, EndCrash(c), crashTime' = crashTime,
         \A r \in Rounds : round'[r].status = "NONE" => round[r].status = "NONE"
  PROVE  CallTypes' /\ CallsFit'
<1>1. PICK call \in Calls : call = CrashIdle
  BY IdleFits
<1>2. CallFits(call, round)
  BY <1>1, IdleFits
<1>3. crashCall' = [crashCall EXCEPT ![c] = call]
  BY <1>1 DEF EndCrash
<1> QED
  BY <1>2, <1>3, CallsStillFit

\* Rows that are not written stay as they fit.
LEMMA RowsUnwritten ==
  ASSUME RoundInv, UNCHANGED <<round, crashLog, intents, exposure>>
  PROVE  RowsKept
<1>1. RowTypes /\ RowsFit /\ ReservedAmount(Reserved) <= CrashRisk.maxWallet
  BY DEF RoundInv
<1>2. RowTypes' /\ RowsFit'
  BY <1>1 DEF RowTypes, RowsFit
<1>3. ReservedAmount(Reserved)' = ReservedAmount(Reserved)
  BY ReservedIsHolding
<1> QED
  BY <1>1, <1>2, <1>3 DEF RowsKept

LEMMA RoundInvFromParts ==
  ASSUME RowsKept, CallTypes', CallsFit'
  PROVE  RoundInv'
BY DEF RowsKept, RoundInv

LEMMA DefaultKept ==
  ASSUME RoundInv, NEW r \in Rounds, CanDefault(r), Defaulted(r), intents' = intents
  PROVE  RowsKept
<1>1. /\ RowTypes' /\ RowsFit' /\ ReservedAmount(Reserved)' <= CrashRisk.maxWallet
      /\ round'[r].status = "DEFAULTED" /\ \A q \in Rounds \ {r} : round'[q] = round[q]
  BY DefaultKeepsRows
<1> QED
  BY <1>1 DEF RowsKept

LEMMA BeginDecisionStep ==
  ASSUME RoundInv, NEW c \in CrashCalls, NEW r \in Rounds, BeginDecision(c, r)
  PROVE  RoundInv'
<1>1. RowTypes /\ RowsFit /\ CallTypes /\ CallsFit
  BY DEF RoundInv
<1>2. PICK row \in RoundRows : row = round[r]
  BY <1>1 DEF RowTypes
<1>3. PICK log \in Seq(Transitions) : log = crashLog[r]
  BY <1>1 DEF RowTypes
<1>4. row.status # "NONE"
  BY <1>2 DEF BeginDecision
<1>5. LedgerFits(row, log)
  BY <1>1, <1>2, <1>3, <1>4 DEF RowsFit, RoundFits
<1>6. PICK action \in {"continue", "cash-out"}, k \in CrashKeys, v \in {row.version, row.version - 1} \ {0} :
        crashCall' = [crashCall EXCEPT ![c] =
          [pc |-> "resume", round |-> r, action |-> action, key |-> k, stage |-> log[v].to, version |-> v,
           at |-> 0]]
  BY <1>2, <1>3 DEF BeginDecision
<1>7. v \in Nat /\ log[v].to \in Nat
  <2>1. row.version = Len(log) /\ Len(log) \in Nat
    BY <1>5 DEF LedgerFits
  <2>2. Len(log) >= 1
    BY <1>5, <2>1, RuleTypes DEF LedgerFits, RoundRows
  <2>3. v \in 1..Len(log)
    BY <2>1, <2>2
  <2>4. log[v] \in Transitions
    BY <2>3, ElementOfSeq
  <2> QED
    BY <2>1, <2>3, <2>4 DEF Transitions
<1>8. PICK call \in Calls : call =
        [pc |-> "resume", round |-> r, action |-> action, key |-> k, stage |-> log[v].to, version |-> v,
         at |-> 0]
  BY <1>7 DEF Calls
<1>9. CallFits(call, round)
  BY <1>2, <1>4, <1>8 DEF CallFits
<1>10. UNCHANGED <<round, crashLog, intents, exposure>> /\ crashTime' = crashTime
  BY DEF BeginDecision
<1>11. RowsKept
  BY <1>10, RowsUnwritten
<1>12. CallTypes' /\ CallsFit'
  <2>1. crashCall' = [crashCall EXCEPT ![c] = call]
    BY <1>6, <1>8
  <2> QED
    BY <2>1, <1>1, <1>9, <1>10, <1>11, CallsStillFit DEF RowsKept
<1> QED
  BY <1>11, <1>12, RoundInvFromParts

LEMMA ResumeRoundStep ==
  ASSUME RoundInv, NEW c \in CrashCalls, ResumeRound(c)
  PROVE  RoundInv'
<1>1. RowTypes /\ RowsFit /\ CallTypes /\ CallsFit
  BY DEF RoundInv
<1>2. PICK call \in Calls : call = crashCall[c]
  BY <1>1 DEF CallTypes
<1>3. call.pc = "resume" /\ CallFits(call, round) /\ call.round \in Rounds
  BY <1>1, <1>2 DEF ResumeRound, CallsFit, CallFits
<1>4. PICK r \in Rounds : r = call.round
  BY <1>3
<1>5. intents' = intents /\ crashTime' = crashTime
  BY DEF ResumeRound
<1>6. CASE CanDefault(r)
  <2>1. Defaulted(r) /\ EndCrash(c)
    BY <1>2, <1>4, <1>6 DEF ResumeRound
  <2>2. RowsKept
    BY <2>1, <1>5, <1>6, DefaultKept
  <2> QED
    BY <2>1, <2>2, <1>1, <1>5, CallEnds, RoundInvFromParts DEF RowsKept
<1>7. CASE ~ CanDefault(r)
  <2>1. /\ EndCrash(c) \/ crashCall' = [crashCall EXCEPT ![c].pc = "decide", ![c].at = crashTime]
        /\ UNCHANGED <<round, crashLog, intents, exposure>>
    BY <1>2, <1>4, <1>7 DEF ResumeRound
  <2>2. RowsKept
    BY <2>1, RowsUnwritten
  <2>3. CASE EndCrash(c)
    BY <2>2, <2>3, <1>1, <1>5, CallEnds, RoundInvFromParts DEF RowsKept
  <2>4. CASE crashCall' = [crashCall EXCEPT ![c].pc = "decide", ![c].at = crashTime]
    <3>1. PICK decide \in Calls : decide = [call EXCEPT !.pc = "decide", !.at = crashTime]
      BY <1>1 DEF Calls, CallTypes
    <3>2. decide.round = call.round /\ decide.action = call.action
      BY <3>1 DEF Calls
    <3>3. CallFits(decide, round)
      BY <3>2, <1>3 DEF CallFits
    <3>4. crashCall' = [crashCall EXCEPT ![c] = decide]
      BY <2>4, <3>1, <1>1, <1>2 DEF CallTypes
    <3> QED
      BY <3>3, <3>4, <2>2, <1>1, <1>5, CallsStillFit, RoundInvFromParts DEF RowsKept
  <2> QED
    BY <2>1, <2>3, <2>4
<1> QED
  BY <1>6, <1>7

LEMMA DecideRoundStep ==
  ASSUME RoundInv, NEW c \in CrashCalls, DecideRound(c)
  PROVE  RoundInv'
<1>1. RowTypes /\ RowsFit /\ CallTypes /\ CallsFit
  BY DEF RoundInv
<1>2. PICK call \in Calls : call = crashCall[c]
  BY <1>1 DEF CallTypes
<1>3. call.pc = "decide" /\ CallFits(call, round) /\ crashTime' = crashTime
  BY <1>1, <1>2 DEF DecideRound, CallsFit
<1>4. \/ DecisionAccepted(c) /\ EndCrash(c)
      \/ /\ EndCrash(c) \/ GotoCrash(c, "again")
         /\ UNCHANGED <<round, crashLog, intents, exposure>>
  BY DEF DecideRound, DecisionAccepted
<1>5. CASE DecisionAccepted(c) /\ EndCrash(c)
  <2>1. RowsKept
    BY <1>2, <1>3, <1>5, DecisionKeepsRows DEF RowsKept
  <2> QED
    BY <2>1, <1>1, <1>3, <1>5, CallEnds, RoundInvFromParts DEF RowsKept
<1>6. CASE /\ EndCrash(c) \/ GotoCrash(c, "again")
           /\ UNCHANGED <<round, crashLog, intents, exposure>>
  <2>1. RowsKept
    BY <1>6, RowsUnwritten
  <2>2. CASE EndCrash(c)
    BY <2>1, <2>2, <1>1, <1>3, CallEnds, RoundInvFromParts DEF RowsKept
  <2>3. CASE GotoCrash(c, "again")
    <3>1. PICK again \in Calls : again = [call EXCEPT !.pc = "again"]
      BY DEF Calls
    <3>2. again.round = call.round /\ again.action = call.action
      BY <3>1 DEF Calls
    <3>3. CallFits(again, round)
      BY <3>2, <1>3 DEF CallFits
    <3>4. crashCall' = [crashCall EXCEPT ![c] = again]
      BY <2>3, <3>1, <1>1, <1>2 DEF CallTypes, GotoCrash
    <3> QED
      BY <3>3, <3>4, <2>1, <1>1, <1>3, CallsStillFit, RoundInvFromParts DEF RowsKept
  <2> QED
    BY <1>6, <2>2, <2>3
<1> QED
  BY <1>4, <1>5, <1>6

LEMMA ResumeAfterConflictStep ==
  ASSUME RoundInv, NEW c \in CrashCalls, ResumeAfterConflict(c)
  PROVE  RoundInv'
<1>1. RowTypes /\ RowsFit /\ CallTypes /\ CallsFit
  BY DEF RoundInv
<1>2. PICK r \in Rounds : r = crashCall[c].round
  BY <1>1 DEF ResumeAfterConflict, CallsFit, CallFits
<1>3. intents' = intents /\ crashTime' = crashTime /\ EndCrash(c)
  BY DEF ResumeAfterConflict
<1>4. RowsKept
  <2>1. CASE CanDefault(r)
    <3>1. Defaulted(r)
      BY <2>1, <1>2 DEF ResumeAfterConflict
    <3> QED
      BY <3>1, <2>1, <1>3, DefaultKept
  <2>2. CASE ~ CanDefault(r)
    <3>1. UNCHANGED <<round, crashLog, intents, exposure>>
      BY <2>2, <1>2, <1>3 DEF ResumeAfterConflict
    <3> QED
      BY <3>1, RowsUnwritten
  <2> QED
    BY <2>1, <2>2
<1> QED
  BY <1>1, <1>3, <1>4, CallEnds, RoundInvFromParts DEF RowsKept

LEMMA RoundStepKeepsRounds ==
  ASSUME RoundInv, CrashRoundStep(Rounds, CrashCalls)
  PROVE  RoundInv'
<1>1. RowTypes /\ RowsFit /\ CallTypes /\ CallsFit
  BY DEF RoundInv
<1>2. ASSUME NEW r \in Rounds, CreateFixtureRound(r)
      PROVE  RoundInv'
  <2>1. RowsKept
    BY <1>2, CreateKeepsRows DEF RowsKept
  <2>2. crashCall' = crashCall /\ crashTime' \in Nat
    BY <1>1, <1>2 DEF CreateFixtureRound, CallTypes
  <2> QED
    BY <2>1, <2>2, <1>1, CallsStayAsTheyAre, RoundInvFromParts DEF RowsKept
<1>3. ASSUME NEW r \in Rounds, SweepExpired(r)
      PROVE  RoundInv'
  <2>1. RowsKept
    BY <1>3, DefaultKept DEF SweepExpired
  <2>2. crashCall' = crashCall /\ crashTime' \in Nat
    BY <1>1, <1>3 DEF SweepExpired, CallTypes
  <2> QED
    BY <2>1, <2>2, <1>1, CallsStayAsTheyAre, RoundInvFromParts DEF RowsKept
<1>4. ASSUME NEW c \in CrashCalls, CrashCallDies(c)
      PROVE  RoundInv'
  <2>1. RowsKept
    BY <1>4, RowsUnwritten DEF CrashCallDies
  <2>2. EndCrash(c) /\ crashTime' = crashTime
    BY <1>4 DEF CrashCallDies
  <2> QED
    BY <2>1, <2>2, <1>1, CallEnds, RoundInvFromParts DEF RowsKept
<1>5. CASE CrashTick
  <2>1. RowsKept
    BY <1>5, RowsUnwritten DEF CrashTick
  <2>2. crashCall' = crashCall /\ crashTime' \in Nat
    BY <1>1, <1>5 DEF CrashTick, CallTypes
  <2> QED
    BY <2>1, <2>2, <1>1, CallsStayAsTheyAre, RoundInvFromParts DEF RowsKept
<1>6. CASE HouseRoomMoves
  <2>1. RowsKept
    BY <1>6, RowsUnwritten DEF HouseRoomMoves
  <2>2. crashCall' = crashCall /\ crashTime' \in Nat
    BY <1>1, <1>6 DEF HouseRoomMoves, CallTypes
  <2> QED
    BY <2>1, <2>2, <1>1, CallsStayAsTheyAre, RoundInvFromParts DEF RowsKept
<1> QED
  BY <1>2, <1>3, <1>4, <1>5, <1>6, BeginDecisionStep, ResumeRoundStep, DecideRoundStep,
     ResumeAfterConflictStep DEF CrashRoundStep

\* What such a step may do to a round: one that ended is never touched again, and none
\* becomes settled.
RoundRests(r) == round'[r] = round[r] /\ crashLog'[r] = crashLog[r] /\ intents'[r] = intents[r]
RoundIsPlayed(r) == round[r].status \notin CrashEnded /\ round'[r].settlement # "SETTLED"

LEMMA DefaultPlays ==
  ASSUME RowTypes, NEW r \in Rounds, CanDefault(r), Defaulted(r), intents' = intents, NEW q \in Rounds
  PROVE  RoundRests(q) \/ RoundIsPlayed(q)
<1>1. PICK row \in RoundRows : row = round[r]
  BY DEF RowTypes
<1>2. round' = [round EXCEPT ![r] = [row EXCEPT !.status = "DEFAULTED", !.version = row.version + 1,
                                                !.deadline = 0, !.settlement = "PENDING"]]
  BY <1>1 DEF Defaulted, RowTypes
<1>3. CASE q = r
  <2>1. round'[q].settlement = "PENDING"
    BY <1>2, <1>3 DEF RowTypes, RoundRows
  <2>2. round[q].status \notin CrashEnded
    BY <1>3 DEF CanDefault, CrashEnded
  <2> QED
    BY <2>1, <2>2 DEF RoundIsPlayed
<1>4. CASE q # r
  BY <1>2, <1>4 DEF RowTypes, Defaulted, RoundRests
<1> QED
  BY <1>3, <1>4

LEMMA DecisionPlays ==
  ASSUME RoundInv, NEW c \in CrashCalls, crashCall[c].pc # "idle", DecisionAccepted(c), NEW q \in Rounds
  PROVE  RoundRests(q) \/ RoundIsPlayed(q)
<1>1. RowTypes /\ RowsFit /\ CallTypes /\ CallsFit
  BY DEF RoundInv
<1>2. crashCall[c].round \in Rounds /\ crashCall[c].action \in {"continue", "cash-out"}
  BY <1>1 DEF CallsFit, CallFits
<1>3. PICK r \in Rounds : r = crashCall[c].round
  BY <1>2
<1>4. round[r].status = "ACTIVE"
  BY <1>3 DEF DecisionAccepted, DecisionIsCurrent
<1>5. LedgerFits(round[r], crashLog[r]) /\ MoneyFits(round[r], intents[r], exposure[r])
  BY <1>1, <1>4 DEF RowsFit, RoundFits
<1>6. round[r].stage \in 1..CrashRisk.maxStage /\ round[r].settlement = "NOT_REQUIRED"
  BY <1>4, <1>5 DEF LedgerFits, MoneyFits
<1>7. ResolvedDecision(c).settlement \in {"PENDING", "NOT_REQUIRED"}
  BY <1>1, <1>2, <1>3, <1>6, DecisionEndsOrContinues
<1>8. round' = [round EXCEPT ![r] = ResolvedDecision(c)]
  BY <1>3 DEF DecisionAccepted
<1>9. CASE q = r
  <2>1. round'[q].settlement # "SETTLED"
    BY <1>7, <1>8, <1>9, <1>1 DEF RowTypes
  <2> QED
    BY <2>1, <1>4, <1>9 DEF RoundIsPlayed, CrashEnded
<1>10. CASE q # r
  <2>1. round'[q] = round[q]
    BY <1>8, <1>10, <1>1 DEF RowTypes
  <2>2. crashLog'[q] = crashLog[q] /\ intents'[q] = intents[q]
    BY <1>3, <1>10, <1>1 DEF RowTypes, DecisionAccepted
  <2> QED
    BY <2>1, <2>2 DEF RoundRests
<1> QED
  BY <1>9, <1>10

LEMMA RoundStepPlays ==
  ASSUME RoundInv, CrashRoundStep(Rounds, CrashCalls), NEW q \in Rounds
  PROVE  RoundRests(q) \/ RoundIsPlayed(q)
<1>1. RowTypes /\ CallTypes /\ CallsFit
  BY DEF RoundInv
<1>2. ASSUME NEW r \in Rounds, CreateFixtureRound(r)
      PROVE  RoundRests(q) \/ RoundIsPlayed(q)
  <2>1. CASE q = r
    BY <1>1, <1>2, <2>1 DEF CreateFixtureRound, NoRound, RowTypes, RoundIsPlayed, CrashEnded
  <2>2. CASE q # r
    BY <1>1, <1>2, <2>2 DEF CreateFixtureRound, RowTypes, RoundRests
  <2> QED
    BY <2>1, <2>2
<1>3. ASSUME NEW r \in Rounds, SweepExpired(r)
      PROVE  RoundRests(q) \/ RoundIsPlayed(q)
  BY <1>1, <1>3, DefaultPlays DEF SweepExpired
<1>4. ASSUME NEW c \in CrashCalls, ResumeRound(c) \/ ResumeAfterConflict(c)
      PROVE  RoundRests(q) \/ RoundIsPlayed(q)
  <2>1. crashCall[c].round \in Rounds
    BY <1>1, <1>4 DEF CallsFit, CallFits, ResumeRound, ResumeAfterConflict
  <2>2. PICK r \in Rounds : r = crashCall[c].round
    BY <2>1
  <2>3. intents' = intents
    BY <1>4 DEF ResumeRound, ResumeAfterConflict
  <2>4. CASE CanDefault(r)
    <3>1. Defaulted(r)
      BY <1>4, <2>2, <2>4 DEF ResumeRound, ResumeAfterConflict
    <3> QED
      BY <3>1, <2>3, <2>4, <1>1, DefaultPlays
  <2>5. CASE ~ CanDefault(r)
    <3>1. round' = round /\ crashLog' = crashLog
      BY <1>4, <2>2, <2>5 DEF ResumeRound, ResumeAfterConflict
    <3> QED
      BY <3>1, <2>3 DEF RoundRests
  <2> QED
    BY <2>4, <2>5
<1>5. ASSUME NEW c \in CrashCalls, DecideRound(c)
      PROVE  RoundRests(q) \/ RoundIsPlayed(q)
  <2>1. crashCall[c].pc # "idle"
    BY <1>5 DEF DecideRound
  <2>2. CASE DecisionAccepted(c)
    BY <2>1, <2>2, DecisionPlays
  <2>3. CASE UNCHANGED <<round, crashLog, intents, exposure>>
    BY <2>3 DEF RoundRests
  <2> QED
    BY <1>5, <2>2, <2>3 DEF DecideRound, DecisionAccepted
<1>6. ASSUME UNCHANGED <<round, crashLog, intents, exposure>>
      PROVE  RoundRests(q) \/ RoundIsPlayed(q)
  BY <1>6 DEF RoundRests
<1>7. CASE \/ CrashTick \/ HouseRoomMoves
           \/ \E c \in CrashCalls : CrashCallDies(c) \/ \E r \in Rounds : BeginDecision(c, r)
  BY <1>6, <1>7 DEF CrashTick, HouseRoomMoves, CrashCallDies, BeginDecision
<1> QED
  BY <1>2, <1>3, <1>4, <1>5, <1>7 DEF CrashRoundStep

(***************************************************************************)
(* The plan of a settlement.                                               *)
(***************************************************************************)
PerAsset(bust) == IF bust /\ Liquidates THEN 4 ELSE 3

LEMMA PlanIsFixed ==
  ASSUME NEW r \in Rounds, round'[r].status = round[r].status, round'[r].pot = round[r].pot,
         crashLog'[r] = crashLog[r]
  PROVE  PlanOperations(r)' = PlanOperations(r)
<1>1. IsBust(r)' = IsBust(r)
  BY DEF IsBust
<1>2. PromisedAssets(r)' = PromisedAssets(r)
  BY DEF PromisedAssets
<1>3. AssetOperations(r)' = AssetOperations(r)
  BY <1>1 DEF AssetOperations
<1> QED
  BY <1>1, <1>2, <1>3 DEF PlanOperations

LEMMA AssetOperationsAre ==
  ASSUME NEW r
  PROVE  /\ Len(AssetOperations(r)) = PerAsset(IsBust(r))
         /\ AssetOperations(r)[1] = "PURCHASE" /\ AssetOperations(r)[2] = "OPEN"
         /\ AssetOperations(r)[3] = "TRANSFER"
         /\ PerAsset(IsBust(r)) = 4 => AssetOperations(r)[4] = "LIQUIDATE"
<1> DEFINE K == {"PURCHASE", "OPEN", "TRANSFER", "LIQUIDATE"}
           first == <<"PURCHASE", "OPEN", "TRANSFER">>
           last == IF IsBust(r) /\ Liquidates THEN <<"LIQUIDATE">> ELSE << >>
<1>1. first \in Seq(K) /\ Len(first) = 3
  OBVIOUS
<1>2. first[1] = "PURCHASE" /\ first[2] = "OPEN" /\ first[3] = "TRANSFER"
  OBVIOUS
<1>3. last \in Seq(K) /\ Len(last) = PerAsset(IsBust(r)) - 3 /\ (PerAsset(IsBust(r)) = 4 => last[1] = "LIQUIDATE")
  <2>1. CASE IsBust(r) /\ Liquidates
    <3>1. <<"LIQUIDATE">> \in Seq(K)
      OBVIOUS
    <3> QED
      BY <2>1, <3>1 DEF PerAsset
  <2>2. CASE ~ (IsBust(r) /\ Liquidates)
    <3>1. << >> \in Seq(K)
      OBVIOUS
    <3> QED
      BY <2>2, <3>1 DEF PerAsset
  <2> QED
    BY <2>1, <2>2
<1>4. AssetOperations(r) = first \o last
  BY DEF AssetOperations
<1>5. PerAsset(IsBust(r)) \in {3, 4}
  BY DEF PerAsset
<1> HIDE DEF first, last, K
<1>6. /\ Len(first \o last) = Len(first) + Len(last)
      /\ \A i \in 1..(Len(first) + Len(last)) :
           (first \o last)[i] = IF i <= Len(first) THEN first[i] ELSE last[i - Len(first)]
  BY <1>1, <1>3, ConcatProperties
<1> QED
  BY <1>1, <1>2, <1>3, <1>4, <1>5, <1>6

\* The operations of n assets, in groups, and the payment of what is left of the pot.
LEMMA PlanShape ==
  ASSUME NEW r, NEW n \in Nat, Cardinality(PromisedAssets(r)) = n
  PROVE  LET plan == PlanOperations(r)
             per == PerAsset(IsBust(r))
             paid == IF ~ IsBust(r) /\ round[r].pot > 0 THEN 1 ELSE 0 IN
         /\ plan \in Seq(OperationRows) /\ Len(plan) = per * n + paid
         /\ \A i \in 1..Len(plan) : plan[i].status = "PREPARED"
         /\ \A i \in 1..(per * n) : /\ plan[i].stage = ((i - 1) \div per) + 1
                                  /\ (plan[i].kind = "TRANSFER") = ((i - 1) % per = 2)
         /\ \A i \in 1..Len(plan) : i > per * n => plan[i].stage = 0
<1> DEFINE per == Len(AssetOperations(r))
           m == Cardinality(PromisedAssets(r))
           kinds == AssetOperations(r)
           Prepared(kind, stage) == [kind |-> kind, stage |-> stage, status |-> "PREPARED", mode |-> "NONE",
                                     signed |-> FALSE]
           body == [i \in 1..(per * m) |-> Prepared(kinds[((i - 1) % per) + 1], ((i - 1) \div per) + 1)]
           tail == IF ~ IsBust(r) /\ round[r].pot > 0 THEN <<Prepared("TRANSFER", 0)>> ELSE << >>
           paid == IF ~ IsBust(r) /\ round[r].pot > 0 THEN 1 ELSE 0
<1>1. PlanOperations(r) = body \o tail
  BY DEF PlanOperations
<1>0. per = PerAsset(IsBust(r)) /\ m = n
  BY AssetOperationsAre
<1> HIDE DEF per, kinds, m
<1>2. per \in {3, 4} /\ per * m \in Nat
  <2>1. per \in {3, 4}
    BY <1>0 DEF PerAsset
  <2> QED
    BY <2>1, <1>0
<1>3. ASSUME NEW i \in 1..(per * m)
      PROVE  /\ (i - 1) % per \in 0..(per - 1) /\ (i - 1) \div per \in Nat
             /\ kinds[((i - 1) % per) + 1] \in {"PURCHASE", "OPEN", "TRANSFER", "LIQUIDATE"}
             /\ (kinds[((i - 1) % per) + 1] = "TRANSFER") = ((i - 1) % per = 2)
  <2>1. (i - 1) % per \in 0..(per - 1) /\ (i - 1) \div per \in Nat
    <3>1. i - 1 \in Nat
      BY <1>2
    <3>2. CASE per = 3
      BY <3>1, <3>2
    <3>3. CASE per = 4
      BY <3>1, <3>3
    <3> QED
      BY <3>2, <3>3, <1>2
  <2>2. /\ kinds[1] = "PURCHASE" /\ kinds[2] = "OPEN" /\ kinds[3] = "TRANSFER"
        /\ per = 4 => kinds[4] = "LIQUIDATE"
    BY AssetOperationsAre, <1>0 DEF kinds
  <2>3. PICK h \in 0..3 : h = (i - 1) % per /\ (h = 3 => per = 4)
    BY <2>1, <1>2
  <2>4. /\ kinds[h + 1] \in {"PURCHASE", "OPEN", "TRANSFER", "LIQUIDATE"}
        /\ (kinds[h + 1] = "TRANSFER") = (h = 2)
    <3>1. CASE h = 0
      BY <3>1, <2>2
    <3>2. CASE h = 1
      BY <3>2, <2>2
    <3>3. CASE h = 2
      BY <3>3, <2>2
    <3>4. CASE h = 3
      BY <3>4, <2>2, <2>3
    <3> QED
      BY <3>1, <3>2, <3>3, <3>4
  <2> QED
    BY <2>1, <2>3, <2>4
<1>4. body \in Seq(OperationRows) /\ Len(body) = per * m
  <2>1. \A i \in 1..(per * m) : body[i] \in OperationRows
    BY <1>3 DEF OperationRows
  <2>2. body \in [1..(per * m) -> OperationRows]
    BY <2>1
  <2> HIDE DEF body
  <2> QED
    BY <2>2, <1>2
<1>5. tail \in Seq(OperationRows) /\ Len(tail) = paid
  <2>1. Prepared("TRANSFER", 0) \in OperationRows
    BY DEF OperationRows
  <2> HIDE DEF Prepared
  <2> QED
    BY <2>1
<1>6. \A i \in 1..(per * m) : /\ body[i].status = "PREPARED" /\ body[i].stage = ((i - 1) \div per) + 1
                           /\ (body[i].kind = "TRANSFER") = ((i - 1) % per = 2)
  BY <1>3
<1>7. \A i \in 1..Len(tail) : tail[i].status = "PREPARED" /\ tail[i].stage = 0
  OBVIOUS
<1> HIDE DEF body, tail, paid, Prepared
<1> DEFINE plan == body \o tail
<1>8. /\ plan \in Seq(OperationRows) /\ Len(plan) = per * m + paid
      /\ \A i \in 1..(per * m) : plan[i] = body[i]
      /\ \A i \in 1..Len(plan) : i > per * m => plan[i] = tail[i - per * m] /\ i - per * m \in 1..Len(tail)
  <2> DEFINE size == per * m
  <2>1. size \in Nat /\ Len(body) = size /\ Len(tail) \in Nat
    BY <1>2, <1>4, <1>5
  <2>2. /\ plan \in Seq(OperationRows) /\ Len(plan) = Len(body) + Len(tail)
        /\ \A i \in 1..Len(plan) : plan[i] = IF i <= Len(body) THEN body[i] ELSE tail[i - Len(body)]
    BY <1>4, <1>5, ConcatProperties
  <2> HIDE DEF size, plan
  <2>3. \A i \in 1..size : plan[i] = body[i]
    BY <2>1, <2>2
  <2>4. \A i \in 1..Len(plan) : i > size => plan[i] = tail[i - size] /\ i - size \in 1..Len(tail)
    BY <2>1, <2>2
  <2> QED
    BY <2>1, <2>2, <2>3, <2>4, <1>5 DEF size
<1> HIDE DEF plan
<1>9. \A i \in 1..Len(plan) : plan[i].status = "PREPARED"
  <2> DEFINE size == per * m
  <2>1. size \in Nat
    BY <1>2
  <2>2. ASSUME NEW i \in 1..Len(plan)
        PROVE  plan[i].status = "PREPARED"
    <3>1. CASE i \in 1..size
      BY <3>1, <1>6, <1>8
    <3>2. CASE i > size
      BY <3>2, <1>7, <1>8
    <3> HIDE DEF size
    <3> QED
      BY <3>1, <3>2, <2>1, <2>2
  <2> QED
    BY <2>2
<1>10. \A i \in 1..Len(plan) : i > per * m => plan[i].stage = 0
  BY <1>7, <1>8
<1>11. \A i \in 1..(per * m) : /\ plan[i].stage = ((i - 1) \div per) + 1
                            /\ (plan[i].kind = "TRANSFER") = ((i - 1) % per = 2)
  BY <1>6, <1>8
<1>12. PlanOperations(r) = plan /\ paid = IF ~ IsBust(r) /\ round[r].pot > 0 THEN 1 ELSE 0
  BY <1>1 DEF plan, paid
<1> QED
  BY <1>0, <1>8, <1>9, <1>10, <1>11, <1>12

\* The assets of a round are those of the stages it won, and each has its intent.
AssetCount(row) == IF WonTheLast(row) THEN row.stage ELSE row.stage - 1

LEMMA PromisedAre ==
  ASSUME RowTypes, NEW r \in Rounds, round[r].status # "NONE",
         LedgerFits(round[r], crashLog[r]), MoneyFits(round[r], intents[r], exposure[r])
  PROVE  LET n == AssetCount(round[r]) IN
         /\ n \in Nat /\ n <= Len(CrashStages)
         /\ intents[r] = 1..n /\ PromisedAssets(r) = 1..n
         /\ IsFiniteSet(1..n) /\ Cardinality(1..n) = n
<1> DEFINE n == AssetCount(round[r])
<1>1. PICK row \in RoundRows : row = round[r]
  BY DEF RowTypes
<1>2. PICK log \in Seq(Transitions) : log = crashLog[r]
  BY DEF RowTypes
<1>3. row.stage \in 1..CrashRisk.maxStage /\ CrashRisk.maxStage \in Nat /\ CrashRisk.maxStage <= Len(CrashStages)
  BY <1>1, CrashConstants, RuleTypes DEF LedgerFits, ValidStateRules
<1>4. row.stage \in Nat \ {0} /\ Len(CrashStages) \in Nat /\ row.stage <= Len(CrashStages)
  <2>1. PICK max \in Nat : max = CrashRisk.maxStage
    BY <1>3
  <2>2. PICK len \in Nat : len = Len(CrashStages)
    BY CrashConstants, LenProperties
  <2> QED
    BY <1>3, <2>1, <2>2
<1>5. n = IF WonTheLast(row) THEN row.stage ELSE row.stage - 1
  BY <1>1 DEF AssetCount
<1>6. n \in Nat /\ n <= Len(CrashStages)
  BY <1>4, <1>5
<1>7. intents[r] = 1..n
  BY DEF MoneyFits, AssetCount
<1>8. /\ Len(log) = IF row.status = "ACTIVE" THEN row.stage ELSE row.stage + 1
      /\ \A i \in 1..row.stage : log[i].asset = i - 1
      /\ row.status # "ACTIVE" => log[row.stage + 1].asset = IF WonTheLast(row) THEN row.stage ELSE 0
  BY <1>1, <1>2 DEF LedgerFits
<1>9. DOMAIN log = 1..Len(log)
  BY <1>2
<1>10. \A i \in DOMAIN log : log[i].asset \in 0..n
  <2>1. ASSUME NEW i \in DOMAIN log
        PROVE  log[i].asset \in 0..n
    <3>1. CASE i \in 1..row.stage
      BY <3>1, <1>4, <1>5, <1>8
    <3>2. CASE i \notin 1..row.stage
      BY <3>2, <1>4, <1>5, <1>6, <1>8, <1>9
    <3> QED
      BY <3>1, <3>2
  <2> QED
    BY <2>1
<1>11. \A s \in 1..n : \E i \in DOMAIN log : log[i].asset = s
  <2>1. ASSUME NEW s \in 1..n
        PROVE  \E i \in DOMAIN log : log[i].asset = s
    <3>1. s + 1 \in DOMAIN log
      BY <1>4, <1>5, <1>8, <1>9 DEF WonTheLast
    <3>2. log[s + 1].asset = s
      <4>1. CASE s + 1 \in 1..row.stage
        BY <4>1, <1>8, <1>4
      <4>2. CASE s + 1 \notin 1..row.stage
        <5>1. s = row.stage /\ WonTheLast(row)
          BY <4>2, <1>4, <1>5
        <5> QED
          BY <5>1, <1>8 DEF WonTheLast
      <4> QED
        BY <4>1, <4>2
    <3> QED
      BY <3>1, <3>2
  <2> QED
    BY <2>1
<1> HIDE DEF n
<1>12. {log[i].asset : i \in DOMAIN log} \ {0} = 1..n
  BY <1>6, <1>10, <1>11
<1>13. PromisedAssets(r) = 1..n
  BY <1>2, <1>12 DEF PromisedAssets
<1>14. IsFiniteSet(1..n) /\ Cardinality(1..n) = n
  BY <1>6, Numbered
<1> QED
  BY <1>6, <1>7, <1>13, <1>14 DEF n

\* Groups of per operations, the third of each the transfer, cover the stages in order.
LEMMA GroupsCover ==
  ASSUME NEW n \in Nat, NEW per \in {3, 4}
  PROVE  {((i - 1) \div per) + 1 : i \in {j \in 1..(per * n) : (j - 1) % per = 2}} = 1..n
<1>1. CASE per = 3
  <2>1. \A i \in 1..(3 * n) : ((i - 1) \div 3) + 1 \in 1..n
    OBVIOUS
  <2>2. ASSUME NEW s \in 1..n
        PROVE  LET i == 3 * (s - 1) + 3 IN i \in 1..(3 * n) /\ (i - 1) % 3 = 2 /\ s = ((i - 1) \div 3) + 1
    OBVIOUS
  <2> QED
    BY <2>1, <2>2, <1>1
<1>2. CASE per = 4
  <2>1. \A i \in 1..(4 * n) : ((i - 1) \div 4) + 1 \in 1..n
    OBVIOUS
  <2>2. ASSUME NEW s \in 1..n
        PROVE  LET i == 4 * (s - 1) + 3 IN i \in 1..(4 * n) /\ (i - 1) % 4 = 2 /\ s = ((i - 1) \div 4) + 1
    OBVIOUS
  <2> QED
    BY <2>1, <2>2, <1>2
<1> QED
  BY <1>1, <1>2

\* The assets of the plan's operations that send one away.
Sent(plan) == {plan[i].stage : i \in {j \in 1..Len(plan) : plan[j].kind = "TRANSFER" /\ plan[j].stage # 0}}

LEMMA PlanOfRound ==
  ASSUME RoundInv, NEW r \in Rounds, round[r].status # "NONE"
  PROVE  LET plan == PlanOperations(r) IN
         /\ AssetsVerified(r)
         /\ plan \in Seq(OperationRows) /\ Len(plan) <= MaxOperations
         /\ \A i \in 1..Len(plan) : plan[i].status = "PREPARED"
         /\ IsFiniteSet(intents[r]) /\ Cardinality(intents[r]) * 3 <= Len(plan)
         /\ IsBust(r) => Sent(plan) = intents[r]
<1> DEFINE n == AssetCount(round[r])
           per == PerAsset(IsBust(r))
           paid == IF ~ IsBust(r) /\ round[r].pot > 0 THEN 1 ELSE 0
<1>1. RowTypes /\ LedgerFits(round[r], crashLog[r]) /\ MoneyFits(round[r], intents[r], exposure[r])
  BY DEF RoundInv, RowsFit, RoundFits
<1>2. /\ n \in Nat /\ n <= Len(CrashStages)
      /\ intents[r] = 1..n /\ PromisedAssets(r) = 1..n
      /\ IsFiniteSet(1..n) /\ Cardinality(1..n) = n
  BY <1>1, PromisedAre
<1>3. per \in {3, 4}
  BY DEF PerAsset
<1>4. paid \in {0, 1}
  OBVIOUS
<1>5. IsBust(r) => paid = 0
  OBVIOUS
<1>6. Len(CrashStages) \in Nat /\ MaxOperations = 4 * Len(CrashStages) + 1
  BY CrashConstants DEF MaxOperations
<1> HIDE DEF n
<1>7. PICK plan \in Seq(OperationRows) :
        /\ plan = PlanOperations(r) /\ Len(plan) = per * n + paid
        /\ \A i \in 1..Len(plan) : plan[i].status = "PREPARED"
        /\ \A i \in 1..(per * n) : /\ plan[i].stage = ((i - 1) \div per) + 1
                                 /\ (plan[i].kind = "TRANSFER") = ((i - 1) % per = 2)
  BY <1>2, PlanShape
<1> HIDE DEF per, paid
<1>8. Len(plan) <= MaxOperations /\ n * 3 <= Len(plan)
  <2>1. CASE per = 3
    BY <2>1, <1>2, <1>4, <1>6, <1>7
  <2>2. CASE per = 4
    BY <2>2, <1>2, <1>4, <1>6, <1>7
  <2> QED
    BY <2>1, <2>2, <1>3
<1>9. ASSUME IsBust(r)
      PROVE  Sent(plan) = 1..n
  <2>1. PICK m \in Nat : m = per * n
    BY <1>2, <1>3
  <2>2. Len(plan) = m
    BY <1>5, <1>7, <1>9, <2>1
  <2>3. \A i \in 1..m : ((i - 1) \div per) + 1 # 0
    <3>1. CASE per = 3
      BY <3>1
    <3>2. CASE per = 4
      BY <3>2
    <3> QED
      BY <3>1, <3>2, <1>3
  <2>4. \A i \in 1..m : /\ plan[i].stage = ((i - 1) \div per) + 1
                      /\ (plan[i].kind = "TRANSFER" /\ plan[i].stage # 0) = ((i - 1) % per = 2)
    BY <1>7, <2>1, <2>3
  <2>5. {j \in 1..m : plan[j].kind = "TRANSFER" /\ plan[j].stage # 0} = {j \in 1..m : (j - 1) % per = 2}
    BY <2>4
  <2>6. Sent(plan) = {((i - 1) \div per) + 1 : i \in {j \in 1..m : (j - 1) % per = 2}}
    <3>1. Sent(plan) = {plan[i].stage : i \in {j \in 1..m : plan[j].kind = "TRANSFER" /\ plan[j].stage # 0}}
      BY <2>2 DEF Sent
    <3>2. Sent(plan) = {plan[i].stage : i \in {j \in 1..m : (j - 1) % per = 2}}
      BY <3>1, <2>5
    <3>3. \A i \in {j \in 1..m : (j - 1) % per = 2} : plan[i].stage = ((i - 1) \div per) + 1
      BY <2>4
    <3> QED
      BY <3>2, <3>3
  <2> QED
    BY <2>1, <2>6, <1>2, <1>3, GroupsCover
<1> QED
  BY <1>2, <1>7, <1>8, <1>9 DEF AssetsVerified

(***************************************************************************)
(* Steps of a settlement: what they leave alone.                           *)
(***************************************************************************)
\* A step that marks the round of a settlement keeps the rounds as they fit.
Marks(r, mark) == round' = [round EXCEPT ![r].settlement = mark]
RowsBeside == <<crashLog, intents, exposure, crashCall, crashTime>>

LEMMA RoundMarked ==
  ASSUME RoundInv, NEW r \in Rounds, round[r].status \in CrashEnded,
         NEW mark \in {"PENDING", "RECOVERY_REQUIRED", "SETTLED"}, Marks(r, mark), UNCHANGED RowsBeside
  PROVE  /\ RoundInv'
         /\ round'[r].settlement = mark /\ round'[r].status = round[r].status /\ round'[r].pot = round[r].pot
         /\ \A q \in Rounds \ {r} : round'[q] = round[q]
<1>1. RowTypes /\ RowsFit /\ ReservedAmount(Reserved) <= CrashRisk.maxWallet /\ CallTypes /\ CallsFit
  BY DEF RoundInv
<1>2. PICK row \in RoundRows : row = round[r]
  BY <1>1 DEF RowTypes
<1>3. PICK x \in RoundRows : x = [row EXCEPT !.settlement = mark]
  BY DEF RoundRows
<1>4. /\ x.settlement = mark /\ x.status = row.status /\ x.stage = row.stage /\ x.version = row.version
      /\ x.pot = row.pot /\ x.deadline = row.deadline /\ x.expires = row.expires
  BY <1>3 DEF RoundRows
<1>5. round' = [round EXCEPT ![r] = x]
  BY <1>1, <1>2, <1>3 DEF Marks, RowTypes
<1>6. /\ round'[r] = x /\ \A q \in Rounds \ {r} : round'[q] = round[q]
      /\ round' \in [Rounds -> RoundRows]
  BY <1>1, <1>5 DEF RowTypes
<1>7. crashLog' = crashLog /\ intents' = intents /\ exposure' = exposure /\ crashCall' = crashCall
      /\ crashTime' = crashTime
  BY DEF RowsBeside
<1>8. RowTypes'
  BY <1>1, <1>6, <1>7 DEF RowTypes
<1>9. row.status \notin {"NONE", "ACTIVE"} /\ x.status \notin {"NONE", "ACTIVE"}
  BY <1>2, <1>4 DEF CrashEnded
<1>10. RoundFits(x, crashLog[r], intents[r], exposure[r])
  <2>1. RoundFits(row, crashLog[r], intents[r], exposure[r])
    BY <1>1, <1>2 DEF RowsFit
  <2>2. LedgerFits(row, crashLog[r]) /\ MoneyFits(row, intents[r], exposure[r])
    BY <2>1, <1>9 DEF RoundFits
  <2>3. LedgerFits(x, crashLog[r])
    BY <2>2, <1>4 DEF LedgerFits, WonTheLast
  <2>4. MoneyFits(x, intents[r], exposure[r])
    BY <2>2, <1>4, <1>9 DEF MoneyFits, WonTheLast
  <2> QED
    BY <2>3, <2>4, <1>9 DEF RoundFits
<1>11. RowsFit'
  <2>1. ASSUME NEW q \in Rounds
        PROVE  RoundFits(round'[q], crashLog[q], intents[q], exposure[q])
    BY <1>1, <1>6, <1>10 DEF RowsFit
  <2> QED
    BY <2>1, <1>7 DEF RowsFit
<1>12. ReservedAmount(Reserved)' = ReservedAmount(Reserved)
  BY <1>7, ReservedIsHolding
<1>13. \A q \in Rounds : round'[q].status = "NONE" => round[q].status = "NONE"
  BY <1>2, <1>4, <1>6
<1>14. CallTypes' /\ CallsFit'
  BY <1>1, <1>7, <1>13, CallsStayAsTheyAre DEF CallTypes
<1> QED
  BY <1>1, <1>2, <1>4, <1>6, <1>8, <1>11, <1>12, <1>14 DEF RoundInv

LEMMA RoundsStay ==
  ASSUME RoundInv, UNCHANGED crashVars
  PROVE  RoundInv'
<1>1. RowsKept
  BY RowsUnwritten DEF crashVars
<1>2. CallTypes' /\ CallsFit'
  BY DEF RoundInv, CallTypes, CallsFit, crashVars
<1> QED
  BY <1>1, <1>2, RoundInvFromParts

\* What was planned stays planned, and what was done stays done.
RowProgresses(r) ==
  /\ settle[r].status # "NONE" =>
       /\ settle'[r].status # "NONE" /\ Len(settle'[r].ops) = Len(settle[r].ops)
       /\ \A i \in 1..Len(settle[r].ops) : FinalIn(settle[r].ops, i) => FinalIn(settle'[r].ops, i)
  /\ \A i \in 1..MaxOperations : effect[r][i] = "applied" => effect'[r][i] = "applied"
Effects == [1..MaxOperations -> {"none", "sent", "applied"}]

\* What is known of the settlement of r after a step that writes it.
SettlementWritten(r) ==
  /\ settle' \in [Rounds -> SettlementRows] /\ effect' \in [Rounds -> Effects]
  /\ forfeited' \in [Rounds -> SUBSET Nat]
  /\ \A q \in Rounds \ {r} : /\ settle'[q] = settle[q] /\ effect'[q] = effect[q]
                             /\ forfeited'[q] = forfeited[q] /\ round'[q] = round[q]
  /\ crashLog' = crashLog /\ intents' = intents
  /\ round'[r].status = round[r].status /\ round'[r].pot = round[r].pot
  /\ SettlementFits(settle'[r], round'[r], forfeited'[r], intents[r], PlanOperations(r), effect'[r])
  /\ RowProgresses(r)

LEMMA SettlersStillFit ==
  ASSUME \A q \in Rounds : RowProgresses(q), NEW call,
         \A q \in Rounds : settle[q].status # "NONE" => Len(settle[q].ops) \in Nat /\ Len(settle[q].ops) <= MaxOperations,
         call.op \in Nat, SettlerFits(call, settle, effect)
  PROVE  SettlerFits(call, settle', effect')
<1>1. CASE call.pc = "idle"
  BY <1>1 DEF SettlerFits
<1>2. CASE call.pc # "idle"
  <2>1. PICK r \in Rounds : r = call.round
    BY <1>2 DEF SettlerFits
  <2>2. settle[r].status # "NONE" /\ Len(settle[r].ops) \in Nat /\ Len(settle[r].ops) <= MaxOperations
    BY <1>2, <2>1 DEF SettlerFits
  <2>3. /\ settle'[r].status # "NONE" /\ Len(settle'[r].ops) = Len(settle[r].ops)
        /\ \A i \in 1..Len(settle[r].ops) : FinalIn(settle[r].ops, i) => FinalIn(settle'[r].ops, i)
        /\ \A i \in 1..MaxOperations : effect[r][i] = "applied" => effect'[r][i] = "applied"
    BY <2>2 DEF RowProgresses
  <2>4. call.pc \in {"operation", "execute", "finalize", "recover", "settle"} =>
          call.op >= 1 /\ \A j \in 1..(call.op - 1) : j <= Len(settle[r].ops) /\ FinalIn(settle[r].ops, j)
    BY <1>2, <2>1 DEF SettlerFits
  <2>5. call.pc \in {"operation", "execute", "finalize", "recover", "settle"} =>
          call.op >= 1 /\ \A j \in 1..(call.op - 1) : j <= Len(settle'[r].ops) /\ FinalIn(settle'[r].ops, j)
    BY <2>2, <2>3, <2>4
  <2>6. call.pc \in {"execute", "finalize", "recover"} => call.op <= Len(settle'[r].ops)
    BY <1>2, <2>1, <2>3 DEF SettlerFits
  <2>7. call.pc = "finalize" => effect'[r][call.op] = "applied"
    <3>1. SUFFICES ASSUME call.pc = "finalize" PROVE effect'[r][call.op] = "applied"
      OBVIOUS
    <3>2. effect[r][call.op] = "applied" /\ call.op <= Len(settle[r].ops)
      BY <1>2, <2>1, <3>1 DEF SettlerFits
    <3>3. call.op \in 1..MaxOperations
      BY <2>2, <2>4, <3>1, <3>2, CrashConstants DEF MaxOperations
    <3> QED
      BY <2>3, <3>2, <3>3
  <2> QED
    BY <1>2, <2>1, <2>3, <2>5, <2>6, <2>7 DEF SettlerFits
<1> QED
  BY <1>1, <1>2

LEMMA SettlementKept ==
  ASSUME SettlementInv, NEW r \in Rounds, SettlementWritten(r),
         settler' \in [Settlers -> SettlerRows],
         \A v \in Settlers : settler'[v] = settler[v] \/ SettlerFits(settler'[v], settle', effect')
  PROVE  SettlementInv'
<1>1. SettlementTypes'
  BY DEF SettlementTypes, SettlementWritten, Effects
<1>2. ASSUME NEW q \in Rounds
      PROVE  SettlementFits(settle[q], round[q], forfeited[q], intents[q], PlanOperations(q), effect[q])'
  <2>1. PlanOperations(q)' = PlanOperations(q)
    BY PlanIsFixed DEF SettlementWritten
  <2>2. CASE q = r
    BY <2>1, <2>2 DEF SettlementWritten
  <2>3. CASE q # r
    <3>1. SettlementFits(settle[q], round[q], forfeited[q], intents[q], PlanOperations(q), effect[q])
      BY DEF SettlementInv
    <3>2. settle'[q] = settle[q] /\ round'[q] = round[q] /\ forfeited'[q] = forfeited[q]
          /\ intents'[q] = intents[q] /\ effect'[q] = effect[q]
      BY <2>3 DEF SettlementWritten
    <3> QED
      BY <2>1, <3>1, <3>2
  <2> QED
    BY <2>2, <2>3
<1>3. ASSUME NEW q \in Rounds
      PROVE  RowProgresses(q)
  <2>1. CASE q = r
    BY <2>1 DEF SettlementWritten
  <2>2. CASE q # r
    BY <2>2 DEF SettlementWritten, RowProgresses
  <2> QED
    BY <2>1, <2>2
<1>4. ASSUME NEW q \in Rounds, settle[q].status # "NONE"
      PROVE  Len(settle[q].ops) \in Nat /\ Len(settle[q].ops) <= MaxOperations
  <2>1. SettlementFits(settle[q], round[q], forfeited[q], intents[q], PlanOperations(q), effect[q])
    BY DEF SettlementInv
  <2>2. Len(settle[q].ops) = Len(PlanOperations(q)) /\ Len(PlanOperations(q)) <= MaxOperations
    BY <1>4, <2>1 DEF SettlementFits, PlanFollowed
  <2>3. settle[q].ops \in Seq(OperationRows)
    BY DEF SettlementInv, SettlementTypes, SettlementRows
  <2> QED
    BY <2>2, <2>3, LenProperties
<1>5. ASSUME NEW v \in Settlers
      PROVE  SettlerFits(settler'[v], settle', effect')
  <2>1. SettlerFits(settler[v], settle, effect) /\ settler[v].op \in Nat
    BY DEF SettlementInv, SettlementTypes, SettlerRows
  <2>2. SettlerFits(settler[v], settle', effect')
    BY <1>3, <1>4, <2>1, SettlersStillFit
  <2> QED
    BY <2>2
<1> QED
  BY <1>1, <1>2, <1>5 DEF SettlementInv

LEMMA NothingWritten ==
  ASSUME SettlementInv, NEW r \in Rounds, UNCHANGED <<crashVars, settle, effect, forfeited>>
  PROVE  SettlementWritten(r)
<1>1. SettlementFits(settle[r], round[r], forfeited[r], intents[r], PlanOperations(r), effect[r])
  BY DEF SettlementInv
<1>2. /\ settle' = settle /\ effect' = effect /\ forfeited' = forfeited
      /\ round' = round /\ crashLog' = crashLog /\ intents' = intents
  BY DEF crashVars
<1>3. /\ settle' \in [Rounds -> SettlementRows] /\ effect' \in [Rounds -> Effects]
      /\ forfeited' \in [Rounds -> SUBSET Nat]
  BY <1>2 DEF SettlementInv, SettlementTypes, Effects
<1>4. RowProgresses(r)
  BY <1>2 DEF RowProgresses
<1> QED
  BY <1>1, <1>2, <1>3, <1>4 DEF SettlementWritten

\* A step that writes the lease alone.
LEMMA LeaseWritten ==
  ASSUME SettlementInv, NEW r \in Rounds, settle[r].status # "NONE",
         NEW x \in SettlementRows,
         x.status = settle[r].status, x.ops = settle[r].ops, x.count = settle[r].count,
         settle' \in [Rounds -> SettlementRows], settle'[r] = x,
         \A q \in Rounds \ {r} : settle'[q] = settle[q],
         UNCHANGED <<crashVars, effect, forfeited>>
  PROVE  SettlementWritten(r)
<1>1. SettlementFits(settle[r], round[r], forfeited[r], intents[r], PlanOperations(r), effect[r])
  BY DEF SettlementInv
<1>2. /\ effect' = effect /\ forfeited' = forfeited
      /\ round' = round /\ crashLog' = crashLog /\ intents' = intents
  BY DEF crashVars
<1>3. effect' \in [Rounds -> Effects] /\ forfeited' \in [Rounds -> SUBSET Nat]
  BY <1>2 DEF SettlementInv, SettlementTypes, Effects
<1>4. CountFits(settle'[r])
  BY <1>1 DEF SettlementFits, CountFits
<1>5. SettlementFits(settle'[r], round'[r], forfeited'[r], intents[r], PlanOperations(r), effect'[r])
  BY <1>1, <1>2, <1>4 DEF SettlementFits
<1>6. RowProgresses(r)
  BY <1>2 DEF RowProgresses
<1> QED
  BY <1>2, <1>3, <1>5, <1>6 DEF SettlementWritten

\* The settler that takes a step is the only one whose call moves.
SettlerMoves(w, call) == settler' = [settler EXCEPT ![w] = call]

LEMMA SettlerMoved ==
  ASSUME SettlementInv, NEW w \in Settlers, NEW call \in SettlerRows, SettlerMoves(w, call),
         SettlerFits(call, settle', effect')
  PROVE  /\ settler' \in [Settlers -> SettlerRows]
         /\ \A v \in Settlers : settler'[v] = settler[v] \/ SettlerFits(settler'[v], settle', effect')
<1>1. settler \in [Settlers -> SettlerRows]
  BY DEF SettlementInv, SettlementTypes
<1>2. settler'[w] = call /\ \A v \in Settlers \ {w} : settler'[v] = settler[v]
  BY <1>1 DEF SettlerMoves
<1>3. settler' \in [Settlers -> SettlerRows]
  BY <1>1 DEF SettlerMoves
<1> QED
  BY <1>2, <1>3

LEMMA SettlerEnds ==
  ASSUME SettlementInv, NEW w \in Settlers, EndSettler(w)
  PROVE  /\ settler' \in [Settlers -> SettlerRows]
         /\ \A v \in Settlers : settler'[v] = settler[v] \/ SettlerFits(settler'[v], settle', effect')
<1>1. PICK call \in SettlerRows : call = SettlerIdle
  BY DEF SettlerRows, SettlerIdle
<1>2. SettlerFits(call, settle', effect')
  BY <1>1 DEF SettlerFits, SettlerIdle
<1>3. SettlerMoves(w, call)
  BY <1>1 DEF SettlerMoves, EndSettler
<1> QED
  BY <1>2, <1>3, SettlerMoved

LEMMA SettlerStays ==
  ASSUME SettlementInv, settler' = settler
  PROVE  /\ settler' \in [Settlers -> SettlerRows]
         /\ \A v \in Settlers : settler'[v] = settler[v] \/ SettlerFits(settler'[v], settle', effect')
BY DEF SettlementInv, SettlementTypes

\* A settler under way works on a settlement that exists.
LEMMA SettlerHas ==
  ASSUME SettlementInv, NEW w \in Settlers, settler[w].pc # "idle"
  PROVE  /\ settler[w] \in SettlerRows /\ settler[w].round \in Rounds
         /\ settle[settler[w].round] \in SettlementRows /\ settle[settler[w].round].status # "NONE"
         /\ SettlerFits(settler[w], settle, effect)
<1>1. SettlerFits(settler[w], settle, effect) /\ settler[w] \in SettlerRows
  BY DEF SettlementInv, SettlementTypes
<1>2. settler[w].round \in Rounds /\ settle[settler[w].round].status # "NONE"
  BY <1>1 DEF SettlerFits
<1> QED
  BY <1>1, <1>2 DEF SettlementInv, SettlementTypes

LEMMA ClaimStep ==
  ASSUME SettlementInv, NEW w \in Settlers, ClaimSettlement(w)
  PROVE  SettlementInv'
<1>1. PICK c \in SettlerRows : c = settler[w]
  BY DEF SettlementInv, SettlementTypes
<1>2. c.pc = "claim"
  BY <1>1 DEF ClaimSettlement
<1>3. PICK r \in Rounds : r = c.round
  BY <1>1, <1>2, SettlerHas
<1>4. settle[r].status # "NONE"
  BY <1>1, <1>2, <1>3, SettlerHas
<1>5. PICK row \in SettlementRows : row = settle[r]
  BY DEF SettlementInv, SettlementTypes
<1>6. settle \in [Rounds -> SettlementRows]
  BY DEF SettlementInv, SettlementTypes
<1>7. UNCHANGED <<crashVars, effect, forfeited>>
  BY DEF ClaimSettlement
<1>8. CASE row.status # "SETTLED" /\ (row.owner = NoSettler \/ row.expired)
  <2>1. PICK x \in SettlementRows : x = [row EXCEPT !.owner = w, !.expired = FALSE, !.version = row.version + 1]
    <3>1. row.version + 1 \in Nat
      BY DEF SettlementRows
    <3> QED
      BY <3>1 DEF SettlementRows
  <2>2. x.status = row.status /\ x.ops = row.ops /\ x.count = row.count
    BY <2>1 DEF SettlementRows
  <2>3. settle' = [settle EXCEPT ![r] = x]
    <3>1. SetSettlement(r, [settle[r] EXCEPT !.owner = w, !.expired = FALSE])
      BY <1>1, <1>3, <1>5, <1>8 DEF ClaimSettlement
    <3>2. [[row EXCEPT !.owner = w, !.expired = FALSE] EXCEPT !.version = row.version + 1] = x
      BY <2>1 DEF SettlementRows
    <3> QED
      BY <3>1, <3>2, <1>5 DEF SetSettlement
  <2>4. settle' \in [Rounds -> SettlementRows] /\ settle'[r] = x /\ \A q \in Rounds \ {r} : settle'[q] = settle[q]
    BY <1>6, <2>3
  <2>5. SettlementWritten(r)
    BY <1>4, <1>5, <1>7, <2>2, <2>4, LeaseWritten
  <2>6. PICK call \in SettlerRows : call = [c EXCEPT !.pc = "operation", !.op = 1]
    BY DEF SettlerRows
  <2>7. SettlerMoves(w, call)
    <3>1. settler' = [settler EXCEPT ![w].pc = "operation", ![w].op = 1]
      BY <1>1, <1>3, <1>5, <1>8 DEF ClaimSettlement
    <3> QED
      BY <3>1, <2>6, <1>1 DEF SettlerMoves, SettlementInv, SettlementTypes
  <2>8. call.pc = "operation" /\ call.round = r /\ call.op = 1
    BY <2>6, <1>3 DEF SettlerRows
  <2>9. SettlerFits(call, settle', effect')
    BY <2>8, <2>2, <2>4, <1>4, <1>5 DEF SettlerFits
  <2> QED
    BY <2>5, <2>7, <2>9, SettlerMoved, SettlementKept
<1>9. CASE ~ (row.status # "SETTLED" /\ (row.owner = NoSettler \/ row.expired))
  <2>1. EndSettler(w) /\ settle' = settle
    BY <1>1, <1>3, <1>5, <1>9 DEF ClaimSettlement
  <2>2. SettlementWritten(r)
    BY <2>1, <1>7, NothingWritten
  <2> QED
    BY <2>1, <2>2, SettlerEnds, SettlementKept
<1> QED
  BY <1>8, <1>9

\* The operations of a settlement that exists are planned, and no more than that.
LEMMA OperationsAre ==
  ASSUME SettlementInv, NEW r \in Rounds, settle[r].status # "NONE"
  PROVE  /\ settle[r].ops \in Seq(OperationRows) /\ Len(settle[r].ops) \in Nat
         /\ Len(settle[r].ops) <= MaxOperations /\ MaxOperations \in Nat
         /\ DOMAIN settle[r].ops = 1..Len(settle[r].ops)
         /\ PlanFollowed(settle[r].ops, PlanOperations(r), effect[r]) /\ round[r].status \in CrashEnded
<1>1. SettlementFits(settle[r], round[r], forfeited[r], intents[r], PlanOperations(r), effect[r])
  BY DEF SettlementInv
<1>2. PlanFollowed(settle[r].ops, PlanOperations(r), effect[r]) /\ round[r].status \in CrashEnded
  BY <1>1 DEF SettlementFits
<1>3. PICK ops \in Seq(OperationRows) : ops = settle[r].ops
  BY DEF SettlementInv, SettlementTypes, SettlementRows
<1>4. Len(ops) \in Nat /\ DOMAIN ops = 1..Len(ops)
  BY LenProperties
<1>5. Len(ops) <= MaxOperations
  BY <1>2, <1>3 DEF PlanFollowed
<1>6. MaxOperations \in Nat
  <2>1. PICK len \in Nat : len = Len(CrashStages)
    BY CrashConstants, LenProperties
  <2> QED
    BY <2>1 DEF MaxOperations
<1> QED
  BY <1>2, <1>3, <1>4, <1>5, <1>6

LEMMA ReadOperationStep ==
  ASSUME SettlementInv, NEW w \in Settlers, ReadSettlementOperation(w)
  PROVE  SettlementInv'
<1>1. PICK c \in SettlerRows : c = settler[w]
  BY DEF SettlementInv, SettlementTypes
<1>2. c.pc = "operation"
  BY <1>1 DEF ReadSettlementOperation
<1>3. PICK r \in Rounds : r = c.round
  BY <1>1, <1>2, SettlerHas
<1>4. settle[r].status # "NONE" /\ SettlerFits(c, settle, effect)
  BY <1>1, <1>2, <1>3, SettlerHas
<1>5. PICK n \in Nat : n = Len(settle[r].ops)
  BY <1>4, OperationsAre
<1>6. UNCHANGED <<crashVars, settle, effect, forfeited>>
  BY DEF ReadSettlementOperation
<1>7. settle' = settle /\ effect' = effect
  BY <1>6
<1>8. PICK i \in Nat : i = c.op
  BY DEF SettlerRows
<1>9. i >= 1 /\ \A j \in 1..(i - 1) : j <= n /\ FinalIn(settle[r].ops, j)
  BY <1>2, <1>3, <1>4, <1>5, <1>8 DEF SettlerFits
<1>10. settler \in [Settlers -> SettlerRows]
  BY DEF SettlementInv, SettlementTypes
<1>11. ASSUME NEW call \in SettlerRows, SettlerMoves(w, call), SettlerFits(call, settle', effect')
       PROVE  SettlementInv'
  <2>1. SettlementWritten(r)
    BY <1>6, NothingWritten
  <2> QED
    BY <2>1, <1>11, SettlerMoved, SettlementKept
<1> DEFINE moved ==
         CASE i > n -> [c EXCEPT !.pc = "settle"]
           [] i <= n /\ settle[r].ops[i].status = "FINALIZED" -> [c EXCEPT !.op = i + 1]
           [] i <= n /\ settle[r].ops[i].status # "FINALIZED" /\ effect[r][i] = "applied" ->
                [c EXCEPT !.pc = "finalize"]
           [] OTHER -> [c EXCEPT !.pc = AfterReconcile(settle[r].ops[i]), !.mode = "RECONCILE_ONLY",
                                 !.signed = FALSE]
<1> DEFINE moves == settler' = [settler EXCEPT ![w] = moved]
<1>12. moves \/ GotoSettler(w, "release")
  BY <1>1, <1>3, <1>5, <1>8, <1>10 DEF ReadSettlementOperation
<1>17. CASE GotoSettler(w, "release")
  <2>1. PICK call \in SettlerRows : call = [c EXCEPT !.pc = "release"]
    BY DEF SettlerRows
  <2>2. call.pc = "release" /\ call.round = r
    BY <2>1, <1>3 DEF SettlerRows
  <2>3. SettlerMoves(w, call)
    BY <2>1, <1>1, <1>10, <1>17 DEF SettlerMoves, GotoSettler
  <2>4. SettlerFits(call, settle', effect')
    BY <2>2, <1>4, <1>7 DEF SettlerFits
  <2> QED
    BY <2>3, <2>4, <1>11
<1>13. CASE moves /\ i > n
  <2>1. PICK call \in SettlerRows : call = [c EXCEPT !.pc = "settle"]
    BY DEF SettlerRows
  <2>2. call.pc = "settle" /\ call.round = r /\ call.op = i
    BY <2>1, <1>3, <1>8 DEF SettlerRows
  <2>3. SettlerMoves(w, call)
    <3>1. moved = call
      BY <2>1, <1>13
    <3> QED
      BY <3>1, <1>13 DEF SettlerMoves
  <2>4. SettlerFits(call, settle', effect')
    BY <2>2, <1>4, <1>5, <1>7, <1>9 DEF SettlerFits
  <2> QED
    BY <2>3, <2>4, <1>11
<1>14. CASE moves /\ i <= n /\ settle[r].ops[i].status = "FINALIZED"
  <2>1. PICK call \in SettlerRows : call = [c EXCEPT !.op = i + 1]
    <3>1. i + 1 \in Nat
      OBVIOUS
    <3> QED
      BY <3>1 DEF SettlerRows
  <2>2. call.pc = "operation" /\ call.round = r /\ call.op = i + 1
    BY <2>1, <1>2, <1>3 DEF SettlerRows
  <2>3. SettlerMoves(w, call)
    <3>1. ~ (i > n)
      BY <1>14
    <3>2. moved = call
      BY <2>1, <3>1, <1>14
    <3> HIDE DEF moved
    <3> QED
      BY <3>2, <1>14 DEF SettlerMoves
  <2>4. \A j \in 1..((i + 1) - 1) : j <= n /\ FinalIn(settle[r].ops, j)
    <3>1. ASSUME NEW j \in 1..i
          PROVE  j <= n /\ FinalIn(settle[r].ops, j)
      <4>1. CASE j = i
        BY <4>1, <1>14 DEF FinalIn
      <4>2. CASE j # i
        BY <4>2, <1>9
      <4> QED
        BY <4>1, <4>2
    <3> QED
      BY <3>1
  <2>5. SettlerFits(call, settle', effect')
    BY <2>2, <2>4, <1>4, <1>5, <1>7 DEF SettlerFits
  <2> QED
    BY <2>3, <2>5, <1>11
<1>15. CASE moves /\ i <= n /\ settle[r].ops[i].status # "FINALIZED" /\ effect[r][i] = "applied"
  <2>1. PICK call \in SettlerRows : call = [c EXCEPT !.pc = "finalize"]
    BY DEF SettlerRows
  <2>2. call.pc = "finalize" /\ call.round = r /\ call.op = i
    BY <2>1, <1>3, <1>8 DEF SettlerRows
  <2>3. SettlerMoves(w, call)
    <3>1. ~ (i > n)
      BY <1>15
    <3>2. moved = call
      BY <2>1, <3>1, <1>15
    <3> HIDE DEF moved
    <3> QED
      BY <3>2, <1>15 DEF SettlerMoves
  <2>4. SettlerFits(call, settle', effect')
    BY <2>2, <1>4, <1>5, <1>7, <1>9, <1>15 DEF SettlerFits
  <2> QED
    BY <2>3, <2>4, <1>11
<1>16. CASE moves /\ i <= n /\ settle[r].ops[i].status # "FINALIZED" /\ effect[r][i] # "applied"
  <2>1. PICK pc \in {"recover", "execute"} : pc = AfterReconcile(settle[r].ops[i])
    BY DEF AfterReconcile
  <2>2. PICK call \in SettlerRows : call = [c EXCEPT !.pc = pc, !.mode = "RECONCILE_ONLY", !.signed = FALSE]
    BY DEF SettlerRows
  <2>3. call.pc = pc /\ call.round = r /\ call.op = i /\ call.mode = "RECONCILE_ONLY"
    BY <2>2, <1>3, <1>8 DEF SettlerRows
  <2>4. SettlerMoves(w, call)
    <3>1. ~ (i > n)
      BY <1>16
    <3>2. moved = call
      BY <2>1, <2>2, <3>1, <1>16
    <3> HIDE DEF moved
    <3> QED
      BY <3>2, <1>16 DEF SettlerMoves
  <2>5. SettlerFits(call, settle', effect')
    BY <2>1, <2>3, <1>4, <1>5, <1>7, <1>9, <1>16 DEF SettlerFits
  <2> QED
    BY <2>4, <2>5, <1>11
<1> QED
  BY <1>12, <1>13, <1>14, <1>15, <1>16, <1>17

LEMMA ReleaseStep ==
  ASSUME SettlementInv, NEW w \in Settlers, ReleaseSettlement(w)
  PROVE  SettlementInv'
<1>1. settler[w].pc # "idle"
  BY DEF ReleaseSettlement
<1>2. PICK r \in Rounds : r = settler[w].round
  BY <1>1, SettlerHas
<1>3. settle[r].status # "NONE"
  BY <1>1, <1>2, SettlerHas
<1>4. PICK row \in SettlementRows : row = settle[r]
  BY DEF SettlementInv, SettlementTypes
<1>5. settle \in [Rounds -> SettlementRows]
  BY DEF SettlementInv, SettlementTypes
<1>6. UNCHANGED <<crashVars, effect, forfeited>> /\ EndSettler(w)
  BY DEF ReleaseSettlement
<1>7. CASE SetSettlement(r, [settle[r] EXCEPT !.owner = NoSettler, !.expired = FALSE])
  <2>1. PICK x \in SettlementRows :
          x = [row EXCEPT !.owner = NoSettler, !.expired = FALSE, !.version = row.version + 1]
    <3>1. row.version + 1 \in Nat
      BY DEF SettlementRows
    <3> QED
      BY <3>1 DEF SettlementRows
  <2>2. x.status = row.status /\ x.ops = row.ops /\ x.count = row.count
    BY <2>1 DEF SettlementRows
  <2>3. settle' = [settle EXCEPT ![r] = x]
    <3>1. [[row EXCEPT !.owner = NoSettler, !.expired = FALSE] EXCEPT !.version = row.version + 1] = x
      BY <2>1 DEF SettlementRows
    <3> QED
      BY <3>1, <1>4, <1>7 DEF SetSettlement
  <2>4. settle' \in [Rounds -> SettlementRows] /\ settle'[r] = x /\ \A q \in Rounds \ {r} : settle'[q] = settle[q]
    BY <1>5, <2>3
  <2>5. SettlementWritten(r)
    BY <1>3, <1>4, <1>6, <2>2, <2>4, LeaseWritten
  <2> QED
    BY <2>5, <1>6, SettlerEnds, SettlementKept
<1>8. CASE UNCHANGED settle
  <2>1. SettlementWritten(r)
    BY <1>6, <1>8, NothingWritten
  <2> QED
    BY <2>1, <1>6, SettlerEnds, SettlementKept
<1> QED
  BY <1>2, <1>7, <1>8 DEF ReleaseSettlement, SettlementReleased

LEMMA SettlerDiesStep ==
  ASSUME SettlementInv, NEW w \in Settlers, SettlerDies(w)
  PROVE  SettlementInv'
<1>1. settler[w].pc # "idle"
  BY DEF SettlerDies
<1>2. PICK r \in Rounds : r = settler[w].round
  BY <1>1, SettlerHas
<1>3. SettlementWritten(r)
  BY NothingWritten DEF SettlerDies
<1> QED
  BY <1>3, SettlerEnds, SettlementKept DEF SettlerDies

LEMMA LeaseExpiresStep ==
  ASSUME SettlementInv, NEW r \in Rounds, SettlementLeaseExpires(r)
  PROVE  SettlementInv'
<1>1. PICK row \in SettlementRows : row = settle[r]
  BY DEF SettlementInv, SettlementTypes
<1>2. settle[r].status # "NONE"
  <2>1. settle[r].owner # NoSettler
    BY DEF SettlementLeaseExpires
  <2>2. settle[r].status = "NONE" => settle[r] = NoSettlement
    BY DEF SettlementInv, SettlementFits
  <2> QED
    BY <2>1, <2>2 DEF NoSettlement
<1>3. PICK x \in SettlementRows : x = [row EXCEPT !.expired = TRUE]
  BY DEF SettlementRows
<1>4. x.status = row.status /\ x.ops = row.ops /\ x.count = row.count
  BY <1>3 DEF SettlementRows
<1>5. settle \in [Rounds -> SettlementRows]
  BY DEF SettlementInv, SettlementTypes
<1>6. settle' = [settle EXCEPT ![r] = x]
  BY <1>1, <1>3, <1>5 DEF SettlementLeaseExpires
<1>7. settle' \in [Rounds -> SettlementRows] /\ settle'[r] = x /\ \A q \in Rounds \ {r} : settle'[q] = settle[q]
  BY <1>5, <1>6
<1>8. SettlementWritten(r)
  BY <1>1, <1>2, <1>4, <1>7, LeaseWritten DEF SettlementLeaseExpires
<1> QED
  BY <1>8, SettlerStays, SettlementKept DEF SettlementLeaseExpires

\* The provider does something for one operation, whose predecessors are final.
Does(r, i, done) == effect' = [effect EXCEPT ![r][i] = done]

LEMMA EffectWritten ==
  ASSUME SettlementInv, NEW r \in Rounds, settle[r].status # "NONE",
         NEW i \in Nat, i \in 1..Len(settle[r].ops), NEW done \in {"none", "sent", "applied"}, Does(r, i, done),
         effect[r][i] = "applied" => done = "applied",
         done # "none" => \A j \in 1..(i - 1) : FinalIn(settle[r].ops, j),
         UNCHANGED <<crashVars, settle, forfeited>>
  PROVE  SettlementWritten(r) /\ effect'[r][i] = done
<1>1. SettlementFits(settle[r], round[r], forfeited[r], intents[r], PlanOperations(r), effect[r])
  BY DEF SettlementInv
<1>2. /\ settle' = settle /\ forfeited' = forfeited
      /\ round' = round /\ crashLog' = crashLog /\ intents' = intents
  BY DEF crashVars
<1>3. /\ settle \in [Rounds -> SettlementRows] /\ forfeited \in [Rounds -> SUBSET Nat]
      /\ effect \in [Rounds -> Effects]
  BY DEF SettlementInv, SettlementTypes, Effects
<1>4. PICK ops \in Seq(OperationRows) : ops = settle[r].ops
  BY <1>3 DEF SettlementRows
<1>5. PICK n \in Nat : n = Len(ops)
  BY LenProperties
<1>6. i \in 1..n /\ n <= MaxOperations /\ MaxOperations \in Nat
  BY <1>4, <1>5, OperationsAre
<1>7. i \in 1..MaxOperations
  BY <1>6
<1>8. PICK e \in Effects : e = effect[r]
  BY <1>3
<1>9. PICK x \in Effects : x = [e EXCEPT ![i] = done]
  BY <1>7 DEF Effects
<1>10. x[i] = done /\ \A k \in 1..MaxOperations : k # i => x[k] = e[k]
  BY <1>7, <1>9 DEF Effects
<1>11. effect' = [effect EXCEPT ![r] = x]
  BY <1>3, <1>8, <1>9 DEF Does
<1>12. effect'[r] = x /\ effect' \in [Rounds -> Effects] /\ \A q \in Rounds \ {r} : effect'[q] = effect[q]
  BY <1>3, <1>11
<1>13. PICK plan : plan = PlanOperations(r)
  OBVIOUS
<1>14. PlanFollowed(ops, plan, e)
  BY <1>4, <1>8, <1>13, OperationsAre
<1>15. ASSUME NEW k \in 1..n
       PROVE  /\ FinalIn(ops, k) => x[k] = "applied"
              /\ x[k] # "none" \/ ops[k].status = "RECOVERY_REQUIRED" => \A j \in 1..(k - 1) : FinalIn(ops, j)
  <2>1. /\ FinalIn(ops, k) => e[k] = "applied"
        /\ e[k] # "none" \/ ops[k].status = "RECOVERY_REQUIRED" => \A j \in 1..(k - 1) : FinalIn(ops, j)
    BY <1>5, <1>14 DEF PlanFollowed
  <2>2. CASE k = i
    BY <2>1, <2>2, <1>4, <1>8, <1>10
  <2>3. CASE k # i
    <3>1. k \in 1..MaxOperations
      BY <1>6
    <3> QED
      BY <3>1, <2>1, <2>3, <1>10
  <2> QED
    BY <2>2, <2>3
<1>16. \A k \in 1..MaxOperations : k > n => x[k] = "none"
  <2>1. \A k \in 1..MaxOperations : k > n => e[k] = "none" /\ k # i
    BY <1>5, <1>6, <1>14 DEF PlanFollowed
  <2> QED
    BY <2>1, <1>10
<1>17. PlanFollowed(ops, plan, x)
  BY <1>5, <1>14, <1>15, <1>16 DEF PlanFollowed
<1>18. SettlementFits(settle'[r], round'[r], forfeited'[r], intents[r], PlanOperations(r), effect'[r])
  BY <1>1, <1>2, <1>4, <1>12, <1>13, <1>17 DEF SettlementFits
<1>19. \A k \in 1..MaxOperations : effect[r][k] = "applied" => effect'[r][k] = "applied"
  BY <1>8, <1>10, <1>12
<1>20. RowProgresses(r)
  BY <1>2, <1>19 DEF RowProgresses
<1> QED
  BY <1>2, <1>3, <1>10, <1>12, <1>18, <1>20 DEF SettlementWritten

LEMMA EffectArrivesStep ==
  ASSUME SettlementInv, NEW r \in Rounds, EffectArrives(r)
  PROVE  SettlementInv'
<1>1. PICK i \in 1..MaxOperations : effect[r][i] = "sent" /\ effect' = [effect EXCEPT ![r][i] = "applied"]
  BY DEF EffectArrives
<1>2. SettlementFits(settle[r], round[r], forfeited[r], intents[r], PlanOperations(r), effect[r])
  BY DEF SettlementInv
<1>3. settle[r].status # "NONE"
  BY <1>1, <1>2 DEF SettlementFits
<1>4. PICK n \in Nat : n = Len(settle[r].ops)
  BY <1>3, OperationsAre
<1>5. MaxOperations \in Nat /\ PlanFollowed(settle[r].ops, PlanOperations(r), effect[r])
  BY <1>3, OperationsAre
<1>6. i \in Nat /\ i \in 1..n
  <2>1. i \in Nat /\ i >= 1
    BY <1>5
  <2>2. ~ (i > n)
    BY <1>1, <1>4, <1>5 DEF PlanFollowed
  <2> QED
    BY <2>1, <2>2
<1>7. \A j \in 1..(i - 1) : FinalIn(settle[r].ops, j)
  BY <1>1, <1>4, <1>5, <1>6 DEF PlanFollowed
<1>8. Does(r, i, "applied")
  BY <1>1 DEF Does
<1>9. SettlementWritten(r)
  BY <1>3, <1>4, <1>6, <1>7, <1>8, EffectWritten DEF EffectArrives
<1> QED
  BY <1>9, SettlerStays, SettlementKept DEF EffectArrives

\* The provider answers, says that nothing happened, or is not heard.
LEMMA ExecuteStep ==
  ASSUME SettlementInv, NEW w \in Settlers, ExecuteSettlement(w)
  PROVE  SettlementInv'
<1>1. PICK c \in SettlerRows : c = settler[w]
  BY DEF SettlementInv, SettlementTypes
<1>2. c.pc = "execute"
  BY <1>1 DEF ExecuteSettlement
<1>3. PICK r \in Rounds : r = c.round
  BY <1>1, <1>2, SettlerHas
<1>4. settle[r].status # "NONE" /\ SettlerFits(c, settle, effect)
  BY <1>1, <1>2, <1>3, SettlerHas
<1>5. PICK n \in Nat : n = Len(settle[r].ops)
  BY <1>4, OperationsAre
<1>6. PICK i \in Nat : i = c.op
  BY DEF SettlerRows
<1>7. i \in 1..n /\ \A j \in 1..(i - 1) : j <= n /\ FinalIn(settle[r].ops, j)
  <2>1. i >= 1 /\ i <= n /\ \A j \in 1..(i - 1) : j <= n /\ FinalIn(settle[r].ops, j)
    BY <1>2, <1>3, <1>4, <1>5, <1>6 DEF SettlerFits
  <2> QED
    BY <2>1
<1>8. settler \in [Settlers -> SettlerRows]
  BY DEF SettlementInv, SettlementTypes
<1>9. UNCHANGED <<crashVars, settle, forfeited>>
  BY DEF ExecuteSettlement
<1>10. ASSUME NEW done \in {"none", "sent", "applied"}, NEW pc \in {"finalize", "recover"},
              NEW mode \in {"NONE", "RETRYABLE", "RECONCILE_ONLY"}, NEW signed \in BOOLEAN,
              Does(r, i, done),
              settler' = [settler EXCEPT ![w].pc = pc, ![w].mode = mode, ![w].signed = signed],
              effect[r][i] = "applied" => done = "applied",
              pc = "finalize" => done = "applied", pc = "recover" => mode # "NONE"
       PROVE  SettlementInv'
  <2>1. SettlementWritten(r) /\ effect'[r][i] = done
    BY <1>4, <1>5, <1>7, <1>9, <1>10, EffectWritten
  <2>2. PICK call \in SettlerRows : call = [c EXCEPT !.pc = pc, !.mode = mode, !.signed = signed]
    BY DEF SettlerRows
  <2>3. call.pc = pc /\ call.round = r /\ call.op = i /\ call.mode = mode
    BY <2>2, <1>3, <1>6 DEF SettlerRows
  <2>4. SettlerMoves(w, call)
    BY <2>2, <1>1, <1>8, <1>10 DEF SettlerMoves
  <2>5. settle' = settle
    BY <1>9
  <2>6. SettlerFits(call, settle', effect')
    BY <2>1, <2>3, <2>5, <1>4, <1>5, <1>7, <1>10 DEF SettlerFits
  <2> QED
    BY <2>1, <2>4, <2>6, SettlerMoved, SettlementKept
<1>11. CASE /\ effect' = [effect EXCEPT ![r][i] = "applied"]
            /\ settler' = [settler EXCEPT ![w].pc = "finalize", ![w].mode = "NONE", ![w].signed = TRUE]
  <2>1. Does(r, i, "applied")
    BY <1>11 DEF Does
  <2> QED
    BY <2>1, <1>10, <1>11
<1>12. CASE /\ effect[r][i] = "none" /\ effect' = [effect EXCEPT ![r][i] = "none"]
            /\ settler' = [settler EXCEPT ![w].pc = "recover", ![w].mode = "RETRYABLE", ![w].signed = FALSE]
  <2>1. Does(r, i, "none")
    BY <1>12 DEF Does
  <2> QED
    BY <2>1, <1>10, <1>12
<1>13. CASE \E signed \in BOOLEAN : \E done \in {"sent", "applied"} :
              /\ effect[r][i] = "applied" => done = "applied"
              /\ effect' = [effect EXCEPT ![r][i] = done]
              /\ settler' = [settler EXCEPT ![w].pc = "recover", ![w].mode = "RECONCILE_ONLY", ![w].signed = signed]
  <2>1. PICK signed \in BOOLEAN, done \in {"sent", "applied"} :
              /\ effect[r][i] = "applied" => done = "applied"
              /\ effect' = [effect EXCEPT ![r][i] = done]
              /\ settler' = [settler EXCEPT ![w].pc = "recover", ![w].mode = "RECONCILE_ONLY", ![w].signed = signed]
    BY <1>13
  <2>2. Does(r, i, done)
    BY <2>1 DEF Does
  <2> QED
    BY <2>1, <2>2, <1>10
<1> QED
  BY <1>1, <1>3, <1>6, <1>11, <1>12, <1>13 DEF ExecuteSettlement

\* A step that writes one operation of a settlement that is not settled.
LEMMA OperationWritten ==
  ASSUME SettlementInv, NEW r \in Rounds, settle[r].status \notin {"NONE", "SETTLED"},
         NEW ops \in Seq(OperationRows), ops = settle[r].ops,
         NEW i \in 1..Len(ops), NEW o \in OperationRows,
         o.kind = ops[i].kind, o.stage = ops[i].stage,
         FinalIn(ops, i) => o.status = "FINALIZED", o.status = "FINALIZED" => effect[r][i] = "applied",
         \A j \in 1..(i - 1) : FinalIn(ops, j),
         NEW x \in SettlementRows, x.ops = [ops EXCEPT ![i] = o], x.status \notin {"NONE", "SETTLED"},
         CountFits(x),
         settle' \in [Rounds -> SettlementRows], settle'[r] = x,
         \A q \in Rounds \ {r} : settle'[q] = settle[q] /\ round'[q] = round[q],
         round'[r].status = round[r].status, round'[r].pot = round[r].pot, round'[r].settlement # "SETTLED",
         UNCHANGED <<crashLog, intents, effect, forfeited>>
  PROVE  SettlementWritten(r)
<1>1. SettlementFits(settle[r], round[r], forfeited[r], intents[r], PlanOperations(r), effect[r])
  BY DEF SettlementInv
<1>2. effect' = effect /\ forfeited' = forfeited /\ crashLog' = crashLog /\ intents' = intents
  OBVIOUS
<1>3. forfeited \in [Rounds -> SUBSET Nat] /\ effect \in [Rounds -> Effects]
  BY DEF SettlementInv, SettlementTypes, Effects
<1>4. PICK n \in Nat : n = Len(ops)
  BY LenProperties
<1>5. Len(x.ops) = n /\ \A j \in 1..n : x.ops[j] = IF j = i THEN o ELSE ops[j]
  BY <1>4, ExceptSeq
<1>6. PICK plan : plan = PlanOperations(r)
  OBVIOUS
<1>7. PICK done \in Effects : done = effect[r]
  BY <1>3
<1>8. PlanFollowed(ops, plan, done)
  BY <1>6, <1>7, OperationsAre
<1>9. ASSUME NEW k \in 1..n
      PROVE  /\ x.ops[k].kind = plan[k].kind /\ x.ops[k].stage = plan[k].stage
             /\ FinalIn(ops, k) => FinalIn(x.ops, k)
             /\ FinalIn(x.ops, k) => done[k] = "applied"
             /\ done[k] # "none" \/ x.ops[k].status = "RECOVERY_REQUIRED" => \A j \in 1..(k - 1) : FinalIn(ops, j)
  <2>1. /\ ops[k].kind = plan[k].kind /\ ops[k].stage = plan[k].stage
        /\ FinalIn(ops, k) => done[k] = "applied"
        /\ done[k] # "none" \/ ops[k].status = "RECOVERY_REQUIRED" => \A j \in 1..(k - 1) : FinalIn(ops, j)
    BY <1>4, <1>8 DEF PlanFollowed
  <2>2. CASE k = i
    BY <2>1, <2>2, <1>5, <1>7 DEF FinalIn
  <2>3. CASE k # i
    BY <2>1, <2>3, <1>5 DEF FinalIn
  <2> QED
    BY <2>2, <2>3
<1>10. ASSUME NEW k \in 1..n, done[k] # "none" \/ x.ops[k].status = "RECOVERY_REQUIRED", NEW j \in 1..(k - 1)
       PROVE  FinalIn(x.ops, j)
  <2>1. FinalIn(ops, j)
    BY <1>9, <1>10
  <2>2. j \in 1..n
    BY <1>4, <1>10
  <2> QED
    BY <1>9, <2>1, <2>2
<1>11. PlanFollowed(x.ops, plan, done)
  BY <1>4, <1>5, <1>8, <1>9, <1>10 DEF PlanFollowed
<1>12. round[r].status \in CrashEnded /\ forfeited[r] = {}
  BY <1>1 DEF SettlementFits
<1>13. SettlementFits(x, round'[r], forfeited[r], intents[r], plan, done)
  BY <1>11, <1>12 DEF SettlementFits
<1>14. RowProgresses(r)
  BY <1>2, <1>4, <1>5, <1>9 DEF RowProgresses
<1> QED
  BY <1>2, <1>3, <1>6, <1>7, <1>13, <1>14 DEF SettlementWritten

\* finalizeOperation counts an operation once.
LEMMA FinalizedCounts ==
  ASSUME NEW ops \in Seq(OperationRows), NEW i \in 1..Len(ops), ~ FinalIn(ops, i),
         NEW o \in OperationRows, o.status = "FINALIZED",
         NEW row \in SettlementRows, row.ops = ops, CountFits(row),
         NEW x \in SettlementRows, x.ops = [ops EXCEPT ![i] = o], x.count = row.count + 1
  PROVE  CountFits(x)
<1>1. PICK n \in Nat : n = Len(ops)
  BY LenProperties
<1>2. Len(x.ops) = n /\ \A j \in 1..n : x.ops[j] = IF j = i THEN o ELSE ops[j]
  BY <1>1, ExceptSeq
<1> DEFINE F == {j \in 1..n : FinalIn(ops, j)}
           G == {j \in 1..n : FinalIn(x.ops, j)}
<1>3. IsFiniteSet(F)
  <2>1. IsFiniteSet(1..n)
    BY Numbered
  <2> QED
    BY <2>1, FS_Subset
<1>4. G = F \cup {i} /\ i \notin F
  BY <1>1, <1>2 DEF FinalIn
<1>5. row.count = Cardinality(F)
  BY <1>1 DEF CountFits
<1>6. x.count = Cardinality(G)
  <2> HIDE DEF F, G
  <2>1. Cardinality(F \cup {i}) = Cardinality(F) + 1
    BY <1>3, <1>4, FS_AddElement
  <2> QED
    BY <2>1, <1>4, <1>5
<1> QED
  BY <1>2, <1>6 DEF CountFits

\* An operation that was not final before is not final because it needs recovery.
LEMMA RecoveryCounts ==
  ASSUME NEW ops \in Seq(OperationRows), NEW i \in 1..Len(ops),
         NEW o \in OperationRows, (o.status = "FINALIZED") = FinalIn(ops, i),
         NEW row \in SettlementRows, row.ops = ops, CountFits(row),
         NEW x \in SettlementRows, x.ops = [ops EXCEPT ![i] = o], x.count = row.count
  PROVE  CountFits(x)
<1>1. PICK n \in Nat : n = Len(ops)
  BY LenProperties
<1>2. Len(x.ops) = n /\ \A j \in 1..n : x.ops[j] = IF j = i THEN o ELSE ops[j]
  BY <1>1, ExceptSeq
<1>3. \A j \in 1..n : FinalIn(x.ops, j) <=> FinalIn(ops, j)
  BY <1>2 DEF FinalIn
<1>4. {j \in 1..n : FinalIn(x.ops, j)} = {j \in 1..n : FinalIn(ops, j)}
  BY <1>3
<1> QED
  BY <1>1, <1>2, <1>4 DEF CountFits

LEMMA FinalizeOperationStep ==
  ASSUME SettlementInv, NEW w \in Settlers, FinalizeSettlementOperation(w)
  PROVE  SettlementInv'
<1>1. PICK c \in SettlerRows : c = settler[w]
  BY DEF SettlementInv, SettlementTypes
<1>2. c.pc = "finalize"
  BY <1>1 DEF FinalizeSettlementOperation
<1>3. PICK r \in Rounds : r = c.round
  BY <1>1, <1>2, SettlerHas
<1>4. settle[r].status # "NONE" /\ SettlerFits(c, settle, effect)
  BY <1>1, <1>2, <1>3, SettlerHas
<1>5. PICK row \in SettlementRows : row = settle[r]
  BY DEF SettlementInv, SettlementTypes
<1>6. PICK ops \in Seq(OperationRows) : ops = row.ops
  BY DEF SettlementRows
<1>7. PICK n \in Nat : n = Len(ops)
  BY LenProperties
<1>8. PICK i \in Nat : i = c.op
  BY DEF SettlerRows
<1>9. i \in 1..n /\ effect[r][i] = "applied" /\ \A j \in 1..(i - 1) : j <= n /\ FinalIn(ops, j)
  <2>1. i >= 1 /\ i <= n /\ effect[r][i] = "applied" /\ \A j \in 1..(i - 1) : j <= n /\ FinalIn(ops, j)
    BY <1>2, <1>3, <1>4, <1>5, <1>6, <1>7, <1>8 DEF SettlerFits
  <2> QED
    BY <2>1
<1>10. settler \in [Settlers -> SettlerRows] /\ settle \in [Rounds -> SettlementRows]
  BY DEF SettlementInv, SettlementTypes
<1>11. UNCHANGED <<crashVars, effect, forfeited>>
  BY DEF FinalizeSettlementOperation
<1>12. SettlementFits(row, round[r], forfeited[r], intents[r], PlanOperations(r), effect[r])
  BY <1>5 DEF SettlementInv
<1>13. PICK call \in SettlerRows : call = [c EXCEPT !.pc = "operation", !.op = i + 1]
  <2>1. i + 1 \in Nat
    OBVIOUS
  <2> QED
    BY <2>1 DEF SettlerRows
<1>14. SettlerMoves(w, call)
  BY <1>1, <1>8, <1>10, <1>13 DEF SettlerMoves, FinalizeSettlementOperation
<1>15. call.pc = "operation" /\ call.round = r /\ call.op = i + 1
  BY <1>3, <1>13 DEF SettlerRows
<1>16. ASSUME NEW after \in Seq(OperationRows), settle'[r].ops = after, settle'[r].status # "NONE",
              Len(after) = n, \A j \in 1..i : FinalIn(after, j)
       PROVE  SettlerFits(call, settle', effect')
  <2>1. \A j \in 1..((i + 1) - 1) : j <= n /\ FinalIn(after, j)
    BY <1>9, <1>16
  <2>2. call.op >= 1
    BY <1>15
  <2> QED
    BY <2>1, <2>2, <1>15, <1>16 DEF SettlerFits
<1>17. CASE FinalIn(ops, i)
  <2>1. settle' = settle
    BY <1>1, <1>3, <1>5, <1>6, <1>8, <1>17 DEF FinalizeSettlementOperation, Finalized, FinalIn
  <2>2. SettlementWritten(r)
    BY <2>1, <1>11, NothingWritten
  <2>3. \A j \in 1..i : FinalIn(ops, j)
    BY <1>9, <1>17
  <2>4. SettlerFits(call, settle', effect')
    BY <2>1, <2>3, <1>4, <1>5, <1>6, <1>7, <1>16
  <2> QED
    BY <2>2, <2>4, <1>14, SettlerMoved, SettlementKept
<1>18. CASE ~ FinalIn(ops, i)
  <2>1. PICK p \in OperationRows : p = ops[i]
    BY <1>7, <1>9, ElementOfSeq
  <2>2. PICK o \in OperationRows : o = [p EXCEPT !.status = "FINALIZED", !.mode = "NONE", !.signed = TRUE]
    BY DEF OperationRows
  <2>3. o.status = "FINALIZED" /\ o.kind = p.kind /\ o.stage = p.stage
    BY <2>2 DEF OperationRows
  <2>4. PICK after \in Seq(OperationRows) : after = [ops EXCEPT ![i] = o]
    BY <1>7, <1>9, ExceptSeq
  <2>5. PICK x \in SettlementRows :
          x = [row EXCEPT !.ops = after, !.status = "PENDING", !.count = row.count + 1, !.version = row.version + 1]
    <3>1. row.version + 1 \in Nat /\ row.count + 1 \in Nat
      BY DEF SettlementRows
    <3> QED
      BY <3>1 DEF SettlementRows
  <2>6. x.ops = after /\ x.status = "PENDING" /\ x.count = row.count + 1
    BY <2>5 DEF SettlementRows
  <2>7. settle' = [settle EXCEPT ![r] = x]
    <3>1. SetSettlement(r, [settle[r] EXCEPT !.ops[i] = [@ EXCEPT !.status = "FINALIZED", !.mode = "NONE", !.signed = TRUE],
                                             !.status = "PENDING", !.count = @ + 1])
      BY <1>1, <1>3, <1>5, <1>6, <1>8, <1>18 DEF FinalizeSettlementOperation, Finalized, FinalIn
    <3>2. [row EXCEPT !.ops[i] = [@ EXCEPT !.status = "FINALIZED", !.mode = "NONE", !.signed = TRUE],
                      !.status = "PENDING", !.count = @ + 1]
            = [row EXCEPT !.ops = after, !.status = "PENDING", !.count = row.count + 1]
      BY <1>6, <2>1, <2>2, <2>4 DEF SettlementRows
    <3>3. [[row EXCEPT !.ops = after, !.status = "PENDING", !.count = row.count + 1] EXCEPT !.version = row.version + 1] = x
      BY <2>5 DEF SettlementRows
    <3> QED
      BY <3>1, <3>2, <3>3, <1>5 DEF SetSettlement
  <2>8. settle' \in [Rounds -> SettlementRows] /\ settle'[r] = x /\ \A q \in Rounds \ {r} : settle'[q] = settle[q]
    BY <1>10, <2>7
  <2>9. row.status \notin {"NONE", "SETTLED"} /\ CountFits(row)
    BY <1>4, <1>5, <1>6, <1>7, <1>9, <1>12, <1>18 DEF SettlementFits
  <2>10. round' = round /\ round[r].settlement # "SETTLED"
    BY <1>11, <1>12, <2>9 DEF SettlementFits, crashVars
  <2>11. CountFits(x)
    BY <1>6, <1>7, <1>9, <1>18, <2>3, <2>4, <2>6, <2>9, FinalizedCounts
  <2>12. SettlementWritten(r)
    <3>1. UNCHANGED <<crashLog, intents, effect, forfeited>>
      BY <1>11 DEF crashVars
    <3>2. \A q \in Rounds \ {r} : settle'[q] = settle[q] /\ round'[q] = round[q]
      BY <2>8, <2>10
    <3>3. i \in 1..Len(ops) /\ \A j \in 1..(i - 1) : FinalIn(ops, j)
      BY <1>7, <1>9
    <3> QED
      BY <3>1, <3>2, <3>3, <1>5, <1>6, <1>9, <2>1, <2>3, <2>4, <2>6, <2>8, <2>9, <2>10, <2>11, OperationWritten
  <2>13. Len(after) = n /\ \A j \in 1..n : after[j] = IF j = i THEN o ELSE ops[j]
    BY <1>7, <1>9, <2>4, ExceptSeq
  <2>14. \A j \in 1..i : FinalIn(after, j)
    BY <2>13, <2>3, <1>9 DEF FinalIn
  <2>15. SettlerFits(call, settle', effect')
    BY <2>6, <2>8, <2>13, <2>14, <1>16
  <2> QED
    BY <2>12, <2>15, <1>14, SettlerMoved, SettlementKept
<1> QED
  BY <1>17, <1>18

LEMMA RecordRecoveryStep ==
  ASSUME CrashInv, NEW w \in Settlers, RecordRecovery(w)
  PROVE  CrashInv'
<1>0. RoundInv /\ SettlementInv
  BY DEF CrashInv
<1>1. PICK c \in SettlerRows : c = settler[w]
  BY <1>0 DEF SettlementInv, SettlementTypes
<1>2. c.pc = "recover"
  BY <1>1 DEF RecordRecovery
<1>3. PICK r \in Rounds : r = c.round
  BY <1>0, <1>1, <1>2, SettlerHas
<1>4. settle[r].status # "NONE" /\ SettlerFits(c, settle, effect)
  BY <1>0, <1>1, <1>2, <1>3, SettlerHas
<1>5. PICK row \in SettlementRows : row = settle[r]
  BY <1>0 DEF SettlementInv, SettlementTypes
<1>6. PICK ops \in Seq(OperationRows) : ops = row.ops
  BY DEF SettlementRows
<1>7. PICK n \in Nat : n = Len(ops)
  BY LenProperties
<1>8. PICK i \in Nat : i = c.op
  BY DEF SettlerRows
<1>9. i \in 1..n /\ \A j \in 1..(i - 1) : j <= n /\ FinalIn(ops, j)
  <2>1. i >= 1 /\ i <= n /\ \A j \in 1..(i - 1) : j <= n /\ FinalIn(ops, j)
    BY <1>2, <1>3, <1>4, <1>5, <1>6, <1>7, <1>8 DEF SettlerFits
  <2> QED
    BY <2>1
<1>10. settler \in [Settlers -> SettlerRows] /\ settle \in [Rounds -> SettlementRows]
  BY <1>0 DEF SettlementInv, SettlementTypes
<1>11. /\ UNCHANGED <<effect, forfeited>> /\ UNCHANGED RowsBeside
       /\ houseRoom' = houseRoom /\ crashRoll' = crashRoll
  BY DEF RecordRecovery, RowsBeside
<1>12. SettlementFits(row, round[r], forfeited[r], intents[r], PlanOperations(r), effect[r])
  BY <1>0, <1>5 DEF SettlementInv
<1>13. EndSettler(w)
  BY <1>10 DEF RecordRecovery, AfterRecovery, EndSettler
<1>14. CASE round[r].settlement = "SETTLED"
  <2>1. settle' = settle /\ round' = round
    BY <1>1, <1>3, <1>14 DEF RecordRecovery
  <2>2. UNCHANGED <<crashVars, settle, effect, forfeited>>
    BY <2>1, <1>11 DEF crashVars, RowsBeside
  <2>3. SettlementWritten(r)
    BY <2>2, <1>0, NothingWritten
  <2>4. SettlementInv'
    BY <2>3, <1>0, <1>13, SettlerEnds, SettlementKept
  <2>5. RoundInv'
    BY <2>2, <1>0, RoundsStay
  <2> QED
    BY <2>4, <2>5 DEF CrashInv
<1>15. CASE round[r].settlement # "SETTLED"
  <2>1. PICK p \in OperationRows : p = ops[i]
    BY <1>7, <1>9, ElementOfSeq
  <2>2. PICK signed \in BOOLEAN : signed = (p.signed \/ c.signed)
    OBVIOUS
  <2>3. PICK o \in OperationRows :
          o = IF p.status = "FINALIZED" THEN p
              ELSE [p EXCEPT !.status = "RECOVERY_REQUIRED", !.mode = c.mode, !.signed = signed]
    <3>1. c.mode \in {"NONE", "RETRYABLE", "RECONCILE_ONLY"}
      BY DEF SettlerRows
    <3>2. [p EXCEPT !.status = "RECOVERY_REQUIRED", !.mode = c.mode, !.signed = signed] \in OperationRows
      BY <3>1 DEF OperationRows
    <3> QED
      BY <3>2
  <2>4. o.kind = p.kind /\ o.stage = p.stage /\ o.status = IF p.status = "FINALIZED" THEN "FINALIZED" ELSE "RECOVERY_REQUIRED"
    BY <2>3 DEF OperationRows
  <2>5. PICK after \in Seq(OperationRows) : after = [ops EXCEPT ![i] = o]
    BY <1>7, <1>9, ExceptSeq
  <2> DEFINE recovered == [settle[r] EXCEPT !.ops[i] =
               IF settle[r].ops[i].status = "FINALIZED" THEN settle[r].ops[i]
               ELSE [settle[r].ops[i] EXCEPT !.status = "RECOVERY_REQUIRED", !.mode = settler[w].mode,
                                             !.signed = @ \/ settler[w].signed]]
  <2>6. recovered = [row EXCEPT !.ops = after]
    <3>1. p = settle[r].ops[i]
      BY <1>5, <1>6, <2>1
    <3>2. [p EXCEPT !.status = "RECOVERY_REQUIRED", !.mode = settler[w].mode, !.signed = @ \/ settler[w].signed]
            = [p EXCEPT !.status = "RECOVERY_REQUIRED", !.mode = c.mode, !.signed = signed]
      BY <2>2, <1>1
    <3>3. recovered = [row EXCEPT !.ops[i] = o]
      BY <1>5, <2>3, <3>1, <3>2
    <3>4. [row EXCEPT !.ops[i] = o] = [row EXCEPT !.ops = after]
      BY <1>6, <2>5 DEF SettlementRows
    <3> QED
      BY <3>3, <3>4
  <2>7. /\ IF settle[r].owner = w
           THEN SetSettlement(r, [recovered EXCEPT !.owner = NoSettler, !.expired = FALSE,
                                                   !.status = "RECOVERY_REQUIRED"])
           ELSE settle' = [settle EXCEPT ![r] = recovered]
        /\ round' = [round EXCEPT ![r].settlement = "RECOVERY_REQUIRED"]
    BY <1>1, <1>3, <1>8, <1>15 DEF RecordRecovery, OwnsLease
  <2> HIDE DEF recovered
  <2>8. row.status \notin {"NONE", "SETTLED"} /\ CountFits(row)
    BY <1>4, <1>5, <1>12, <1>15 DEF SettlementFits
  <2>9. PICK x \in SettlementRows :
          /\ settle' = [settle EXCEPT ![r] = x]
          /\ x.ops = after /\ x.status \notin {"NONE", "SETTLED"} /\ x.count = row.count
    <3>1. CASE settle[r].owner = w
      <4>1. PICK x \in SettlementRows :
              x = [row EXCEPT !.ops = after, !.owner = NoSettler, !.expired = FALSE,
                              !.status = "RECOVERY_REQUIRED", !.version = row.version + 1]
        <5>1. row.version + 1 \in Nat
          BY DEF SettlementRows
        <5> QED
          BY <5>1 DEF SettlementRows
      <4>2. [[[row EXCEPT !.ops = after] EXCEPT !.owner = NoSettler, !.expired = FALSE, !.status = "RECOVERY_REQUIRED"]
               EXCEPT !.version = row.version + 1] = x
        BY <4>1 DEF SettlementRows
      <4>3. settle' = [settle EXCEPT ![r] = x]
        BY <4>2, <3>1, <2>6, <2>7, <1>5 DEF SetSettlement
      <4> QED
        BY <4>1, <4>3 DEF SettlementRows
    <3>2. CASE settle[r].owner # w
      <4>1. PICK x \in SettlementRows : x = [row EXCEPT !.ops = after]
        BY DEF SettlementRows
      <4>2. settle' = [settle EXCEPT ![r] = x]
        BY <4>1, <3>2, <2>6, <2>7
      <4> QED
        BY <4>1, <4>2, <2>8 DEF SettlementRows
    <3> QED
      BY <3>1, <3>2
  <2>10. settle' \in [Rounds -> SettlementRows] /\ settle'[r] = x /\ \A q \in Rounds \ {r} : settle'[q] = settle[q]
    BY <1>10, <2>9
  <2>11. round[r].status \in CrashEnded
    BY <1>12, <2>8 DEF SettlementFits
  <2>12. Marks(r, "RECOVERY_REQUIRED")
    BY <2>7 DEF Marks
  <2>13. /\ RoundInv'
         /\ round'[r].settlement = "RECOVERY_REQUIRED" /\ round'[r].status = round[r].status
         /\ round'[r].pot = round[r].pot /\ \A q \in Rounds \ {r} : round'[q] = round[q]
    BY <1>0, <1>11, <2>11, <2>12, RoundMarked
  <2>14. (o.status = "FINALIZED") = FinalIn(ops, i)
    BY <2>1, <2>4 DEF FinalIn
  <2>15. CountFits(x)
    BY <1>6, <1>7, <1>9, <2>5, <2>8, <2>9, <2>14, RecoveryCounts
  <2>16. o.status = "FINALIZED" => effect[r][i] = "applied"
    <3>1. FinalIn(ops, i) => effect[r][i] = "applied"
      BY <1>6, <1>7, <1>9, <1>12, <2>8 DEF SettlementFits, PlanFollowed
    <3> QED
      BY <3>1, <2>14
  <2>17. SettlementWritten(r)
    <3>1. UNCHANGED <<crashLog, intents, effect, forfeited>>
      BY <1>11 DEF RowsBeside
    <3>2. \A q \in Rounds \ {r} : settle'[q] = settle[q] /\ round'[q] = round[q]
      BY <2>10, <2>13
    <3>3. i \in 1..Len(ops) /\ \A j \in 1..(i - 1) : FinalIn(ops, j)
      BY <1>7, <1>9
    <3>4. round'[r].settlement # "SETTLED"
      BY <2>13
    <3>5. o.kind = ops[i].kind /\ o.stage = ops[i].stage /\ (FinalIn(ops, i) => o.status = "FINALIZED")
      BY <2>1, <2>4, <2>14
    <3>6. settle[r].status \notin {"NONE", "SETTLED"} /\ ops = settle[r].ops
      BY <1>5, <1>6, <2>8
    <3>7. x.ops = [ops EXCEPT ![i] = o] /\ x.status \notin {"NONE", "SETTLED"}
      BY <2>5, <2>9
    <3>8. round'[r].status = round[r].status /\ round'[r].pot = round[r].pot
      BY <2>13
    <3>9. settle' \in [Rounds -> SettlementRows] /\ settle'[r] = x
      BY <2>10
    <3> QED
      BY <3>1, <3>2, <3>3, <3>4, <3>5, <3>6, <3>7, <3>8, <3>9, <1>0, <2>15, <2>16, OperationWritten, SMTT(60)
  <2>18. SettlementInv'
    BY <2>17, <1>0, <1>13, SettlerEnds, SettlementKept
  <2> QED
    BY <2>13, <2>18 DEF CrashInv
<1> QED
  BY <1>14, <1>15

LEMMA FinalizeSettlementStep ==
  ASSUME CrashInv, NEW w \in Settlers, FinalizeSettlement(w)
  PROVE  CrashInv'
<1>0. RoundInv /\ SettlementInv
  BY DEF CrashInv
<1>1. settler[w].pc # "idle"
  BY DEF FinalizeSettlement
<1>2. PICK r \in Rounds : r = settler[w].round
  BY <1>0, <1>1, SettlerHas
<1>3. settle[r].status # "NONE"
  BY <1>0, <1>1, <1>2, SettlerHas
<1>4. PICK row \in SettlementRows : row = settle[r]
  BY <1>0 DEF SettlementInv, SettlementTypes
<1>5. PICK ops \in Seq(OperationRows) : ops = row.ops
  BY DEF SettlementRows
<1>6. PICK n \in Nat : n = Len(ops)
  BY LenProperties
<1>7. DOMAIN ops = 1..n
  BY <1>6
<1>8. settle \in [Rounds -> SettlementRows] /\ effect \in [Rounds -> Effects] /\ forfeited \in [Rounds -> SUBSET Nat]
  BY <1>0 DEF SettlementInv, SettlementTypes, Effects
<1>9. /\ effect' = effect /\ UNCHANGED RowsBeside
      /\ houseRoom' = houseRoom /\ crashRoll' = crashRoll
  BY DEF FinalizeSettlement, RowsBeside
<1>10. SettlementFits(row, round[r], forfeited[r], intents[r], PlanOperations(r), effect[r])
  BY <1>0, <1>4 DEF SettlementInv
<1>11. CASE UNCHANGED <<settle, round, forfeited>> /\ EndSettler(w)
  <2>1. UNCHANGED <<crashVars, settle, effect, forfeited>>
    BY <1>9, <1>11 DEF crashVars, RowsBeside
  <2>2. SettlementInv'
    BY <2>1, <1>0, <1>11, NothingWritten, SettlerEnds, SettlementKept
  <2> QED
    BY <2>1, <2>2, <1>0, RoundsStay DEF CrashInv
<1>12. CASE UNCHANGED <<settle, round, forfeited>> /\ GotoSettler(w, "release")
  <2>1. UNCHANGED <<crashVars, settle, effect, forfeited>>
    BY <1>9, <1>12 DEF crashVars, RowsBeside
  <2>2. PICK c \in SettlerRows : c = settler[w]
    BY <1>0 DEF SettlementInv, SettlementTypes
  <2>3. PICK call \in SettlerRows : call = [c EXCEPT !.pc = "release"]
    BY DEF SettlerRows
  <2>4. call.pc = "release" /\ call.round = r
    BY <2>2, <2>3, <1>2 DEF SettlerRows
  <2>5. SettlerFits(call, settle', effect')
    BY <2>1, <2>4, <1>3 DEF SettlerFits
  <2>6. SettlerMoves(w, call)
    BY <2>2, <2>3, <1>0, <1>12 DEF SettlerMoves, GotoSettler, SettlementInv, SettlementTypes
  <2>7. SettlementWritten(r)
    BY <2>1, <1>0, NothingWritten
  <2>8. SettlementInv'
    BY <2>5, <2>6, <2>7, <1>0, SettlerMoved, SettlementKept
  <2> QED
    BY <2>1, <2>8, <1>0, RoundsStay DEF CrashInv
<1>13. CASE /\ settle[r].status # "SETTLED" /\ \A i \in DOMAIN settle[r].ops : Finalized(r, i)
            /\ SetSettlement(r, [settle[r] EXCEPT !.status = "SETTLED", !.owner = NoSettler, !.expired = FALSE,
                                                  !.count = Len(settle[r].ops)])
            /\ forfeited' = [forfeited EXCEPT ![r] = @ \cup BustInventory(r)]
            /\ round' = [round EXCEPT ![r].settlement = "SETTLED"]
            /\ EndSettler(w)
  <2>1. PICK x \in SettlementRows :
          x = [row EXCEPT !.status = "SETTLED", !.owner = NoSettler, !.expired = FALSE, !.count = n,
                          !.version = row.version + 1]
    <3>1. row.version + 1 \in Nat
      BY DEF SettlementRows
    <3> QED
      BY <3>1 DEF SettlementRows
  <2>2. x.status = "SETTLED" /\ x.ops = ops /\ x.count = n
    BY <2>1, <1>5 DEF SettlementRows
  <2>3. settle' = [settle EXCEPT ![r] = x]
    <3>1. [[row EXCEPT !.status = "SETTLED", !.owner = NoSettler, !.expired = FALSE, !.count = n]
             EXCEPT !.version = row.version + 1] = x
      BY <2>1 DEF SettlementRows
    <3> QED
      BY <3>1, <1>4, <1>5, <1>6, <1>13 DEF SetSettlement
  <2>4. settle' \in [Rounds -> SettlementRows] /\ settle'[r] = x /\ \A q \in Rounds \ {r} : settle'[q] = settle[q]
    BY <1>8, <2>3
  <2>5. \A i \in 1..n : FinalIn(ops, i)
    BY <1>4, <1>5, <1>7, <1>13 DEF Finalized, FinalIn
  <2>6. CountFits(x)
    <3>1. {i \in 1..n : FinalIn(ops, i)} = 1..n
      BY <2>5
    <3>2. Cardinality(1..n) = n
      BY FS_Interval
    <3> QED
      BY <3>1, <3>2, <2>2, <1>6 DEF CountFits
  <2>7. round[r].status \in CrashEnded /\ forfeited[r] = {} /\ PlanFollowed(ops, PlanOperations(r), effect[r])
    BY <1>3, <1>4, <1>5, <1>10, <1>13 DEF SettlementFits
  <2>8. BustInventory(r) = IF IsBust(r) THEN intents[r] ELSE {}
    <3>1. CASE IsBust(r)
      <4>1. PICK plan \in Seq(OperationRows) : plan = PlanOperations(r)
        BY <1>0, <2>7, PlanOfRound DEF CrashEnded
      <4>2. Sent(plan) = intents[r]
        BY <1>0, <2>7, <3>1, <4>1, PlanOfRound DEF CrashEnded
      <4>3. Len(plan) = n /\ \A i \in 1..n : ops[i].kind = plan[i].kind /\ ops[i].stage = plan[i].stage
        BY <2>7, <4>1, <1>6 DEF PlanFollowed
      <4>4. {j \in 1..n : ops[j].kind = "TRANSFER" /\ ops[j].stage # 0}
              = {j \in 1..n : plan[j].kind = "TRANSFER" /\ plan[j].stage # 0}
        BY <4>3
      <4>5. {ops[i].stage : i \in {j \in 1..n : ops[j].kind = "TRANSFER" /\ ops[j].stage # 0}} = Sent(plan)
        BY <4>3, <4>4 DEF Sent
      <4>6. BustInventory(r) = {ops[i].stage : i \in {j \in 1..n : ops[j].kind = "TRANSFER" /\ ops[j].stage # 0}}
        BY <1>4, <1>5, <1>7, <3>1 DEF BustInventory
      <4> QED
        BY <4>2, <4>5, <4>6, <3>1
    <3>2. CASE ~ IsBust(r)
      BY <3>2 DEF BustInventory
    <3> QED
      BY <3>1, <3>2
  <2>9. intents[r] \in SUBSET Nat
    BY <1>0 DEF RoundInv, RowTypes
  <2>10. PICK lost \in SUBSET Nat : lost = IF IsBust(r) THEN intents[r] ELSE {}
    BY <2>9
  <2>11. forfeited' = [forfeited EXCEPT ![r] = lost]
    BY <1>8, <1>13, <2>7, <2>8, <2>10
  <2>12. /\ forfeited' \in [Rounds -> SUBSET Nat] /\ forfeited'[r] = lost
         /\ \A q \in Rounds \ {r} : forfeited'[q] = forfeited[q]
    BY <1>8, <2>11
  <2>13. Marks(r, "SETTLED")
    BY <1>13 DEF Marks
  <2>14. /\ RoundInv'
         /\ round'[r].settlement = "SETTLED" /\ round'[r].status = round[r].status
         /\ round'[r].pot = round[r].pot /\ \A q \in Rounds \ {r} : round'[q] = round[q]
    BY <1>0, <1>9, <2>7, <2>13, RoundMarked
  <2>15. SettlementFits(x, round'[r], lost, intents[r], PlanOperations(r), effect[r])
    <3>1. lost = IF round'[r].status \in {"BUSTED", "DEFAULTED"} THEN intents[r] ELSE {}
      BY <2>10, <2>14 DEF IsBust
    <3>2. x.count = Len(x.ops) /\ \A i \in 1..Len(x.ops) : FinalIn(x.ops, i)
      BY <2>2, <2>5, <1>6
    <3> QED
      BY <2>2, <2>6, <2>7, <2>14, <3>1, <3>2 DEF SettlementFits
  <2>16. RowProgresses(r)
    BY <1>4, <1>5, <1>9, <2>2, <2>4 DEF RowProgresses
  <2>17. SettlementWritten(r)
    BY <1>8, <1>9, <2>4, <2>12, <2>14, <2>15, <2>16 DEF SettlementWritten, RowsBeside
  <2>18. SettlementInv'
    BY <2>17, <1>0, <1>13, SettlerEnds, SettlementKept
  <2> QED
    BY <2>14, <2>18 DEF CrashInv
<1> QED
  BY <1>2, <1>11, <1>12, <1>13 DEF FinalizeSettlement

LEMMA EnsurePlanStep ==
  ASSUME CrashInv, NEW w \in Settlers, NEW r \in Rounds, EnsurePlan(w, r)
  PROVE  CrashInv'
<1>0. RoundInv /\ SettlementInv
  BY DEF CrashInv
<1>1. round[r].status \in CrashEnded /\ round[r].status # "NONE"
  BY DEF EnsurePlan, CrashEnded
<1>2. PICK row \in SettlementRows : row = settle[r]
  BY <1>0 DEF SettlementInv, SettlementTypes
<1>3. settle \in [Rounds -> SettlementRows] /\ effect \in [Rounds -> Effects] /\ forfeited \in [Rounds -> SUBSET Nat]
  BY <1>0 DEF SettlementInv, SettlementTypes, Effects
<1>4. /\ effect' = effect /\ forfeited' = forfeited /\ UNCHANGED RowsBeside
      /\ houseRoom' = houseRoom /\ crashRoll' = crashRoll
  BY DEF EnsurePlan, RowsBeside
<1>5. SettlementFits(row, round[r], forfeited[r], intents[r], PlanOperations(r), effect[r])
  BY <1>0, <1>2 DEF SettlementInv
<1>6. PICK call \in SettlerRows : call = [SettlerIdle EXCEPT !.pc = "claim", !.round = r]
  BY DEF SettlerRows, SettlerIdle
<1>7. call.pc = "claim" /\ call.round = r
  BY <1>6 DEF SettlerIdle
<1>8. SettlerMoves(w, call)
  BY <1>6 DEF SettlerMoves, EnsurePlan
<1>9. CASE settle[r].status # "NONE"
  <2>1. settle' = settle /\ round' = round
    BY <1>3, <1>9 DEF EnsurePlan
  <2>2. UNCHANGED <<crashVars, settle, effect, forfeited>>
    BY <2>1, <1>4 DEF crashVars, RowsBeside
  <2>3. SettlerFits(call, settle', effect')
    BY <2>1, <1>7, <1>9 DEF SettlerFits
  <2>4. SettlementWritten(r)
    BY <2>2, <1>0, NothingWritten
  <2>5. SettlementInv'
    BY <2>3, <2>4, <1>0, <1>8, SettlerMoved, SettlementKept
  <2> QED
    BY <2>2, <2>5, <1>0, RoundsStay DEF CrashInv
<1>10. CASE settle[r].status = "NONE"
  <2>1. PICK plan \in Seq(OperationRows) :
          /\ plan = PlanOperations(r) /\ Len(plan) <= MaxOperations
          /\ \A i \in 1..Len(plan) : plan[i].status = "PREPARED"
    BY <1>0, <1>1, PlanOfRound
  <2>2. PICK x \in SettlementRows : x = [NoSettlement EXCEPT !.status = "PENDING", !.version = 1, !.ops = plan]
    BY DEF SettlementRows, NoSettlement
  <2>3. x.status = "PENDING" /\ x.ops = plan /\ x.count = 0
    BY <2>2 DEF NoSettlement
  <2>4. settle' = [settle EXCEPT ![r] = x]
    BY <1>10, <2>1, <2>2 DEF EnsurePlan
  <2>5. settle' \in [Rounds -> SettlementRows] /\ settle'[r] = x /\ \A q \in Rounds \ {r} : settle'[q] = settle[q]
    BY <1>3, <2>4
  <2>6. Marks(r, "PENDING")
    BY <1>10 DEF Marks, EnsurePlan
  <2>7. /\ RoundInv'
        /\ round'[r].settlement = "PENDING" /\ round'[r].status = round[r].status
        /\ round'[r].pot = round[r].pot /\ \A q \in Rounds \ {r} : round'[q] = round[q]
    BY <1>0, <1>1, <1>4, <2>6, RoundMarked
  <2>8. \A i \in 1..MaxOperations : effect[r][i] = "none"
    BY <1>2, <1>5, <1>10 DEF SettlementFits
  <2>9. PICK n \in Nat : n = Len(plan)
    BY LenProperties
  <2>10. PlanFollowed(plan, plan, effect[r])
    <3>1. MaxOperations \in Nat
      <4>1. PICK len \in Nat : len = Len(CrashStages)
        BY CrashConstants, LenProperties
      <4> QED
        BY <4>1 DEF MaxOperations
    <3>2. \A i \in 1..n : plan[i].status = "PREPARED" /\ effect[r][i] = "none"
      BY <2>1, <2>8, <2>9, <3>1
    <3> QED
      BY <2>1, <2>8, <2>9, <3>2 DEF PlanFollowed, FinalIn
  <2>11. CountFits(x)
    <3>1. {i \in 1..n : FinalIn(plan, i)} = {}
      BY <2>1, <2>9 DEF FinalIn
    <3>2. Cardinality({}) = 0
      BY FS_EmptySet
    <3> QED
      BY <3>1, <3>2, <2>3, <2>9 DEF CountFits
  <2>12. forfeited[r] = {}
    BY <1>2, <1>5, <1>10 DEF SettlementFits
  <2>13. SettlementFits(x, round'[r], forfeited[r], intents[r], PlanOperations(r), effect[r])
    BY <1>1, <2>1, <2>3, <2>7, <2>10, <2>11, <2>12 DEF SettlementFits
  <2>14. RowProgresses(r)
    BY <1>4, <1>10 DEF RowProgresses
  <2>15. SettlementWritten(r)
    BY <1>3, <1>4, <2>5, <2>7, <2>13, <2>14 DEF SettlementWritten, RowsBeside
  <2>16. SettlerFits(call, settle', effect')
    BY <1>7, <2>3, <2>5 DEF SettlerFits
  <2>17. SettlementInv'
    BY <2>15, <2>16, <1>0, <1>8, SettlerMoved, SettlementKept
  <2> QED
    BY <2>7, <2>17 DEF CrashInv
<1> QED
  BY <1>9, <1>10

\* Players leave settlements alone: a round whose settlement exists has ended.
LEMMA RoundStepKeepsSettlements ==
  ASSUME CrashInv, CrashRoundStep(Rounds, CrashCalls), UNCHANGED settleVars
  PROVE  SettlementInv'
<1>0. RoundInv /\ SettlementInv
  BY DEF CrashInv
<1>1. settle' = settle /\ settler' = settler /\ effect' = effect /\ forfeited' = forfeited
  BY DEF settleVars
<1>2. SettlementTypes'
  BY <1>0, <1>1 DEF SettlementInv, SettlementTypes
<1>3. ASSUME NEW w \in Settlers
      PROVE  SettlerFits(settler'[w], settle', effect')
  BY <1>0, <1>1 DEF SettlementInv
<1>4. ASSUME NEW q \in Rounds
      PROVE  SettlementFits(settle[q], round[q], forfeited[q], intents[q], PlanOperations(q), effect[q])'
  <2>1. SettlementFits(settle[q], round[q], forfeited[q], intents[q], PlanOperations(q), effect[q])
    BY <1>0 DEF SettlementInv
  <2>2. CASE RoundRests(q)
    <3>1. PlanOperations(q)' = PlanOperations(q)
      BY <2>2, PlanIsFixed DEF RoundRests
    <3> QED
      BY <2>1, <2>2, <3>1, <1>1 DEF RoundRests
  <2>3. CASE RoundIsPlayed(q)
    <3>1. settle[q].status = "NONE"
      BY <2>1, <2>3 DEF SettlementFits, RoundIsPlayed
    <3> QED
      BY <2>1, <2>3, <3>1, <1>1 DEF SettlementFits, RoundIsPlayed
  <2> QED
    BY <2>2, <2>3, <1>0, RoundStepPlays
<1> QED
  BY <1>2, <1>3, <1>4 DEF SettlementInv

(***************************************************************************)
(* The invariant of the game.                                              *)
(***************************************************************************)
LEMMA NothingHeldAtFirst ==
  ASSUME CrashRoundInit
  PROVE  ReservedAmount(Reserved) <= CrashRisk.maxWallet
<1>1. Reserved = {}
  BY DEF CrashRoundInit, Reserved
<1>2. IsFiniteSet({}) /\ ReservedAmount({}) = Total(exposure, {})
  BY FS_EmptySet, ReservedAmountIsTotal
<1>3. Total(exposure, {}) = 0
  BY <1>2, TotalUnfold
<1>4. CrashRisk.maxWallet \in Nat
  BY CrashConstants
<1> QED
  BY <1>1, <1>2, <1>3, <1>4

LEMMA CrashInitFits ==
  ASSUME CrashGameInit
  PROVE  CrashInv
<1>1. CrashRoundInit /\ CrashSettlementInit
  BY DEF CrashGameInit
<1>2. NoRound \in RoundRows /\ << >> \in Seq(Transitions) /\ [status |-> "NONE", amount |-> 0] \in Exposures
  BY DEF NoRound, RoundRows, Statuses, Exposures
<1>3. RowTypes
  BY <1>1, <1>2 DEF CrashRoundInit, RowTypes
<1>4. RowsFit
  BY <1>1 DEF CrashRoundInit, RowsFit, RoundFits, NoRound
<1>5. CallTypes /\ CallsFit
  BY <1>1, IdleFits DEF CrashRoundInit, CallTypes, CallsFit
<1>6. RoundInv
  BY <1>1, <1>3, <1>4, <1>5, NothingHeldAtFirst DEF RoundInv
<1>7. NoSettlement \in SettlementRows /\ SettlerIdle \in SettlerRows
  <2>1. << >> \in Seq(OperationRows)
    OBVIOUS
  <2> QED
    BY <2>1 DEF NoSettlement, SettlementRows, SettlerIdle, SettlerRows
<1>8. SettlementTypes
  BY <1>1, <1>7 DEF CrashSettlementInit, SettlementTypes
<1>9. CountFits(NoSettlement)
  <2>1. {i \in 1..Len(<< >>) : FinalIn(<< >>, i)} = {}
    OBVIOUS
  <2>2. Cardinality({}) = 0
    BY FS_EmptySet
  <2> QED
    BY <2>1, <2>2 DEF CountFits, NoSettlement
<1>10. ASSUME NEW r \in Rounds
       PROVE  SettlementFits(settle[r], round[r], forfeited[r], intents[r], PlanOperations(r), effect[r])
  <2>1. settle[r] = NoSettlement /\ forfeited[r] = {} /\ round[r] = NoRound
        /\ \A i \in 1..MaxOperations : effect[r][i] = "none"
    BY <1>1 DEF CrashSettlementInit, CrashRoundInit
  <2>2. NoSettlement.status = "NONE" /\ NoRound.settlement = "NOT_REQUIRED"
    BY DEF NoSettlement, NoRound
  <2> QED
    BY <2>1, <2>2, <1>9 DEF SettlementFits
<1>11. \A w \in Settlers : SettlerFits(settler[w], settle, effect)
  BY <1>1 DEF CrashSettlementInit, SettlerFits, SettlerIdle
<1> QED
  BY <1>6, <1>8, <1>10, <1>11 DEF CrashInv, SettlementInv

\* Settlers change no round but for the mark of its settlement.
LEMMA SettlementStepKeeps ==
  ASSUME CrashInv, CrashSettlementStep(Rounds)
  PROVE  CrashInv'
<1>0. RoundInv /\ SettlementInv
  BY DEF CrashInv
<1>1. ASSUME NEW w \in Settlers, ClaimSettlement(w) PROVE CrashInv'
  <2>1. UNCHANGED crashVars
    BY <1>1 DEF ClaimSettlement
  <2> QED
    BY <2>1, <1>0, <1>1, RoundsStay, ClaimStep DEF CrashInv
<1>2. ASSUME NEW w \in Settlers, ReadSettlementOperation(w) PROVE CrashInv'
  <2>1. UNCHANGED crashVars
    BY <1>2 DEF ReadSettlementOperation
  <2> QED
    BY <2>1, <1>0, <1>2, RoundsStay, ReadOperationStep DEF CrashInv
<1>3. ASSUME NEW w \in Settlers, ExecuteSettlement(w) PROVE CrashInv'
  <2>1. UNCHANGED crashVars
    BY <1>3 DEF ExecuteSettlement
  <2> QED
    BY <2>1, <1>0, <1>3, RoundsStay, ExecuteStep DEF CrashInv
<1>4. ASSUME NEW w \in Settlers, FinalizeSettlementOperation(w) PROVE CrashInv'
  <2>1. UNCHANGED crashVars
    BY <1>4 DEF FinalizeSettlementOperation
  <2> QED
    BY <2>1, <1>0, <1>4, RoundsStay, FinalizeOperationStep DEF CrashInv
<1>5. ASSUME NEW w \in Settlers, ReleaseSettlement(w) PROVE CrashInv'
  <2>1. UNCHANGED crashVars
    BY <1>5 DEF ReleaseSettlement
  <2> QED
    BY <2>1, <1>0, <1>5, RoundsStay, ReleaseStep DEF CrashInv
<1>6. ASSUME NEW w \in Settlers, SettlerDies(w) PROVE CrashInv'
  <2>1. UNCHANGED crashVars
    BY <1>6 DEF SettlerDies
  <2> QED
    BY <2>1, <1>0, <1>6, RoundsStay, SettlerDiesStep DEF CrashInv
<1>7. ASSUME NEW r \in Rounds, EffectArrives(r) PROVE CrashInv'
  <2>1. UNCHANGED crashVars
    BY <1>7 DEF EffectArrives
  <2> QED
    BY <2>1, <1>0, <1>7, RoundsStay, EffectArrivesStep DEF CrashInv
<1>8. ASSUME NEW r \in Rounds, SettlementLeaseExpires(r) PROVE CrashInv'
  <2>1. UNCHANGED crashVars
    BY <1>8 DEF SettlementLeaseExpires
  <2> QED
    BY <2>1, <1>0, <1>8, RoundsStay, LeaseExpiresStep DEF CrashInv
<1> QED
  BY <1>1, <1>2, <1>3, <1>4, <1>5, <1>6, <1>7, <1>8, EnsurePlanStep, RecordRecoveryStep,
     FinalizeSettlementStep DEF CrashSettlementStep

LEMMA CrashStutters ==
  ASSUME CrashInv, UNCHANGED <<crashVars, settleVars>>
  PROVE  CrashInv'
<1>0. RoundInv /\ SettlementInv
  BY DEF CrashInv
<1>1. /\ settle' = settle /\ settler' = settler /\ effect' = effect /\ forfeited' = forfeited
      /\ round' = round /\ crashLog' = crashLog /\ intents' = intents
  BY DEF settleVars, crashVars
<1>2. RoundInv'
  BY <1>0, RoundsStay
<1>3. \A r \in Rounds : PlanOperations(r)' = PlanOperations(r)
  BY <1>1, PlanIsFixed
<1>4. SettlementTypes' /\ \A w \in Settlers : SettlerFits(settler'[w], settle', effect')
  BY <1>0, <1>1 DEF SettlementInv, SettlementTypes
<1>5. ASSUME NEW r \in Rounds
      PROVE  SettlementFits(settle[r], round[r], forfeited[r], intents[r], PlanOperations(r), effect[r])'
  BY <1>0, <1>1, <1>3 DEF SettlementInv
<1> QED
  BY <1>2, <1>4, <1>5 DEF CrashInv, SettlementInv

\* Whatever players, sweeps, settlers, the provider and the house do, rounds, calls,
\* plans, operations and provider agree: the invariant the theorems below rest on.
THEOREM CrashInvariant == CrashSpec => []CrashInv
<1>1. CrashGameInit => CrashInv
  BY CrashInitFits
<1>2. CrashInv /\ [CrashGameNext]_<<crashVars, settleVars>> => CrashInv'
  <2>1. ASSUME CrashInv, CrashRoundStep(Rounds, CrashCalls), UNCHANGED settleVars
        PROVE  CrashInv'
    <3>1. RoundInv'
      BY <2>1, RoundStepKeepsRounds DEF CrashInv
    <3>2. SettlementInv'
      BY <2>1, RoundStepKeepsSettlements
    <3> QED
      BY <3>1, <3>2 DEF CrashInv
  <2> QED
    BY <2>1, SettlementStepKeeps, CrashStutters DEF CrashGameNext
<1> QED
  BY <1>1, <1>2, PTL DEF CrashSpec

\* Each asset that was promised is in the ledger once, beside the stage that followed it.
LEMMA AssetIsLoggedOnce ==
  ASSUME RowTypes, NEW r \in Rounds, round[r].status # "NONE",
         LedgerFits(round[r], crashLog[r]), MoneyFits(round[r], intents[r], exposure[r]), NEW s \in Nat \ {0}
  PROVE  Cardinality({i \in DOMAIN crashLog[r] : crashLog[r][i].asset = s}) = IF s \in intents[r] THEN 1 ELSE 0
<1> DEFINE n == AssetCount(round[r])
<1>1. PICK row \in RoundRows : row = round[r]
  BY DEF RowTypes
<1>2. PICK log \in Seq(Transitions) : log = crashLog[r]
  BY DEF RowTypes
<1>3. PICK stage \in Nat \ {0} : stage = row.stage
  <2>1. CrashRisk.maxStage \in Nat
    BY CrashConstants
  <2> QED
    BY <1>1, <2>1 DEF LedgerFits
<1>4. n = IF WonTheLast(row) THEN stage ELSE stage - 1
  BY <1>1, <1>3 DEF AssetCount
<1>5. intents[r] = 1..n /\ n \in Nat
  BY <1>3, <1>4 DEF MoneyFits, AssetCount
<1>6. /\ Len(log) = IF row.status = "ACTIVE" THEN stage ELSE stage + 1
      /\ \A i \in 1..stage : log[i].asset = i - 1
      /\ row.status # "ACTIVE" => log[stage + 1].asset = IF WonTheLast(row) THEN stage ELSE 0
  BY <1>1, <1>2, <1>3 DEF LedgerFits
<1>7. PICK len \in Nat : len = Len(log) /\ DOMAIN log = 1..len
  BY <1>2, LenProperties
<1>8. \A i \in 1..len : (log[i].asset = s) = (s \in 1..n /\ i = s + 1)
  <2>1. ASSUME NEW i \in 1..len
        PROVE  (log[i].asset = s) = (s \in 1..n /\ i = s + 1)
    <3>1. CASE i \in 1..stage
      <4> HIDE DEF n
      <4>1. log[i].asset = i - 1 /\ i \in Nat /\ i <= stage
        BY <3>1, <1>3, <1>6
      <4>2. n \in Nat /\ stage - 1 <= n
        BY <1>3, <1>4
      <4>3. s \in 1..n <=> s <= n
        BY <4>2
      <4> QED
        BY <4>1, <4>2, <4>3
    <3>2. CASE i \notin 1..stage
      <4>1. i = stage + 1 /\ row.status # "ACTIVE"
        BY <3>2, <1>3, <1>6, <1>7
      <4>2. log[i].asset = IF WonTheLast(row) THEN stage ELSE 0
        BY <4>1, <1>6
      <4> QED
        BY <4>1, <4>2, <1>3, <1>4
    <3> QED
      BY <3>1, <3>2
  <2> QED
    BY <2>1
<1>9. s \in 1..n => s + 1 \in 1..len
  BY <1>3, <1>4, <1>6, <1>7 DEF WonTheLast
<1> HIDE DEF n
<1>10. {i \in DOMAIN crashLog[r] : crashLog[r][i].asset = s} = IF s \in 1..n THEN {s + 1} ELSE {}
  BY <1>2, <1>7, <1>8, <1>9
<1>11. Cardinality({s + 1}) = 1 /\ Cardinality({}) = 0
  BY FS_Singleton, FS_EmptySet
<1> QED
  BY <1>5, <1>10, <1>11

\* Calls, sweeps, retries and changing house limits, in any order, on any number of rounds,
\* keep every round readable, reserved while it is active, released once it has ended, and
\* paid for asset by asset within the limit of its wallet.
THEOREM CrashRoundsKeepExposure == CrashSpec => []CrashExposureFollowsRounds
<1>1. ASSUME CrashInv, NEW r \in Rounds, round[r].status # "NONE"
      PROVE  /\ RoundLedgerValid(r)
             /\ round[r].status = "ACTIVE" =>
                  /\ exposure[r] = [status |-> "RESERVED", amount |-> round[r].pot]
                  /\ round[r].stage <= CrashRisk.maxStage /\ round[r].pot <= CrashRisk.maxPot
                  /\ round[r].deadline <= round[r].expires
             /\ round[r].status \in CrashEnded => exposure[r].status = "RELEASED"
             /\ \A s \in 1..Len(CrashStages) :
                  Cardinality({i \in DOMAIN crashLog[r] : crashLog[r][i].asset = s})
                    = IF s \in intents[r] THEN 1 ELSE 0
  <2>1. RowTypes /\ LedgerFits(round[r], crashLog[r]) /\ MoneyFits(round[r], intents[r], exposure[r])
    BY <1>1 DEF CrashInv, RoundInv, RowsFit, RoundFits
  <2>2. PICK row \in RoundRows : row = round[r]
    BY <2>1 DEF RowTypes
  <2>3. PICK log \in Seq(Transitions) : log = crashLog[r]
    BY <2>1 DEF RowTypes
  <2>4. row.status \in CrashEnded \cup {"ACTIVE"} /\ "ACTIVE" \notin CrashEnded
    BY <1>1, <2>2 DEF RoundRows, Statuses, CrashEnded
  <2>5. PICK stage \in Nat \ {0} : stage = row.stage /\ stage <= CrashRisk.maxStage
    <3>1. CrashRisk.maxStage \in Nat
      BY CrashConstants
    <3> QED
      BY <2>1, <2>2, <3>1 DEF LedgerFits
  <2>6. row.version = Len(log) /\ log[1].kind = "ROUND_STARTED" /\ log[1].from = 0
    BY <2>1, <2>2, <2>3 DEF LedgerFits
  <2>7. log[Len(log)].status = row.status /\ log[Len(log)].to = stage
    <3>1. CASE row.status = "ACTIVE"
      BY <3>1, <2>1, <2>2, <2>3, <2>5 DEF LedgerFits
    <3>2. CASE row.status # "ACTIVE"
      BY <3>2, <2>1, <2>2, <2>3, <2>5 DEF LedgerFits
    <3> QED
      BY <3>1, <3>2
  <2>8. /\ row.status \in CrashEnded => row.settlement # "NOT_REQUIRED" /\ row.deadline = 0
                                       /\ exposure[r].status = "RELEASED"
        /\ row.status = "ACTIVE" => row.settlement = "NOT_REQUIRED" /\ 0 < row.deadline
                                    /\ row.deadline <= row.expires /\ row.pot <= CrashRisk.maxPot
                                    /\ exposure[r] = [status |-> "RESERVED", amount |-> row.pot]
    BY <2>1, <2>2, <2>4 DEF MoneyFits
  <2>9. row.status = "ACTIVE" => row.deadline # 0
    BY <2>2, <2>8 DEF RoundRows
  <2>10. RoundLedgerValid(r)
    <3>1. (row.status \in CrashEnded) = (row.settlement # "NOT_REQUIRED")
      BY <2>4, <2>8
    <3>2. (row.status \in CrashEnded) = (row.deadline = 0)
      BY <2>4, <2>8, <2>9
    <3> QED
      BY <2>2, <2>3, <2>5, <2>6, <2>7, <3>1, <3>2 DEF RoundLedgerValid
  <2>11. ASSUME NEW s \in 1..Len(CrashStages)
         PROVE  Cardinality({i \in DOMAIN crashLog[r] : crashLog[r][i].asset = s})
                  = IF s \in intents[r] THEN 1 ELSE 0
    <3>1. s \in Nat \ {0}
      BY <2>11
    <3> QED
      BY <1>1, <2>1, <3>1, AssetIsLoggedOnce
  <2> QED
    BY <2>2, <2>5, <2>8, <2>10, <2>11
<1>2. CrashInv => CrashExposureFollowsRounds
  <2>1. CrashInv => ReservedAmount(Reserved) <= CrashRisk.maxWallet
    BY DEF CrashInv, RoundInv
  <2> QED
    BY <1>1, <2>1 DEF CrashExposureFollowsRounds
<1> QED
  BY <1>2, CrashInvariant, PTL

\* Whoever settles, dies or is late, on any number of rounds, an operation that is final was
\* carried out, none is asked for before the ones ahead of it are final, and settlement,
\* round and house inventory become final together.
THEOREM CrashSettlementKeepsBacking == CrashSpec => []CrashSettlementIsBacked
<1>1. ASSUME CrashInv, NEW r \in Rounds, NEW i \in DOMAIN settle[r].ops
      PROVE  /\ Finalized(r, i) => effect[r][i] = "applied"
             /\ effect[r][i] # "none" => \A j \in 1..(i - 1) : Finalized(r, j)
  <2>1. settle[r].status # "NONE"
    <3>1. settle[r].status = "NONE" => settle[r].ops = << >>
      BY <1>1 DEF CrashInv, SettlementInv, SettlementFits, NoSettlement
    <3> QED
      BY <1>1, <3>1
  <2>2. i \in 1..Len(settle[r].ops) /\ PlanFollowed(settle[r].ops, PlanOperations(r), effect[r])
    BY <1>1, <2>1, OperationsAre DEF CrashInv
  <2> QED
    BY <2>2 DEF PlanFollowed, FinalIn, Finalized
<1>2. ASSUME CrashInv, NEW r \in Rounds
      PROVE  /\ (settle[r].status = "SETTLED") = (round[r].settlement = "SETTLED")
             /\ settle[r].status = "SETTLED" =>
                  /\ settle[r].count = Len(settle[r].ops)
                  /\ forfeited[r] = IF IsBust(r) THEN intents[r] ELSE {}
             /\ settle[r].status # "SETTLED" => forfeited[r] = {}
  BY <1>2 DEF CrashInv, SettlementInv, SettlementFits, IsBust
<1>3. CrashInv => CrashSettlementIsBacked
  BY <1>1, <1>2 DEF CrashSettlementIsBacked
<1> QED
  BY <1>3, CrashInvariant, PTL

(***************************************************************************)
(* Receipts.                                                               *)
(***************************************************************************)
\* A receipt that agrees with its settlement is of an active round that has none, or of
\* the last row of a round that has ended.
LEMMA ReceiptRow ==
  ASSUME CrashInv, NEW r \in Rounds, NEW v \in DOMAIN crashLog[r], ReceiptMetadata(r, v)
  PROVE  /\ settle[r].status \in {"NONE", "PENDING", "RECOVERY_REQUIRED", "SETTLED"}
         /\ settle[r].status = "NONE" => crashLog[r][v].status = "ACTIVE"
         /\ settle[r].status # "NONE" => crashLog[r][v].status \in CrashEnded
<1>1. settle[r].status \in {"NONE", "PENDING", "RECOVERY_REQUIRED", "SETTLED"}
  BY DEF CrashInv, SettlementInv, SettlementTypes, SettlementRows
<1>2. settle[r].status = "NONE" => crashLog[r][v].status = "ACTIVE"
  BY DEF ReceiptMetadata
<1>3. ASSUME settle[r].status # "NONE"
      PROVE  crashLog[r][v].status \in CrashEnded
  <2>1. crashLog[r][v].status # "ACTIVE"
    BY <1>3 DEF ReceiptMetadata
  <2>2. round[r].status \in CrashEnded
    BY <1>3, OperationsAre DEF CrashInv
  <2>3. round[r].status \notin {"NONE", "ACTIVE"}
    BY <2>2 DEF CrashEnded
  <2>4. RowTypes /\ LedgerFits(round[r], crashLog[r])
    BY <2>3 DEF CrashInv, RoundInv, RowsFit, RoundFits
  <2>5. PICK row \in RoundRows : row = round[r]
    BY <2>4 DEF RowTypes
  <2>6. PICK log \in Seq(Transitions) : log = crashLog[r]
    BY <2>4 DEF RowTypes
  <2>7. row.stage \in Nat
    BY DEF RoundRows
  <2>8. v \in 1..(row.stage + 1)
    <3>1. Len(log) = row.stage + 1
      BY <2>3, <2>4, <2>5, <2>6 DEF LedgerFits
    <3> QED
      BY <2>6, <3>1
  <2>9. \A i \in 1..row.stage : log[i].status = "ACTIVE"
    BY <2>4, <2>5, <2>6 DEF LedgerFits
  <2>10. v = row.stage + 1
    BY <2>1, <2>6, <2>7, <2>8, <2>9
  <2>11. log[row.stage + 1].status = row.status
    BY <2>3, <2>4, <2>5, <2>6 DEF LedgerFits
  <2> QED
    BY <2>2, <2>5, <2>6, <2>10, <2>11
<1> QED
  BY <1>1, <1>2, <1>3

\* A receipt that names a failed operation names one, and what became of it.
LEMMA OneIsRecovering ==
  ASSUME CrashInv, NEW r \in Rounds, settle[r].status = "RECOVERY_REQUIRED", SettlementVerified(r)
  PROVE  \E i \in DOMAIN settle[r].ops :
           /\ Recovering(r) = {i} /\ settle[r].ops[i].mode \in {"RECONCILE_ONLY", "RETRYABLE"}
           /\ \A j \in 1..(i - 1) : Finalized(r, j)
<1>1. /\ DOMAIN settle[r].ops = 1..Len(settle[r].ops) /\ Len(settle[r].ops) \in Nat
      /\ PlanFollowed(settle[r].ops, PlanOperations(r), effect[r])
  BY OperationsAre DEF CrashInv
<1>2. IsFiniteSet(Recovering(r))
  <2>1. IsFiniteSet(1..Len(settle[r].ops))
    BY <1>1, FS_Interval
  <2>2. Recovering(r) \subseteq 1..Len(settle[r].ops)
    BY <1>1 DEF Recovering
  <2> QED
    BY <2>1, <2>2, FS_Subset
<1>3. Cardinality(Recovering(r)) = 1
  BY DEF SettlementVerified, RecoveryIsUnambiguous
<1>4. PICK i : Recovering(r) = {i}
  BY <1>2, <1>3, FS_Singleton
<1>5. i \in DOMAIN settle[r].ops /\ settle[r].ops[i].status = "RECOVERY_REQUIRED"
  BY <1>4 DEF Recovering
<1>6. OperationEvidence(settle[r].ops[i])
  BY <1>5 DEF SettlementVerified
<1>7. settle[r].ops[i].mode \in {"RECONCILE_ONLY", "RETRYABLE"}
  BY <1>5, <1>6 DEF OperationEvidence
<1>8. \A j \in 1..(i - 1) : Finalized(r, j)
  BY <1>1, <1>5 DEF PlanFollowed, FinalIn, Finalized
<1> QED
  BY <1>4, <1>5, <1>7, <1>8

\* A settled round has had its whole plan carried out.
LEMMA SettledIsDone ==
  ASSUME CrashInv, NEW r \in Rounds, settle[r].status = "SETTLED"
  PROVE  /\ \A i \in DOMAIN settle[r].ops : Finalized(r, i) /\ effect[r][i] = "applied"
         /\ IsFiniteSet(intents[r])
         /\ Cardinality(intents[r]) * 3 <= Cardinality(DOMAIN settle[r].ops)
<1>1. /\ DOMAIN settle[r].ops = 1..Len(settle[r].ops) /\ Len(settle[r].ops) \in Nat
      /\ PlanFollowed(settle[r].ops, PlanOperations(r), effect[r]) /\ round[r].status \in CrashEnded
  BY OperationsAre DEF CrashInv
<1>2. \A i \in 1..Len(settle[r].ops) : FinalIn(settle[r].ops, i)
  BY DEF CrashInv, SettlementInv, SettlementFits
<1>3. \A i \in DOMAIN settle[r].ops : Finalized(r, i) /\ effect[r][i] = "applied"
  BY <1>1, <1>2 DEF PlanFollowed, FinalIn, Finalized
<1>4. round[r].status # "NONE"
  BY <1>1 DEF CrashEnded
<1>5. IsFiniteSet(intents[r]) /\ Cardinality(intents[r]) * 3 <= Len(PlanOperations(r))
  BY <1>4, PlanOfRound DEF CrashInv
<1>6. Cardinality(DOMAIN settle[r].ops) = Len(PlanOperations(r))
  <2>1. Cardinality(1..Len(settle[r].ops)) = Len(settle[r].ops)
    <3>1. PICK n \in Nat : n = Len(settle[r].ops)
      BY <1>1
    <3>2. Cardinality(1..n) = n
      BY Numbered
    <3> QED
      BY <3>1, <3>2
  <2> QED
    BY <1>1, <2>1 DEF PlanFollowed
<1> QED
  BY <1>3, <1>5, <1>6

\* A receipt has no more custody events than the round has intents.
LEMMA CustodyEventsAreIntents ==
  ASSUME NEW r, NEW v, IsFiniteSet(intents[r])
  PROVE  LET custody == {e \in ReceiptEvents(r, v) : e[1] = "custody"} IN
         IsFiniteSet(custody) /\ Cardinality(custody) <= Cardinality(intents[r])
<1> DEFINE custody == {e \in ReceiptEvents(r, v) : e[1] = "custody"}
           prepared == {<<"custody", "PREPARED", s>> : s \in intents[r]}
           f == [s \in intents[r] |-> <<"custody", "PREPARED", s>>]
<1>1. custody = prepared
  BY DEF ReceiptEvents
<1>2. f \in Surjection(intents[r], prepared)
  BY DEF Surjection
<1> HIDE DEF f, prepared, custody
<1>3. IsFiniteSet(prepared) /\ Cardinality(prepared) <= Cardinality(intents[r])
  BY <1>2, FS_Surjection
<1> QED
  BY <1>1, <1>3 DEF custody

\* What a settled receipt tells: every operation was carried out, with an event each.
LEMMA SettledReceipt ==
  ASSUME CrashInv, NEW r \in Rounds, NEW v, settle[r].status = "SETTLED"
  PROVE  LET done == {i \in DOMAIN settle[r].ops : effect[r][i] = "applied"} IN
         /\ done = DOMAIN settle[r].ops
         /\ \A i \in done : <<"settlement", "FINALIZED", i>> \in ReceiptEvents(r, v)
         /\ Cardinality({e \in ReceiptEvents(r, v) : e[1] = "custody"}) * 3 <= Cardinality(done)
         /\ CustodyState(r, v) = "prepared"
<1> DEFINE done == {i \in DOMAIN settle[r].ops : effect[r][i] = "applied"}
           custody == {e \in ReceiptEvents(r, v) : e[1] = "custody"}
<1>1. /\ \A i \in DOMAIN settle[r].ops : Finalized(r, i) /\ effect[r][i] = "applied"
      /\ IsFiniteSet(intents[r])
      /\ Cardinality(intents[r]) * 3 <= Cardinality(DOMAIN settle[r].ops)
  BY SettledIsDone
<1>2. done = DOMAIN settle[r].ops
  BY <1>1
<1>3. \A i \in done : <<"settlement", "FINALIZED", i>> \in ReceiptEvents(r, v)
  <2>1. ASSUME NEW i \in DOMAIN settle[r].ops
        PROVE  <<"settlement", "FINALIZED", i>> \in ReceiptEvents(r, v)
    <3>1. settle[r].ops[i].status = "FINALIZED"
      BY <1>1 DEF Finalized
    <3>2. <<"settlement", settle[r].ops[i].status, i>> \in ReceiptEvents(r, v)
      BY DEF ReceiptEvents
    <3> QED
      BY <3>1, <3>2
  <2> QED
    BY <1>2, <2>1
<1>4. IsFiniteSet(custody) /\ Cardinality(custody) <= Cardinality(intents[r])
  BY <1>1, CustodyEventsAreIntents
<1>5. Cardinality(custody) * 3 <= Cardinality(done)
  <2>1. PICK a \in Nat : a = Cardinality(custody)
    BY <1>4, FS_CardinalityType
  <2>2. PICK b \in Nat : b = Cardinality(intents[r])
    BY <1>1, FS_CardinalityType
  <2>3. PICK d \in Nat : d = Cardinality(DOMAIN settle[r].ops)
    <3>1. IsFiniteSet(DOMAIN settle[r].ops)
      BY OperationsAre, FS_Interval DEF CrashInv
    <3> QED
      BY <3>1, FS_CardinalityType
  <2>4. a <= b /\ b * 3 <= d
    BY <1>1, <1>4, <2>1, <2>2, <2>3
  <2>5. a * 3 <= d
    BY <2>4
  <2> QED
    BY <1>2, <2>1, <2>3, <2>5
<1>6. CustodyState(r, v) = "prepared"
  BY DEF CustodyState, SettlementStatus
<1> QED
  BY <1>2, <1>3, <1>5, <1>6

\* Whatever settles, dies or is late between the two reads of a receipt, the page
\* understands it and it tells what happened to the money: an active round has moved none,
\* a resolved one has had its whole plan carried out, and a disputed or failed one waits
\* for the first operation that is not final.
THEOREM CrashReceiptKeepsBacking == CrashSpec => []CrashReceiptIsBacked
<1>1. ASSUME CrashInv, NEW r \in Rounds, NEW v \in DOMAIN crashLog[r], ReceiptAvailable(r, v)
      PROVE  LET value == ResolutionStatus(r, v)
                 done == {i \in DOMAIN settle[r].ops : effect[r][i] = "applied"} IN
             /\ ClientAcceptsResolution(value, crashLog[r][v].status, SettlementStatus(r, v))
             /\ value = "active" =>
                  /\ \A i \in 1..MaxOperations : effect[r][i] = "none"
                  /\ SafeNextAction(r, v) = "choose-action"
             /\ value \in {"bust", "timed-out", "cash-out"} =>
                  /\ done = DOMAIN settle[r].ops
                  /\ \A i \in done : <<"settlement", "FINALIZED", i>> \in ReceiptEvents(r, v)
                  /\ Cardinality({e \in ReceiptEvents(r, v) : e[1] = "custody"}) * 3 <= Cardinality(done)
                  /\ CustodyState(r, v) = "prepared"
             /\ value \in {"disputed", "failed"} =>
                  \A i \in Recovering(r), j \in DOMAIN settle[r].ops : j < i => Finalized(r, j)
  <2> DEFINE value == ResolutionStatus(r, v)
  <2>1. /\ settle[r].status \in {"NONE", "PENDING", "RECOVERY_REQUIRED", "SETTLED"}
        /\ settle[r].status = "NONE" => crashLog[r][v].status = "ACTIVE"
        /\ settle[r].status # "NONE" => crashLog[r][v].status \in CrashEnded
    BY <1>1, ReceiptRow DEF ReceiptAvailable
  <2>2. CASE settle[r].status = "NONE"
    <3>1. value = "active" /\ SettlementStatus(r, v) = "NOT_REQUIRED"
      BY <2>1, <2>2 DEF ResolutionStatus, SettlementStatus
    <3>2. \A i \in 1..MaxOperations : effect[r][i] = "none"
      BY <1>1, <2>2 DEF CrashInv, SettlementInv, SettlementFits
    <3>3. SafeNextAction(r, v) = "choose-action"
      BY <2>1, <2>2 DEF SafeNextAction
    <3>4. ClientAcceptsResolution("active", crashLog[r][v].status, SettlementStatus(r, v))
      BY <2>1, <2>2, <3>1 DEF ClientAcceptsResolution
    <3> QED
      BY <3>1, <3>2, <3>3, <3>4
  <2>3. CASE settle[r].status = "PENDING"
    <3>1. crashLog[r][v].status # "ACTIVE" /\ SettlementStatus(r, v) = "PENDING"
      BY <2>1, <2>3 DEF SettlementStatus, CrashEnded
    <3>2. value = "recovering"
      BY <3>1 DEF ResolutionStatus
    <3>3. ClientAcceptsResolution("recovering", crashLog[r][v].status, SettlementStatus(r, v))
      BY <3>1 DEF ClientAcceptsResolution
    <3> QED
      BY <3>2, <3>3
  <2>4. CASE settle[r].status = "RECOVERY_REQUIRED"
    <3>1. crashLog[r][v].status # "ACTIVE" /\ SettlementStatus(r, v) = "RECOVERY_REQUIRED"
      BY <2>1, <2>4 DEF SettlementStatus, CrashEnded
    <3>2. PICK i \in DOMAIN settle[r].ops :
            /\ Recovering(r) = {i} /\ settle[r].ops[i].mode \in {"RECONCILE_ONLY", "RETRYABLE"}
            /\ \A j \in 1..(i - 1) : Finalized(r, j)
      BY <1>1, <2>4, OneIsRecovering DEF ReceiptAvailable, FindFixtureSettlement
    <3>3. DOMAIN settle[r].ops = 1..Len(settle[r].ops) /\ Len(settle[r].ops) \in Nat
      BY <1>1, <2>4, OperationsAre DEF CrashInv
    <3>4. value = [RECONCILE_ONLY |-> "disputed", RETRYABLE |-> "failed"][settle[r].ops[i].mode]
      <4>1. (CHOOSE a \in Recovering(r) : \A b \in Recovering(r) : a <= b) = i
        BY <3>2, <3>3
      <4> QED
        BY <3>1, <3>2, <4>1 DEF ResolutionStatus
    <3>5. value \in {"disputed", "failed"}
      BY <3>2, <3>4
    <3>6. ClientAcceptsResolution(value, crashLog[r][v].status, SettlementStatus(r, v))
      <4> HIDE DEF value
      <4> QED
        BY <3>1, <3>5 DEF ClientAcceptsResolution
    <3>7. \A a \in Recovering(r), j \in DOMAIN settle[r].ops : j < a => Finalized(r, j)
      BY <3>2, <3>3
    <3> QED
      BY <3>5, <3>6, <3>7
  <2>5. CASE settle[r].status = "SETTLED"
    <3>1. crashLog[r][v].status \in CrashEnded /\ crashLog[r][v].status # "ACTIVE"
          /\ SettlementStatus(r, v) = "SETTLED"
      BY <2>1, <2>5 DEF SettlementStatus, CrashEnded
    <3>2. /\ value \in {"bust", "timed-out", "cash-out"}
          /\ value = "bust" => crashLog[r][v].status = "BUSTED"
          /\ value = "timed-out" => crashLog[r][v].status = "DEFAULTED"
          /\ value = "cash-out" => crashLog[r][v].status \in {"CASHED_OUT", "COMPLETED"}
      BY <3>1 DEF ResolutionStatus, CrashEnded
    <3>3. ClientAcceptsResolution(value, crashLog[r][v].status, SettlementStatus(r, v))
      <4> HIDE DEF value
      <4> QED
        BY <3>1, <3>2 DEF ClientAcceptsResolution
    <3>4. value \notin {"active", "disputed", "failed"}
      BY <3>2
    <3> QED
      BY <1>1, <2>5, <3>3, <3>4, SettledReceipt
  <2> QED
    BY <2>1, <2>2, <2>3, <2>4, <2>5
<1>2. CrashInv => CrashReceiptIsBacked
  BY <1>1 DEF CrashReceiptIsBacked
<1> QED
  BY <1>2, CrashInvariant, PTL

(***************************************************************************)
(* The payout of a fantasy prize pool, for whatever rules, placements and  *)
(* pool: first the sums it takes, as sums of tables (Totals).              *)
(***************************************************************************)
Summing(u, f, S) == u = [s \in SUBSET S |-> IF s = {} THEN 0 ELSE f[Pick(s)] + u[s \ {Pick(s)}]]

LEMMA SummingIsTotals ==
  ASSUME NEW f, NEW S \in SUBSET DOMAIN f, NEW u
  PROVE  Summing(u, f, S) <=> Totals(u, Amounted(f), S)
<1>1. \A s \in SUBSET S : s # {} => Amounted(f)[Pick(s)].amount = f[Pick(s)]
  <2>1. ASSUME NEW s \in SUBSET S, s # {}
        PROVE  Pick(s) \in DOMAIN f
    BY <2>1, PickIsMember
  <2> QED
    BY <2>1 DEF Amounted
<1> DEFINE A == [s \in SUBSET S |-> IF s = {} THEN 0 ELSE f[Pick(s)] + u[s \ {Pick(s)}]]
           B == [s \in SUBSET S |->
                   IF s = {} THEN 0 ELSE Amounted(f)[Pick(s)].amount + u[s \ {Pick(s)}]]
<1>2. A = B
  BY <1>1
<1>3. Summing(u, f, S) <=> u = A
  BY DEF Summing
<1>4. Totals(u, Amounted(f), S) <=> u = B
  BY DEF Totals
<1> QED
  BY <1>2, <1>3, <1>4

\* There is such a table, and it ends with the sum.
LEMMA SummingSums ==
  ASSUME NEW f, NEW S \in SUBSET DOMAIN f, IsFiniteSet(S)
  PROVE  /\ \E u : Summing(u, f, S)
         /\ \A u : Summing(u, f, S) => u[S] = Sum(f, S)
<1> DEFINE g == CHOOSE u : Totals(u, Amounted(f), S)
<1>1. \E u : Totals(u, Amounted(f), S)
  BY TotalsExist
<1>2. Totals(g, Amounted(f), S)
  BY <1>1
<1>3. Sum(f, S) = g[S]
  BY DEF Sum, Total
<1> HIDE DEF g
<1>4. ASSUME NEW u, Summing(u, f, S)
      PROVE  u[S] = Sum(f, S)
  <2>1. Totals(u, Amounted(f), S)
    BY <1>4, SummingIsTotals
  <2>2. \A s \in SUBSET S : u[s] = g[s]
    BY <2>1, <1>2, TotalsAgree
  <2> QED
    BY <2>2, <1>3
<1> QED
  BY <1>1, <1>4, SummingIsTotals

LEMMA TotalSharesIsSum ==
  ASSUME NEW shares, IsFiniteSet(DOMAIN shares)
  PROVE  TotalShares(shares) = Sum(shares, DOMAIN shares)
<1> DEFINE u == CHOOSE v : Summing(v, shares, DOMAIN shares)
<1>1. Summing(u, shares, DOMAIN shares)
  BY SummingSums
<1>2. TotalShares(shares) = u[DOMAIN shares]
  BY DEF TotalShares, MapThenSumSet, MapThenFoldSet, Summing, Pick
<1> QED
  BY <1>1, <1>2, SummingSums

Rewards(amount, shares) == [w \in DOMAIN shares |-> HolderReward(amount, shares, w)]

LEMMA HolderDistributedIsSum ==
  ASSUME NEW amount, NEW shares, IsFiniteSet(DOMAIN shares)
  PROVE  HolderDistributed(amount, shares) = Sum(Rewards(amount, shares), DOMAIN shares)
<1> DEFINE S == DOMAIN shares
           P(v) == v = [s \in SUBSET S |->
                          IF s = {} THEN 0
                          ELSE HolderReward(amount, shares, Pick(s)) + v[s \ {Pick(s)}]]
           u == CHOOSE v : P(v)
<1>1. \A v : P(v) <=> Summing(v, Rewards(amount, shares), S)
  <2>1. \A s \in SUBSET S : s # {} => Rewards(amount, shares)[Pick(s)] = HolderReward(amount, shares, Pick(s))
    BY PickIsMember DEF Rewards
  <2>2. ASSUME NEW v
        PROVE  P(v) <=> Summing(v, Rewards(amount, shares), S)
    BY <2>1 DEF Summing
  <2> QED
    BY <2>2
<1>2. HolderDistributed(amount, shares) = u[S]
  BY DEF HolderDistributed, MapThenSumSet, MapThenFoldSet, Pick
<1>3. S \in SUBSET DOMAIN Rewards(amount, shares)
  BY DEF Rewards
<1> HIDE DEF S, P
<1>4. P(u)
  BY <1>1, <1>3, SummingSums DEF S
<1> HIDE DEF u
<1> QED
  BY <1>1, <1>2, <1>3, <1>4, SummingSums DEF S

FilledPlaces(placements) == {k \in DOMAIN placements : TotalShares(placements[k].shares) > 0}
Allocations(rules, placements, pool) ==
  [k \in DOMAIN placements |-> PlaceAllocation(rules, placements[k], pool)]
Distributions(rules, placements, pool) ==
  [k \in DOMAIN placements |->
     HolderDistributed(Allocations(rules, placements, pool)[k], placements[k].shares)]
Holders(placements) == [k \in DOMAIN placements |-> Cardinality(DOMAIN placements[k].shares)]
Places(rules) == [p \in DOMAIN rules |-> Len(rules[p])]
PositionTotals(rules) == [p \in DOMAIN rules |-> Sum(rules[p], DOMAIN rules[p])]

LEMMA HoldersOfIsSum ==
  ASSUME NEW placements, IsFiniteSet(DOMAIN placements)
  PROVE  HoldersOf(placements) = Sum(Holders(placements), DOMAIN placements)
<1> DEFINE S == DOMAIN placements
           P(v) == v = [s \in SUBSET S |->
                          IF s = {} THEN 0
                          ELSE Cardinality(DOMAIN placements[Pick(s)].shares) + v[s \ {Pick(s)}]]
           u == CHOOSE v : P(v)
<1>1. \A v : P(v) <=> Summing(v, Holders(placements), S)
  <2>1. \A s \in SUBSET S : s # {} =>
          Holders(placements)[Pick(s)] = Cardinality(DOMAIN placements[Pick(s)].shares)
    BY PickIsMember DEF Holders
  <2>2. ASSUME NEW v
        PROVE  P(v) <=> Summing(v, Holders(placements), S)
    BY <2>1 DEF Summing
  <2> QED
    BY <2>2
<1>2. HoldersOf(placements) = u[S]
  BY DEF HoldersOf, MapThenSumSet, MapThenFoldSet, Pick
<1>3. S \in SUBSET DOMAIN Holders(placements)
  BY DEF Holders
<1> HIDE DEF S, P
<1>4. P(u)
  BY <1>1, <1>3, SummingSums DEF S
<1> HIDE DEF u
<1> QED
  BY <1>1, <1>2, <1>3, <1>4, SummingSums DEF S

LEMMA PlacesOfIsSum ==
  ASSUME NEW rules, IsFiniteSet(DOMAIN rules)
  PROVE  PlacesOf(rules) = Sum(Places(rules), DOMAIN rules)
<1> DEFINE S == DOMAIN rules
           P(v) == v = [s \in SUBSET S |->
                          IF s = {} THEN 0 ELSE Len(rules[Pick(s)]) + v[s \ {Pick(s)}]]
           u == CHOOSE v : P(v)
<1>1. \A v : P(v) <=> Summing(v, Places(rules), S)
  <2>1. \A s \in SUBSET S : s # {} => Places(rules)[Pick(s)] = Len(rules[Pick(s)])
    BY PickIsMember DEF Places
  <2>2. ASSUME NEW v
        PROVE  P(v) <=> Summing(v, Places(rules), S)
    BY <2>1 DEF Summing
  <2> QED
    BY <2>2
<1>2. PlacesOf(rules) = u[S]
  BY DEF PlacesOf, MapThenSumSet, MapThenFoldSet, Pick
<1>3. S \in SUBSET DOMAIN Places(rules)
  BY DEF Places
<1> HIDE DEF S, P
<1>4. P(u)
  BY <1>1, <1>3, SummingSums DEF S
<1> HIDE DEF u
<1> QED
  BY <1>1, <1>2, <1>3, <1>4, SummingSums DEF S

LEMMA BasisPointsTotalIsSum ==
  ASSUME NEW rules, IsFiniteSet(DOMAIN rules), \A p \in DOMAIN rules : IsFiniteSet(DOMAIN rules[p])
  PROVE  BasisPointsTotal(rules) = Sum(PositionTotals(rules), DOMAIN rules)
<1> DEFINE S == DOMAIN rules
           InPosition(p) == CHOOSE v : Summing(v, rules[p], DOMAIN rules[p])
           P(v) == v = [s \in SUBSET S |->
                          IF s = {} THEN 0
                          ELSE InPosition(Pick(s))[DOMAIN rules[Pick(s)]] + v[s \ {Pick(s)}]]
           u == CHOOSE v : P(v)
<1>1. \A p \in S : InPosition(p)[DOMAIN rules[p]] = Sum(rules[p], DOMAIN rules[p])
  <2> SUFFICES ASSUME NEW p \in S
               PROVE  InPosition(p)[DOMAIN rules[p]] = Sum(rules[p], DOMAIN rules[p])
    OBVIOUS
  <2>1. Summing(InPosition(p), rules[p], DOMAIN rules[p])
    BY SummingSums
  <2> QED
    BY <2>1, SummingSums
<1>2. BasisPointsTotal(rules) = u[S]
  BY DEF BasisPointsTotal, MapThenSumSet, MapThenFoldSet, Pick, Summing
<1> HIDE DEF InPosition
<1>3. \A v : P(v) <=> Summing(v, PositionTotals(rules), S)
  <2>1. \A s \in SUBSET S : s # {} =>
          PositionTotals(rules)[Pick(s)] = InPosition(Pick(s))[DOMAIN rules[Pick(s)]]
    BY <1>1, PickIsMember DEF PositionTotals
  <2>2. ASSUME NEW v
        PROVE  P(v) <=> Summing(v, PositionTotals(rules), S)
    BY <2>1 DEF Summing
  <2> QED
    BY <2>2
<1>4. S \in SUBSET DOMAIN PositionTotals(rules)
  BY DEF PositionTotals
<1> HIDE DEF S, P
<1>5. P(u)
  BY <1>3, <1>4, SummingSums DEF S
<1> HIDE DEF u
<1> QED
  BY <1>2, <1>3, <1>4, <1>5, SummingSums DEF S

LEMMA PayoutsAreSums ==
  ASSUME NEW rules, NEW placements, NEW pool, IsFiniteSet(DOMAIN placements)
  PROVE  LET paid == Sum(Distributions(rules, placements, pool), FilledPlaces(placements))
             allocated == Sum(Allocations(rules, placements, pool), FilledPlaces(placements))
         IN  /\ Payouts(rules, placements, pool).distributed = paid
             /\ Payouts(rules, placements, pool).residual = allocated - paid
             /\ Payouts(rules, placements, pool).undistributed = pool - allocated
<1> DEFINE S == FilledPlaces(placements)
           A == Allocations(rules, placements, pool)
           D == Distributions(rules, placements, pool)
           P(v) == v = [s \in SUBSET S |->
                          IF s = {} THEN 0
                          ELSE PlaceAllocation(rules, placements[Pick(s)], pool) + v[s \ {Pick(s)}]]
           Q(v) == v = [s \in SUBSET S |->
                          IF s = {} THEN 0
                          ELSE HolderDistributed(PlaceAllocation(rules, placements[Pick(s)], pool),
                                                 placements[Pick(s)].shares) + v[s \ {Pick(s)}]]
           u == CHOOSE v : P(v)
           w == CHOOSE v : Q(v)
<1>1. S \in SUBSET DOMAIN A /\ S \in SUBSET DOMAIN D /\ IsFiniteSet(S)
  <2>1. S \in SUBSET DOMAIN placements
    BY DEF FilledPlaces
  <2>2. IsFiniteSet(S)
    BY <2>1, FS_Subset
  <2> QED
    BY <2>1, <2>2 DEF Allocations, Distributions
<1>2. \A s \in SUBSET S : s # {} =>
        /\ A[Pick(s)] = PlaceAllocation(rules, placements[Pick(s)], pool)
        /\ D[Pick(s)] = HolderDistributed(A[Pick(s)], placements[Pick(s)].shares)
  <2> SUFFICES ASSUME NEW s \in SUBSET S, s # {}
               PROVE  /\ A[Pick(s)] = PlaceAllocation(rules, placements[Pick(s)], pool)
                      /\ D[Pick(s)] = HolderDistributed(A[Pick(s)], placements[Pick(s)].shares)
    OBVIOUS
  <2>1. Pick(s) \in s
    BY PickIsMember
  <2>2. Pick(s) \in DOMAIN placements
    BY <2>1 DEF FilledPlaces
  <2> QED
    BY <2>2 DEF Allocations, Distributions
<1>3. \A v : P(v) <=> Summing(v, A, S)
  <2>1. ASSUME NEW v
        PROVE  P(v) <=> Summing(v, A, S)
    BY <1>2 DEF Summing
  <2> QED
    BY <2>1
<1>4. \A v : Q(v) <=> Summing(v, D, S)
  <2>1. ASSUME NEW v
        PROVE  Q(v) <=> Summing(v, D, S)
    BY <1>2 DEF Summing
  <2> QED
    BY <2>1
<1>5. Payouts(rules, placements, pool)
        = [distributed |-> w[S], residual |-> u[S] - w[S], undistributed |-> pool - u[S]]
  BY DEF Payouts, MapThenSumSet, MapThenFoldSet, Pick, FilledPlaces
<1> HIDE DEF S, A, D, P, Q
<1>6. P(u) /\ Q(w)
  BY <1>1, <1>3, <1>4, SummingSums
<1> HIDE DEF u, w
<1>7. u[S] = Sum(A, S) /\ w[S] = Sum(D, S)
  BY <1>1, <1>3, <1>4, <1>6, SummingSums
<1> QED
  BY <1>5, <1>7 DEF S, A, D

(***************************************************************************)
(* Rounding down.                                                          *)
(***************************************************************************)
LEMMA DivisionRounds ==
  ASSUME NEW a \in Nat, NEW d \in Nat \ {0}
  PROVE  /\ a \div d \in Nat /\ d * (a \div d) <= a /\ a < d * (a \div d) + d
  OBVIOUS

LEMMA ProductIsNat ==
  ASSUME NEW a \in Nat, NEW b \in Nat
  PROVE  a * b \in Nat /\ a * b = b * a
  OBVIOUS

LEMMA ProductIsMonotone ==
  ASSUME NEW a \in Nat, NEW b \in Nat, NEW c \in Nat, a <= b
  PROVE  c * a <= c * b
  OBVIOUS

LEMMA ProductReflects ==
  ASSUME NEW c \in Nat \ {0}, NEW a \in Nat, NEW b \in Nat, c * a <= c * b
  PROVE  a <= b
  OBVIOUS

\* What a place hands out is its amount but for less than a unit a holder.
LEMMA PlaceLosesOnlyDust ==
  ASSUME NEW a \in Nat, NEW shares, IsFiniteSet(DOMAIN shares), shares \in [DOMAIN shares -> Nat],
         TotalShares(shares) > 0
  PROVE  /\ HolderDistributed(a, shares) \in Nat
         /\ HolderDistributed(a, shares) <= a
         /\ a <= HolderDistributed(a, shares) + Cardinality(DOMAIN shares)
<1> DEFINE S == DOMAIN shares
           t == TotalShares(shares)
           r == Rewards(a, shares)
           exact == [w \in S |-> a * shares[w]]
           scaled == [w \in S |-> t * r[w]]
           unit == [w \in S |-> 1]
           raised == [w \in S |-> r[w] + 1]
           above == [w \in S |-> t * raised[w]]
<1>0. S = DOMAIN shares /\ IsFiniteSet(S) /\ S \in SUBSET S /\ shares \in [S -> Nat]
  OBVIOUS
<1>1. t = Sum(shares, S) /\ t \in Nat \ {0}
  <2>1. t = Sum(shares, S)
    BY TotalSharesIsSum
  <2>2. Sum(shares, S) \in Nat
    BY SumTakesOut
  <2>3. t > 0
    OBVIOUS
  <2> HIDE DEF t, S
  <2> QED
    BY <2>1, <2>2, <2>3
<1>2. \A w \in S : r[w] = (a * shares[w]) \div t
  BY DEF Rewards, HolderReward
<1>3. HolderDistributed(a, shares) = Sum(r, S)
  BY HolderDistributedIsSum
<1>3a. DOMAIN r = S
  BY DEF Rewards
<1>3b. r = [w \in S |-> r[w]]
  BY DEF Rewards
<1> HIDE DEF S, t, r
<1>4. \A w \in S : /\ a * shares[w] \in Nat /\ r[w] \in Nat
                   /\ t * r[w] <= a * shares[w] /\ a * shares[w] <= t * (r[w] + 1)
  <2> SUFFICES ASSUME NEW w \in S
               PROVE  /\ a * shares[w] \in Nat /\ r[w] \in Nat
                      /\ t * r[w] <= a * shares[w] /\ a * shares[w] <= t * (r[w] + 1)
    OBVIOUS
  <2>1. a * shares[w] \in Nat
    BY <1>0, ProductIsNat
  <2>2. /\ r[w] \in Nat /\ t * r[w] <= a * shares[w] /\ a * shares[w] < t * r[w] + t
    BY <1>1, <1>2, <2>1, DivisionRounds
  <2>3. t * (r[w] + 1) = t * r[w] + t * 1 /\ t * 1 = t /\ t * r[w] \in Nat
    BY <1>1, <2>2, Distributes
  <2> QED
    BY <1>1, <2>1, <2>2, <2>3
<1>5. /\ r \in [S -> Nat] /\ exact \in [S -> Nat] /\ unit \in [S -> Nat]
      /\ raised \in [S -> Nat] /\ scaled \in [S -> Nat] /\ above \in [S -> Nat]
  <2>1. \A w \in S : r[w] \in Nat /\ r[w] + 1 \in Nat /\ t * r[w] \in Nat /\ t * (r[w] + 1) \in Nat
    BY <1>1, <1>4, ProductIsNat
  <2> QED
    BY <1>3b, <1>4, <2>1
<1>6. /\ \A w \in S : exact[w] = a * shares[w] /\ scaled[w] = t * r[w] /\ unit[w] = 1
      /\ \A w \in S : above[w] = t * raised[w] /\ raised[w] = r[w] + unit[w]
      /\ \A w \in S : scaled[w] <= exact[w] /\ exact[w] <= above[w]
  BY <1>4
<1> HIDE DEF exact, scaled, unit, raised, above
<1>6a. (\A w \in S : exact[w] = a * shares[w]) /\ exact \in [S -> Nat] /\ shares \in [S -> Nat]
  BY <1>0, <1>5, <1>6
<1>6b. (\A w \in S : scaled[w] = t * r[w]) /\ scaled \in [S -> Nat] /\ r \in [S -> Nat] /\ t \in Nat
  BY <1>1, <1>5, <1>6
<1>6c. (\A w \in S : above[w] = t * raised[w]) /\ above \in [S -> Nat] /\ raised \in [S -> Nat] /\ t \in Nat
  BY <1>1, <1>5, <1>6
<1>6d. (\A w \in S : raised[w] = r[w] + unit[w]) /\ unit \in [S -> Nat] /\ (\A w \in S : unit[w] = 1)
  BY <1>5, <1>6
<1>7. Sum(exact, S) = a * Sum(shares, S)
  <2>1. \A R \in SUBSET S : Sum(exact, R) = a * Sum(shares, R)
    BY <1>0, <1>6a, SumScales
  <2> QED
    BY <2>1
<1>8. Sum(scaled, S) = t * Sum(r, S) /\ Sum(above, S) = t * Sum(raised, S)
  <2>1. \A R \in SUBSET S : Sum(scaled, R) = t * Sum(r, R)
    BY <1>0, <1>6b, SumScales
  <2>2. \A R \in SUBSET S : Sum(above, R) = t * Sum(raised, R)
    BY <1>0, <1>6c, SumScales
  <2> QED
    BY <2>1, <2>2
<1>9. Sum(raised, S) = Sum(r, S) + Cardinality(S)
  <2>1. \A R \in SUBSET S : Sum(raised, R) = Sum(r, R) + Sum(unit, R)
    <3>1. /\ r \in [S -> Nat] /\ unit \in [S -> Nat] /\ raised \in [S -> Nat] /\ IsFiniteSet(S)
          /\ \A w \in S : raised[w] = r[w] + unit[w]
      BY <1>0, <1>6b, <1>6c, <1>6d
    <3> HIDE DEF unit, raised, exact, scaled, above
    <3> QED
      BY ONLY <3>1, SumAdds
  <2>2. \A R \in SUBSET S : Sum(unit, R) = Cardinality(R)
    BY <1>0, <1>6d, SumCounts
  <2> QED
    BY <2>1, <2>2
<1>10. Sum(scaled, S) <= Sum(exact, S) /\ Sum(exact, S) <= Sum(above, S)
  <2>1. Sum(scaled, S) <= Sum(exact, S)
    BY <1>0, <1>5, <1>6, SumIsMonotone
  <2>2. Sum(exact, S) <= Sum(above, S)
    BY <1>0, <1>5, <1>6, SumIsMonotone
  <2> QED
    BY <2>1, <2>2
<1>11. Sum(r, S) \in Nat /\ Sum(raised, S) \in Nat
  <2>1. Sum(r, S) \in Nat
    BY <1>0, <1>5, SumTakesOut
  <2>2. Sum(raised, S) \in Nat
    BY <1>0, <1>5, SumTakesOut
  <2> QED
    BY <2>1, <2>2
<1>12. a * t = t * a
  BY <1>1, ProductIsNat
<1>13. t * Sum(r, S) <= t * a /\ t * a <= t * Sum(raised, S)
  BY <1>1, <1>7, <1>8, <1>10, <1>12
<1>14. Sum(r, S) <= a /\ a <= Sum(raised, S)
  BY <1>1, <1>11, <1>13, ProductReflects
<1> QED
  BY <1>3, <1>9, <1>11, <1>14 DEF S

\* A holder gets his exact share of the pool, less than two units short.
LEMMA HolderLosesOnlyDust ==
  ASSUME NEW total \in Nat \ {0}, NEW points \in Nat, NEW pool \in Nat, NEW t \in Nat \ {0},
         NEW s \in Nat, s <= t
  PROVE  LET amount == (pool * points) \div total
             reward == (amount * s) \div t
         IN  /\ (total * t) * reward <= pool * points * s
             /\ pool * points * s < (total * t) * (reward + 2)
<1> DEFINE exact == pool * points
           a == exact \div total
           r == (a * s) \div t
<1>1. exact \in Nat
  BY ProductIsNat
<1> HIDE DEF exact
<1>2. a \in Nat /\ total * a <= exact /\ exact < total * a + total
  BY <1>1, DivisionRounds
<1> HIDE DEF a
<1>3. a * s \in Nat
  BY <1>2, ProductIsNat
<1>4. r \in Nat /\ t * r <= a * s /\ a * s < t * r + t
  BY <1>3, DivisionRounds
<1> HIDE DEF r
<1> DEFINE x == total * a
           y == t * r
           z == a * s
<1>5. x \in Nat /\ y \in Nat /\ z \in Nat
  BY <1>2, <1>3, <1>4, ProductIsNat
<1>6. total * y = (total * t) * r /\ total * z = x * s
  BY <1>2, <1>4
<1>7. (total * t) * (r + 2) = total * y + total * t + total * t
  BY <1>4
<1>8. exact \in Nat /\ x <= exact /\ exact <= x + (total - 1) /\ total - 1 \in Nat
      /\ y <= z /\ z <= y + (t - 1) /\ t - 1 \in Nat
  BY <1>1, <1>2, <1>4, <1>5
<1> HIDE DEF x, y, z
<1>9. s * x <= s * exact /\ total * y <= total * z
  BY <1>5, <1>8, ProductIsMonotone
<1>10. (total * t) * r <= exact * s
  <2>1. s * x = x * s /\ s * exact = exact * s
    BY <1>1, <1>5, ProductIsNat
  <2>2. /\ total * y \in Nat /\ total * z \in Nat /\ x * s \in Nat /\ exact * s \in Nat
    BY <1>1, <1>5, ProductIsNat
  <2> QED
    BY <1>6, <1>9, <2>1, <2>2
<1>11. exact * s < (total * t) * (r + 2)
  <2>1. x + (total - 1) \in Nat /\ y + (t - 1) \in Nat
    BY <1>5, <1>8
  <2>2. s * exact <= s * (x + (total - 1)) /\ total * z <= total * (y + (t - 1))
    BY <1>5, <1>8, <2>1, ProductIsMonotone
  <2>3. s * (x + (total - 1)) = s * x + s * (total - 1) /\ s * x = x * s /\ s * exact = exact * s
    BY <1>1, <1>5, <1>8, Distributes, ProductIsNat
  <2>4. total * (y + (t - 1)) = total * y + total * (t - 1)
    BY <1>5, <1>8, Distributes
  <2>5. (total - 1) * s <= (total - 1) * t /\ s * (total - 1) = (total - 1) * s
    BY <1>8, ProductIsMonotone, ProductIsNat
  <2>6. (total - 1) * t = total * t - t /\ total * (t - 1) = total * t - total
    OBVIOUS
  <2>7. /\ s * (total - 1) \in Nat /\ x * s \in Nat /\ exact * s \in Nat /\ total * y \in Nat
        /\ total * z \in Nat /\ total * t \in Nat /\ total * (t - 1) \in Nat /\ (total - 1) * t \in Nat
    BY <1>1, <1>5, <1>8, ProductIsNat
  <2>8. exact * s <= x * s + (total * t - t)
    BY <2>2, <2>3, <2>5, <2>6, <2>7
  <2>9. x * s <= total * y + (total * t - total)
    BY <1>6, <2>2, <2>4, <2>6, <2>7
  <2> HIDE DEF r
  <2> QED
    BY <1>7, <2>7, <2>8, <2>9
<1> QED
  BY <1>10, <1>11 DEF r, a, exact

(***************************************************************************)
(* The cells of a table of rows.                                           *)
(***************************************************************************)
RowCells(row, p) == {<<p, n>> : n \in DOMAIN row[p]}
Cells(row, R) == UNION {RowCells(row, p) : p \in R}

LEMMA CellsOfRows ==
  ASSUME NEW row, NEW R
  PROVE  /\ Cells(row, {}) = {}
         /\ \A c : c \in Cells(row, R) <=> \E p \in R : \E n \in DOMAIN row[p] : c = <<p, n>>
         /\ \A p \in R : /\ Cells(row, R) = Cells(row, R \ {p}) \cup RowCells(row, p)
                         /\ RowCells(row, p) \cap Cells(row, R \ {p}) = {}
<1>1. \A c : c \in Cells(row, R) <=> \E p \in R : \E n \in DOMAIN row[p] : c = <<p, n>>
  BY DEF Cells, RowCells
<1>2. Cells(row, {}) = {}
  BY DEF Cells
<1>3. ASSUME NEW p \in R
      PROVE  /\ Cells(row, R) = Cells(row, R \ {p}) \cup RowCells(row, p)
             /\ RowCells(row, p) \cap Cells(row, R \ {p}) = {}
  <2>1. Cells(row, R) = Cells(row, R \ {p}) \cup RowCells(row, p)
    BY DEF Cells
  <2>2. RowCells(row, p) \cap Cells(row, R \ {p}) = {}
    BY DEF Cells, RowCells
  <2> QED
    BY <2>1, <2>2
<1> QED
  BY <1>1, <1>2, <1>3

LEMMA RowCellsFinite ==
  ASSUME NEW row, NEW p, IsFiniteSet(DOMAIN row[p])
  PROVE  IsFiniteSet(RowCells(row, p))
<1> DEFINE f == [n \in DOMAIN row[p] |-> <<p, n>>]
<1>1. f \in Surjection(DOMAIN row[p], RowCells(row, p))
  BY DEF Surjection, RowCells
<1> QED
  BY <1>1, FS_Surjection

LEMMA CellsFinite ==
  ASSUME NEW P, IsFiniteSet(P), NEW row, \A p \in P : IsFiniteSet(DOMAIN row[p])
  PROVE  IsFiniteSet(Cells(row, P))
<1> DEFINE T == {R \in SUBSET P : IsFiniteSet(Cells(row, R))}
<1>1. {} \in T
  BY CellsOfRows, FS_EmptySet
<1>2. ASSUME NEW R \in SUBSET P, NEW p \in R, R \ {p} \in T
      PROVE  R \in T
  <2>1. Cells(row, R) = Cells(row, R \ {p}) \cup RowCells(row, p)
    BY CellsOfRows
  <2>2. IsFiniteSet(Cells(row, R \ {p})) /\ IsFiniteSet(RowCells(row, p))
    BY <1>2, RowCellsFinite
  <2>3. IsFiniteSet(Cells(row, R))
    BY <2>1, <2>2, FS_Union
  <2> QED
    BY <2>3
<1> HIDE DEF T
<1>3. \A R \in SUBSET P : R \in T
  BY <1>1, <1>2, SubsetInduction
<1> QED
  BY <1>3 DEF T

\* The sum of the sums of the rows is the sum over the cells.
LEMMA SumOfRow ==
  ASSUME NEW P, IsFiniteSet(P), NEW row, NEW cell \in [Cells(row, P) -> Nat], NEW p \in P,
         \A q \in P : IsFiniteSet(DOMAIN row[q]) /\ row[q] \in [DOMAIN row[q] -> Nat],
         \A n \in DOMAIN row[p] : cell[<<p, n>>] = row[p][n]
  PROVE  Sum(cell, RowCells(row, p)) = Sum(row[p], DOMAIN row[p])
<1> DEFINE S == Cells(row, P)
           K == DOMAIN row[p]
           name == [n \in K |-> <<p, n>>]
           g == row[p]
<1>1. IsFiniteSet(S) /\ IsFiniteSet(K) /\ cell \in [S -> Nat] /\ g \in [K -> Nat]
  BY CellsFinite
<1>2. name \in [K -> S]
  BY CellsOfRows
<1>3. \A j, k \in K : name[j] = name[k] => j = k
  OBVIOUS
<1>4. \A k \in K : g[k] = cell[name[k]]
  OBVIOUS
<1>5. {name[k] : k \in K} = RowCells(row, p)
  BY DEF RowCells
<1> HIDE DEF S, K, name, g
<1>6. \A R \in SUBSET K : Sum(g, R) = Sum(cell, {name[k] : k \in R})
  BY ONLY <1>1, <1>2, <1>3, <1>4, SumRenamed
<1>7. Sum(g, K) = Sum(cell, {name[k] : k \in K})
  BY <1>6
<1> QED
  BY <1>5, <1>7 DEF g, K

LEMMA SumOfRows ==
  ASSUME NEW P, IsFiniteSet(P), NEW row, NEW cell \in [Cells(row, P) -> Nat],
         \A p \in P : IsFiniteSet(DOMAIN row[p]) /\ row[p] \in [DOMAIN row[p] -> Nat],
         \A p \in P : \A n \in DOMAIN row[p] : cell[<<p, n>>] = row[p][n],
         NEW total \in [P -> Nat], \A p \in P : total[p] = Sum(row[p], DOMAIN row[p])
  PROVE  Sum(total, P) = Sum(cell, Cells(row, P))
<1> DEFINE T == {R \in SUBSET P : Sum(total, R) = Sum(cell, Cells(row, R))}
           S == Cells(row, P)
<1>0. IsFiniteSet(S)
  BY CellsFinite
<1>1. {} \in T
  <2>1. Sum(total, {}) = 0 /\ Sum(cell, {}) = 0
    BY <1>0, SumTakesOut
  <2> QED
    BY <2>1, CellsOfRows
<1>2. ASSUME NEW R \in SUBSET P, NEW p \in R, R \ {p} \in T
      PROVE  R \in T
  <2> DEFINE A == Cells(row, R \ {p})
             B == RowCells(row, p)
  <2>1. Cells(row, R) = A \cup B /\ B \cap A = {}
    BY CellsOfRows
  <2>2. A \in SUBSET S /\ B \in SUBSET S
    BY DEF Cells, RowCells
  <2>3. cell \in [S -> Nat]
    OBVIOUS
  <2>4. Sum(total, R) = total[p] + Sum(total, R \ {p})
    BY SumTakesOut
  <2>5. Sum(cell, B) = total[p]
    BY SumOfRow
  <2>6. Sum(total, R \ {p}) = Sum(cell, A)
    BY <1>2
  <2> HIDE DEF A, B, S
  <2>7. Sum(cell, A \cup B) = Sum(cell, A) + Sum(cell, B)
    BY ONLY <1>0, <2>1, <2>2, <2>3, SumOfParts
  <2>8. Sum(cell, A) \in Nat /\ Sum(cell, B) \in Nat
    BY <1>0, <2>2, <2>3, SumTakesOut
  <2>9. Sum(total, R) = Sum(cell, Cells(row, R))
    BY <2>1, <2>4, <2>5, <2>6, <2>7, <2>8
  <2> QED
    BY <2>9
<1> HIDE DEF T
<1>3. \A R \in SUBSET P : R \in T
  BY <1>1, <1>2, SubsetInduction
<1>4. P \in T
  BY <1>3
<1> QED
  BY <1>4 DEF T

(***************************************************************************)
(* The payout of a prize pool.                                             *)
(***************************************************************************)
\* What the parsers let through: natural numbers, over finitely many positions and holders.
PayoutInput(rules, placements, pool) ==
  /\ IsFiniteSet(DOMAIN rules) /\ \A p \in DOMAIN rules : rules[p] \in Seq(Nat)
  /\ DOMAIN placements = 1..Len(placements) /\ Len(placements) \in Nat
  /\ \A k \in DOMAIN placements :
       /\ IsFiniteSet(DOMAIN placements[k].shares)
       /\ placements[k].shares \in [DOMAIN placements[k].shares -> Nat]
  /\ pool \in Nat

PlaceOf(placements) == [k \in DOMAIN placements |-> <<placements[k].position, placements[k].place>>]
Points(rules, placements) ==
  [k \in DOMAIN placements |-> rules[placements[k].position][placements[k].place]]
PointsOfCells(rules) == [c \in Cells(rules, DOMAIN rules) |-> rules[c[1]][c[2]]]

LEMMA RulesAreFinite ==
  ASSUME NEW rules, NEW placements, NEW pool, PayoutInput(rules, placements, pool)
  PROVE  /\ IsFiniteSet(DOMAIN rules)
         /\ \A p \in DOMAIN rules : /\ IsFiniteSet(DOMAIN rules[p]) /\ rules[p] \in [DOMAIN rules[p] -> Nat]
                                    /\ Cardinality(DOMAIN rules[p]) = Len(rules[p]) /\ Len(rules[p]) \in Nat
         /\ IsFiniteSet(Cells(rules, DOMAIN rules))
         /\ IsFiniteSet(DOMAIN placements) /\ Cardinality(DOMAIN placements) = Len(placements)
         /\ Len(placements) \in Nat
<1>1. IsFiniteSet(DOMAIN rules) /\ Len(placements) \in Nat /\ DOMAIN placements = 1..Len(placements)
  BY DEF PayoutInput
<1>2. ASSUME NEW p \in DOMAIN rules
      PROVE  /\ IsFiniteSet(DOMAIN rules[p]) /\ rules[p] \in [DOMAIN rules[p] -> Nat]
             /\ Cardinality(DOMAIN rules[p]) = Len(rules[p]) /\ Len(rules[p]) \in Nat
  <2>1. rules[p] \in Seq(Nat)
    BY DEF PayoutInput
  <2>2. DOMAIN rules[p] = 1..Len(rules[p]) /\ Len(rules[p]) \in Nat /\ rules[p] \in [1..Len(rules[p]) -> Nat]
    BY <2>1
  <2>3. IsFiniteSet(1..Len(rules[p])) /\ Cardinality(1..Len(rules[p])) = Len(rules[p])
    BY <2>2, Numbered
  <2> QED
    BY <2>2, <2>3
<1>3. IsFiniteSet(1..Len(placements)) /\ Cardinality(1..Len(placements)) = Len(placements)
  BY <1>1, Numbered
<1>4. IsFiniteSet(Cells(rules, DOMAIN rules))
  BY <1>1, <1>2, CellsFinite
<1> QED
  BY <1>1, <1>2, <1>3, <1>4

LEMMA PointsOfAllCells ==
  ASSUME NEW rules, NEW placements, NEW pool, PayoutInput(rules, placements, pool),
         ValidPayoutRules(rules)
  PROVE  /\ PointsOfCells(rules) \in [Cells(rules, DOMAIN rules) -> Nat]
         /\ Sum(PointsOfCells(rules), Cells(rules, DOMAIN rules)) = BASIS_POINTS_TOTAL
<1> DEFINE P == DOMAIN rules
           cell == PointsOfCells(rules)
           total == PositionTotals(rules)
<1>1. /\ IsFiniteSet(P)
      /\ \A p \in P : IsFiniteSet(DOMAIN rules[p]) /\ rules[p] \in [DOMAIN rules[p] -> Nat]
  BY RulesAreFinite
<1>2. cell \in [Cells(rules, P) -> Nat]
  <2>1. \A c \in Cells(rules, P) : rules[c[1]][c[2]] \in Nat
    BY <1>1, CellsOfRows
  <2> QED
    BY <2>1 DEF PointsOfCells
<1>3. \A p \in P : \A n \in DOMAIN rules[p] : cell[<<p, n>>] = rules[p][n]
  <2>1. \A p \in P : \A n \in DOMAIN rules[p] : <<p, n>> \in Cells(rules, P)
    BY CellsOfRows
  <2> QED
    BY <2>1 DEF PointsOfCells
<1>4. \A p \in P : total[p] = Sum(rules[p], DOMAIN rules[p])
  BY DEF PositionTotals
<1>5. total \in [P -> Nat]
  <2>1. \A p \in P : Sum(rules[p], DOMAIN rules[p]) \in Nat
    BY <1>1, SumTakesOut
  <2> QED
    BY <2>1 DEF PositionTotals
<1>6. Sum(total, P) = BASIS_POINTS_TOTAL
  BY <1>1, BasisPointsTotalIsSum DEF ValidPayoutRules
<1> HIDE DEF P, cell, total
<1>7. Sum(total, P) = Sum(cell, Cells(rules, P))
  BY <1>1, <1>2, <1>3, <1>4, <1>5, SumOfRows
<1> QED
  BY <1>2, <1>6, <1>7 DEF P, cell

LEMMA CellsAreCounted ==
  ASSUME NEW rules, NEW placements, NEW pool, PayoutInput(rules, placements, pool)
  PROVE  PlacesOf(rules) = Cardinality(Cells(rules, DOMAIN rules))
<1> DEFINE P == DOMAIN rules
           row == [p \in P |-> [n \in DOMAIN rules[p] |-> 1]]
           cell == [c \in Cells(row, P) |-> 1]
           total == Places(rules)
<1>1. /\ IsFiniteSet(P)
      /\ \A p \in P : /\ IsFiniteSet(DOMAIN rules[p])
                      /\ Cardinality(DOMAIN rules[p]) = Len(rules[p]) /\ Len(rules[p]) \in Nat
  BY RulesAreFinite
<1>2. \A p \in P : /\ DOMAIN row[p] = DOMAIN rules[p] /\ row[p] \in [DOMAIN row[p] -> Nat]
                   /\ IsFiniteSet(DOMAIN row[p]) /\ \A n \in DOMAIN row[p] : row[p][n] = 1
  BY <1>1
<1>3. Cells(row, P) = Cells(rules, P)
  BY <1>2 DEF Cells, RowCells
<1>4. cell \in [Cells(row, P) -> Nat] /\ \A c \in Cells(row, P) : cell[c] = 1
  OBVIOUS
<1>5. total \in [P -> Nat] /\ \A p \in P : total[p] = Len(rules[p])
  BY <1>1 DEF Places
<1> HIDE DEF row, cell, total, P
<1>6. \A p \in P : \A n \in DOMAIN row[p] : cell[<<p, n>>] = row[p][n]
  <2>1. \A p \in P : \A n \in DOMAIN row[p] : <<p, n>> \in Cells(row, P)
    BY CellsOfRows
  <2> QED
    BY <2>1, <1>2, <1>4
<1>7. \A p \in P : total[p] = Sum(row[p], DOMAIN row[p])
  <2> SUFFICES ASSUME NEW p \in P
               PROVE  total[p] = Sum(row[p], DOMAIN row[p])
    OBVIOUS
  <2> DEFINE K == DOMAIN row[p]
             f == row[p]
  <2>1. IsFiniteSet(K) /\ f \in [K -> Nat] /\ \A n \in K : f[n] = 1
    BY <1>2
  <2> HIDE DEF K, f
  <2>2. Sum(f, K) = Cardinality(K)
    BY <2>1, SumCounts
  <2> QED
    BY <2>2, <1>1, <1>2, <1>5 DEF K, f
<1>8. Sum(total, P) = Sum(cell, Cells(row, P))
  <2>1. \A p \in P : IsFiniteSet(DOMAIN row[p]) /\ row[p] \in [DOMAIN row[p] -> Nat]
    BY <1>2
  <2> QED
    BY <2>1, <1>1, <1>4, <1>5, <1>6, <1>7, SumOfRows
<1>9. Sum(cell, Cells(row, P)) = Cardinality(Cells(row, P))
  <2>1. IsFiniteSet(Cells(row, P))
    BY <1>1, <1>2, CellsFinite
  <2> DEFINE S == Cells(row, P)
  <2>2. cell \in [S -> Nat] /\ (\A c \in S : cell[c] = 1) /\ IsFiniteSet(S)
    BY <2>1, <1>4
  <2> HIDE DEF S
  <2>3. Sum(cell, S) = Cardinality(S)
    BY <2>2, SumCounts
  <2> QED
    BY <2>3 DEF S
<1>10. PlacesOf(rules) = Sum(total, P)
  BY <1>1, PlacesOfIsSum DEF total, P
<1> QED
  BY <1>3, <1>8, <1>9, <1>10 DEF P

\* The places that are paid share no more than all points, and all of them if they are all
\* the places there are.
LEMMA PointsAddUp ==
  ASSUME NEW rules, NEW placements, NEW pool, PayoutInput(rules, placements, pool),
         ValidPayoutRules(rules), PlacementsAccepted(rules, placements)
  PROVE  /\ Points(rules, placements) \in [DOMAIN placements -> Nat]
         /\ \A R \in SUBSET DOMAIN placements : Sum(Points(rules, placements), R) <= BASIS_POINTS_TOTAL
         /\ Len(placements) = PlacesOf(rules) =>
              Sum(Points(rules, placements), DOMAIN placements) = BASIS_POINTS_TOTAL
<1> DEFINE K == DOMAIN placements
           S == Cells(rules, DOMAIN rules)
           cell == PointsOfCells(rules)
           name == PlaceOf(placements)
           g == Points(rules, placements)
<1>1. IsFiniteSet(K) /\ IsFiniteSet(S) /\ Cardinality(K) = Len(placements)
  BY RulesAreFinite
<1>2. cell \in [S -> Nat] /\ Sum(cell, S) = BASIS_POINTS_TOTAL
  BY PointsOfAllCells
<1>3. \A k \in K : /\ placements[k].position \in DOMAIN rules
                   /\ placements[k].place \in DOMAIN rules[placements[k].position]
  BY DEF PlacementsAccepted
<1>4. name \in [K -> S]
  <2>1. \A k \in K : <<placements[k].position, placements[k].place>> \in S
    BY <1>3, CellsOfRows
  <2> QED
    BY <2>1 DEF PlaceOf
<1>5. \A j, k \in K : name[j] = name[k] => j = k
  BY DEF PlaceOf, PlacementsAccepted
<1>6. \A k \in K : g[k] = cell[name[k]]
  BY <1>4 DEF Points, PlaceOf, PointsOfCells
<1>7. g \in [K -> Nat]
  <2>1. \A k \in K : g[k] \in Nat
    BY <1>2, <1>4, <1>6
  <2>2. g = [k \in K |-> g[k]]
    BY DEF Points
  <2> QED
    BY <2>1, <2>2
<1>8. PlacesOf(rules) = Cardinality(S)
  BY CellsAreCounted
<1> HIDE DEF K, S, cell, name, g
<1>9. \A R \in SUBSET K : Sum(g, R) = Sum(cell, {name[k] : k \in R})
  BY ONLY <1>1, <1>2, <1>4, <1>5, <1>6, <1>7, SumRenamed
<1>10. ASSUME NEW R \in SUBSET K
       PROVE  Sum(g, R) <= BASIS_POINTS_TOTAL
  <2> DEFINE Q == {name[k] : k \in R}
  <2>1. Q \in SUBSET S /\ S \in SUBSET S
    BY <1>4
  <2>2. Sum(g, R) = Sum(cell, Q)
    BY <1>9
  <2> HIDE DEF Q
  <2>3. Sum(cell, Q) <= Sum(cell, S)
    BY <1>1, <1>2, <2>1, SumOfPart
  <2> QED
    BY <1>2, <2>2, <2>3
<1>11. ASSUME Len(placements) = PlacesOf(rules)
       PROVE  Sum(g, K) = BASIS_POINTS_TOTAL
  <2>1. name \in Injection(K, S)
    BY <1>4, <1>5 DEF Injection, IsInjective
  <2>2. Cardinality(K) = Cardinality(S)
    BY <1>1, <1>8, <1>11
  <2>3. name \in Surjection(K, S)
    BY <1>1, <2>1, <2>2, FS_Injection
  <2>4. {name[k] : k \in K} = S
    BY <2>3, <1>4 DEF Surjection
  <2> QED
    BY <1>2, <1>9, <2>4
<1> QED
  BY <1>7, <1>10, <1>11 DEF K, g

\* A sum is one of the restricted table.
LEMMA SumRestricts ==
  ASSUME NEW f, NEW Q \in SUBSET DOMAIN f, IsFiniteSet(Q)
  PROVE  Sum([x \in Q |-> f[x]], Q) = Sum(f, Q)
<1> DEFINE g == [x \in Q |-> f[x]]
<1>1. \A x \in Q : Amounted(g)[x].amount = Amounted(f)[x].amount
  BY DEF Amounted
<1> HIDE DEF g
<1>2. \A R \in SUBSET Q : Total(Amounted(g), R) = Total(Amounted(f), R)
  BY <1>1, TotalsEqual
<1>3. Sum(g, Q) = Sum(f, Q)
  BY <1>2 DEF Sum
<1> QED
  BY <1>3 DEF g

\* What the paid places get together, from the points they share.
LEMMA AllocationsAddUp ==
  ASSUME NEW rules, NEW placements, NEW pool, PayoutInput(rules, placements, pool),
         ValidPayoutRules(rules), PlacementsAccepted(rules, placements)
  PROVE  LET a == Allocations(rules, placements, pool)
             K == DOMAIN placements
         IN  /\ a \in [K -> Nat]
             /\ \A k \in K : a[k] = (pool * Points(rules, placements)[k]) \div BASIS_POINTS_TOTAL
             /\ \A R \in SUBSET K : Sum(a, R) \in Nat /\ Sum(a, R) <= pool
             /\ Len(placements) = PlacesOf(rules) => pool - Sum(a, K) < PlacesOf(rules)
<1> DEFINE K == DOMAIN placements
           a == Allocations(rules, placements, pool)
           g == Points(rules, placements)
           B == BASIS_POINTS_TOTAL
           exact == [k \in K |-> pool * g[k]]
           scaled == [k \in K |-> B * a[k]]
           unit == [k \in K |-> 1]
           slack == [k \in K |-> (B - 1) * unit[k]]
           above == [k \in K |-> scaled[k] + slack[k]]
<1>1. /\ B \in Nat \ {0} /\ B - 1 \in Nat /\ pool \in Nat /\ IsFiniteSet(K)
      /\ Cardinality(K) = Len(placements) /\ Len(placements) \in Nat
  <2>1. B \in Nat \ {0} /\ B - 1 \in Nat
    BY FantasyConstants
  <2>2. pool \in Nat
    BY DEF PayoutInput
  <2>3. IsFiniteSet(K) /\ Cardinality(K) = Len(placements) /\ Len(placements) \in Nat
    BY RulesAreFinite
  <2> QED
    BY <2>1, <2>2, <2>3
<1>2. /\ g \in [K -> Nat] /\ \A R \in SUBSET K : Sum(g, R) <= B
      /\ Len(placements) = PlacesOf(rules) => Sum(g, K) = B
  BY PointsAddUp
<1>3. \A k \in K : a[k] = (pool * g[k]) \div B
  BY DEF Allocations, PlaceAllocation, Points
<1>3a. a = [k \in K |-> a[k]]
  BY DEF Allocations
<1> HIDE DEF K, a, g, B
<1>4. \A k \in K : /\ pool * g[k] \in Nat /\ a[k] \in Nat /\ B * a[k] \in Nat
                   /\ B * a[k] <= pool * g[k] /\ pool * g[k] <= B * a[k] + (B - 1)
  <2> SUFFICES ASSUME NEW k \in K
               PROVE  /\ pool * g[k] \in Nat /\ a[k] \in Nat /\ B * a[k] \in Nat
                      /\ B * a[k] <= pool * g[k] /\ pool * g[k] <= B * a[k] + (B - 1)
    OBVIOUS
  <2>1. pool * g[k] \in Nat
    BY <1>1, <1>2, ProductIsNat
  <2>2. /\ a[k] \in Nat /\ B * a[k] <= pool * g[k] /\ pool * g[k] < B * a[k] + B
    BY <1>1, <1>3, <2>1, DivisionRounds
  <2>3. B * a[k] \in Nat
    BY <1>1, <2>2, ProductIsNat
  <2> QED
    BY <1>1, <2>1, <2>2, <2>3
<1>5. a \in [K -> Nat] /\ exact \in [K -> Nat] /\ scaled \in [K -> Nat] /\ unit \in [K -> Nat]
  BY <1>3a, <1>4
<1>6. \A k \in K : exact[k] = pool * g[k] /\ scaled[k] = B * a[k] /\ unit[k] = 1
  OBVIOUS
<1>7. (\A k \in K : slack[k] = (B - 1) * unit[k] /\ slack[k] = B - 1) /\ slack \in [K -> Nat]
  BY <1>1
<1>8. (\A k \in K : above[k] = scaled[k] + slack[k]) /\ above \in [K -> Nat]
  <2>1. \A k \in K : scaled[k] + slack[k] \in Nat
    BY <1>5, <1>7
  <2> QED
    BY <2>1
<1> HIDE DEF exact, scaled, unit, slack, above
<1>9. \A k \in K : scaled[k] <= exact[k] /\ exact[k] <= above[k]
  BY <1>4, <1>6, <1>7, <1>8
<1>10. \A R \in SUBSET K : Sum(exact, R) = pool * Sum(g, R)
  <2>1. IsFiniteSet(K) /\ pool \in Nat /\ g \in [K -> Nat] /\ exact \in [K -> Nat] /\ \A k \in K : exact[k] = pool * g[k]
    BY <1>1, <1>2, <1>5, <1>6
  <2> QED
    BY ONLY <2>1, SumScales
<1>11. \A R \in SUBSET K : Sum(scaled, R) = B * Sum(a, R)
  <2>1. IsFiniteSet(K) /\ B \in Nat /\ a \in [K -> Nat] /\ scaled \in [K -> Nat] /\ \A k \in K : scaled[k] = B * a[k]
    BY <1>1, <1>5, <1>6
  <2> QED
    BY ONLY <2>1, SumScales
<1>12. \A R \in SUBSET K : Sum(slack, R) = (B - 1) * Sum(unit, R)
  <2>1. IsFiniteSet(K) /\ B - 1 \in Nat /\ unit \in [K -> Nat] /\ slack \in [K -> Nat] /\ \A k \in K : slack[k] = (B - 1) * unit[k]
    BY <1>1, <1>5, <1>7
  <2> DEFINE c == B - 1
  <2>2. IsFiniteSet(K) /\ c \in Nat /\ unit \in [K -> Nat] /\ slack \in [K -> Nat] /\ \A k \in K : slack[k] = c * unit[k]
    BY <2>1
  <2> HIDE DEF c
  <2>3. \A R \in SUBSET K : Sum(slack, R) = c * Sum(unit, R)
    BY ONLY <2>2, SumScales
  <2> QED
    BY <2>3 DEF c
<1>13. \A R \in SUBSET K : Sum(unit, R) = Cardinality(R)
  <2>1. IsFiniteSet(K) /\ unit \in [K -> Nat] /\ \A k \in K : unit[k] = 1
    BY <1>1, <1>5, <1>6
  <2> QED
    BY ONLY <2>1, SumCounts
<1>14. \A R \in SUBSET K : Sum(above, R) = Sum(scaled, R) + Sum(slack, R)
  <2>1. IsFiniteSet(K) /\ scaled \in [K -> Nat] /\ slack \in [K -> Nat] /\ above \in [K -> Nat]
        /\ \A k \in K : above[k] = scaled[k] + slack[k]
    BY <1>1, <1>5, <1>7, <1>8
  <2> QED
    BY ONLY <2>1, SumAdds
<1>15. \A R \in SUBSET K : Sum(scaled, R) <= Sum(exact, R) /\ Sum(exact, R) <= Sum(above, R)
  <2>1. \A R \in SUBSET K : Sum(scaled, R) <= Sum(exact, R)
    BY <1>1, <1>5, <1>9, SumIsMonotone
  <2>2. \A R \in SUBSET K : Sum(exact, R) <= Sum(above, R)
    BY <1>1, <1>5, <1>8, <1>9, SumIsMonotone
  <2> QED
    BY <2>1, <2>2
<1>16. \A R \in SUBSET K : Sum(a, R) \in Nat /\ Sum(g, R) \in Nat
  <2>1. \A R \in SUBSET K : Sum(a, R) \in Nat
    BY <1>1, <1>5, SumTakesOut
  <2>2. \A R \in SUBSET K : Sum(g, R) \in Nat
    BY <1>1, <1>2, SumTakesOut
  <2> QED
    BY <2>1, <2>2
<1>17. ASSUME NEW R \in SUBSET K
       PROVE  Sum(a, R) <= pool
  <2> DEFINE x == Sum(a, R)
             y == Sum(g, R)
  <2>1. x \in Nat /\ y \in Nat /\ y <= B
    BY <1>2, <1>16
  <2>2. B * x <= pool * y
    BY <1>10, <1>11, <1>15
  <2> HIDE DEF x, y
  <2>3. pool * y <= pool * B /\ pool * B = B * pool
    BY <1>1, <2>1, ProductIsMonotone, ProductIsNat
  <2>4. B * x \in Nat /\ pool * y \in Nat /\ B * pool \in Nat
    BY <1>1, <2>1, ProductIsNat
  <2>5. B * x <= B * pool
    BY <2>2, <2>3, <2>4
  <2>6. x <= pool
    BY <1>1, <2>1, <2>5, ProductReflects
  <2> QED
    BY <2>6 DEF x
<1>18. ASSUME Len(placements) = PlacesOf(rules)
       PROVE  pool - Sum(a, K) < PlacesOf(rules)
  <2> DEFINE x == Sum(a, K)
             n == Len(placements)
  <2>1. x \in Nat /\ n \in Nat /\ x <= pool
    BY <1>1, <1>16, <1>17
  <2>2. Sum(g, K) = B
    BY <1>2, <1>18
  <2>3. n # 0
    <3> SUFFICES ASSUME n = 0 PROVE FALSE
      OBVIOUS
    <3>1. K = {}
      BY <1>1, FS_EmptySet
    <3>2. Sum(g, {}) = 0
      BY <1>1, <1>2, SumTakesOut
    <3> QED
      BY <1>1, <2>2, <3>1, <3>2
  <2>4. pool * B <= B * x + (B - 1) * n
    BY <1>1, <1>10, <1>11, <1>12, <1>13, <1>14, <1>15, <2>2
  <2> HIDE DEF x, n
  <2>5. pool * B = B * pool /\ (B - 1) * n = B * n - n
    BY <1>1, <2>1
  <2>6. B * (x + n) = B * x + B * n /\ B * x \in Nat /\ B * n \in Nat /\ B * pool \in Nat
    BY <1>1, <2>1, Distributes, ProductIsNat
  <2>7. B * pool < B * (x + n)
    BY <2>1, <2>3, <2>4, <2>5, <2>6
  <2>8. pool < x + n
    <3> SUFFICES ASSUME x + n <= pool PROVE FALSE
      BY <1>1, <2>1
    <3>1. B * (x + n) <= B * pool
      BY <1>1, <2>1, ProductIsMonotone
    <3> QED
      BY <2>6, <2>7, <3>1, <2>1
  <2>9. pool - x < n
    BY <1>1, <2>1, <2>8
  <2> QED
    BY <2>9, <1>18 DEF x, n
<1> QED
  BY <1>3, <1>5, <1>16, <1>17, <1>18 DEF K, a, g, B

\* What the filled places hold back is less than a unit for each of their holders.
LEMMA ResidualIsDust ==
  ASSUME NEW rules, NEW placements, NEW pool, PayoutInput(rules, placements, pool),
         ValidPayoutRules(rules), PlacementsAccepted(rules, placements)
  PROVE  LET paid == Sum(Distributions(rules, placements, pool), FilledPlaces(placements))
             allocated == Sum(Allocations(rules, placements, pool), FilledPlaces(placements))
         IN  paid \in Nat /\ allocated \in Nat /\ allocated - paid \in 0..HoldersOf(placements)
<1> DEFINE K == DOMAIN placements
           F == FilledPlaces(placements)
           a == Allocations(rules, placements, pool)
           d == Distributions(rules, placements, pool)
           h == Holders(placements)
           aF == [k \in F |-> a[k]]
           dF == [k \in F |-> d[k]]
           hF == [k \in F |-> h[k]]
           above == [k \in F |-> dF[k] + hF[k]]
<1>1. IsFiniteSet(K) /\ F \in SUBSET K
  BY RulesAreFinite DEF FilledPlaces
<1>2. IsFiniteSet(F)
  BY <1>1, FS_Subset
<1>3. a \in [K -> Nat] /\ DOMAIN a = K /\ Sum(a, F) \in Nat
  BY <1>1, AllocationsAddUp
<1>4. DOMAIN d = K /\ DOMAIN h = K
  BY DEF Distributions, Holders
<1>5. h \in [K -> Nat]
  <2>1. \A k \in K : IsFiniteSet(DOMAIN placements[k].shares)
    BY DEF PayoutInput
  <2>2. \A k \in K : Cardinality(DOMAIN placements[k].shares) \in Nat
    BY <2>1, FS_CardinalityType
  <2> QED
    BY <2>2 DEF Holders
<1>6. \A k \in F : d[k] \in Nat /\ d[k] <= a[k] /\ a[k] <= d[k] + h[k]
  <2> SUFFICES ASSUME NEW k \in F
               PROVE  d[k] \in Nat /\ d[k] <= a[k] /\ a[k] <= d[k] + h[k]
    OBVIOUS
  <2>1. /\ k \in K /\ a[k] \in Nat /\ IsFiniteSet(DOMAIN placements[k].shares)
        /\ placements[k].shares \in [DOMAIN placements[k].shares -> Nat]
        /\ TotalShares(placements[k].shares) > 0
    BY <1>1, <1>3 DEF FilledPlaces, PayoutInput
  <2>2. d[k] = HolderDistributed(a[k], placements[k].shares)
    BY <2>1 DEF Distributions
  <2>3. h[k] = Cardinality(DOMAIN placements[k].shares)
    BY <2>1 DEF Holders
  <2> HIDE DEF a, d, h
  <2> QED
    BY <2>1, <2>2, <2>3, PlaceLosesOnlyDust
<1>7. HoldersOf(placements) = Sum(h, K)
  BY <1>1, HoldersOfIsSum
<1>8. Sum(a, F) = Sum(aF, F) /\ Sum(d, F) = Sum(dF, F) /\ Sum(h, F) = Sum(hF, F)
  BY <1>1, <1>2, <1>3, <1>4, SumRestricts
<1> HIDE DEF K, F, a, d, h
<1>9. /\ aF \in [F -> Nat] /\ dF \in [F -> Nat] /\ hF \in [F -> Nat]
      /\ \A k \in F : dF[k] <= aF[k] /\ aF[k] <= dF[k] + hF[k]
  BY <1>1, <1>3, <1>5, <1>6
<1> HIDE DEF aF, dF, hF
<1>10. above \in [F -> Nat] /\ \A k \in F : above[k] = dF[k] + hF[k] /\ aF[k] <= above[k]
  <2>1. \A k \in F : dF[k] + hF[k] \in Nat
    BY <1>9
  <2> QED
    BY <2>1, <1>9
<1> HIDE DEF above
<1>11. Sum(dF, F) <= Sum(aF, F) /\ Sum(aF, F) <= Sum(above, F)
  <2>1. Sum(dF, F) <= Sum(aF, F)
    BY <1>2, <1>9, SumIsMonotone
  <2>2. Sum(aF, F) <= Sum(above, F)
    BY <1>2, <1>9, <1>10, SumIsMonotone
  <2> QED
    BY <2>1, <2>2
<1>12. Sum(above, F) = Sum(dF, F) + Sum(hF, F)
  <2>1. /\ IsFiniteSet(F) /\ dF \in [F -> Nat] /\ hF \in [F -> Nat] /\ above \in [F -> Nat]
        /\ \A k \in F : above[k] = dF[k] + hF[k]
    BY <1>2, <1>9, <1>10
  <2> QED
    BY ONLY <2>1, SumAdds
<1>13. Sum(h, F) <= Sum(h, K)
  <2>1. K \in SUBSET K
    OBVIOUS
  <2> QED
    BY <1>1, <1>5, <2>1, SumOfPart
<1>14. Sum(dF, F) \in Nat /\ Sum(hF, F) \in Nat /\ Sum(aF, F) \in Nat /\ Sum(h, K) \in Nat
  <2>1. Sum(dF, F) \in Nat
    BY <1>2, <1>9, SumTakesOut
  <2>2. Sum(hF, F) \in Nat
    BY <1>2, <1>9, SumTakesOut
  <2>3. Sum(h, K) \in Nat
    BY <1>1, <1>5, SumTakesOut
  <2> QED
    BY <2>1, <2>2, <2>3, <1>3, <1>8
<1>15. Sum(a, F) - Sum(d, F) \in 0..Sum(h, K)
  BY <1>8, <1>11, <1>12, <1>13, <1>14
<1> QED
  BY <1>7, <1>8, <1>14, <1>15 DEF K, F, a, d, h

\* Every holder's reward is his exact share of the pool, less than two units short.
LEMMA RewardsAreFair ==
  ASSUME NEW rules, NEW placements, NEW pool, PayoutInput(rules, placements, pool),
         ValidPayoutRules(rules), PlacementsAccepted(rules, placements),
         NEW k \in DOMAIN placements, TotalShares(placements[k].shares) > 0,
         NEW w \in DOMAIN placements[k].shares
  PROVE  LET shares == placements[k].shares
             exact == pool * rules[placements[k].position][placements[k].place] * shares[w]
             unit == BASIS_POINTS_TOTAL * TotalShares(shares)
             reward == HolderReward(PlaceAllocation(rules, placements[k], pool), shares, w)
         IN  unit * reward <= exact /\ exact < unit * (reward + 2)
<1> DEFINE shares == placements[k].shares
           p == rules[placements[k].position][placements[k].place]
           t == TotalShares(shares)
           s == shares[w]
           B == BASIS_POINTS_TOTAL
<1>1. IsFiniteSet(DOMAIN shares) /\ shares \in [DOMAIN shares -> Nat] /\ pool \in Nat
  BY DEF PayoutInput
<1>2. p \in Nat
  <2>1. Points(rules, placements)[k] \in Nat
    BY PointsAddUp
  <2> QED
    BY <2>1 DEF Points
<1>3. B \in Nat \ {0}
  BY FantasyConstants
<1>4. t = Sum(shares, DOMAIN shares)
  BY <1>1, TotalSharesIsSum
<1>5. t \in Nat \ {0} /\ s \in Nat /\ s <= t
  <2> HIDE DEF shares
  <2>0. w \in DOMAIN shares /\ t > 0
    BY DEF shares
  <2>1. /\ Sum(shares, DOMAIN shares) \in Nat
        /\ Sum(shares, DOMAIN shares) = shares[w] + Sum(shares, DOMAIN shares \ {w})
    BY <1>1, <2>0, SumTakesOut
  <2>2. Sum(shares, DOMAIN shares \ {w}) \in Nat
    BY <1>1, SumTakesOut
  <2>3. shares[w] \in Nat
    BY <1>1, <2>0
  <2> HIDE DEF t
  <2> QED
    BY <1>4, <2>0, <2>1, <2>2, <2>3
<1>6. HolderReward(PlaceAllocation(rules, placements[k], pool), shares, w)
        = (((pool * p) \div B) * s) \div t
  BY DEF HolderReward, PlaceAllocation
<1> HIDE DEF p, t, s, B
<1>7. /\ (B * t) * ((((pool * p) \div B) * s) \div t) <= pool * p * s
      /\ pool * p * s < (B * t) * (((((pool * p) \div B) * s) \div t) + 2)
  BY <1>1, <1>2, <1>3, <1>5, HolderLosesOnlyDust
<1> QED
  BY <1>6, <1>7 DEF p, t, s, B, shares

\* Theorem: whatever rules and placements the calculator accepts, and whatever the pool,
\* it hands out no more than the pool and loses only dust to rounding.
THEOREM PayoutIsExact ==
  ASSUME NEW rules, NEW placements, NEW pool, PayoutInput(rules, placements, pool)
  PROVE  PayoutLosesOnlyDust(rules, placements, pool)
<1> SUFFICES ASSUME ValidPayoutRules(rules), PlacementsAccepted(rules, placements)
             PROVE  PayoutLosesOnlyDust(rules, placements, pool)
  BY DEF PayoutLosesOnlyDust
<1> DEFINE K == DOMAIN placements
           F == FilledPlaces(placements)
           paid == Sum(Distributions(rules, placements, pool), F)
           allocated == Sum(Allocations(rules, placements, pool), F)
           payout == Payouts(rules, placements, pool)
<1>1. IsFiniteSet(K) /\ F \in SUBSET K /\ pool \in Nat
  BY RulesAreFinite DEF FilledPlaces, PayoutInput
<1>2. /\ payout.distributed = paid /\ payout.residual = allocated - paid
      /\ payout.undistributed = pool - allocated
  BY <1>1, PayoutsAreSums
<1>3. paid \in Nat /\ allocated \in Nat /\ allocated - paid \in 0..HoldersOf(placements)
  BY ResidualIsDust
<1>4. allocated <= pool
  BY <1>1, AllocationsAddUp
<1>5. ASSUME Len(placements) = PlacesOf(rules),
             \A k \in K : TotalShares(placements[k].shares) > 0
      PROVE  pool - allocated < PlacesOf(rules)
  <2>1. F = K
    BY <1>5 DEF FilledPlaces
  <2>2. pool - Sum(Allocations(rules, placements, pool), K) < PlacesOf(rules)
    BY <1>5, AllocationsAddUp
  <2> QED
    BY <2>1, <2>2
<1> HIDE DEF F, paid, allocated, payout
<1>6. payout.distributed + payout.residual + payout.undistributed = pool
  BY <1>1, <1>2, <1>3
<1>7. payout.residual \in 0..HoldersOf(placements) /\ payout.undistributed \in 0..pool
  BY <1>1, <1>2, <1>3, <1>4
<1>8. Len(placements) = PlacesOf(rules) /\ (\A k \in K : TotalShares(placements[k].shares) > 0) =>
        payout.undistributed < PlacesOf(rules)
  BY <1>2, <1>5
<1>9. \A k \in K : TotalShares(placements[k].shares) > 0 =>
        \A w \in DOMAIN placements[k].shares :
          LET exact == pool * rules[placements[k].position][placements[k].place] * placements[k].shares[w]
              unit == BASIS_POINTS_TOTAL * TotalShares(placements[k].shares)
              reward == HolderReward(PlaceAllocation(rules, placements[k], pool), placements[k].shares, w)
          IN  unit * reward <= exact /\ exact < unit * (reward + 2)
  BY RewardsAreFair
<1> QED
  BY ONLY <1>6, <1>7, <1>8, <1>9 DEF PayoutLosesOnlyDust, K, payout

(***************************************************************************)
(* Counting residues.                                                      *)
(***************************************************************************)
Residues(n, d, S) == {r \in 0..(n - 1) : r % d \in S}

LEMMA QuotientAndRest ==
  ASSUME NEW a \in Nat, NEW d \in Nat \ {0}
  PROVE  a \div d \in Nat /\ a % d \in 0..(d - 1) /\ a = d * (a \div d) + (a % d)
  OBVIOUS

LEMMA QuotientIsUnique ==
  ASSUME NEW d \in Nat \ {0}, NEW q \in Nat, NEW c \in 0..(d - 1), NEW p \in Nat, NEW b \in 0..(d - 1),
         d * q + c = d * p + b
  PROVE  q = p /\ c = b
<1>1. d * q \in Nat /\ d * p \in Nat
  BY ProductIsNat
<1>2. ASSUME NEW x \in Nat, NEW y \in Nat, x < y
      PROVE  d * x + d <= d * y
  <2>1. d * (x + 1) <= d * y
    BY <1>2, ProductIsMonotone
  <2>2. d * (x + 1) = d * x + d * 1 /\ d * 1 = d
    BY Distributes
  <2> QED
    BY <2>1, <2>2
<1>3. CASE q < p
  <2>1. d * q + d <= d * p
    BY <1>2, <1>3
  <2> QED
    BY <1>1, <2>1
<1>4. CASE p < q
  <2>1. d * p + d <= d * q
    BY <1>2, <1>4
  <2> QED
    BY <1>1, <2>1
<1>5. CASE p = q
  BY <1>1, <1>5
<1> QED
  BY <1>3, <1>4, <1>5

LEMMA RestOf ==
  ASSUME NEW d \in Nat \ {0}, NEW q \in Nat, NEW c \in 0..(d - 1)
  PROVE  d * q + c \in Nat /\ (d * q + c) \div d = q /\ (d * q + c) % d = c
<1> DEFINE a == d * q + c
<1>1. a \in Nat
  BY ProductIsNat
<1>2. a \div d \in Nat /\ a % d \in 0..(d - 1) /\ a = d * (a \div d) + (a % d)
  BY <1>1, QuotientAndRest
<1>3. PICK p \in Nat : p = a \div d
  BY <1>2
<1>4. PICK b \in 0..(d - 1) : b = a % d
  BY <1>2
<1>5. d * q + c = d * p + b
  BY <1>2, <1>3, <1>4
<1>6. q = p /\ c = b
  BY <1>5, QuotientIsUnique
<1> QED
  BY <1>1, <1>3, <1>4, <1>6

\* In k times d numbers every residue comes up k times.
LEMMA ResiduesCounted ==
  ASSUME NEW k \in Nat, NEW d \in Nat \ {0}, NEW S \in SUBSET (0..(d - 1))
  PROVE  /\ IsFiniteSet(S) /\ Cardinality(S) \in Nat
         /\ IsFiniteSet(Residues(d * k, d, S))
         /\ Cardinality(Residues(d * k, d, S)) = k * Cardinality(S)
<1> DEFINE Pairs == (0..(k - 1)) \X S
           f == [x \in Pairs |-> d * x[1] + x[2]]
           T == Residues(d * k, d, S)
<1>1. IsFiniteSet(S) /\ Cardinality(S) \in Nat
  <2>1. IsFiniteSet(0..(d - 1))
    BY FS_Interval
  <2>2. IsFiniteSet(S)
    BY <2>1, FS_Subset
  <2> QED
    BY <2>2, FS_CardinalityType
<1>2. IsFiniteSet(0..(k - 1)) /\ Cardinality(0..(k - 1)) = k
  <2>1. k - 1 \in Int /\ 0 \in Int
    OBVIOUS
  <2>2. /\ IsFiniteSet(0..(k - 1))
        /\ Cardinality(0..(k - 1)) = IF 0 > k - 1 THEN 0 ELSE (k - 1) - 0 + 1
    BY <2>1, FS_Interval
  <2> QED
    BY <2>2
<1>3. IsFiniteSet(Pairs) /\ Cardinality(Pairs) = k * Cardinality(S)
  BY <1>1, <1>2, FS_Product
<1>4. d * k \in Nat
  BY ProductIsNat
<1>5. ASSUME NEW q \in 0..(k - 1), NEW c \in S
      PROVE  d * q + c \in T
  <2>1. q \in Nat /\ q + 1 \in Nat /\ q + 1 <= k /\ c \in 0..(d - 1)
    OBVIOUS
  <2>2. d * q + c \in Nat /\ (d * q + c) % d = c
    BY <2>1, RestOf
  <2>3. d * (q + 1) <= d * k
    BY <2>1, ProductIsMonotone
  <2>4. d * (q + 1) = d * q + d * 1 /\ d * 1 = d /\ d * q \in Nat
    BY <2>1, Distributes, ProductIsNat
  <2>5. d * q + c < d * k
    BY <2>1, <2>3, <2>4, <1>4
  <2>6. d * q + c \in 0..(d * k - 1)
    BY <2>2, <2>5, <1>4
  <2> QED
    BY <2>2, <2>6 DEF Residues
<1>6. f \in [Pairs -> T]
  BY <1>5
<1>7. ASSUME NEW x \in Pairs, NEW y \in Pairs, f[x] = f[y]
      PROVE  x = y
  <2>0. /\ x[1] \in 0..(k - 1) /\ x[2] \in S /\ x = <<x[1], x[2]>>
        /\ y[1] \in 0..(k - 1) /\ y[2] \in S /\ y = <<y[1], y[2]>>
    OBVIOUS
  <2>1. PICK q \in 0..(k - 1), c \in S : x = <<q, c>>
    BY <2>0
  <2>2. PICK p \in 0..(k - 1), b \in S : y = <<p, b>>
    BY <2>0
  <2>3. d * q + c = d * p + b
    BY <1>7, <2>1, <2>2
  <2>4. q \in Nat /\ p \in Nat /\ c \in 0..(d - 1) /\ b \in 0..(d - 1)
    OBVIOUS
  <2>5. q = p /\ c = b
    BY <2>3, <2>4, QuotientIsUnique
  <2> QED
    BY <2>1, <2>2, <2>5
<1>8. ASSUME NEW r \in T
      PROVE  \E x \in Pairs : f[x] = r
  <2>1. r \in Nat /\ r < d * k /\ r % d \in S
    BY <1>4 DEF Residues
  <2>2. r \div d \in Nat /\ r % d \in 0..(d - 1) /\ r = d * (r \div d) + (r % d)
    BY <2>1, QuotientAndRest
  <2>3. PICK q \in Nat : q = r \div d
    BY <2>2
  <2>4. q < k
    <3> SUFFICES ASSUME k <= q PROVE FALSE
      OBVIOUS
    <3>1. d * k <= d * q /\ d * q \in Nat
      BY ProductIsMonotone, ProductIsNat
    <3> QED
      BY <3>1, <2>1, <2>2, <2>3, <1>4
  <2>5. <<q, r % d>> \in Pairs
    BY <2>1, <2>3, <2>4
  <2>6. f[<<q, r % d>>] = r
    <3>1. PICK c \in S : c = r % d
      BY <2>1
    <3>2. <<q, c>> \in Pairs
      BY <3>1, <2>5
    <3>3. f[<<q, c>>] = d * q + c
      BY <3>2
    <3> QED
      BY <2>2, <2>3, <3>1, <3>3
  <2> QED
    BY <2>5, <2>6
<1> HIDE DEF Pairs, f, T
<1>9. f \in Bijection(Pairs, T)
  BY <1>6, <1>7, <1>8 DEF Bijection, Injection, Surjection, IsInjective
<1>10. ExistsBijection(Pairs, T)
  BY <1>9 DEF ExistsBijection
<1>11. IsFiniteSet(T) /\ Cardinality(T) = Cardinality(Pairs)
  BY <1>3, <1>10, FS_Bijection
<1> QED
  BY <1>1, <1>3, <1>11 DEF T

\* In any number of numbers, about as often.
LEMMA ResiduesBounded ==
  ASSUME NEW n \in Nat, NEW d \in Nat \ {0}, NEW S \in SUBSET (0..(d - 1))
  PROVE  Cardinality(Residues(n, d, S)) \in ((n \div d) * Cardinality(S))..((n \div d + 1) * Cardinality(S))
<1>1. n \div d \in Nat /\ n % d \in 0..(d - 1) /\ n = d * (n \div d) + (n % d)
  BY QuotientAndRest
<1>2. PICK k \in Nat : k = n \div d
  BY <1>1
<1>3. d * k <= n /\ n <= d * (k + 1) /\ d * k \in Nat /\ d * (k + 1) \in Nat
  <2>1. d * (k + 1) = d * k + d * 1 /\ d * 1 = d /\ d * k \in Nat
    BY Distributes, ProductIsNat
  <2> QED
    BY <2>1, <1>1, <1>2
<1>4. /\ Residues(d * k, d, S) \subseteq Residues(n, d, S)
      /\ Residues(n, d, S) \subseteq Residues(d * (k + 1), d, S)
  BY <1>3 DEF Residues
<1>5. /\ IsFiniteSet(Residues(d * (k + 1), d, S))
      /\ Cardinality(Residues(d * (k + 1), d, S)) = (k + 1) * Cardinality(S)
      /\ Cardinality(Residues(d * k, d, S)) = k * Cardinality(S)
  <2>1. k + 1 \in Nat
    OBVIOUS
  <2> QED
    BY <2>1, ResiduesCounted
<1>6. IsFiniteSet(Residues(n, d, S)) /\ Cardinality(Residues(n, d, S)) <= (k + 1) * Cardinality(S)
  BY <1>4, <1>5, FS_Subset
<1>7. k * Cardinality(S) <= Cardinality(Residues(n, d, S))
  BY <1>4, <1>5, <1>6, FS_Subset
<1>8. Cardinality(Residues(n, d, S)) \in Nat /\ Cardinality(S) \in Nat
  BY <1>6, FS_CardinalityType, ResiduesCounted
<1>9. k * Cardinality(S) \in Nat /\ (k + 1) * Cardinality(S) \in Nat
  BY <1>8, ProductIsNat
<1> QED
  BY <1>2, <1>6, <1>7, <1>8, <1>9

(***************************************************************************)
(* Least members and ranks.                                                *)
(***************************************************************************)
LEMMA LeastExists ==
  ASSUME NEW n \in Nat, NEW S \in SUBSET (1..n), S # {}
  PROVE  \E i \in S : \A j \in S : i <= j
<1> DEFINE T == {1..i : i \in S}
<1>1. IsFiniteSet(1..n)
  BY Numbered
<1>2. T \subseteq SUBSET (1..n) /\ T # {}
  <2>1. \A i \in S : 1..i \in SUBSET (1..n)
    OBVIOUS
  <2>2. PICK i : i \in S
    OBVIOUS
  <2>3. 1..i \in T
    BY <2>2
  <2> QED
    BY <2>1, <2>3
<1> HIDE DEF T
<1>3. PICK x \in T : \A y \in SUBSET x : y # x => y \notin T
  BY <1>1, <1>2, Smallest
<1>4. PICK i \in S : x = 1..i
  BY <1>3 DEF T
<1>5. ASSUME NEW j \in S, j < i
      PROVE  FALSE
  <2>1. i \in Nat /\ j \in Nat /\ i >= 1
    OBVIOUS
  <2>2. 1..j \in SUBSET x /\ 1..j # x
    <3>1. i \in x /\ i \notin 1..j
      BY <1>4, <1>5, <2>1
    <3> QED
      BY <3>1, <1>4, <1>5, <2>1
  <2>3. 1..j \in T
    BY DEF T
  <2> QED
    BY <1>3, <2>2, <2>3
<1> QED
  BY <1>5

\* Induction over the numbers, for a set of them.
LEMMA NumbersInduct ==
  ASSUME NEW T, 0 \in T, \A n \in Nat : n \in T => n + 1 \in T
  PROVE  \A n \in Nat : n \in T
<1> SUFFICES ASSUME NEW n \in Nat, n \notin T PROVE FALSE
  OBVIOUS
<1> DEFINE S == {i \in 1..n : i \notin T}
<1>1. n \in S /\ S \in SUBSET (1..n)
  <2>1. n # 0
    OBVIOUS
  <2>2. n \in 1..n
    BY <2>1
  <2> QED
    BY <2>2
<1>2. PICK i \in S : \A j \in S : i <= j
  BY <1>1, LeastExists
<1>3. i \in 1..n /\ i \notin T /\ i \in Nat /\ ~(i <= i - 1)
  BY <1>1
<1>4. i - 1 \in Nat /\ (i - 1) + 1 = i
  BY <1>3
<1>5. i - 1 \notin T
  BY <1>3, <1>4
<1>6. i # 1
  BY <1>5
<1>7. i - 1 \in S
  BY <1>3, <1>5, <1>6
<1> QED
  BY <1>2, <1>3, <1>7

LEMMA MinIsLeast ==
  ASSUME NEW n \in Nat, NEW S \in SUBSET (1..n), S # {}
  PROVE  Min(S) \in S /\ \A j \in S : Min(S) <= j
<1>1. \E i \in S : \A j \in S : i <= j
  BY LeastExists
<1> QED
  BY <1>1 DEF Min

Rank(S, n) == Cardinality({m \in S : m < n})

LEMMA RanksCount ==
  ASSUME NEW S \in SUBSET Nat, IsFiniteSet(S)
  PROVE  /\ \A n \in S : Rank(S, n) \in 0..(Cardinality(S) - 1)
         /\ \A m, n \in S : Rank(S, m) = Rank(S, n) => m = n
         /\ \A k \in 0..(Cardinality(S) - 1) : \E n \in S : Rank(S, n) = k
<1> DEFINE Below(n) == {m \in S : m < n}
<1>1. ASSUME NEW n \in S
      PROVE  IsFiniteSet(Below(n)) /\ Cardinality(Below(n)) \in Nat /\ Cardinality(Below(n)) < Cardinality(S)
  <2>1. Below(n) \in SUBSET S /\ n \notin Below(n)
    OBVIOUS
  <2>2. /\ IsFiniteSet(Below(n)) /\ Cardinality(Below(n)) <= Cardinality(S)
        /\ Cardinality(Below(n)) # Cardinality(S)
    BY <2>1, FS_Subset
  <2>3. Cardinality(Below(n)) \in Nat /\ Cardinality(S) \in Nat
    BY <2>2, FS_CardinalityType
  <2> QED
    BY <2>2, <2>3
<1>2. ASSUME NEW m \in S, NEW n \in S, m < n
      PROVE  Cardinality(Below(m)) < Cardinality(Below(n))
  <2>0. m \in Nat /\ n \in Nat /\ \A x \in S : x \in Nat
    OBVIOUS
  <2>1. Below(m) \in SUBSET Below(n) /\ m \in Below(n) /\ m \notin Below(m)
    <3>1. \A x \in Below(m) : x \in Below(n)
      BY <1>2, <2>0
    <3>2. m \in Below(n) /\ m \notin Below(m)
      BY <1>2, <2>0
    <3> QED
      BY <3>1, <3>2
  <2>2. Cardinality(Below(m)) <= Cardinality(Below(n)) /\ Cardinality(Below(m)) # Cardinality(Below(n))
    BY <1>1, <2>1, FS_Subset
  <2>3. Cardinality(Below(m)) \in Nat /\ Cardinality(Below(n)) \in Nat
    BY <1>1
  <2> QED
    BY <2>2, <2>3
<1>3. \A n \in S : Rank(S, n) = Cardinality(Below(n))
  BY DEF Rank
<1>4. Cardinality(S) \in Nat
  BY FS_CardinalityType
<1> HIDE DEF Below
<1>5. \A n \in S : Rank(S, n) \in 0..(Cardinality(S) - 1)
  BY <1>1, <1>3, <1>4
<1>6. \A m, n \in S : Rank(S, m) = Rank(S, n) => m = n
  <2> SUFFICES ASSUME NEW m \in S, NEW n \in S, Rank(S, m) = Rank(S, n)
               PROVE  m = n
    OBVIOUS
  <2>1. ~ m < n /\ ~ n < m
    BY <1>1, <1>2, <1>3
  <2>2. m \in Nat /\ n \in Nat
    OBVIOUS
  <2> QED
    BY <2>1, <2>2
<1>7. \A k \in 0..(Cardinality(S) - 1) : \E n \in S : Rank(S, n) = k
  <2> DEFINE f == [n \in S |-> Rank(S, n)]
             T == 0..(Cardinality(S) - 1)
  <2>1. f \in Injection(S, T)
    BY <1>5, <1>6 DEF Injection, IsInjective
  <2>2. IsFiniteSet(T) /\ Cardinality(T) = Cardinality(S)
    <3>1. /\ IsFiniteSet(0..(Cardinality(S) - 1))
          /\ Cardinality(0..(Cardinality(S) - 1))
               = IF 0 > Cardinality(S) - 1 THEN 0 ELSE (Cardinality(S) - 1) - 0 + 1
      <4>1. Cardinality(S) - 1 \in Int /\ 0 \in Int
        BY <1>4
      <4> QED
        BY <4>1, FS_Interval
    <3> QED
      BY <3>1, <1>4
  <2> HIDE DEF T, f
  <2>3. f \in Surjection(S, T)
    BY <2>1, <2>2, FS_Injection
  <2> QED
    BY <2>3 DEF Surjection, f, T
<1> QED
  BY <1>5, <1>6, <1>7

\* Every member is the outcome at its rank, and at no other.
LEMMA NthIsRanked ==
  ASSUME NEW S \in SUBSET Nat, IsFiniteSet(S), NEW n \in S, NEW k \in 0..(Cardinality(S) - 1)
  PROVE  NthOutcome(S, k) = n <=> k = Rank(S, n)
<1>1. \E m \in S : Rank(S, m) = k
  BY RanksCount
<1>2. NthOutcome(S, k) = CHOOSE m \in S : Rank(S, m) = k
  BY DEF NthOutcome, Rank
<1>3. NthOutcome(S, k) \in S /\ Rank(S, NthOutcome(S, k)) = k
  BY <1>1, <1>2
<1>4. \A m \in S : Rank(S, m) = Rank(S, n) => m = n
  BY RanksCount
<1> QED
  BY <1>3, <1>4

(***************************************************************************)
(* Powers of ten, and amounts in other decimals.                           *)
(***************************************************************************)
Powers(f, k) == f[0] = 1 /\ \A n \in 1..k : f[n] = 10 * f[n - 1]

LEMMA PowersExist ==
  ASSUME NEW k \in Nat
  PROVE  \E f : Powers(f, k)
<1> DEFINE Has(i) == \E f : Powers(f, i)
           S == {i \in 1..k : ~Has(i)}
<1>1. Has(0)
  <2> DEFINE f == [n \in {0} |-> 1]
  <2>1. f[0] = 1 /\ 1..0 = {}
    OBVIOUS
  <2>2. Powers(f, 0)
    BY <2>1 DEF Powers
  <2> QED
    BY <2>2
<1>2. ASSUME NEW i \in 1..k, Has(i - 1)
      PROVE  Has(i)
  <2>1. PICK f : Powers(f, i - 1)
    BY <1>2
  <2> DEFINE last == 10 * f[i - 1]
             g == [n \in 0..i |-> IF n = i THEN last ELSE f[n]]
  <2>2. i - 1 \in Nat /\ i \in Nat /\ 0 # i
    OBVIOUS
  <2> HIDE DEF last
  <2>3. g[i] = last /\ \A n \in 0..(i - 1) : g[n] = f[n]
    BY <2>2
  <2> HIDE DEF g
  <2>4. ASSUME NEW n \in 1..i
        PROVE  g[n] = 10 * g[n - 1]
    <3>1. n - 1 \in 0..(i - 1)
      OBVIOUS
    <3>2. g[n - 1] = f[n - 1]
      BY <2>3, <3>1
    <3>3. CASE n = i
      BY <2>3, <3>2, <3>3 DEF last
    <3>4. CASE n # i
      <4>1. n \in 1..(i - 1) /\ n \in 0..(i - 1)
        BY <3>4
      <4>2. f[n] = 10 * f[n - 1]
        BY <2>1, <4>1 DEF Powers
      <4> QED
        BY <2>3, <3>2, <4>1, <4>2
    <3> QED
      BY <3>3, <3>4
  <2>5. g[0] = 1
    BY <2>1, <2>2, <2>3 DEF Powers
  <2>6. Powers(g, i)
    BY <2>4, <2>5 DEF Powers
  <2> QED
    BY <2>6
<1> HIDE DEF Has
<1>3. S = {}
  <2> SUFFICES ASSUME S # {} PROVE FALSE
    OBVIOUS
  <2>1. S \in SUBSET (1..k)
    OBVIOUS
  <2>2. PICK i \in S : \A j \in S : i <= j
    BY <2>1, LeastExists
  <2>3. i \in 1..k /\ ~Has(i) /\ i \in Nat /\ ~(i <= i - 1)
    BY <2>1
  <2>4. ~Has(i - 1)
    BY <1>2, <2>3
  <2>5. i # 1
    BY <1>1, <2>4
  <2>6. i - 1 \in S
    BY <2>3, <2>4, <2>5
  <2> QED
    BY <2>2, <2>3, <2>6
<1>4. k = 0 \/ k \in 1..k
  OBVIOUS
<1>5. Has(k)
  BY <1>1, <1>3, <1>4
<1> QED
  BY <1>5 DEF Has

LEMMA PowersAgree ==
  ASSUME NEW k \in Nat, NEW f, Powers(f, k), NEW g, Powers(g, k)
  PROVE  \A n \in 0..k : f[n] = g[n]
<1> DEFINE S == {i \in 1..k : f[i] # g[i]}
<1>1. S = {}
  <2> SUFFICES ASSUME S # {} PROVE FALSE
    OBVIOUS
  <2>1. S \in SUBSET (1..k)
    OBVIOUS
  <2>2. PICK i \in S : \A j \in S : i <= j
    BY <2>1, LeastExists
  <2>3. i \in 1..k /\ f[i] # g[i] /\ i \in Nat /\ ~(i <= i - 1)
    BY <2>1
  <2>4. f[i - 1] = g[i - 1]
    <3>1. CASE i = 1
      BY <3>1 DEF Powers
    <3>2. CASE i # 1
      <4>1. i - 1 \in 1..k /\ i - 1 \notin S
        BY <2>2, <2>3, <3>2
      <4> QED
        BY <4>1
    <3> QED
      BY <3>1, <3>2
  <2> QED
    BY <2>3, <2>4 DEF Powers
<1>2. \A n \in 0..k : n = 0 \/ n \in 1..k
  OBVIOUS
<1> QED
  BY <1>1, <1>2 DEF Powers

LEMMA TenToUnfolds ==
  TenTo[0] = 1 /\ \A n \in Nat : n # 0 => TenTo[n] = 10 * TenTo[n - 1]
<1> DEFINE F(n) == CHOOSE f : Powers(f, n)
           g == [n \in Nat |-> F(n)[n]]
           P(f) == f = [n \in Nat |-> IF n = 0 THEN 1 ELSE 10 * f[n - 1]]
<1>1. \A n \in Nat : Powers(F(n), n)
  BY PowersExist
<1> HIDE DEF F
<1>2. \A n \in Nat : g[n] = F(n)[n]
  OBVIOUS
<1> HIDE DEF g
<1>3. g[0] = 1
  BY <1>1, <1>2 DEF Powers
<1>4. ASSUME NEW n \in Nat, n # 0
      PROVE  g[n] = 10 * g[n - 1]
  <2>1. n - 1 \in Nat /\ n \in 1..n /\ n - 1 \in 0..(n - 1) /\ \A m \in 1..(n - 1) : m \in 1..n
    BY <1>4
  <2>2. Powers(F(n), n) /\ Powers(F(n - 1), n - 1)
    BY <1>1, <2>1
  <2>3. Powers(F(n), n - 1)
    BY <2>1, <2>2 DEF Powers
  <2>4. F(n)[n - 1] = F(n - 1)[n - 1]
    BY <2>1, <2>2, <2>3, PowersAgree
  <2>5. F(n)[n] = 10 * F(n)[n - 1]
    BY <2>1, <2>2 DEF Powers
  <2> QED
    BY <1>2, <2>1, <2>4, <2>5
<1>5. P(g)
  <2>1. g = [n \in Nat |-> g[n]]
    BY DEF g
  <2>2. \A n \in Nat : g[n] = IF n = 0 THEN 1 ELSE 10 * g[n - 1]
    BY <1>3, <1>4
  <2> QED
    BY <2>1, <2>2
<1>6. TenTo = CHOOSE f : P(f)
  BY DEF TenTo
<1> HIDE DEF P
<1>7. P(TenTo)
  BY <1>5, <1>6
<1>8. TenTo = [n \in Nat |-> IF n = 0 THEN 1 ELSE 10 * TenTo[n - 1]]
  BY ONLY <1>7 DEF P
<1>9. \A n \in Nat : TenTo[n] = IF n = 0 THEN 1 ELSE 10 * TenTo[n - 1]
  BY ONLY <1>8
<1> QED
  BY <1>9

\* A sum of exponents is a product of powers.
LEMMA TenToAdds ==
  /\ \A n \in Nat : TenTo[n] \in Nat \ {0}
  /\ \A m, n \in Nat : TenTo[m + n] = TenTo[m] * TenTo[n]
<1>1. \A n \in Nat : TenTo[n + 1] = 10 * TenTo[n]
  <2>1. \A n \in Nat : n + 1 \in Nat /\ n + 1 # 0 /\ (n + 1) - 1 = n
    OBVIOUS
  <2> QED
    BY <2>1, TenToUnfolds
<1>2. \A n \in Nat : TenTo[n] \in Nat \ {0}
  <2> DEFINE T == {n \in Nat : TenTo[n] \in Nat \ {0}}
  <2>1. 0 \in T
    BY TenToUnfolds
  <2>2. \A n \in Nat : n \in T => n + 1 \in T
    <3> SUFFICES ASSUME NEW n \in Nat, TenTo[n] \in Nat \ {0} PROVE n + 1 \in T
      OBVIOUS
    <3>1. PICK t \in Nat \ {0} : t = TenTo[n]
      OBVIOUS
    <3>2. 10 * t \in Nat \ {0} /\ n + 1 \in Nat
      OBVIOUS
    <3> QED
      BY <1>1, <3>1, <3>2
  <2> HIDE DEF T
  <2>3. \A n \in Nat : n \in T
    BY <2>1, <2>2, NumbersInduct
  <2> QED
    BY <2>3 DEF T
<1>3. ASSUME NEW m \in Nat
      PROVE  \A n \in Nat : TenTo[m + n] = TenTo[m] * TenTo[n]
  <2> DEFINE T == {n \in Nat : TenTo[m + n] = TenTo[m] * TenTo[n]}
  <2>0. PICK p \in Nat : p = TenTo[m]
    BY <1>2
  <2>1. 0 \in T
    <3>1. m + 0 = m /\ p * 1 = p
      OBVIOUS
    <3> QED
      BY <2>0, <3>1, TenToUnfolds
  <2>2. \A n \in Nat : n \in T => n + 1 \in T
    <3> SUFFICES ASSUME NEW n \in Nat, TenTo[m + n] = TenTo[m] * TenTo[n]
                 PROVE  TenTo[m + (n + 1)] = TenTo[m] * TenTo[n + 1]
      OBVIOUS
    <3>1. m + n \in Nat /\ m + (n + 1) = (m + n) + 1
      OBVIOUS
    <3>2. PICK q \in Nat : q = TenTo[n]
      BY <1>2
    <3>3. TenTo[m + (n + 1)] = 10 * (p * q)
      BY <1>1, <2>0, <3>1, <3>2
    <3>4. 10 * (p * q) = p * (10 * q)
      OBVIOUS
    <3>5. TenTo[n + 1] = 10 * q
      BY <1>1, <3>2
    <3> QED
      BY <2>0, <3>3, <3>4, <3>5
  <2> HIDE DEF T
  <2>3. \A n \in Nat : n \in T
    BY <2>1, <2>2, NumbersInduct
  <2> QED
    BY <2>3 DEF T
<1> QED
  BY <1>2, <1>3

\* A normalized amount is the amount, in other decimals.
LEMMA NormalizedScales ==
  ASSUME NEW a \in Nat, NEW d \in Nat
  PROVE  /\ NormalizeAmount(a, d) \in Nat \cup {-1}
         /\ NormalizeAmount(a, d) # -1 =>
              NormalizeAmount(a, d) * TenTo[d] = a * TenTo[NORMALIZED_DECIMALS]
<1>1. NORMALIZED_DECIMALS \in Nat
  BY FlipConstants
<1>2. PICK s \in Nat : s = NORMALIZED_DECIMALS
  BY <1>1
<1>3. PICK p \in Nat \ {0} : p = TenTo[d]
  BY TenToAdds
<1>4. PICK t \in Nat \ {0} : t = TenTo[s]
  BY TenToAdds
<1>5. CASE d <= s
  <2>1. s - d \in Nat /\ (s - d) + d = s
    BY <1>5
  <2>2. PICK v \in Nat \ {0} : v = TenTo[s - d]
    BY <2>1, TenToAdds
  <2>3. t = v * p
    BY <2>1, <2>2, <1>3, <1>4, TenToAdds
  <2>4. NormalizeAmount(a, d) = a * v
    BY <1>2, <1>5, <2>2 DEF NormalizeAmount
  <2>5. (a * v) * p = a * (v * p) /\ a * v \in Nat
    BY ProductIsNat
  <2> QED
    BY <1>2, <1>3, <1>4, <2>3, <2>4, <2>5
<1>6. CASE d > s
  <2>1. d - s \in Nat /\ s + (d - s) = d /\ ~ d <= s
    BY <1>6
  <2>2. PICK v \in Nat \ {0} : v = TenTo[d - s]
    BY <2>1, TenToAdds
  <2>3. p = t * v
    BY <2>1, <2>2, <1>3, <1>4, TenToAdds
  <2>4. NormalizeAmount(a, d) = IF a % v = 0 THEN a \div v ELSE -1
    BY <1>2, <2>1, <2>2 DEF NormalizeAmount
  <2>5. a \div v \in Nat /\ a = v * (a \div v) + (a % v)
    BY QuotientAndRest
  <2>6. PICK x \in Nat : x = a \div v
    BY <2>5
  <2>7. CASE a % v = 0
    <3>1. a = v * x
      BY <2>5, <2>6, <2>7, ProductIsNat
    <3>2. x * (t * v) = (v * x) * t
      OBVIOUS
    <3> QED
      BY <1>2, <1>3, <1>4, <2>3, <2>4, <2>6, <2>7, <3>1, <3>2
  <2>8. CASE a % v # 0
    BY <2>4, <2>8
  <2> QED
    BY <2>7, <2>8
<1> QED
  BY <1>5, <1>6

LEMMA ScalingKeepsOrder ==
  ASSUME NEW c \in Nat \ {0}, NEW a \in Nat, NEW b \in Nat
  PROVE  a <= b <=> c * a <= c * b
<1>1. a <= b => c * a <= c * b
  BY ProductIsMonotone
<1>2. ASSUME b < a
      PROVE  ~ c * a <= c * b
  <2>1. c * (b + 1) <= c * a
    BY <1>2, ProductIsMonotone
  <2>2. c * (b + 1) = c * b + c * 1 /\ c * 1 = c /\ c * b \in Nat /\ c * a \in Nat
    BY Distributes, ProductIsNat
  <2> QED
    BY <2>1, <2>2
<1> QED
  BY <1>1, <1>2

\* Theorem: amounts are compared exactly, whatever their decimals.
THEOREM AmountsAreExact ==
  ASSUME NEW a \in Nat, NEW b \in Nat, NEW d \in Nat, NEW e \in Nat
  PROVE  AmountsCompareExactly(a, d, b, e)
<1> SUFFICES ASSUME NormalizeAmount(a, d) # -1, NormalizeAmount(b, e) # -1
             PROVE  NormalizeAmount(a, d) <= NormalizeAmount(b, e) <=> a * TenTo[e] <= b * TenTo[d]
  BY DEF AmountsCompareExactly
<1>1. PICK x \in Nat : x = NormalizeAmount(a, d)
  BY NormalizedScales
<1>2. PICK y \in Nat : y = NormalizeAmount(b, e)
  BY NormalizedScales
<1>3. PICK p \in Nat \ {0} : p = TenTo[d]
  BY TenToAdds
<1>4. PICK q \in Nat \ {0} : q = TenTo[e]
  BY TenToAdds
<1>5. PICK t \in Nat \ {0} : t = TenTo[NORMALIZED_DECIMALS]
  BY TenToAdds, FlipConstants
<1>6. x * p = a * t /\ y * q = b * t
  BY <1>1, <1>2, <1>3, <1>4, <1>5, NormalizedScales
<1>7. a * q \in Nat /\ b * p \in Nat /\ p * q \in Nat
  BY ProductIsNat
<1>8. p * q # 0
  <2>1. p * 1 <= p * q /\ p * 1 = p
    BY ProductIsMonotone
  <2> QED
    BY <2>1, <1>7
<1>9. x <= y <=> (p * q) * x <= (p * q) * y
  BY <1>7, <1>8, ScalingKeepsOrder
<1>10. (p * q) * x = t * (a * q)
  <2>1. (p * q) * x = q * (x * p) /\ q * (a * t) = t * (a * q)
    OBVIOUS
  <2> QED
    BY <2>1, <1>6
<1>11. (p * q) * y = t * (b * p)
  <2>1. (p * q) * y = p * (y * q) /\ p * (b * t) = t * (b * p)
    OBVIOUS
  <2> QED
    BY <2>1, <1>6
<1>12. a * q <= b * p <=> t * (a * q) <= t * (b * p)
  BY <1>7, ScalingKeepsOrder
<1>13. x <= y <=> a * q <= b * p
  BY ONLY <1>9, <1>10, <1>11, <1>12
<1> QED
  BY <1>1, <1>2, <1>3, <1>4, <1>13

(***************************************************************************)
(* The bands divide the rolls.                                             *)
(***************************************************************************)
Ppms(bands) == [j \in DOMAIN bands |-> bands[j].ppm]

LEMMA PpmUpToIsSum ==
  ASSUME NEW bands, NEW i, 1..i \in SUBSET DOMAIN bands, IsFiniteSet(1..i)
  PROVE  PpmUpTo(bands, i) = Sum(Ppms(bands), 1..i)
<1> DEFINE S == 1..i
           P(v) == v = [s \in SUBSET S |->
                          IF s = {} THEN 0 ELSE bands[Pick(s)].ppm + v[s \ {Pick(s)}]]
           u == CHOOSE v : P(v)
<1>1. \A v : P(v) <=> Summing(v, Ppms(bands), S)
  <2>1. \A s \in SUBSET S : s # {} => Ppms(bands)[Pick(s)] = bands[Pick(s)].ppm
    BY PickIsMember DEF Ppms
  <2>2. ASSUME NEW v
        PROVE  P(v) <=> Summing(v, Ppms(bands), S)
    BY <2>1 DEF Summing
  <2> QED
    BY <2>2
<1>2. PpmUpTo(bands, i) = u[S]
  BY DEF PpmUpTo, MapThenSumSet, MapThenFoldSet, Pick
<1>3. S \in SUBSET DOMAIN Ppms(bands)
  BY DEF Ppms
<1> HIDE DEF S, P
<1>4. P(u)
  BY <1>1, <1>3, SummingSums DEF S
<1> HIDE DEF u
<1> QED
  BY <1>1, <1>2, <1>3, <1>4, SummingSums DEF S

\* What the calculators ask of bands: numbers, which add up to the scale.
BandsAdd(bands, scale) ==
  /\ DOMAIN bands = 1..Len(bands) /\ Len(bands) \in Nat \ {0} /\ scale \in Nat \ {0}
  /\ \A i \in DOMAIN bands : bands[i].ppm \in Nat
  /\ PpmUpTo(bands, Len(bands)) = scale

LEMMA PpmUpToGrows ==
  ASSUME NEW bands, NEW scale, BandsAdd(bands, scale)
  PROVE  /\ \A i \in 0..Len(bands) : PpmUpTo(bands, i) \in Nat
         /\ PpmUpTo(bands, 0) = 0
         /\ \A i \in 1..Len(bands) : PpmUpTo(bands, i) = PpmUpTo(bands, i - 1) + bands[i].ppm
         /\ \A i, j \in 0..Len(bands) : i <= j => PpmUpTo(bands, i) <= PpmUpTo(bands, j)
<1> DEFINE n == Len(bands)
           f == Ppms(bands)
           D == 1..n
<1>1. n \in Nat /\ DOMAIN bands = D /\ \A i \in D : bands[i].ppm \in Nat
  BY DEF BandsAdd
<1>2. f \in [D -> Nat] /\ \A i \in D : f[i] = bands[i].ppm
  BY <1>1 DEF Ppms
<1>3. IsFiniteSet(D)
  BY <1>1, Numbered
<1> HIDE DEF n, f
<1>4. ASSUME NEW i \in 0..n
      PROVE  /\ PpmUpTo(bands, i) = Sum(f, 1..i) /\ 1..i \in SUBSET D /\ Sum(f, 1..i) \in Nat
  <2>1. i \in Nat /\ i <= n
    BY <1>1
  <2>2. 1..i \in SUBSET D
    BY <1>1, <2>1
  <2>3. IsFiniteSet(1..i)
    BY <2>1, Numbered
  <2>4. PpmUpTo(bands, i) = Sum(f, 1..i)
    BY <1>1, <2>2, <2>3, PpmUpToIsSum DEF f
  <2>5. Sum(f, 1..i) \in Nat
    BY <1>2, <1>3, <2>2, SumTakesOut
  <2> QED
    BY <2>2, <2>4, <2>5
<1>5. PpmUpTo(bands, 0) = 0
  <2>1. 0 \in 0..n /\ 1..0 = {}
    BY <1>1
  <2>2. Sum(f, {}) = 0
    BY <1>2, <1>3, SumTakesOut
  <2> QED
    BY <1>4, <2>1, <2>2
<1>6. ASSUME NEW i \in 1..n
      PROVE  PpmUpTo(bands, i) = PpmUpTo(bands, i - 1) + bands[i].ppm
  <2>1. i \in 0..n /\ i - 1 \in 0..n /\ i \in 1..i /\ (1..i) \ {i} = 1..(i - 1) /\ i \in D
    BY <1>1
  <2>2. 1..i \in SUBSET D
    BY <1>4, <2>1
  <2>a. DOMAIN f = D /\ \A x \in DOMAIN f : f[x] \in Nat
    BY <1>2
  <2>b. IsFiniteSet(DOMAIN f) /\ (\A x \in DOMAIN f : f[x] \in Nat) /\ 1..i \in SUBSET DOMAIN f
    BY ONLY <2>a, <2>2, <1>3
  <2>c. \A x \in 1..i : Sum(f, 1..i) = f[x] + Sum(f, (1..i) \ {x})
    BY ONLY <2>b, SumTakesOut
  <2>3. Sum(f, 1..i) = f[i] + Sum(f, (1..i) \ {i})
    BY ONLY <2>1, <2>c
  <2>4. /\ PpmUpTo(bands, i) = Sum(f, 1..i) /\ PpmUpTo(bands, i - 1) = Sum(f, 1..(i - 1))
        /\ Sum(f, 1..(i - 1)) \in Nat
    BY <1>4, <2>1
  <2>5. f[i] = bands[i].ppm /\ f[i] \in Nat
    BY <1>2, <2>1
  <2>6. Sum(f, 1..i) = f[i] + Sum(f, 1..(i - 1))
    BY ONLY <2>1, <2>3
  <2> QED
    BY ONLY <2>4, <2>5, <2>6
<1>7. ASSUME NEW i \in 0..n, NEW j \in 0..n, i <= j
      PROVE  PpmUpTo(bands, i) <= PpmUpTo(bands, j)
  <2>1. 1..i \in SUBSET (1..j) /\ 1..j \in SUBSET D
    BY <1>4, <1>7
  <2>2. Sum(f, 1..i) <= Sum(f, 1..j)
    BY <1>2, <1>3, <2>1, SumOfPart
  <2> QED
    BY <1>4, <2>2
<1> QED
  BY <1>4, <1>5, <1>6, <1>7 DEF n

\* flipBandForRoll and gachaPullOddsBandForRoll are one function of the bands.
LEMMA BandForRollDivides ==
  ASSUME NEW bands, NEW scale, BandsAdd(bands, scale), NEW roll \in 0..(scale - 1), NEW i \in DOMAIN bands
  PROVE  /\ FlipBandForRoll(bands, roll) = GachaBandForRoll(bands, roll)
         /\ FlipBandForRoll(bands, roll) = i
              <=> PpmUpTo(bands, i - 1) <= roll /\ roll < PpmUpTo(bands, i)
<1> DEFINE n == Len(bands)
           P(j) == PpmUpTo(bands, j)
           S == {j \in DOMAIN bands : roll < P(j)}
<1>1. n \in Nat \ {0} /\ DOMAIN bands = 1..n /\ P(n) = scale /\ scale \in Nat \ {0} /\ roll \in Nat
  BY DEF BandsAdd
<1>2. /\ \A j \in 0..n : P(j) \in Nat
      /\ P(0) = 0
      /\ \A j, k \in 0..n : j <= k => P(j) <= P(k)
  BY PpmUpToGrows
<1>3. FlipBandForRoll(bands, roll) = Min(S) /\ GachaBandForRoll(bands, roll) = Min(S)
  BY DEF FlipBandForRoll, GachaBandForRoll
<1> HIDE DEF n, P
<1>4. S \in SUBSET (1..n) /\ n \in S
  BY <1>1
<1>5. Min(S) \in S /\ \A j \in S : Min(S) <= j
  <2>1. n \in Nat /\ S # {} /\ S \in SUBSET (1..n)
    BY <1>1, <1>4
  <2> HIDE DEF S
  <2> QED
    BY <2>1, MinIsLeast
<1>6. PICK least \in S : least = Min(S)
  BY <1>5
<1>7. i \in Nat /\ i >= 1 /\ i <= n /\ i \in 0..n /\ i - 1 \in 0..n
  BY <1>1
<1>8. least \in 1..n /\ roll < P(least) /\ least \in Nat /\ least \in 0..n
  BY <1>1, <1>4
<1>9. ASSUME least = i
      PROVE  P(i - 1) <= roll /\ roll < P(i)
  <2>1. CASE i = 1
    BY <2>1, <1>1, <1>2, <1>8, <1>9
  <2>2. CASE i # 1
    <3>1. i - 1 \in DOMAIN bands /\ ~ (i <= i - 1)
      BY <1>1, <1>7, <2>2
    <3>2. i - 1 \notin S
      BY <1>5, <1>6, <1>9, <3>1
    <3>3. ~ roll < P(i - 1)
      BY <3>1, <3>2
    <3>4. P(i - 1) \in Nat
      BY <1>2, <1>7
    <3> QED
      BY <1>1, <1>8, <1>9, <3>3, <3>4
  <2> QED
    BY <2>1, <2>2
<1>10. ASSUME P(i - 1) <= roll, roll < P(i)
       PROVE  least = i
  <2>1. i \in S
    BY <1>10
  <2>2. least <= i
    BY <1>5, <1>6, <2>1
  <2>3. ~ least <= i - 1
    <3> SUFFICES ASSUME least <= i - 1 PROVE FALSE
      OBVIOUS
    <3>1. P(least) <= P(i - 1) /\ P(least) \in Nat /\ P(i - 1) \in Nat
      BY <1>2, <1>7, <1>8
    <3> QED
      BY <1>1, <1>8, <1>10, <3>1
  <2> QED
    BY <1>7, <1>8, <2>2, <2>3
<1> QED
  BY <1>3, <1>6, <1>9, <1>10 DEF P

\* The rolls of a band are as many as its odds say.
RollsOf(bands, i) == PpmUpTo(bands, i - 1)..(PpmUpTo(bands, i) - 1)

LEMMA RollsCount ==
  ASSUME NEW bands, NEW scale, BandsAdd(bands, scale), NEW i \in DOMAIN bands
  PROVE  /\ RollsOf(bands, i) \in SUBSET (0..(scale - 1))
         /\ Cardinality(RollsOf(bands, i)) = bands[i].ppm
         /\ \A roll \in 0..(scale - 1) :
              /\ FlipBandForRoll(bands, roll) = i <=> roll \in RollsOf(bands, i)
              /\ GachaBandForRoll(bands, roll) = i <=> roll \in RollsOf(bands, i)
<1> DEFINE n == Len(bands)
<1>1. /\ n \in Nat \ {0} /\ DOMAIN bands = 1..n /\ PpmUpTo(bands, n) = scale /\ scale \in Nat \ {0}
      /\ bands[i].ppm \in Nat
  BY DEF BandsAdd
<1>2. PICK lo \in Nat : lo = PpmUpTo(bands, i - 1)
  <2>1. i - 1 \in 0..n
    BY <1>1
  <2> QED
    BY <2>1, PpmUpToGrows
<1>3. PICK hi \in Nat : hi = PpmUpTo(bands, i)
  <2>1. i \in 0..n
    BY <1>1
  <2> QED
    BY <2>1, PpmUpToGrows
<1>4. hi = lo + bands[i].ppm
  BY <1>1, <1>2, <1>3, PpmUpToGrows
<1>5. hi <= scale
  <2>1. i \in 0..n /\ n \in 0..n /\ i <= n
    BY <1>1
  <2> QED
    BY <1>1, <1>3, <2>1, PpmUpToGrows
<1>6. RollsOf(bands, i) = lo..(hi - 1)
  BY <1>2, <1>3 DEF RollsOf
<1>7. RollsOf(bands, i) \in SUBSET (0..(scale - 1))
  BY <1>1, <1>5, <1>6
<1>8. Cardinality(lo..(hi - 1)) = bands[i].ppm
  <2>1. lo \in Int /\ hi - 1 \in Int
    OBVIOUS
  <2>2. Cardinality(lo..(hi - 1)) = IF lo > hi - 1 THEN 0 ELSE (hi - 1) - lo + 1
    BY <2>1, FS_Interval
  <2> QED
    BY <1>1, <1>4, <2>2
<1>9. ASSUME NEW roll \in 0..(scale - 1)
      PROVE  /\ FlipBandForRoll(bands, roll) = i <=> roll \in RollsOf(bands, i)
             /\ GachaBandForRoll(bands, roll) = i <=> roll \in RollsOf(bands, i)
  <2>1. roll \in RollsOf(bands, i) <=> (lo <= roll /\ roll < hi)
    BY <1>1, <1>6
  <2> QED
    BY <2>1, <1>2, <1>3, BandForRollDivides
<1> QED
  BY <1>6, <1>7, <1>8, <1>9

(***************************************************************************)
(* The draw of the flip game.                                              *)
(***************************************************************************)
\* Rejection leaves a whole number of rounds of the modulus.
LEMMA AcceptedIsWhole ==
  ASSUME NEW d \in Nat \ {0}
  PROVE  \E k \in Nat : /\ d * k \in Nat /\ Accepted(d) = 0..(d * k - 1)
                        /\ Cardinality(Accepted(d)) = d * k
                        /\ d <= UINT64_RANGE => k >= 1
<1>1. UINT64_RANGE \in Nat
  BY FlipConstants
<1>2. PICK U \in Nat : U = UINT64_RANGE
  BY <1>1
<1>3. U \div d \in Nat /\ U % d \in 0..(d - 1) /\ U = d * (U \div d) + (U % d)
  BY QuotientAndRest
<1>4. PICK k \in Nat : k = U \div d
  BY <1>3
<1>5. PICK r \in 0..(d - 1) : r = U % d
  BY <1>3
<1>6. U = d * k + r /\ d * k \in Nat
  BY <1>3, <1>4, <1>5, ProductIsNat
<1>7. Accepted(d) = 0..(d * k - 1)
  <2>1. Accepted(d) = 0..(U - r - 1)
    BY <1>2, <1>5 DEF Accepted
  <2>2. U - r - 1 = d * k - 1
    BY <1>6
  <2> QED
    BY <2>1, <2>2
<1>8. Cardinality(Accepted(d)) = d * k
  <2>1. d * k - 1 \in Int /\ 0 \in Int
    BY <1>6
  <2>2. Cardinality(0..(d * k - 1)) = IF 0 > d * k - 1 THEN 0 ELSE (d * k - 1) - 0 + 1
    BY <2>1, FS_Interval
  <2> QED
    BY <2>2, <1>6, <1>7
<1>9. ASSUME d <= U
      PROVE  k >= 1
  <2> SUFFICES ASSUME k = 0 PROVE FALSE
    OBVIOUS
  <2>1. d * k = 0
    OBVIOUS
  <2> QED
    BY <2>1, <1>5, <1>6, <1>9
<1> QED
  BY <1>2, <1>6, <1>7, <1>8, <1>9

\* The digests that lead to a band.
DigestsOf(bands, i) ==
  {r \in Accepted(FLIP_PROBABILITY_SCALE_PPM) :
     FlipBandForRoll(bands, UnbiasedIndex(r, FLIP_PROBABILITY_SCALE_PPM)) = i}

LEMMA BandIsDrawnByOdds ==
  ASSUME NEW bands, BandsAdd(bands, FLIP_PROBABILITY_SCALE_PPM), NEW i \in DOMAIN bands
  PROVE  /\ FLIP_PROBABILITY_SCALE_PPM * Cardinality(DigestsOf(bands, i))
              = bands[i].ppm * Cardinality(Accepted(FLIP_PROBABILITY_SCALE_PPM))
         /\ bands[i].ppm >= 1 => DigestsOf(bands, i) # {}
<1>1. FLIP_PROBABILITY_SCALE_PPM \in Nat \ {0} /\ FLIP_PROBABILITY_SCALE_PPM <= UINT64_RANGE
  BY FlipConstants
<1>2. PICK d \in Nat \ {0} : d = FLIP_PROBABILITY_SCALE_PPM
  BY <1>1
<1>3. PICK k \in Nat : /\ d * k \in Nat /\ Accepted(d) = 0..(d * k - 1)
                       /\ Cardinality(Accepted(d)) = d * k
                       /\ d <= UINT64_RANGE => k >= 1
  BY AcceptedIsWhole
<1>4. bands[i].ppm \in Nat
  BY DEF BandsAdd
<1>5. PICK p \in Nat : p = bands[i].ppm
  BY <1>4
<1>6. /\ RollsOf(bands, i) \in SUBSET (0..(d - 1)) /\ Cardinality(RollsOf(bands, i)) = p
      /\ \A roll \in 0..(d - 1) : FlipBandForRoll(bands, roll) = i <=> roll \in RollsOf(bands, i)
  BY <1>2, <1>5, RollsCount
<1>7. DigestsOf(bands, i) = Residues(d * k, d, RollsOf(bands, i))
  <2>1. \A r \in 0..(d * k - 1) : r % d \in 0..(d - 1)
    <3> SUFFICES ASSUME NEW r \in 0..(d * k - 1) PROVE r % d \in 0..(d - 1)
      OBVIOUS
    <3>1. r \in Nat
      BY <1>3
    <3> QED
      BY <3>1, QuotientAndRest
  <2>2. DigestsOf(bands, i) = {r \in 0..(d * k - 1) : FlipBandForRoll(bands, r % d) = i}
    BY <1>2, <1>3 DEF DigestsOf, UnbiasedIndex
  <2>3. Residues(d * k, d, RollsOf(bands, i)) = {r \in 0..(d * k - 1) : r % d \in RollsOf(bands, i)}
    BY DEF Residues
  <2> QED
    BY <2>1, <2>2, <2>3, <1>6
<1>8. Cardinality(DigestsOf(bands, i)) = k * p
  BY <1>6, <1>7, ResiduesCounted
<1>9. d * (k * p) = p * (d * k)
  OBVIOUS
<1>10. ASSUME p >= 1
       PROVE  DigestsOf(bands, i) # {}
  <2> SUFFICES ASSUME DigestsOf(bands, i) = {} PROVE FALSE
    OBVIOUS
  <2>1. k * p = 0
    BY <1>8, FS_EmptySet
  <2>2. k * 1 <= k * p /\ k * 1 = k
    BY <1>10, ProductIsMonotone
  <2> QED
    BY <2>1, <2>2, <1>1, <1>2, <1>3
<1> QED
  BY <1>2, <1>3, <1>5, <1>8, <1>9, <1>10

\* The numbers that lead to one member of a set, when they are reduced by its size.
LEMMA NthIsResidue ==
  ASSUME NEW S \in SUBSET Nat, IsFiniteSet(S), NEW n \in S, NEW m \in Nat
  PROVE  /\ Cardinality(S) \in Nat \ {0}
         /\ Rank(S, n) \in 0..(Cardinality(S) - 1)
         /\ {v \in 0..(m - 1) : NthOutcome(S, v % Cardinality(S)) = n}
              = Residues(m, Cardinality(S), {Rank(S, n)})
<1>1. Cardinality(S) \in Nat /\ Cardinality(S) # 0
  BY FS_CardinalityType, FS_EmptySet
<1>2. PICK c \in Nat \ {0} : c = Cardinality(S)
  BY <1>1
<1>3. Rank(S, n) \in 0..(c - 1)
  BY <1>2, RanksCount
<1>4. \A v \in 0..(m - 1) : NthOutcome(S, v % c) = n <=> v % c = Rank(S, n)
  <2> SUFFICES ASSUME NEW v \in 0..(m - 1) PROVE NthOutcome(S, v % c) = n <=> v % c = Rank(S, n)
    OBVIOUS
  <2>1. v \in Nat
    OBVIOUS
  <2>2. v % c \in 0..(c - 1)
    BY <2>1, QuotientAndRest
  <2>3. PICK k \in 0..(Cardinality(S) - 1) : k = v % c
    BY <1>2, <2>2
  <2>4. NthOutcome(S, k) = n <=> k = Rank(S, n)
    BY NthIsRanked
  <2> QED
    BY <2>3, <2>4
<1>5. Residues(m, c, {Rank(S, n)}) = {v \in 0..(m - 1) : v % c \in {Rank(S, n)}}
  BY DEF Residues
<1> QED
  BY <1>1, <1>2, <1>3, <1>4, <1>5

LEMMA OutcomesAreDrawnEqually ==
  ASSUME NEW S \in SUBSET Nat, IsFiniteSet(S), NEW n \in S
  PROVE  Cardinality(S)
           * Cardinality({p \in Accepted(Cardinality(S)) : NthOutcome(S, UnbiasedIndex(p, Cardinality(S))) = n})
         = Cardinality(Accepted(Cardinality(S)))
<1>1. Cardinality(S) \in Nat \ {0}
  BY FS_CardinalityType, FS_EmptySet
<1>2. PICK c \in Nat \ {0} : c = Cardinality(S)
  BY <1>1
<1>3. PICK k \in Nat : /\ c * k \in Nat /\ Accepted(c) = 0..(c * k - 1)
                       /\ Cardinality(Accepted(c)) = c * k
  BY AcceptedIsWhole
<1>4. {p \in Accepted(c) : NthOutcome(S, UnbiasedIndex(p, c)) = n} = Residues(c * k, c, {Rank(S, n)})
  BY <1>2, <1>3, NthIsResidue DEF UnbiasedIndex
<1>5. Cardinality({Rank(S, n)}) = 1
  BY FS_Singleton
<1>6. {Rank(S, n)} \in SUBSET (0..(c - 1))
  <2>1. Rank(S, n) \in 0..(c - 1)
    BY <1>2, <1>3, NthIsResidue
  <2> QED
    BY <2>1
<1>7. Cardinality(Residues(c * k, c, {Rank(S, n)})) = k * 1
  BY <1>5, <1>6, ResiduesCounted
<1>8. k * 1 = k
  OBVIOUS
<1> QED
  BY <1>2, <1>3, <1>4, <1>7, <1>8

\* A pool whose bands are reviewed and whose outcomes are numbered draws fairly.
LEMMA DrawsAreFair ==
  ASSUME NEW pool, BandsAdd(pool.rules.bands, FLIP_PROBABILITY_SCALE_PPM),
         \A i \in DOMAIN pool.rules.bands :
           /\ pool.rules.bands[i].ppm >= 1
           /\ BandOutcomes(pool, i) \in SUBSET Nat /\ IsFiniteSet(BandOutcomes(pool, i))
  PROVE  DrawIsFair(pool)
<1> DEFINE B == pool.rules.bands
           rolls == Accepted(FLIP_PROBABILITY_SCALE_PPM)
           PicksOf(i, n) == {p \in Accepted(Cardinality(BandOutcomes(pool, i))) :
                               \A r \in DigestsOf(B, i) : SelectFlipOutcome(pool, r, p).ordinal = n}
<1>1. ASSUME NEW i \in DOMAIN B
      PROVE  FLIP_PROBABILITY_SCALE_PPM * Cardinality(DigestsOf(B, i)) = B[i].ppm * Cardinality(rolls)
  BY BandIsDrawnByOdds
<1>2. ASSUME NEW i \in DOMAIN B, NEW n \in BandOutcomes(pool, i)
      PROVE  Cardinality(BandOutcomes(pool, i)) * Cardinality(PicksOf(i, n))
               = Cardinality(Accepted(Cardinality(BandOutcomes(pool, i))))
  <2> DEFINE S == BandOutcomes(pool, i)
             Mine == {p \in Accepted(Cardinality(S)) : NthOutcome(S, UnbiasedIndex(p, Cardinality(S))) = n}
  <2>1. DigestsOf(B, i) # {}
    BY BandIsDrawnByOdds
  <2>2. \A r \in DigestsOf(B, i) : \A p :
          SelectFlipOutcome(pool, r, p).ordinal = NthOutcome(S, UnbiasedIndex(p, Cardinality(S)))
    BY DEF SelectFlipOutcome, DigestsOf
  <2>3. PicksOf(i, n) = Mine
    BY <2>1, <2>2
  <2>4. S \in SUBSET Nat /\ IsFiniteSet(S) /\ n \in S
    OBVIOUS
  <2> HIDE DEF S
  <2>5. Cardinality(S) * Cardinality(Mine) = Cardinality(Accepted(Cardinality(S)))
    BY ONLY <2>4, OutcomesAreDrawnEqually DEF Mine
  <2> HIDE DEF Mine, PicksOf
  <2> QED
    BY <2>3, <2>5 DEF S
<1> QED
  BY <1>1, <1>2 DEF DrawIsFair, DigestsOf

(***************************************************************************)
(* The draw of the gacha machine.                                          *)
(***************************************************************************)
\* What the calculators take: bands and cards are lists, and odds are numbers.
IsList(s) == Len(s) \in Nat /\ DOMAIN s = 1..Len(s)

WordsOf(bands, i) == {w \in 0..(UINT32_RANGE - 1) : GachaBandForRoll(bands, RollPpm(w)) = i}

LEMMA WordsCount ==
  ASSUME NEW bands, BandsAdd(bands, GACHA_PROBABILITY_SCALE_PPM), NEW i \in DOMAIN bands
  PROVE  Cardinality(WordsOf(bands, i))
           \in (bands[i].ppm * (UINT32_RANGE \div GACHA_PROBABILITY_SCALE_PPM))
               ..(bands[i].ppm * (UINT32_RANGE \div GACHA_PROBABILITY_SCALE_PPM + 1))
<1>1. GACHA_PROBABILITY_SCALE_PPM \in Nat \ {0} /\ UINT32_RANGE \in Nat
  BY GachaOddsConstants
<1>2. PICK d \in Nat \ {0} : d = GACHA_PROBABILITY_SCALE_PPM
  BY <1>1
<1>3. PICK U \in Nat : U = UINT32_RANGE
  BY <1>1
<1>4. PICK p \in Nat : p = bands[i].ppm
  BY DEF BandsAdd
<1>5. /\ RollsOf(bands, i) \in SUBSET (0..(d - 1)) /\ Cardinality(RollsOf(bands, i)) = p
      /\ \A roll \in 0..(d - 1) : GachaBandForRoll(bands, roll) = i <=> roll \in RollsOf(bands, i)
  BY <1>2, <1>4, RollsCount
<1>6. WordsOf(bands, i) = Residues(U, d, RollsOf(bands, i))
  <2>1. \A r \in 0..(U - 1) : r % d \in 0..(d - 1)
    <3> SUFFICES ASSUME NEW r \in 0..(U - 1) PROVE r % d \in 0..(d - 1)
      OBVIOUS
    <3>1. r \in Nat
      OBVIOUS
    <3> QED
      BY <3>1, QuotientAndRest
  <2>2. WordsOf(bands, i) = {r \in 0..(U - 1) : GachaBandForRoll(bands, r % d) = i}
    BY <1>2, <1>3 DEF WordsOf, RollPpm
  <2>3. Residues(U, d, RollsOf(bands, i)) = {r \in 0..(U - 1) : r % d \in RollsOf(bands, i)}
    BY DEF Residues
  <2> QED
    BY <2>1, <2>2, <2>3, <1>5
<1>7. PICK low \in Nat : low = U \div d
  BY QuotientAndRest
<1>8. Cardinality(WordsOf(bands, i)) \in (low * p)..((low + 1) * p)
  BY <1>5, <1>6, <1>7, ResiduesBounded
<1>9. low * p = p * low /\ (low + 1) * p = p * (low + 1)
  OBVIOUS
<1> QED
  BY <1>2, <1>3, <1>4, <1>7, <1>8, <1>9

LEMMA CardsAreDrawnEvenly ==
  ASSUME NEW S \in SUBSET Nat, IsFiniteSet(S), NEW n \in S
  PROVE  Cardinality({v \in 0..(UINT32_RANGE - 1) : NthOutcome(S, v % Cardinality(S)) = n})
           - UINT32_RANGE \div Cardinality(S) \in {0, 1}
<1>1. Cardinality(S) \in Nat \ {0}
  BY FS_CardinalityType, FS_EmptySet
<1>2. PICK c \in Nat \ {0} : c = Cardinality(S)
  BY <1>1
<1>3. PICK U \in Nat : U = UINT32_RANGE
  BY GachaOddsConstants
<1>4. PICK low \in Nat : low = U \div c
  BY QuotientAndRest
<1>5. /\ {Rank(S, n)} \in SUBSET (0..(c - 1))
      /\ {v \in 0..(U - 1) : NthOutcome(S, v % c) = n} = Residues(U, c, {Rank(S, n)})
  <2>1. Rank(S, n) \in 0..(c - 1)
    BY <1>2, NthIsResidue
  <2>2. {v \in 0..(U - 1) : NthOutcome(S, v % c) = n} = Residues(U, c, {Rank(S, n)})
    BY <1>2, NthIsResidue
  <2> QED
    BY <2>1, <2>2
<1>6. Cardinality({Rank(S, n)}) = 1
  BY FS_Singleton
<1>7. Cardinality(Residues(U, c, {Rank(S, n)})) \in (low * 1)..((low + 1) * 1)
  BY <1>4, <1>5, <1>6, ResiduesBounded
<1>8. PICK k \in low..(low + 1) : k = Cardinality(Residues(U, c, {Rank(S, n)}))
  BY <1>7
<1>9. k - low \in {0, 1}
  OBVIOUS
<1> QED
  BY <1>2, <1>3, <1>4, <1>5, <1>8, <1>9

\* What a machine may be asked to draw from: lists whose odds are numbers.
GachaDrawInput(bands, cards) ==
  /\ IsList(bands) /\ IsList(cards)
  /\ \A i \in DOMAIN bands : bands[i].ppm \in Nat

\* Theorem: the gacha machine pays the odds it committed to, whatever the cards and rips.
THEOREM GachaDrawsKeepOdds ==
  ASSUME NEW bands, NEW cards, NEW policy, NEW excluded, GachaDrawInput(bands, cards)
  PROVE  GachaDrawKeepsOdds(bands, cards, policy, excluded)
<1> SUFFICES ASSUME ValidGachaBands(bands), GachaSnapshotAccepted(cards, policy)
             PROVE  GachaDrawKeepsOdds(bands, cards, policy, excluded)
  BY DEF GachaDrawKeepsOdds
<1> DEFINE free == {n \in EligibleCards(cards, policy) : cards[n].asset \notin excluded}
           Mine(i) == {n \in free : GachaBandForValue(bands, cards[n].value) = i}
           words == 0..(UINT32_RANGE - 1)
           PicksOf(w, n) == {v \in words : SelectGachaOutcome(bands, cards, policy, excluded, w, v) = n}
<1>1. BandsAdd(bands, GACHA_PROBABILITY_SCALE_PPM)
  BY GachaOddsConstants DEF GachaDrawInput, IsList, ValidGachaBands, BandsAdd
<1>2. ASSUME NEW i \in DOMAIN bands
      PROVE  Mine(i) \in SUBSET Nat /\ IsFiniteSet(Mine(i)) /\ 0 \notin Mine(i)
  <2>1. Mine(i) \in SUBSET DOMAIN cards
    BY DEF EligibleCards
  <2>2. DOMAIN cards = 1..Len(cards) /\ Len(cards) \in Nat
    BY DEF GachaDrawInput, IsList
  <2>3. IsFiniteSet(1..Len(cards))
    BY <2>2, Numbered
  <2> HIDE DEF Mine
  <2>4. IsFiniteSet(Mine(i))
    BY <2>1, <2>2, <2>3, FS_Subset
  <2> QED
    BY <2>1, <2>2, <2>4
<1>3. ASSUME NEW i \in DOMAIN bands, NEW w \in WordsOf(bands, i), NEW v
      PROVE  SelectGachaOutcome(bands, cards, policy, excluded, w, v)
               = IF Mine(i) = {} THEN 0 ELSE NthOutcome(Mine(i), v % Cardinality(Mine(i)))
  <2>1. GachaBandForRoll(bands, RollPpm(w)) = i
    BY DEF WordsOf
  <2>2. DrawnFrom(bands, cards, policy, excluded, w) = Mine(i)
    BY <2>1 DEF DrawnFrom
  <2> HIDE DEF Mine
  <2> QED
    BY <2>2 DEF SelectGachaOutcome
<1> HIDE DEF Mine
<1>4. ASSUME NEW i \in DOMAIN bands, NEW w \in WordsOf(bands, i), Mine(i) = {}
      PROVE  PicksOf(w, 0) = words
  BY <1>3, <1>4
<1>5. ASSUME NEW i \in DOMAIN bands, NEW w \in WordsOf(bands, i), NEW n \in Mine(i)
      PROVE  Cardinality(PicksOf(w, n)) - UINT32_RANGE \div Cardinality(Mine(i)) \in {0, 1}
  <2>1. PicksOf(w, n) = {v \in words : NthOutcome(Mine(i), v % Cardinality(Mine(i))) = n}
    BY <1>3, <1>5
  <2>2. Mine(i) \in SUBSET Nat /\ IsFiniteSet(Mine(i)) /\ n \in Mine(i)
    BY <1>2, <1>5
  <2>3. Cardinality({v \in words : NthOutcome(Mine(i), v % Cardinality(Mine(i))) = n})
           - UINT32_RANGE \div Cardinality(Mine(i)) \in {0, 1}
    BY ONLY <2>2, CardsAreDrawnEvenly DEF words
  <2> HIDE DEF PicksOf
  <2> QED
    BY <2>1, <2>3
<1>6. ASSUME NEW i \in DOMAIN bands
      PROVE  Cardinality(WordsOf(bands, i))
               \in (bands[i].ppm * (UINT32_RANGE \div GACHA_PROBABILITY_SCALE_PPM))
                   ..(bands[i].ppm * (UINT32_RANGE \div GACHA_PROBABILITY_SCALE_PPM + 1))
  BY <1>1, WordsCount
<1> QED
  BY <1>4, <1>5, <1>6 DEF GachaDrawKeepsOdds, WordsOf, Mine

(***************************************************************************)
(* What an inventory snapshot admits.                                      *)
(***************************************************************************)
\* One candidate after another, as EligibleEntries goes through them.
Room(cands, policy, before, n) ==
  /\ OwnReasons(cands[n], policy) = {}
  /\ Cardinality(before) < policy.maxItems
  /\ ValueOf(before, cands) + ListingValue(cands[n]) <= policy.maxExposure

Admitting(u, cands, policy, k) ==
  u = [n \in 0..k |-> IF n = 0 THEN {}
                      ELSE IF Room(cands, policy, u[n - 1], n) THEN u[n - 1] \cup {n} ELSE u[n - 1]]

\* The equations of such a table.
Admits(u, cands, policy, k) ==
  /\ u[0] = {}
  /\ \A n \in 1..k : u[n] = IF Room(cands, policy, u[n - 1], n) THEN u[n - 1] \cup {n} ELSE u[n - 1]

LEMMA AdmittingUnfolds ==
  ASSUME NEW cands, NEW policy, NEW k \in Nat, NEW u
  PROVE  Admitting(u, cands, policy, k) <=> u = [n \in 0..k |-> u[n]] /\ Admits(u, cands, policy, k)
<1> DEFINE E(n) == IF n = 0 THEN {}
                   ELSE IF Room(cands, policy, u[n - 1], n) THEN u[n - 1] \cup {n} ELSE u[n - 1]
<1>1. Admitting(u, cands, policy, k) <=> u = [n \in 0..k |-> E(n)]
  BY DEF Admitting
<1>2. u = [n \in 0..k |-> E(n)] <=> u = [n \in 0..k |-> u[n]] /\ \A n \in 0..k : u[n] = E(n)
  <2> HIDE DEF E
  <2> QED
    OBVIOUS
<1>3. (\A n \in 0..k : u[n] = E(n)) <=> u[0] = E(0) /\ \A n \in 1..k : u[n] = E(n)
  <2>1. \A n : n \in 0..k <=> (n = 0 \/ n \in 1..k)
    OBVIOUS
  <2> HIDE DEF E
  <2> QED
    BY <2>1
<1>4. E(0) = {} /\ \A n \in 1..k : E(n) = IF Room(cands, policy, u[n - 1], n) THEN u[n - 1] \cup {n} ELSE u[n - 1]
  OBVIOUS
<1>5. Admits(u, cands, policy, k) <=> u[0] = E(0) /\ \A n \in 1..k : u[n] = E(n)
  <2> HIDE DEF E
  <2> QED
    BY <1>4 DEF Admits
<1> HIDE DEF E
<1> QED
  BY <1>1, <1>2, <1>3, <1>5

LEMMA AdmittingExists ==
  ASSUME NEW cands, NEW policy, NEW k \in Nat
  PROVE  \E u : Admitting(u, cands, policy, k)
<1> DEFINE Has(i) == \E u : Admitting(u, cands, policy, i)
           S == {i \in 1..k : ~Has(i)}
<1>1. Has(0)
  <2> DEFINE u == [n \in 0..0 |-> {}]
  <2>1. u = [n \in 0..0 |-> u[n]] /\ u[0] = {} /\ 1..0 = {} /\ 0 \in Nat
    OBVIOUS
  <2> HIDE DEF u
  <2>3. Admits(u, cands, policy, 0)
    BY <2>1 DEF Admits
  <2>2. Admitting(u, cands, policy, 0)
    BY ONLY <2>1, <2>3, AdmittingUnfolds
  <2> QED
    BY <2>2
<1>2. ASSUME NEW i \in 1..k, Has(i - 1)
      PROVE  Has(i)
  <2>1. PICK u : Admitting(u, cands, policy, i - 1)
    BY <1>2
  <2> DEFINE last == IF Room(cands, policy, u[i - 1], i) THEN u[i - 1] \cup {i} ELSE u[i - 1]
             v == [n \in 0..i |-> IF n = i THEN last ELSE u[n]]
  <2>2. i - 1 \in Nat /\ i \in Nat /\ 0 # i
    OBVIOUS
  <2>a. Admits(u, cands, policy, i - 1)
    BY ONLY <2>1, <2>2, AdmittingUnfolds
  <2>3. /\ u[0] = {}
        /\ \A n \in 1..(i - 1) : u[n] = IF Room(cands, policy, u[n - 1], n) THEN u[n - 1] \cup {n} ELSE u[n - 1]
    BY <2>a DEF Admits
  <2> HIDE DEF last
  <2>4. v[i] = last /\ \A n \in 0..(i - 1) : v[n] = u[n]
    BY <2>2
  <2>5. v = [n \in 0..i |-> v[n]]
    OBVIOUS
  <2> HIDE DEF v
  <2>6. v[0] = {}
    BY <2>2, <2>3, <2>4
  <2>7. \A n \in 1..i : v[n] = IF Room(cands, policy, v[n - 1], n) THEN v[n - 1] \cup {n} ELSE v[n - 1]
    <3> SUFFICES ASSUME NEW n \in 1..i
                 PROVE  v[n] = IF Room(cands, policy, v[n - 1], n) THEN v[n - 1] \cup {n} ELSE v[n - 1]
      OBVIOUS
    <3>1. n - 1 \in 0..(i - 1)
      OBVIOUS
    <3>2. v[n - 1] = u[n - 1]
      BY <2>4, <3>1
    <3>3. CASE n = i
      BY <2>4, <3>2, <3>3 DEF last
    <3>4. CASE n # i
      <4>1. n \in 1..(i - 1) /\ n \in 0..(i - 1)
        BY <3>4
      <4> QED
        BY <2>3, <2>4, <3>2, <4>1
    <3> QED
      BY <3>3, <3>4
  <2>8. Admitting(v, cands, policy, i)
    <3>1. Admits(v, cands, policy, i)
      BY <2>6, <2>7 DEF Admits
    <3> QED
      BY ONLY <2>2, <2>5, <3>1, AdmittingUnfolds
  <2> QED
    BY <2>8
<1> HIDE DEF Has
<1>3. S = {}
  <2> SUFFICES ASSUME S # {} PROVE FALSE
    OBVIOUS
  <2>1. S \in SUBSET (1..k)
    OBVIOUS
  <2>2. PICK i \in S : \A j \in S : i <= j
    BY <2>1, LeastExists
  <2>3. i \in 1..k /\ ~Has(i) /\ i \in Nat /\ ~(i <= i - 1)
    BY <2>1
  <2>4. ~Has(i - 1)
    BY <1>2, <2>3
  <2>5. i - 1 \in 1..k
    <3>1. i # 1
      BY <1>1, <2>4
    <3> QED
      BY <2>3, <3>1
  <2>6. i - 1 \in S
    BY <2>4, <2>5
  <2> QED
    BY <2>2, <2>3, <2>6
<1>4. Has(k)
  <2>1. k = 0 \/ k \in 1..k
    OBVIOUS
  <2> QED
    BY <1>1, <1>3, <2>1
<1> QED
  BY <1>4 DEF Has

\* The entries are the last of such a table.
LEMMA EligibleIsLast ==
  ASSUME NEW cands, NEW policy, Len(cands) \in Nat
  PROVE  \E u : Admitting(u, cands, policy, Len(cands)) /\ EligibleEntries(cands, policy) = u[Len(cands)]
<1> DEFINE P(u) == u = [n \in 0..Len(cands) |->
                          IF n = 0 THEN {}
                          ELSE IF /\ OwnReasons(cands[n], policy) = {}
                                  /\ Cardinality(u[n - 1]) < policy.maxItems
                                  /\ ValueOf(u[n - 1], cands) + ListingValue(cands[n]) <= policy.maxExposure
                               THEN u[n - 1] \cup {n} ELSE u[n - 1]]
           w == CHOOSE u : P(u)
<1>1. \A u : P(u) <=> Admitting(u, cands, policy, Len(cands))
  BY DEF Admitting, Room
<1>2. EligibleEntries(cands, policy) = w[Len(cands)]
  BY DEF EligibleEntries
<1> HIDE DEF P
<1>3. P(w)
  BY <1>1, AdmittingExists
<1> QED
  BY <1>1, <1>2, <1>3

(***************************************************************************)
(* The value of a set of candidates is a sum.                              *)
(***************************************************************************)
Values(cands, S) == [i \in S |-> ListingValue(cands[i])]

LEMMA ValueOfIsSum ==
  ASSUME NEW cands, NEW D, NEW S \in SUBSET D, IsFiniteSet(S)
  PROVE  ValueOf(S, cands) = Sum(Values(cands, D), S)
<1> DEFINE P(v) == v = [s \in SUBSET S |->
                          IF s = {} THEN 0 ELSE ListingValue(cands[Pick(s)]) + v[s \ {Pick(s)}]]
           u == CHOOSE v : P(v)
<1>1. \A v : P(v) <=> Summing(v, Values(cands, D), S)
  <2>1. \A s \in SUBSET S : s # {} => Values(cands, D)[Pick(s)] = ListingValue(cands[Pick(s)])
    BY PickIsMember DEF Values
  <2>2. ASSUME NEW v
        PROVE  P(v) <=> Summing(v, Values(cands, D), S)
    BY <2>1 DEF Summing
  <2> QED
    BY <2>2
<1>2. ValueOf(S, cands) = u[S]
  BY DEF ValueOf, MapThenSumSet, MapThenFoldSet, Pick
<1>3. S \in SUBSET DOMAIN Values(cands, D)
  BY DEF Values
<1> HIDE DEF P
<1>4. P(u)
  BY <1>1, <1>3, SummingSums
<1> HIDE DEF u
<1> QED
  BY <1>1, <1>2, <1>3, <1>4, SummingSums

\* What a snapshot may be asked for: a list of candidates that have an amount with its
\* decimals, or none (-1), and limits that are numbers.
SnapshotInput(cands, policy) ==
  /\ IsList(cands)
  /\ \A n \in DOMAIN cands : cands[n].amount \in Nat \cup {-1} /\ cands[n].decimals \in Nat
  /\ policy.minItems \in Int /\ policy.maxItems \in Int /\ policy.maxAge \in Int /\ policy.maxSkew \in Int
  /\ policy.minValue \in Nat /\ policy.maxValue \in Nat /\ policy.maxExposure \in Nat

LEMMA ListingValueTyped ==
  ASSUME NEW cands, NEW policy, SnapshotInput(cands, policy), NEW n \in DOMAIN cands
  PROVE  ListingValue(cands[n]) \in Nat \cup {-1}
<1>1. cands[n].amount \in Nat \cup {-1} /\ cands[n].decimals \in Nat
  BY DEF SnapshotInput
<1>2. CASE cands[n].amount = -1
  BY <1>2 DEF ListingValue
<1>3. CASE cands[n].amount # -1
  <2>1. cands[n].amount \in Nat
    BY <1>1, <1>3
  <2>2. NormalizeAmount(cands[n].amount, cands[n].decimals) \in Nat \cup {-1}
    BY <1>1, <2>1, NormalizedScales
  <2> QED
    BY <1>3, <2>2 DEF ListingValue
<1> QED
  BY <1>2, <1>3

LEMMA ValueGrows ==
  ASSUME NEW cands, NEW D \in SUBSET Nat, IsFiniteSet(D), \A n \in D : ListingValue(cands[n]) \in Nat,
         NEW S \in SUBSET D
  PROVE  /\ ValueOf({}, cands) = 0 /\ ValueOf(S, cands) \in Nat
         /\ \A n \in D \ S : ValueOf(S \cup {n}, cands) = ValueOf(S, cands) + ListingValue(cands[n])
<1> DEFINE f == Values(cands, D)
<1>1. DOMAIN f = D /\ \A n \in D : f[n] = ListingValue(cands[n]) /\ f[n] \in Nat
  BY DEF Values
<1>2. ASSUME NEW R \in SUBSET D
      PROVE  ValueOf(R, cands) = Sum(f, R)
  <2>1. IsFiniteSet(R)
    BY FS_Subset
  <2> QED
    BY <2>1, ValueOfIsSum
<1> HIDE DEF f
<1>3. ASSUME NEW R \in SUBSET D
      PROVE  /\ Sum(f, R) \in Nat /\ Sum(f, {}) = 0
             /\ \A x \in R : Sum(f, R) = f[x] + Sum(f, R \ {x})
  <2>1. IsFiniteSet(DOMAIN f) /\ (\A x \in DOMAIN f : f[x] \in Nat) /\ R \in SUBSET DOMAIN f
    BY <1>1
  <2> QED
    BY ONLY <2>1, SumTakesOut
<1>4. ASSUME NEW n \in D \ S
      PROVE  ValueOf(S \cup {n}, cands) = ValueOf(S, cands) + ListingValue(cands[n])
  <2>1. S \cup {n} \in SUBSET D /\ (S \cup {n}) \ {n} = S /\ n \in S \cup {n}
    OBVIOUS
  <2>2. Sum(f, S \cup {n}) = f[n] + Sum(f, S)
    BY <1>3, <2>1
  <2>3. ValueOf(S \cup {n}, cands) = Sum(f, S \cup {n}) /\ ValueOf(S, cands) = Sum(f, S)
    BY <1>2, <2>1
  <2>4. f[n] = ListingValue(cands[n]) /\ f[n] \in Nat /\ Sum(f, S) \in Nat
    BY <1>1, <1>3
  <2> QED
    BY ONLY <2>2, <2>3, <2>4
<1>5. ValueOf({}, cands) = 0 /\ ValueOf(S, cands) \in Nat
  <2>1. {} \in SUBSET D
    OBVIOUS
  <2> QED
    BY <1>2, <1>3, <2>1
<1> QED
  BY <1>4, <1>5

\* What holds after the first k candidates.
AdmittedFits(A, cands, policy, k) ==
  /\ A \in SUBSET {n \in 1..k : OwnReasons(cands[n], policy) = {}}
  /\ Cardinality(A) <= policy.maxItems
  /\ ValueOf(A, cands) <= policy.maxExposure
  /\ \A n \in (1..k) \ A :
       OwnReasons(cands[n], policy) = {} =>
         \/ Cardinality(A) = policy.maxItems
         \/ ValueOf({m \in A : m < n}, cands) + ListingValue(cands[n]) > policy.maxExposure

\* The candidates that have no reason of their own.
Sound(cands, policy) == {n \in DOMAIN cands : OwnReasons(cands[n], policy) = {}}

LEMMA SoundHasValue ==
  ASSUME NEW cands, NEW policy, SnapshotInput(cands, policy), CandidatesAccepted(cands)
  PROVE  /\ Sound(cands, policy) \in SUBSET Nat /\ IsFiniteSet(Sound(cands, policy))
         /\ \A n \in Sound(cands, policy) :
              ListingValue(cands[n]) \in Nat /\ ListingValue(cands[n]) >= policy.minValue
<1>1. DOMAIN cands = 1..Len(cands) /\ Len(cands) \in Nat
  BY DEF SnapshotInput, IsList
<1>2. IsFiniteSet(1..Len(cands))
  BY <1>1, Numbered
<1>3. Sound(cands, policy) \in SUBSET (1..Len(cands))
  BY <1>1 DEF Sound
<1>4. IsFiniteSet(Sound(cands, policy))
  BY <1>2, <1>3, FS_Subset
<1>5. ASSUME NEW n \in Sound(cands, policy)
      PROVE  ListingValue(cands[n]) \in Nat /\ ListingValue(cands[n]) >= policy.minValue
  <2>1. n \in DOMAIN cands /\ OwnReasons(cands[n], policy) = {}
    BY DEF Sound
  <2>2. cands[n].amount # -1 /\ ~ ListingValue(cands[n]) < policy.minValue
    <3>1. cands[n].amount # -1
      <4> SUFFICES ASSUME cands[n].amount = -1 PROVE FALSE
        OBVIOUS
      <4>1. "VALUE_UNAVAILABLE" \in OwnReasons(cands[n], policy)
        BY DEF OwnReasons
      <4> QED
        BY <2>1, <4>1
    <3>2. ~ ListingValue(cands[n]) < policy.minValue
      <4> SUFFICES ASSUME ListingValue(cands[n]) < policy.minValue PROVE FALSE
        OBVIOUS
      <4>1. "VALUE_BELOW_MINIMUM" \in OwnReasons(cands[n], policy)
        BY <3>1 DEF OwnReasons
      <4> QED
        BY <2>1, <4>1
    <3> QED
      BY <3>1, <3>2
  <2>3. ListingValue(cands[n]) \in Nat \cup {-1}
    BY <2>1, ListingValueTyped
  <2>4. ListingValue(cands[n]) # -1 /\ policy.minValue \in Int
    BY <2>1, <2>2 DEF CandidatesAccepted, SnapshotInput
  <2> QED
    BY <2>2, <2>3, <2>4
<1> QED
  BY <1>1, <1>3, <1>4, <1>5

LEMMA OneMoreFits ==
  ASSUME NEW cands, NEW policy, SnapshotInput(cands, policy), CandidatesAccepted(cands),
         NEW n \in DOMAIN cands, NEW A, AdmittedFits(A, cands, policy, n - 1)
  PROVE  AdmittedFits(IF Room(cands, policy, A, n) THEN A \cup {n} ELSE A, cands, policy, n)
<1> DEFINE D == Sound(cands, policy)
           Own(m) == OwnReasons(cands[m], policy) = {}
           V(m) == ListingValue(cands[m])
<1>1. D \in SUBSET Nat /\ IsFiniteSet(D) /\ \A m \in D : V(m) \in Nat
  BY SoundHasValue
<1>2. DOMAIN cands = 1..Len(cands) /\ Len(cands) \in Nat /\ n \in 1..Len(cands)
  BY DEF SnapshotInput, IsList
<1>3. /\ A \in SUBSET {m \in 1..(n - 1) : Own(m)}
      /\ Cardinality(A) <= policy.maxItems /\ ValueOf(A, cands) <= policy.maxExposure
      /\ \A m \in (1..(n - 1)) \ A :
           Own(m) => \/ Cardinality(A) = policy.maxItems
                     \/ ValueOf({l \in A : l < m}, cands) + V(m) > policy.maxExposure
  BY DEF AdmittedFits
<1>4. A \in SUBSET D /\ (Own(n) => n \in D) /\ n \notin A
  BY <1>2, <1>3 DEF Sound
<1>5. IsFiniteSet(A) /\ Cardinality(A) \in Nat
  BY <1>1, <1>4, FS_Subset, FS_CardinalityType
<1>6. policy.maxItems \in Int /\ policy.maxExposure \in Int
  BY DEF SnapshotInput
<1>7. ValueOf(A, cands) \in Nat
  BY <1>1, <1>4, ValueGrows
<1>8. A \in SUBSET {m \in 1..n : Own(m)} /\ \A m : m \in 1..n <=> (m \in 1..(n - 1) \/ m = n)
  <2>1. \A m : m \in 1..n <=> (m \in 1..(n - 1) \/ m = n)
    BY <1>2
  <2> QED
    BY <1>3, <2>1
<1>9. {l \in A : l < n} = A
  <2>1. \A l \in A : l \in 1..(n - 1)
    BY <1>3
  <2>2. \A l \in 1..(n - 1) : l < n
    BY <1>2
  <2> QED
    BY <2>1, <2>2
<1>10. ASSUME NEW m \in 1..(n - 1)
       PROVE  {l \in A \cup {n} : l < m} = {l \in A : l < m}
  BY <1>2
<1>11. Room(cands, policy, A, n) <=>
         Own(n) /\ Cardinality(A) < policy.maxItems /\ ValueOf(A, cands) + V(n) <= policy.maxExposure
  BY DEF Room
<1> HIDE DEF D, Own
<1>12. CASE Room(cands, policy, A, n)
  <2>1. n \in D \ A /\ Own(n)
    BY <1>4, <1>11, <1>12
  <2>2. ValueOf(A \cup {n}, cands) = ValueOf(A, cands) + V(n)
    BY <1>1, <1>4, <2>1, ValueGrows
  <2>3. Cardinality(A \cup {n}) = Cardinality(A) + 1
    BY <1>4, <1>5, FS_AddElement
  <2>4. Cardinality(A \cup {n}) <= policy.maxItems /\ ValueOf(A \cup {n}, cands) <= policy.maxExposure
    <3>1. Cardinality(A) < policy.maxItems /\ ValueOf(A, cands) + V(n) <= policy.maxExposure
      BY <1>11, <1>12
    <3> HIDE DEF V
    <3> QED
      BY <3>1, <2>2, <2>3, <1>5, <1>6
  <2>5. A \cup {n} \in SUBSET {m \in 1..n : Own(m)}
    BY <1>2, <1>8, <2>1
  <2>6. \A m \in (1..n) \ (A \cup {n}) :
          Own(m) => \/ Cardinality(A \cup {n}) = policy.maxItems
                    \/ ValueOf({l \in A \cup {n} : l < m}, cands) + V(m) > policy.maxExposure
    <3> SUFFICES ASSUME NEW m \in (1..n) \ (A \cup {n}), Own(m)
                 PROVE  ValueOf({l \in A \cup {n} : l < m}, cands) + V(m) > policy.maxExposure
      OBVIOUS
    <3>1. m \in (1..(n - 1)) \ A
      BY <1>8
    <3>2. Cardinality(A) # policy.maxItems
      BY <1>5, <1>6, <1>11, <1>12
    <3> QED
      BY <1>3, <1>10, <3>1, <3>2
  <2> QED
    BY <1>12, <2>4, <2>5, <2>6 DEF AdmittedFits, Own, V
<1>13. CASE ~Room(cands, policy, A, n)
  <2>1. \A m \in (1..n) \ A :
          Own(m) => \/ Cardinality(A) = policy.maxItems
                    \/ ValueOf({l \in A : l < m}, cands) + V(m) > policy.maxExposure
    <3> SUFFICES ASSUME NEW m \in (1..n) \ A, Own(m)
                 PROVE  \/ Cardinality(A) = policy.maxItems
                        \/ ValueOf({l \in A : l < m}, cands) + V(m) > policy.maxExposure
      OBVIOUS
    <3>1. CASE m = n
      <4>1. ~ Cardinality(A) < policy.maxItems \/ ~ ValueOf(A, cands) + V(n) <= policy.maxExposure
        BY <1>11, <1>13, <3>1
      <4>2. V(n) \in Nat
        BY <1>1, <1>4, <3>1
      <4>3. PICK v \in Nat : v = V(n)
        BY <4>2
      <4>4. Cardinality(A) = policy.maxItems \/ ValueOf(A, cands) + v > policy.maxExposure
        BY <4>1, <4>3, <1>3, <1>5, <1>6, <1>7
      <4> QED
        BY <4>3, <4>4, <1>9, <3>1
    <3>2. CASE m # n
      <4>1. m \in (1..(n - 1)) \ A
        BY <1>8, <3>2
      <4> QED
        BY <1>3, <4>1
    <3> QED
      BY <3>1, <3>2
  <2> QED
    BY <1>3, <1>8, <1>13, <2>1 DEF AdmittedFits, Own, V
<1> QED
  BY <1>12, <1>13

LEMMA EntriesFit ==
  ASSUME NEW cands, NEW policy, SnapshotInput(cands, policy), CandidatesAccepted(cands), ValidFlipPolicy(policy)
  PROVE  AdmittedFits(EligibleEntries(cands, policy), cands, policy, Len(cands))
<1>1. DOMAIN cands = 1..Len(cands) /\ Len(cands) \in Nat
  BY DEF SnapshotInput, IsList
<1>2. PICK N \in Nat : N = Len(cands)
  BY <1>1
<1>3. PICK u : Admitting(u, cands, policy, N) /\ EligibleEntries(cands, policy) = u[N]
  BY <1>2, EligibleIsLast
<1>4. /\ u[0] = {}
      /\ \A n \in 1..N : u[n] = IF Room(cands, policy, u[n - 1], n) THEN u[n - 1] \cup {n} ELSE u[n - 1]
  <2>1. Admitting(u, cands, policy, N)
    BY <1>3
  <2>2. Admits(u, cands, policy, N)
    BY ONLY <2>1, N \in Nat, AdmittingUnfolds
  <2> QED
    BY <2>2 DEF Admits
<1> DEFINE Fit(n) == AdmittedFits(u[n], cands, policy, n)
           S == {n \in 1..N : ~Fit(n)}
<1>5. Fit(0)
  <2>1. 1..0 = {} /\ Cardinality({}) = 0
    BY FS_EmptySet
  <2>2. ValueOf({}, cands) = 0
    <3>1. /\ Sound(cands, policy) \in SUBSET Nat /\ IsFiniteSet(Sound(cands, policy))
          /\ \A n \in Sound(cands, policy) : ListingValue(cands[n]) \in Nat
          /\ {} \in SUBSET Sound(cands, policy)
      BY SoundHasValue
    <3> QED
      BY ONLY <3>1, ValueGrows
  <2>3. 0 <= policy.maxItems /\ 0 <= policy.maxExposure
    BY FlipConstants DEF ValidFlipPolicy, SnapshotInput
  <2>4. {} \in SUBSET {n \in 1..0 : OwnReasons(cands[n], policy) = {}}
    OBVIOUS
  <2>5. AdmittedFits({}, cands, policy, 0)
    BY <2>1, <2>2, <2>3, <2>4 DEF AdmittedFits
  <2> QED
    BY <2>5, <1>4
<1>6. ASSUME NEW n \in 1..N, Fit(n - 1)
      PROVE  Fit(n)
  <2>1. n \in DOMAIN cands
    BY <1>1, <1>2
  <2>2. AdmittedFits(u[n - 1], cands, policy, n - 1)
    BY <1>6
  <2> HIDE DEF Fit
  <2>3. AdmittedFits(IF Room(cands, policy, u[n - 1], n) THEN u[n - 1] \cup {n} ELSE u[n - 1], cands, policy, n)
    BY <2>1, <2>2, OneMoreFits
  <2> QED
    BY <2>3, <1>4 DEF Fit
<1> HIDE DEF Fit
<1>7. S = {}
  <2> SUFFICES ASSUME S # {} PROVE FALSE
    OBVIOUS
  <2>1. S \in SUBSET (1..N)
    OBVIOUS
  <2>2. PICK i \in S : \A j \in S : i <= j
    BY <2>1, LeastExists
  <2>3. i \in 1..N /\ ~Fit(i) /\ i \in Nat /\ ~(i <= i - 1)
    BY <2>1
  <2>4. ~Fit(i - 1)
    BY <1>6, <2>3
  <2>5. i # 1
    BY <1>5, <2>4
  <2>6. i - 1 \in S
    BY <2>3, <2>4, <2>5
  <2> QED
    BY <2>2, <2>3, <2>6
<1>8. Fit(N)
  <2>1. N = 0 \/ N \in 1..N
    OBVIOUS
  <2> QED
    BY <1>5, <1>7, <2>1
<1> QED
  BY <1>2, <1>3, <1>8 DEF Fit

(***************************************************************************)
(* From the snapshot to the committed pool.                                *)
(***************************************************************************)
LEMMA SnapshotsAreMaximal ==
  ASSUME NEW cands, NEW policy, SnapshotInput(cands, policy), SnapshotAccepted(cands, policy)
  PROVE  SnapshotIsMaximal(cands, policy)
<1>1. AdmittedFits(EligibleEntries(cands, policy), cands, policy, Len(cands))
  BY EntriesFit DEF SnapshotAccepted
<1>2. DOMAIN cands = 1..Len(cands)
  BY DEF SnapshotInput, IsList
<1> QED
  BY <1>1, <1>2 DEF SnapshotIsMaximal, AdmittedFits

\* An outcome for each entry, with the entry's place as its ordinal.
LEMMA OutcomesAreEntries ==
  ASSUME NEW bands, NEW cands, NEW policy, IsFiniteSet(EligibleEntries(cands, policy))
  PROVE  /\ Cardinality(OutcomeSpace(bands, cands, policy)) = Cardinality(EligibleEntries(cands, policy))
         /\ \A o \in OutcomeSpace(bands, cands, policy) :
              /\ o.ordinal \in EligibleEntries(cands, policy)
              /\ o.band = FlipOutcomeBandForValue(bands, o.value)
         /\ \A o, q \in OutcomeSpace(bands, cands, policy) : o.ordinal = q.ordinal => o = q
<1> DEFINE A == EligibleEntries(cands, policy)
           Outcome(n) == [ordinal |-> n, value |-> ListingValue(cands[n]),
                          band |-> FlipOutcomeBandForValue(bands, ListingValue(cands[n]))]
           f == [n \in A |-> Outcome(n)]
           O == {Outcome(n) : n \in A}
<1>1. OutcomeSpace(bands, cands, policy) = O
  BY DEF OutcomeSpace
<1>2. \A n : /\ Outcome(n).ordinal = n
             /\ Outcome(n).band = FlipOutcomeBandForValue(bands, Outcome(n).value)
  OBVIOUS
<1> HIDE DEF A, Outcome
<1>3. f \in [A -> O] /\ \A n \in A : f[n] = Outcome(n)
  OBVIOUS
<1> HIDE DEF f
<1>4. f \in Bijection(A, O)
  BY <1>2, <1>3 DEF Bijection, Injection, Surjection, IsInjective
<1>5. ExistsBijection(A, O)
  BY <1>4 DEF ExistsBijection
<1>6. Cardinality(O) = Cardinality(A)
  BY <1>5, FS_Bijection DEF A
<1>7. \A o \in O : \E n \in A : o = Outcome(n)
  OBVIOUS
<1> HIDE DEF O
<1> QED
  BY <1>1, <1>2, <1>6, <1>7 DEF A

\* What a session may be asked to commit to.
FlipDrawInput(rules, cands, policy, stake) ==
  /\ SnapshotInput(cands, policy) /\ IsList(rules.bands)
  /\ \A i \in DOMAIN rules.bands : rules.bands[i].ppm \in Int /\ rules.bands[i].min \in Int
  /\ stake \in Int

LEMMA BandsOfRulesAdd ==
  ASSUME NEW bands, IsList(bands), ValidBands(bands)
  PROVE  BandsAdd(bands, FLIP_PROBABILITY_SCALE_PPM) /\ \A i \in DOMAIN bands : bands[i].ppm >= 1
<1>1. Len(bands) \in Nat \ {0} /\ FLIP_PROBABILITY_SCALE_PPM \in Nat \ {0}
  BY FlipConstants DEF ValidBands
<1>2. \A i \in DOMAIN bands : bands[i].ppm \in 1..FLIP_PROBABILITY_SCALE_PPM
  BY DEF ValidBands
<1>3. \A i \in DOMAIN bands : bands[i].ppm \in Nat /\ bands[i].ppm >= 1
  BY <1>1, <1>2
<1>4. PpmUpTo(bands, Len(bands)) = FLIP_PROBABILITY_SCALE_PPM
  BY DEF ValidBands
<1> QED
  BY <1>1, <1>3, <1>4 DEF BandsAdd, IsList

\* Theorem: what the session service commits to, the admission takes while the snapshot is
\* fresh, and the draw is fair, whatever was reviewed and listed.
THEOREM CommittedPoolsArePlayable ==
  ASSUME NEW rules, NEW cands, NEW policy, NEW stake, NEW at \in Int, NEW now \in Int,
         FlipDrawInput(rules, cands, policy, stake)
  PROVE  CommittedPoolIsPlayable(rules, cands, policy, stake, at, now)
<1> DEFINE pool == CommittedPool(rules, cands, policy, at)
           A == EligibleEntries(cands, policy)
           O == OutcomeSpace(rules.bands, cands, policy)
<1>1. SnapshotAccepted(cands, policy) => SnapshotIsMaximal(cands, policy)
  BY SnapshotsAreMaximal DEF FlipDrawInput
<1>2. ASSUME PoolCommitable(rules, cands, policy, stake, at, now)
      PROVE  /\ PoolRefusal(pool, stake, now) \in {"none", "inventory_stale"}
             /\ now = at => PoolRefusal(pool, stake, now) = "none"
             /\ OutcomeSpaceSound(pool) /\ DrawIsFair(pool)
  <2>1. /\ ValidRuleSet(rules) /\ ValidBands(rules.bands) /\ rules.stake = stake /\ stake > 0
        /\ ValidFlipPolicy(policy) /\ CandidatesAccepted(cands) /\ SnapshotAccepted(cands, policy)
        /\ Cardinality(A) >= policy.minItems
        /\ BandsRepresented(rules.bands, O)
    BY <1>2 DEF PoolCommitable, ValidRuleSet, SnapshotAccepted
  <2>2. /\ pool.rules = rules /\ pool.policy = policy /\ pool.outcomes = O
        /\ pool.value = ValueOf(A, cands) /\ pool.at = at
    BY DEF CommittedPool
  <2> HIDE DEF pool
  <2>3. DOMAIN cands = 1..Len(cands) /\ Len(cands) \in Nat /\ Len(cands) <= MAX_CANDIDATES
    BY <2>1 DEF FlipDrawInput, SnapshotInput, IsList, CandidatesAccepted
  <2>4. /\ A \in SUBSET (1..Len(cands))
        /\ Cardinality(A) <= policy.maxItems /\ ValueOf(A, cands) <= policy.maxExposure
    <3>1. AdmittedFits(A, cands, policy, Len(cands))
      BY <2>1, EntriesFit DEF FlipDrawInput
    <3> QED
      BY <3>1 DEF AdmittedFits
  <2>5. IsFiniteSet(1..Len(cands)) /\ Cardinality(1..Len(cands)) = Len(cands)
    BY <2>3, Numbered
  <2> HIDE DEF A, O
  <2>6. IsFiniteSet(A) /\ Cardinality(A) \in Nat /\ Cardinality(A) <= Len(cands)
    BY <2>4, <2>5, FS_Subset, FS_CardinalityType
  <2>7. /\ Cardinality(O) = Cardinality(A)
        /\ \A o \in O : o.ordinal \in A /\ o.band = FlipOutcomeBandForValue(rules.bands, o.value)
        /\ \A o, q \in O : o.ordinal = q.ordinal => o = q
    BY <2>6, OutcomesAreEntries DEF A, O
  <2>8. /\ policy.minItems \in Int /\ policy.maxItems \in Int /\ MAX_CANDIDATES \in Nat
        /\ policy.minItems >= 1 /\ policy.maxAge >= 1 /\ policy.maxSkew >= 0
        /\ policy.maxAge \in Int /\ policy.maxSkew \in Int
        /\ policy.minItems \in 1..MAX_CANDIDATES /\ policy.maxItems \in policy.minItems..MAX_CANDIDATES
    BY <2>1, FlipConstants DEF FlipDrawInput, SnapshotInput, ValidFlipPolicy
  <2>9. BandsAdd(rules.bands, FLIP_PROBABILITY_SCALE_PPM) /\ \A i \in DOMAIN rules.bands : rules.bands[i].ppm >= 1
    BY <2>1, BandsOfRulesAdd DEF FlipDrawInput
  <2>10. PoolConfigured(pool, stake)
    <3>1. Cardinality(pool.outcomes) \in 1..MAX_CANDIDATES
      BY <2>1, <2>2, <2>3, <2>6, <2>7, <2>8
    <3>2. \A i \in DOMAIN rules.bands :
            /\ rules.bands[i].ppm >= 1
            /\ i > 1 => rules.bands[i - 1].min < rules.bands[i].min
      BY <2>1, <2>9 DEF ValidBands
    <3>3. /\ rules.bands # <<>> /\ rules.bands[1].min = 0
          /\ PpmUpTo(rules.bands, Len(rules.bands)) = FLIP_PROBABILITY_SCALE_PPM
      <4>1. Len(rules.bands) # 0
        BY <2>9 DEF BandsAdd
      <4>2. Len(<<>>) = 0
        OBVIOUS
      <4> QED
        BY <2>1, <4>1, <4>2 DEF ValidBands
    <3> QED
      BY <2>1, <2>2, <2>8, <3>1, <3>2, <3>3 DEF PoolConfigured
  <2>11. PoolMeetsThresholds(pool)
    <3>1. Cardinality(O) \in policy.minItems..policy.maxItems
      BY <2>1, <2>4, <2>6, <2>7, <2>8
    <3> QED
      BY <2>1, <2>2, <2>4, <3>1 DEF PoolMeetsThresholds
  <2>12. PoolRefusal(pool, stake, now) = IF FreshnessReasons(now - pool.at, pool.policy) # {}
                                         THEN "inventory_stale" ELSE "none"
    BY <2>10, <2>11 DEF PoolRefusal
  <2>13. ASSUME now = at
         PROVE  FreshnessReasons(now - pool.at, pool.policy) = {}
    <3>1. now - pool.at = 0
      BY <2>2, <2>13
    <3>2. ~ 0 > policy.maxAge /\ ~ 0 < -policy.maxSkew
      BY <2>8
    <3> QED
      BY <2>2, <3>1, <3>2 DEF FreshnessReasons
  <2>14. OutcomeSpaceSound(pool)
    <3>1. O # {}
      <4>1. Cardinality(O) # 0
        BY <2>1, <2>6, <2>7, <2>8
      <4> QED
        BY <4>1, FS_EmptySet
    <3> QED
      BY <2>1, <2>2, <2>7, <3>1 DEF OutcomeSpaceSound
  <2>15. DrawIsFair(pool)
    <3>1. ASSUME NEW i \in DOMAIN rules.bands
          PROVE  BandOutcomes(pool, i) \in SUBSET Nat /\ IsFiniteSet(BandOutcomes(pool, i))
      <4>1. BandOutcomes(pool, i) \in SUBSET A
        BY <2>2, <2>7 DEF BandOutcomes
      <4>2. A \in SUBSET Nat
        BY <2>3, <2>4
      <4> QED
        BY <4>1, <4>2, <2>6, FS_Subset
    <3>2. /\ BandsAdd(pool.rules.bands, FLIP_PROBABILITY_SCALE_PPM)
          /\ \A i \in DOMAIN pool.rules.bands :
               /\ pool.rules.bands[i].ppm >= 1
               /\ BandOutcomes(pool, i) \in SUBSET Nat /\ IsFiniteSet(BandOutcomes(pool, i))
      BY <2>2, <2>9, <3>1
    <3> QED
      BY ONLY <3>2, DrawsAreFair
  <2> QED
    BY <2>12, <2>13, <2>14, <2>15
<1> QED
  BY <1>1, <1>2 DEF CommittedPoolIsPlayable

(***************************************************************************)
(* The registry of a flip session.                                         *)
(***************************************************************************)
IsRequest(q) ==
  \/ \E key, content : q = [op |-> "rules", key |-> key, content |-> content]
  \/ \E content : q = [op |-> "snapshot", content |-> content]
  \/ \E key, rules, snapshot : q = [op |-> "pool", key |-> key, rules |-> rules, snapshot |-> snapshot]
  \/ \E key, content : q = [op |-> "policy", key |-> key, content |-> content]

Entry(key, content) == [key |-> key, content |-> content]
OneForKey(rows) ==
  \A x \in rows : x = Entry(x.key, x.content) /\ \A y \in rows : x.key = y.key => x = y

\* What a table without two rows of a key does with one more.
LEMMA SealingKeepsKeys ==
  ASSUME NEW rows, OneForKey(rows), NEW key, NEW content
  PROVE  \/ /\ Sealed(rows, key, content) = <<rows \cup {Entry(key, content)}, "created">>
            /\ ~HasRow(rows, key) /\ Entry(key, content) \notin rows
            /\ OneForKey(rows \cup {Entry(key, content)})
         \/ Sealed(rows, key, content) = <<rows, "replayed">> /\ Entry(key, content) \in rows /\ HasRow(rows, key)
         \/ Sealed(rows, key, content) = <<rows, "refused">> /\ Entry(key, content) \notin rows /\ HasRow(rows, key)
<1>1. Entry(key, content).key = key /\ Entry(key, content).content = content
  BY DEF Entry
<1>2. CASE ~HasRow(rows, key)
  <2>1. Sealed(rows, key, content) = <<rows \cup {Entry(key, content)}, "created">>
    BY <1>2 DEF Sealed, Entry
  <2>2. \A row \in rows : row.key # key
    BY <1>2 DEF HasRow
  <2>3. OneForKey(rows \cup {Entry(key, content)})
    BY <1>1, <2>2 DEF OneForKey
  <2> QED
    BY <1>1, <1>2, <2>1, <2>2, <2>3
<1>3. CASE HasRow(rows, key)
  <2>1. Stored(rows, key) \in rows /\ Stored(rows, key).key = key
    BY <1>3 DEF HasRow, Stored
  <2>2. PICK row \in rows : row = Stored(rows, key) /\ row.key = key
    BY <2>1
  <2>3. row.content = content <=> Entry(key, content) \in rows
    BY <1>1, <2>2 DEF OneForKey
  <2>4. Sealed(rows, key, content) = IF row.content = content THEN <<rows, "replayed">> ELSE <<rows, "refused">>
    BY <1>3, <2>2 DEF Sealed
  <2> QED
    BY <1>3, <2>3, <2>4
<1> QED
  BY <1>2, <1>3

\* A sealed row is the one that is stored for its key.
LEMMA StoredIsTheRow ==
  ASSUME NEW rows, OneForKey(rows), NEW row \in rows
  PROVE  HasRow(rows, row.key) /\ Stored(rows, row.key) = row
<1>1. Stored(rows, row.key) \in rows /\ Stored(rows, row.key).key = row.key
  BY DEF Stored
<1> QED
  BY <1>1 DEF OneForKey, HasRow

LEMMA StoredStays ==
  ASSUME NEW rows, NEW more, rows \subseteq more, OneForKey(rows), OneForKey(more), NEW key, HasRow(rows, key)
  PROVE  HasRow(more, key) /\ Stored(more, key) = Stored(rows, key)
<1>1. PICK row \in rows : row.key = key
  BY DEF HasRow
<1>2. Stored(rows, key) = row
  BY <1>1, StoredIsTheRow
<1>3. HasRow(more, key) /\ Stored(more, key) = row
  <2>1. row \in more
    OBVIOUS
  <2> QED
    BY <1>1, <2>1, StoredIsTheRow
<1> QED
  BY <1>2, <1>3

IsRow(s) == s \in Seq({s[n] : n \in DOMAIN s})

\* The tables: a row for a key, pools of one stake, policies of their rules.
PoolFits(reg, p) ==
  /\ HasRow(reg.rules, p.content.rules) /\ p.content.snapshot \in DOMAIN reg.snapshots
  /\ Stored(reg.rules, p.content.rules).content.stake = reg.snapshots[p.content.snapshot].stake
PolicyFits(reg, p) ==
  HasRow(reg.rules, p.key) /\ Stored(reg.rules, p.key).content = p.content.rules /\ ValidPolicy(p.content)

RegistryFits(reg) ==
  /\ reg = [rules |-> reg.rules, snapshots |-> reg.snapshots, pools |-> reg.pools, policies |-> reg.policies]
  /\ OneForKey(reg.rules) /\ OneForKey(reg.pools) /\ OneForKey(reg.policies)
  /\ IsRow(reg.snapshots)
  /\ \A p \in reg.pools : PoolFits(reg, p)
  /\ \A p \in reg.policies : PolicyFits(reg, p)

\* What a request asks for is in its table.
Holds(reg, q) ==
  \/ q.op = "rules" /\ Entry(q.key, q.content) \in reg.rules
  \/ q.op = "snapshot" /\ HasRevision(reg.snapshots, q.content)
  \/ q.op = "pool" /\ Entry(q.key, [rules |-> q.rules, snapshot |-> q.snapshot]) \in reg.pools
  \/ q.op = "policy" /\ Entry(q.key, q.content) \in reg.policies

\* What a request does: it seals what it asks for, finds it there, or is refused.
Answered(reg, q, next, answer) ==
  \/ /\ answer = "created" /\ ~Holds(reg, q) /\ Holds(next, q) /\ RegistryFits(next)
     /\ \A p : IsRequest(p) /\ p # q => (Holds(next, p) <=> Holds(reg, p))
  \/ answer = "replayed" /\ Holds(reg, q) /\ next = reg
  \/ answer = "refused" /\ next = reg

Outcome(reg, q) == Answered(reg, q, Registered(reg, q)[1], Registered(reg, q)[2])

LEMMA RulesAreAnswered ==
  ASSUME NEW reg, RegistryFits(reg), NEW key, NEW content, NEW q,
         q = [op |-> "rules", key |-> key, content |-> content]
  PROVE  Outcome(reg, q) /\ (Holds(reg, q) => Registered(reg, q)[2] = "replayed")
<1> DEFINE row == Entry(key, content)
           next == [rules |-> reg.rules \cup {row}, snapshots |-> reg.snapshots, pools |-> reg.pools,
                    policies |-> reg.policies]
           done == Sealed(reg.rules, key, content)
<1>1. /\ reg = [rules |-> reg.rules, snapshots |-> reg.snapshots, pools |-> reg.pools, policies |-> reg.policies]
      /\ OneForKey(reg.rules)
  BY DEF RegistryFits
<1>2. q.op = "rules" /\ q.key = key /\ q.content = content
  OBVIOUS
<1>3. Holds(reg, q) <=> row \in reg.rules
  BY <1>2 DEF Holds
<1>4. Registered(reg, q) = <<[reg EXCEPT !.rules = done[1]], done[2]>>
  BY <1>2 DEF Registered, CreateFixtureRuleSet
<1>5. CASE done = <<reg.rules \cup {row}, "created">> /\ ~HasRow(reg.rules, key) /\ row \notin reg.rules
           /\ OneForKey(reg.rules \cup {row})
  <2>1. Registered(reg, q)[1] = next /\ Registered(reg, q)[2] = "created"
    <3>1. [reg EXCEPT !.rules = reg.rules \cup {row}] = next
      BY <1>1
    <3> QED
      BY <1>4, <1>5, <3>1
  <2>2. /\ next.rules = reg.rules \cup {row} /\ next.snapshots = reg.snapshots /\ next.pools = reg.pools
        /\ next.policies = reg.policies
        /\ next = [rules |-> next.rules, snapshots |-> next.snapshots, pools |-> next.pools,
                   policies |-> next.policies]
    OBVIOUS
  <2> HIDE DEF next, done, row
  <2>3. ASSUME NEW k, HasRow(reg.rules, k)
        PROVE  HasRow(next.rules, k) /\ Stored(next.rules, k) = Stored(reg.rules, k)
    <3>1. reg.rules \subseteq next.rules /\ OneForKey(next.rules)
      BY <1>5, <2>2
    <3> QED
      BY <1>1, <2>3, <3>1, StoredStays
  <2>4. \A p \in next.pools : PoolFits(next, p)
    BY <2>2, <2>3 DEF RegistryFits, PoolFits
  <2>5. \A p \in next.policies : PolicyFits(next, p)
    BY <2>2, <2>3 DEF RegistryFits, PolicyFits
  <2>6. RegistryFits(next)
    BY <1>5, <2>2, <2>4, <2>5 DEF RegistryFits
  <2>7. Holds(next, q) /\ ~Holds(reg, q)
    BY <1>2, <1>3, <1>5, <2>2 DEF Holds, row
  <2>8. ASSUME NEW p, IsRequest(p), p # q
        PROVE  Holds(next, p) <=> Holds(reg, p)
    <3>1. CASE p.op = "rules"
      <4>1. PICK k, c : p = [op |-> "rules", key |-> k, content |-> c]
        BY <2>8, <3>1 DEF IsRequest
      <4>2. Entry(p.key, p.content) # row
        BY <2>8, <4>1 DEF Entry, row
      <4> QED
        BY <2>2, <3>1, <4>2 DEF Holds
    <3>2. CASE p.op # "rules"
      BY <2>2, <3>2 DEF Holds
    <3> QED
      BY <3>1, <3>2
  <2> QED
    BY <2>1, <2>6, <2>7, <2>8 DEF Outcome, Answered
<1>6. CASE done = <<reg.rules, "replayed">> /\ row \in reg.rules
  <2>1. Registered(reg, q)[1] = reg /\ Registered(reg, q)[2] = "replayed"
    <3>1. [reg EXCEPT !.rules = reg.rules] = reg
      BY <1>1
    <3> QED
      BY <1>4, <1>6, <3>1
  <2> QED
    BY <1>3, <1>6, <2>1 DEF Outcome, Answered
<1>7. CASE done = <<reg.rules, "refused">> /\ row \notin reg.rules
  <2>1. Registered(reg, q)[1] = reg /\ Registered(reg, q)[2] = "refused"
    <3>1. [reg EXCEPT !.rules = reg.rules] = reg
      BY <1>1
    <3> QED
      BY <1>4, <1>7, <3>1
  <2> QED
    BY <1>3, <1>7, <2>1 DEF Outcome, Answered
<1> HIDE DEF done
<1>8. \/ /\ done = <<reg.rules \cup {row}, "created">> /\ ~HasRow(reg.rules, key) /\ row \notin reg.rules
         /\ OneForKey(reg.rules \cup {row})
      \/ done = <<reg.rules, "replayed">> /\ row \in reg.rules
      \/ done = <<reg.rules, "refused">> /\ row \notin reg.rules
  BY <1>1, SealingKeepsKeys DEF done
<1> QED
  BY <1>5, <1>6, <1>7, <1>8

LEMMA RevisionsGrow ==
  ASSUME NEW s, IsRow(s), NEW c
  PROVE  /\ IsRow(Append(s, c)) /\ DOMAIN s \subseteq DOMAIN Append(s, c)
         /\ \A n \in DOMAIN s : Append(s, c)[n] = s[n]
         /\ \A x : HasRevision(Append(s, c), x) <=> HasRevision(s, x) \/ x = c
<1> DEFINE R == {s[n] : n \in DOMAIN s}
           X == R \cup {c}
           t == Append(s, c)
<1>1. s \in Seq(X) /\ c \in X
  <2>1. s \in Seq(R) /\ R \subseteq X
    BY DEF IsRow
  <2> HIDE DEF R
  <2> QED
    BY <2>1
<1>2. DOMAIN s = 1..Len(s) /\ Len(s) \in Nat
  BY <1>1
<1> HIDE DEF X
<1>3. /\ t \in Seq(X) /\ Len(t) = Len(s) + 1 /\ t[Len(s) + 1] = c
      /\ \A n \in 1..Len(s) : t[n] = s[n]
  BY <1>1, AppendProperties
<1> HIDE DEF t
<1>4. DOMAIN t = 1..(Len(s) + 1)
  BY <1>3
<1>5. \A n : n \in 1..(Len(s) + 1) <=> n \in 1..Len(s) \/ n = Len(s) + 1
  BY <1>2
<1>6. IsRow(t)
  <2>1. \A n \in 1..Len(t) : t[n] \in {t[k] : k \in DOMAIN t}
    BY <1>3, <1>4
  <2>2. t = [n \in 1..Len(t) |-> t[n]] /\ Len(t) \in Nat
    BY <1>2, <1>3
  <2>3. t \in Seq({t[k] : k \in DOMAIN t})
    BY <2>1, <2>2
  <2> QED
    BY <2>3 DEF IsRow
<1>7. DOMAIN s \subseteq DOMAIN t /\ \A n \in DOMAIN s : t[n] = s[n]
  BY <1>2, <1>3, <1>4, <1>5
<1>8. ASSUME NEW x
      PROVE  HasRevision(t, x) <=> HasRevision(s, x) \/ x = c
  BY <1>2, <1>3, <1>4, <1>5 DEF HasRevision
<1> QED
  BY <1>6, <1>7, <1>8 DEF t

LEMMA SnapshotsAreAnswered ==
  ASSUME NEW reg, RegistryFits(reg), NEW content, NEW q, q = [op |-> "snapshot", content |-> content]
  PROVE  Outcome(reg, q) /\ (Holds(reg, q) => Registered(reg, q)[2] = "replayed")
<1> DEFINE more == Append(reg.snapshots, content)
           next == [rules |-> reg.rules, snapshots |-> more, pools |-> reg.pools, policies |-> reg.policies]
<1>1. /\ reg = [rules |-> reg.rules, snapshots |-> reg.snapshots, pools |-> reg.pools, policies |-> reg.policies]
      /\ IsRow(reg.snapshots)
  BY DEF RegistryFits
<1>2. q.op = "snapshot" /\ q.content = content
  OBVIOUS
<1>3. Holds(reg, q) <=> HasRevision(reg.snapshots, content)
  BY <1>2 DEF Holds
<1>4. Registered(reg, q) = IF HasRevision(reg.snapshots, content) THEN <<reg, "replayed">>
                           ELSE <<[reg EXCEPT !.snapshots = more], "created">>
  BY <1>2 DEF Registered, CreateInventorySnapshot
<1>5. CASE HasRevision(reg.snapshots, content)
  BY <1>3, <1>4, <1>5 DEF Outcome, Answered
<1>6. CASE ~HasRevision(reg.snapshots, content)
  <2>1. Registered(reg, q)[1] = next /\ Registered(reg, q)[2] = "created"
    <3>1. [reg EXCEPT !.snapshots = more] = next
      BY <1>1
    <3> QED
      BY <1>4, <1>6, <3>1
  <2>2. /\ next.rules = reg.rules /\ next.snapshots = more /\ next.pools = reg.pools
        /\ next.policies = reg.policies
        /\ next = [rules |-> next.rules, snapshots |-> next.snapshots, pools |-> next.pools,
                   policies |-> next.policies]
    OBVIOUS
  <2>3. /\ IsRow(more) /\ DOMAIN reg.snapshots \subseteq DOMAIN more
        /\ \A n \in DOMAIN reg.snapshots : more[n] = reg.snapshots[n]
        /\ \A x : HasRevision(more, x) <=> HasRevision(reg.snapshots, x) \/ x = content
    BY <1>1, RevisionsGrow
  <2> HIDE DEF next, more
  <2>4. \A p \in next.pools : PoolFits(next, p)
    BY <2>2, <2>3 DEF RegistryFits, PoolFits
  <2>5. \A p \in next.policies : PolicyFits(next, p)
    BY <2>2 DEF RegistryFits, PolicyFits
  <2>6. RegistryFits(next)
    BY <2>2, <2>3, <2>4, <2>5 DEF RegistryFits
  <2>7. Holds(next, q) /\ ~Holds(reg, q)
    BY <1>2, <1>3, <1>6, <2>2, <2>3 DEF Holds
  <2>8. ASSUME NEW p, IsRequest(p), p # q
        PROVE  Holds(next, p) <=> Holds(reg, p)
    <3>1. CASE p.op = "snapshot"
      <4>1. PICK c : p = [op |-> "snapshot", content |-> c]
        BY <2>8, <3>1 DEF IsRequest
      <4>2. p.content # content
        BY <2>8, <4>1
      <4> QED
        BY <2>2, <2>3, <3>1, <4>2 DEF Holds
    <3>2. CASE p.op # "snapshot"
      BY <2>2, <3>2 DEF Holds
    <3> QED
      BY <3>1, <3>2
  <2> QED
    BY <2>1, <2>6, <2>7, <2>8 DEF Outcome, Answered
<1> QED
  BY <1>5, <1>6

LEMMA PoolsAreAnswered ==
  ASSUME NEW reg, RegistryFits(reg), NEW key, NEW rules, NEW snapshot, NEW q,
         q = [op |-> "pool", key |-> key, rules |-> rules, snapshot |-> snapshot]
  PROVE  Outcome(reg, q) /\ (Holds(reg, q) => Registered(reg, q)[2] = "replayed")
<1> DEFINE bound == [rules |-> rules, snapshot |-> snapshot]
           row == Entry(key, bound)
           next == [rules |-> reg.rules, snapshots |-> reg.snapshots, pools |-> reg.pools \cup {row},
                    policies |-> reg.policies]
           done == Sealed(reg.pools, key, bound)
           committable == /\ HasRow(reg.rules, rules) /\ snapshot \in DOMAIN reg.snapshots
                          /\ Stored(reg.rules, rules).content.stake = reg.snapshots[snapshot].stake
<1>1. /\ reg = [rules |-> reg.rules, snapshots |-> reg.snapshots, pools |-> reg.pools, policies |-> reg.policies]
      /\ OneForKey(reg.pools)
  BY DEF RegistryFits
<1>2. q.op = "pool" /\ q.key = key /\ q.rules = rules /\ q.snapshot = snapshot
  OBVIOUS
<1>3. Holds(reg, q) <=> row \in reg.pools
  BY <1>2 DEF Holds
<1>4. Registered(reg, q) = IF HasRow(reg.pools, key) \/ committable
                           THEN <<[reg EXCEPT !.pools = done[1]], done[2]>> ELSE <<reg, "refused">>
  <2>1. Registered(reg, q) = CreateFixtureSessionPoolCommitment(reg, q)
    BY <1>2 DEF Registered
  <2> QED
    BY <1>2, <2>1 DEF CreateFixtureSessionPoolCommitment
<1> HIDE DEF done, committable
<1>5. CASE /\ done = <<reg.pools \cup {row}, "created">> /\ ~HasRow(reg.pools, key) /\ row \notin reg.pools
           /\ OneForKey(reg.pools \cup {row}) /\ committable
  <2>1. Registered(reg, q)[1] = next /\ Registered(reg, q)[2] = "created"
    <3>1. [reg EXCEPT !.pools = reg.pools \cup {row}] = next
      BY <1>1
    <3> QED
      BY <1>4, <1>5, <3>1
  <2>2. /\ next.rules = reg.rules /\ next.snapshots = reg.snapshots /\ next.pools = reg.pools \cup {row}
        /\ next.policies = reg.policies
        /\ next = [rules |-> next.rules, snapshots |-> next.snapshots, pools |-> next.pools,
                   policies |-> next.policies]
    OBVIOUS
  <2>a. row.content.rules = rules /\ row.content.snapshot = snapshot
    BY DEF Entry
  <2> HIDE DEF next, row
  <2>4. \A p \in next.pools : PoolFits(next, p)
    <3>1. PoolFits(next, row)
      BY <1>5, <2>2, <2>a DEF PoolFits, committable
    <3>2. \A p \in reg.pools : PoolFits(next, p)
      BY <2>2 DEF RegistryFits, PoolFits
    <3> QED
      BY <2>2, <3>1, <3>2
  <2>5. \A p \in next.policies : PolicyFits(next, p)
    BY <2>2 DEF RegistryFits, PolicyFits
  <2>6. RegistryFits(next)
    BY <1>5, <2>2, <2>4, <2>5 DEF RegistryFits
  <2>7. Holds(next, q) /\ ~Holds(reg, q)
    <3>1. row \in next.pools
      BY <2>2
    <3> QED
      BY <1>2, <1>3, <1>5, <3>1 DEF Holds, row
  <2>8. ASSUME NEW p, IsRequest(p), p # q
        PROVE  Holds(next, p) <=> Holds(reg, p)
    <3>1. CASE p.op = "pool"
      <4>1. PICK k, r, s : p = [op |-> "pool", key |-> k, rules |-> r, snapshot |-> s]
        BY <2>8, <3>1 DEF IsRequest
      <4>2. k # key \/ r # rules \/ s # snapshot
        BY <2>8, <4>1
      <4>3. p.key = k /\ p.rules = r /\ p.snapshot = s
        BY <4>1
      <4>4. Entry(k, [rules |-> r, snapshot |-> s]) # row
        <5>1. \A x, y : Entry(x, y).key = x /\ Entry(x, y).content = y
          BY DEF Entry
        <5>2. [rules |-> r, snapshot |-> s].rules = r /\ [rules |-> r, snapshot |-> s].snapshot = s
          OBVIOUS
        <5> QED
          BY <5>1, <5>2, <4>2, <2>a DEF row
      <4> QED
        BY <2>2, <3>1, <4>3, <4>4 DEF Holds
    <3>2. CASE p.op # "pool"
      BY <2>2, <3>2 DEF Holds
    <3> QED
      BY <3>1, <3>2
  <2> QED
    BY <2>1, <2>6, <2>7, <2>8 DEF Outcome, Answered
<1>6. CASE done = <<reg.pools, "replayed">> /\ row \in reg.pools /\ HasRow(reg.pools, key)
  <2>1. Registered(reg, q)[1] = reg /\ Registered(reg, q)[2] = "replayed"
    <3>1. [reg EXCEPT !.pools = reg.pools] = reg
      BY <1>1
    <3> QED
      BY <1>4, <1>6, <3>1
  <2> QED
    BY <1>3, <1>6, <2>1 DEF Outcome, Answered
<1>7. CASE done = <<reg.pools, "refused">> /\ row \notin reg.pools
  <2>1. Registered(reg, q)[1] = reg /\ Registered(reg, q)[2] = "refused"
    <3>1. [reg EXCEPT !.pools = reg.pools] = reg
      BY <1>1
    <3> QED
      BY <1>4, <1>7, <3>1
  <2> QED
    BY <1>3, <1>7, <2>1 DEF Outcome, Answered
<1>8. CASE ~HasRow(reg.pools, key) /\ ~committable /\ row \notin reg.pools
  <2>1. Registered(reg, q)[1] = reg /\ Registered(reg, q)[2] = "refused"
    BY <1>4, <1>8
  <2> QED
    BY <1>3, <1>8, <2>1 DEF Outcome, Answered
<1>9. \/ /\ done = <<reg.pools \cup {row}, "created">> /\ ~HasRow(reg.pools, key) /\ row \notin reg.pools
         /\ OneForKey(reg.pools \cup {row})
      \/ done = <<reg.pools, "replayed">> /\ row \in reg.pools /\ HasRow(reg.pools, key)
      \/ done = <<reg.pools, "refused">> /\ row \notin reg.pools
  BY <1>1, SealingKeepsKeys DEF done
<1> QED
  BY <1>5, <1>6, <1>7, <1>8, <1>9

LEMMA PoliciesAreAnswered ==
  ASSUME NEW reg, RegistryFits(reg), NEW key, NEW content, NEW q,
         q = [op |-> "policy", key |-> key, content |-> content]
  PROVE  Outcome(reg, q) /\ (Holds(reg, q) => Registered(reg, q)[2] = "replayed")
<1> DEFINE row == Entry(key, content)
           next == [rules |-> reg.rules, snapshots |-> reg.snapshots, pools |-> reg.pools,
                    policies |-> reg.policies \cup {row}]
           done == Sealed(reg.policies, key, content)
           good == /\ ValidPolicy(content)
                   /\ HasRow(reg.rules, key) /\ Stored(reg.rules, key).content = content.rules
<1>1. /\ reg = [rules |-> reg.rules, snapshots |-> reg.snapshots, pools |-> reg.pools, policies |-> reg.policies]
      /\ OneForKey(reg.policies)
  BY DEF RegistryFits
<1>2. q.op = "policy" /\ q.key = key /\ q.content = content
  OBVIOUS
<1>3. Holds(reg, q) <=> row \in reg.policies
  BY <1>2 DEF Holds
<1>4. Registered(reg, q) = IF good THEN <<[reg EXCEPT !.policies = done[1]], done[2]>> ELSE <<reg, "refused">>
  <2>1. Registered(reg, q) = CreateFixturePolicy(reg, q)
    BY <1>2 DEF Registered
  <2> QED
    BY <1>2, <2>1 DEF CreateFixturePolicy
<1>a. row.key = key /\ row.content = content
  BY DEF Entry
<1>b. row \in reg.policies => good
  BY <1>a DEF RegistryFits, PolicyFits
<1> HIDE DEF done
<1>5. CASE /\ done = <<reg.policies \cup {row}, "created">> /\ row \notin reg.policies
           /\ OneForKey(reg.policies \cup {row}) /\ good
  <2>1. Registered(reg, q)[1] = next /\ Registered(reg, q)[2] = "created"
    <3>1. [reg EXCEPT !.policies = reg.policies \cup {row}] = next
      BY <1>1
    <3> HIDE DEF next, good
    <3> QED
      BY <1>4, <1>5, <3>1
  <2>2. /\ next.rules = reg.rules /\ next.snapshots = reg.snapshots /\ next.pools = reg.pools
        /\ next.policies = reg.policies \cup {row}
        /\ next = [rules |-> next.rules, snapshots |-> next.snapshots, pools |-> next.pools,
                   policies |-> next.policies]
    OBVIOUS
  <2> HIDE DEF next, row
  <2>4. \A p \in next.pools : PoolFits(next, p)
    BY <2>2 DEF RegistryFits, PoolFits
  <2>5. \A p \in next.policies : PolicyFits(next, p)
    <3>1. PolicyFits(next, row)
      BY <1>5, <1>a, <2>2 DEF PolicyFits
    <3>2. \A p \in reg.policies : PolicyFits(next, p)
      BY <2>2 DEF RegistryFits, PolicyFits
    <3> QED
      BY <2>2, <3>1, <3>2
  <2>6. RegistryFits(next)
    BY <1>5, <2>2, <2>4, <2>5 DEF RegistryFits
  <2>7. Holds(next, q) /\ ~Holds(reg, q)
    <3>1. row \in next.policies
      BY <2>2
    <3> QED
      BY <1>2, <1>3, <1>5, <3>1 DEF Holds, row
  <2>8. ASSUME NEW p, IsRequest(p), p # q
        PROVE  Holds(next, p) <=> Holds(reg, p)
    <3>1. CASE p.op = "policy"
      <4>1. PICK k, c : p = [op |-> "policy", key |-> k, content |-> c]
        BY <2>8, <3>1 DEF IsRequest
      <4>2. Entry(p.key, p.content) # row
        BY <2>8, <4>1 DEF Entry, row
      <4> QED
        BY <2>2, <3>1, <4>2 DEF Holds
    <3>2. CASE p.op # "policy"
      BY <2>2, <3>2 DEF Holds
    <3> QED
      BY <3>1, <3>2
  <2> QED
    BY <2>1, <2>6, <2>7, <2>8 DEF Outcome, Answered
<1> HIDE DEF good
<1>6. CASE done = <<reg.policies, "replayed">> /\ row \in reg.policies
  <2>1. Registered(reg, q)[1] = reg /\ Registered(reg, q)[2] = "replayed"
    <3>1. [reg EXCEPT !.policies = reg.policies] = reg
      BY <1>1
    <3> QED
      BY <1>4, <1>6, <1>b, <3>1
  <2> QED
    BY <1>3, <1>6, <2>1 DEF Outcome, Answered
<1>7. CASE done = <<reg.policies, "refused">> /\ row \notin reg.policies
  <2>1. Registered(reg, q)[1] = reg /\ Registered(reg, q)[2] = "refused"
    <3>1. [reg EXCEPT !.policies = reg.policies] = reg
      BY <1>1
    <3> QED
      BY <1>4, <1>7, <3>1
  <2> QED
    BY <1>3, <1>7, <2>1 DEF Outcome, Answered
<1>8. CASE ~good
  <2>1. Registered(reg, q)[1] = reg /\ Registered(reg, q)[2] = "refused"
    BY <1>4, <1>8
  <2> QED
    BY <1>3, <1>8, <1>b, <2>1 DEF Outcome, Answered
<1>9. \/ /\ done = <<reg.policies \cup {row}, "created">> /\ row \notin reg.policies
         /\ OneForKey(reg.policies \cup {row})
      \/ done = <<reg.policies, "replayed">> /\ row \in reg.policies
      \/ done = <<reg.policies, "refused">> /\ row \notin reg.policies
  BY <1>1, SealingKeepsKeys DEF done
<1> QED
  BY <1>5, <1>6, <1>7, <1>8, <1>9

LEMMA RequestsAreAnswered ==
  ASSUME NEW reg, RegistryFits(reg), NEW q, IsRequest(q)
  PROVE  Outcome(reg, q) /\ (Holds(reg, q) => Registered(reg, q)[2] = "replayed")
<1>1. CASE \E key, content : q = [op |-> "rules", key |-> key, content |-> content]
  BY <1>1, RulesAreAnswered
<1>2. CASE \E content : q = [op |-> "snapshot", content |-> content]
  BY <1>2, SnapshotsAreAnswered
<1>3. CASE \E key, rules, snapshot : q = [op |-> "pool", key |-> key, rules |-> rules, snapshot |-> snapshot]
  BY <1>3, PoolsAreAnswered
<1>4. CASE \E key, content : q = [op |-> "policy", key |-> key, content |-> content]
  BY <1>4, PoliciesAreAnswered
<1> QED
  BY <1>1, <1>2, <1>3, <1>4 DEF IsRequest

(***************************************************************************)
(* The run of a list of requests, one after another.                       *)
(***************************************************************************)
EmptyRun == [reg |-> NoRegistry, answers |-> <<>>]
NextRun(run, q) ==
  [reg |-> Registered(run.reg, q)[1], answers |-> Append(run.answers, Registered(run.reg, q)[2])]

\* The table that FoldLeft computes, over the sets of the first k places.
Runs(v, requests, D) ==
  v = [s \in SUBSET D |-> IF s = {} THEN EmptyRun ELSE NextRun(v[s \ {Max(s)}], requests[Max(s)])]

LEMMA MaxOfLast ==
  ASSUME NEW k \in Nat, NEW s \in SUBSET (1..(k + 1)), k + 1 \in s
  PROVE  Max(s) = k + 1
<1>1. \A j \in s : j \in Nat /\ k + 1 >= j
  OBVIOUS
<1>2. Max(s) \in s /\ \A j \in s : Max(s) >= j
  BY <1>1 DEF Max
<1>3. PICK m \in s : m = Max(s) /\ m >= k + 1
  BY <1>2
<1>4. m \in 1..(k + 1)
  OBVIOUS
<1> QED
  BY <1>3, <1>4

LEMMA MaxIsMember ==
  ASSUME NEW k \in Nat, NEW s \in SUBSET (1..k), s # {}
  PROVE  Max(s) \in s
<1> DEFINE T == {i \in Nat : \A r \in SUBSET (1..i) : r # {} => \E m \in r : \A j \in r : m >= j}
<1>1. 0 \in T
  <2>1. 1..0 = {}
    OBVIOUS
  <2> QED
    BY <2>1
<1>2. ASSUME NEW i \in Nat, i \in T
      PROVE  i + 1 \in T
  <2> SUFFICES ASSUME NEW r \in SUBSET (1..(i + 1)), r # {}
               PROVE  \E m \in r : \A j \in r : m >= j
    OBVIOUS
  <2>1. \A j \in r : j \in Nat /\ i + 1 >= j
    OBVIOUS
  <2>2. CASE i + 1 \in r
    BY <2>1, <2>2
  <2>3. CASE i + 1 \notin r
    <3>1. r \in SUBSET (1..i)
      BY <2>3
    <3> QED
      BY <1>2, <3>1
  <2> QED
    BY <2>2, <2>3
<1> HIDE DEF T
<1>3. k \in T
  BY <1>1, <1>2, NumbersInduct
<1>4. \E m \in s : \A j \in s : m >= j
  BY <1>3 DEF T
<1> QED
  BY <1>4 DEF Max

LEMMA RunsExist ==
  ASSUME NEW requests, NEW k \in Nat
  PROVE  \E v : Runs(v, requests, 1..k)
<1> DEFINE T == {i \in Nat : \E v : Runs(v, requests, 1..i)}
<1>1. 0 \in T
  <2> DEFINE v == [s \in {{}} |-> EmptyRun]
  <2>1. SUBSET (1..0) = {{}}
    OBVIOUS
  <2>2. v = [s \in {{}} |-> IF s = {} THEN EmptyRun ELSE NextRun(v[s \ {Max(s)}], requests[Max(s)])]
    OBVIOUS
  <2>3. Runs(v, requests, 1..0)
    BY <2>1, <2>2 DEF Runs
  <2> QED
    BY <2>3
<1>2. ASSUME NEW i \in Nat, i \in T
      PROVE  i + 1 \in T
  <2>1. PICK u : Runs(u, requests, 1..i)
    BY <1>2
  <2> DEFINE last == i + 1
             D == 1..i
             E == 1..(i + 1)
             v == [s \in SUBSET E |-> IF last \in s THEN NextRun(u[s \ {last}], requests[last]) ELSE u[s]]
  <2>2. last \notin D /\ D \subseteq E /\ \A s \in SUBSET E : last \notin s => s \in SUBSET D
    OBVIOUS
  <2>3. \A s \in SUBSET E : last \in s => Max(s) = last /\ s \ {last} \in SUBSET D
    BY MaxOfLast
  <2>4. \A s \in SUBSET D : s # {} => Max(s) \in s
    BY MaxIsMember
  <2>5. \A s \in SUBSET D : u[s] = IF s = {} THEN EmptyRun ELSE NextRun(u[s \ {Max(s)}], requests[Max(s)])
    <3>1. u = [s \in SUBSET D |-> IF s = {} THEN EmptyRun ELSE NextRun(u[s \ {Max(s)}], requests[Max(s)])]
      BY <2>1 DEF Runs
    <3> QED
      BY ONLY <3>1
  <2> HIDE DEF last, D, E
  <2>6. \A s \in SUBSET D : v[s] = u[s]
    BY <2>2
  <2>7. ASSUME NEW s \in SUBSET E
        PROVE  v[s] = IF s = {} THEN EmptyRun ELSE NextRun(v[s \ {Max(s)}], requests[Max(s)])
    <3>1. CASE last \in s
      <4>1. v[s] = NextRun(u[s \ {last}], requests[last])
        BY <3>1
      <4>2. v[s \ {last}] = u[s \ {last}] /\ Max(s) = last
        BY <2>3, <2>6, <3>1
      <4> QED
        BY <3>1, <4>1, <4>2
    <3>2. CASE last \notin s
      <4>1. s \in SUBSET D
        BY <2>2, <3>2
      <4>2. v[s] = u[s] /\ v[s \ {Max(s)}] = u[s \ {Max(s)}]
        BY <2>6, <4>1
      <4> QED
        BY <2>5, <4>1, <4>2
    <3> QED
      BY <3>1, <3>2
  <2>8. v = [s \in SUBSET E |-> v[s]]
    OBVIOUS
  <2> HIDE DEF v
  <2>9. v = [s \in SUBSET E |-> IF s = {} THEN EmptyRun ELSE NextRun(v[s \ {Max(s)}], requests[Max(s)])]
    BY <2>7, <2>8
  <2>10. Runs(v, requests, 1..(i + 1))
    BY <2>9 DEF Runs, E
  <2> QED
    BY <2>10
<1> HIDE DEF T
<1>3. k \in T
  BY <1>1, <1>2, NumbersInduct
<1> QED
  BY <1>3 DEF T

\* The runs of the first requests, of none, of one, and so on to all of them.
LEMMA RunsStep ==
  ASSUME NEW requests, IsList(requests)
  PROVE  \E run : /\ run[0] = EmptyRun /\ run[Len(requests)] = RegistryRun(requests)
                  /\ \A k \in 1..Len(requests) : run[k] = NextRun(run[k - 1], requests[k])
<1> DEFINE D == DOMAIN requests
           P(v) == v = [s \in SUBSET D |-> IF s = {} THEN EmptyRun
                                           ELSE NextRun(v[s \ {Max(s)}], requests[Max(s)])]
           w == CHOOSE v : P(v)
           run == [k \in 0..Len(requests) |-> w[1..k]]
<1>1. D = 1..Len(requests) /\ Len(requests) \in Nat
  BY DEF IsList
<1>2. RegistryRun(requests) = w[D]
  BY DEF RegistryRun, FoldLeft, MapThenFoldSet, EmptyRun, NextRun
<1>3. \A v : P(v) <=> Runs(v, requests, D)
  BY DEF Runs
<1>4. \E v : Runs(v, requests, D)
  BY <1>1, RunsExist
<1> HIDE DEF P
<1>5. P(w)
  BY <1>3, <1>4
<1> HIDE DEF w
<1>6. \A s \in SUBSET D : w[s] = IF s = {} THEN EmptyRun ELSE NextRun(w[s \ {Max(s)}], requests[Max(s)])
  <2>1. w = [s \in SUBSET D |-> IF s = {} THEN EmptyRun ELSE NextRun(w[s \ {Max(s)}], requests[Max(s)])]
    BY <1>5 DEF P
  <2> QED
    BY ONLY <2>1
<1>7. \A k \in 0..Len(requests) : run[k] = w[1..k]
  OBVIOUS
<1> HIDE DEF D, run
<1>8. run[0] = EmptyRun
  <2>1. 0 \in 0..Len(requests) /\ 1..0 = {} /\ {} \in SUBSET D
    BY <1>1
  <2> QED
    BY <1>6, <1>7, <2>1
<1>9. run[Len(requests)] = RegistryRun(requests)
  <2>1. Len(requests) \in 0..Len(requests)
    BY <1>1
  <2> QED
    BY <1>1, <1>2, <1>7, <2>1
<1>10. ASSUME NEW k \in 1..Len(requests)
       PROVE  run[k] = NextRun(run[k - 1], requests[k])
  <2>1. k \in 0..Len(requests) /\ k - 1 \in 0..Len(requests) /\ k - 1 \in Nat /\ (k - 1) + 1 = k
    BY <1>1
  <2>2. 1..k \in SUBSET D /\ k \in 1..k /\ (1..k) \ {k} = 1..(k - 1)
    BY <1>1
  <2>3. Max(1..k) = k
    BY <2>1, <2>2, MaxOfLast
  <2>4. w[1..k] = NextRun(w[1..(k - 1)], requests[k])
    BY <1>6, <2>2, <2>3
  <2> QED
    BY <1>7, <2>1, <2>4
<1> QED
  BY <1>8, <1>9, <1>10

\* What the run of the first k requests has made of them.
Copies(requests, answers, q, k) == {m \in 1..k : requests[m] = q /\ answers[m] = "created"}

Answers == {"created", "replayed", "refused"}
RunFits(run, requests, k) ==
  /\ RegistryFits(run.reg) /\ run.answers \in Seq(Answers) /\ Len(run.answers) = k
  /\ \A n \in 1..k : run.answers[n] # "refused" => Holds(run.reg, requests[n])
  /\ \A q : IsRequest(q) =>
       Cardinality(Copies(requests, run.answers, q, k)) = IF Holds(run.reg, q) THEN 1 ELSE 0

LEMMA EmptyRunFits ==
  ASSUME NEW requests
  PROVE  RunFits(EmptyRun, requests, 0)
<1> DEFINE reg == EmptyRun.reg
           answers == EmptyRun.answers
<1>1. reg = [rules |-> {}, snapshots |-> <<>>, pools |-> {}, policies |-> {}] /\ answers = <<>>
  BY DEF EmptyRun, NoRegistry
<1>2. reg.rules = {} /\ reg.snapshots = <<>> /\ reg.pools = {} /\ reg.policies = {}
  BY <1>1
<1>3. RegistryFits(reg)
  <2>1. OneForKey({})
    BY DEF OneForKey
  <2>2. IsRow(<<>>)
    BY DEF IsRow
  <2> QED
    BY <1>1, <1>2, <2>1, <2>2 DEF RegistryFits
<1>4. ASSUME NEW q
      PROVE  ~Holds(reg, q)
  <2>1. ~HasRevision(<<>>, q.content)
    BY DEF HasRevision
  <2> HIDE DEF reg
  <2> QED
    BY <1>2, <2>1 DEF Holds
<1>5. ASSUME NEW q
      PROVE  Cardinality(Copies(requests, answers, q, 0)) = 0
  <2>1. Copies(requests, answers, q, 0) = {}
    BY DEF Copies
  <2> QED
    BY <2>1, FS_EmptySet
<1>6. answers \in Seq(Answers) /\ Len(answers) = 0 /\ 1..0 = {}
  BY <1>1
<1> HIDE DEF reg, answers
<1> QED
  BY <1>3, <1>4, <1>5, <1>6 DEF RunFits, reg, answers

LEMMA NextRunFits ==
  ASSUME NEW requests, NEW k \in Nat \ {0}, NEW run, RunFits(run, requests, k - 1),
         \A m \in 1..k : IsRequest(requests[m])
  PROVE  RunFits(NextRun(run, requests[k]), requests, k)
<1> DEFINE q == requests[k]
           next == Registered(run.reg, q)[1]
           answer == Registered(run.reg, q)[2]
           answers == Append(run.answers, answer)
<1>1. RegistryFits(run.reg) /\ run.answers \in Seq(Answers) /\ Len(run.answers) = k - 1
  BY DEF RunFits
<1>2. Answered(run.reg, q, next, answer)
  <2>1. IsRequest(q)
    OBVIOUS
  <2> QED
    BY <1>1, <2>1, RequestsAreAnswered DEF Outcome
<1>3. NextRun(run, q).reg = next /\ NextRun(run, q).answers = answers
  BY DEF NextRun
<1> HIDE DEF next, answer
<1>4. answer \in Answers
  <2>1. answer = "created" \/ answer = "replayed" \/ answer = "refused"
    BY ONLY <1>2 DEF Answered
  <2> QED
    BY ONLY <2>1 DEF Answers
<1>5. /\ answers \in Seq(Answers) /\ Len(answers) = k /\ answers[k] = answer
      /\ \A n \in 1..(k - 1) : answers[n] = run.answers[n]
  <2>1. /\ answers \in Seq(Answers) /\ Len(answers) = Len(run.answers) + 1
        /\ \A n \in 1..Len(run.answers) : answers[n] = run.answers[n]
        /\ answers[Len(run.answers) + 1] = answer
    BY <1>1, <1>4, AppendProperties
  <2>2. (k - 1) + 1 = k
    OBVIOUS
  <2> HIDE DEF answers
  <2> QED
    BY <1>1, <2>1, <2>2
<1> HIDE DEF answers
<1>6. RegistryFits(next)
  BY <1>1, <1>2 DEF Answered
<1>7. \A n : n \in 1..k <=> n \in 1..(k - 1) \/ n = k
  OBVIOUS
<1>8. k \notin 1..(k - 1)
  OBVIOUS
<1>9. ASSUME NEW p, IsRequest(p)
      PROVE  Holds(run.reg, p) => Holds(next, p)
  <2>1. CASE p = q
    BY <1>2, <2>1 DEF Answered
  <2>2. CASE p # q
    BY <1>2, <1>9, <2>2 DEF Answered
  <2> QED
    BY <2>1, <2>2
<1>10. ASSUME NEW p, IsRequest(p)
       PROVE  Cardinality(Copies(requests, answers, p, k)) = IF Holds(next, p) THEN 1 ELSE 0
  <2> DEFINE old == Copies(requests, run.answers, p, k - 1)
  <2>1. Cardinality(old) = IF Holds(run.reg, p) THEN 1 ELSE 0
    BY <1>10 DEF RunFits
  <2>2. Copies(requests, answers, p, k) = IF q = p /\ answer = "created" THEN old \cup {k} ELSE old
    BY <1>5, <1>7 DEF Copies
  <2>3. k \notin old /\ IsFiniteSet(old)
    <3>1. old \in SUBSET (1..(k - 1))
      BY DEF Copies
    <3>2. IsFiniteSet(1..(k - 1))
      <4>1. k - 1 \in Nat
        OBVIOUS
      <4> QED
        BY <4>1, Numbered
    <3> HIDE DEF old
    <3> QED
      BY <1>8, <3>1, <3>2, FS_Subset
  <2> HIDE DEF old
  <2>4. CASE q = p /\ answer = "created"
    <3>1. ~Holds(run.reg, p) /\ Holds(next, p)
      BY <1>2, <2>4 DEF Answered
    <3>2. Cardinality(old \cup {k}) = Cardinality(old) + 1
      BY <2>3, FS_AddElement
    <3> QED
      BY <2>1, <2>2, <2>4, <3>1, <3>2
  <2>5. CASE ~(q = p /\ answer = "created")
    <3>1. Holds(next, p) <=> Holds(run.reg, p)
      BY <1>2, <1>10, <2>5 DEF Answered
    <3> QED
      BY <2>1, <2>2, <2>5, <3>1
  <2> QED
    BY <2>4, <2>5
<1>11. ASSUME NEW n \in 1..k, answers[n] # "refused"
       PROVE  Holds(next, requests[n])
  <2>1. CASE n = k
    BY <1>2, <1>5, <1>11, <2>1 DEF Answered
  <2>2. CASE n # k
    <3>1. n \in 1..(k - 1)
      BY <1>7, <2>2
    <3>2. Holds(run.reg, requests[n])
      BY <1>5, <1>11, <3>1 DEF RunFits
    <3> QED
      BY <1>9, <1>11, <3>2
  <2> QED
    BY <2>1, <2>2
<1> QED
  BY <1>3, <1>5, <1>6, <1>10, <1>11 DEF RunFits

\* Theorem: what the registry of a session has sealed stays as it is, whatever is asked.
THEOREM RegistriesAreFinal ==
  ASSUME NEW requests, IsList(requests), \A n \in DOMAIN requests : IsRequest(requests[n])
  PROVE  RegistryIsFinal(requests)
<1>1. DOMAIN requests = 1..Len(requests) /\ Len(requests) \in Nat
  BY DEF IsList
<1>2. PICK run : /\ run[0] = EmptyRun /\ run[Len(requests)] = RegistryRun(requests)
                 /\ \A k \in 1..Len(requests) : run[k] = NextRun(run[k - 1], requests[k])
  BY RunsStep
<1>3. PICK N \in Nat : N = Len(requests)
  BY <1>1
<1> DEFINE T == {k \in Nat : k <= N => RunFits(run[k], requests, k)}
<1>4. 0 \in T
  BY <1>2, EmptyRunFits
<1>5. ASSUME NEW k \in Nat, k \in T
      PROVE  k + 1 \in T
  <2> SUFFICES ASSUME k + 1 <= N PROVE RunFits(run[k + 1], requests, k + 1)
    OBVIOUS
  <2>1. k + 1 \in 1..N /\ k + 1 \in Nat \ {0} /\ (k + 1) - 1 = k /\ k <= N
    OBVIOUS
  <2>2. RunFits(run[k], requests, (k + 1) - 1) /\ \A m \in 1..(k + 1) : IsRequest(requests[m])
    BY <1>1, <1>3, <1>5, <2>1
  <2>3. RunFits(NextRun(run[k], requests[k + 1]), requests, k + 1)
    BY <2>1, <2>2, NextRunFits
  <2> QED
    BY <1>2, <1>3, <2>1, <2>3
<1> HIDE DEF T
<1>6. N \in T
  BY <1>4, <1>5, NumbersInduct
<1>7. RunFits(RegistryRun(requests), requests, N)
  BY <1>2, <1>3, <1>6 DEF T
<1>8. PICK end : end = RegistryRun(requests)
  OBVIOUS
<1>9. /\ RegistryFits(end.reg)
      /\ \A n \in 1..N : end.answers[n] # "refused" => Holds(end.reg, requests[n])
      /\ \A q : IsRequest(q) =>
           Cardinality(Copies(requests, end.answers, q, N)) = IF Holds(end.reg, q) THEN 1 ELSE 0
  BY <1>7, <1>8 DEF RunFits
<1>10. ASSUME NEW n \in 1..N, end.answers[n] # "refused"
       PROVE  /\ Registered(end.reg, requests[n])[2] = "replayed"
              /\ Cardinality({m \in 1..N : requests[m] = requests[n] /\ end.answers[m] = "created"}) = 1
  <2>1. IsRequest(requests[n]) /\ Holds(end.reg, requests[n])
    BY <1>1, <1>3, <1>9, <1>10
  <2> QED
    BY <1>9, <2>1, RequestsAreAnswered DEF Copies
<1>11. /\ \A p \in end.reg.pools :
            Stored(end.reg.rules, p.content.rules).content.stake = end.reg.snapshots[p.content.snapshot].stake
       /\ \A p \in end.reg.policies : Stored(end.reg.rules, p.key).content = p.content.rules
  BY <1>9 DEF RegistryFits, PoolFits, PolicyFits
<1>12. \A n \in DOMAIN requests :
         end.answers[n] # "refused" =>
           /\ Registered(end.reg, requests[n])[2] = "replayed"
           /\ Cardinality({m \in DOMAIN requests : requests[m] = requests[n] /\ end.answers[m] = "created"}) = 1
  <2>1. DOMAIN requests = 1..N
    BY <1>1, <1>3
  <2> QED
    BY ONLY <1>10, <2>1
<1> QED
  BY ONLY <1>8, <1>11, <1>12 DEF RegistryIsFinal

(***************************************************************************)
(* What the calculators may be asked, of every kind.                       *)
(***************************************************************************)
DrawsInput ==
  /\ input.kind = "flip" =>
       /\ FlipDrawInput(input.rules, input.cands, input.policy, input.rules.stake)
       /\ input.now \in Int
  /\ input.kind = "registry" =>
       IsList(input.requests) /\ \A n \in DOMAIN input.requests : IsRequest(input.requests[n])
  /\ input.kind = "money" => input.a \in Nat /\ input.d \in Nat /\ input.b \in Nat /\ input.e \in Nat
  /\ input.kind = "gacha" => GachaDrawInput(input.bands, input.cards)

\* Theorem: whatever rules, snapshots, requests, amounts and cards are given, the
\* calculators of the card games draw what was reviewed.
THEOREM DrawsAlwaysKeepOdds ==
  ASSUME DrawsInput
  PROVE  DrawsKeepOdds
<1>1. ASSUME input.kind = "flip"
      PROVE  CommittedPoolIsPlayable(input.rules, input.cands, input.policy, input.rules.stake, 1, input.now)
  BY <1>1, CommittedPoolsArePlayable DEF DrawsInput
<1>2. ASSUME input.kind = "registry"
      PROVE  RegistryIsFinal(input.requests)
  BY <1>2, RegistriesAreFinal DEF DrawsInput
<1>3. ASSUME input.kind = "money"
      PROVE  AmountsCompareExactly(input.a, input.d, input.b, input.e)
  BY <1>3, AmountsAreExact DEF DrawsInput
<1>4. ASSUME input.kind = "gacha"
      PROVE  GachaDrawKeepsOdds(input.bands, input.cards, input.policy, input.excluded)
  BY <1>4, GachaDrawsKeepOdds DEF DrawsInput
<1> QED
  BY <1>1, <1>2, <1>3, <1>4 DEF DrawsKeepOdds

(***************************************************************************)
(* The score of a stat line: the table that FoldLeft computes.             *)
(***************************************************************************)
Units(rule, line, k) ==
  rule.components[k].weight
    * (IF rule.components[k].stat \in DOMAIN line THEN line[rule.components[k].stat] ELSE 0)

Scored(v, rule, line, D) ==
  v = [s \in SUBSET D |-> IF s = {} THEN rule.base ELSE v[s \ {Max(s)}] + Units(rule, line, Max(s))]

LEMMA ScoredExist ==
  ASSUME NEW rule, NEW line, NEW k \in Nat
  PROVE  \E v : Scored(v, rule, line, 1..k)
<1> DEFINE T == {i \in Nat : \E v : Scored(v, rule, line, 1..i)}
<1>1. 0 \in T
  <2> DEFINE v == [s \in {{}} |-> rule.base]
  <2>1. SUBSET (1..0) = {{}}
    OBVIOUS
  <2>2. v = [s \in {{}} |-> IF s = {} THEN rule.base ELSE v[s \ {Max(s)}] + Units(rule, line, Max(s))]
    OBVIOUS
  <2>3. Scored(v, rule, line, 1..0)
    BY <2>1, <2>2 DEF Scored
  <2> QED
    BY <2>3
<1>2. ASSUME NEW i \in Nat, i \in T
      PROVE  i + 1 \in T
  <2>1. PICK u : Scored(u, rule, line, 1..i)
    BY <1>2
  <2> DEFINE last == i + 1
             D == 1..i
             E == 1..(i + 1)
             v == [s \in SUBSET E |-> IF last \in s THEN u[s \ {last}] + Units(rule, line, last) ELSE u[s]]
  <2>2. last \notin D /\ D \subseteq E /\ \A s \in SUBSET E : last \notin s => s \in SUBSET D
    OBVIOUS
  <2>3. \A s \in SUBSET E : last \in s => Max(s) = last /\ s \ {last} \in SUBSET D
    BY MaxOfLast
  <2>4. \A s \in SUBSET D : s # {} => Max(s) \in s
    BY MaxIsMember
  <2>5. \A s \in SUBSET D : u[s] = IF s = {} THEN rule.base ELSE u[s \ {Max(s)}] + Units(rule, line, Max(s))
    <3>1. u = [s \in SUBSET D |-> IF s = {} THEN rule.base ELSE u[s \ {Max(s)}] + Units(rule, line, Max(s))]
      BY <2>1 DEF Scored
    <3> QED
      BY ONLY <3>1
  <2> HIDE DEF last, D, E
  <2>6. \A s \in SUBSET D : v[s] = u[s]
    BY <2>2
  <2>7. ASSUME NEW s \in SUBSET E
        PROVE  v[s] = IF s = {} THEN rule.base ELSE v[s \ {Max(s)}] + Units(rule, line, Max(s))
    <3>1. CASE last \in s
      <4>1. v[s] = u[s \ {last}] + Units(rule, line, last)
        BY <3>1
      <4>2. v[s \ {last}] = u[s \ {last}] /\ Max(s) = last
        BY <2>3, <2>6, <3>1
      <4> QED
        BY <3>1, <4>1, <4>2
    <3>2. CASE last \notin s
      <4>1. s \in SUBSET D
        BY <2>2, <3>2
      <4>2. v[s] = u[s] /\ v[s \ {Max(s)}] = u[s \ {Max(s)}]
        BY <2>6, <4>1
      <4> QED
        BY <2>5, <4>1, <4>2
    <3> QED
      BY <3>1, <3>2
  <2>8. v = [s \in SUBSET E |-> v[s]]
    OBVIOUS
  <2> HIDE DEF v
  <2>9. v = [s \in SUBSET E |-> IF s = {} THEN rule.base ELSE v[s \ {Max(s)}] + Units(rule, line, Max(s))]
    BY <2>7, <2>8
  <2>10. Scored(v, rule, line, 1..(i + 1))
    BY <2>9 DEF Scored, E
  <2> QED
    BY <2>10
<1> HIDE DEF T
<1>3. k \in T
  BY <1>1, <1>2, NumbersInduct
<1> QED
  BY <1>3 DEF T

\* The totals of the first components, of none, of one, and so on to all of them.
LEMMA ScoreSteps ==
  ASSUME NEW rule, NEW line, IsList(rule.components)
  PROVE  \E run : /\ run[0] = rule.base /\ run[Len(rule.components)] = TotalMilliPoints(rule, line)
                  /\ \A k \in 1..Len(rule.components) : run[k] = run[k - 1] + Units(rule, line, k)
<1> DEFINE D == DOMAIN rule.components
           P(v) == v = [s \in SUBSET D |-> IF s = {} THEN rule.base
                                           ELSE v[s \ {Max(s)}] + Units(rule, line, Max(s))]
           w == CHOOSE v : P(v)
           run == [k \in 0..Len(rule.components) |-> w[1..k]]
<1>1. D = 1..Len(rule.components) /\ Len(rule.components) \in Nat
  BY DEF IsList
<1>2. TotalMilliPoints(rule, line) = w[D]
  BY DEF TotalMilliPoints, FoldLeft, MapThenFoldSet, Units
<1>3. \A v : P(v) <=> Scored(v, rule, line, D)
  BY DEF Scored
<1>4. \E v : Scored(v, rule, line, D)
  BY <1>1, ScoredExist
<1> HIDE DEF P
<1>5. P(w)
  BY <1>3, <1>4
<1> HIDE DEF w
<1>6. \A s \in SUBSET D : w[s] = IF s = {} THEN rule.base ELSE w[s \ {Max(s)}] + Units(rule, line, Max(s))
  <2>1. w = [s \in SUBSET D |-> IF s = {} THEN rule.base ELSE w[s \ {Max(s)}] + Units(rule, line, Max(s))]
    BY <1>5 DEF P
  <2> QED
    BY ONLY <2>1
<1>7. \A k \in 0..Len(rule.components) : run[k] = w[1..k]
  OBVIOUS
<1> HIDE DEF D, run
<1>8. run[0] = rule.base
  <2>1. 0 \in 0..Len(rule.components) /\ 1..0 = {} /\ {} \in SUBSET D
    BY <1>1
  <2> QED
    BY <1>6, <1>7, <2>1
<1>9. run[Len(rule.components)] = TotalMilliPoints(rule, line)
  <2>1. Len(rule.components) \in 0..Len(rule.components)
    BY <1>1
  <2> QED
    BY <1>1, <1>2, <1>7, <2>1
<1>10. ASSUME NEW k \in 1..Len(rule.components)
       PROVE  run[k] = run[k - 1] + Units(rule, line, k)
  <2>1. k \in 0..Len(rule.components) /\ k - 1 \in 0..Len(rule.components) /\ k - 1 \in Nat /\ (k - 1) + 1 = k
    BY <1>1
  <2>2. 1..k \in SUBSET D /\ k \in 1..k /\ (1..k) \ {k} = 1..(k - 1)
    BY <1>1
  <2>3. Max(1..k) = k
    BY <2>1, <2>2, MaxOfLast
  <2>4. w[1..k] = w[1..(k - 1)] + Units(rule, line, k)
    BY <1>6, <2>2, <2>3
  <2> QED
    BY <1>7, <2>1, <2>4
<1> QED
  BY <1>8, <1>9, <1>10

\* What a score is computed from: integers, and components in a list.
ScoreInput(rule, line) ==
  /\ rule = [base |-> rule.base, components |-> rule.components] /\ rule.base \in Int
  /\ IsList(rule.components) /\ \A k \in DOMAIN rule.components : rule.components[k].weight \in Int
  /\ \A s \in DOMAIN line : line[s] \in Int

LEMMA UnitsAreNumbers ==
  ASSUME NEW rule, NEW line, NEW k \in DOMAIN rule.components, rule.components[k].weight \in Int,
         \A s \in DOMAIN line : line[s] \in Int
  PROVE  /\ Units(rule, line, k) \in Int
         /\ rule.components[k].stat \notin DOMAIN line => Units(rule, line, k) = 0
         /\ rule.components[k].stat \in DOMAIN line =>
              Units(rule, line, k) = rule.components[k].weight * line[rule.components[k].stat]
<1>1. PICK c : c = rule.components[k]
  OBVIOUS
<1>2. PICK u : u = IF c.stat \in DOMAIN line THEN line[c.stat] ELSE 0
  OBVIOUS
<1>3. PICK w : w = c.weight
  OBVIOUS
<1>4. Units(rule, line, k) = w * u /\ w \in Int /\ u \in Int
  BY <1>1, <1>2, <1>3 DEF Units
<1>5. w * u \in Int /\ w * 0 = 0
  BY <1>4
<1>6. /\ c.stat \notin DOMAIN line => u = 0
      /\ c.stat \in DOMAIN line => u = line[c.stat]
  BY <1>2
<1> QED
  BY <1>1, <1>3, <1>4, <1>5, <1>6

\* The totals of the first components are numbers.
TotalsTo(run, rule, line) ==
  /\ run[0] = rule.base /\ run[Len(rule.components)] = TotalMilliPoints(rule, line)
  /\ \A k \in 0..Len(rule.components) : run[k] \in Int
  /\ \A k \in 1..Len(rule.components) : run[k] = run[k - 1] + Units(rule, line, k)

LEMMA TotalsAreNumbers ==
  ASSUME NEW rule, NEW line, ScoreInput(rule, line)
  PROVE  /\ \E run : TotalsTo(run, rule, line)
         /\ TotalMilliPoints(rule, line) \in Int
<1>1. /\ IsList(rule.components) /\ Len(rule.components) \in Nat
      /\ DOMAIN rule.components = 1..Len(rule.components)
  BY DEF ScoreInput, IsList
<1>2. PICK run : /\ run[0] = rule.base /\ run[Len(rule.components)] = TotalMilliPoints(rule, line)
                 /\ \A k \in 1..Len(rule.components) : run[k] = run[k - 1] + Units(rule, line, k)
  BY <1>1, ScoreSteps
<1>3. PICK N \in Nat : N = Len(rule.components)
  BY <1>1
<1>4. \A k \in 1..N : Units(rule, line, k) \in Int
  BY <1>1, <1>3, UnitsAreNumbers DEF ScoreInput
<1> DEFINE T == {k \in Nat : k <= N => run[k] \in Int}
<1>5. 0 \in T
  BY <1>2 DEF ScoreInput
<1>6. ASSUME NEW k \in Nat, k \in T
      PROVE  k + 1 \in T
  <2> SUFFICES ASSUME k + 1 <= N PROVE run[k + 1] \in Int
    OBVIOUS
  <2>1. k + 1 \in 1..N /\ (k + 1) - 1 = k /\ k <= N
    OBVIOUS
  <2>2. run[k] \in Int
    BY <1>6, <2>1
  <2>3. run[k + 1] = run[k] + Units(rule, line, k + 1)
    BY <1>2, <1>3, <2>1
  <2> QED
    BY <1>4, <2>1, <2>2, <2>3
<1> HIDE DEF T
<1>7. \A k \in Nat : k \in T
  BY <1>5, <1>6, NumbersInduct
<1>8. \A k \in 0..N : run[k] \in Int
  BY <1>7 DEF T
<1>9. TotalsTo(run, rule, line)
  BY <1>2, <1>3, <1>8 DEF TotalsTo
<1>10. N \in 0..N
  OBVIOUS
<1>11. TotalMilliPoints(rule, line) \in Int
  BY <1>2, <1>3, <1>8, <1>10
<1> QED
  BY <1>9, <1>11

\* Two lines whose units add up to those of a third score its points between them.
LEMMA ScoresAdd ==
  ASSUME NEW rule, NEW a, NEW b, NEW c,
         ScoreInput(rule, a), ScoreInput(rule, b), ScoreInput(rule, c),
         \A k \in DOMAIN rule.components : Units(rule, a, k) + Units(rule, b, k) = Units(rule, c, k)
  PROVE  TotalMilliPoints(rule, a) + TotalMilliPoints(rule, b) = TotalMilliPoints(rule, c) + rule.base
<1>1. /\ Len(rule.components) \in Nat /\ DOMAIN rule.components = 1..Len(rule.components)
      /\ rule.base \in Int
  BY DEF ScoreInput, IsList
<1>2. PICK N \in Nat : N = Len(rule.components)
  BY <1>1
<1>3. PICK f : TotalsTo(f, rule, a)
  BY TotalsAreNumbers
<1>4. PICK g : TotalsTo(g, rule, b)
  BY TotalsAreNumbers
<1>5. PICK h : TotalsTo(h, rule, c)
  BY TotalsAreNumbers
<1>6. \A k \in 1..N : /\ Units(rule, a, k) \in Int /\ Units(rule, b, k) \in Int
                      /\ Units(rule, a, k) + Units(rule, b, k) = Units(rule, c, k)
  BY <1>1, <1>2, UnitsAreNumbers DEF ScoreInput
<1>7. PICK base \in Int : base = rule.base
  BY <1>1
<1> DEFINE T == {k \in Nat : k <= N => f[k] + g[k] = h[k] + base}
<1>8. 0 \in T
  BY <1>3, <1>4, <1>5, <1>7 DEF TotalsTo
<1>9. ASSUME NEW k \in Nat, k \in T
      PROVE  k + 1 \in T
  <2> SUFFICES ASSUME k + 1 <= N PROVE f[k + 1] + g[k + 1] = h[k + 1] + base
    OBVIOUS
  <2>1. k + 1 \in 1..N /\ (k + 1) - 1 = k /\ k <= N /\ k \in 0..N
    OBVIOUS
  <2>2. /\ f[k + 1] = f[k] + Units(rule, a, k + 1) /\ g[k + 1] = g[k] + Units(rule, b, k + 1)
        /\ h[k + 1] = h[k] + Units(rule, c, k + 1)
        /\ f[k] \in Int /\ g[k] \in Int /\ h[k] \in Int
    BY <1>2, <1>3, <1>4, <1>5, <2>1 DEF TotalsTo
  <2>3. f[k] + g[k] = h[k] + base
    BY <1>9, <2>1
  <2>4. \A x, y, z, u, v, w \in Int :
          x + y = z + base /\ u + v = w => (x + u) + (y + v) = (z + w) + base
    OBVIOUS
  <2>5. /\ Units(rule, a, k + 1) \in Int /\ Units(rule, b, k + 1) \in Int /\ Units(rule, c, k + 1) \in Int
        /\ Units(rule, a, k + 1) + Units(rule, b, k + 1) = Units(rule, c, k + 1)
    BY <1>6, <2>1
  <2> QED
    BY <2>2, <2>3, <2>4, <2>5
<1> HIDE DEF T
<1>10. N \in T
  BY <1>8, <1>9, NumbersInduct
<1>11. f[N] + g[N] = h[N] + base
  BY <1>10 DEF T
<1> QED
  BY <1>2, <1>3, <1>4, <1>5, <1>7, <1>11 DEF TotalsTo

\* A line of one stat scores the units of its component.
LEMMA OneStatScores ==
  ASSUME NEW rule, NEW line, ScoreInput(rule, line), NEW j \in DOMAIN rule.components,
         \A k \in DOMAIN rule.components : k # j => Units(rule, line, k) = 0
  PROVE  TotalMilliPoints(rule, line) = rule.base + Units(rule, line, j)
<1>1. /\ Len(rule.components) \in Nat /\ DOMAIN rule.components = 1..Len(rule.components)
      /\ rule.base \in Int
  BY DEF ScoreInput, IsList
<1>2. PICK N \in Nat : N = Len(rule.components)
  BY <1>1
<1>3. PICK f : TotalsTo(f, rule, line)
  BY TotalsAreNumbers
<1>4. PICK x \in Int : x = Units(rule, line, j)
  BY UnitsAreNumbers DEF ScoreInput
<1>5. PICK base \in Int : base = rule.base
  BY <1>1
<1>6. j \in 1..N
  BY <1>1, <1>2
<1> DEFINE T == {k \in Nat : k <= N => f[k] = base + (IF j <= k THEN x ELSE 0)}
<1>7. 0 \in T
  BY <1>3, <1>5, <1>6 DEF TotalsTo
<1>8. ASSUME NEW k \in Nat, k \in T
      PROVE  k + 1 \in T
  <2> SUFFICES ASSUME k + 1 <= N PROVE f[k + 1] = base + (IF j <= k + 1 THEN x ELSE 0)
    OBVIOUS
  <2>1. k + 1 \in 1..N /\ (k + 1) - 1 = k /\ k <= N
    OBVIOUS
  <2>2. f[k + 1] = f[k] + Units(rule, line, k + 1)
    BY <1>2, <1>3, <2>1 DEF TotalsTo
  <2>3. f[k] = base + (IF j <= k THEN x ELSE 0)
    BY <1>8, <2>1
  <2>4. Units(rule, line, k + 1) = IF k + 1 = j THEN x ELSE 0
    BY <1>1, <1>2, <1>4, <2>1
  <2> QED
    BY <1>6, <2>2, <2>3, <2>4
<1> HIDE DEF T
<1>9. N \in T
  BY <1>7, <1>8, NumbersInduct
<1>10. f[N] = base + x
  BY <1>6, <1>9 DEF T
<1> QED
  BY <1>2, <1>3, <1>4, <1>5, <1>10 DEF TotalsTo

Turned(rule) == [rule EXCEPT !.components = Reverse(@)]

LEMMA TurnedComponents ==
  ASSUME NEW rule, NEW line, ScoreInput(rule, line)
  PROVE  /\ ScoreInput(Turned(rule), line) /\ Turned(rule).base = rule.base
         /\ Len(Turned(rule).components) = Len(rule.components)
         /\ \A k \in 1..Len(rule.components) :
              Units(Turned(rule), line, k) = Units(rule, line, (Len(rule.components) - k) + 1)
<1>1. /\ Len(rule.components) \in Nat /\ DOMAIN rule.components = 1..Len(rule.components)
      /\ rule = [base |-> rule.base, components |-> rule.components]
  BY DEF ScoreInput, IsList
<1>2. PICK N \in Nat : N = Len(rule.components)
  BY <1>1
<1>3. PICK cs : cs = [k \in 1..N |-> rule.components[(N - k) + 1]]
  OBVIOUS
<1>4. Turned(rule) = [base |-> rule.base, components |-> cs]
  <2>1. Reverse(rule.components) = cs
    BY <1>1, <1>2, <1>3 DEF Reverse
  <2>2. PICK b, s : b = rule.base /\ s = rule.components
    OBVIOUS
  <2>3. rule = [base |-> b, components |-> s]
    BY <1>1, <2>2
  <2>4. Turned(rule) = [[base |-> b, components |-> s] EXCEPT !.components = Reverse(@)]
    BY <2>3 DEF Turned
  <2>5. [[base |-> b, components |-> s] EXCEPT !.components = Reverse(@)] = [base |-> b, components |-> Reverse(s)]
    OBVIOUS
  <2> QED
    BY <2>1, <2>2, <2>4, <2>5
<1>5. Turned(rule).base = rule.base /\ Turned(rule).components = cs
  BY <1>4
<1>6. DOMAIN cs = 1..N /\ Len(cs) = N
  BY <1>3
<1>7. \A k \in 1..N : cs[k] = rule.components[(N - k) + 1] /\ (N - k) + 1 \in 1..N
  BY <1>3
<1>8. \A k \in 1..N : Units(Turned(rule), line, k) = Units(rule, line, (N - k) + 1)
  BY <1>5, <1>7 DEF Units
<1>9. \A k \in DOMAIN cs : cs[k].weight \in Int
  BY <1>1, <1>2, <1>6, <1>7 DEF ScoreInput
<1>10. ScoreInput(Turned(rule), line)
  BY <1>4, <1>5, <1>6, <1>9 DEF ScoreInput, IsList
<1> QED
  BY <1>2, <1>5, <1>6, <1>8, <1>10

LEMMA TurnedScores ==
  ASSUME NEW rule, NEW line, ScoreInput(rule, line)
  PROVE  TotalMilliPoints(Turned(rule), line) = TotalMilliPoints(rule, line)
<1>1. /\ Len(rule.components) \in Nat /\ DOMAIN rule.components = 1..Len(rule.components)
      /\ rule.base \in Int
  BY DEF ScoreInput, IsList
<1>2. PICK N \in Nat : N = Len(rule.components)
  BY <1>1
<1>3. PICK f : TotalsTo(f, rule, line)
  BY TotalsAreNumbers
<1>4. /\ ScoreInput(Turned(rule), line) /\ Turned(rule).base = rule.base
      /\ Len(Turned(rule).components) = N
      /\ \A k \in 1..N : Units(Turned(rule), line, k) = Units(rule, line, (N - k) + 1)
  BY <1>2, TurnedComponents
<1>5. PICK g : TotalsTo(g, Turned(rule), line)
  BY <1>4, TotalsAreNumbers
<1>6. PICK base \in Int : base = rule.base
  BY <1>1
<1>7. \A k \in 1..N : Units(rule, line, k) \in Int
  BY <1>1, <1>2, UnitsAreNumbers DEF ScoreInput
<1> DEFINE T == {k \in Nat : k <= N => g[k] + f[N - k] = f[N] + base}
<1>8. 0 \in T
  <2>1. g[0] = base /\ f[N - 0] = f[N] /\ f[N] \in Int
    BY <1>2, <1>3, <1>4, <1>5, <1>6 DEF TotalsTo
  <2> QED
    BY <2>1
<1>9. ASSUME NEW k \in Nat, k \in T
      PROVE  k + 1 \in T
  <2> SUFFICES ASSUME k + 1 <= N PROVE g[k + 1] + f[N - (k + 1)] = f[N] + base
    OBVIOUS
  <2>1. PICK m \in Nat : m = N - k
    OBVIOUS
  <2>2. /\ k + 1 \in 1..N /\ (k + 1) - 1 = k /\ k <= N /\ k \in 0..N /\ (N - (k + 1)) + 1 = m
        /\ m \in 1..N /\ m - 1 = N - (k + 1) /\ m \in 0..N /\ m - 1 \in 0..N
    BY <2>1
  <2>3. g[k + 1] = g[k] + Units(rule, line, m) /\ g[k] \in Int
    <3>1. g[k + 1] = g[k] + Units(Turned(rule), line, k + 1) /\ g[k] \in Int
      BY <1>4, <1>5, <2>2 DEF TotalsTo
    <3> QED
      BY <1>4, <2>2, <3>1
  <2>4. f[m] = f[m - 1] + Units(rule, line, m) /\ f[m - 1] \in Int
    BY <1>2, <1>3, <2>2 DEF TotalsTo
  <2>5. g[k] + f[m] = f[N] + base
    BY <1>9, <2>1, <2>2
  <2>6. \A x, y, u, v, s \in Int : v = y + u /\ x + v = s => (x + u) + y = s
    OBVIOUS
  <2>7. Units(rule, line, m) \in Int /\ f[m] \in Int /\ f[N] + base \in Int
    <3>1. N \in 0..N
      OBVIOUS
    <3> QED
      BY <1>2, <1>3, <1>7, <2>2, <3>1 DEF TotalsTo
  <2>8. (g[k] + Units(rule, line, m)) + f[m - 1] = f[N] + base
    BY <2>3, <2>4, <2>5, <2>6, <2>7
  <2> QED
    BY <2>2, <2>3, <2>8
<1> HIDE DEF T
<1>10. N \in T
  BY <1>8, <1>9, NumbersInduct
<1>11. g[N] + f[N - N] = f[N] + base
  BY <1>10 DEF T
<1>12. f[0] = base /\ f[N] \in Int /\ g[N] \in Int /\ N - N = 0
  <2>1. N \in 0..N
    OBVIOUS
  <2> QED
    BY <1>2, <1>3, <1>4, <1>5, <1>6, <2>1 DEF TotalsTo
<1>13. g[N] = f[N]
  BY <1>11, <1>12
<1> QED
  BY <1>2, <1>3, <1>4, <1>5, <1>13 DEF TotalsTo

\* Theorem: whatever rule and stat line are given, every unit is scored once.
THEOREM ScoresCountUnitsOnce ==
  ASSUME NEW rule, NEW line, ScoreInput(rule, line)
  PROVE  ScoreCountsUnitsOnce(rule, line)
<1> DEFINE Of(S) == [s \in S |-> line[s]]
           Part(S) == TotalMilliPoints(rule, Of(S)) - rule.base
<1> SUFFICES ASSUME ValidScoringRule(rule), LineAccepted(rule, line)
             PROVE  /\ \A S \in SUBSET DOMAIN line : Part(S) + Part(DOMAIN line \ S) = Part(DOMAIN line)
                    /\ \A s \in DOMAIN line : \E c \in Range(rule.components) :
                         c.stat = s /\ Part({s}) = c.weight * line[s]
                    /\ TotalMilliPoints(Turned(rule), line) = TotalMilliPoints(rule, line)
  BY DEF ScoreCountsUnitsOnce, Turned
<1>1. \A S \in SUBSET DOMAIN line : ScoreInput(rule, Of(S)) /\ DOMAIN Of(S) = S /\ \A s \in S : Of(S)[s] = line[s]
  BY DEF ScoreInput
<1>2. rule.base \in Int /\ \A k \in DOMAIN rule.components : rule.components[k].weight \in Int
  BY DEF ScoreInput
<1> HIDE DEF Of
<1>3. \A S \in SUBSET DOMAIN line : TotalMilliPoints(rule, Of(S)) \in Int
  BY <1>1, TotalsAreNumbers
<1>4. ASSUME NEW S \in SUBSET DOMAIN line, NEW k \in DOMAIN rule.components
      PROVE  /\ Units(rule, Of(S), k) \in Int
             /\ rule.components[k].stat \notin S => Units(rule, Of(S), k) = 0
             /\ rule.components[k].stat \in S =>
                  Units(rule, Of(S), k) = rule.components[k].weight * line[rule.components[k].stat]
  <2>1. \A s \in DOMAIN Of(S) : Of(S)[s] \in Int
    BY <1>1 DEF ScoreInput
  <2>2. DOMAIN Of(S) = S /\ \A s \in S : Of(S)[s] = line[s]
    BY <1>1
  <2>3. /\ Units(rule, Of(S), k) \in Int
        /\ rule.components[k].stat \notin DOMAIN Of(S) => Units(rule, Of(S), k) = 0
        /\ rule.components[k].stat \in DOMAIN Of(S) =>
             Units(rule, Of(S), k) = rule.components[k].weight * Of(S)[rule.components[k].stat]
    BY <1>2, <2>1, UnitsAreNumbers
  <2> QED
    BY <2>2, <2>3
<1>5. ASSUME NEW S \in SUBSET DOMAIN line
      PROVE  Part(S) + Part(DOMAIN line \ S) = Part(DOMAIN line)
  <2>1. PICK R : R = DOMAIN line \ S
    OBVIOUS
  <2>2. R \in SUBSET DOMAIN line /\ DOMAIN line \in SUBSET DOMAIN line
    BY <2>1
  <2>3. ASSUME NEW k \in DOMAIN rule.components
        PROVE  Units(rule, Of(S), k) + Units(rule, Of(R), k) = Units(rule, Of(DOMAIN line), k)
    <3>1. PICK x : x = rule.components[k].stat
      OBVIOUS
    <3>2. CASE x \in S
      <4>1. x \notin R /\ x \in DOMAIN line
        BY <2>1, <3>2
      <4>2. Units(rule, Of(R), k) = 0 /\ Units(rule, Of(S), k) = Units(rule, Of(DOMAIN line), k)
        BY <1>4, <2>2, <3>1, <3>2, <4>1
      <4>3. Units(rule, Of(S), k) \in Int
        BY <1>4
      <4> QED
        BY <4>2, <4>3
    <3>3. CASE x \in R
      <4>1. x \notin S /\ x \in DOMAIN line
        BY <2>1, <3>3
      <4>2. Units(rule, Of(S), k) = 0 /\ Units(rule, Of(R), k) = Units(rule, Of(DOMAIN line), k)
        BY <1>4, <2>2, <3>1, <3>3, <4>1
      <4>3. Units(rule, Of(R), k) \in Int
        BY <1>4, <2>2
      <4> QED
        BY <4>2, <4>3
    <3>4. CASE x \notin DOMAIN line
      <4>1. x \notin S /\ x \notin R
        BY <2>1, <3>4
      <4> QED
        BY <1>4, <2>2, <3>1, <3>4, <4>1
    <3> QED
      BY <2>1, <3>2, <3>3, <3>4
  <2>4. TotalMilliPoints(rule, Of(S)) + TotalMilliPoints(rule, Of(R))
          = TotalMilliPoints(rule, Of(DOMAIN line)) + rule.base
    BY <1>1, <2>2, <2>3, ScoresAdd
  <2>5. \A x, y, z, u \in Int : x + y = z + u => (x - u) + (y - u) = z - u
    OBVIOUS
  <2>6. /\ TotalMilliPoints(rule, Of(S)) \in Int /\ TotalMilliPoints(rule, Of(R)) \in Int
        /\ TotalMilliPoints(rule, Of(DOMAIN line)) \in Int
    BY <1>3, <2>2
  <2>7. (TotalMilliPoints(rule, Of(S)) - rule.base) + (TotalMilliPoints(rule, Of(R)) - rule.base)
          = TotalMilliPoints(rule, Of(DOMAIN line)) - rule.base
    BY ONLY <1>2, <2>4, <2>5, <2>6
  <2> QED
    BY <2>1, <2>7
<1>6. ASSUME NEW s \in DOMAIN line
      PROVE  \E c \in Range(rule.components) : c.stat = s /\ Part({s}) = c.weight * line[s]
  <2>1. PICK j \in DOMAIN rule.components : rule.components[j].stat = s
    <3>1. s \in {c.stat : c \in Range(rule.components)}
      BY DEF LineAccepted
    <3> QED
      BY <3>1 DEF Range
  <2>2. {s} \in SUBSET DOMAIN line
    OBVIOUS
  <2>3. \A k \in DOMAIN rule.components : k # j => Units(rule, Of({s}), k) = 0
    <3>1. \A k \in DOMAIN rule.components : k # j => rule.components[k].stat # s
      BY <2>1 DEF ValidScoringRule
    <3> QED
      BY <1>4, <2>2, <3>1
  <2>4. TotalMilliPoints(rule, Of({s})) = rule.base + Units(rule, Of({s}), j)
    BY <1>1, <2>2, <2>3, OneStatScores
  <2>5. Units(rule, Of({s}), j) \in Int /\ Units(rule, Of({s}), j) = rule.components[j].weight * line[s]
    BY <1>4, <2>1, <2>2
  <2>6. Part({s}) = Units(rule, Of({s}), j)
    BY <1>2, <2>4, <2>5
  <2>7. rule.components[j] \in Range(rule.components)
    BY DEF Range
  <2> HIDE DEF Part
  <2> QED
    BY <2>1, <2>5, <2>6, <2>7
<1> QED
  BY <1>5, <1>6, TurnedScores

(***************************************************************************)
(* The holdings locked at kickoff.                                         *)
(***************************************************************************)
\* What a kickoff is sealed from: holdings in a list, with shares that can be counted and
\* custody references that can be ordered.
KickoffInput(holdings) ==
  /\ IsList(holdings)
  /\ \A n \in DOMAIN holdings : holdings[n].custody \in Nat /\ holdings[n].shares \in Nat

Shares(s) == [n \in DOMAIN s |-> s[n].shares]

LEMMA KickoffTotalIsSum ==
  ASSUME NEW holdings, IsFiniteSet(DOMAIN holdings)
  PROVE  KickoffSnapshot(holdings).total = Sum(Shares(holdings), DOMAIN holdings)
<1> DEFINE D == DOMAIN holdings
           f == Shares(holdings)
           u == CHOOSE v : Summing(v, f, D)
           w == CHOOSE v : v = [s \in SUBSET D |-> IF s = {} THEN 0
                                                  ELSE holdings[Pick(s)].shares + v[s \ {Pick(s)}]]
<1>1. DOMAIN f = D /\ \A n \in D : f[n] = holdings[n].shares
  BY DEF Shares
<1>2. KickoffSnapshot(holdings).total = w[D]
  BY DEF KickoffSnapshot, MapThenSumSet, MapThenFoldSet, Pick
<1>3. ASSUME NEW v
      PROVE  Summing(v, f, D) <=> v = [s \in SUBSET D |-> IF s = {} THEN 0
                                        ELSE holdings[Pick(s)].shares + v[s \ {Pick(s)}]]
  <2>1. \A s \in SUBSET D : s # {} => f[Pick(s)] = holdings[Pick(s)].shares
    BY <1>1, PickIsMember
  <2> HIDE DEF f
  <2>2. [s \in SUBSET D |-> IF s = {} THEN 0 ELSE f[Pick(s)] + v[s \ {Pick(s)}]]
          = [s \in SUBSET D |-> IF s = {} THEN 0 ELSE holdings[Pick(s)].shares + v[s \ {Pick(s)}]]
    BY <2>1
  <2> QED
    BY <2>2 DEF Summing
<1>4. D \in SUBSET DOMAIN f
  BY <1>1
<1>5. (\E v : Summing(v, f, D)) /\ \A v : Summing(v, f, D) => v[D] = Sum(f, D)
  BY <1>4, SummingSums
<1>6. Summing(w, f, D)
  <2> HIDE DEF f, D
  <2> QED
    BY <1>3, <1>5
<1> QED
  BY <1>2, <1>5, <1>6

\* The shares of the entries, folded, are their sum.
LEMMA EntriesTotalIsSum ==
  ASSUME NEW entries, IsFiniteSet(DOMAIN entries)
  PROVE  FoldFunction(LAMBDA h, n : h.shares + n, 0, entries) = Sum(Shares(entries), DOMAIN entries)
<1> DEFINE D == DOMAIN entries
           f == Shares(entries)
           w == CHOOSE v : v = [s \in SUBSET D |-> IF s = {} THEN 0
                                                  ELSE entries[Pick(s)].shares + v[s \ {Pick(s)}]]
<1>1. DOMAIN f = D /\ \A n \in D : f[n] = entries[n].shares
  BY DEF Shares
<1>2. FoldFunction(LAMBDA h, n : h.shares + n, 0, entries) = w[D]
  BY DEF FoldFunction, FoldFunctionOnSet, MapThenFoldSet, Pick
<1>3. ASSUME NEW v
      PROVE  Summing(v, f, D) <=> v = [s \in SUBSET D |-> IF s = {} THEN 0
                                        ELSE entries[Pick(s)].shares + v[s \ {Pick(s)}]]
  <2>1. \A s \in SUBSET D : s # {} => f[Pick(s)] = entries[Pick(s)].shares
    BY <1>1, PickIsMember
  <2> HIDE DEF f
  <2>2. [s \in SUBSET D |-> IF s = {} THEN 0 ELSE f[Pick(s)] + v[s \ {Pick(s)}]]
          = [s \in SUBSET D |-> IF s = {} THEN 0 ELSE entries[Pick(s)].shares + v[s \ {Pick(s)}]]
    BY <2>1
  <2> QED
    BY <2>2 DEF Summing
<1>4. D \in SUBSET DOMAIN f
  BY <1>1
<1>5. (\E v : Summing(v, f, D)) /\ \A v : Summing(v, f, D) => v[D] = Sum(f, D)
  BY <1>4, SummingSums
<1>6. Summing(w, f, D)
  <2> HIDE DEF f, D
  <2> QED
    BY <1>3, <1>5
<1> QED
  BY <1>2, <1>5, <1>6

\* A sum over a set is the sum over its members renamed one to one.
LEMMA RenamedSum ==
  ASSUME NEW S, IsFiniteSet(S), NEW f \in [S -> Nat],
         NEW name \in [S -> S], \A j, k \in S : name[j] = name[k] => j = k,
         NEW g \in [S -> Nat], \A k \in S : g[k] = f[name[k]]
  PROVE  Sum(g, S) = Sum(f, S)
<1>1. \A R \in SUBSET S : Sum(g, R) = Sum(f, {name[k] : k \in R})
  BY SumRenamed
<1>2. name \in Injection(S, S)
  BY DEF Injection, IsInjective
<1>3. name \in Surjection(S, S)
  BY <1>2, FS_Injection
<1>4. \A m \in S : \E k \in S : name[k] = m
  BY <1>3 DEF Surjection
<1>5. \A x : x \in {name[k] : k \in S} <=> x \in S
  BY <1>4
<1>6. {name[k] : k \in S} = S
  BY <1>5
<1> QED
  BY <1>1, <1>6

\* Lists that are renamings of each other have the same shares.
LEMMA RenamedShares ==
  ASSUME NEW n, n \in Nat, NEW s, DOMAIN s = 1..n, \A k \in 1..n : s[k].shares \in Nat,
         NEW t, DOMAIN t = 1..n,
         NEW name, name \in [1..n -> 1..n], \A j, k \in 1..n : name[j] = name[k] => j = k,
         \A k \in 1..n : t[k] = s[name[k]]
  PROVE  Sum(Shares(t), 1..n) = Sum(Shares(s), 1..n)
<1> DEFINE K == 1..n
<1>1. IsFiniteSet(K)
  BY Numbered
<1> DEFINE f == Shares(s)
           g == Shares(t)
           alias == name
<1>2. f \in [K -> Nat]
  BY DEF Shares
<1>3. g \in [K -> Nat]
  BY DEF Shares
<1>4. alias \in [K -> K]
  OBVIOUS
<1>5. \A j, k \in K : alias[j] = alias[k] => j = k
  OBVIOUS
<1>6. \A k \in K : g[k] = f[alias[k]]
  BY DEF Shares
<1> HIDE DEF K, f, g, alias
<1>7. Sum(g, K) = Sum(f, K)
  BY ONLY <1>1, <1>2, <1>3, <1>4, <1>5, <1>6, RenamedSum
<1> QED
  BY <1>7 DEF K, f, g

\* The entries are the holdings, each once.
LEMMA OrderedByCustody ==
  ASSUME NEW locked, IsFiniteSet(locked), \A h \in locked : h.custody \in Nat,
         \A g, h \in locked : g.custody = h.custody => g = h
  PROVE  /\ DOMAIN InCustodyOrder(locked) = 1..Cardinality(locked)
         /\ Len(InCustodyOrder(locked)) = Cardinality(locked)
         /\ \A k \in 1..Cardinality(locked) : InCustodyOrder(locked)[k] \in locked
         /\ \A j, k \in 1..Cardinality(locked) : InCustodyOrder(locked)[j] = InCustodyOrder(locked)[k] => j = k
<1> DEFINE Place(h) == Cardinality({g \in locked : g.custody < h.custody})
           C == {h.custody : h \in locked}
<1>1. PICK N \in Nat : N = Cardinality(locked)
  BY FS_CardinalityType
<1>2. C \in SUBSET Nat /\ IsFiniteSet(C) /\ Cardinality(C) = N
  <2> DEFINE f == [h \in locked |-> h.custody]
  <2>1. f \in Bijection(locked, C)
    BY DEF Bijection, Injection, Surjection, IsInjective
  <2>2. ExistsBijection(locked, C)
    BY <2>1 DEF ExistsBijection
  <2>3. C \in SUBSET Nat
    OBVIOUS
  <2> HIDE DEF C
  <2> QED
    BY <1>1, <2>2, <2>3, FS_Bijection
<1>3. ASSUME NEW h \in locked
      PROVE  Place(h) = Rank(C, h.custody)
  <2> DEFINE A == {g \in locked : g.custody < h.custody}
             B == {c \in C : c < h.custody}
             f == [g \in A |-> g.custody]
  <2>1. f \in Bijection(A, B)
    BY DEF Bijection, Injection, Surjection, IsInjective
  <2>2. ExistsBijection(A, B)
    BY <2>1 DEF ExistsBijection
  <2>3. A \in SUBSET locked
    OBVIOUS
  <2>4. Place(h) = Cardinality(A) /\ Rank(C, h.custody) = Cardinality(B)
    BY DEF Rank
  <2> HIDE DEF A, B, C, Place
  <2>5. IsFiniteSet(A)
    BY <2>3, FS_Subset
  <2> QED
    BY <2>2, <2>4, <2>5, FS_Bijection
<1>4. \A k \in 1..N : \E h \in locked : Place(h) = k - 1
  <2> SUFFICES ASSUME NEW k \in 1..N PROVE \E h \in locked : Place(h) = k - 1
    OBVIOUS
  <2>1. k - 1 \in 0..(N - 1)
    OBVIOUS
  <2>2. PICK c \in C : Rank(C, c) = k - 1
    <3> HIDE DEF C
    <3> QED
      BY <1>2, <2>1, RanksCount
  <2>3. PICK h \in locked : h.custody = c
    OBVIOUS
  <2> HIDE DEF C, Place
  <2> QED
    BY <1>3, <2>2, <2>3
<1>5. InCustodyOrder(locked) = [k \in 1..N |-> CHOOSE h \in locked : Place(h) = k - 1]
  BY <1>1 DEF InCustodyOrder
<1> HIDE DEF Place
<1>6. PICK entries : entries = InCustodyOrder(locked)
  OBVIOUS
<1>7. \A k \in 1..N : entries[k] \in locked /\ Place(entries[k]) = k - 1
  BY <1>4, <1>5, <1>6
<1>8. \A j, k \in 1..N : entries[j] = entries[k] => j = k
  <2> SUFFICES ASSUME NEW j \in 1..N, NEW k \in 1..N, entries[j] = entries[k] PROVE j = k
    OBVIOUS
  <2>1. j - 1 = k - 1
    BY <1>7
  <2> QED
    BY <2>1
<1>9. DOMAIN entries = 1..N /\ Len(entries) = N
  BY <1>5, <1>6
<1> QED
  BY <1>1, <1>6, <1>7, <1>8, <1>9

\* Theorem: whatever holdings are given, in whatever order, one kickoff is sealed of them,
\* and it locks every share once.
THEOREM KickoffsSealOnce ==
  ASSUME NEW holdings, NEW minimum, KickoffInput(holdings)
  PROVE  KickoffSealsOnce(holdings, minimum)
<1> SUFFICES ASSUME HoldingsAccepted(holdings, minimum)
             PROVE  KickoffSealsOnce(holdings, minimum)
  BY DEF KickoffSealsOnce
<1>1. PICK N \in Nat : N = Len(holdings) /\ DOMAIN holdings = 1..N
  BY DEF KickoffInput, IsList
<1>2. \A n \in 1..N : holdings[n].custody \in Nat /\ holdings[n].shares \in Nat
  BY <1>1 DEF KickoffInput
<1>3. \A j, k \in 1..N : holdings[j].custody = holdings[k].custody => j = k
  BY <1>1 DEF HoldingsAccepted
<1>4. PICK locked : locked = {holdings[n] : n \in 1..N}
  OBVIOUS
<1>5. IsFiniteSet(1..N) /\ Cardinality(1..N) = N
  BY Numbered
<1>6. IsFiniteSet(locked) /\ Cardinality(locked) = N
  <2> DEFINE f == [n \in 1..N |-> holdings[n]]
  <2>1. f \in Bijection(1..N, locked)
    BY <1>3, <1>4 DEF Bijection, Injection, Surjection, IsInjective
  <2>2. ExistsBijection(1..N, locked)
    BY <2>1 DEF ExistsBijection
  <2> QED
    BY <1>5, <2>2, FS_Bijection
<1>7. PICK entries : entries = InCustodyOrder(locked)
  OBVIOUS
<1>8. /\ DOMAIN entries = 1..N /\ Len(entries) = N /\ \A k \in 1..N : entries[k] \in locked
      /\ \A j, k \in 1..N : entries[j] = entries[k] => j = k
  <2>1. \A h \in locked : h.custody \in Nat
    BY <1>2, <1>4
  <2>2. \A g, h \in locked : g.custody = h.custody => g = h
    BY <1>3, <1>4
  <2> QED
    BY <1>6, <1>7, <2>1, <2>2, OrderedByCustody
<1>9. Sum(Shares(entries), 1..N) = Sum(Shares(holdings), 1..N)
  <2> DEFINE name == [k \in 1..N |-> CHOOSE n \in 1..N : entries[k] = holdings[n]]
  <2>1. \A k \in 1..N : \E n \in 1..N : entries[k] = holdings[n]
    BY <1>4, <1>8
  <2>2. \A k \in 1..N : name[k] \in 1..N /\ entries[k] = holdings[name[k]]
    BY <2>1
  <2>3. name \in [1..N -> 1..N]
    BY <2>2
  <2> HIDE DEF name
  <2>4. \A j, k \in 1..N : name[j] = name[k] => j = k
    BY <1>8, <2>2
  <2>5. /\ N \in Nat /\ DOMAIN holdings = 1..N /\ \A k \in 1..N : holdings[k].shares \in Nat
        /\ DOMAIN entries = 1..N
        /\ name \in [1..N -> 1..N] /\ \A j, k \in 1..N : name[j] = name[k] => j = k
        /\ \A k \in 1..N : entries[k] = holdings[name[k]]
    BY <1>1, <1>2, <1>8, <2>2, <2>3, <2>4
  <2> QED
    BY ONLY <2>5, RenamedShares
<1>10. PICK turned : turned = Reverse(holdings)
  OBVIOUS
<1>11. DOMAIN turned = 1..N /\ \A k \in 1..N : turned[k] = holdings[(N - k) + 1] /\ (N - k) + 1 \in 1..N
  <2>1. turned = [k \in 1..N |-> holdings[(N - k) + 1]]
    BY <1>1, <1>10 DEF Reverse
  <2>2. \A k \in 1..N : (N - k) + 1 \in 1..N
    OBVIOUS
  <2> QED
    BY <2>1, <2>2
<1>12. Sum(Shares(turned), 1..N) = Sum(Shares(holdings), 1..N)
  <2> DEFINE name == [k \in 1..N |-> (N - k) + 1]
  <2>1. name \in [1..N -> 1..N] /\ \A k \in 1..N : name[k] = (N - k) + 1
    OBVIOUS
  <2>2. \A j, k \in 1..N : name[j] = name[k] => j = k
    OBVIOUS
  <2> HIDE DEF name
  <2>3. /\ N \in Nat /\ DOMAIN holdings = 1..N /\ \A k \in 1..N : holdings[k].shares \in Nat
        /\ DOMAIN turned = 1..N
        /\ name \in [1..N -> 1..N] /\ \A j, k \in 1..N : name[j] = name[k] => j = k
        /\ \A k \in 1..N : turned[k] = holdings[name[k]]
    BY <1>1, <1>2, <1>11, <2>1, <2>2
  <2> QED
    BY ONLY <2>3, RenamedShares
<1>13. {turned[n] : n \in 1..N} = locked
  <2>1. \A n \in 1..N : (N - n) + 1 \in 1..N /\ turned[(N - n) + 1] = holdings[n]
    <3> SUFFICES ASSUME NEW n \in 1..N PROVE (N - n) + 1 \in 1..N /\ turned[(N - n) + 1] = holdings[n]
      OBVIOUS
    <3>1. (N - n) + 1 \in 1..N /\ (N - ((N - n) + 1)) + 1 = n
      OBVIOUS
    <3> QED
      BY <1>11, <3>1
  <2> QED
    BY <1>4, <1>11, <2>1
<1>14. PICK total : total = Sum(Shares(holdings), 1..N)
  OBVIOUS
<1>15. KickoffSnapshot(holdings) = [entries |-> entries, players |-> {h.player : h \in locked}, total |-> total]
  <2>1. KickoffSnapshot(holdings).total = total
    BY <1>1, <1>5, <1>14, KickoffTotalIsSum
  <2>2. {holdings[n] : n \in DOMAIN holdings} = locked
    BY <1>1, <1>4
  <2>3. PICK t : KickoffSnapshot(holdings)
                   = [entries |-> InCustodyOrder({holdings[n] : n \in DOMAIN holdings}),
                    players |-> {h.player : h \in {holdings[n] : n \in DOMAIN holdings}}, total |-> t]
    BY DEF KickoffSnapshot
  <2>4. t = total
    BY <2>1, <2>3
  <2> QED
    BY <1>7, <2>2, <2>3, <2>4
<1>16. KickoffSnapshot(turned) = [entries |-> entries, players |-> {h.player : h \in locked}, total |-> total]
  <2>1. KickoffSnapshot(turned).total = total
    BY <1>5, <1>11, <1>12, <1>14, KickoffTotalIsSum
  <2>2. {turned[n] : n \in DOMAIN turned} = locked
    BY <1>11, <1>13
  <2>3. PICK t : KickoffSnapshot(turned)
                   = [entries |-> InCustodyOrder({turned[n] : n \in DOMAIN turned}),
                    players |-> {h.player : h \in {turned[n] : n \in DOMAIN turned}}, total |-> t]
    BY DEF KickoffSnapshot
  <2>4. t = total
    BY <2>1, <2>3
  <2> QED
    BY <1>7, <2>2, <2>3, <2>4
<1>17. PICK snapshot : snapshot = KickoffSnapshot(holdings)
  OBVIOUS
<1>18. KickoffSnapshot(Reverse(holdings)) = snapshot /\ snapshot.entries = entries /\ snapshot.total = total
  BY <1>10, <1>15, <1>16, <1>17
<1>19. Len(SealedSnapshots(<<snapshot>>, snapshot)) = 1
  <2>1. PICK sealed : sealed = <<snapshot>>
    OBVIOUS
  <2>2. 1 \in DOMAIN sealed /\ sealed[1] = snapshot /\ Len(sealed) = 1
    BY <2>1
  <2>3. SealedSnapshots(sealed, snapshot) = sealed
    BY <2>2 DEF SealedSnapshots
  <2> QED
    BY <2>1, <2>2, <2>3
<1>20. total = FoldFunction(LAMBDA h, n : h.shares + n, 0, entries)
  BY <1>5, <1>8, <1>9, <1>14, EntriesTotalIsSum
<1>21. /\ Len(SealedSnapshots(<<snapshot>>, KickoffSnapshot(Reverse(holdings)))) = 1
       /\ Len(snapshot.entries) = Len(holdings)
       /\ snapshot.total = FoldFunction(LAMBDA h, n : h.shares + n, 0, snapshot.entries)
  BY <1>1, <1>8, <1>18, <1>19, <1>20
<1> QED
  BY <1>17, <1>21 DEF KickoffSealsOnce

(***************************************************************************)
(* What the league's calculators may be asked, of every kind.              *)
(***************************************************************************)
BooksInput ==
  /\ input.kind = "payout" => PayoutInput(input.rules, input.placements, input.pool)
  /\ input.kind = "kickoff" => KickoffInput(input.holdings)
  /\ input.kind = "score" => ScoreInput(input.rule, input.line)

\* Theorem: whatever rules, lines, holdings, placements and pools are given, the league's
\* calculators account for all of it.
THEOREM BooksAlwaysBalance ==
  ASSUME BooksInput
  PROVE  BooksBalance
<1>1. ASSUME input.kind = "payout"
      PROVE  PayoutLosesOnlyDust(input.rules, input.placements, input.pool)
  BY <1>1, PayoutIsExact DEF BooksInput
<1>2. ASSUME input.kind = "kickoff"
      PROVE  KickoffSealsOnce(input.holdings, 1)
  BY <1>2, KickoffsSealOnce DEF BooksInput
<1>3. ASSUME input.kind = "score"
      PROVE  ScoreCountsUnitsOnce(input.rule, input.line)
  BY <1>3, ScoresCountUnitsOnce DEF BooksInput
<1> QED
  BY <1>1, <1>2, <1>3 DEF BooksBalance

\* Theorem: for every input of either kind, no draw, division or rounding makes or loses
\* odds, money or points.
THEOREM CalculationsAreAlwaysExact ==
  ASSUME DrawsInput, BooksInput
  PROVE  CalculationsAreExact
BY DrawsAlwaysKeepOdds, BooksAlwaysBalance DEF CalculationsAreExact

(***************************************************************************)
(* What players and operators are shown.                                   *)
(***************************************************************************)
\* A row to be shown: fees are paid by the players of the duel.
FeesOfPlayers(r) ==
  \A t \in r.txs : t.action = "fund" => t.wallet \in {r.duel.creator, r.duel.opponent}

LEMMA CompleteReceipt ==
  ASSUME NEW d, NEW txs, ReceiptMissingFields(d, txs) = {}, d.status = "SETTLED"
  PROVE  /\ d.opponent # NoWallet /\ d.escrow /\ ~ FundingSides(txs) < 2
         /\ d.values # <<>> /\ HasSettlementReference(d, txs)
<1> DEFINE When(condition, field) == IF condition THEN {field} ELSE {}
           settled == IF d.status # "SETTLED" THEN {}
                      ELSE When(d.values = <<>>, "provider_results")
                             \cup When(d.mode = "collector-crypt-sandbox", "provider_result_attestation")
                             \cup When(d.mode = "dailydraft-devnet" /\ ~ProviderCommitmentFinalized(txs),
                                       "on_chain_result_commitment")
                             \cup When(~HasSettlementReference(d, txs), "card_settlement_reference")
<1>1. ReceiptMissingFields(d, txs) =
        When(d.opponent = NoWallet, "opponent_wallet") \cup When(~d.escrow, "fee_escrow_address")
          \cup When(FundingSides(txs) < 2, "two_finalized_fee_deposits")
          \cup When(Cardinality(FeeAmounts(txs)) # 1, "single_persisted_fee_amount") \cup settled
  BY DEF ReceiptMissingFields
<1>2. /\ When(d.opponent = NoWallet, "opponent_wallet") = {} /\ When(~d.escrow, "fee_escrow_address") = {}
      /\ When(FundingSides(txs) < 2, "two_finalized_fee_deposits") = {} /\ settled = {}
  <2> HIDE DEF When, settled
  <2> QED
    BY <1>1
<1>3. When(d.values = <<>>, "provider_results") = {}
      /\ When(~HasSettlementReference(d, txs), "card_settlement_reference") = {}
  <2>1. settled = When(d.values = <<>>, "provider_results")
                    \cup When(d.mode = "collector-crypt-sandbox", "provider_result_attestation")
                    \cup When(d.mode = "dailydraft-devnet" /\ ~ProviderCommitmentFinalized(txs),
                              "on_chain_result_commitment")
                    \cup When(~HasSettlementReference(d, txs), "card_settlement_reference")
    OBVIOUS
  <2> HIDE DEF When, settled
  <2> QED
    BY <1>2, <2>1
<1>4. \A condition, field : When(condition, field) = {} => ~condition
  OBVIOUS
<1> HIDE DEF When
<1> QED
  BY <1>2, <1>3, <1>4

\* Theorem: whatever is listed as a verified result could be found by the database's filter,
\* was paid for by two players, settled on chain and won by the better card.
THEOREM ListedActivityIsVerified ==
  ASSUME NEW r, FeesOfPlayers(r)
  PROVE  ActivityIsVerified(r)
<1> SUFFICES ASSUME VerifiedActivity(r) PROVE ActivityIsVerified(r)
  BY DEF ActivityIsVerified
<1> DEFINE d == r.duel
           receipt == PublicReceipt(d, r.txs)
<1>1. /\ receipt.status = "SETTLED" /\ receipt.missing = {}
      /\ DuelRgsWinner(r) # "unavailable" /\ d.settledAt > 0 /\ d.ready
      /\ DuelRgsWinner(r) = d.winnerSide
  BY DEF VerifiedActivity
<1>2. d.values = <<>> \/ ResultReproduces(d)
  <2> SUFFICES ASSUME d.values # <<>>, ~ResultReproduces(d) PROVE FALSE
    OBVIOUS
  <2>1. receipt = [status |-> "refused"]
    BY DEF PublicReceipt
  <2>2. receipt.status = "refused"
    BY <2>1
  <2> QED
    BY <1>1, <2>2
<1>3. receipt.status = PublicStatus(d) /\ receipt.missing = ReceiptMissingFields(d, r.txs)
  BY <1>2 DEF PublicReceipt
<1>4. d.status = "SETTLED"
  BY <1>1, <1>3 DEF PublicStatus
<1>5. /\ d.opponent # NoWallet /\ d.escrow /\ ~ FundingSides(r.txs) < 2
      /\ d.values # <<>> /\ HasSettlementReference(d, r.txs)
  <2>1. ReceiptMissingFields(d, r.txs) = {}
    BY <1>1, <1>3
  <2> HIDE DEF d
  <2> QED
    BY <1>4, <2>1, CompleteReceipt
<1>6. Len(d.values) = 2 /\ WinnerSideOf(d.values) = d.winnerSide
  BY <1>2, <1>5 DEF ResultReproduces
<1>7. ~d.mock /\ d.mode # "mock" /\ ~MockOutcome(d) /\ FinalizedRows(r.txs, "settle") # {}
  BY <1>5 DEF HasSettlementReference, MockOutcome
<1>8. r.evidence.hashes /\ r.evidence.operations = Sides
  BY <1>1 DEF DuelRgsWinner
<1>9. ActivityCandidate(r)
  BY <1>1, <1>4, <1>5, <1>6, <1>7, <1>8 DEF ActivityCandidate
<1>10. FundingSides(r.txs) = 2
  <2> DEFINE payers == {t.wallet : t \in FinalizedRows(r.txs, "fund")}
             players == {d.creator, d.opponent}
  <2>1. payers \subseteq players
    BY DEF FeesOfPlayers, FinalizedRows
  <2>2. IsFiniteSet(players) /\ Cardinality(players) <= 2
    <3>1. IsFiniteSet({d.creator}) /\ Cardinality({d.creator}) = 1
      BY FS_Singleton
    <3>2. players = {d.creator} \cup {d.opponent}
      OBVIOUS
    <3>3. /\ IsFiniteSet({d.creator} \cup {d.opponent})
          /\ \/ Cardinality({d.creator} \cup {d.opponent}) = Cardinality({d.creator})
             \/ Cardinality({d.creator} \cup {d.opponent}) = Cardinality({d.creator}) + 1
      BY <3>1, FS_AddElement
    <3> HIDE DEF players
    <3> QED
      BY <3>1, <3>2, <3>3
  <2> HIDE DEF payers, players
  <2>3. Cardinality(payers) \in Nat /\ Cardinality(payers) <= Cardinality(players)
        /\ Cardinality(players) \in Nat
    BY <2>1, <2>2, FS_Subset, FS_CardinalityType
  <2>4. FundingSides(r.txs) = Cardinality(payers)
    BY DEF FundingSides, payers
  <2> QED
    BY <1>5, <2>2, <2>3, <2>4
<1>11. d.winner = CASE WinnerSideOf(d.values) = "creator" -> d.creator
                    [] WinnerSideOf(d.values) = "opponent" -> d.opponent
                    [] OTHER -> NoWallet
  <2>1. CASE d.winnerSide = "creator"
    BY <1>1, <1>6, <2>1 DEF DuelRgsWinner
  <2>2. CASE d.winnerSide = "opponent"
    BY <1>1, <1>6, <2>2 DEF DuelRgsWinner
  <2>3. CASE d.winnerSide # "creator" /\ d.winnerSide # "opponent"
    BY <1>1, <1>6, <2>3 DEF DuelRgsWinner
  <2> QED
    BY <2>1, <2>2, <2>3
<1>12. WinnerWalletMatchesResult(d)
  BY <1>6, <1>11 DEF WinnerWalletMatchesResult
<1>13. CardActions(d, r.txs) = "available"
  BY <1>4, <1>5, <1>7, <1>12 DEF CardActions
<1> QED
  BY <1>9, <1>10, <1>7, <1>11, <1>13 DEF ActivityIsVerified

\* Theorem: the operators' attention list and the reasons beside its duels agree.
THEOREM AttentionAlwaysHasReason ==
  ASSUME NEW d, NEW stuckBefore
  PROVE  AttentionHasReason(d, stuckBefore)
<1> DEFINE reasons == AttentionReasons(d, stuckBefore)
           S == {"funded_stuck", "transaction_stuck", "unbound_finalized_escrow"}
           c1 == d.status = "FAILED"
           c2 == d.status = "FUNDED" /\ d.fundedAt < stuckBefore
           c3 == \E t \in d.txs : t.stuck
           c4 == \E t \in d.txs : t.candidate /\ ~t.recovered
           c5 == \E t \in d.txs : t.status \in {"FAILED", "EXPIRED"}
<1>1. \A x : x \in reasons <=> \/ x = "duel_failed" /\ c1
                               \/ x = "funded_stuck" /\ c2
                               \/ x = "transaction_stuck" /\ c3
                               \/ x = "unbound_finalized_escrow" /\ c4
                               \/ x = "transaction_failed" /\ c5
  BY DEF AttentionReasons
<1>2. /\ AttentionWhere(d, "stuck", stuckBefore) = (c2 \/ c3 \/ c4)
      /\ AttentionWhere(d, "failed", stuckBefore) = (c1 \/ c5)
      /\ AttentionWhere(d, "all", stuckBefore) = ((c2 \/ c3 \/ c4) \/ (c1 \/ c5))
  BY Zenon DEF AttentionWhere
<1> HIDE DEF reasons, c1, c2, c3, c4, c5
<1>3. (reasons \cap S # {}) = (c2 \/ c3 \/ c4)
  BY <1>1
<1>4. (reasons \ S # {}) = (c1 \/ c5)
  BY <1>1
<1>5. (reasons # {}) = ((c2 \/ c3 \/ c4) \/ (c1 \/ c5))
  BY <1>1
<1> QED
  BY <1>2, <1>3, <1>4, <1>5 DEF AttentionHasReason, reasons


\* What the policy gates are given: a document's approvals are of the seven keys.
KnownApprovals(env) == env.policy.approvals \subseteq Range(APPROVAL_KEYS)

\* What the lobby is given: the limits are numbers, and wallet 9 is one that has no duel.
CountedLobby(duels, env) ==
  /\ IsList(duels) /\ env.maxWallet \in Nat \ {0} /\ env.maxTier \in Nat
  /\ \A n \in DOMAIN duels : 9 \notin {duels[n].creator, duels[n].opponent}

LEMMA ParsedPolicy ==
  ASSUME NEW p
  PROVE  /\ ParseRealValuePolicy(p) # "allowed"
         /\ ParseRealValuePolicy(p) = "ok" => Range(APPROVAL_KEYS) \subseteq p.approvals
<1> DEFINE I == {i \in 1..Len(APPROVAL_KEYS) : APPROVAL_KEYS[i] \notin p.approvals}
           missing == SelectInSeq(APPROVAL_KEYS, LAMBDA key : key \notin p.approvals)
<1>1. missing = IF I # {} THEN Min(I) ELSE 0
  BY DEF SelectInSeq
<1>2. Len(APPROVAL_KEYS) = 7 /\ DOMAIN APPROVAL_KEYS = 1..7
  BY DEF APPROVAL_KEYS
<1>3. I \in SUBSET (1..7)
  BY <1>2
<1>4. I # {} => missing \in 1..7
  <2> HIDE DEF I, missing
  <2> QED
    BY <1>1, <1>3, MinIsLeast
<1>5. \A i \in 1..7 : ApprovalDenialReason(APPROVAL_KEYS[i]) \notin {"ok", "allowed"}
  BY DEF ApprovalDenialReason, APPROVAL_KEYS
<1>6. \/ ParseRealValuePolicy(p) \in {"policy_malformed", "policy_schema_unsupported", "policy_version_missing",
                                     "capability_configuration_missing"}
      \/ missing # 0 /\ ParseRealValuePolicy(p) = ApprovalDenialReason(APPROVAL_KEYS[missing])
      \/ missing = 0 /\ ParseRealValuePolicy(p) = "ok"
  BY DEF ParseRealValuePolicy
<1> HIDE DEF missing
<1>7. missing = 0 => I = {}
  BY <1>4
<1>8. missing # 0 => missing \in 1..7
  BY <1>1, <1>4
<1>9. I = {} => Range(APPROVAL_KEYS) \subseteq p.approvals
  BY <1>2 DEF Range
<1> HIDE DEF I
<1> QED
  BY <1>5, <1>6, <1>7, <1>8, <1>9

\* Theorem: nothing that looks like production is let through without an enabled, complete
\* policy that names the capability, whatever the environment says.
THEOREM ProductionAlwaysNeedsPolicy ==
  ASSUME NEW env, KnownApprovals(env)
  PROVE  ProductionNeedsPolicy(env)
<1> SUFFICES ASSUME NEW c \in REAL_VALUE_CAPABILITIES, EvaluateRealValuePolicy(c, env) = "allowed",
                    env.explicit = "true" \/ env.network = "solana-mainnet" \/ env.provider = "collector-crypt-production"
             PROVE  /\ env.enabled /\ env.policy.present /\ c \in env.policy.capabilities
                    /\ env.policy.approvals = Range(APPROVAL_KEYS)
  BY DEF ProductionNeedsPolicy, Allowed
<1> DEFINE parsed == IF ~env.policy.present THEN "none" ELSE ParseRealValuePolicy(env.policy)
<1>1. ResolveRealValueRuntime(env) \in {"production", "unclassified"}
  BY DEF ResolveRealValueRuntime
<1>2. parsed = "ok" \/ parsed = "none" \/ EvaluateRealValuePolicy(c, env) = parsed
  BY DEF EvaluateRealValuePolicy
<1>3. ParseRealValuePolicy(env.policy) # "allowed"
  BY ParsedPolicy
<1>4. parsed = "ok" \/ parsed = "none"
  BY <1>2, <1>3
<1>5. parsed = "ok" /\ env.enabled /\ c \in env.policy.capabilities
  <2> HIDE DEF parsed
  <2>1. EvaluateRealValuePolicy(c, env) =
          IF parsed \notin {"none", "ok"} THEN parsed
          ELSE IF ResolveRealValueRuntime(env) = "unclassified" THEN "runtime_unclassified"
          ELSE IF ResolveRealValueRuntime(env) # "production" THEN "allowed"
          ELSE IF parsed = "none" THEN "policy_missing"
          ELSE IF ~env.enabled THEN "production_approval_missing"
          ELSE IF c \notin env.policy.capabilities THEN "capability_disabled" ELSE "allowed"
    BY DEF EvaluateRealValuePolicy, parsed
  <2> QED
    BY <1>1, <1>4, <2>1
<1>6. env.policy.present /\ ParseRealValuePolicy(env.policy) = "ok"
  BY <1>5
<1>7. env.policy.approvals = Range(APPROVAL_KEYS)
  BY <1>6, ParsedPolicy DEF KnownApprovals
<1> QED
  BY <1>5, <1>6, <1>7


LEMMA DuelsAreCounted ==
  ASSUME NEW duels, IsList(duels), NEW w, NEW tier
  PROVE  ActiveDuelsForWallet(duels, w) \in Nat /\ ActiveDuelsOfTier(duels, tier) \in Nat
<1>1. IsFiniteSet(DOMAIN duels)
  BY Numbered DEF IsList
<1>2. \A S \in SUBSET DOMAIN duels : Cardinality(S) \in Nat
  BY <1>1, FS_Subset, FS_CardinalityType
<1> QED
  BY <1>2 DEF ActiveDuelsForWallet, ActiveDuelsOfTier


\* Theorem: what the lobby offers, the guards of the endpoints let through.
THEOREM OffersAreAdmitted ==
  ASSUME NEW duels, NEW env, NEW facts, CountedLobby(duels, env)
  PROVE  OfferedIsAdmitted(duels, env, facts)
<1> SUFFICES ASSUME NEW mode \in {"direct", "open", "house"},
                    ActionOf(mode) \in DuelAvailability(env, facts).actions
             PROVE  /\ CreateAdmitted(mode, 50, 9, duels, env, facts)
                         \/ ActiveDuelsOfTier(duels, 50) >= ReadRiskLimits(env).maxTier
                    /\ \A step \in {"duel.funding.prepare", "duel.pack.open", "provider.escrow.prepare"} :
                         AssertAllowed(AdmissionCapability(step, mode), env, facts)
  BY DEF OfferedIsAdmitted, SupportedTiers
<1> DEFINE a == ActionOf(mode)
           limits == ReadRiskLimits(env)
           modes == ProductModes(Readiness(env, facts))
<1>1. a \in DuelCatalogMode(env, facts).actions /\ \A c \in ACTION_POLICY_CAPABILITIES(a) : Allowed(c, env)
  <2> DEFINE catalog == DuelCatalogMode(env, facts)
             admitted == {b \in catalog.actions : \A c \in ACTION_POLICY_CAPABILITIES(b) : Allowed(c, env)}
  <2>1. \/ admitted = catalog.actions /\ DuelAvailability(env, facts) = catalog
        \/ DuelAvailability(env, facts) =
             [actions |-> admitted, state |-> IF admitted # {} THEN "degraded" ELSE "unavailable"]
    BY DEF DuelAvailability
  <2>2. DuelAvailability(env, facts).actions = admitted
    <3> HIDE DEF admitted, catalog
    <3> QED
      BY <2>1
  <2>3. a \in admitted
    BY <2>2
  <2> QED
    BY <2>3
<1>2. facts.database /\ ~facts.paused /\ SupportedTiers \cap limits.allowedTiers # {}
      /\ a \in {ActionOf(m) : m \in modes}
  <2> DEFINE packReady == modes # {} /\ SupportedTiers \cap limits.allowedTiers # {}
             actions == IF ~facts.paused /\ packReady THEN {ActionOf(m) : m \in modes} ELSE {}
  <2>1. facts.database
    <3> SUFFICES ASSUME ~facts.database PROVE FALSE
      OBVIOUS
    <3>1. DuelCatalogMode(env, facts) = [actions |-> {}, state |-> "degraded"]
      BY DEF DuelCatalogMode
    <3> QED
      BY <1>1, <3>1
  <2>2. DuelCatalogMode(env, facts).actions = actions
    BY <2>1 DEF DuelCatalogMode
  <2>3. a \in actions
    BY <1>1, <2>2
  <2> QED
    BY <2>1, <2>3
<1>3. modes \subseteq {"direct", "open", "house"}
  BY DEF ProductModes
<1>4. mode \in modes
  <2>1. PICK m \in modes : ActionOf(m) = a
    BY <1>2
  <2>2. m \in {"direct", "open", "house"}
    BY <1>3
  <2>3. m = mode
    BY <2>1, <2>2 DEF ActionOf
  <2> QED
    BY <2>3
<1>5. /\ env.provider = "mock" \/ env.provider = "dailydraft-devnet"
      /\ mode = "house" => limits.houseEnabled
  BY <1>4 DEF ProductModes, Readiness
<1>6. 50 \in limits.allowedTiers
  BY <1>2 DEF SupportedTiers
<1>7. /\ {"duel.funding.prepare", "duel.pack.open", "provider.escrow.prepare"}
           \subseteq ACTION_POLICY_CAPABILITIES(a)
      /\ AdmissionCapability("duel.create", mode) \in ACTION_POLICY_CAPABILITIES(a)
  <2>1. CASE mode = "direct"
    BY <2>1 DEF ActionOf, ACTION_POLICY_CAPABILITIES, AdmissionCapability
  <2>2. CASE mode = "open"
    BY <2>2 DEF ActionOf, ACTION_POLICY_CAPABILITIES, AdmissionCapability
  <2>3. CASE mode = "house"
    BY <2>3 DEF ActionOf, ACTION_POLICY_CAPABILITIES, AdmissionCapability
  <2> QED
    BY <2>1, <2>2, <2>3
<1>8. \A c \in ACTION_POLICY_CAPABILITIES(a) : AssertAllowed(c, env, facts)
  BY <1>1, <1>2 DEF AssertAllowed
<1>9. \A step \in {"duel.funding.prepare", "duel.pack.open", "provider.escrow.prepare"} :
        AdmissionCapability(step, mode) = step
  BY DEF AdmissionCapability
<1>10. ActiveDuelsForWallet(duels, 9) = 0
  <2>1. {n \in DOMAIN duels : 9 \in {duels[n].creator, duels[n].opponent}} = {}
    BY DEF CountedLobby
  <2> QED
    BY <2>1, FS_EmptySet DEF ActiveDuelsForWallet
<1>11. ActiveDuelsOfTier(duels, 50) \in Nat
  BY DuelsAreCounted DEF CountedLobby
<1>12. limits.maxWallet \in Nat \ {0} /\ limits.maxTier \in Nat
  BY DEF CountedLobby, ReadRiskLimits
<1>13. ASSUME ~(ActiveDuelsOfTier(duels, 50) >= limits.maxTier)
       PROVE  CreateAdmitted(mode, 50, 9, duels, env, facts)
  <2>1. ActiveDuelsForWallet(duels, 9) < limits.maxWallet /\ ActiveDuelsOfTier(duels, 50) < limits.maxTier
    BY <1>10, <1>11, <1>12, <1>13
  <2>2. AssertCreateAllowed(mode, 50, 9, duels, env, facts)
    BY <1>2, <1>5, <1>6, <2>1 DEF AssertCreateAllowed, WithinRiskLimits
  <2> QED
    BY <1>5, <1>7, <1>8, <2>2 DEF CreateAdmitted, SupportedTiers
<1> QED
  BY <1>7, <1>8, <1>9, <1>13

\* Theorem: a wallet whose next create would be admitted is not shown at its limit.
THEOREM SummariesTellRefusals ==
  ASSUME NEW duels, NEW env, NEW facts, CountedLobby(duels, env)
  PROVE  SummaryTellsRefusals(duels, env, facts)
<1> SUFFICES ASSUME NEW w, NEW tier, AssertCreateAllowed("open", tier, w, duels, env, facts)
             PROVE  /\ w \notin WalletsAtLimit(duels, env)
                    /\ tier \in DOMAIN TierCounts(duels) => TierCounts(duels)[tier] < env.maxTier
  BY DEF SummaryTellsRefusals
<1>1. /\ ActiveDuelsForWallet(duels, w) < ReadRiskLimits(env).maxWallet
      /\ ActiveDuelsOfTier(duels, tier) < ReadRiskLimits(env).maxTier
  BY DEF AssertCreateAllowed, WithinRiskLimits
<1>2. ReadRiskLimits(env).maxWallet \in Nat /\ ReadRiskLimits(env).maxTier = env.maxTier
  BY DEF CountedLobby, ReadRiskLimits
<1>3. ActiveDuelsForWallet(duels, w) \in Nat
  BY DuelsAreCounted DEF CountedLobby
<1>4. ~(ActiveDuelsForWallet(duels, w) >= ReadRiskLimits(env).maxWallet)
  BY <1>1, <1>2, <1>3
<1> QED
  BY <1>1, <1>2, <1>4 DEF WalletsAtLimit, TierCounts

(***************************************************************************)
(* What may be shown, of every kind.                                       *)
(***************************************************************************)
OffersInput ==
  /\ input.kind = "activity" => FeesOfPlayers(input.row)
  /\ input.kind = "policy" => KnownApprovals(input.env)
  /\ input.kind = "lobby" => CountedLobby(input.duels, input.env)

\* Theorem: whatever rows, environments and facts are given, what players and operators
\* are shown is backed by what the services do.
THEOREM OffersAlwaysHold ==
  ASSUME OffersInput
  PROVE  OffersHold
<1>1. ASSUME input.kind = "activity"
      PROVE  ActivityIsVerified(input.row)
  BY <1>1, ListedActivityIsVerified DEF OffersInput
<1>2. ASSUME input.kind = "attention"
      PROVE  AttentionHasReason(input.duel, input.stuckBefore)
  BY AttentionAlwaysHasReason
<1>3. ASSUME input.kind = "policy"
      PROVE  ProductionNeedsPolicy(input.env)
  BY <1>3, ProductionAlwaysNeedsPolicy DEF OffersInput
<1>4. ASSUME input.kind = "lobby"
      PROVE  /\ OfferedIsAdmitted(input.duels, input.env, input.facts)
             /\ SummaryTellsRefusals(input.duels, input.env, input.facts)
  BY <1>4, OffersAreAdmitted, SummariesTellRefusals DEF OffersInput
<1> QED
  BY <1>1, <1>2, <1>3, <1>4 DEF OffersHold
================================================================================
