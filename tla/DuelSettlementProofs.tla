------------------------ MODULE DuelSettlementProofs ------------------------
(***************************************************************************)
(* Machine-checked proofs about DuelSettlement and the receipt of its duel *)
(* (DuelReceipt), for any assets, any number of concurrent requests and    *)
(* passes, attempts, messages and faults.                                  *)
(***************************************************************************)
EXTENDS DuelReceipt, FiniteSetTheorems, TLAPS

\* The types of the rows and of a process.
DuelType == [status : DuelStatuses, evidence : BOOLEAN]
RowType == [st : RowStatuses, gen : 0..MaxGens, sig : 0..MaxGens,
            checked : BOOLEAN, alert : BOOLEAN, access : BOOLEAN]
JobType == [op : Ops, row : Rows, gen : 0..MaxGens, height : 0..2,
            saw : {"nothing", "null", "err", "confirmed", "finalized"} \cup DuelStatuses,
            from : {"nothing"} \cup DuelStatuses, recover : BOOLEAN,
            todo : [Assets -> -1..(MaxAttempts + 1)], proved : BOOLEAN]

\* The type invariant in terms of these types.
LEMMA Types ==
  TypeOK <=>
  /\ duel \in DuelType
  /\ custody \subseteq Assets /\ known \subseteq custody
  /\ rows \in [Rows -> RowType]
  /\ \A r \in Rows : rows[r].st \in ACTIVE_STATUSES \cup {"FINALIZED"} => rows[r].sig > 0
  /\ job \in [Procs -> JobType]
  /\ chain \in [Rows -> [Gens -> ChainStates]]
  /\ expired \in BOOLEAN /\ faults \in 0..MaxFaults
  BY DEF TypeOK, DuelType, RowType, JobType

\* The two rows with a fixed key and the refunds of an asset.
LEMMA RowNames ==
  /\ Commit \in Rows /\ Settle \in Rows /\ ~IsRefund(Commit) /\ ~IsRefund(Settle)
  /\ \A a \in Assets, k \in 1..MaxAttempts : <<a, k>> \in Rows /\ IsRefund(<<a, k>>)
  /\ \A r \in Rows : \/ r \in {Commit, Settle}
                     \/ \E a \in Assets, k \in 1..MaxAttempts : r = <<a, k>>
<1>1. "commit" \notin Assets /\ "settle" \notin Assets
  BY SettlementConstants
<1>2. Commit[1] = "commit" /\ Settle[1] = "settle"
  BY DEF Commit, Settle
<1> QED
  BY <1>1, <1>2 DEF Rows, IsRefund

\* The statuses the three actions start from and lead to.
LEMMA FromTo ==
  \A r \in Rows : /\ From(r) \in {"AWAITING_ASSETS", "SETTLING", "REFUNDING"}
                  /\ To(r) \in {"SETTLING", "SETTLED", "REFUNDING"}
                  /\ To(r) = "SETTLED" => r = Settle
  BY DEF From, To

\* The empty row and the idle process are well typed.
LEMMA InitialRecords ==
  /\ NoRow \in RowType /\ Idle \in JobType
  /\ NoRow.st = "NONE" /\ NoRow.sig = 0 /\ ~NoRow.access /\ Idle.op = "idle"
  /\ Idle.todo = Nothing
<1>1. NoRow \in RowType /\ NoRow.st = "NONE" /\ NoRow.sig = 0 /\ ~NoRow.access
  BY SettlementConstants DEF NoRow, RowType, RowStatuses
<1>2. Nothing \in [Assets -> -1..(MaxAttempts + 1)]
  BY SettlementConstants DEF Nothing
<1>3. Commit \in Rows
  BY RowNames
<1>4. Idle \in JobType /\ Idle.op = "idle" /\ Idle.todo = Nothing
  BY <1>2, <1>3, SettlementConstants DEF Idle, JobType, Ops
<1> QED
  BY <1>1, <1>4

-----------------------------------------------------------------------------
(***************************************************************************)
(* What a step never takes back.                                           *)
(***************************************************************************)
\* The cluster keeps what it has decided, and what has landed.
ChainGrows == \A r \in Rows, g \in Gens :
  /\ chain[r][g] \in Decided => chain'[r][g] = chain[r][g]
  /\ chain[r][g] \in OnChain => chain'[r][g] \in OnChain

\* A bound signature and its message stay, and so does a row that is over.
RowsGrow == \A r \in Rows :
  /\ rows[r].sig > 0 => rows'[r].sig = rows[r].sig /\ rows'[r].gen = rows[r].gen
  /\ Over(r) => Over(r)'

\* What has landed for good stays landed, whichever message it was.
LEMMA LandedStays ==
  ASSUME ChainGrows
  PROVE  /\ \A r \in Rows : Landed(r, Final) => Landed(r, Final)'
         /\ \A a \in Assets : Refunded(a, Final) => Refunded(a, Final)'
<1>1. \A r \in Rows : Landed(r, Final) => Landed(r, Final)'
  BY DEF ChainGrows, Landed, Final, Decided
<1> QED
  BY <1>1, RowNames DEF Refunded

\* A row that is over stays over while the monitor does not write it.
LEMMA OverStays ==
  ASSUME SettlementInv, ChainGrows, NEW r \in Rows, rows'[r] = rows[r], Over(r)
  PROVE  Over(r)'
<1>1. rows[r] \in RowType /\ rows[r].st \notin ACTIVE_STATUSES
  BY Types DEF SettlementInv, Over, ACTIVE_STATUSES
<1>2. CASE rows[r].sig > 0 /\ Verified(r)
  <2>1. rows[r].sig \in Gens /\ chain[r][rows[r].sig] \in Decided
    BY <1>1, <1>2 DEF SettlementInv, ClosedIsDecided, Gens, RowType
  <2>2. chain'[r][rows[r].sig] = chain[r][rows[r].sig]
    BY <2>1 DEF ChainGrows
  <2> QED
    BY <2>2 DEF Over, Verified
<1>3. CASE ~(rows[r].sig > 0 /\ Verified(r))
  BY <1>3 DEF Over, Verified
<1> QED
  BY <1>2, <1>3

\* What a process that does not move knows stays true.
LEMMA JobStays ==
  ASSUME SettlementInv, ChainGrows, RowsGrow, UNCHANGED custody,
         NEW z \in Procs, job'[z] = job[z]
  PROVE  KnowsTheChain(job[z])' /\ KeepsTheOrder(job[z])'
<1>1. /\ job[z] \in JobType /\ job[z].row \in Rows /\ rows[job[z].row] \in RowType
      /\ custody \subseteq Assets
  BY Types DEF SettlementInv, JobType
<1>2. KnowsTheChain(job[z]) /\ KeepsTheOrder(job[z])
  BY DEF SettlementInv, JobsAreSound
<1>3. KnowsTheChain(job[z])'
  <2> DEFINE r == job[z].row
  <2>1. job[z].op \in {"seen", "record"} =>
          /\ rows[r].sig > 0 /\ rows'[r].sig = rows[r].sig /\ rows'[r].gen = rows[r].gen
          /\ rows[r].sig \in Gens
    BY <1>1, <1>2 DEF KnowsTheChain, RowsGrow, RowType, Gens
  <2>2. rows[r].sig > 0 => rows[r].gen \in Gens
    BY <1>1, InitialRecords DEF SettlementInv, RowsAreWhole, RowType, Gens
  <2>3. job[z].op = "complete" => \A a \in custody : Refunded(a, Final)'
    BY <1>1, <1>2, LandedStays DEF KnowsTheChain
  <2> QED
    BY <1>1, <1>2, <2>1, <2>2, <2>3 DEF KnowsTheChain, ChainGrows, Decided, OnChain
<1>4. KeepsTheOrder(job[z])'
  <2>1. \A a \in Assets, i \in 1..MaxAttempts :
          /\ Over(<<a, i>>) => Over(<<a, i>>)'
          /\ Landed(<<a, i>>, Final) => Landed(<<a, i>>, Final)'
    BY RowNames, LandedStays DEF RowsGrow
  <2>2. \A i \in 1..MaxAttempts : IsRefund(job[z].row) =>
          (Over(<<job[z].row[1], i>>) => Over(<<job[z].row[1], i>>)')
    BY <2>1 DEF IsRefund
  <2> QED
    BY <1>2, <2>1, <2>2 DEF KeepsTheOrder, IsRefund
<1> QED
  BY <1>3, <1>4

\* A step that takes nothing back keeps the invariant if the rows it writes are in order,
\* the processes that moved are sound and a final status is backed.
LEMMA StepKeeps ==
  ASSUME SettlementInv, TypeOK', UNCHANGED custody, ChainGrows, RowsGrow,
         RowsAreWhole', ClosedIsDecided', AttemptsInOrder',
         \A z \in Procs : \/ job'[z] = job[z]
                          \/ KnowsTheChain(job[z])' /\ KeepsTheOrder(job[z])',
         duel'.status = "SETTLED" => duel.status = "SETTLED" \/ Landed(Settle, Final),
         duel'.status = "REFUNDED" => \/ duel.status = "REFUNDED"
                                      \/ \A a \in custody : Refunded(a, Final)
  PROVE  SettlementInv'
<1>1. JobsAreSound'
  BY JobStays DEF JobsAreSound
<1>2. SettledIsBacked'
  BY LandedStays, RowNames DEF SettlementInv, SettledIsBacked
<1>3. RefundedIsBacked'
  BY LandedStays, Types DEF SettlementInv, RefundedIsBacked
<1> QED
  BY <1>1, <1>2, <1>3 DEF SettlementInv

-----------------------------------------------------------------------------
(***************************************************************************)
(* The attempts on one asset.                                              *)
(***************************************************************************)
\* The attempts on an asset are numbered without a gap.
LEMMA AttemptsAreFirst ==
  ASSUME SettlementInv, NEW a \in Assets
  PROVE  /\ Cardinality(Attempts(a)) \in 0..MaxAttempts
         /\ \A i \in 1..MaxAttempts : i <= Cardinality(Attempts(a)) => i \in Attempts(a)
<1>1. Attempts(a) \in SUBSET (1..MaxAttempts)
  BY DEF Attempts
<1>2. Cardinality(Attempts(a)) \in 0..MaxAttempts
  <2>1. IsFiniteSet(1..MaxAttempts) /\ Cardinality(1..MaxAttempts) = MaxAttempts
    BY SettlementConstants, FS_Interval
  <2>2. IsFiniteSet(Attempts(a)) /\ Cardinality(Attempts(a)) <= MaxAttempts
    BY <1>1, <2>1, FS_Subset
  <2> QED
    BY <2>2, SettlementConstants, FS_CardinalityType
<1>3. ASSUME NEW i \in 1..MaxAttempts, i \notin Attempts(a)
      PROVE  Cardinality(Attempts(a)) < i
  <2>1. ASSUME NEW k \in Attempts(a) PROVE k \in 1..(i - 1)
    <3>1. CASE k <= i
      BY <1>1, <1>3, <2>1, <3>1
    <3>2. CASE i < k
      <4>1. k \in 1..MaxAttempts /\ rows[<<a, k>>].st # "NONE"
        BY <2>1 DEF Attempts
      <4>2. Over(<<a, i>>)
        BY <3>2, <4>1 DEF SettlementInv, AttemptsInOrder
      <4> QED
        BY <1>3, <4>2 DEF Over, Attempts
    <3> QED
      BY <1>1, <3>1, <3>2, SettlementConstants
  <2>2. Attempts(a) \in SUBSET (1..(i - 1))
    BY <2>1
  <2>3. i - 1 \in Int /\ i - 1 >= 0
    BY SettlementConstants
  <2>4. IsFiniteSet(1..(i - 1)) /\ Cardinality(1..(i - 1)) = i - 1
    BY <2>3, FS_Interval
  <2>5. Cardinality(Attempts(a)) <= i - 1
    BY <2>2, <2>4, FS_Subset
  <2> QED
    BY <1>2, <2>5, SettlementConstants
<1> QED
  BY <1>2, <1>3, SettlementConstants

\* The next key names an attempt that no other one can still compete with: each earlier
\* attempt is over, or its transaction is final.
LEMMA NextKey ==
  ASSUME SettlementInv, NEW a \in Assets
  PROVE  /\ NextPreparationKey(a) \in -1..(MaxAttempts + 1)
         /\ \A i \in 1..MaxAttempts :
              i < NextPreparationKey(a) => Over(<<a, i>>) \/ Landed(<<a, i>>, Final)
<1> DEFINE active == CHOOSE k \in Attempts(a) : rows[<<a, k>>].st \in ACTIVE_REFUND_STATUSES
<1>1. CASE HasAttempt(a, ACTIVE_REFUND_STATUSES)
  <2>1. active \in 1..MaxAttempts /\ rows[<<a, active>>].st \in ACTIVE_REFUND_STATUSES
    BY <1>1 DEF HasAttempt, Attempts
  <2>2. \A i \in 1..MaxAttempts : i < active => Over(<<a, i>>)
    BY <2>1 DEF SettlementInv, AttemptsInOrder, ACTIVE_REFUND_STATUSES
  <2>3. NextPreparationKey(a) \in {active, 0}
    BY <1>1 DEF NextPreparationKey
  <2> HIDE DEF active
  <2> QED
    BY <2>1, <2>2, <2>3, SettlementConstants
<1>2. CASE ~HasAttempt(a, ACTIVE_REFUND_STATUSES) /\ HasAttempt(a, {"FINALIZED"})
  BY <1>2, SettlementConstants DEF NextPreparationKey
<1>3. CASE ~HasAttempt(a, ACTIVE_REFUND_STATUSES) /\ ~HasAttempt(a, {"FINALIZED"})
  <2>1. NextPreparationKey(a) = Cardinality(Attempts(a)) + 1
    BY <1>3 DEF NextPreparationKey
  <2>2. ASSUME NEW i \in 1..MaxAttempts, i < Cardinality(Attempts(a)) + 1
        PROVE  Over(<<a, i>>) \/ Landed(<<a, i>>, Final)
    <3> DEFINE r == <<a, i>>
    <3>1. i \in Attempts(a)
      BY <2>2, AttemptsAreFirst
    <3>2. r \in Rows /\ rows[r] \in RowType /\ rows[r].st # "NONE"
      BY <3>1, RowNames, Types DEF SettlementInv, Attempts
    <3>3. rows[r].st \in {"EXPIRED", "FAILED"}
      BY <1>3, <3>1, <3>2 DEF HasAttempt, ACTIVE_REFUND_STATUSES, RowType, RowStatuses
    <3>4. CASE rows[r].sig > 0 /\ Verified(r)
      <4>1. chain[r][rows[r].sig] \in Decided /\ rows[r].sig \in Gens
        BY <3>2, <3>3, <3>4 DEF SettlementInv, ClosedIsDecided, ACTIVE_STATUSES, RowType,
           Gens
      <4>2. CASE chain[r][rows[r].sig] = "finalized"
        BY <4>1, <4>2 DEF Landed, Final
      <4>3. CASE chain[r][rows[r].sig] # "finalized"
        BY <3>3, <4>1, <4>3 DEF Over, Decided, OnChain
      <4> QED
        BY <4>2, <4>3
    <3>5. CASE ~(rows[r].sig > 0 /\ Verified(r))
      BY <3>3, <3>5 DEF Over
    <3> QED
      BY <3>4, <3>5
  <2> QED
    BY <2>1, <2>2, AttemptsAreFirst, SettlementConstants
<1> QED
  BY <1>1, <1>2, <1>3

-----------------------------------------------------------------------------
(***************************************************************************)
(* Steps that write no row and send nothing.                               *)
(***************************************************************************)
\* Nothing that could be taken back has moved.
LEMMA Unmoved ==
  ASSUME SettlementInv, UNCHANGED <<rows, chain>>
  PROVE  /\ ChainGrows /\ RowsGrow /\ RowsAreWhole' /\ ClosedIsDecided' /\ AttemptsInOrder'
<1>1. ChainGrows
  BY DEF ChainGrows
<1>2. \A r \in Rows : Over(r) => Over(r)'
  BY <1>1, OverStays
<1>3. RowsGrow
  BY <1>2 DEF RowsGrow
<1>4. RowsAreWhole' /\ ClosedIsDecided'
  BY DEF SettlementInv, RowsAreWhole, ClosedIsDecided, Verified
<1>5. AttemptsInOrder'
  BY <1>2, RowNames DEF SettlementInv, AttemptsInOrder
<1> QED
  BY <1>1, <1>3, <1>4, <1>5

\* A step of one process that only reads, or moves the duel.
LEMMA JobStep ==
  ASSUME SettlementInv, UNCHANGED <<rows, chain, expired, faults>>, UNCHANGED world,
         duel' \in DuelType,
         duel'.status = "SETTLED" => duel.status = "SETTLED" \/ Landed(Settle, Final),
         duel'.status = "REFUNDED" => \/ duel.status = "REFUNDED"
                                      \/ \A a \in custody : Refunded(a, Final),
         NEW p \in Procs, NEW y \in JobType, job' = [job EXCEPT ![p] = y],
         KnowsTheChain(y), KeepsTheOrder(y)
  PROVE  SettlementInv'
<1>1. /\ job' \in [Procs -> JobType] /\ job'[p] = y
      /\ \A z \in Procs : z # p => job'[z] = job[z]
  BY Types DEF SettlementInv
<1>2. TypeOK'
  BY <1>1, Types DEF SettlementInv, TypeOK, world, DuelType, RowType, JobType
<1>3. KnowsTheChain(job[p])'
  BY <1>1 DEF KnowsTheChain, world, Refunded, Landed
<1>4. KeepsTheOrder(job[p])'
  BY <1>1 DEF KeepsTheOrder, Over, Verified, Landed, IsRefund
<1> QED
  BY <1>1, <1>2, <1>3, <1>4, Unmoved, StepKeeps DEF world

\* A process that holds nothing it has read.
LEMMA Harmless ==
  ASSUME NEW y \in JobType, y.op \in {"idle", "route", "alert"}
  PROVE  KnowsTheChain(y) /\ KeepsTheOrder(y)
  BY DEF KnowsTheChain, KeepsTheOrder

\* The duel's row read by a guarded update.
LEMMA MoveFromType ==
  ASSUME SettlementInv, NEW from \in DuelStatuses, NEW to \in DuelStatuses,
         MoveFrom(from, to)
  PROVE  /\ duel' \in DuelType
         /\ duel'.status # duel.status => duel.status = from /\ duel'.status = to
  BY Types DEF SettlementInv, MoveFrom, DuelType

\* A request or a pass that begins.
LEMMA BeginSettleStep ==
  ASSUME SettlementInv, NEW p \in Procs, NEW r \in {Commit, Settle}, BeginSettle(p, r)
  PROVE  SettlementInv'
<1> DEFINE y == [Idle EXCEPT !.op = "persist", !.row = r]
<1>1. y \in JobType /\ y.op = "persist" /\ y.row = r /\ y.todo = Nothing
  BY RowNames, InitialRecords DEF JobType, Ops
<1>2. job' = [job EXCEPT ![p] = y] /\ UNCHANGED <<duel, rows, chain, expired, faults>>
      /\ UNCHANGED world
  BY DEF BeginSettle
<1> HIDE DEF y
<1>3. KnowsTheChain(y)
  BY <1>1 DEF KnowsTheChain
<1>4. KeepsTheOrder(y)
  BY <1>1, RowNames, SettlementConstants DEF KeepsTheOrder, Nothing
<1> QED
  BY <1>1, <1>2, <1>3, <1>4, JobStep, Types DEF SettlementInv

LEMMA ReadRefundingStep ==
  ASSUME SettlementInv, NEW p \in Procs, ReadRefunding(p)
  PROVE  SettlementInv'
<1> DEFINE todo == [a \in Assets |-> NextPreparationKey(a)]
           y == [Idle EXCEPT !.op = "escrow", !.proved = AllProved, !.todo = todo]
<1>1. todo \in [Assets -> -1..(MaxAttempts + 1)]
      /\ \A a \in Assets, i \in 1..MaxAttempts :
           i < todo[a] => Over(<<a, i>>) \/ Landed(<<a, i>>, Final)
  BY NextKey
<1>2. AllProved \in BOOLEAN
  BY DEF AllProved
<1>3. job' = [job EXCEPT ![p] = y] /\ UNCHANGED <<duel, rows, chain, expired, faults>>
      /\ UNCHANGED world
  BY DEF ReadRefunding
<1> HIDE DEF todo
<1>4. y \in JobType /\ y.op = "escrow" /\ y.todo = todo
  BY <1>1, <1>2, InitialRecords DEF JobType, Ops
<1> HIDE DEF y
<1>5. KnowsTheChain(y)
  BY <1>4 DEF KnowsTheChain
<1>6. KeepsTheOrder(y)
  BY <1>1, <1>4 DEF KeepsTheOrder
<1> QED
  BY <1>3, <1>4, <1>5, <1>6, JobStep, Types DEF SettlementInv

\* What readState finds held has not been refunded; what it does not find held has.
LEMMA ReadStateStep ==
  ASSUME SettlementInv, NEW p \in Procs, ReadState(p)
  PROVE  SettlementInv'
<1> DEFINE j == job[p]
           held == {a \in Assets : Held(a, Final)}
           todo == [a \in Assets |-> IF a \in held THEN j.todo[a] ELSE 0]
           routed == [Idle EXCEPT !.op = "route"]
           complete == [Idle EXCEPT !.op = "complete"]
           waiting == [j EXCEPT !.op = "assets", !.proved = FALSE, !.todo = todo]
<1>1. /\ j.op = "escrow" /\ j \in JobType /\ KeepsTheOrder(j)
      /\ UNCHANGED <<duel, rows, chain, expired, faults>> /\ UNCHANGED world
      /\ duel \in DuelType
  BY Types DEF SettlementInv, JobsAreSound, ReadState
<1>2. CASE job' = [job EXCEPT ![p] = routed] \/ job' = [job EXCEPT ![p] = Idle]
  <2>1. routed \in JobType /\ routed.op = "route"
    BY InitialRecords DEF JobType, Ops
  <2> HIDE DEF routed
  <2> QED
    BY <1>1, <1>2, <2>1, InitialRecords, Harmless, JobStep
<1>3. CASE job' = [job EXCEPT ![p] = complete] /\ held = {} /\ ~Landed(Settle, Final)
  <2>1. complete \in JobType /\ complete.op = "complete" /\ complete.todo = Nothing
    BY InitialRecords DEF JobType, Ops
  <2>2. \A a \in custody : Refunded(a, Final)
    BY <1>3, Types DEF SettlementInv, Held
  <2> HIDE DEF complete
  <2>3. KnowsTheChain(complete) /\ KeepsTheOrder(complete)
    BY <2>1, <2>2 DEF KnowsTheChain, KeepsTheOrder
  <2> QED
    BY <1>1, <1>3, <2>1, <2>3, JobStep
<1>4. CASE job' = [job EXCEPT ![p] = waiting]
  <2>1. todo \in [Assets -> -1..(MaxAttempts + 1)]
    BY <1>1, SettlementConstants DEF JobType
  <2>2. \A a \in Assets, i \in 1..MaxAttempts : i < todo[a] => Over(<<a, i>>)
    <3> SUFFICES ASSUME NEW a \in Assets, NEW i \in 1..MaxAttempts, i < todo[a]
                 PROVE  Over(<<a, i>>)
      OBVIOUS
    <3>1. a \in held /\ todo[a] = j.todo[a]
      BY SettlementConstants
    <3>2. Over(<<a, i>>) \/ Landed(<<a, i>>, Final)
      BY <1>1, <3>1 DEF KeepsTheOrder
    <3>3. ~Landed(<<a, i>>, Final)
      BY <3>1 DEF Held, Refunded
    <3> QED
      BY <3>2, <3>3
  <2> HIDE DEF todo
  <2>3. waiting \in JobType /\ waiting.op = "assets" /\ waiting.todo = todo
    BY <1>1, <2>1 DEF JobType, Ops
  <2> HIDE DEF waiting
  <2>4. KnowsTheChain(waiting) /\ KeepsTheOrder(waiting)
    BY <2>2, <2>3 DEF KnowsTheChain, KeepsTheOrder
  <2> QED
    BY <1>1, <1>4, <2>3, <2>4, JobStep
<1> QED
  BY <1>2, <1>3, <1>4 DEF ReadState

\* The pass goes on to a planned attempt, behind attempts that are over.
LEMMA RefundNextStep ==
  ASSUME SettlementInv, NEW p \in Procs, RefundNext(p)
  PROVE  SettlementInv'
<1> DEFINE j == job[p]
<1>1. /\ j.op = "assets" /\ j \in JobType /\ KeepsTheOrder(j)
      /\ UNCHANGED <<duel, rows, chain, expired, faults>> /\ UNCHANGED world
      /\ duel \in DuelType
  BY Types DEF SettlementInv, JobsAreSound, RefundNext
<1>2. CASE job' = [job EXCEPT ![p] = Idle]
  BY <1>1, <1>2, InitialRecords, Harmless, JobStep
<1>3. ASSUME NEW a \in Assets, j.todo[a] \in 1..MaxAttempts,
             job' = [job EXCEPT ![p] = [j EXCEPT !.op = "persist", !.row = <<a, j.todo[a]>>,
                                                 !.todo[a] = 0]]
      PROVE  SettlementInv'
  <2> DEFINE r == <<a, j.todo[a]>>
             todo == [j.todo EXCEPT ![a] = 0]
             y == [j EXCEPT !.op = "persist", !.row = r, !.todo = todo]
  <2>1. todo \in [Assets -> -1..(MaxAttempts + 1)]
        /\ \A b \in Assets : todo[b] = j.todo[b] \/ todo[b] = 0
    BY <1>1, SettlementConstants DEF JobType
  <2>2. r \in Rows /\ r[1] = a /\ r[2] = j.todo[a]
    BY <1>3, RowNames
  <2>3. job' = [job EXCEPT ![p] = y]
    BY <1>3
  <2> HIDE DEF r, todo
  <2>4. y \in JobType /\ y.op = "persist" /\ y.row = r /\ y.todo = todo
    BY <1>1, <2>1, <2>2 DEF JobType, Ops
  <2> HIDE DEF y
  <2>5. KnowsTheChain(y)
    BY <2>4 DEF KnowsTheChain
  <2>6. KeepsTheOrder(y)
    BY <1>1, <2>1, <2>2, <2>4, SettlementConstants DEF KeepsTheOrder
  <2> QED
    BY <1>1, <2>3, <2>4, <2>5, <2>6, JobStep
<1>4. \A i \in DOMAIN AssetOrder : AssetOrder[i] \in Assets
  BY DEF Assets, Range
<1> QED
  BY <1>2, <1>3, <1>4 DEF RefundNext, Stop

\* The guarded updates of the orchestrator, and what they rest on.
LEMMA RouteStep ==
  ASSUME SettlementInv, NEW p \in Procs, RouteToSettlement(p) \/ Complete(p)
  PROVE  SettlementInv'
<1>1. /\ UNCHANGED <<rows, chain, expired, faults>> /\ UNCHANGED world
      /\ job' = [job EXCEPT ![p] = Idle]
  BY DEF RouteToSettlement, Complete, Stop
<1>2. CASE RouteToSettlement(p)
  <2>1. MoveFrom("REFUNDING", "SETTLING")
    BY <1>2 DEF RouteToSettlement
  <2>2. "REFUNDING" \in DuelStatuses /\ "SETTLING" \in DuelStatuses
    BY DEF DuelStatuses
  <2>3. duel' \in DuelType
        /\ (duel'.status # duel.status => duel'.status = "SETTLING")
    BY <2>1, <2>2, MoveFromType
  <2> QED
    BY <1>1, <2>3, InitialRecords, Harmless, JobStep
<1>3. CASE Complete(p)
  <2>1. MoveFrom("REFUNDING", "REFUNDED") /\ \A a \in custody : Refunded(a, Final)
    BY <1>3 DEF Complete, SettlementInv, JobsAreSound, KnowsTheChain
  <2>2. "REFUNDING" \in DuelStatuses /\ "REFUNDED" \in DuelStatuses
    BY DEF DuelStatuses
  <2>3. duel' \in DuelType
        /\ (duel'.status # duel.status => duel'.status = "REFUNDED")
    BY <2>1, <2>2, MoveFromType
  <2> QED
    BY <1>1, <2>1, <2>3, InitialRecords, Harmless, JobStep
<1> QED
  BY <1>2, <1>3

\* The monitor asks for the status of a bound signature.
LEMMA ReadStatusStep ==
  ASSUME SettlementInv, NEW p \in Procs, NEW r \in Rows, ReadStatus(p, r)
  PROVE  SettlementInv'
<1> DEFINE c == chain[r][rows[r].sig]
           saw == SignatureStatus(r)
           y == [Idle EXCEPT !.op = "seen", !.row = r, !.saw = saw]
<1>1. /\ Pending(r) /\ UNCHANGED <<duel, rows, chain, expired, faults>> /\ UNCHANGED world
      /\ job' = [job EXCEPT ![p] = y] /\ duel \in DuelType
  BY Types DEF SettlementInv, ReadStatus
<1>2. rows[r].sig > 0
  BY <1>1, Types DEF SettlementInv, RowsAreWhole, Pending, Recoverable
<1>3. /\ saw \in {"null", "err", "confirmed", "finalized"}
      /\ saw = "confirmed" => c \in OnChain
      /\ saw = "finalized" => c = "finalized"
      /\ saw = "err" => c = "error"
  BY DEF SignatureStatus, OnChain
<1> HIDE DEF saw
<1>4. y \in JobType /\ y.op = "seen" /\ y.row = r /\ y.saw = saw /\ y.todo = Nothing
  BY <1>3, InitialRecords DEF JobType, Ops
<1> HIDE DEF y
<1>5. KnowsTheChain(y) /\ KeepsTheOrder(y)
  BY <1>2, <1>3, <1>4 DEF KnowsTheChain, KeepsTheOrder
<1> QED
  BY <1>1, <1>4, <1>5, JobStep

\* It goes on with a missing signature only above the last valid height of the message.
LEMMA LoadRowStep ==
  ASSUME SettlementInv, NEW p \in Procs, LoadRow(p)
  PROVE  SettlementInv'
<1> DEFINE j == job[p]
           r == j.row
           y == [j EXCEPT !.op = "record", !.from = duel.status, !.recover = Recoverable(r)]
<1>1. /\ j.op = "seen" /\ j \in JobType /\ KnowsTheChain(j) /\ r \in Rows
      /\ UNCHANGED <<duel, rows, chain, expired, faults>> /\ UNCHANGED world
      /\ duel \in DuelType /\ duel.status \in DuelStatuses
  BY Types DEF SettlementInv, JobsAreSound, LoadRow, JobType, DuelType
<1>2. CASE job' = [job EXCEPT ![p] = Idle]
  BY <1>1, <1>2, InitialRecords, Harmless, JobStep
<1>3. ASSUME NEW h \in Heights(chain[r][rows[r].gen]), j.saw = "null" => h > 0,
             job' = [job EXCEPT ![p] = y]
      PROVE  SettlementInv'
  <2>1. j.saw = "null" => chain[r][rows[r].gen] \in Decided
    BY <1>3 DEF Heights, Decided
  <2>2. Recoverable(r) \in BOOLEAN
    BY <1>1, Types DEF SettlementInv, RowType, Recoverable
  <2>3. y \in JobType
    BY <1>1, <2>2 DEF JobType, Ops
  <2>4. y.op = "record" /\ y.row = r /\ y.saw = j.saw /\ y.from = duel.status
    BY <1>1 DEF JobType
  <2> HIDE DEF y
  <2>5. KnowsTheChain(y) /\ KeepsTheOrder(y)
    BY <1>1, <2>1, <2>4 DEF KnowsTheChain, KeepsTheOrder
  <2> QED
    BY <1>1, <1>3, <2>3, <2>5, JobStep
<1> QED
  BY <1>2, <1>3 DEF LoadRow, Stop

\* The worker looks for the message of a prepared row.
LEMMA BeginRecoveryStep ==
  ASSUME SettlementInv, NEW p \in Procs, NEW r \in Rows, BeginRecovery(p, r)
  PROVE  SettlementInv'
<1>1. /\ rows[r] \in RowType /\ rows[r].st = "PREPARED" /\ rows[r].gen > 0
      /\ UNCHANGED <<duel, rows, chain, expired, faults>> /\ UNCHANGED world
      /\ duel \in DuelType /\ duel.status \in DuelStatuses
  BY Types DEF SettlementInv, RowsAreWhole, BeginRecovery, DuelType
<1>2. PICK h \in Heights(chain[r][rows[r].gen]) :
        job' = [job EXCEPT ![p] = [Idle EXCEPT !.op = "scan", !.row = r, !.gen = rows[r].gen,
                                                !.saw = duel.status, !.height = h]]
  BY DEF BeginRecovery
<1>3. h \in 0..2
  BY DEF Heights
<1> DEFINE g == rows[r].gen
           s == duel.status
           y == [Idle EXCEPT !.op = "scan", !.row = r, !.gen = g, !.saw = s, !.height = h]
<1>4. g \in 0..MaxGens /\ s \in DuelStatuses
  BY <1>1 DEF RowType
<1>5. job' = [job EXCEPT ![p] = y]
  BY <1>2
<1> HIDE DEF g, s
<1>6. y \in JobType /\ y.op = "scan" /\ y.gen = g
  <2> DEFINE u == [Idle EXCEPT !.op = "scan", !.row = r, !.gen = g]
  <2>1. u \in JobType /\ u.op = "scan" /\ u.gen = g /\ y = [u EXCEPT !.saw = s, !.height = h]
    BY <1>4, InitialRecords DEF JobType, Ops
  <2> HIDE DEF u
  <2> QED
    BY <1>3, <1>4, <2>1 DEF JobType
<1> HIDE DEF y
<1>7. KnowsTheChain(y) /\ KeepsTheOrder(y)
  BY <1>1, <1>6 DEF KnowsTheChain, KeepsTheOrder, g
<1> QED
  BY <1>1, <1>5, <1>6, <1>7, JobStep

LEMMA ScanFoundStep ==
  ASSUME SettlementInv, NEW p \in Procs, ScanFound(p)
  PROVE  SettlementInv'
<1> DEFINE j == job[p]
           next == IF j.saw = From(j.row) THEN "bindFound" ELSE "alert"
           y == [j EXCEPT !.saw = "nothing", !.height = 0, !.op = next]
<1>1. /\ j.op = "scan" /\ j \in JobType /\ j.gen > 0
      /\ UNCHANGED <<duel, rows, chain, expired, faults>> /\ UNCHANGED world
      /\ job' = [job EXCEPT ![p] = y] /\ duel \in DuelType
  BY Types DEF SettlementInv, JobsAreSound, KnowsTheChain, ScanFound
<1>2. next \in {"bindFound", "alert"} /\ next \in Ops
  BY DEF Ops
<1> HIDE DEF next
<1>3. y \in JobType /\ y.op = next /\ y.gen = j.gen
  <2> DEFINE u == [j EXCEPT !.saw = "nothing"]
             v == [u EXCEPT !.height = 0]
  <2>1. j \in JobType
    BY <1>1
  <2> HIDE DEF j
  <2>2. u \in JobType /\ u.gen = j.gen
    BY <2>1 DEF JobType
  <2>3. y = [v EXCEPT !.op = next]
    OBVIOUS
  <2> HIDE DEF u
  <2>4. v \in JobType /\ v.gen = j.gen
    BY <2>2 DEF JobType
  <2> HIDE DEF v
  <2> QED
    BY <1>2, <2>3, <2>4 DEF JobType
<1> HIDE DEF y
<1>4. KnowsTheChain(y) /\ KeepsTheOrder(y)
  BY <1>1, <1>2, <1>3 DEF KnowsTheChain, KeepsTheOrder
<1> QED
  BY <1>1, <1>3, <1>4, JobStep

-----------------------------------------------------------------------------
(***************************************************************************)
(* Steps of one process that write one row.                                *)
(***************************************************************************)
Closed == {"EXPIRED", "FAILED", "FINALIZED"}

\* Row r may become x: a bound message stays, a row that is over stays over, a row is closed
\* over a decided message, and a new attempt comes after the others.
RowMay(r, x) ==
  /\ x.st # "NONE" /\ x.gen > 0
  /\ x.st = "PREPARED" => x.sig = 0
  /\ x.access => x.sig > 0
  /\ x.st \in ACTIVE_STATUSES \cup {"FINALIZED"} => x.sig > 0
  /\ rows[r].sig > 0 => x.sig = rows[r].sig /\ x.gen = rows[r].gen
  /\ x.sig > 0 /\ x.sig = x.gen /\ x.st \notin ACTIVE_STATUSES => chain[r][x.sig] \in Decided
  /\ Over(r) => x.st \in Closed /\ x.sig = rows[r].sig /\ x.gen = rows[r].gen
  /\ rows[r].st = "NONE" /\ IsRefund(r) =>
       \A i \in 1..MaxAttempts : i < r[2] => Over(<<r[1], i>>)

\* Process p may go on as y.
JobMay(p, y) ==
  /\ y.op \in {"idle", "send", "assets"}
  /\ y.op = "send" => y.gen > 0
  /\ y.op # "idle" => y.todo = job[p].todo /\ job[p].op \in {"persist", "bind"}

\* The duel does not become settled or refunded without its backing.
DuelMay == /\ duel' \in DuelType
           /\ duel'.status = "SETTLED" => duel.status = "SETTLED" \/ Landed(Settle, Final)
           /\ duel'.status = "REFUNDED" => duel.status = "REFUNDED"

LEMMA RowStep ==
  ASSUME SettlementInv, UNCHANGED <<chain, expired, faults>>, UNCHANGED world, DuelMay,
         NEW r \in Rows, NEW x \in RowType, rows' = [rows EXCEPT ![r] = x], RowMay(r, x),
         NEW p \in Procs, NEW y \in JobType, job' = [job EXCEPT ![p] = y], JobMay(p, y)
  PROVE  SettlementInv'
<1> USE DEF RowMay, JobMay, DuelMay
<1>1. /\ rows \in [Rows -> RowType] /\ rows' \in [Rows -> RowType] /\ rows'[r] = x
      /\ \A q \in Rows : q # r => rows'[q] = rows[q]
  BY Types DEF SettlementInv
<1>2. /\ job' \in [Procs -> JobType] /\ job'[p] = y
      /\ \A z \in Procs : z # p => job'[z] = job[z]
  BY Types DEF SettlementInv
<1>3. ChainGrows
  BY DEF ChainGrows
<1>4. RowsGrow
  <2>1. Over(r) => Over(r)'
    BY <1>1 DEF Over, Verified, Closed
  <2>2. ASSUME NEW q \in Rows, q # r, Over(q) PROVE Over(q)'
    BY <1>1, <1>3, <2>2, OverStays
  <2> QED
    BY <1>1, <2>1, <2>2 DEF RowsGrow
<1>5. RowsAreWhole'
  BY <1>1 DEF SettlementInv, RowsAreWhole
<1>6. ClosedIsDecided'
  BY <1>1 DEF SettlementInv, ClosedIsDecided, Verified
<1>7. AttemptsInOrder'
  <2> SUFFICES ASSUME NEW a \in Assets, NEW k \in 1..MaxAttempts,
                      rows'[<<a, k>>].st # "NONE", NEW i \in 1..MaxAttempts, i < k
               PROVE  Over(<<a, i>>)'
    BY DEF AttemptsInOrder
  <2>1. <<a, k>> \in Rows /\ <<a, i>> \in Rows /\ IsRefund(<<a, k>>)
    BY RowNames
  <2>2. Over(<<a, i>>)
    <3>1. CASE rows[<<a, k>>].st # "NONE"
      BY <3>1 DEF SettlementInv, AttemptsInOrder
    <3>2. CASE rows[<<a, k>>].st = "NONE"
      BY <1>1, <2>1, <3>2
    <3> QED
      BY <3>1, <3>2
  <2> QED
    BY <1>4, <2>1, <2>2 DEF RowsGrow
<1>8. TypeOK'
  <2>1. \A q \in Rows : rows'[q].st \in ACTIVE_STATUSES \cup {"FINALIZED"} => rows'[q].sig > 0
    BY <1>1, Types DEF SettlementInv
  <2> QED
    BY <1>1, <1>2, <2>1, Types DEF SettlementInv, TypeOK, world, DuelType, RowType, JobType
<1>9. KnowsTheChain(job[p])' /\ KeepsTheOrder(job[p])'
  <2>1. KnowsTheChain(job[p])'
    BY <1>2 DEF KnowsTheChain
  <2>2. \A a \in Assets, i \in 1..MaxAttempts : Over(<<a, i>>) => Over(<<a, i>>)'
    BY <1>4, RowNames DEF RowsGrow
  <2>3. KeepsTheOrder(job[p])
    BY DEF SettlementInv, JobsAreSound
  <2> QED
    BY <1>2, <2>1, <2>2, <2>3 DEF KeepsTheOrder
<1> QED
  BY <1>2, <1>3, <1>4, <1>5, <1>6, <1>7, <1>8, <1>9, StepKeeps DEF world

\* A process that has stopped.
LEMMA Stopped == \A p \in Procs : JobMay(p, Idle)
  BY InitialRecords DEF JobMay

\* The message of a process: a new row, a new message of a cleared row, or the row as it is.
LEMMA PersistStep ==
  ASSUME SettlementInv, NEW p \in Procs, PersistTrackedIntent(p)
  PROVE  SettlementInv'
<1> DEFINE j == job[p]
           r == j.row
           row == rows[r]
           y(g) == [j EXCEPT !.op = "send", !.gen = g]
<1>1. /\ j.op = "persist" /\ j \in JobType /\ r \in Rows /\ row \in RowType
      /\ UNCHANGED <<duel, chain, expired, faults>> /\ UNCHANGED world
      /\ duel \in DuelType /\ DuelMay /\ job \in [Procs -> JobType]
  BY Types DEF SettlementInv, JobsAreSound, PersistTrackedIntent, JobType, DuelMay
<1>2. /\ row.st # "NONE" => row.gen > 0
      /\ row.st = "PREPARED" => row.sig = 0
      /\ row.access => row.sig > 0
      /\ row.st = "NONE" => row = NoRow
  BY <1>1 DEF SettlementInv, RowsAreWhole
<1>3. row.st = "NONE" /\ IsRefund(r) =>
        \A i \in 1..MaxAttempts : i < r[2] => Over(<<r[1], i>>)
  BY <1>1 DEF SettlementInv, JobsAreSound, KeepsTheOrder
<1>4. ASSUME NEW g \in 1..MaxGens PROVE y(g) \in JobType /\ JobMay(p, y(g))
  <2>1. j \in JobType /\ j.op = "persist" /\ job[p] = j /\ g \in 0..MaxGens /\ g > 0
    BY <1>1, SettlementConstants
  <2> HIDE DEF j
  <2>2. y(g) \in JobType /\ y(g).op = "send" /\ y(g).gen = g /\ y(g).todo = j.todo
    BY <2>1 DEF JobType, Ops
  <2> HIDE DEF y
  <2> QED
    BY <2>1, <2>2 DEF JobMay
<1>5. CASE /\ row.st = "NONE"
           /\ rows' = [rows EXCEPT ![r] = [NoRow EXCEPT !.st = "PREPARED", !.gen = 1]]
           /\ job' = [job EXCEPT ![p] = y(1)]
  <2> DEFINE x == [NoRow EXCEPT !.st = "PREPARED", !.gen = 1]
  <2>1. x \in RowType /\ x.st = "PREPARED" /\ x.gen = 1 /\ x.sig = 0 /\ ~x.access
    <3>1. "PREPARED" \in RowStatuses /\ 1 \in 0..MaxGens
      BY SettlementConstants DEF RowStatuses
    <3> QED
      BY <3>1, InitialRecords DEF RowType
  <2>2. 1 \in 1..MaxGens /\ row.sig = 0 /\ ~Over(r)
    BY <1>2, <1>5, InitialRecords, SettlementConstants DEF Over
  <2>3. rows' = [rows EXCEPT ![r] = x]
    BY <1>5
  <2> HIDE DEF x
  <2>4. RowMay(r, x)
    BY <1>3, <2>1, <2>2 DEF RowMay, ACTIVE_STATUSES
  <2> HIDE DEF y, j, r
  <2> QED
    BY <1>1, <1>4, <1>5, <2>1, <2>2, <2>3, <2>4, RowStep
<1>6. CASE /\ Renewable(row) /\ row.gen < MaxGens
           /\ rows' = [rows EXCEPT ![r] = [row EXCEPT !.gen = row.gen + 1, !.checked = FALSE]]
           /\ job' = [job EXCEPT ![p] = y(row.gen + 1)]
  <2> DEFINE g == row.gen + 1
             x == [row EXCEPT !.gen = g, !.checked = FALSE]
  <2>1. row.st = "PREPARED" /\ row.sig = 0 /\ ~row.access /\ ~Over(r) /\ row \in RowType
    BY <1>1, <1>2, <1>6 DEF Renewable, RowType, Over
  <2>2. g \in 1..MaxGens /\ g \in 0..MaxGens /\ g > 0
    BY <1>1, <1>6, SettlementConstants DEF RowType
  <2>3. rows' = [rows EXCEPT ![r] = x] /\ job' = [job EXCEPT ![p] = y(g)]
    BY <1>6
  <2> HIDE DEF g, row
  <2>4. x \in RowType /\ x.st = "PREPARED" /\ x.gen = g /\ x.sig = 0 /\ ~x.access
    BY <2>1, <2>2 DEF RowType
  <2> HIDE DEF x
  <2>5. RowMay(r, x)
    BY <2>1, <2>2, <2>4 DEF RowMay, ACTIVE_STATUSES, row
  <2> HIDE DEF y, j, r
  <2> QED
    BY <1>1, <1>4, <2>2, <2>3, <2>4, <2>5, RowStep
<1>7. CASE /\ row.st = "PREPARED"
           /\ rows' = [rows EXCEPT ![r] = row]
           /\ job' = [job EXCEPT ![p] = y(row.gen)]
  <2>1. row.gen \in 1..MaxGens
    BY <1>1, <1>2, <1>7, SettlementConstants DEF RowType
  <2>2. RowMay(r, row)
    BY <1>2, <1>7 DEF RowMay, Over, ACTIVE_STATUSES
  <2>3. y(row.gen) \in JobType /\ JobMay(p, y(row.gen))
    BY <1>4, <2>1
  <2> HIDE DEF y, j, r, row
  <2> QED
    BY <1>1, <1>7, <2>2, <2>3, RowStep
<1>8. CASE UNCHANGED rows /\ job' = [job EXCEPT ![p] = Idle]
  BY <1>1, <1>8, InitialRecords, Harmless, JobStep DEF DuelMay
<1>9. \A g : [job EXCEPT ![p].op = "send", ![p].gen = g] = [job EXCEPT ![p] = y(g)]
  BY <1>1
<1>10. [NoRow EXCEPT !.st = "PREPARED", !.gen = 1].gen = 1
      /\ [row EXCEPT !.gen = row.gen + 1, !.checked = FALSE].gen = row.gen + 1
  BY <1>1 DEF NoRow, RowType
<1> HIDE DEF y
<1> QED
  BY <1>5, <1>6, <1>7, <1>8, <1>9, <1>10 DEF PersistTrackedIntent, Stop

\* Binding a signature to a prepared row.
LEMMA BoundRow ==
  ASSUME SettlementInv, NEW r \in Rows, NEW g \in 1..MaxGens, rows[r].st = "PREPARED"
  PROVE  \E x \in RowType : RowMay(r, x) /\ Bound(r, g) = [rows EXCEPT ![r] = x]
<1> DEFINE row == rows[r]
           x == [row EXCEPT !.st = "SUBMITTED", !.sig = g, !.alert = FALSE]
<1>1. rows \in [Rows -> RowType] /\ row \in RowType /\ row.gen > 0 /\ row.sig = 0 /\ ~Over(r)
  BY Types DEF SettlementInv, RowsAreWhole, Over
<1>2. Bound(r, g) = [rows EXCEPT ![r] = x]
  BY <1>1 DEF Bound
<1>3. "SUBMITTED" \in RowStatuses /\ g \in 0..MaxGens /\ g > 0
  BY SettlementConstants DEF RowStatuses
<1> HIDE DEF row
<1>4. x \in RowType /\ x.st = "SUBMITTED" /\ x.gen = row.gen /\ x.sig = g
  BY <1>1, <1>3 DEF RowType
<1> HIDE DEF x
<1>5. RowMay(r, x)
  BY <1>1, <1>3, <1>4 DEF RowMay, ACTIVE_STATUSES, row
<1> QED
  BY <1>2, <1>4, <1>5

\* The answer of a broadcast is bound, or the row is in other hands by now.
LEMMA BindSubmissionStep ==
  ASSUME SettlementInv, NEW p \in Procs, BindSubmission(p)
  PROVE  SettlementInv'
<1> DEFINE j == job[p]
           r == j.row
           next == [j EXCEPT !.op = "assets"]
<1>1. /\ j.op = "bind" /\ j \in JobType /\ r \in Rows /\ j.gen \in 1..MaxGens
      /\ UNCHANGED <<duel, chain, expired, faults>> /\ UNCHANGED world
      /\ duel \in DuelType /\ DuelMay /\ job \in [Procs -> JobType] /\ KeepsTheOrder(j)
  BY Types DEF SettlementInv, JobsAreSound, KnowsTheChain, BindSubmission, JobType, DuelMay
<1>2. next \in JobType /\ next.op = "assets" /\ next.todo = j.todo /\ job[p] = j
  <2>1. j \in JobType /\ "assets" \in Ops
    BY <1>1 DEF Ops
  <2> HIDE DEF j
  <2>2. next \in JobType /\ next.op = "assets" /\ next.todo = j.todo
    BY <2>1 DEF JobType
  <2> QED
    BY <2>2 DEF j
<1>3. /\ KnowsTheChain(next) /\ KeepsTheOrder(next) /\ JobMay(p, next)
  <2> HIDE DEF next, j
  <2>1. KnowsTheChain(next)
    BY <1>2 DEF KnowsTheChain
  <2>2. KeepsTheOrder(next)
    BY <1>1, <1>2 DEF KeepsTheOrder
  <2>3. JobMay(p, next)
    BY <1>1, <1>2 DEF JobMay
  <2> QED
    BY <2>1, <2>2, <2>3
<1>4. job' = [job EXCEPT ![p] = next] \/ job' = [job EXCEPT ![p] = Idle]
  BY <1>1 DEF BindSubmission, Goto, Stop
<1>5. CASE MayBind(r) /\ rows' = Bound(r, j.gen)
  <2>1. PICK x \in RowType : RowMay(r, x) /\ rows' = [rows EXCEPT ![r] = x]
    BY <1>1, <1>5, BoundRow DEF MayBind
  <2> HIDE DEF next, j, r
  <2> QED
    BY <1>1, <1>2, <1>3, <1>4, <2>1, Stopped, InitialRecords, RowStep
<1>6. CASE UNCHANGED rows
  <2> HIDE DEF next, j, r
  <2> QED
    BY <1>1, <1>2, <1>3, <1>4, <1>6, Harmless, InitialRecords, JobStep DEF DuelMay
<1> QED
  BY <1>5, <1>6 DEF BindSubmission

\* A scan that found the message of a row binds it, or goes on to the alert.
LEMMA BindRecoveredStep ==
  ASSUME SettlementInv, NEW p \in Procs, BindRecovered(p)
  PROVE  SettlementInv'
<1> DEFINE j == job[p]
           r == j.row
           next == [j EXCEPT !.op = "alert"]
<1>1. /\ j.op = "bindFound" /\ j \in JobType /\ r \in Rows /\ j.gen \in 1..MaxGens
      /\ UNCHANGED <<duel, chain, expired, faults>> /\ UNCHANGED world
      /\ duel \in DuelType /\ DuelMay /\ job \in [Procs -> JobType]
  BY Types DEF SettlementInv, JobsAreSound, KnowsTheChain, BindRecovered, JobType, DuelMay
<1>2. CASE MayBind(r) /\ rows' = Bound(r, j.gen) /\ job' = [job EXCEPT ![p] = Idle]
  <2>1. PICK x \in RowType : RowMay(r, x) /\ rows' = [rows EXCEPT ![r] = x]
    BY <1>1, <1>2, BoundRow DEF MayBind
  <2> HIDE DEF j, r
  <2> QED
    BY <1>1, <1>2, <2>1, Stopped, InitialRecords, RowStep
<1>3. CASE UNCHANGED rows /\ job' = [job EXCEPT ![p] = next]
  <2>1. j \in JobType /\ "alert" \in Ops
    BY <1>1 DEF Ops
  <2> HIDE DEF j
  <2>2. next \in JobType /\ next.op = "alert"
    BY <2>1 DEF JobType
  <2> HIDE DEF next
  <2> QED
    BY <1>1, <1>3, <2>2, Harmless, JobStep DEF DuelMay
<1>4. [job EXCEPT ![p].op = "alert"] = [job EXCEPT ![p] = next]
  BY <1>1
<1> QED
  BY <1>2, <1>3, <1>4 DEF BindRecovered, Goto, Stop

-----------------------------------------------------------------------------
(***************************************************************************)
(* What the monitor writes.                                                *)
(***************************************************************************)
\* The routing tables never lead to a payout, and stay in the graph.
LEMMA Routes ==
  /\ \A s \in DuelStatuses, r \in Rows :
       CanTransition(s, TerminalTarget(r, s)) => TerminalTarget(r, s) \in {"REFUNDING", "FAILED"}
  /\ \A s \in DuelStatuses : RecoveryAlertTarget(s) \in {s, "REFUNDING"}
  /\ {"REFUNDING", "FAILED"} \subseteq DuelStatuses
  BY DEF CanTransition, TerminalTarget, RecoveryStatusAfterTransactionFailure,
     RecoveryAlertTarget, AllowedTransitions, DuelStatuses

\* A process that is about to record what it saw of a bound signature.
LEMMA Recording ==
  ASSUME SettlementInv, NEW p \in Procs, job[p].op = "record"
  PROVE  LET j == job[p]
             r == j.row
             row == rows[r]
         IN  /\ r \in Rows /\ row \in RowType /\ rows \in [Rows -> RowType]
             /\ row.st # "NONE" /\ row.gen > 0 /\ row.sig > 0 /\ row.sig \in Gens
             /\ j.from \in DuelStatuses
             /\ j.saw \in {"null", "err", "confirmed", "finalized"}
             /\ j.saw = "confirmed" => chain[r][row.sig] \in OnChain
             /\ j.saw = "finalized" => chain[r][row.sig] = "finalized"
             /\ j.saw = "err" => chain[r][row.sig] = "error"
             /\ j.saw = "null" => chain[r][row.gen] \in Decided
             /\ duel \in DuelType
<1> DEFINE j == job[p]
           r == j.row
           row == rows[r]
<1>1. r \in Rows /\ row \in RowType /\ rows \in [Rows -> RowType] /\ duel \in DuelType
  BY Types DEF SettlementInv, JobType
<1>2. /\ row.sig > 0 /\ j.from \in DuelStatuses
      /\ j.saw \in {"null", "err", "confirmed", "finalized"}
      /\ j.saw = "confirmed" => chain[r][row.sig] \in OnChain
      /\ j.saw = "finalized" => chain[r][row.sig] = "finalized"
      /\ j.saw = "err" => chain[r][row.sig] = "error"
      /\ j.saw = "null" => chain[r][row.gen] \in Decided
  BY DEF SettlementInv, JobsAreSound, KnowsTheChain
<1>3. row.st # "NONE" /\ row.gen > 0
  BY <1>1, <1>2, InitialRecords DEF SettlementInv, RowsAreWhole
<1>4. row.sig \in Gens
  BY <1>1, <1>2 DEF Gens, RowType
<1> QED
  BY <1>1, <1>2, <1>3, <1>4

LEMMA RecordConfirmedStep ==
  ASSUME SettlementInv, NEW p \in Procs, RecordConfirmed(p)
  PROVE  SettlementInv'
<1> DEFINE j == job[p]
           r == j.row
           row == rows[r]
           x == [row EXCEPT !.st = "CONFIRMED"]
<1>1. /\ j.op = "record" /\ j.saw = "confirmed" /\ Verified(r)
      /\ UNCHANGED <<duel, chain, expired, faults>> /\ UNCHANGED world
      /\ job' = [job EXCEPT ![p] = Idle]
  BY DEF RecordConfirmed, Stop
<1>2. /\ r \in Rows /\ row \in RowType /\ rows \in [Rows -> RowType] /\ row.st # "NONE"
      /\ row.gen > 0 /\ row.sig > 0 /\ chain[r][row.sig] \in OnChain /\ duel \in DuelType
  BY <1>1, Recording
<1>3. DuelMay /\ "CONFIRMED" \in RowStatuses /\ rows' = [rows EXCEPT ![r] = x]
  BY <1>1, <1>2 DEF DuelMay, RowStatuses, RecordConfirmed
<1>4. ~Over(r)
  BY <1>1, <1>2 DEF Over
<1>5. x \in RowType /\ x.st = "CONFIRMED" /\ x.gen = row.gen /\ x.sig = row.sig
  <2>1. row \in RowType /\ "CONFIRMED" \in RowStatuses
    BY <1>2, <1>3
  <2> HIDE DEF row
  <2> QED
    BY <2>1 DEF RowType
<1> HIDE DEF x
<1>6. RowMay(r, x)
  BY <1>2, <1>4, <1>5 DEF RowMay, ACTIVE_STATUSES
<1> HIDE DEF j, r, row
<1> QED
  BY <1>1, <1>2, <1>3, <1>5, <1>6, Stopped, InitialRecords, RowStep

\* A row that the monitor closes: over a decided message, or over another row's signature.
LEMMA ClosingRow ==
  ASSUME SettlementInv, NEW p \in Procs, job[p].op = "record",
         NEW st \in Closed, RowBecomes(job[p].row, st),
         job[p].saw = "confirmed" => ~Verified(job[p].row)
  PROVE  \E x \in RowType : /\ RowMay(job[p].row, x)
                            /\ rows' = [rows EXCEPT ![job[p].row] = x]
<1> DEFINE j == job[p]
           r == j.row
           row == rows[r]
           x == [row EXCEPT !.st = st, !.access = FALSE]
<1>1. /\ r \in Rows /\ row \in RowType /\ rows \in [Rows -> RowType] /\ row.st # "NONE"
      /\ row.gen > 0 /\ row.sig > 0 /\ st \in RowStatuses
      /\ Verified(r) => chain[r][row.sig] \in Decided
  BY Recording DEF Decided, Verified, Closed, RowStatuses
<1>2. rows' = [rows EXCEPT ![r] = x]
  BY <1>1 DEF RowBecomes
<1>3. x \in RowType /\ x.st = st /\ x.gen = row.gen /\ x.sig = row.sig /\ ~x.access
  <2>1. row \in RowType /\ st \in RowStatuses
    BY <1>1
  <2> HIDE DEF row
  <2> QED
    BY <2>1 DEF RowType
<1> HIDE DEF x
<1>4. RowMay(r, x)
  BY <1>1, <1>3 DEF RowMay, ACTIVE_STATUSES, Verified, Closed
<1> QED
  BY <1>2, <1>3, <1>4

LEMMA RecordTerminalStep ==
  ASSUME SettlementInv, NEW p \in Procs, RecordTerminal(p)
  PROVE  SettlementInv'
<1> DEFINE j == job[p]
           r == j.row
           st == IF j.saw = "null" THEN "EXPIRED" ELSE "FAILED"
           target == TerminalTarget(r, j.from)
<1>1. /\ (j.op = "record" /\ j.saw \in {"null", "err"}) \/ ~Verified(r)
      /\ UNCHANGED <<chain, expired, faults>> /\ UNCHANGED world
      /\ job' = [job EXCEPT ![p] = Idle] /\ st \in Closed
  BY DEF RecordTerminal, Stop, Closed
<1>2. r \in Rows /\ j.from \in DuelStatuses /\ duel \in DuelType
  BY <1>1, Recording DEF RecordTerminal
<1>3. CASE UNCHANGED <<rows, duel>>
  BY <1>1, <1>2, <1>3, InitialRecords, Harmless, JobStep
<1>4. CASE /\ RowBecomes(r, st)
           /\ \/ UNCHANGED duel
              \/ CanTransition(j.from, target) /\ duel' = [duel EXCEPT !.status = target]
  <2>1. PICK x \in RowType : RowMay(r, x) /\ rows' = [rows EXCEPT ![r] = x]
    BY <1>1, <1>4, ClosingRow DEF RecordTerminal
  <2>2. CanTransition(j.from, target) => target \in {"REFUNDING", "FAILED"} \cap DuelStatuses
    BY <1>2, Routes
  <2> HIDE DEF st, target
  <2>3. DuelMay
    BY <1>2, <1>4, <2>2 DEF DuelMay, DuelType
  <2> HIDE DEF j, r
  <2> QED
    BY <1>1, <1>2, <2>1, <2>3, Stopped, InitialRecords, RowStep
<1> HIDE DEF st, target
<1> QED
  BY <1>3, <1>4 DEF RecordTerminal, RowAndDuelBecome, st, target

\* A settled duel is written over a final settlement.
LEMMA RecordFinalizedStep ==
  ASSUME SettlementInv, NEW p \in Procs, RecordFinalized(p)
  PROVE  SettlementInv'
<1> DEFINE j == job[p]
           r == j.row
<1>1. /\ j.op = "record" /\ j.saw = "finalized" /\ Verified(r)
      /\ UNCHANGED <<chain, expired, faults>> /\ UNCHANGED world
      /\ job' = [job EXCEPT ![p] = Idle]
  BY DEF RecordFinalized, Stop
<1>2. /\ r \in Rows /\ rows[r].sig \in Gens /\ chain[r][rows[r].sig] = "finalized"
      /\ duel \in DuelType
  BY <1>1, Recording DEF RecordFinalized
<1>3. CASE UNCHANGED <<rows, duel>>
  BY <1>1, <1>2, <1>3, InitialRecords, Harmless, JobStep
<1>4. ASSUME NEW st \in {"FINALIZED", "FAILED"}, RowBecomes(r, st),
             UNCHANGED duel \/ duel' = [duel EXCEPT !.status = To(r)]
      PROVE  SettlementInv'
  <2>1. PICK x \in RowType : RowMay(r, x) /\ rows' = [rows EXCEPT ![r] = x]
    BY <1>1, <1>4, ClosingRow DEF RecordFinalized, Closed
  <2>2. To(r) \in DuelStatuses /\ To(r) # "REFUNDED" /\ (To(r) = "SETTLED" => r = Settle)
    BY <1>2, FromTo DEF DuelStatuses
  <2>3. Landed(r, Final)
    BY <1>2 DEF Landed, Final
  <2>4. DuelMay
    BY <1>2, <1>4, <2>2, <2>3 DEF DuelMay, DuelType
  <2> HIDE DEF j, r
  <2> QED
    BY <1>1, <1>2, <2>1, <2>4, Stopped, InitialRecords, RowStep
<1> QED
  BY <1>3, <1>4 DEF RecordFinalized, RowAndDuelBecome

\* A scan that found nothing closes a prepared row, or notes that its message is clear.
LEMMA ScanEmptyStep ==
  ASSUME SettlementInv, NEW p \in Procs, ScanEmpty(p)
  PROVE  SettlementInv'
<1> DEFINE j == job[p]
           r == j.row
           row == rows[r]
           clear == j.height = 1 /\ j.gen = row.gen
<1>1. /\ UNCHANGED <<duel, chain, expired, faults>> /\ UNCHANGED world
      /\ job' = [job EXCEPT ![p] = Idle]
  BY DEF ScanEmpty, Stop
<1>2. /\ r \in Rows /\ row \in RowType /\ rows \in [Rows -> RowType] /\ duel \in DuelType
      /\ DuelMay /\ clear \in BOOLEAN
  BY <1>1, Types DEF SettlementInv, JobType, DuelMay
<1>3. CASE UNCHANGED rows
  BY <1>1, <1>2, <1>3, InitialRecords, Harmless, JobStep DEF DuelMay
<1>4. ASSUME NEW x \in RowType, rows' = [rows EXCEPT ![r] = x], row.st = "PREPARED",
             x.st \in {"PREPARED", "EXPIRED"}, x.gen = row.gen, x.sig = row.sig,
             x.access = row.access
      PROVE  SettlementInv'
  <2>1. row.gen > 0 /\ row.sig = 0 /\ ~row.access /\ ~Over(r)
    BY <1>2, <1>4 DEF SettlementInv, RowsAreWhole, Over
  <2>2. RowMay(r, x)
    BY <1>4, <2>1 DEF RowMay, ACTIVE_STATUSES
  <2> HIDE DEF j, r, row
  <2> QED
    BY <1>1, <1>2, <1>4, <2>2, Stopped, InitialRecords, RowStep
<1>5. "EXPIRED" \in RowStatuses
  BY DEF RowStatuses
<1>6. [row EXCEPT !.st = "EXPIRED"] \in RowType
      /\ [row EXCEPT !.checked = clear] \in RowType
  <2> HIDE DEF row, clear
  <2> QED
    BY <1>2, <1>5 DEF RowType
<1>7. CASE row.st = "PREPARED" /\ rows' = [rows EXCEPT ![r].st = "EXPIRED"]
  <2> DEFINE x == [row EXCEPT !.st = "EXPIRED"]
  <2>1. rows' = [rows EXCEPT ![r] = x]
    BY <1>2, <1>7
  <2>2. x.st = "EXPIRED" /\ x.gen = row.gen /\ x.sig = row.sig /\ x.access = row.access
    BY <1>2 DEF RowType
  <2> HIDE DEF x
  <2> QED
    BY <1>4, <1>6, <1>7, <2>1, <2>2 DEF x
<1>8. CASE row.st = "PREPARED" /\ rows' = [rows EXCEPT ![r].checked = clear]
  <2> DEFINE x == [row EXCEPT !.checked = clear]
  <2>1. rows' = [rows EXCEPT ![r] = x]
    BY <1>2, <1>8
  <2>2. x.st = row.st /\ x.gen = row.gen /\ x.sig = row.sig /\ x.access = row.access
    BY <1>2 DEF RowType
  <2> HIDE DEF x
  <2> QED
    BY <1>4, <1>6, <1>8, <2>1, <2>2 DEF x
<1> QED
  BY <1>3, <1>7, <1>8 DEF ScanEmpty

\* The alert of a final message that cannot be bound.
LEMMA RecordRecoveryAlertStep ==
  ASSUME SettlementInv, NEW p \in Procs, RecordRecoveryAlert(p)
  PROVE  SettlementInv'
<1> DEFINE j == job[p]
           r == j.row
           row == rows[r]
           x == [row EXCEPT !.alert = TRUE]
<1>1. /\ UNCHANGED <<chain, expired, faults>> /\ UNCHANGED world
      /\ job' = [job EXCEPT ![p] = Idle]
  BY DEF RecordRecoveryAlert, Stop
<1>2. /\ r \in Rows /\ row \in RowType /\ rows \in [Rows -> RowType] /\ duel \in DuelType
  BY Types DEF SettlementInv, JobType
<1>3. CASE UNCHANGED <<duel, rows>>
  BY <1>1, <1>2, <1>3, InitialRecords, Harmless, JobStep
<1>4. CASE /\ row.st = "PREPARED" /\ rows' = [rows EXCEPT ![r].alert = TRUE]
           /\ duel' = [duel EXCEPT !.status = RecoveryAlertTarget(duel.status)]
  <2>1. RecoveryAlertTarget(duel.status) \in {duel.status, "REFUNDING"} \cap DuelStatuses
    BY <1>2, Routes DEF DuelType
  <2>2. DuelMay
    BY <1>2, <1>4, <2>1 DEF DuelMay, DuelType
  <2>3. row.gen > 0 /\ row.sig = 0 /\ ~row.access /\ ~Over(r)
    BY <1>2, <1>4 DEF SettlementInv, RowsAreWhole, Over
  <2>4. rows' = [rows EXCEPT ![r] = x]
    BY <1>2, <1>4
  <2>5. /\ x \in RowType /\ x.st = row.st /\ x.gen = row.gen /\ x.sig = row.sig
        /\ x.access = row.access
    BY <1>2 DEF RowType
  <2> HIDE DEF x
  <2>6. RowMay(r, x)
    BY <1>4, <2>3, <2>5 DEF RowMay, ACTIVE_STATUSES
  <2> HIDE DEF j, r, row
  <2> QED
    BY <1>1, <1>2, <2>2, <2>4, <2>5, <2>6, Stopped, InitialRecords, RowStep
<1> QED
  BY <1>3, <1>4 DEF RecordRecoveryAlert

-----------------------------------------------------------------------------
(***************************************************************************)
(* Steps of the cluster and of the rest of the system.                     *)
(***************************************************************************)
\* The rows stay, and the cluster takes nothing back.
LEMMA RowsUnmoved ==
  ASSUME SettlementInv, UNCHANGED rows, ChainGrows
  PROVE  RowsGrow /\ RowsAreWhole' /\ ClosedIsDecided' /\ AttemptsInOrder'
<1>1. \A r \in Rows : Over(r) => Over(r)'
  BY OverStays
<1>2. RowsGrow
  BY <1>1 DEF RowsGrow
<1>3. RowsAreWhole'
  BY DEF SettlementInv, RowsAreWhole
<1>4. ClosedIsDecided'
  <2> SUFFICES ASSUME NEW r \in Rows, rows[r].sig > 0, Verified(r),
                      rows[r].st \notin ACTIVE_STATUSES
               PROVE  chain'[r][rows[r].sig] \in Decided
    BY DEF ClosedIsDecided, Verified
  <2>1. chain[r][rows[r].sig] \in Decided
    BY DEF SettlementInv, ClosedIsDecided
  <2>2. rows[r].sig \in Gens
    BY Types DEF SettlementInv, RowType, Gens
  <2> QED
    BY <2>1, <2>2 DEF ChainGrows
<1>5. AttemptsInOrder'
  BY <1>1, RowNames DEF SettlementInv, AttemptsInOrder
<1> QED
  BY <1>2, <1>3, <1>4, <1>5

\* A message moves on.
LEMMA ChainMoves ==
  ASSUME SettlementInv, NEW r \in Rows, NEW g \in Gens, NEW c \in ChainStates,
         chain' = [chain EXCEPT ![r][g] = c],
         chain[r][g] \notin Decided \/ c = chain[r][g],
         chain[r][g] \in OnChain => c \in OnChain
  PROVE  ChainGrows /\ chain' \in [Rows -> [Gens -> ChainStates]]
<1>1. chain \in [Rows -> [Gens -> ChainStates]]
  BY Types DEF SettlementInv
<1>2. \A q \in Rows, h \in Gens :
        chain'[q][h] = IF q = r /\ h = g THEN c ELSE chain[q][h]
  BY <1>1
<1>3. ChainGrows
  BY <1>1, <1>2 DEF ChainGrows
<1>4. chain' \in [Rows -> [Gens -> ChainStates]]
  BY <1>1
<1> QED
  BY <1>3, <1>4

\* The type invariant after a step that writes no row.
LEMMA TypeKept ==
  ASSUME TypeOK, UNCHANGED rows, UNCHANGED world, duel' \in DuelType,
         job' \in [Procs -> JobType], chain' \in [Rows -> [Gens -> ChainStates]],
         expired' \in BOOLEAN, faults' \in 0..MaxFaults
  PROVE  TypeOK'
  BY Types DEF TypeOK, world, DuelType, RowType, JobType

\* A step of none of the processes.
LEMMA WorldStep ==
  ASSUME SettlementInv, UNCHANGED <<rows, job>>, UNCHANGED world, ChainGrows,
         chain' \in [Rows -> [Gens -> ChainStates]], expired' \in BOOLEAN,
         faults' \in 0..MaxFaults, duel' \in DuelType,
         duel'.status \in {"SETTLED", "REFUNDED"} => duel'.status = duel.status
  PROVE  SettlementInv'
<1>1. TypeOK'
  BY Types, TypeKept DEF SettlementInv
<1> QED
  BY <1>1, RowsUnmoved, StepKeeps DEF world

\* What a process sends is a message of a row.
LEMMA SenderHasMessage ==
  ASSUME SettlementInv, NEW p \in Procs, SignAndSend(p)
  PROVE  job[p].row \in Rows /\ job[p].gen \in Gens
<1>1. job[p] \in JobType /\ KnowsTheChain(job[p])
  BY Types DEF SettlementInv, JobsAreSound
<1>2. job[p].op = "send"
  BY DEF SignAndSend
<1>3. job[p].row \in Rows /\ job[p].gen \in 0..MaxGens
  BY <1>1 DEF JobType
<1>4. job[p].gen > 0
  BY <1>1, <1>2 DEF KnowsTheChain
<1> QED
  BY <1>3, <1>4, SettlementConstants DEF Gens

\* What the escrow program has accepted is sent; the answer may be lost.
LEMMA SignAndSendStep ==
  ASSUME SettlementInv, NEW p \in Procs, SignAndSend(p)
  PROVE  SettlementInv'
<1> DEFINE j == job[p]
           r == j.row
           y == [j EXCEPT !.op = "bind"]
<1>1. /\ j.op = "send" /\ j \in JobType /\ r \in Rows /\ j.gen \in Gens
      /\ KeepsTheOrder(j) /\ UNCHANGED <<duel, rows, expired>> /\ UNCHANGED world
      /\ duel \in DuelType /\ job \in [Procs -> JobType] /\ faults \in 0..MaxFaults
      /\ chain \in [Rows -> [Gens -> ChainStates]] /\ expired \in BOOLEAN
  BY Types DEF SettlementInv, JobsAreSound, KnowsTheChain, SignAndSend, JobType, Gens
<1>2. faults' \in 0..MaxFaults
  BY <1>1, SettlementConstants DEF SignAndSend, Fault
<1>3. ChainGrows /\ chain' \in [Rows -> [Gens -> ChainStates]]
  <2>1. CASE UNCHANGED chain
    BY <1>1, <2>1 DEF ChainGrows
  <2>2. CASE /\ chain[r][j.gen] \in {"unsent", "sent"}
             /\ chain' = [chain EXCEPT ![r][j.gen] = "sent"]
    <3>1. "sent" \in ChainStates
      BY DEF ChainStates
    <3> HIDE DEF j, r
    <3> QED
      BY <1>1, <2>2, <3>1, ChainMoves DEF Decided, OnChain
  <2> QED
    BY <2>1, <2>2 DEF SignAndSend
<1>4. y \in JobType /\ y.op = "bind" /\ y.gen = j.gen /\ y.todo = j.todo
  <2>1. j \in JobType /\ "bind" \in Ops
    BY <1>1 DEF Ops
  <2> HIDE DEF j
  <2> QED
    BY <2>1 DEF JobType
<1>5. job' = [job EXCEPT ![p] = y] \/ job' = [job EXCEPT ![p] = Idle]
  BY <1>1 DEF SignAndSend, Goto, Stop
<1>6. /\ job' \in [Procs -> JobType]
      /\ job'[p] = y \/ job'[p] = Idle
      /\ \A z \in Procs : z # p => job'[z] = job[z]
  <2> HIDE DEF y
  <2> QED
    BY <1>1, <1>4, <1>5, InitialRecords
<1>7. TypeOK'
  <2> HIDE DEF j, r, y
  <2> QED
    <3>1. TypeOK /\ UNCHANGED rows /\ UNCHANGED world /\ duel' \in DuelType
          /\ expired' \in BOOLEAN
      BY <1>1 DEF SettlementInv
    <3>2. job' \in [Procs -> JobType]
      BY <1>6
    <3> QED
      BY <1>2, <1>3, <3>1, <3>2, TypeKept
<1>8. KnowsTheChain(job[p])' /\ KeepsTheOrder(job[p])'
  <2>1. \A a \in Assets, i \in 1..MaxAttempts : Over(<<a, i>>) => Over(<<a, i>>)'
    BY <1>3, RowsUnmoved, RowNames DEF RowsGrow, SignAndSend
  <2> HIDE DEF y, j
  <2>2. j.gen > 0 /\ job'[p].op \in {"bind", "idle"} /\ (job'[p].op = "bind" => job'[p] = y)
    BY <1>1, <1>4, <1>6, InitialRecords DEF Gens
  <2>3. KnowsTheChain(job[p])'
    BY <1>4, <2>2 DEF KnowsTheChain
  <2>4. KeepsTheOrder(job[p])'
    BY <1>1, <1>4, <2>1, <2>2 DEF KeepsTheOrder
  <2> QED
    BY <2>3, <2>4
<1> QED
  BY <1>1, <1>3, <1>6, <1>7, <1>8, RowsUnmoved, StepKeeps DEF world

LEMMA LandsStep ==
  ASSUME SettlementInv, NEW r \in Rows, NEW g \in Gens, Lands(r, g)
  PROVE  SettlementInv'
<1>1. /\ chain[r][g] = "sent" /\ UNCHANGED <<duel, rows, job, expired>> /\ UNCHANGED world
      /\ duel \in DuelType /\ expired \in BOOLEAN /\ faults \in 0..MaxFaults
  BY Types DEF SettlementInv, Lands
<1>2. faults' \in 0..MaxFaults
  BY <1>1, SettlementConstants DEF Lands, Fault
<1>3. PICK c \in {"confirmed", "error"} : chain' = [chain EXCEPT ![r][g] = c]
  BY DEF Lands
<1>4. ChainGrows /\ chain' \in [Rows -> [Gens -> ChainStates]]
  BY <1>1, <1>3, ChainMoves DEF ChainStates, Decided, OnChain
<1> QED
  BY <1>1, <1>2, <1>4, WorldStep

LEMMA FinalizesStep ==
  ASSUME SettlementInv, NEW r \in Rows, NEW g \in Gens, Finalizes(r, g)
  PROVE  SettlementInv'
<1>1. /\ chain[r][g] = "confirmed" /\ UNCHANGED <<duel, rows, job, expired, faults>>
      /\ UNCHANGED world /\ chain' = [chain EXCEPT ![r][g] = "finalized"]
      /\ duel \in DuelType /\ expired \in BOOLEAN /\ faults \in 0..MaxFaults
  BY Types DEF SettlementInv, Finalizes
<1>2. ChainGrows /\ chain' \in [Rows -> [Gens -> ChainStates]]
  BY <1>1, ChainMoves DEF ChainStates, Decided, OnChain
<1> QED
  BY <1>1, <1>2, WorldStep

LEMMA BlockhashExpiresStep ==
  ASSUME SettlementInv, NEW r \in Rows, BlockhashExpires(r)
  PROVE  SettlementInv'
<1> DEFINE g == rows[r].gen
<1>1. /\ chain[r][g] \in {"unsent", "sent"} /\ chain' = [chain EXCEPT ![r][g] = "dead"]
      /\ UNCHANGED <<duel, rows, job, expired>> /\ UNCHANGED world
      /\ duel \in DuelType /\ expired \in BOOLEAN /\ faults \in 0..MaxFaults
  BY Types DEF SettlementInv, BlockhashExpires
<1>2. faults' \in 0..MaxFaults
  BY <1>1, SettlementConstants DEF BlockhashExpires, Fault
<1>3. g \in Gens
  BY Types DEF SettlementInv, RowsAreWhole, BlockhashExpires, ACTIVE_REFUND_STATUSES, RowType, Gens
<1>4. ChainGrows /\ chain' \in [Rows -> [Gens -> ChainStates]]
  BY <1>1, <1>3, ChainMoves DEF ChainStates, Decided, OnChain
<1> QED
  BY <1>1, <1>2, <1>4, WorldStep

LEMMA OutsideStep ==
  ASSUME SettlementInv, DuelExpires \/ FundingFails \/ UNCHANGED vars
  PROVE  SettlementInv'
<1>1. /\ UNCHANGED <<rows, job, chain>> /\ UNCHANGED world
      /\ duel \in DuelType /\ expired \in BOOLEAN /\ faults \in 0..MaxFaults
      /\ chain \in [Rows -> [Gens -> ChainStates]]
  BY Types DEF SettlementInv, DuelExpires, FundingFails, vars, world
<1>2. faults' \in 0..MaxFaults /\ expired' \in BOOLEAN
  <2>1. CASE FundingFails
    BY <1>1, <2>1, SettlementConstants DEF FundingFails, Fault
  <2>2. CASE DuelExpires
    BY <1>1, <2>2 DEF DuelExpires
  <2>3. CASE UNCHANGED vars
    BY <1>1, <2>3 DEF vars
  <2> QED
    BY <2>1, <2>2, <2>3
<1>3. /\ duel' \in DuelType
      /\ duel'.status \in {"SETTLED", "REFUNDED"} => duel'.status = duel.status
  <2>1. CASE FundingFails
    <3>1. duel' = [duel EXCEPT !.status = "REFUNDING"] /\ "REFUNDING" \in DuelStatuses
      BY <2>1 DEF FundingFails, RecoveryStatusAfterTransactionFailure, DuelStatuses
    <3> QED
      BY <1>1, <3>1 DEF DuelType
  <2>2. CASE UNCHANGED duel
    BY <1>1, <2>2
  <2> QED
    BY <2>1, <2>2 DEF DuelExpires, vars
<1>4. ChainGrows
  BY <1>1 DEF ChainGrows
<1> QED
  BY <1>1, <1>2, <1>3, <1>4, WorldStep

-----------------------------------------------------------------------------
(***************************************************************************)
(* The theorems.                                                           *)
(***************************************************************************)
\* Each of the starting points satisfies the invariant.
LEMMA SettlementStart == Init => SettlementInv
<1> SUFFICES ASSUME Init PROVE SettlementInv
  OBVIOUS
<1>1. /\ job = [p \in Procs |-> Idle] /\ expired = FALSE /\ faults = 0
      /\ chain = [r \in Rows |-> [g \in Gens |-> IF rows[r].sig = g THEN "finalized" ELSE "unsent"]]
  BY DEF Init
<1>2. /\ duel \in DuelType /\ duel.status \in {"AWAITING_ASSETS", "REFUNDING"}
      /\ custody \subseteq Assets /\ known \subseteq custody
  <2>1. {"AWAITING_ASSETS", "REFUNDING"} \subseteq DuelStatuses
    BY DEF DuelStatuses
  <2>2. CASE Refunding
    BY <2>1, <2>2 DEF Refunding, DuelType
  <2>3. CASE Resolved \/ Rejected
    <3>1. /\ custody = Assets /\ known = Assets
          /\ \E s \in {"AWAITING_ASSETS", "REFUNDING"} : duel = [status |-> s, evidence |-> TRUE]
      BY <2>3 DEF Resolved, Rejected
    <3> QED
      BY <2>1, <3>1 DEF DuelType
  <2> QED
    BY <2>2, <2>3 DEF Init
<1>3. \A st \in {"FINALIZED", "FAILED"} :
        /\ OldRow(st) \in RowType /\ OldRow(st).st = st
        /\ OldRow(st).gen = 1 /\ OldRow(st).sig = 1
  <2>1. 1 \in 0..MaxGens /\ {"FINALIZED", "FAILED"} \subseteq RowStatuses
    BY SettlementConstants DEF RowStatuses
  <2> QED
    BY <2>1, InitialRecords DEF OldRow, RowType
<1>4. rows \in [Rows -> RowType]
      /\ \A r \in Rows : \/ rows[r] = NoRow
                         \/ ~IsRefund(r) /\ rows[r] \in {OldRow("FINALIZED"), OldRow("FAILED")}
  <2>1. CASE rows = [r \in Rows |-> NoRow]
    BY <2>1, InitialRecords
  <2>2. CASE rows = [r \in Rows |-> IF r = Commit THEN OldRow("FAILED") ELSE NoRow]
    BY <1>3, <2>2, InitialRecords, RowNames
  <2>3. CASE rows = [r \in Rows |-> CASE r = Commit -> OldRow("FINALIZED")
                                      [] r = Settle -> OldRow("FAILED") [] OTHER -> NoRow]
    <3>1. \A r \in Rows : \/ r = Commit /\ rows[r] = OldRow("FINALIZED")
                          \/ r = Settle /\ rows[r] = OldRow("FAILED")
                          \/ rows[r] = NoRow
      BY <2>3
    <3> QED
      BY <1>3, <2>3, <3>1, InitialRecords, RowNames
  <2> QED
    BY <2>1, <2>2, <2>3 DEF Init, Resolved, Refunding, Rejected
<1>5. TypeOK
  <2>1. chain \in [Rows -> [Gens -> ChainStates]]
    BY <1>1 DEF ChainStates
  <2>2. \A r \in Rows : rows[r].st \in ACTIVE_STATUSES \cup {"FINALIZED"} => rows[r].sig > 0
    BY <1>3, <1>4, InitialRecords DEF ACTIVE_STATUSES
  <2>3. job \in [Procs -> JobType]
    BY <1>1, InitialRecords
  <2>4. expired \in BOOLEAN
    BY <1>1
  <2>5. faults = 0 /\ 0 \in 0..MaxFaults
    BY <1>1, SettlementConstants
  <2> QED
    BY <1>2, <1>4, <2>1, <2>2, <2>3, <2>4, <2>5, Types
<1>6. RowsAreWhole
  BY <1>3, <1>4, InitialRecords DEF RowsAreWhole
<1>7. ClosedIsDecided
  BY <1>1, <1>3, <1>4, InitialRecords, SettlementConstants DEF ClosedIsDecided, Decided, Gens
<1>8. AttemptsInOrder
  BY <1>4, InitialRecords, RowNames DEF AttemptsInOrder
<1>9. JobsAreSound
  BY <1>1, InitialRecords, Harmless DEF JobsAreSound
<1> QED
  BY <1>2, <1>5, <1>6, <1>7, <1>8, <1>9 DEF SettlementInv, SettledIsBacked, RefundedIsBacked

\* Every step keeps it.
LEMMA SettlementSteps == SettlementInv /\ [Next]_vars => SettlementInv'
<1> SUFFICES ASSUME SettlementInv, [Next]_vars PROVE SettlementInv'
  OBVIOUS
<1>1. ASSUME NEW p \in Procs, Continue(p) PROVE SettlementInv'
  BY <1>1, PersistStep, SignAndSendStep, BindSubmissionStep, ReadStateStep, RefundNextStep,
     RouteStep, LoadRowStep, RecordConfirmedStep, RecordTerminalStep, RecordFinalizedStep,
     ScanFoundStep, ScanEmptyStep, BindRecoveredStep, RecordRecoveryAlertStep DEF Continue
<1>2. ASSUME NEW p \in Procs, ReadRefunding(p) \/ AskForResult(p) PROVE SettlementInv'
  BY <1>2, ReadRefundingStep, BeginSettleStep DEF AskForResult
<1>3. ASSUME NEW p \in Procs, NEW r \in Rows, Visit(p, r) PROVE SettlementInv'
  BY <1>3, ReadStatusStep, BeginRecoveryStep DEF Visit
<1>4. CASE Cluster
  BY <1>4, LandsStep, FinalizesStep, BlockhashExpiresStep DEF Cluster
<1>5. CASE DuelExpires \/ FundingFails \/ UNCHANGED vars
  BY <1>5, OutsideStep
<1> QED
  BY <1>1, <1>2, <1>3, <1>4, <1>5 DEF Next

\* The inductive invariant holds in every reachable state.
THEOREM SettlementInvariant == Spec => []SettlementInv
<1> QED
  BY SettlementStart, SettlementSteps, PTL DEF Spec

\* Type correctness: among others, a row the monitor follows has a bound signature.
THEOREM SettlementTypeCorrect == Spec => []TypeOK
<1>1. SettlementInv => TypeOK
  BY DEF SettlementInv
<1> QED
  BY <1>1, SettlementInvariant, PTL

\* A settled duel rests on a final settlement, through concurrent passes, retries,
\* recoveries and late writes.
THEOREM SettledBacked == Spec => []SettledIsBacked
<1>1. SettlementInv => SettledIsBacked
  BY DEF SettlementInv
<1> QED
  BY <1>1, SettlementInvariant, PTL

\* A refunded duel has given back every asset that was deposited, in final transactions.
THEOREM RefundedBacked == Spec => []RefundedIsBacked
<1>1. SettlementInv => RefundedIsBacked
  BY DEF SettlementInv
<1> QED
  BY <1>1, SettlementInvariant, PTL

\* Attempts that follow each other leave at most one of them open.
LEMMA InOrderIsOneInFlight == SettlementInv => OneRefundInFlight
<1> SUFFICES ASSUME SettlementInv, NEW a \in Assets
             PROVE  Cardinality({k \in 1..MaxAttempts :
                                   rows[<<a, k>>].st \in ACTIVE_REFUND_STATUSES}) <= 1
  BY DEF OneRefundInFlight
<1> DEFINE S == {k \in 1..MaxAttempts : rows[<<a, k>>].st \in ACTIVE_REFUND_STATUSES}
<1>1. ASSUME NEW k \in S, NEW i \in S PROVE i = k
  <2>1. \A m, n \in S : ~(m < n)
    BY DEF SettlementInv, AttemptsInOrder, Over, ACTIVE_REFUND_STATUSES
  <2> QED
    BY <1>1, <2>1, SettlementConstants
<1> SUFFICES Cardinality(S) <= 1
  OBVIOUS
<1> HIDE DEF S
<1>2. CASE S = {}
  <2>1. Cardinality(S) = 0
    BY <1>2, FS_EmptySet
  <2> QED
    BY <2>1
<1>3. CASE S # {}
  <2>1. PICK k : k \in S
    BY <1>3
  <2>2. S = {k}
    BY <1>1, <2>1
  <2>3. Cardinality(S) = 1
    BY <2>2, FS_Singleton
  <2> QED
    BY <2>3
<1> QED
  BY <1>2, <1>3

\* Concurrent passes never have two refunds of one asset under way.
THEOREM OneRefund == Spec => []OneRefundInFlight
<1> QED
  BY InOrderIsOneInFlight, SettlementInvariant, PTL

\* No pass, alert or failure moves a duel that has been paid out.
LEMMA PayoutStays ==
  ASSUME SettlementInv, [Next]_vars, duel.status \in {"SETTLED", "REFUNDED"}
  PROVE  duel'.status = duel.status
<1> DEFINE s == duel.status
<1>1. ASSUME NEW p \in Procs, Continue(p) PROVE duel'.status = s
  <2>1. CASE RouteToSettlement(p) \/ Complete(p)
    BY <2>1 DEF RouteToSettlement, Complete, MoveFrom
  <2>2. CASE RecordTerminal(p)
    <3>1. ~CanTransition(s, TerminalTarget(job[p].row, s))
      BY DEF CanTransition, AllowedTransitions, DuelStatuses
    <3> QED
      BY <2>2, <3>1 DEF RecordTerminal, RowAndDuelBecome
  <2>3. CASE RecordFinalized(p)
    <3>1. From(job[p].row) \in {"AWAITING_ASSETS", "SETTLING", "REFUNDING"}
      BY DEF From
    <3> QED
      BY <2>3, <3>1 DEF RecordFinalized, RowAndDuelBecome
  <2>4. CASE RecordRecoveryAlert(p)
    <3>1. \/ UNCHANGED duel
          \/ duel' = [duel EXCEPT !.status = RecoveryAlertTarget(s)]
      BY <2>4 DEF RecordRecoveryAlert
    <3>2. RecoveryAlertTarget(s) = s /\ duel \in DuelType
      BY Types DEF RecoveryAlertTarget, SettlementInv
    <3> QED
      BY <3>1, <3>2 DEF DuelType
  <2>5. CASE UNCHANGED duel
    BY <2>5
  <2> QED
    BY <1>1, <2>1, <2>2, <2>3, <2>4, <2>5
    DEF Continue, PersistTrackedIntent, SignAndSend, BindSubmission, ReadState, RefundNext,
        LoadRow, RecordConfirmed, ScanFound, ScanEmpty, BindRecovered
<1>2. CASE FundingFails
  BY <1>2 DEF FundingFails
<1>3. CASE UNCHANGED duel
  BY <1>3
<1> QED
  BY <1>1, <1>2, <1>3
  DEF Next, ReadRefunding, AskForResult, BeginSettle, Visit, ReadStatus, BeginRecovery, Cluster,
      BlockhashExpires, Lands, Finalizes, DuelExpires, vars

\* A paid-out duel stays paid out.
THEOREM PayoutPermanent == Spec => PayoutIsPermanent
<1>1. SettlementInv /\ [Next]_vars =>
        [duel.status \in {"SETTLED", "REFUNDED"} => duel'.status = duel.status]_vars
  BY PayoutStays
<1> QED
  BY <1>1, SettlementInvariant, PTL DEF Spec, PayoutIsPermanent
-----------------------------------------------------------------------------
(***************************************************************************)
(* The receipt.                                                            *)
(***************************************************************************)
\* What row r becomes is backed by the cluster, and keeps the signature it had.
Tells(r, x) ==
  /\ x.st = "FINALIZED" => chain[r][x.sig] = "finalized"
  /\ x.alert => Landed(r, Final)
  /\ rows[r].sig > 0 => x.sig = rows[r].sig

\* A process turns to no alert, or to one it has found the reason for.
HasReason(j) == j.op \in {"bindFound", "alert"} => Landed(j.row, Final)

\* A step keeps the invariant if the rows it writes are backed, the processes that moved
\* have a reason, and a duel it settles has a signed settlement.
LEMMA ReceiptKept ==
  ASSUME SettlementInv, SettlementInv', ReceiptInv, ChainGrows,
         \A r \in Rows : rows'[r] = rows[r] \/ (UNCHANGED chain /\ Tells(r, rows'[r])),
         \A p \in Procs : job'[p] = job[p] \/ HasReason(job'[p]),
         \/ duel'.status = "SETTLED" => duel.status = "SETTLED"
         \/ rows'[Settle].sig > 0 /\ chain'[Settle][rows'[Settle].sig] = "finalized"
  PROVE  ReceiptInv'
<1>1. \A r \in Rows : Landed(r, Final) => Landed(r, Final)'
  BY LandedStays
<1>2. ASSUME NEW r \in Rows, rows[r].sig > 0, chain[r][rows[r].sig] = "finalized"
      PROVE  chain'[r][rows[r].sig] = "finalized"
  <2>1. rows[r].sig \in Gens
    BY <1>2, Types DEF SettlementInv, RowType, Gens
  <2> QED
    BY <1>2, <2>1 DEF ChainGrows, Decided
<1>3. RowsTellFinality'
  <2>1. \A r \in Rows : rows[r].st = "FINALIZED" => rows[r].sig > 0
    BY Types DEF SettlementInv
  <2>2. ASSUME NEW r \in Rows
        PROVE  /\ rows'[r].st = "FINALIZED" => chain'[r][rows'[r].sig] = "finalized"
               /\ rows'[r].alert => Landed(r, Final)'
    <3>1. CASE rows'[r] = rows[r]
      BY <1>1, <1>2, <2>1, <3>1 DEF ReceiptInv, RowsTellFinality
    <3>2. CASE UNCHANGED chain /\ Tells(r, rows'[r])
      BY <1>1, <3>2 DEF Tells
    <3> QED
      BY <3>1, <3>2
  <2> QED
    BY <2>2 DEF RowsTellFinality
<1>4. JobsTellFinality'
  <2>1. \A p \in Procs : job'[p].row \in Rows
    <3>1. job' \in [Procs -> JobType]
      BY DEF SettlementInv, TypeOK, JobType
    <3> QED
      BY <3>1 DEF JobType
  <2>2. \A p \in Procs : job'[p].op \in {"bindFound", "alert"} => Landed(job'[p].row, Final)
    BY DEF ReceiptInv, JobsTellFinality, HasReason
  <2> QED
    BY <1>1, <2>1, <2>2 DEF JobsTellFinality, Landed
<1>5. SettledIsSigned'
  <2>1. CASE duel'.status = "SETTLED" => duel.status = "SETTLED"
    <3>1. rows[Settle].sig > 0 => rows'[Settle].sig = rows[Settle].sig
      BY RowNames DEF Tells
    <3> QED
      BY <1>2, <2>1, <3>1, RowNames DEF ReceiptInv, SettledIsSigned
  <2>2. CASE rows'[Settle].sig > 0 /\ chain'[Settle][rows'[Settle].sig] = "finalized"
    BY <2>2 DEF SettledIsSigned
  <2> QED
    BY <2>1, <2>2
<1> QED
  BY <1>3, <1>4, <1>5 DEF ReceiptInv

\* At the start no row has an alert, and the chain knows the signatures of the old ones.
LEMMA ReceiptStart == Init => ReceiptInv
<1> SUFFICES ASSUME Init PROVE ReceiptInv
  OBVIOUS
<1>1. /\ job = [p \in Procs |-> Idle]
      /\ chain = [r \in Rows |-> [g \in Gens |-> IF rows[r].sig = g THEN "finalized" ELSE "unsent"]]
  BY DEF Init
<1>2. duel.status # "SETTLED"
  BY DEF Init, Resolved, Refunding, Rejected
<1>3. \A st : /\ OldRow(st).st = st /\ OldRow(st).sig = 1 /\ ~OldRow(st).alert
              /\ NoRow.st = "NONE" /\ ~NoRow.alert
  BY DEF OldRow, NoRow
<1>4. ASSUME NEW r \in Rows
      PROVE  rows[r] = NoRow \/ \E st \in {"FINALIZED", "FAILED"} : rows[r] = OldRow(st)
  BY DEF Init, Resolved, Refunding, Rejected
<1>5. RowsTellFinality
  BY <1>1, <1>3, <1>4, SettlementConstants DEF RowsTellFinality, Gens
<1>6. JobsTellFinality
  BY <1>1, InitialRecords DEF JobsTellFinality
<1> QED
  BY <1>2, <1>5, <1>6 DEF ReceiptInv, SettledIsSigned

\* A process that turns to something with no alert in it.
Quiet(p) == \E y : /\ job' = [job EXCEPT ![p] = y]
                   /\ y.op \notin {"bindFound", "alert"}

LEMMA QuietHasReason ==
  ASSUME SettlementInv, NEW p \in Procs, Quiet(p)
  PROVE  \A z \in Procs : job'[z] = job[z] \/ HasReason(job'[z])
<1>1. PICK y : job' = [job EXCEPT ![p] = y] /\ y.op \notin {"bindFound", "alert"}
  BY DEF Quiet
<1>2. job \in [Procs -> JobType]
  BY Types DEF SettlementInv
<1> QED
  BY <1>1, <1>2 DEF HasReason

\* The idle process, changed only in what it is about to do and knows.
LEMMA StopIsQuiet ==
  ASSUME NEW p \in Procs, Stop(p)
  PROVE  Quiet(p)
<1>1. Idle.op \notin {"bindFound", "alert"}
  BY InitialRecords
<1> QED
  BY <1>1 DEF Stop, Quiet

LEMMA GotoIsQuiet ==
  ASSUME SettlementInv, NEW p \in Procs, NEW where \in {"bind", "assets"}, Goto(p, where)
  PROVE  Quiet(p)
<1> DEFINE y == [job[p] EXCEPT !.op = where]
<1>1. job[p] \in JobType
  BY Types DEF SettlementInv
<1>2. y.op = where
  BY <1>1 DEF JobType
<1>3. job' = [job EXCEPT ![p] = y]
  BY DEF Goto
<1> HIDE DEF y
<1> QED
  BY <1>2, <1>3 DEF Quiet

\* A process that begins.
LEMMA BeginnersTell ==
  ASSUME SettlementInv, SettlementInv', ReceiptInv, NEW p \in Procs,
         ReadRefunding(p) \/ AskForResult(p) \/ \E r \in Rows : Visit(p, r)
  PROVE  ReceiptInv'
<1>1. UNCHANGED <<rows, chain, duel>>
  BY DEF ReadRefunding, AskForResult, BeginSettle, Visit, ReadStatus, BeginRecovery
<1>2. ASSUME ReadRefunding(p) PROVE Quiet(p)
  <2> DEFINE y == [Idle EXCEPT !.op = "escrow", !.proved = AllProved,
                               !.todo = [a \in Assets |-> NextPreparationKey(a)]]
  <2>1. y.op = "escrow" /\ job' = [job EXCEPT ![p] = y]
    BY <1>2 DEF ReadRefunding, Idle
  <2> HIDE DEF y
  <2> QED
    BY <2>1 DEF Quiet
<1>3. ASSUME NEW r \in {Commit, Settle}, BeginSettle(p, r) PROVE Quiet(p)
  <2> DEFINE y == [Idle EXCEPT !.op = "persist", !.row = r]
  <2>1. y.op = "persist" /\ job' = [job EXCEPT ![p] = y]
    BY <1>3 DEF BeginSettle, Idle
  <2> HIDE DEF y
  <2> QED
    BY <2>1 DEF Quiet
<1>4. ASSUME NEW r \in Rows, ReadStatus(p, r) PROVE Quiet(p)
  <2> DEFINE y == [Idle EXCEPT !.op = "seen", !.row = r, !.saw = SignatureStatus(r)]
  <2>1. y.op = "seen" /\ job' = [job EXCEPT ![p] = y]
    BY <1>4 DEF ReadStatus, Idle
  <2> HIDE DEF y
  <2> QED
    BY <2>1 DEF Quiet
<1>5. ASSUME NEW r \in Rows, BeginRecovery(p, r) PROVE Quiet(p)
  <2>1. PICK h : job' = [job EXCEPT ![p] = [Idle EXCEPT !.op = "scan", !.row = r,
                           !.gen = rows[r].gen, !.saw = duel.status, !.height = h]]
    BY <1>5 DEF BeginRecovery
  <2> DEFINE y == [Idle EXCEPT !.op = "scan", !.row = r, !.gen = rows[r].gen,
                               !.saw = duel.status, !.height = h]
  <2>2. y.op = "scan" /\ job' = [job EXCEPT ![p] = y]
    BY <2>1 DEF Idle
  <2> HIDE DEF y
  <2> QED
    BY <2>2 DEF Quiet
<1>6. Quiet(p)
  BY <1>2, <1>3, <1>4, <1>5 DEF AskForResult, Visit
<1>7. ChainGrows
  BY <1>1 DEF ChainGrows
<1> QED
  BY <1>1, <1>6, <1>7, QuietHasReason, ReceiptKept

\* A process that has begun, and reads or moves the duel without settling it.
LEMMA ReadersTell ==
  ASSUME SettlementInv, SettlementInv', ReceiptInv, NEW p \in Procs,
         \/ ReadState(p) \/ RefundNext(p) \/ RouteToSettlement(p) \/ Complete(p)
         \/ LoadRow(p) \/ ScanFound(p)
  PROVE  ReceiptInv'
<1>1. UNCHANGED <<rows, chain>>
  BY DEF ReadState, RefundNext, RouteToSettlement, Complete, LoadRow, ScanFound
<1>2. duel'.status = "SETTLED" => duel.status = "SETTLED"
  <2>1. duel \in DuelType
    BY Types DEF SettlementInv
  <2>2. CASE RouteToSettlement(p) \/ Complete(p)
    BY <2>1, <2>2 DEF RouteToSettlement, Complete, MoveFrom, DuelType
  <2> QED
    BY <2>2 DEF ReadState, RefundNext, LoadRow, ScanFound
<1>3. job \in [Procs -> JobType] /\ job[p] \in JobType
  BY Types DEF SettlementInv
<1>4. CASE ReadState(p)
  <2> DEFINE held == {a \in Assets : Held(a, Final)}
             on == [job[p] EXCEPT !.op = "assets", !.proved = FALSE,
                                  !.todo = [a \in Assets |-> IF a \in held THEN @[a] ELSE 0]]
             y == IF Landed(Commit, Final) \/ Landed(Settle, Final)
                  THEN [Idle EXCEPT !.op = "route"]
                  ELSE IF held = {}
                  THEN IF job[p].proved THEN [Idle EXCEPT !.op = "complete"] ELSE Idle
                  ELSE on
  <2>1. job' = [job EXCEPT ![p] = y]
    BY <1>4 DEF ReadState
  <2>2. on.op = "assets"
    BY <1>3 DEF JobType
  <2>3. y.op \in {"route", "complete", "idle", "assets"}
    <3> HIDE DEF on
    <3> QED
      BY <2>2 DEF Idle
  <2> HIDE DEF y
  <2>4. Quiet(p)
    BY <2>1, <2>3 DEF Quiet
  <2> QED
    BY <1>1, <1>2, <2>4, QuietHasReason, ReceiptKept DEF ChainGrows
<1>5. CASE RefundNext(p)
  <2>1. ASSUME NEW i \in DOMAIN AssetOrder,
               job' = [job EXCEPT ![p] =
                 IF job[p].todo[AssetOrder[i]] \notin 1..MaxAttempts \/ ~MayRefund(AssetOrder[i])
                 THEN Idle
                 ELSE [job[p] EXCEPT !.op = "persist",
                                     !.row = <<AssetOrder[i], job[p].todo[AssetOrder[i]]>>,
                                     !.todo[AssetOrder[i]] = 0]]
        PROVE  Quiet(p)
    <3> DEFINE on == [job[p] EXCEPT !.op = "persist",
                        !.row = <<AssetOrder[i], job[p].todo[AssetOrder[i]]>>,
                        !.todo[AssetOrder[i]] = 0]
    <3>1. on.op = "persist"
      BY <1>3 DEF JobType
    <3>2. job' = [job EXCEPT ![p] = Idle] \/ job' = [job EXCEPT ![p] = on]
      BY <2>1
    <3> HIDE DEF on
    <3> QED
      BY <3>1, <3>2, StopIsQuiet DEF Quiet, Stop
  <2>2. Quiet(p)
    BY <1>5, <2>1, StopIsQuiet DEF RefundNext
  <2> QED
    BY <1>1, <1>2, <2>2, QuietHasReason, ReceiptKept DEF ChainGrows
<1>6. CASE RouteToSettlement(p) \/ Complete(p)
  <2>1. Quiet(p)
    BY <1>6, StopIsQuiet DEF RouteToSettlement, Complete
  <2> QED
    BY <1>1, <1>2, <2>1, QuietHasReason, ReceiptKept DEF ChainGrows
<1>7. CASE LoadRow(p)
  <2> DEFINE on == [job[p] EXCEPT !.op = "record", !.from = duel.status,
                                  !.recover = Recoverable(job[p].row)]
  <2>1. on.op = "record"
    BY <1>3 DEF JobType
  <2>2. Stop(p) \/ job' = [job EXCEPT ![p] = on]
    BY <1>3, <1>7 DEF LoadRow
  <2> HIDE DEF on
  <2>3. Quiet(p)
    BY <2>1, <2>2, StopIsQuiet DEF Quiet
  <2> QED
    BY <1>1, <1>2, <2>3, QuietHasReason, ReceiptKept DEF ChainGrows
<1>8. CASE ScanFound(p)
  <2> DEFINE op == IF job[p].saw = From(job[p].row) THEN "bindFound" ELSE "alert"
             y == [job[p] EXCEPT !.saw = "nothing", !.height = 0, !.op = op]
  <2>1. /\ job[p].op = "scan" /\ chain[job[p].row][job[p].gen] = "finalized"
        /\ job' = [job EXCEPT ![p] = y]
    BY <1>3, <1>8 DEF ScanFound
  <2>2. job[p].gen \in Gens
    BY <1>3, <2>1 DEF SettlementInv, JobsAreSound, KnowsTheChain, JobType, Gens
  <2>3. y.row = job[p].row
    BY <1>3 DEF JobType
  <2> HIDE DEF y
  <2>4. HasReason(y)
    BY <2>1, <2>2, <2>3 DEF HasReason, Landed, Final
  <2>5. \A z \in Procs : job'[z] = job[z] \/ HasReason(job'[z])
    BY <1>3, <2>1, <2>4
  <2> QED
    BY <1>1, <1>2, <2>5, ReceiptKept DEF ChainGrows
<1> QED
  BY <1>4, <1>5, <1>6, <1>7, <1>8

\* The cluster, the clock, and a process that hands a message to it.
LEMMA ClusterTells ==
  ASSUME SettlementInv, SettlementInv', ReceiptInv,
         \/ \E p \in Procs : SignAndSend(p)
         \/ Cluster \/ DuelExpires \/ FundingFails \/ UNCHANGED vars
  PROVE  ReceiptInv'
<1>1. UNCHANGED rows
  BY DEF SignAndSend, Cluster, BlockhashExpires, Lands, Finalizes, DuelExpires, FundingFails, vars
<1>2. duel'.status = "SETTLED" => duel.status = "SETTLED"
  <2>1. duel \in DuelType
    BY Types DEF SettlementInv
  <2> QED
    BY <2>1 DEF SignAndSend, Cluster, BlockhashExpires, Lands, Finalizes, DuelExpires,
       FundingFails, RecoveryStatusAfterTransactionFailure, DuelType, vars
<1>3. job \in [Procs -> JobType]
  BY Types DEF SettlementInv
<1>4. \A z \in Procs : job'[z] = job[z] \/ HasReason(job'[z])
  <2>1. CASE \E p \in Procs : SignAndSend(p)
    BY <2>1, StopIsQuiet, GotoIsQuiet, QuietHasReason DEF SignAndSend
  <2> QED
    BY <2>1 DEF Cluster, BlockhashExpires, Lands, Finalizes, DuelExpires, FundingFails, vars
<1>5. ChainGrows
  <2>1. ASSUME NEW p \in Procs, SignAndSend(p) PROVE ChainGrows
    <3>1. CASE UNCHANGED chain
      BY <3>1 DEF ChainGrows
    <3>2. CASE /\ chain[job[p].row][job[p].gen] \in {"unsent", "sent"}
               /\ chain' = [chain EXCEPT ![job[p].row][job[p].gen] = "sent"]
      <4>1. job[p].row \in Rows /\ job[p].gen \in Gens
        BY <2>1, SenderHasMessage
      <4> QED
        BY <3>2, <4>1, ChainMoves DEF ChainStates, Decided, OnChain
    <3> QED
      BY <2>1, <3>1, <3>2 DEF SignAndSend
  <2>2. ASSUME NEW r \in Rows, NEW g \in Gens, Lands(r, g) \/ Finalizes(r, g) PROVE ChainGrows
    <3>1. CASE Lands(r, g)
      <4>1. PICK c \in {"confirmed", "error"} : chain' = [chain EXCEPT ![r][g] = c]
        BY <3>1 DEF Lands
      <4> QED
        BY <3>1, <4>1, ChainMoves DEF Lands, ChainStates, Decided, OnChain
    <3>2. CASE Finalizes(r, g)
      BY <3>2, ChainMoves DEF Finalizes, ChainStates, Decided, OnChain
    <3> QED
      BY <2>2, <3>1, <3>2
  <2>3. ASSUME NEW r \in Rows, BlockhashExpires(r) PROVE ChainGrows
    <3>1. rows[r].gen \in Gens
      BY <2>3, Types DEF SettlementInv, RowsAreWhole, BlockhashExpires, ACTIVE_REFUND_STATUSES,
         RowType, Gens
    <3> QED
      BY <2>3, <3>1, ChainMoves DEF BlockhashExpires, ChainStates, Decided, OnChain
  <2>4. CASE UNCHANGED chain
    BY <2>4 DEF ChainGrows
  <2> QED
    BY <2>1, <2>2, <2>3, <2>4 DEF Cluster, DuelExpires, FundingFails, vars
<1> QED
  BY <1>1, <1>2, <1>4, <1>5, ReceiptKept

\* A process that gives its row a message, or goes on with the one it has.
LEMMA PersistTells ==
  ASSUME SettlementInv, SettlementInv', ReceiptInv, NEW p \in Procs, PersistTrackedIntent(p)
  PROVE  ReceiptInv'
<1> DEFINE r == job[p].row
           row == rows[r]
           kept(new) == /\ rows' = [rows EXCEPT ![r] = new]
                        /\ job' = [job EXCEPT ![p].op = "send", ![p].gen = new.gen]
<1>1. UNCHANGED <<duel, chain>> /\ ChainGrows
  BY DEF PersistTrackedIntent, ChainGrows
<1>2. /\ job \in [Procs -> JobType] /\ job[p] \in JobType /\ r \in Rows
      /\ rows \in [Rows -> RowType] /\ row \in RowType
  BY Types DEF SettlementInv, JobType
<1>3. ASSUME NEW x \in RowType, rows' = [rows EXCEPT ![r] = x], Tells(r, x),
             job' = [job EXCEPT ![p].op = "send", ![p].gen = x.gen]
      PROVE  ReceiptInv'
  <2> DEFINE y == [job[p] EXCEPT !.op = "send", !.gen = x.gen]
  <2>1. y.op = "send"
    BY <1>2 DEF JobType
  <2>2. job' = [job EXCEPT ![p] = y]
    BY <1>3
  <2> HIDE DEF y
  <2>3. Quiet(p)
    BY <2>1, <2>2 DEF Quiet
  <2>4. \A q \in Rows : rows'[q] = rows[q] \/ (UNCHANGED chain /\ Tells(q, rows'[q]))
    BY <1>1, <1>2, <1>3
  <2> QED
    BY <1>1, <2>3, <2>4, QuietHasReason, ReceiptKept
<1>4. RowsTellFinality
  BY DEF ReceiptInv
<1>5. CASE row.st = "NONE" /\ kept([NoRow EXCEPT !.st = "PREPARED", !.gen = 1])
  <2> DEFINE x == [NoRow EXCEPT !.st = "PREPARED", !.gen = 1]
  <2>1. 1 \in 0..MaxGens /\ "PREPARED" \in RowStatuses
    BY SettlementConstants DEF RowStatuses
  <2>2. x \in RowType /\ x.st = "PREPARED" /\ ~x.alert
    BY <2>1, InitialRecords DEF NoRow, RowType
  <2>3. row.sig = 0
    BY <1>2, <1>5, InitialRecords DEF SettlementInv, RowsAreWhole
  <2>4. rows' = [rows EXCEPT ![r] = x]
        /\ job' = [job EXCEPT ![p].op = "send", ![p].gen = x.gen]
    BY <1>5
  <2> HIDE DEF x
  <2>5. Tells(r, x)
    BY <2>2, <2>3 DEF Tells
  <2> QED
    BY <1>3, <2>2, <2>4, <2>5
<1>6. CASE /\ Renewable(row) /\ row.gen < MaxGens
           /\ kept([row EXCEPT !.gen = row.gen + 1, !.checked = FALSE])
  <2> DEFINE x == [row EXCEPT !.gen = row.gen + 1, !.checked = FALSE]
  <2>1. row.gen + 1 \in 0..MaxGens
    BY <1>2, <1>6, SettlementConstants DEF RowType
  <2>2. x \in RowType /\ x.st = row.st /\ x.alert = row.alert /\ x.sig = row.sig
    <3>1. row \in RowType
      BY <1>2
    <3> HIDE DEF row
    <3> QED
      BY <2>1, <3>1 DEF RowType
  <2>3. rows' = [rows EXCEPT ![r] = x]
        /\ job' = [job EXCEPT ![p].op = "send", ![p].gen = x.gen]
    BY <1>6
  <2> HIDE DEF x
  <2>4. Tells(r, x)
    BY <1>2, <1>4, <2>2 DEF Tells, RowsTellFinality
  <2> QED
    BY <1>3, <2>2, <2>3, <2>4
<1>7. CASE kept(row)
  <2>1. Tells(r, row)
    BY <1>2, <1>4 DEF Tells, RowsTellFinality
  <2> QED
    BY <1>2, <1>3, <1>7, <2>1
<1>8. CASE Stop(p) /\ UNCHANGED rows
  BY <1>1, <1>8, StopIsQuiet, QuietHasReason, ReceiptKept
<1> QED
  BY <1>5, <1>6, <1>7, <1>8 DEF PersistTrackedIntent

\* A row that keeps its word is bound to a message, its alert withdrawn.
LEMMA BoundTells ==
  ASSUME SettlementInv, NEW r \in Rows, NEW g \in Gens, MayBind(r), rows' = Bound(r, g)
  PROVE  \A q \in Rows : rows'[q] = rows[q] \/ Tells(q, rows'[q])
<1>1. rows \in [Rows -> RowType] /\ rows[r] \in RowType
  BY Types DEF SettlementInv
<1>2. rows[r].sig = 0
  BY DEF MayBind, SettlementInv, RowsAreWhole
<1>3. rows'[r].st = "SUBMITTED" /\ rows'[r].alert = FALSE
  BY <1>1 DEF Bound, RowType
<1>4. \A q \in Rows : q # r => rows'[q] = rows[q]
  BY <1>1 DEF Bound
<1> QED
  BY <1>2, <1>3, <1>4 DEF Tells

LEMMA BindTells ==
  ASSUME SettlementInv, SettlementInv', ReceiptInv, NEW p \in Procs,
         BindSubmission(p) \/ BindRecovered(p)
  PROVE  ReceiptInv'
<1> DEFINE r == job[p].row
<1>1. UNCHANGED <<duel, chain>> /\ ChainGrows
  BY DEF BindSubmission, BindRecovered, ChainGrows
<1>2. job \in [Procs -> JobType] /\ job[p] \in JobType /\ r \in Rows
  BY Types DEF SettlementInv, JobType
<1>3. job[p].gen \in Gens
  BY <1>2 DEF BindSubmission, BindRecovered, SettlementInv, JobsAreSound, KnowsTheChain,
     JobType, Gens
<1>4. \A q \in Rows : rows'[q] = rows[q] \/ (UNCHANGED chain /\ Tells(q, rows'[q]))
  <2>1. UNCHANGED rows \/ (MayBind(r) /\ rows' = Bound(r, job[p].gen))
    BY DEF BindSubmission, BindRecovered
  <2> QED
    BY <1>1, <1>2, <1>3, <2>1, BoundTells
<1>5. \A z \in Procs : job'[z] = job[z] \/ HasReason(job'[z])
  <2>1. CASE Stop(p) \/ Goto(p, "assets")
    BY <2>1, StopIsQuiet, GotoIsQuiet, QuietHasReason
  <2>2. CASE job[p].op = "bindFound" /\ Goto(p, "alert")
    <3>1. Landed(r, Final)
      BY <2>2 DEF ReceiptInv, JobsTellFinality
    <3>2. job'[p].row = r /\ \A z \in Procs : z # p => job'[z] = job[z]
      BY <1>2, <2>2 DEF Goto, JobType
    <3> QED
      BY <3>1, <3>2 DEF HasReason
  <2> QED
    BY <2>1, <2>2 DEF BindSubmission, BindRecovered
<1> QED
  BY <1>1, <1>4, <1>5, ReceiptKept

\* A process that writes one row, or none, and stops.
LEMMA WriterTells ==
  ASSUME SettlementInv, SettlementInv', ReceiptInv, UNCHANGED chain, NEW p \in Procs, Stop(p),
         NEW r \in Rows, \A q \in Rows : q # r => rows'[q] = rows[q],
         rows'[r] = rows[r] \/ Tells(r, rows'[r]),
         \/ duel'.status = "SETTLED" => duel.status = "SETTLED"
         \/ rows'[Settle].sig > 0 /\ chain'[Settle][rows'[Settle].sig] = "finalized"
  PROVE  ReceiptInv'
<1>1. ChainGrows
  BY DEF ChainGrows
<1>2. \A z \in Procs : job'[z] = job[z] \/ HasReason(job'[z])
  BY StopIsQuiet, QuietHasReason
<1>3. \A q \in Rows : rows'[q] = rows[q] \/ (UNCHANGED chain /\ Tells(q, rows'[q]))
  OBVIOUS
<1> QED
  BY <1>1, <1>2, <1>3, ReceiptKept

LEMMA RecordConfirmedTells ==
  ASSUME SettlementInv, SettlementInv', ReceiptInv, NEW p \in Procs, RecordConfirmed(p)
  PROVE  ReceiptInv'
<1> DEFINE r == job[p].row
<1>1. r \in Rows /\ rows \in [Rows -> RowType] /\ rows[r] \in RowType
  BY Types DEF SettlementInv, JobType
<1>2. /\ rows'[r].st = "CONFIRMED" /\ rows'[r].alert = rows[r].alert
      /\ rows'[r].sig = rows[r].sig /\ \A q \in Rows : q # r => rows'[q] = rows[q]
  BY <1>1 DEF RecordConfirmed, RowType
<1>3. Tells(r, rows'[r])
  BY <1>1, <1>2 DEF Tells, ReceiptInv, RowsTellFinality
<1> HIDE DEF r
<1> QED
  BY <1>1, <1>2, <1>3, WriterTells DEF RecordConfirmed

\* A row closed by its id keeps its signature and its alert.
LEMMA ClosingTells ==
  ASSUME SettlementInv, ReceiptInv, NEW r \in Rows, NEW st, RowBecomes(r, st),
         st = "FINALIZED" => chain[r][rows[r].sig] = "finalized"
  PROVE  /\ rows'[r].sig = rows[r].sig /\ Tells(r, rows'[r])
         /\ \A q \in Rows : q # r => rows'[q] = rows[q]
<1>1. rows \in [Rows -> RowType] /\ rows[r] \in RowType
  BY Types DEF SettlementInv
<1>2. /\ rows'[r].st = st /\ rows'[r].alert = rows[r].alert /\ rows'[r].sig = rows[r].sig
      /\ \A q \in Rows : q # r => rows'[q] = rows[q]
  BY <1>1 DEF RowBecomes, RowType
<1> QED
  BY <1>2 DEF Tells, ReceiptInv, RowsTellFinality

LEMMA RecordTerminalTells ==
  ASSUME SettlementInv, SettlementInv', ReceiptInv, NEW p \in Procs, RecordTerminal(p)
  PROVE  ReceiptInv'
<1> DEFINE r == job[p].row
           st == IF job[p].saw = "null" THEN "EXPIRED" ELSE "FAILED"
           target == TerminalTarget(r, job[p].from)
<1>1. UNCHANGED chain /\ Stop(p) /\ st # "FINALIZED"
  BY DEF RecordTerminal
<1>2. r \in Rows /\ job[p].from \in DuelStatuses /\ duel \in DuelType
  BY Recording DEF RecordTerminal
<1>3. \/ UNCHANGED <<rows, duel>>
      \/ /\ RowBecomes(r, st)
         /\ \/ UNCHANGED duel
            \/ CanTransition(job[p].from, target) /\ duel' = [duel EXCEPT !.status = target]
  BY DEF RecordTerminal, RowAndDuelBecome
<1>4. duel'.status = "SETTLED" => duel.status = "SETTLED"
  <2>1. CanTransition(job[p].from, target) => target \in {"REFUNDING", "FAILED"}
    BY <1>2, Routes
  <2> HIDE DEF target, st
  <2> QED
    BY <1>2, <1>3, <2>1 DEF DuelType
<1>5. CASE UNCHANGED rows
  BY <1>1, <1>2, <1>4, <1>5, WriterTells
<1>6. CASE RowBecomes(r, st)
  <2> HIDE DEF st, r
  <2>1. /\ Tells(r, rows'[r]) /\ \A q \in Rows : q # r => rows'[q] = rows[q]
    BY <1>1, <1>2, <1>6, ClosingTells
  <2> QED
    BY <1>1, <1>2, <1>4, <2>1, WriterTells
<1> QED
  BY <1>3, <1>5, <1>6

\* A duel is settled with the row of its settlement, over a final message.
LEMMA RecordFinalizedTells ==
  ASSUME SettlementInv, SettlementInv', ReceiptInv, NEW p \in Procs, RecordFinalized(p)
  PROVE  ReceiptInv'
<1> DEFINE r == job[p].row
<1>1. UNCHANGED chain /\ Stop(p)
  BY DEF RecordFinalized
<1>2. /\ r \in Rows /\ rows[r].sig > 0 /\ chain[r][rows[r].sig] = "finalized"
      /\ duel \in DuelType
  BY Recording DEF RecordFinalized
<1>3. \/ UNCHANGED <<rows, duel>>
      \/ \E st \in {"FINALIZED", "FAILED"} :
           RowBecomes(r, st) /\ (UNCHANGED duel \/ duel' = [duel EXCEPT !.status = To(r)])
  BY DEF RecordFinalized, RowAndDuelBecome
<1>4. CASE UNCHANGED <<rows, duel>>
  BY <1>1, <1>2, <1>4, WriterTells
<1>5. ASSUME NEW st \in {"FINALIZED", "FAILED"}, RowBecomes(r, st),
             UNCHANGED duel \/ duel' = [duel EXCEPT !.status = To(r)]
      PROVE  ReceiptInv'
  <2>1. /\ Tells(r, rows'[r]) /\ rows'[r].sig = rows[r].sig
        /\ \A q \in Rows : q # r => rows'[q] = rows[q]
    BY <1>2, <1>5, ClosingTells
  <2>2. \/ duel'.status = "SETTLED" => duel.status = "SETTLED"
        \/ r = Settle
    BY <1>2, <1>5, FromTo DEF DuelType
  <2>3. CASE r = Settle
    <3>1. rows'[Settle].sig > 0 /\ chain'[Settle][rows'[Settle].sig] = "finalized"
      BY <1>1, <1>2, <2>1, <2>3
    <3> HIDE DEF r
    <3> QED
      BY <1>1, <1>2, <2>1, <3>1, WriterTells
  <2> HIDE DEF r
  <2> QED
    BY <1>1, <1>2, <2>1, <2>2, <2>3, WriterTells
<1> QED
  BY <1>3, <1>4, <1>5

LEMMA ScanEmptyTells ==
  ASSUME SettlementInv, SettlementInv', ReceiptInv, NEW p \in Procs, ScanEmpty(p)
  PROVE  ReceiptInv'
<1> DEFINE r == job[p].row
<1>1. UNCHANGED <<duel, chain>> /\ Stop(p)
  BY DEF ScanEmpty
<1>2. r \in Rows /\ rows \in [Rows -> RowType] /\ rows[r] \in RowType
  BY Types DEF SettlementInv, JobType
<1>3. /\ rows'[r].st \in {rows[r].st, "EXPIRED"} /\ rows'[r].alert = rows[r].alert
      /\ rows'[r].sig = rows[r].sig /\ \A q \in Rows : q # r => rows'[q] = rows[q]
  BY <1>2 DEF ScanEmpty, RowType
<1>4. Tells(r, rows'[r])
  BY <1>2, <1>3 DEF Tells, ReceiptInv, RowsTellFinality
<1> HIDE DEF r
<1> QED
  BY <1>1, <1>2, <1>3, <1>4, WriterTells

LEMMA RecoveryAlertTells ==
  ASSUME SettlementInv, SettlementInv', ReceiptInv, NEW p \in Procs, RecordRecoveryAlert(p)
  PROVE  ReceiptInv'
<1> DEFINE r == job[p].row
<1>1. UNCHANGED chain /\ Stop(p) /\ job[p].op = "alert"
  BY DEF RecordRecoveryAlert
<1>2. /\ r \in Rows /\ rows \in [Rows -> RowType] /\ rows[r] \in RowType
      /\ duel \in DuelType
  BY Types DEF SettlementInv, JobType
<1>3. duel'.status = "SETTLED" => duel.status = "SETTLED"
  <2>1. RecoveryAlertTarget(duel.status) \in {duel.status, "REFUNDING"}
    BY <1>2, Routes DEF DuelType
  <2>2. UNCHANGED duel \/ duel' = [duel EXCEPT !.status = RecoveryAlertTarget(duel.status)]
    BY DEF RecordRecoveryAlert
  <2> QED
    BY <1>2, <2>1, <2>2 DEF DuelType
<1>4. CASE UNCHANGED rows
  BY <1>1, <1>2, <1>3, <1>4, WriterTells
<1>5. CASE rows' = [rows EXCEPT ![r].alert = TRUE]
  <2>1. /\ rows'[r].st = rows[r].st /\ rows'[r].sig = rows[r].sig
        /\ \A q \in Rows : q # r => rows'[q] = rows[q]
    BY <1>2, <1>5 DEF RowType
  <2>2. Landed(r, Final)
    BY <1>1 DEF ReceiptInv, JobsTellFinality
  <2>3. Tells(r, rows'[r])
    BY <1>2, <2>1, <2>2 DEF Tells, ReceiptInv, RowsTellFinality
  <2> HIDE DEF r
  <2> QED
    BY <1>1, <1>2, <1>3, <2>1, <2>3, WriterTells
<1> QED
  BY <1>4, <1>5 DEF RecordRecoveryAlert

\* Every step keeps it.
LEMMA ReceiptSteps == SettlementInv /\ ReceiptInv /\ [Next]_vars => ReceiptInv'
<1> SUFFICES ASSUME SettlementInv, ReceiptInv, [Next]_vars PROVE ReceiptInv'
  OBVIOUS
<1>1. SettlementInv'
  BY SettlementSteps
<1>2. ASSUME NEW p \in Procs, Continue(p) PROVE ReceiptInv'
  BY <1>1, <1>2, PersistTells, ClusterTells, BindTells, ReadersTell, RecordConfirmedTells,
     RecordTerminalTells, RecordFinalizedTells, ScanEmptyTells, RecoveryAlertTells DEF Continue
<1>3. ASSUME NEW p \in Procs,
             ReadRefunding(p) \/ AskForResult(p) \/ \E r \in Rows : Visit(p, r)
      PROVE  ReceiptInv'
  BY <1>1, <1>3, BeginnersTell
<1>4. CASE Cluster \/ DuelExpires \/ FundingFails \/ UNCHANGED vars
  BY <1>1, <1>4, ClusterTells
<1> QED
  BY <1>2, <1>3, <1>4 DEF Next

\* The rows on the receipt, and what their actions tell.
LEMMA RowsOnReceipt ==
  /\ \A t \in ReceiptRows : \E r \in Rows :
       /\ t.row = r /\ t.sig = rows[r].sig /\ t.status = rows[r].st /\ t.action = ActionOf(r)
       /\ t.alert = rows[r].alert /\ t.signed = (rows[r].sig > 0) /\ t.recovered = FALSE
  /\ \A r \in Rows : rows[r].st # "NONE" => RowRecord(r) \in ReceiptRows
  /\ \A r \in Rows : /\ ActionOf(r) = "commit_result" => r = Commit
                     /\ ActionOf(r) = "settle" => r = Settle
  /\ ActionOf(Settle) = "settle"
<1>1. \A r \in Rows :
        /\ RowRecord(r).row = r /\ RowRecord(r).sig = rows[r].sig
        /\ RowRecord(r).status = rows[r].st /\ RowRecord(r).action = ActionOf(r)
        /\ RowRecord(r).alert = rows[r].alert /\ RowRecord(r).signed = (rows[r].sig > 0)
        /\ RowRecord(r).recovered = FALSE
  BY DEF RowRecord
<1>2. \A t : t \in ReceiptRows <=> \E r \in Rows : rows[r].st # "NONE" /\ t = RowRecord(r)
  BY DEF ReceiptRows
<1>3. Commit # Settle
  BY DEF Commit, Settle
<1>4. \A r \in Rows : /\ ActionOf(r) = "commit_result" => r = Commit
                      /\ ActionOf(r) = "settle" => r = Settle
  BY DEF ActionOf
<1>5. ActionOf(Settle) = "settle"
  BY <1>3 DEF ActionOf
<1>6. \A t \in ReceiptRows : \E r \in Rows :
        /\ t.row = r /\ t.sig = rows[r].sig /\ t.status = rows[r].st /\ t.action = ActionOf(r)
        /\ t.alert = rows[r].alert /\ t.signed = (rows[r].sig > 0) /\ t.recovered = FALSE
  BY <1>1, <1>2
<1> QED
  BY <1>2, <1>4, <1>5, <1>6

\* The receipt is never refused; its duel has two outcomes, the creator's worth more, or none.
LEMMA ReceiptGiven ==
  /\ ReceiptDuel.status = duel.status /\ ReceiptDuel.mode = "dailydraft-devnet"
  /\ ReceiptDuel.creator = 1
  /\ ReceiptDuel.values # <<>> => ReceiptDuel.winnerSide = "creator"
  /\ Receipt = [status |-> PublicStatus(ReceiptDuel),
                attestation |-> ProviderAttestation(ReceiptDuel, ReceiptRows),
                signatures |-> {t \in ReceiptRows : t.signed},
                missing |-> ReceiptMissingFields(ReceiptDuel, ReceiptRows),
                cardActions |-> CardActions(ReceiptDuel, ReceiptRows),
                owners |-> [side \in {"creator", "opponent"} |-> OwnerForOutcome(ReceiptDuel, side)],
                fees |-> TotalFinalizedAmount(ReceiptRows),
                recovery |-> RecoveryStatus(ReceiptRows), primary |-> ReceiptActions(ReceiptDuel)]
<1>1. /\ ReceiptDuel.status = duel.status /\ ReceiptDuel.mode = "dailydraft-devnet"
      /\ ReceiptDuel.creator = 1 /\ ReceiptDuel.opponent = 2 /\ ReceiptDuel.escrow
      /\ ReceiptDuel.ready
      /\ \/ ReceiptDuel.values = <<>>
         \/ ReceiptDuel.values = <<2, 1>> /\ ReceiptDuel.winnerSide = "creator"
  BY DEF ReceiptDuel
<1>2. Len(<<2, 1>>) = 2 /\ WinnerSideOf(<<2, 1>>) = "creator"
  BY DEF WinnerSideOf
<1>3. ReceiptDuel.values # <<>> => ResultReproduces(ReceiptDuel)
  BY <1>1, <1>2 DEF ResultReproduces, NoWallet
<1> QED
  BY <1>1, <1>3 DEF Receipt, PublicReceipt

\* What the receipt says follows from what the rows tell.
LEMMA ReceiptTells == SettlementInv /\ ReceiptInv => ReceiptIsBacked
<1> SUFFICES ASSUME SettlementInv, ReceiptInv PROVE ReceiptIsBacked
  OBVIOUS
<1>1. \A r \in Rows : rows[r].st = "FINALIZED" =>
        rows[r].sig > 0 /\ chain[r][rows[r].sig] \in Final /\ Landed(r, Final)
  <2>1. ASSUME NEW r \in Rows, rows[r].st = "FINALIZED"
        PROVE  rows[r].sig \in Gens /\ rows[r].sig > 0
    BY <2>1, Types DEF SettlementInv, RowType, Gens
  <2> QED
    BY <2>1 DEF ReceiptInv, RowsTellFinality, Landed, Final
<1>2. Receipt.status # "refused" /\ Receipt.status = PublicStatus(ReceiptDuel)
  <2>1. duel.status # "refused"
    BY Types DEF SettlementInv, DuelType, DuelStatuses
  <2>2. Receipt.status = PublicStatus(ReceiptDuel)
    BY ReceiptGiven
  <2> QED
    BY <2>1, <2>2, ReceiptGiven DEF PublicStatus
<1>3. ASSUME Receipt.cardActions = "available"
      PROVE  Landed(Settle, Final) /\ Receipt.owners["opponent"] = 1
  <2>1. CardActions(ReceiptDuel, ReceiptRows) = "available"
    BY <1>3, ReceiptGiven
  <2>2. ReceiptDuel.values # <<>> /\ ReceiptDuel.status = "SETTLED"
    BY <2>1 DEF CardActions
  <2>3. OwnerForOutcome(ReceiptDuel, "opponent") = 1
    BY <2>2, ReceiptGiven DEF OwnerForOutcome
  <2>4. Receipt.owners["opponent"] = 1
    BY <2>3, ReceiptGiven
  <2> QED
    BY <2>2, <2>4, ReceiptGiven DEF SettlementInv, SettledIsBacked
<1>4. ASSUME Receipt.attestation = "on-chain-commitment-finalized"
      PROVE  Landed(Commit, Final)
  <2>1. ProviderAttestation(ReceiptDuel, ReceiptRows) = "on-chain-commitment-finalized"
    BY <1>4, ReceiptGiven
  <2>2. PICK t \in ReceiptRows : t.action = "commit_result" /\ t.status = "FINALIZED"
    BY <2>1 DEF ProviderAttestation, ProviderCommitmentFinalized, FinalizedRows
  <2> QED
    BY <1>1, <2>2, RowsOnReceipt
<1>5. Receipt.signatures = {t \in ReceiptRows : t.signed}
  BY ReceiptGiven
<1>6. \A t \in Receipt.signatures : t.status = "FINALIZED" => chain[t.row][t.sig] \in Final
  BY <1>1, <1>5, RowsOnReceipt
<1>7. ASSUME Receipt.recovery = "attention-required"
      PROVE  \E t \in RecoveryAlerts(ReceiptRows) : Landed(t.row, Final)
  <2>1. RecoveryStatus(ReceiptRows) = "attention-required"
    BY <1>7, ReceiptGiven
  <2>2. PICK t : t \in RecoveryAlerts(ReceiptRows)
    BY <2>1 DEF RecoveryStatus
  <2>3. t \in ReceiptRows /\ t.alert
    BY <2>2 DEF RecoveryAlerts
  <2>4. Landed(t.row, Final)
    BY <2>3, RowsOnReceipt DEF ReceiptInv, RowsTellFinality
  <2> QED
    BY <2>2, <2>4
<1>8. ASSUME Receipt.status = "SETTLED"
      PROVE  \E t \in Receipt.signatures : t.action = "settle" /\ chain[t.row][t.sig] \in Final
  <2>1. duel.status = "SETTLED"
    BY <1>2, <1>8, ReceiptGiven DEF PublicStatus
  <2>2. rows[Settle].sig > 0 /\ chain[Settle][rows[Settle].sig] \in Final
    BY <2>1 DEF ReceiptInv, SettledIsSigned, Final
  <2>3. rows[Settle].st # "NONE"
    BY <2>2, RowNames, InitialRecords DEF SettlementInv, RowsAreWhole
  <2>4. RowRecord(Settle) \in ReceiptRows /\ ActionOf(Settle) = "settle"
    BY <2>3, RowNames, RowsOnReceipt
  <2>5. /\ RowRecord(Settle).row = Settle /\ RowRecord(Settle).sig = rows[Settle].sig
        /\ RowRecord(Settle).action = ActionOf(Settle)
        /\ RowRecord(Settle).signed = (rows[Settle].sig > 0)
    BY DEF RowRecord
  <2>6. RowRecord(Settle) \in Receipt.signatures
    BY <1>5, <2>2, <2>4, <2>5
  <2> QED
    BY <2>2, <2>4, <2>5, <2>6
<1> QED
  BY <1>2, <1>3, <1>4, <1>6, <1>7, <1>8 DEF ReceiptIsBacked

\* Whatever passes, retries and late writes have recorded, the public receipt of the duel is
\* given, and what it calls final is final on the cluster, under the signature it names.
THEOREM ReceiptBacked == Spec => []ReceiptIsBacked
<1>1. Init => SettlementInv /\ ReceiptInv
  BY SettlementStart, ReceiptStart
<1>2. SettlementInv /\ ReceiptInv /\ [Next]_vars => (SettlementInv /\ ReceiptInv)'
  BY SettlementSteps, ReceiptSteps
<1> QED
  BY <1>1, <1>2, ReceiptTells, PTL DEF Spec
-----------------------------------------------------------------------------
(***************************************************************************)
(* DuelSettlement implements PayoutPromise.                                *)
(***************************************************************************)
\* The cluster knows as much of every row as before, for what is on chain and what is
\* final.
SameLanded == \A r \in Rows : /\ Landed(r, OnChain)' <=> Landed(r, OnChain)
                              /\ Landed(r, Final)' <=> Landed(r, Final)

\* Row r has come on chain, or become final, and no other.
ComesOnChain(r) ==
  /\ Landed(r, OnChain)'
  /\ \A q \in Rows : /\ q # r => (Landed(q, OnChain)' <=> Landed(q, OnChain))
                     /\ Landed(q, Final)' <=> Landed(q, Final)
BecomesFinal(r) ==
  /\ Landed(r, Final)'
  /\ \A q \in Rows : /\ Landed(q, OnChain)' <=> Landed(q, OnChain)
                     /\ q # r => (Landed(q, Final)' <=> Landed(q, Final))

\* A message that neither was nor comes on chain changes none of it.
LEMMA LandedUnmoved ==
  ASSUME \A r \in Rows, g \in Gens : /\ chain'[r][g] \in OnChain <=> chain[r][g] \in OnChain
                                     /\ chain'[r][g] \in Final <=> chain[r][g] \in Final
  PROVE  SameLanded
  BY DEF SameLanded, Landed

\* What one step makes of the escrow: nothing, or one accepted message comes on chain, or
\* one that was on chain becomes final; then the duel waits.
EscrowMoved ==
  /\ custody' = custody
  /\ \/ SameLanded
     \/ \E r \in Rows : duel' = duel /\ EscrowAccepts(r) /\ ComesOnChain(r)
     \/ \E r \in Rows : duel' = duel /\ Landed(r, OnChain) /\ BecomesFinal(r)

LEMMA EscrowMoves == SettlementInv /\ [Next]_vars => EscrowMoved
<1> SUFFICES ASSUME SettlementInv, [Next]_vars PROVE EscrowMoved
  OBVIOUS
<1>0. chain \in [Rows -> [Gens -> ChainStates]]
  BY Types DEF SettlementInv
<1>a. ASSUME custody' = custody, chain' = chain PROVE EscrowMoved
  BY <1>a, LandedUnmoved DEF EscrowMoved
<1>b. ASSUME NEW r \in Rows, NEW g \in Gens, NEW c \in ChainStates, custody' = custody,
             chain' = [chain EXCEPT ![r][g] = c],
             chain[r][g] \notin OnChain, c \notin OnChain
      PROVE  EscrowMoved
  <2>1. \A q \in Rows, h \in Gens :
          chain'[q][h] = IF q = r /\ h = g THEN c ELSE chain[q][h]
    BY <1>0, <1>b
  <2>2. SameLanded
    BY <1>b, <2>1, LandedUnmoved DEF OnChain, Final
  <2> QED
    BY <1>b, <2>2 DEF EscrowMoved
<1>1. ASSUME NEW p \in Procs, SignAndSend(p) PROVE EscrowMoved
  <2> DEFINE r == job[p].row
             g == job[p].gen
  <2>1. /\ r \in Rows /\ g \in Gens /\ custody' = custody
    BY <1>1, SenderHasMessage DEF SignAndSend, world
  <2>2. \/ chain' = chain
        \/ chain[r][g] \in {"unsent", "sent"} /\ chain' = [chain EXCEPT ![r][g] = "sent"]
    BY <1>1 DEF SignAndSend
  <2>3. "sent" \in ChainStates /\ "sent" \notin OnChain
        /\ (chain[r][g] \in {"unsent", "sent"} => chain[r][g] \notin OnChain)
    BY DEF ChainStates, OnChain
  <2> HIDE DEF r, g
  <2> QED
    BY <1>a, <1>b, <2>1, <2>2, <2>3
<1>2. ASSUME NEW r \in Rows, BlockhashExpires(r) PROVE EscrowMoved
  <2> DEFINE g == rows[r].gen
  <2>1. /\ chain[r][g] \in {"unsent", "sent"} /\ chain' = [chain EXCEPT ![r][g] = "dead"]
        /\ custody' = custody
    BY <1>2 DEF BlockhashExpires, world
  <2>2. g \in Gens
    BY <1>2, Types DEF SettlementInv, RowsAreWhole, BlockhashExpires, ACTIVE_REFUND_STATUSES,
                       RowType, Gens
  <2>3. "dead" \in ChainStates /\ "dead" \notin OnChain /\ chain[r][g] \notin OnChain
    BY <2>1 DEF ChainStates, OnChain
  <2> HIDE DEF g
  <2> QED
    BY <1>b, <2>1, <2>2, <2>3
<1>3. ASSUME NEW r \in Rows, NEW g \in Gens, Lands(r, g) PROVE EscrowMoved
  <2>1. /\ chain[r][g] = "sent" /\ duel' = duel /\ custody' = custody
        /\ \/ chain' = [chain EXCEPT ![r][g] = "error"]
           \/ EscrowAccepts(r) /\ chain' = [chain EXCEPT ![r][g] = "confirmed"]
    BY <1>3 DEF Lands, world
  <2>2. CASE chain' = [chain EXCEPT ![r][g] = "error"]
    <3>1. "error" \in ChainStates /\ "error" \notin OnChain /\ chain[r][g] \notin OnChain
      BY <2>1 DEF ChainStates, OnChain
    <3> QED
      BY <1>b, <2>1, <2>2, <3>1
  <2>3. CASE EscrowAccepts(r) /\ chain' = [chain EXCEPT ![r][g] = "confirmed"]
    <3>1. \A q \in Rows, h \in Gens :
            chain'[q][h] = IF q = r /\ h = g THEN "confirmed" ELSE chain[q][h]
      BY <1>0, <2>3
    <3>2. ComesOnChain(r)
      BY <2>1, <3>1 DEF ComesOnChain, Landed, OnChain, Final
    <3> QED
      BY <2>1, <2>3, <3>2 DEF EscrowMoved
  <2> QED
    BY <2>1, <2>2, <2>3
<1>4. ASSUME NEW r \in Rows, NEW g \in Gens, Finalizes(r, g) PROVE EscrowMoved
  <2>1. /\ chain[r][g] = "confirmed" /\ duel' = duel /\ custody' = custody
        /\ chain' = [chain EXCEPT ![r][g] = "finalized"]
    BY <1>4 DEF Finalizes, world
  <2>2. \A q \in Rows, h \in Gens :
          chain'[q][h] = IF q = r /\ h = g THEN "finalized" ELSE chain[q][h]
    BY <1>0, <2>1
  <2>3. BecomesFinal(r) /\ Landed(r, OnChain)
    BY <2>1, <2>2 DEF BecomesFinal, Landed, OnChain, Final
  <2> QED
    BY <2>1, <2>3 DEF EscrowMoved
<1>5. ASSUME NEW p \in Procs, Continue(p), ~SignAndSend(p) PROVE EscrowMoved
  <2>1. CASE PersistTrackedIntent(p) \/ BindSubmission(p) \/ ReadState(p) \/ RefundNext(p)
    BY <1>a, <2>1 DEF PersistTrackedIntent, BindSubmission, ReadState, RefundNext, world
  <2>2. CASE RouteToSettlement(p) \/ Complete(p) \/ LoadRow(p) \/ RecordConfirmed(p)
    BY <1>a, <2>2 DEF RouteToSettlement, Complete, LoadRow, RecordConfirmed, world
  <2>3. CASE RecordTerminal(p) \/ RecordFinalized(p)
    BY <1>a, <2>3 DEF RecordTerminal, RecordFinalized, world
  <2>4. CASE ScanFound(p) \/ ScanEmpty(p) \/ BindRecovered(p) \/ RecordRecoveryAlert(p)
    BY <1>a, <2>4 DEF ScanFound, ScanEmpty, BindRecovered, RecordRecoveryAlert, world
  <2> QED
    BY <1>5, <2>1, <2>2, <2>3, <2>4 DEF Continue
<1>6. ASSUME NEW p \in Procs,
             ReadRefunding(p) \/ AskForResult(p) \/ \E r \in Rows : Visit(p, r)
      PROVE  EscrowMoved
  <2>1. CASE ReadRefunding(p)
    BY <1>a, <2>1 DEF ReadRefunding, world
  <2>2. ASSUME NEW r, BeginSettle(p, r) PROVE EscrowMoved
    BY <1>a, <2>2 DEF BeginSettle, world
  <2>3. ASSUME NEW r, ReadStatus(p, r) PROVE EscrowMoved
    BY <1>a, <2>3 DEF ReadStatus, world
  <2>4. ASSUME NEW r, BeginRecovery(p, r) PROVE EscrowMoved
    BY <1>a, <2>4 DEF BeginRecovery, world
  <2> QED
    BY <1>6, <2>1, <2>2, <2>3, <2>4 DEF AskForResult, Visit
<1>7. CASE DuelExpires \/ FundingFails \/ UNCHANGED vars
  <2>1. chain' = chain /\ custody' = custody
    BY <1>7 DEF DuelExpires, FundingFails, vars, world
  <2> QED
    BY <1>a, <2>1
<1>8. CASE Cluster
  BY <1>8, <1>2, <1>3, <1>4 DEF Cluster
<1> QED
  BY <1>1, <1>5, <1>6, <1>7, <1>8 DEF Next

\* The refunds of an asset, by what has landed.
LEMMA SameRefunds ==
  ASSUME NEW S, \A r \in Rows : Landed(r, S)' <=> Landed(r, S)
  PROVE  \A a \in Assets : Refunded(a, S)' <=> Refunded(a, S)
  BY RowNames DEF Refunded

\* The escrow has been emptied one way at the start.
LEMMA OneWayStart == Init => EscrowOneWay
<1> SUFFICES ASSUME Init PROVE EscrowOneWay
  OBVIOUS
<1>1. \A r \in Rows : rows[r].sig = 0 => ~Landed(r, OnChain)
  <2> SUFFICES ASSUME NEW r \in Rows, rows[r].sig = 0, NEW g \in Gens
               PROVE  chain[r][g] \notin OnChain
    BY DEF Landed
  <2>1. chain[r][g] = "unsent"
    BY SettlementConstants DEF Init, Gens
  <2> QED
    BY <2>1 DEF OnChain
<1>2. NoRow.sig = 0
  BY DEF NoRow
<1>3. CASE Resolved \/ Refunding
  <2>1. \A r \in Rows : ~Landed(r, OnChain)
    BY <1>1, <1>2, <1>3 DEF Resolved, Refunding
  <2> QED
    BY <2>1, RowNames DEF EscrowOneWay, Refunded
<1>4. CASE Rejected
  <2>1. \A a \in Assets, k \in 1..MaxAttempts : rows[<<a, k>>] = NoRow
    BY <1>4, RowNames DEF Rejected
  <2>2. \A a \in Assets : ~Refunded(a, OnChain)
    BY <1>1, <1>2, <2>1, RowNames DEF Refunded
  <2>3. Landed(Commit, OnChain)
    <3>1. rows[Commit] \in {OldRow("FAILED"), OldRow("FINALIZED")}
      BY <1>4, RowNames DEF Rejected
    <3>2. rows[Commit].sig = 1
      BY <3>1 DEF OldRow, NoRow
    <3>3. 1 \in Gens /\ chain[Commit][1] = "finalized"
      BY <3>2, RowNames, SettlementConstants DEF Init, Gens
    <3> QED
      BY <3>3 DEF Landed, OnChain
  <2> QED
    BY <1>4, <2>2, <2>3 DEF EscrowOneWay, Rejected
<1> QED
  BY <1>3, <1>4 DEF Init

\* The escrow program keeps it: each thing it accepts fits what it accepted before.
LEMMA OneWayStep ==
  ASSUME SettlementInv, EscrowOneWay, EscrowMoved
  PROVE  EscrowOneWay'
<1>0. custody' = custody
  BY DEF EscrowMoved
<1>1. CASE \A r \in Rows : Landed(r, OnChain)' <=> Landed(r, OnChain)
  <2>1. \A a \in Assets : Refunded(a, OnChain)' <=> Refunded(a, OnChain)
    BY <1>1, SameRefunds
  <2> QED
    BY <1>0, <1>1, <2>1, RowNames DEF EscrowOneWay
<1>2. ASSUME NEW r \in Rows, EscrowAccepts(r), ComesOnChain(r)
      PROVE  EscrowOneWay'
  <2>1. Landed(r, OnChain)' /\ \A q \in Rows : q # r => (Landed(q, OnChain)' <=> Landed(q, OnChain))
    BY <1>2 DEF ComesOnChain
  <2>2. ASSUME r \in {Commit, Settle}
        PROVE  \A a \in Assets : Refunded(a, OnChain)' <=> Refunded(a, OnChain)
    BY <2>1, <2>2, RowNames DEF Refunded
  <2>3. Commit # Settle
    BY DEF Commit, Settle
  <2>4. CASE r = Commit
    <3>1. \A a \in Assets : a \in custody /\ ~Refunded(a, OnChain) /\ ~Landed(Settle, OnChain)
      BY <1>2, <2>4 DEF EscrowAccepts, Held
    <3>2. ~Landed(Settle, OnChain)'  \/ Landed(Commit, OnChain)'
      BY <2>1, <2>4
    <3>3. custody = Assets
      BY <3>1, Types DEF SettlementInv
    <3> QED
      BY <1>0, <2>2, <2>4, <3>1, <3>2, <3>3 DEF EscrowOneWay
  <2>5. CASE r = Settle
    <3>1. Landed(Commit, OnChain) /\ (Landed(Commit, OnChain)' <=> Landed(Commit, OnChain))
      BY <1>2, <2>1, <2>3, <2>5, RowNames DEF EscrowAccepts
    <3> QED
      BY <1>0, <2>2, <2>5, <3>1 DEF EscrowOneWay
  <2>6. CASE r \notin {Commit, Settle}
    <3>1. ~Landed(Commit, OnChain) /\ r[1] \in custody
      BY <1>2, <2>6 DEF EscrowAccepts, Held
    <3>2. /\ Landed(Commit, OnChain)' <=> Landed(Commit, OnChain)
          /\ Landed(Settle, OnChain)' <=> Landed(Settle, OnChain)
      BY <2>1, <2>6, RowNames
    <3>3. ASSUME NEW a \in Assets, Refunded(a, OnChain)' PROVE a \in custody
      <4>1. PICK k \in 1..MaxAttempts : Landed(<<a, k>>, OnChain)'
        BY <3>3 DEF Refunded
      <4>2. CASE <<a, k>> = r
        BY <3>1, <4>2
      <4>3. CASE <<a, k>> # r
        BY <2>1, <4>1, <4>3, RowNames DEF EscrowOneWay, Refunded
      <4> QED
        BY <4>2, <4>3
    <3> QED
      BY <1>0, <3>1, <3>2, <3>3 DEF EscrowOneWay
  <2> QED
    BY <2>4, <2>5, <2>6
<1> QED
  BY <1>1, <1>2 DEF EscrowMoved, SameLanded, BecomesFinal

\* The promise and the settlement share duel-state.ts.
LEMMA PayoutGraph ==
  /\ \A a, b : Payout!CanTransition(a, b) <=> CanTransition(a, b)
  /\ \A s : Payout!RecoveryAlertTarget(s) = RecoveryAlertTarget(s)
<1>1. Payout!DuelStatuses = DuelStatuses
  BY DEF Payout!DuelStatuses, DuelStatuses
<1>2. Payout!AllowedTransitions = AllowedTransitions
  BY <1>1 DEF Payout!AllowedTransitions, AllowedTransitions
<1> QED
  BY <1>2 DEF Payout!CanTransition, CanTransition,
              Payout!RecoveryAlertTarget, RecoveryAlertTarget

\* How a step may move the status.
Edge(s, t) == \/ CanTransition(s, t)
              \/ t = RecoveryAlertTarget(s)
              \/ s = "REFUNDING" /\ t = "SETTLED"

\* The edges that settlement uses.
LEMMA PayoutEdges ==
  /\ CanTransition("AWAITING_ASSETS", "SETTLING") /\ CanTransition("SETTLING", "SETTLED")
  /\ CanTransition("REFUNDING", "SETTLING") /\ CanTransition("REFUNDING", "REFUNDED")
  /\ CanTransition("AWAITING_ASSETS", "REFUNDING") /\ CanTransition("SETTLING", "REFUNDING")
  BY DEF CanTransition, AllowedTransitions, DuelStatuses

\* Every step moves the status along an edge, and then leaves the cluster alone.
LEMMA StatusMoves ==
  ASSUME SettlementInv, [Next]_vars
  PROVE  duel'.status # duel.status => chain' = chain /\ Edge(duel.status, duel'.status)
<1> DEFINE s == duel.status
           Goal == duel'.status # s => chain' = chain /\ Edge(s, duel'.status)
<1>0. duel \in DuelType
  BY Types DEF SettlementInv
<1>a. \A t : duel' = [duel EXCEPT !.status = t] => duel'.status = t
  BY <1>0 DEF DuelType
<1>b. UNCHANGED duel => Goal
  OBVIOUS
<1>1. ASSUME NEW p \in Procs, Continue(p) PROVE Goal
  <2>1. CASE RouteToSettlement(p) \/ Complete(p)
    BY <1>a, <2>1, PayoutEdges DEF RouteToSettlement, Complete, MoveFrom, Edge
  <2>2. CASE RecordTerminal(p)
    <3>1. chain' = chain
      BY <2>2 DEF RecordTerminal
    <3>2. \/ UNCHANGED duel
          \/ \E t : s = job[p].from /\ CanTransition(job[p].from, t)
                    /\ duel' = [duel EXCEPT !.status = t]
      BY <2>2 DEF RecordTerminal, RowAndDuelBecome
    <3> QED
      BY <1>a, <3>1, <3>2 DEF Edge
  <2>3. CASE RecordFinalized(p)
    <3> DEFINE r == job[p].row
    <3>1. chain' = chain
      BY <2>3 DEF RecordFinalized
    <3>2. \/ UNCHANGED duel
          \/ /\ s = From(r) \/ s = "REFUNDING"
             /\ duel' = [duel EXCEPT !.status = To(r)]
      BY <2>3 DEF RecordFinalized, RowAndDuelBecome
    <3>3. \/ From(r) = "AWAITING_ASSETS" /\ To(r) = "SETTLING"
          \/ From(r) = "SETTLING" /\ To(r) = "SETTLED"
          \/ From(r) = "REFUNDING" /\ To(r) = "REFUNDING"
      BY DEF From, To, Commit, Settle
    <3> QED
      BY <1>a, <3>1, <3>2, <3>3, PayoutEdges DEF Edge
  <2>4. CASE RecordRecoveryAlert(p)
    <3>1. /\ chain' = chain
          /\ \/ UNCHANGED duel
             \/ duel' = [duel EXCEPT !.status = RecoveryAlertTarget(s)]
      BY <2>4 DEF RecordRecoveryAlert
    <3> QED
      BY <1>a, <3>1 DEF Edge
  <2>5. CASE UNCHANGED duel
    BY <2>5
  <2> QED
    BY <1>1, <2>1, <2>2, <2>3, <2>4, <2>5
    DEF Continue, PersistTrackedIntent, SignAndSend, BindSubmission, ReadState, RefundNext,
        LoadRow, RecordConfirmed, ScanFound, ScanEmpty, BindRecovered
<1>2. CASE FundingFails
  <2>1. /\ chain' = chain /\ s \in {"AWAITING_ASSETS", "SETTLING"}
        /\ duel' = [duel EXCEPT !.status = RecoveryStatusAfterTransactionFailure(s)]
    BY <1>2 DEF FundingFails
  <2>2. RecoveryStatusAfterTransactionFailure(s) = "REFUNDING"
    BY <2>1 DEF RecoveryStatusAfterTransactionFailure
  <2> QED
    BY <1>a, <2>1, <2>2, PayoutEdges DEF Edge
<1>3. CASE UNCHANGED duel
  BY <1>3
<1> QED
  BY <1>1, <1>2, <1>3
  DEF Next, ReadRefunding, AskForResult, BeginSettle, Visit, ReadStatus, BeginRecovery, Cluster,
      BlockhashExpires, Lands, Finalizes, DuelExpires, vars

\* The assets stay where they are while nothing becomes final.
LEMMA NothingMoves ==
  ASSUME custody' = custody, \A r \in Rows : Landed(r, Final)' <=> Landed(r, Final)
  PROVE  Whereabouts' = Whereabouts
<1>1. \A a \in Assets : Refunded(a, Final)' <=> Refunded(a, Final)
  BY SameRefunds
<1> QED
  BY <1>1, RowNames DEF Whereabouts

\* A final transaction is on chain.
LEMMA FinalIsOnChain ==
  /\ \A r \in Rows : Landed(r, Final) => Landed(r, OnChain)
  /\ \A a \in Assets : Refunded(a, Final) => Refunded(a, OnChain)
<1>1. \A r \in Rows : Landed(r, Final) => Landed(r, OnChain)
  BY DEF Landed, Final, OnChain
<1> QED
  BY <1>1, RowNames DEF Refunded

\* A settlement or a refund that becomes final is one move of the promise.
LEMMA AssetsMove ==
  ASSUME SettlementInv, EscrowOneWay, custody' = custody, duel' = duel,
         NEW r \in Rows, Landed(r, OnChain), BecomesFinal(r)
  PROVE  [Payout!Next]_<<duel.status, Whereabouts>>
<1>1. /\ Landed(r, Final)'
      /\ \A q \in Rows : q # r => (Landed(q, Final)' <=> Landed(q, Final))
  BY DEF BecomesFinal
<1>2. CASE Landed(r, Final) \/ r = Commit
  <2>1. \A a \in Assets : Refunded(a, Final)' <=> Refunded(a, Final)
    BY <1>1, <1>2, RowNames DEF Refunded
  <2>2. Landed(Settle, Final)' <=> Landed(Settle, Final)
    BY <1>1, <1>2, RowNames DEF Commit, Settle
  <2>3. Whereabouts' = Whereabouts
    BY <2>1, <2>2 DEF Whereabouts
  <2> QED
    BY <2>3
<1>3. CASE r = Settle /\ ~Landed(Settle, Final)
  <2>1. custody = Assets /\ \A a \in Assets : ~Refunded(a, Final)
    BY <1>3, FinalIsOnChain DEF EscrowOneWay
  <2>2. \A a \in Assets : ~Refunded(a, Final)'
    BY <1>1, <1>3, <2>1, RowNames DEF Refunded
  <2>3. /\ \A a \in Assets : Whereabouts[a] = "escrow"
        /\ Whereabouts' = [a \in Assets |-> "winner"]
    BY <1>1, <1>3, <2>1, <2>2 DEF Whereabouts
  <2>4. Payout!Award
    BY <2>3 DEF Payout!Award
  <2> QED
    BY <2>4 DEF Payout!Next
<1>4. CASE r \notin {Commit, Settle}
  <2>1. PICK a \in Assets, k \in 1..MaxAttempts : r = <<a, k>>
    BY <1>4, RowNames
  <2>2. /\ Refunded(a, OnChain) /\ Refunded(a, Final)' /\ a \in custody
        /\ ~Landed(Settle, Final) /\ ~Landed(Settle, Final)'
    <3>1. Refunded(a, OnChain)
      BY <2>1 DEF Refunded
    <3>2. Refunded(a, Final)'
      BY <1>1, <2>1 DEF Refunded
    <3>3. ~Landed(Settle, OnChain)
      BY <3>1 DEF EscrowOneWay
    <3> QED
      BY <1>1, <1>4, <3>1, <3>2, <3>3, FinalIsOnChain, RowNames DEF EscrowOneWay
  <2>3. \A b \in Assets : b # a => (Refunded(b, Final)' <=> Refunded(b, Final))
    BY <1>1, <2>1, RowNames DEF Refunded
  <2>4. Whereabouts' = [b \in Assets |-> IF b = a THEN "owner" ELSE Whereabouts[b]]
    BY <2>2, <2>3 DEF Whereabouts
  <2>5. \A b \in Assets : Whereabouts[b] # "winner"
    BY <2>2 DEF Whereabouts
  <2>6. CASE Refunded(a, Final)
    <3>1. Whereabouts' = Whereabouts
      BY <2>2, <2>3, <2>6 DEF Whereabouts
    <3> QED
      BY <3>1
  <2>7. CASE ~Refunded(a, Final)
    <3>1. Whereabouts[a] = "escrow"
      BY <2>2, <2>7 DEF Whereabouts
    <3>2. Payout!Refund(a)
      BY <2>4, <2>5, <3>1 DEF Payout!Refund
    <3> QED
      BY <3>2 DEF Payout!Next
  <2> QED
    BY <2>6, <2>7
<1> QED
  BY <1>2, <1>3, <1>4

\* Each step of the settlement is a step of the promise or changes nothing of it.
LEMMA PayoutStep ==
  ASSUME SettlementInv, EscrowOneWay, [Next]_vars
  PROVE  [Payout!Next]_<<duel.status, Whereabouts>>
<1>1. custody' = custody /\ EscrowMoved /\ SettlementInv'
  BY EscrowMoves, SettlementSteps DEF EscrowMoved
<1>2. CASE duel'.status = duel.status /\ \A r \in Rows : Landed(r, Final)' <=> Landed(r, Final)
  <2>1. Whereabouts' = Whereabouts
    BY <1>1, <1>2, NothingMoves
  <2> QED
    BY <1>2, <2>1
<1>3. CASE \E r \in Rows : duel' = duel /\ Landed(r, OnChain) /\ BecomesFinal(r)
  BY <1>1, <1>3, AssetsMove
<1>4. CASE duel'.status # duel.status
  <2>1. chain' = chain /\ Edge(duel.status, duel'.status)
    BY <1>4, StatusMoves
  <2>2. \A r \in Rows : Landed(r, Final)' <=> Landed(r, Final)
    BY <2>1 DEF Landed
  <2>3. Whereabouts' = Whereabouts
    BY <1>1, <2>2, NothingMoves
  <2>4. ASSUME duel'.status = "SETTLED" PROVE \A a \in Assets : Whereabouts[a] = "winner"
    <3>1. Landed(Settle, Final)
      BY <1>1, <2>2, <2>4, RowNames DEF SettlementInv, SettledIsBacked
    <3>2. custody = Assets /\ \A a \in Assets : ~Refunded(a, Final)
      BY <3>1, FinalIsOnChain, RowNames DEF EscrowOneWay
    <3> QED
      BY <3>1, <3>2 DEF Whereabouts
  <2>5. ASSUME duel'.status = "REFUNDED"
        PROVE  \A a \in Assets : Whereabouts[a] \in {"nowhere", "owner"}
    <3>1. \A a \in custody : Refunded(a, Final)'
      BY <1>1, <2>5 DEF SettlementInv, RefundedIsBacked
    <3>2. custody \subseteq Assets
      BY Types DEF SettlementInv
    <3>3. \A a \in custody : Refunded(a, Final)
      BY <2>2, <3>1, <3>2, SameRefunds
    <3> QED
      BY <3>3 DEF Whereabouts
  <2>6. Payout!Advance
    BY <2>1, <2>3, <2>4, <2>5, PayoutGraph DEF Payout!Advance, Edge
  <2> QED
    BY <2>6 DEF Payout!Next
<1> QED
  BY <1>1, <1>2, <1>3, <1>4 DEF EscrowMoved, SameLanded, ComesOnChain

\* The starting points are those of the promise: nothing of the payout is final yet, or the
\* settlement is.
LEMMA PayoutStart == Init => Payout!Init
<1> SUFFICES ASSUME Init PROVE Payout!Init
  OBVIOUS
<1>1. duel.status \in {"AWAITING_ASSETS", "REFUNDING"}
  BY DEF Init, Resolved, Refunding, Rejected
<1>2. EscrowOneWay /\ SettlementInv
  BY OneWayStart, SettlementStart
<1>3. \A a \in Assets : ~Refunded(a, Final)
  <2>1. \A a \in Assets, k \in 1..MaxAttempts : rows[<<a, k>>].sig = 0
    <3>1. \A a \in Assets, k \in 1..MaxAttempts : rows[<<a, k>>] = NoRow
      BY RowNames DEF Init, Resolved, Refunding, Rejected
    <3>2. NoRow.sig = 0
      BY DEF NoRow
    <3> QED
      BY <3>1, <3>2
  <2>2. \A a \in Assets, k \in 1..MaxAttempts, g \in Gens : chain[<<a, k>>][g] = "unsent"
    BY <2>1, RowNames, SettlementConstants DEF Init, Gens
  <2> QED
    BY <2>2 DEF Refunded, Landed, Final
<1>4. CASE Landed(Settle, Final)
  <2>1. custody = Assets
    BY <1>2, <1>4, FinalIsOnChain, RowNames DEF EscrowOneWay
  <2>2. \A a \in Assets : Whereabouts[a] = "winner"
    BY <1>3, <1>4, <2>1 DEF Whereabouts
  <2> QED
    BY <1>1, <2>2 DEF Payout!Init
<1>5. CASE ~Landed(Settle, Final)
  <2>1. Whereabouts \in [Assets -> {"nowhere", "escrow"}]
    BY <1>3, <1>5 DEF Whereabouts
  <2> QED
    BY <1>1, <2>1 DEF Payout!Init
<1> QED
  BY <1>4, <1>5

\* Through every retry, lost answer, late write and recovery, the assets of a duel go back to
\* their owners or all to the winner, never both, and the public status follows.
THEOREM PayoutHolds == Spec => PaidOneWay
<1>1. Init => SettlementInv /\ EscrowOneWay /\ Payout!Init
  BY SettlementStart, OneWayStart, PayoutStart
<1>2. SettlementInv /\ EscrowOneWay /\ [Next]_vars => (SettlementInv /\ EscrowOneWay)'
  BY SettlementSteps, EscrowMoves, OneWayStep
<1>3. SettlementInv /\ EscrowOneWay /\ [Next]_vars =>
        [Payout!Next]_<<duel.status, Whereabouts>>
  BY PayoutStep
<1> QED
  BY <1>1, <1>2, <1>3, PTL DEF Spec, PaidOneWay, Payout!Spec
=============================================================================
