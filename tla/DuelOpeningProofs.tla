-------------------------- MODULE DuelOpeningProofs --------------------------
(***************************************************************************)
(* Machine-checked proofs about DuelOpening, for any number of concurrent  *)
(* requests, any values, and any bounds on time and faults.                *)
(***************************************************************************)
EXTENDS DuelOpening, TLAPS

\* The types of one side of a request, one operation row and one pack.
SideType == [pc : SidePcs, source : -1..MaxTime, outcome : Outcomes \cup {NoOutcome}]
RowType == [status : OpStatuses, ref : BOOLEAN, outcome : Outcomes \cup {NoOutcome}]
PackType == [value : Values \cup {-1}, source : -1..MaxTime, at : -1..MaxTime]

\* No outcome was opened before time 0, so none is the absent one.
LEMMA NoOutcomeIsNone == NoOutcome \notin Outcomes
  BY OpeningConstants DEF NoOutcome, Outcomes

\* The initial rows are well typed.
LEMMA InitialRecords ==
  /\ NoOutcome \in Outcomes \cup {NoOutcome}
  /\ IdleSide \in SideType /\ NoOp \in RowType /\ NoPack \in PackType
  /\ IdleSide.pc = "idle" /\ NoOp.status = "NONE" /\ NoOp.outcome = NoOutcome
  BY OpeningConstants DEF IdleSide, NoOp, NoPack, SideType, RowType, PackType, SidePcs,
     OpStatuses

\* A side moved to another step keeps its evidence, and its neighbours stay.
LEMMA GotoType ==
  ASSUME side \in [Requests -> [Sides -> SideType]], NEW r \in Requests, NEW s \in Sides,
         NEW where \in SidePcs, Goto(r, s, where)
  PROVE  /\ side' \in [Requests -> [Sides -> SideType]]
         /\ side'[r][s].pc = where /\ side'[r][s].outcome = side[r][s].outcome
         /\ \A q \in Requests, z \in Sides : (q # r \/ z # s) => side'[q][z] = side[q][z]
  BY DEF Goto, SideType

\* A side that is replaced as a whole.
LEMMA SideSet ==
  ASSUME side \in [Requests -> [Sides -> SideType]], NEW r \in Requests, NEW s \in Sides,
         NEW x \in SideType, side' = [side EXCEPT ![r][s] = x]
  PROVE  /\ side' \in [Requests -> [Sides -> SideType]]
         /\ side'[r][s] = x
         /\ \A q \in Requests, z \in Sides : (q # r \/ z # s) => side'[q][z] = side[q][z]
  OBVIOUS

\* A pack that is replaced as a whole.
LEMMA PackSet ==
  ASSUME pack \in [Stores -> [Sides -> PackType]], NEW m \in Stores, NEW s \in Sides,
         NEW x \in PackType, pack' = [pack EXCEPT ![m][s] = x]
  PROVE  /\ pack' \in [Stores -> [Sides -> PackType]]
         /\ pack'[m][s] = x
         /\ \A q \in Stores, z \in Sides : (q # m \/ z # s) => pack'[q][z] = pack[q][z]
  OBVIOUS

\* The type invariant in terms of these types.
LEMMA Types ==
  TypeOK <=>
  /\ duel \in [mode : Modes, status : DuelStatuses,
               winner : {"none", "tie", "creator", "opponent"},
               outcome : [Sides -> Outcomes \cup {NoOutcome}]]
  /\ op \in [Sides -> RowType]
  /\ \A s \in Sides : (op[s].status = "OPENED") <=> (op[s].outcome # NoOutcome)
  /\ pack \in [Stores -> [Sides -> PackType]]
  /\ req \in [Requests -> {"idle", "transition", "reserve", "sides", "resolve"}]
  /\ side \in [Requests -> [Sides -> SideType]]
  /\ clock \in 0..MaxTime /\ faults \in 0..MaxFaults
  BY DEF TypeOK, RowType, PackType, SideType

\* A pack that is kept is fetched from a store that exists.
LEMMA StoreIn == ASSUME NEW r \in Requests PROVE Store(r) \in Stores
  BY DEF Store, Stores

\* Every row of an initial state is well formed.
LEMMA InitInv == Init => OpeningInv
<1> SUFFICES ASSUME Init PROVE OpeningInv
  OBVIOUS
<1>1. TypeOK
  BY InitialRecords, OpeningConstants, Types DEF Init, DuelStatuses
<1>2. PacksAreWhole /\ SidesCarryEvidence /\ ResolveAfterBoth
  BY InitialRecords DEF Init, PacksAreWhole, SidesCarryEvidence, ResolveAfterBoth
<1>3. ResultIsTheRecordedOne
  BY InitialRecords DEF Init, ResultIsTheRecordedOne
<1> QED
  BY <1>1, <1>2, <1>3 DEF OpeningInv

-----------------------------------------------------------------------------
(***************************************************************************)
(* The steps of open().                                                    *)
(***************************************************************************)
\* What the rest of the proof needs of a side that has not moved, or has moved without
\* becoming done or persistable, when no operation, request or duel changes.
LEMMA Quiet ==
  ASSUME OpeningInv, UNCHANGED <<duel, op, req>>,
         NEW r \in Requests, NEW s \in Sides, side[r][s].pc # "done",
         side' \in [Requests -> [Sides -> SideType]],
         side'[r][s].pc # "done",
         side'[r][s].pc = "persist" => side'[r][s].outcome \in Outcomes,
         \A q \in Requests, z \in Sides : (q # r \/ z # s) => side'[q][z] = side[q][z]
  PROVE  SidesCarryEvidence' /\ ResolveAfterBoth' /\ ResultIsTheRecordedOne'
<1>1. SidesCarryEvidence'
  BY DEF OpeningInv, SidesCarryEvidence
<1>2. ResolveAfterBoth'
  BY DEF OpeningInv, ResolveAfterBoth
<1>3. \A q \in Requests, z \in Sides :
        side'[q][z].pc = "done" => op'[z].outcome = side'[q][z].outcome
  BY DEF OpeningInv, ResultIsTheRecordedOne
<1>4. (duel.winner # "none" =>
         /\ \A z \in Sides : /\ op[z].status = "OPENED" /\ duel.outcome[z] = op[z].outcome
                             /\ op[z].outcome.at \in 0..ExpiresAt
         /\ duel.winner = WinnerSide(duel.outcome))'
  BY DEF OpeningInv, ResultIsTheRecordedOne, WinnerSide
<1> QED
  BY <1>1, <1>2, <1>3, <1>4 DEF ResultIsTheRecordedOne

\* Begin and StartOpening only move the request and the duel's status.
LEMMA BeginStep ==
  ASSUME OpeningInv, NEW r \in Requests, Begin(r)
  PROVE  OpeningInv'
<1>1. TypeOK'
  BY Types DEF OpeningInv, Begin, TypeOK
<1>2. PacksAreWhole' /\ SidesCarryEvidence' /\ ResolveAfterBoth'
  BY Types DEF OpeningInv, Begin, PacksAreWhole, SidesCarryEvidence, ResolveAfterBoth
<1>3. ResultIsTheRecordedOne'
  BY DEF OpeningInv, Begin, ResultIsTheRecordedOne, WinnerSide
<1> QED
  BY <1>1, <1>2, <1>3 DEF OpeningInv

LEMMA StartStep ==
  ASSUME OpeningInv, NEW r \in Requests, StartOpening(r)
  PROVE  OpeningInv'
<1>1. TypeOK'
  BY Types DEF OpeningInv, StartOpening, TypeOK, DuelStatuses
<1>2. PacksAreWhole' /\ SidesCarryEvidence' /\ ResolveAfterBoth'
  BY Types DEF OpeningInv, StartOpening, PacksAreWhole, SidesCarryEvidence, ResolveAfterBoth
<1>3. duel'.winner = duel.winner /\ duel'.outcome = duel.outcome /\ UNCHANGED <<op, side>>
  BY Types DEF OpeningInv, StartOpening
<1>4. ResultIsTheRecordedOne'
  BY <1>3 DEF OpeningInv, ResultIsTheRecordedOne, WinnerSide
<1> QED
  BY <1>1, <1>2, <1>4 DEF OpeningInv

\* A reserved operation is new or kept; a side enters done only on a recorded outcome.
LEMMA ReserveStep ==
  ASSUME OpeningInv, NEW r \in Requests, ReservePair(r)
  PROVE  OpeningInv'
<1>1. \A row \in RowType :
        /\ Reserved(row) \in RowType /\ Reserved(row).outcome = row.outcome
        /\ (Reserved(row).status = "OPENED") <=> (row.status = "OPENED")
        /\ EnterSide(row) \in SideType
        /\ EnterSide(row).pc = "done" => /\ EnterSide(row).outcome = row.outcome
                                         /\ row.outcome # NoOutcome
        /\ EnterSide(row).pc # "persist"
  BY OpeningConstants, InitialRecords
  DEF Reserved, EnterSide, IdleSide, RowType, SideType, OpStatuses, SidePcs
<1>2. CASE duel.status # "OPENING"
  <2>1. req' = [req EXCEPT ![r] = "idle"] /\ UNCHANGED <<duel, op, pack, side, clock, faults>>
    BY <1>2 DEF ReservePair
  <2>2. TypeOK'
    BY <2>1, Types DEF OpeningInv, TypeOK
  <2>3. PacksAreWhole' /\ SidesCarryEvidence' /\ ResolveAfterBoth'
    BY <2>1, Types DEF OpeningInv, PacksAreWhole, SidesCarryEvidence, ResolveAfterBoth
  <2>4. ResultIsTheRecordedOne'
    BY <2>1 DEF OpeningInv, ResultIsTheRecordedOne, WinnerSide
  <2> QED
    BY <2>2, <2>3, <2>4 DEF OpeningInv
<1>3. CASE duel.status = "OPENING"
  <2>1. /\ op' = [s \in Sides |-> Reserved(op[s])]
        /\ side' = [side EXCEPT ![r] = [s \in Sides |-> EnterSide(Reserved(op[s]))]]
        /\ req' = [req EXCEPT ![r] = "sides"]
        /\ UNCHANGED <<duel, pack, clock, faults>>
    BY <1>3 DEF ReservePair
  <2>2. /\ op' \in [Sides -> RowType]
        /\ \A s \in Sides : /\ op'[s].outcome = op[s].outcome
                            /\ (op'[s].status = "OPENED") <=> (op[s].status = "OPENED")
    BY <2>1, <1>1, Types DEF OpeningInv
  <2>3. /\ side' \in [Requests -> [Sides -> SideType]]
        /\ \A q \in Requests : q # r => side'[q] = side[q]
        /\ \A s \in Sides : side'[r][s] = EnterSide(op'[s])
    BY <2>1, <2>2, <1>1, Types DEF OpeningInv
  <2>4. req' \in [Requests -> {"idle", "transition", "reserve", "sides", "resolve"}]
        /\ \A q \in Requests : q # r => req'[q] = req[q]
        /\ req'[r] = "sides"
    BY <2>1, Types DEF OpeningInv
  <2>5. TypeOK'
    BY <2>1, <2>2, <2>3, <2>4, Types DEF OpeningInv, TypeOK, RowType, SideType
  <2>6. PacksAreWhole' /\ ResolveAfterBoth'
    BY <2>1, <2>3, <2>4 DEF OpeningInv, PacksAreWhole, ResolveAfterBoth
  <2>7. \A s \in Sides : side'[r][s].pc # "persist"
                         /\ (side'[r][s].pc = "done" => /\ side'[r][s].outcome = op'[s].outcome
                                                        /\ op'[s].status = "OPENED")
    BY <2>2, <2>3, <1>1, Types DEF OpeningInv
  <2>8. SidesCarryEvidence'
    BY <2>2, <2>3, <2>7 DEF OpeningInv, SidesCarryEvidence
  <2>9. ResultIsTheRecordedOne'
    BY <2>1, <2>2, <2>3, <2>7 DEF OpeningInv, ResultIsTheRecordedOne, WinnerSide
  <2> QED
    BY <2>5, <2>6, <2>8, <2>9 DEF OpeningInv
<1> QED
  BY <1>2, <1>3

-----------------------------------------------------------------------------
(***************************************************************************)
(* The steps of openSide.                                                  *)
(***************************************************************************)
\* The steps on a side leave the types of everything but the side, the pack or the row.
LEMMA StillTyped ==
  ASSUME OpeningInv, UNCHANGED <<duel, req, clock>>, faults' \in 0..MaxFaults,
         op' \in [Sides -> RowType],
         \A s \in Sides : (op'[s].status = "OPENED") <=> (op'[s].outcome # NoOutcome),
         pack' \in [Stores -> [Sides -> PackType]],
         side' \in [Requests -> [Sides -> SideType]]
  PROVE  TypeOK'
  BY DEF OpeningInv, TypeOK, RowType, PackType, SideType

\* One more fault stays within the bound.
LEMMA FaultCount == ASSUME OpeningInv, Fault \/ UNCHANGED faults PROVE faults' \in 0..MaxFaults
  BY OpeningConstants DEF OpeningInv, TypeOK, Fault

\* A generated pack is whole and not opened.
LEMMA GeneratedType ==
  ASSUME OpeningInv, NEW r \in Requests, NEW s \in Sides, NEW p \in GeneratedPacks(r, s)
  PROVE  p \in PackType /\ p # NoPack /\ p.value \in Values
<1>1. PackOf(r, s) \in PackType /\ (PackOf(r, s) # NoPack => PackOf(r, s).value \in Values)
  BY StoreIn, Types DEF OpeningInv, PackOf, PacksAreWhole
<1>2. CASE PackOf(r, s) # NoPack
  BY <1>1, <1>2 DEF GeneratedPacks
<1>3. CASE PackOf(r, s) = NoPack
  <2>1. p.value \in Values /\ p.at = -1 /\ p \in PackType
    BY <1>3, OpeningConstants, Types DEF OpeningInv, GeneratedPacks, MockPack, PackType
  <2> QED
    BY <2>1, OpeningConstants DEF NoPack
<1> QED
  BY <1>2, <1>3

LEMMA GenerateStep ==
  ASSUME OpeningInv, NEW r \in Requests, NEW s \in Sides, GeneratePack(r, s)
  PROVE  OpeningInv'
<1>1. PICK where \in SidePcs : Goto(r, s, where) /\ where \in {"recordGenerated", "recover"}
  BY DEF GeneratePack, SidePcs
<1>2. /\ side' \in [Requests -> [Sides -> SideType]]
      /\ side'[r][s].pc = where
      /\ \A q \in Requests, z \in Sides : (q # r \/ z # s) => side'[q][z] = side[q][z]
  BY <1>1, GotoType, Types DEF OpeningInv
<1>3. side[r][s].pc = "generate" /\ UNCHANGED <<duel, op, req, clock>>
      /\ (Fault \/ UNCHANGED faults)
  BY DEF GeneratePack
<1>4. /\ pack' \in [Stores -> [Sides -> PackType]]
      /\ PacksAreWhole'
  <2>1. CASE UNCHANGED pack
    BY <2>1, Types DEF OpeningInv, PacksAreWhole
  <2>2. CASE \E p \in GeneratedPacks(r, s) : pack' = [pack EXCEPT ![Store(r)][s] = p]
    <3>1. PICK p \in GeneratedPacks(r, s) : pack' = [pack EXCEPT ![Store(r)][s] = p]
      BY <2>2
    <3>2. p \in PackType /\ p.value \in Values
      BY GeneratedType
    <3>3. /\ pack' \in [Stores -> [Sides -> PackType]]
          /\ pack'[Store(r)][s] = p
          /\ \A q \in Stores, z \in Sides :
               (q # Store(r) \/ z # s) => pack'[q][z] = pack[q][z]
      BY <3>1, <3>2, PackSet, StoreIn, Types DEF OpeningInv
    <3> QED
      BY <3>2, <3>3 DEF OpeningInv, PacksAreWhole
  <2> QED
    BY <2>1, <2>2 DEF GeneratePack
<1>5. TypeOK'
  BY <1>2, <1>3, <1>4, StillTyped, FaultCount, Types DEF OpeningInv
<1>6. SidesCarryEvidence' /\ ResolveAfterBoth' /\ ResultIsTheRecordedOne'
  BY <1>1, <1>2, <1>3, Quiet
<1> QED
  BY <1>4, <1>5, <1>6 DEF OpeningInv

\* A step of a side that only rewrites the status of an operation that is not OPENED:
\* the result, and what the other sides hold, still agree with it.
LEMMA RowMoves ==
  ASSUME OpeningInv, UNCHANGED <<duel, pack, req, clock, faults>>,
         NEW r \in Requests, NEW s \in Sides, NEW where \in SidePcs \ {"done", "persist"},
         side[r][s].pc # "done", Goto(r, s, where),
         op' \in [Sides -> RowType],
         \A z \in Sides : /\ op'[z].outcome = op[z].outcome
                          /\ (op'[z].status = "OPENED") <=> (op[z].status = "OPENED")
  PROVE  OpeningInv'
<1>1. /\ side' \in [Requests -> [Sides -> SideType]]
      /\ side'[r][s].pc = where
      /\ \A q \in Requests, z \in Sides : (q # r \/ z # s) => side'[q][z] = side[q][z]
  BY GotoType, Types DEF OpeningInv
<1>2. TypeOK'
  BY <1>1, StillTyped, FaultCount, Types DEF OpeningInv
<1>3. PacksAreWhole'
  BY DEF OpeningInv, PacksAreWhole
<1>4. SidesCarryEvidence'
  BY <1>1 DEF OpeningInv, SidesCarryEvidence
<1>5. ResolveAfterBoth'
  BY <1>1 DEF OpeningInv, ResolveAfterBoth
<1>6. ResultIsTheRecordedOne'
  <2>1. \A q \in Requests, z \in Sides :
          side'[q][z].pc = "done" => op'[z].outcome = side'[q][z].outcome
    BY <1>1 DEF OpeningInv, ResultIsTheRecordedOne
  <2>2. (duel.winner # "none" =>
           /\ \A z \in Sides : /\ op[z].status = "OPENED" /\ duel.outcome[z] = op[z].outcome
                               /\ op[z].outcome.at \in 0..ExpiresAt
           /\ duel.winner = WinnerSide(duel.outcome))'
    BY DEF OpeningInv, ResultIsTheRecordedOne, WinnerSide
  <2> QED
    BY <2>1, <2>2 DEF ResultIsTheRecordedOne
<1> QED
  BY <1>2, <1>3, <1>4, <1>5, <1>6 DEF OpeningInv

LEMMA RecordGeneratedStep ==
  ASSUME OpeningInv, NEW r \in Requests, NEW s \in Sides, RecordGenerated(r, s)
  PROVE  OpeningInv'
<1> DEFINE row == IF ~op[s].ref /\ op[s].status \in GeneratedFrom
                  THEN [op[s] EXCEPT !.ref = TRUE, !.status = "GENERATED"] ELSE op[s]
<1>1. op[s] \in RowType
  BY Types DEF OpeningInv
<1>2. row \in RowType /\ row.outcome = op[s].outcome
      /\ ((row.status = "OPENED") <=> (op[s].status = "OPENED"))
  BY <1>1 DEF RowType, OpStatuses, GeneratedFrom
<1>3. op' = [op EXCEPT ![s] = row]
  BY DEF RecordGenerated
<1> HIDE DEF row
<1>4. /\ op' \in [Sides -> RowType]
      /\ \A z \in Sides : /\ op'[z].outcome = op[z].outcome
                          /\ (op'[z].status = "OPENED") <=> (op[z].status = "OPENED")
  BY <1>2, <1>3, Types DEF OpeningInv
<1>5. PICK where \in SidePcs \ {"done", "persist"} : Goto(r, s, where)
  <2>1. "recover" \in SidePcs \ {"done", "persist"} /\ "poll" \in SidePcs \ {"done", "persist"}
        /\ "markOpening" \in SidePcs \ {"done", "persist"}
    BY DEF SidePcs
  <2> QED
    BY <2>1 DEF RecordGenerated
<1>6. side[r][s].pc # "done" /\ UNCHANGED <<duel, pack, req, clock, faults>>
  BY DEF RecordGenerated
<1> QED
  BY <1>4, <1>5, <1>6, RowMoves

LEMMA MarkOpeningStep ==
  ASSUME OpeningInv, NEW r \in Requests, NEW s \in Sides, MarkOpening(r, s)
  PROVE  OpeningInv'
<1>1. /\ op' \in [Sides -> RowType]
      /\ \A z \in Sides : /\ op'[z].outcome = op[z].outcome
                          /\ (op'[z].status = "OPENED") <=> (op[z].status = "OPENED")
  BY Types DEF OpeningInv, MarkOpening, RowType, OpStatuses
<1>2. "open" \in SidePcs \ {"done", "persist"} /\ Goto(r, s, "open")
      /\ side[r][s].pc # "done" /\ UNCHANGED <<duel, pack, req, clock, faults>>
  BY DEF MarkOpening, SidePcs
<1> QED
  BY <1>1, <1>2, RowMoves

LEMMA MarkRecoveryStep ==
  ASSUME OpeningInv, NEW r \in Requests, NEW s \in Sides, MarkRecovery(r, s)
  PROVE  OpeningInv'
<1>1. /\ op' \in [Sides -> RowType]
      /\ \A z \in Sides : /\ op'[z].outcome = op[z].outcome
                          /\ (op'[z].status = "OPENED") <=> (op[z].status = "OPENED")
  BY Types DEF OpeningInv, MarkRecovery, RowType, OpStatuses
<1>2. "failed" \in SidePcs \ {"done", "persist"} /\ Goto(r, s, "failed")
      /\ side[r][s].pc # "done" /\ UNCHANGED <<duel, pack, req, clock, faults>>
  BY DEF MarkRecovery, SidePcs
<1> QED
  BY <1>1, <1>2, RowMoves

\* A step that leaves the operations alone and makes a side persistable at most with a
\* complete outcome, over packs that stay whole.
LEMMA SideMoves ==
  ASSUME OpeningInv, UNCHANGED <<duel, op, req, clock>>, Fault \/ UNCHANGED faults,
         NEW r \in Requests, NEW s \in Sides, side[r][s].pc # "done",
         NEW x \in SideType, side' = [side EXCEPT ![r][s] = x],
         x.pc # "done", x.pc = "persist" => x.outcome \in Outcomes,
         pack' \in [Stores -> [Sides -> PackType]], PacksAreWhole'
  PROVE  OpeningInv'
<1>1. /\ side' \in [Requests -> [Sides -> SideType]]
      /\ side'[r][s] = x
      /\ \A q \in Requests, z \in Sides : (q # r \/ z # s) => side'[q][z] = side[q][z]
  BY SideSet, Types DEF OpeningInv
<1>2. TypeOK'
  BY <1>1, StillTyped, FaultCount, Types DEF OpeningInv
<1>3. SidesCarryEvidence' /\ ResolveAfterBoth' /\ ResultIsTheRecordedOne'
  BY <1>1, Quiet
<1> QED
  BY <1>2, <1>3 DEF OpeningInv

\* Goto as a replacement of the whole side.
LEMMA GotoIsSet ==
  ASSUME side \in [Requests -> [Sides -> SideType]], NEW r \in Requests, NEW s \in Sides,
         NEW where \in SidePcs, Goto(r, s, where)
  PROVE  \E x \in SideType : x.pc = where /\ side' = [side EXCEPT ![r][s] = x]
<1>1. \A y \in SideType : /\ [y EXCEPT !.pc = where] \in SideType
                          /\ [y EXCEPT !.pc = where].pc = where
  BY DEF SideType
<1>2. side' = [side EXCEPT ![r][s] = [side[r][s] EXCEPT !.pc = where]]
  BY DEF Goto
<1>3. side[r][s] \in SideType
  OBVIOUS
<1> QED
  BY <1>1, <1>2, <1>3

LEMMA PollStep ==
  ASSUME OpeningInv, NEW r \in Requests, NEW s \in Sides, PollPack(r, s)
  PROVE  OpeningInv'
<1> DEFINE p == PackOf(r, s)
<1>1. p \in PackType /\ (p # NoPack => p.value \in Values)
  BY StoreIn, Types DEF OpeningInv, PackOf, PacksAreWhole
<1>2. UNCHANGED <<duel, op, req, clock, pack>> /\ (Fault \/ UNCHANGED faults)
      /\ side[r][s].pc = "poll"
  BY DEF PollPack, AnsweredAt
<1>3. pack' \in [Stores -> [Sides -> PackType]] /\ PacksAreWhole'
  BY <1>2, Types DEF OpeningInv, PacksAreWhole
<1>4. CASE Goto(r, s, "recover") \/ Goto(r, s, "markOpening")
  <2>1. PICK where \in SidePcs \ {"done", "persist"} : Goto(r, s, where)
    BY <1>4 DEF SidePcs
  <2>2. PICK x \in SideType : x.pc = where /\ side' = [side EXCEPT ![r][s] = x]
    BY <2>1, GotoIsSet, Types DEF OpeningInv
  <2> QED
    BY <1>2, <1>3, <2>2, SideMoves
<1>5. ASSUME NEW t, t \in p.at..clock, p # NoPack, p.at >= 0,
             side' = [side EXCEPT ![r][s] = [pc |-> "persist", source |-> p.source,
                                             outcome |-> [value |-> p.value, at |-> t]]]
      PROVE  OpeningInv'
  <2> DEFINE x == [pc |-> "persist", source |-> p.source,
                   outcome |-> [value |-> p.value, at |-> t]]
  <2>1. t \in 0..MaxTime
    BY <1>1, <1>5, OpeningConstants, Types DEF OpeningInv, PackType
  <2>2. x \in SideType /\ x.pc = "persist" /\ x.outcome \in Outcomes
    BY <1>1, <1>5, <2>1 DEF SideType, SidePcs, PackType, Outcomes
  <2>3. side' = [side EXCEPT ![r][s] = x]
    BY <1>5
  <2> HIDE DEF x
  <2> QED
    BY <1>2, <1>3, <2>2, <2>3, SideMoves
<1> QED
  BY <1>4, <1>5 DEF PollPack

\* An opened pack keeps its value, and the time answered is at most the clock.
LEMMA OpenStepOfPack ==
  ASSUME OpeningInv, NEW r \in Requests, NEW s \in Sides, OpenPack(r, s)
  PROVE  OpeningInv'
<1> DEFINE p == PackOf(r, s)
           at == IF p.at >= 0 THEN p.at ELSE clock
           source == IF duel.mode = "mock" THEN at ELSE p.source
           opened == [p EXCEPT !.at = at, !.source = source]
           x(t) == [pc |-> "persist", source |-> source,
                    outcome |-> [value |-> p.value, at |-> t]]
<1>1. p \in PackType /\ (p # NoPack => p.value \in Values)
  BY StoreIn, Types DEF OpeningInv, PackOf, PacksAreWhole
<1>2. UNCHANGED <<duel, op, req, clock>> /\ (Fault \/ UNCHANGED faults)
      /\ side[r][s].pc = "open"
  BY DEF OpenPack, AnsweredAt
<1>3. at \in 0..MaxTime /\ source \in -1..MaxTime
  BY <1>1, OpeningConstants, Types DEF OpeningInv, PackType
<1>4. pack' \in [Stores -> [Sides -> PackType]] /\ PacksAreWhole'
  <2>1. CASE UNCHANGED pack
    BY <2>1, Types DEF OpeningInv, PacksAreWhole
  <2>2. CASE p # NoPack /\ pack' = [pack EXCEPT ![Store(r)][s] = opened]
    <3>1. opened \in PackType /\ opened.value \in Values
      <4>1. \A y \in PackType, a \in -1..MaxTime, o \in -1..MaxTime :
              /\ [y EXCEPT !.at = a, !.source = o] \in PackType
              /\ [y EXCEPT !.at = a, !.source = o].value = y.value
        BY DEF PackType
      <4>2. at \in -1..MaxTime
        BY <1>3, OpeningConstants
      <4> HIDE DEF p, at, source
      <4> QED
        BY <1>1, <1>3, <2>2, <4>1, <4>2
    <3> HIDE DEF opened
    <3>2. /\ pack' \in [Stores -> [Sides -> PackType]]
          /\ pack'[Store(r)][s] = opened
          /\ \A q \in Stores, z \in Sides :
               (q # Store(r) \/ z # s) => pack'[q][z] = pack[q][z]
      BY <2>2, <3>1, PackSet, StoreIn, Types DEF OpeningInv
    <3> QED
      BY <3>1, <3>2 DEF OpeningInv, PacksAreWhole
  <2> QED
    BY <2>1, <2>2 DEF OpenPack
<1>5. CASE Goto(r, s, "recover")
  <2>1. PICK y \in SideType : y.pc = "recover" /\ side' = [side EXCEPT ![r][s] = y]
    BY <1>5, GotoIsSet, Types DEF OpeningInv, SidePcs
  <2> QED
    BY <1>2, <1>4, <2>1, SideMoves
<1>6. ASSUME NEW t, t \in at..clock, p # NoPack, side' = [side EXCEPT ![r][s] = x(t)]
      PROVE  OpeningInv'
  <2>1. t \in 0..MaxTime
    BY <1>3, <1>6, OpeningConstants, Types DEF OpeningInv
  <2>2. x(t) \in SideType /\ x(t).pc = "persist" /\ x(t).outcome \in Outcomes
    BY <1>1, <1>3, <1>6, <2>1, OpeningConstants DEF SideType, SidePcs, Outcomes
  <2> HIDE DEF x
  <2> QED
    BY <1>2, <1>4, <1>6, <2>2, SideMoves
<1> QED
  BY <1>5, <1>6 DEF OpenPack

\* The first evidence of a side is kept, and a replay that is accepted repeats it.
LEMMA PersistStep ==
  ASSUME OpeningInv, NEW r \in Requests, NEW s \in Sides, PersistOpened(r, s)
  PROVE  OpeningInv'
<1> DEFINE held == side[r][s].outcome
           rec == Recorded(op[s], held)
           done == [pc |-> "done", outcome |-> held, source |-> -1]
           lost == [IdleSide EXCEPT !.pc = "failed"]
<1>1. /\ side[r][s].pc = "persist" /\ side[r][s] \in SideType /\ held \in Outcomes
      /\ op[s] \in RowType /\ (op[s].status = "OPENED" <=> op[s].outcome # NoOutcome)
      /\ UNCHANGED <<duel, pack, req, clock, faults>>
  BY Types DEF OpeningInv, PersistOpened, SidesCarryEvidence
<1>2. pack' \in [Stores -> [Sides -> PackType]] /\ PacksAreWhole'
  BY <1>1, Types DEF OpeningInv, PacksAreWhole
<1>3. CASE side' = [side EXCEPT ![r][s] = lost] /\ UNCHANGED op
  <2>1. lost \in SideType /\ lost.pc = "failed"
    BY OpeningConstants DEF IdleSide, SideType, SidePcs
  <2> HIDE DEF lost
  <2> QED
    BY <1>1, <1>2, <1>3, <2>1, SideMoves
<1>4. CASE /\ rec.accepted /\ op' = [op EXCEPT ![s] = rec.row]
           /\ side' = [side EXCEPT ![r][s] = done]
  <2>1. done \in SideType /\ done.pc = "done" /\ done.outcome = held
    BY <1>1, OpeningConstants DEF SideType, SidePcs
  <2>2. /\ rec.row \in RowType /\ rec.row.status = "OPENED" /\ rec.row.outcome = held
        /\ op[s].status = "OPENED" => rec.row = op[s]
    BY <1>1, <1>4 DEF Recorded, RowType, OpStatuses
  <2> HIDE DEF done, rec
  <2>3. /\ op' \in [Sides -> RowType] /\ op'[s] = rec.row
        /\ \A z \in Sides : z # s => op'[z] = op[z]
    BY <1>4, <2>2, Types DEF OpeningInv
  <2>4. /\ side' \in [Requests -> [Sides -> SideType]] /\ side'[r][s] = done
        /\ \A q \in Requests, z \in Sides : (q # r \/ z # s) => side'[q][z] = side[q][z]
    BY <1>4, <2>1, SideSet, Types DEF OpeningInv
  <2>5. \A z \in Sides : /\ (op'[z].status = "OPENED") <=> (op'[z].outcome # NoOutcome)
                         /\ op[z].status = "OPENED" => op'[z] = op[z]
    BY <1>1, <2>2, <2>3, NoOutcomeIsNone, Types DEF OpeningInv
  <2>6. TypeOK'
    BY <1>1, <1>2, <2>3, <2>4, <2>5, StillTyped, FaultCount, Types DEF OpeningInv
  <2>7. SidesCarryEvidence'
    BY <2>1, <2>2, <2>3, <2>4, <2>5 DEF OpeningInv, SidesCarryEvidence
  <2>8. ResolveAfterBoth'
    BY <1>1, <2>1, <2>4 DEF OpeningInv, ResolveAfterBoth
  <2>9. ResultIsTheRecordedOne'
    <3>1. \A q \in Requests, z \in Sides :
            side'[q][z].pc = "done" => op'[z].outcome = side'[q][z].outcome
      BY <2>1, <2>2, <2>3, <2>4, <2>5
      DEF OpeningInv, ResultIsTheRecordedOne, SidesCarryEvidence
    <3>2. (duel.winner # "none" =>
             /\ \A z \in Sides : /\ op[z].status = "OPENED" /\ duel.outcome[z] = op[z].outcome
                                 /\ op[z].outcome.at \in 0..ExpiresAt
             /\ duel.winner = WinnerSide(duel.outcome))'
      BY <1>1, <2>5 DEF OpeningInv, ResultIsTheRecordedOne, WinnerSide
    <3> QED
      BY <3>1, <3>2 DEF ResultIsTheRecordedOne
  <2> QED
    BY <1>2, <2>6, <2>7, <2>8, <2>9 DEF OpeningInv
<1> QED
  BY <1>3, <1>4 DEF PersistOpened

-----------------------------------------------------------------------------
(***************************************************************************)
(* The end of a request, and the environment.                              *)
(***************************************************************************)
\* A request whose two sides are reset, in a step that keeps the operations.
LEMMA RequestResets ==
  ASSUME OpeningInv, UNCHANGED <<op, clock>>, faults' \in 0..MaxFaults,
         pack' \in [Stores -> [Sides -> PackType]], PacksAreWhole',
         NEW r \in Requests, req' = [req EXCEPT ![r] = "idle"],
         side' = [side EXCEPT ![r] = [s \in Sides |-> IdleSide]],
         duel' \in [mode : Modes, status : DuelStatuses,
                    winner : {"none", "tie", "creator", "opponent"},
                    outcome : [Sides -> Outcomes \cup {NoOutcome}]],
         duel'.winner # "none" =>
           /\ \A z \in Sides : /\ op[z].status = "OPENED" /\ duel'.outcome[z] = op[z].outcome
                               /\ op[z].outcome.at \in 0..ExpiresAt
           /\ duel'.winner = WinnerSide(duel'.outcome)
  PROVE  OpeningInv'
<1>1. /\ side' \in [Requests -> [Sides -> SideType]]
      /\ \A q \in Requests, z \in Sides : \/ side'[q][z].pc = "idle"
                                          \/ q # r /\ side'[q][z] = side[q][z]
  BY InitialRecords, Types DEF OpeningInv
<1>2. /\ req' \in [Requests -> {"idle", "transition", "reserve", "sides", "resolve"}]
      /\ \A q \in Requests : IF q = r THEN req'[q] = "idle" ELSE req'[q] = req[q]
  BY Types DEF OpeningInv
<1>3. TypeOK'
  BY <1>1, <1>2, Types DEF OpeningInv, TypeOK, SideType, PackType, RowType
<1>4. SidesCarryEvidence'
  BY <1>1 DEF OpeningInv, SidesCarryEvidence
<1>5. ResolveAfterBoth'
  <2>1. \A q \in Requests, z \in Sides : q # r => side'[q][z] = side[q][z]
    BY Types DEF OpeningInv
  <2> QED
    BY <2>1, <1>2 DEF OpeningInv, ResolveAfterBoth
<1>6. ResultIsTheRecordedOne'
  <2>1. \A q \in Requests, z \in Sides :
          side'[q][z].pc = "done" => op'[z].outcome = side'[q][z].outcome
    BY <1>1 DEF OpeningInv, ResultIsTheRecordedOne
  <2> QED
    BY <2>1 DEF ResultIsTheRecordedOne, WinnerSide
<1> QED
  BY <1>3, <1>4, <1>5, <1>6 DEF OpeningInv

\* What an unchanged duel says of the operations.
LEMMA ResultStays ==
  ASSUME OpeningInv, UNCHANGED <<duel, op>>
  PROVE  /\ duel' \in [mode : Modes, status : DuelStatuses,
                       winner : {"none", "tie", "creator", "opponent"},
                       outcome : [Sides -> Outcomes \cup {NoOutcome}]]
         /\ duel'.winner # "none" =>
              /\ \A z \in Sides : /\ op[z].status = "OPENED"
                                  /\ duel'.outcome[z] = op[z].outcome
                                  /\ op[z].outcome.at \in 0..ExpiresAt
              /\ duel'.winner = WinnerSide(duel'.outcome)
  BY Types DEF OpeningInv, ResultIsTheRecordedOne, WinnerSide

LEMMA JoinStep ==
  ASSUME OpeningInv, NEW r \in Requests, JoinSides(r)
  PROVE  OpeningInv'
<1>1. UNCHANGED <<duel, op, pack, clock, faults>> /\ faults' \in 0..MaxFaults
  BY Types DEF OpeningInv, JoinSides
<1>2. pack' \in [Stores -> [Sides -> PackType]] /\ PacksAreWhole'
  BY <1>1, Types DEF OpeningInv, PacksAreWhole
<1>3. CASE \A s \in Sides : side[r][s].pc = "done"
  <2>1. req' = [req EXCEPT ![r] = "resolve"] /\ UNCHANGED side
    BY <1>3 DEF JoinSides
  <2>2. TypeOK' /\ SidesCarryEvidence' /\ ResultIsTheRecordedOne'
    BY <1>1, <2>1 DEF OpeningInv, TypeOK, SidesCarryEvidence, ResultIsTheRecordedOne,
       WinnerSide
  <2>3. ResolveAfterBoth'
    BY <1>3, <2>1, Types DEF OpeningInv, ResolveAfterBoth
  <2> QED
    BY <1>2, <2>2, <2>3 DEF OpeningInv
<1>4. CASE ~\A s \in Sides : side[r][s].pc = "done"
  <2>1. /\ req' = [req EXCEPT ![r] = "idle"]
        /\ side' = [side EXCEPT ![r] = [s \in Sides |-> IdleSide]]
    BY <1>4 DEF JoinSides
  <2> QED
    BY <1>1, <1>2, <2>1, ResultStays, RequestResets
<1> QED
  BY <1>3, <1>4

\* The comparison is of the two outcomes the operations record.
LEMMA ResolveStep ==
  ASSUME OpeningInv, NEW r \in Requests, ResolveOpenedPacks(r)
  PROVE  OpeningInv'
<1> DEFINE outcome == [s \in Sides |-> side[r][s].outcome]
<1>1. /\ UNCHANGED <<op, pack, clock, faults>> /\ faults' \in 0..MaxFaults
      /\ req' = [req EXCEPT ![r] = "idle"]
      /\ side' = [side EXCEPT ![r] = [s \in Sides |-> IdleSide]]
      /\ req[r] = "resolve"
  BY Types DEF OpeningInv, ResolveOpenedPacks
<1>2. pack' \in [Stores -> [Sides -> PackType]] /\ PacksAreWhole'
  BY <1>1, Types DEF OpeningInv, PacksAreWhole
<1>3. CASE UNCHANGED duel
  BY <1>1, <1>2, <1>3, ResultStays, RequestResets
<1>4. CASE /\ WithinEscrowWindow(outcome)
           /\ duel' = [duel EXCEPT !.status = "AWAITING_ASSETS",
                                   !.winner = WinnerSide(outcome), !.outcome = outcome]
  <2>1. \A s \in Sides : /\ op[s].status = "OPENED" /\ outcome[s] = op[s].outcome
                         /\ outcome[s] \in Outcomes
    <3>1. \A s \in Sides : /\ side[r][s].pc = "done" /\ op[s].status = "OPENED"
                           /\ op[s].outcome = side[r][s].outcome
      BY <1>1 DEF OpeningInv, ResolveAfterBoth, SidesCarryEvidence, ResultIsTheRecordedOne
    <3>2. \A s \in Sides : /\ op[s].outcome \in Outcomes \cup {NoOutcome}
                           /\ op[s].status = "OPENED" => op[s].outcome # NoOutcome
      BY Types DEF OpeningInv, RowType
    <3> QED
      BY <3>1, <3>2
  <2>2. \A s \in Sides : op[s].outcome.at \in 0..ExpiresAt
    BY <1>4, <2>1, OpeningConstants DEF WithinEscrowWindow, Outcomes
  <2>3. outcome \in [Sides -> Outcomes \cup {NoOutcome}]
    BY <2>1
  <2>4. WinnerSide(outcome) \in {"none", "tie", "creator", "opponent"}
    BY DEF WinnerSide
  <2> HIDE DEF outcome
  <2>5. \A d \in [mode : Modes, status : DuelStatuses,
                  winner : {"none", "tie", "creator", "opponent"},
                  outcome : [Sides -> Outcomes \cup {NoOutcome}]],
           w \in {"none", "tie", "creator", "opponent"},
           o \in [Sides -> Outcomes \cup {NoOutcome}] :
          LET e == [d EXCEPT !.status = "AWAITING_ASSETS", !.winner = w, !.outcome = o]
          IN  /\ e \in [mode : Modes, status : DuelStatuses,
                        winner : {"none", "tie", "creator", "opponent"},
                        outcome : [Sides -> Outcomes \cup {NoOutcome}]]
              /\ e.winner = w /\ e.outcome = o
    BY DEF DuelStatuses
  <2>6. /\ duel' \in [mode : Modes, status : DuelStatuses,
                      winner : {"none", "tie", "creator", "opponent"},
                      outcome : [Sides -> Outcomes \cup {NoOutcome}]]
        /\ duel'.winner = WinnerSide(outcome) /\ duel'.outcome = outcome
    BY <1>4, <2>3, <2>4, <2>5, Types DEF OpeningInv
  <2> QED
    BY <1>1, <1>2, <2>1, <2>2, <2>6, RequestResets
<1> QED
  BY <1>3, <1>4 DEF ResolveOpenedPacks

LEMMA RestartStep ==
  ASSUME OpeningInv, NEW r \in Requests, Restart(r)
  PROVE  OpeningInv'
<1>1. /\ UNCHANGED <<duel, op, clock>> /\ faults' \in 0..MaxFaults
      /\ req' = [req EXCEPT ![r] = "idle"]
      /\ side' = [side EXCEPT ![r] = [s \in Sides |-> IdleSide]]
      /\ pack' = [pack EXCEPT ![r] = [s \in Sides |-> NoPack]]
  BY FaultCount DEF Restart
<1>2. pack' \in [Stores -> [Sides -> PackType]]
  BY <1>1, InitialRecords, Types DEF OpeningInv, Stores
<1>3. PacksAreWhole'
  BY <1>1, Types DEF OpeningInv, PacksAreWhole
<1> QED
  BY <1>1, <1>2, <1>3, ResultStays, RequestResets

\* FundingFails moves the duel's status only, and no status decides what was recorded.
LEMMA FundingFailsStep ==
  ASSUME OpeningInv, FundingFails
  PROVE  OpeningInv'
<1>1. UNCHANGED <<op, pack, req, side, clock>> /\ faults' \in 0..MaxFaults
  BY FaultCount DEF FundingFails
<1>2. RecoveryStatusAfterTransactionFailure(duel.status) \in DuelStatuses
  BY Types DEF OpeningInv, FundingFails, RecoveryStatusAfterTransactionFailure, DuelStatuses
<1>3. duel' \in [mode : Modes, status : DuelStatuses,
                 winner : {"none", "tie", "creator", "opponent"},
                 outcome : [Sides -> Outcomes \cup {NoOutcome}]]
      /\ duel'.winner = duel.winner /\ duel'.outcome = duel.outcome
  BY <1>2, Types DEF OpeningInv, FundingFails
<1>4. TypeOK'
  BY <1>1, <1>3 DEF OpeningInv, TypeOK
<1>5. PacksAreWhole' /\ SidesCarryEvidence' /\ ResolveAfterBoth'
  BY <1>1 DEF OpeningInv, PacksAreWhole, SidesCarryEvidence, ResolveAfterBoth
<1>6. ResultIsTheRecordedOne'
  BY <1>1, <1>3 DEF OpeningInv, ResultIsTheRecordedOne, WinnerSide
<1> QED
  BY <1>4, <1>5, <1>6 DEF OpeningInv

\* Time and stuttering touch no row.
LEMMA IdleStep ==
  ASSUME OpeningInv, Tick \/ UNCHANGED vars
  PROVE  OpeningInv'
<1>1. UNCHANGED <<duel, op, pack, req, side, faults>> /\ clock' \in 0..MaxTime
  BY OpeningConstants, Types DEF OpeningInv, Tick, vars
<1>2. TypeOK'
  BY <1>1 DEF OpeningInv, TypeOK
<1>3. PacksAreWhole' /\ SidesCarryEvidence' /\ ResolveAfterBoth'
  BY <1>1 DEF OpeningInv, PacksAreWhole, SidesCarryEvidence, ResolveAfterBoth
<1>4. ResultIsTheRecordedOne'
  BY <1>1 DEF OpeningInv, ResultIsTheRecordedOne, WinnerSide
<1> QED
  BY <1>2, <1>3, <1>4 DEF OpeningInv

\* Every step of every request, and of the environment, keeps the invariant.
LEMMA StepInv == OpeningInv /\ [Next]_vars => OpeningInv'
<1> SUFFICES ASSUME OpeningInv, [Next]_vars PROVE OpeningInv'
  OBVIOUS
<1>1. ASSUME NEW r \in Requests, OpenStep(r) PROVE OpeningInv'
  BY <1>1, BeginStep, StartStep, ReserveStep, JoinStep, ResolveStep DEF OpenStep
<1>2. ASSUME NEW r \in Requests, NEW s \in Sides, OpenSideStep(r, s) PROVE OpeningInv'
  BY <1>2, GenerateStep, RecordGeneratedStep, PollStep, MarkOpeningStep, OpenStepOfPack,
     PersistStep, MarkRecoveryStep DEF OpenSideStep
<1>3. ASSUME NEW r \in Requests, Restart(r) PROVE OpeningInv'
  BY <1>3, RestartStep
<1>4. CASE FundingFails
  BY <1>4, FundingFailsStep
<1>5. CASE Tick \/ UNCHANGED vars
  BY <1>5, IdleStep
<1> QED
  BY <1>1, <1>2, <1>3, <1>4, <1>5 DEF Next

\* The inductive invariant of the opening holds in every reachable state, for any number
\* of concurrent open() calls and restarts.
THEOREM OpeningInvariant == Spec => []OpeningInv
  BY InitInv, StepInv, PTL DEF Spec

\* Every handler of the opening writes well-formed rows; an operation row carries an
\* outcome exactly when it is OPENED, which toOperation demands of each row it reads.
THEOREM OpeningTypeCorrect == Spec => []TypeOK
<1>1. OpeningInv => TypeOK
  BY DEF OpeningInv
<1> QED
  BY <1>1, OpeningInvariant, PTL

\* However the requests, answers and restarts interleave, a duel is decided by the two
\* outcomes its operation rows record, both opened inside the escrow window.
THEOREM OneResult == Spec => []ResultIsTheRecordedOne
<1>1. OpeningInv => ResultIsTheRecordedOne
  BY DEF OpeningInv
<1> QED
  BY <1>1, OpeningInvariant, PTL

\* An operation row that is OPENED is written by no step.
LEMMA EvidenceStays ==
  ASSUME OpeningInv, [Next]_vars, NEW s \in Sides, op[s].status = "OPENED"
  PROVE  op'[s] = op[s]
<1>1. op[s] \in RowType /\ op \in [Sides -> RowType]
  BY Types DEF OpeningInv
<1>2. CASE UNCHANGED op
  BY <1>2
<1>3. ASSUME NEW r \in Requests, ReservePair(r) PROVE op'[s] = op[s]
  BY <1>3 DEF ReservePair, Reserved
<1>4. ASSUME NEW r \in Requests, NEW z \in Sides, RecordGenerated(r, z)
      PROVE  op'[s] = op[s]
  <2>1. CASE z # s
    BY <1>1, <1>4, <2>1 DEF RecordGenerated
  <2>2. CASE z = s
    <3>1. ~(~op[z].ref /\ op[z].status \in GeneratedFrom)
      BY <2>2 DEF GeneratedFrom
    <3>2. op' = [op EXCEPT ![z] = op[z]]
      BY <1>4, <3>1 DEF RecordGenerated
    <3> QED
      BY <1>1, <2>2, <3>2
  <2> QED
    BY <2>1, <2>2
<1>5. ASSUME NEW r \in Requests, NEW z \in Sides, MarkOpening(r, z) \/ MarkRecovery(r, z)
      PROVE  op'[s] = op[s]
  BY <1>1, <1>5 DEF MarkOpening, MarkRecovery, RowType
<1>6. ASSUME NEW r \in Requests, NEW z \in Sides, PersistOpened(r, z)
      PROVE  op'[s] = op[s]
  BY <1>1, <1>6 DEF PersistOpened, Recorded
<1>7. ASSUME NEW r \in Requests, NEW z \in Sides, OpenSideStep(r, z)
      PROVE  op'[s] = op[s]
  BY <1>2, <1>4, <1>5, <1>6, <1>7 DEF OpenSideStep, GeneratePack, PollPack, OpenPack
<1>8. ASSUME NEW r \in Requests, OpenStep(r) \/ Restart(r)
      PROVE  op'[s] = op[s]
  BY <1>2, <1>3, <1>8 DEF OpenStep, Restart, Begin, StartOpening, JoinSides,
     ResolveOpenedPacks
<1>9. CASE FundingFails \/ Tick \/ UNCHANGED vars
  BY <1>2, <1>9 DEF FundingFails, Tick, vars
<1> QED
  BY <1>7, <1>8, <1>9 DEF Next

\* A result that is recorded is written by no step: a second resolution would compare the
\* same two outcomes.
LEMMA ResultIsKept ==
  ASSUME OpeningInv, [Next]_vars, duel.winner # "none"
  PROVE  duel'.winner = duel.winner /\ duel'.outcome = duel.outcome
<1>1. /\ duel \in [mode : Modes, status : DuelStatuses,
                   winner : {"none", "tie", "creator", "opponent"},
                   outcome : [Sides -> Outcomes \cup {NoOutcome}]]
      /\ duel.winner = WinnerSide(duel.outcome)
      /\ \A s \in Sides : duel.outcome[s] = op[s].outcome
  BY Types DEF OpeningInv, ResultIsTheRecordedOne
<1>2. CASE UNCHANGED duel
  BY <1>2
<1>3. CASE FundingFails \/ \E r \in Requests : StartOpening(r)
  BY <1>1, <1>3 DEF FundingFails, StartOpening
<1>4. ASSUME NEW r \in Requests, ResolveOpenedPacks(r)
      PROVE  duel'.winner = duel.winner /\ duel'.outcome = duel.outcome
  <2> DEFINE outcome == [s \in Sides |-> side[r][s].outcome]
  <2>1. \A s \in Sides : side[r][s].pc = "done" /\ op[s].outcome = side[r][s].outcome
    BY <1>4 DEF OpeningInv, ResolveOpenedPacks, ResolveAfterBoth, ResultIsTheRecordedOne
  <2>2. outcome = duel.outcome
    BY <1>1, <2>1
  <2>3. UNCHANGED duel
        \/ duel' = [duel EXCEPT !.status = "AWAITING_ASSETS",
                                !.winner = WinnerSide(outcome), !.outcome = outcome]
    BY <1>4 DEF ResolveOpenedPacks
  <2> HIDE DEF outcome
  <2> QED
    BY <1>1, <2>2, <2>3
<1>5. ASSUME NEW r \in Requests, NEW z \in Sides, OpenSideStep(r, z)
      PROVE  UNCHANGED duel
  BY <1>5 DEF OpenSideStep, GeneratePack, RecordGenerated, PollPack, MarkOpening, OpenPack,
     PersistOpened, MarkRecovery
<1>6. ASSUME NEW r \in Requests,
             Begin(r) \/ ReservePair(r) \/ JoinSides(r) \/ Restart(r)
      PROVE  UNCHANGED duel
  BY <1>6 DEF Begin, ReservePair, JoinSides, Restart
<1>7. CASE Tick \/ UNCHANGED vars
  BY <1>2, <1>7 DEF Tick, vars
<1> QED
  BY <1>2, <1>3, <1>4, <1>5, <1>6, <1>7 DEF Next, OpenStep

\* The evidence of a side is recorded once, and so is the result of the duel.
THEOREM OpeningDecidesOnce == Spec => DecidedOnce
<1>1. OpeningInv /\ [Next]_vars
        => [/\ \A s \in Sides : op[s].status = "OPENED" => op'[s] = op[s]
            /\ duel.winner # "none" => /\ duel'.winner = duel.winner
                                       /\ duel'.outcome = duel.outcome]_vars
  BY EvidenceStays, ResultIsKept
<1> QED
  BY <1>1, OpeningInvariant, PTL DEF Spec, DecidedOnce
=============================================================================
