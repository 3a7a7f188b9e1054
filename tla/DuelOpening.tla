----------------------------- MODULE DuelOpening -----------------------------
(***************************************************************************)
(* Opening of one funded duel: DuelOpeningService.open, the two rows of    *)
(* ProviderOpeningRepository, and the transactions of PrismaDuelRepository *)
(* that start the opening and record its result.                           *)
(*                                                                         *)
(* A request opens the two sides in parallel (Promise.all) and several     *)
(* requests of several API processes run at once.  Every call that leaves  *)
(* the process (provider or database) is a step.  The pack provider is     *)
(* what its callers see of it: generatePack and openPack take effect once, *)
(* the answer may be lost.  PackDeposit models how the devnet provider     *)
(* gets there.                                                             *)
(***************************************************************************)
EXTENDS Integers, DuelState

CONSTANTS
  Requests,        \* open() calls, each in an API process of its own
  Values,          \* insured values a card may have
  MockValue,       \* MockValue[s]: the value the mock provider computes for s
  ExpiresAt,       \* duel.expiresAt; fundedAt is 0
  MaxSourceAge,    \* valuationPolicy.maxSourceAgeSeconds
  MaxTime,         \* bound on the clock
  MaxFaults        \* bound on lost and late answers, restarts and funding failures

Sides == {"creator", "opponent"}
Modes == {"mock", "dailydraft-devnet"}
Stores == Requests \cup {"shared"}

ASSUME OpeningConstants ==
  /\ "shared" \notin Requests
  /\ Values \subseteq Nat /\ Values # {}
  /\ MockValue \in [Sides -> Values] /\ MockValue["creator"] # MockValue["opponent"]
  /\ {ExpiresAt, MaxSourceAge, MaxTime, MaxFaults} \subseteq Nat

VARIABLES
  duel,      \* the Duel row: status, winner and the two outcomes of its result
  op,        \* op[s]: the DuelProviderOperation row of side s
  pack,      \* pack[store][s]: the pack a provider keeps for side s
  req,       \* req[r]: where open() is
  side,      \* side[r][s]: where openSide is, and the outcome it holds
  clock,
  faults

vars == <<duel, op, pack, req, side, clock, faults>>

(***************************************************************************)
(* Values.                                                                 *)
(***************************************************************************)
\* What normalizeProviderResult hashes of a card: its insured value and when
\* the pack was opened.
Outcomes == [value : Values, at : 0..MaxTime]
NoOutcome == [value |-> -1, at |-> -1]

OpStatuses == {"NONE", "REQUESTED", "GENERATED", "OPENING", "OPENED",
               "RECOVERY_REQUIRED"}
NoOp == [status |-> "NONE", ref |-> FALSE, outcome |-> NoOutcome]

\* source: the timestamp of the price; at = -1: not opened yet.
NoPack == [value |-> -1, source |-> -1, at |-> -1]

SidePcs == {"idle", "generate", "recordGenerated", "poll", "markOpening", "open",
            "persist", "recover", "done", "failed"}
IdleSide == [pc |-> "idle", outcome |-> NoOutcome, source |-> -1]

\* A mock pack lives in the memory of one process, a devnet pack in the database.
Store(r) == IF duel.mode = "mock" THEN r ELSE "shared"
PackOf(r, s) == pack[Store(r)][s]

Goto(r, s, where) == side' = [side EXCEPT ![r][s].pc = where]
Fault == faults < MaxFaults /\ faults' = faults + 1

(***************************************************************************)
(* open(): read the duel, start the opening, reserve the two operations.   *)
(***************************************************************************)
Begin(r) ==
  /\ req[r] = "idle"
  /\ duel.status \in {"FUNDED", "OPENING"}
  /\ req' = [req EXCEPT ![r] = IF duel.status = "FUNDED" THEN "transition" ELSE "reserve"]
  /\ UNCHANGED <<duel, op, pack, side, clock, faults>>

\* transition(): one guarded transaction.  A request that lost the race goes on
\* only if it carries the winner's idempotency key and is answered by the replay.
StartOpening(r) ==
  /\ req[r] = "transition"
  /\ \/ /\ duel.status = "FUNDED" /\ CanTransition(duel.status, "OPENING")
        /\ duel' = [duel EXCEPT !.status = "OPENING"]
        /\ req' = [req EXCEPT ![r] = "reserve"]
     \/ /\ duel.status # "FUNDED"
        /\ \E next \in {"idle"} \cup (IF duel.status = "OPENING" THEN {"reserve"} ELSE {}) :
             req' = [req EXCEPT ![r] = next]
        /\ UNCHANGED duel
  /\ UNCHANGED <<op, pack, side, clock, faults>>

\* The first step of openSide on the row the reservation returned.
EnterSide(row) ==
  IF row.outcome # NoOutcome THEN [pc |-> "done", outcome |-> row.outcome, source |-> -1]
  ELSE [IdleSide EXCEPT !.pc = IF ~row.ref THEN "generate"
                               ELSE IF row.status \in {"OPENING", "RECOVERY_REQUIRED"}
                               THEN "poll" ELSE "markOpening"]

\* createMany skipDuplicates: an existing operation is kept as it is.
Reserved(row) == IF row.status = "NONE" THEN [row EXCEPT !.status = "REQUESTED"] ELSE row

ReservePair(r) ==
  /\ req[r] = "reserve"
  /\ IF duel.status = "OPENING"
     THEN /\ op' = [s \in Sides |-> Reserved(op[s])]
          /\ side' = [side EXCEPT ![r] = [s \in Sides |-> EnterSide(Reserved(op[s]))]]
          /\ req' = [req EXCEPT ![r] = "sides"]
     ELSE req' = [req EXCEPT ![r] = "idle"] /\ UNCHANGED <<op, side>>
  /\ UNCHANGED <<duel, pack, clock, faults>>

(***************************************************************************)
(* openSide.                                                               *)
(***************************************************************************)
MockPack(s) == [value |-> MockValue[s], source |-> clock, at |-> -1]

\* generatePack: the snapshot is created once (upsert with an empty update, a
\* Map entry that is looked for first).  A devnet price may be a day old.
GeneratedPacks(r, s) ==
  IF PackOf(r, s) # NoPack THEN {PackOf(r, s)}
  ELSE IF duel.mode = "mock" THEN {MockPack(s)}
  ELSE [value : Values, source : {clock - 1, clock}, at : {-1}]

GeneratePack(r, s) ==
  /\ side[r][s].pc = "generate"
  /\ \/ /\ \E p \in GeneratedPacks(r, s) : pack' = [pack EXCEPT ![Store(r)][s] = p]
        /\ \/ Goto(r, s, "recordGenerated") /\ UNCHANGED faults
           \/ Goto(r, s, "recover") /\ Fault
     \/ Goto(r, s, "recover") /\ Fault /\ UNCHANGED pack
  /\ UNCHANGED <<duel, op, req, clock>>

\* Mutant: only a fresh row takes a reference.
GeneratedFromRequested == {"REQUESTED"}
GeneratedFrom == {"REQUESTED", "RECOVERY_REQUIRED"}

RecordGenerated(r, s) ==
  /\ side[r][s].pc = "recordGenerated"
  /\ LET row == IF ~op[s].ref /\ op[s].status \in GeneratedFrom
                THEN [op[s] EXCEPT !.ref = TRUE, !.status = "GENERATED"] ELSE op[s]
     IN  /\ op' = [op EXCEPT ![s] = row]
         /\ Goto(r, s, IF ~row.ref THEN "recover"
                       ELSE IF row.status \in {"OPENING", "RECOVERY_REQUIRED"} THEN "poll"
                       ELSE "markOpening")
  /\ UNCHANGED <<duel, pack, req, clock, faults>>

\* The time the answer t puts on a pack opened at `at`.  The devnet provider reads it from
\* the newest transactions of the mint, and once those do not show the opening any more
\* the time it answers is later (Fade and Answer of PackPromise).
AnsweredAt(at, t) == IF t = at THEN UNCHANGED faults
                     ELSE duel.mode = "dailydraft-devnet" /\ Fault

\* getPack on a committed reference before anything is opened again.
PollPack(r, s) ==
  /\ side[r][s].pc = "poll"
  /\ LET p == PackOf(r, s) IN
     \/ /\ p # NoPack /\ p.at >= 0
        /\ \E t \in p.at..clock :
             /\ AnsweredAt(p.at, t)
             /\ side' = [side EXCEPT ![r][s] = [pc |-> "persist", source |-> p.source,
                                                outcome |-> [value |-> p.value, at |-> t]]]
     \/ p # NoPack /\ p.at < 0 /\ Goto(r, s, "markOpening") /\ UNCHANGED faults
     \/ p = NoPack /\ Goto(r, s, "recover") /\ UNCHANGED faults
     \/ Goto(r, s, "recover") /\ Fault
  /\ UNCHANGED <<duel, op, pack, req, clock>>

MarkOpening(r, s) ==
  /\ side[r][s].pc = "markOpening"
  /\ op' = [op EXCEPT ![s].status =
              IF @ \in {"GENERATED", "RECOVERY_REQUIRED"} THEN "OPENING" ELSE @]
  /\ Goto(r, s, "open")
  /\ UNCHANGED <<duel, pack, req, clock, faults>>

\* openPack opens a pack once; a mock pack that another process generated, or
\* that a restart forgot, is not found.
OpenPack(r, s) ==
  /\ side[r][s].pc = "open"
  /\ LET p == PackOf(r, s)
         at == IF p.at >= 0 THEN p.at ELSE clock
         source == IF duel.mode = "mock" THEN at ELSE p.source
     IN \/ /\ p # NoPack
           /\ pack' = [pack EXCEPT ![Store(r)][s] = [p EXCEPT !.at = at, !.source = source]]
           /\ \/ \E t \in at..clock :
                   /\ AnsweredAt(at, t)
                   /\ side' = [side EXCEPT ![r][s] =
                                [pc |-> "persist", source |-> source,
                                 outcome |-> [value |-> p.value, at |-> t]]]
              \/ Goto(r, s, "recover") /\ Fault
        \/ /\ p = NoPack /\ Goto(r, s, "recover") /\ UNCHANGED <<pack, faults>>
        \/ /\ Goto(r, s, "recover") /\ Fault /\ UNCHANGED pack
  /\ UNCHANGED <<duel, op, req, clock>>

\* normalizeSourceTimestamp: the price must be recent at the opening time.
Fresh(outcome, source) == outcome.at - source <= MaxSourceAge

\* Mutant: the last evidence wins.
RecordedLast(row, outcome) ==
  [accepted |-> TRUE, row |-> [row EXCEPT !.status = "OPENED", !.outcome = outcome]]

\* recordOpened: the first evidence is kept, a replay must repeat it.
Recorded(row, outcome) ==
  IF row.status = "OPENED"
  THEN [accepted |-> row.outcome = outcome, row |-> row]
  ELSE [accepted |-> row.ref /\ row.status \in {"GENERATED", "OPENING", "RECOVERY_REQUIRED"},
        row |-> [row EXCEPT !.status = "OPENED", !.outcome = outcome]]

\* persistOpened: returned without await, so its errors are not marked.
PersistOpened(r, s) ==
  /\ side[r][s].pc = "persist"
  /\ LET held == side[r][s].outcome
         rec == Recorded(op[s], held)
     IN IF Fresh(held, side[r][s].source) /\ rec.accepted
        THEN /\ op' = [op EXCEPT ![s] = rec.row]
             /\ side' = [side EXCEPT ![r][s] = [pc |-> "done", outcome |-> held, source |-> -1]]
        ELSE /\ side' = [side EXCEPT ![r][s] = [IdleSide EXCEPT !.pc = "failed"]]
             /\ UNCHANGED op
  /\ UNCHANGED <<duel, pack, req, clock, faults>>

\* The catch block of openSide.
MarkRecovery(r, s) ==
  /\ side[r][s].pc = "recover"
  /\ op' = [op EXCEPT ![s].status = IF @ # "OPENED" THEN "RECOVERY_REQUIRED" ELSE @]
  /\ Goto(r, s, "failed")
  /\ UNCHANGED <<duel, pack, req, clock, faults>>

(***************************************************************************)
(* Promise.all, compareInsuredValues and resolveOpenedPacks.               *)
(***************************************************************************)
\* A failed side makes open() throw while the other side runs on.  The slot of
\* the request is free again once both sides have ended.
JoinSides(r) ==
  /\ req[r] = "sides"
  /\ \A s \in Sides : side[r][s].pc \in {"done", "failed"}
  /\ IF \A s \in Sides : side[r][s].pc = "done"
     THEN req' = [req EXCEPT ![r] = "resolve"] /\ UNCHANGED side
     ELSE /\ req' = [req EXCEPT ![r] = "idle"]
          /\ side' = [side EXCEPT ![r] = [s \in Sides |-> IdleSide]]
  /\ UNCHANGED <<duel, op, pack, clock, faults>>

WinnerSide(outcome) ==
  IF outcome["creator"].value = outcome["opponent"].value THEN "tie"
  ELSE IF outcome["creator"].value > outcome["opponent"].value THEN "creator" ELSE "opponent"

\* assertOpeningTimesWithinEscrowWindow
WithinEscrowWindow(outcome) ==
  \A s \in Sides : outcome[s].at >= 0 /\ outcome[s].at <= ExpiresAt /\ outcome[s].at <= clock

ResolveOpenedPacks(r) ==
  /\ req[r] = "resolve"
  /\ LET outcome == [s \in Sides |-> side[r][s].outcome] IN
     IF duel.status = "OPENING" /\ WithinEscrowWindow(outcome)
     THEN duel' = [duel EXCEPT !.status = "AWAITING_ASSETS",
                               !.winner = WinnerSide(outcome), !.outcome = outcome]
     ELSE UNCHANGED duel
  /\ req' = [req EXCEPT ![r] = "idle"]
  /\ side' = [side EXCEPT ![r] = [s \in Sides |-> IdleSide]]
  /\ UNCHANGED <<op, pack, clock, faults>>

(***************************************************************************)
(* The environment.                                                        *)
(***************************************************************************)
\* A process dies with its requests and its mock packs.
Restart(r) ==
  /\ req[r] # "idle" /\ Fault
  /\ req' = [req EXCEPT ![r] = "idle"]
  /\ side' = [side EXCEPT ![r] = [s \in Sides |-> IdleSide]]
  /\ pack' = [pack EXCEPT ![r] = [s \in Sides |-> NoPack]]
  /\ UNCHANGED <<duel, op, clock>>

\* recordTerminal of a second funding intent, whatever the duel is doing.
FundingFails ==
  /\ duel.status \in {"FUNDED", "OPENING", "AWAITING_ASSETS"} /\ Fault
  /\ duel' = [duel EXCEPT !.status = RecoveryStatusAfterTransactionFailure(@)]
  /\ UNCHANGED <<op, pack, req, side, clock>>

Tick == /\ clock < MaxTime
        /\ clock' = clock + 1
        /\ UNCHANGED <<duel, op, pack, req, side, faults>>

Init ==
  /\ duel \in [mode : Modes, status : {"FUNDED"}, winner : {"none"},
               outcome : {[s \in Sides |-> NoOutcome]}]
  /\ op = [s \in Sides |-> NoOp]
  /\ pack = [m \in Stores |-> [s \in Sides |-> NoPack]]
  /\ req = [r \in Requests |-> "idle"]
  /\ side = [r \in Requests |-> [s \in Sides |-> IdleSide]]
  /\ clock = 0 /\ faults = 0

OpenSideStep(r, s) ==
  \/ GeneratePack(r, s) \/ RecordGenerated(r, s) \/ PollPack(r, s)
  \/ MarkOpening(r, s) \/ OpenPack(r, s) \/ PersistOpened(r, s) \/ MarkRecovery(r, s)
OpenStep(r) == Begin(r) \/ StartOpening(r) \/ ReservePair(r) \/ JoinSides(r)
               \/ ResolveOpenedPacks(r)

Next ==
  \/ \E r \in Requests : OpenStep(r) \/ Restart(r) \/ \E s \in Sides : OpenSideStep(r, s)
  \/ FundingFails \/ Tick

Spec == Init /\ [][Next]_vars

\* A request that has begun runs on, and the players keep asking for the packs.
FairSpec == /\ Spec
            /\ \A r \in Requests : WF_vars(OpenStep(r))
            /\ \A r \in Requests, s \in Sides : WF_vars(OpenSideStep(r, s))

(***************************************************************************)
(* Properties.                                                             *)
(***************************************************************************)
\* Types, and what toOperation demands of every row it reads: a row carries an
\* outcome exactly when it is OPENED.
TypeOK ==
  /\ duel \in [mode : Modes, status : DuelStatuses,
               winner : {"none", "tie", "creator", "opponent"},
               outcome : [Sides -> Outcomes \cup {NoOutcome}]]
  /\ op \in [Sides -> [status : OpStatuses, ref : BOOLEAN,
                       outcome : Outcomes \cup {NoOutcome}]]
  /\ \A s \in Sides : (op[s].status = "OPENED") <=> (op[s].outcome # NoOutcome)
  /\ pack \in [Stores -> [Sides -> [value : Values \cup {-1}, source : -1..MaxTime,
                                    at : -1..MaxTime]]]
  /\ req \in [Requests -> {"idle", "transition", "reserve", "sides", "resolve"}]
  /\ side \in [Requests -> [Sides -> [pc : SidePcs, source : -1..MaxTime,
                                      outcome : Outcomes \cup {NoOutcome}]]]
  /\ clock \in 0..MaxTime /\ faults \in 0..MaxFaults

\* A duel is decided by one pair of outcomes, whatever its concurrent requests saw: what
\* openSide returns is what the operation row keeps, so no request compares an outcome
\* that another one could replace, and the result is the comparison of the two recorded
\* outcomes, both opened inside the escrow window.
ResultIsTheRecordedOne ==
  /\ \A r \in Requests, s \in Sides : side[r][s].pc = "done" => op[s].outcome = side[r][s].outcome
  /\ duel.winner # "none" =>
       /\ \A s \in Sides : /\ op[s].status = "OPENED" /\ duel.outcome[s] = op[s].outcome
                           /\ op[s].outcome.at \in 0..ExpiresAt
       /\ duel.winner = WinnerSide(duel.outcome)

(***************************************************************************)
(* The inductive invariant, for DuelOpeningProofs.  ResultIsTheRecordedOne *)
(* rests on what a request carries from step to step.                      *)
(***************************************************************************)
\* A pack a provider keeps has the value it was generated with.
PacksAreWhole == \A m \in Stores, s \in Sides :
                   pack[m][s] # NoPack => pack[m][s].value \in Values

\* The evidence of an opened pack is complete before it is persisted, and a side that is
\* done holds an outcome of an operation that is OPENED for good.
SidesCarryEvidence == \A r \in Requests, s \in Sides :
  /\ side[r][s].pc = "persist" => side[r][s].outcome \in Outcomes
  /\ side[r][s].pc = "done" => op[s].status = "OPENED"

\* Only a request whose two sides are done compares them.
ResolveAfterBoth == \A r \in Requests :
                      req[r] = "resolve" => \A s \in Sides : side[r][s].pc = "done"

OpeningInv == /\ TypeOK /\ PacksAreWhole /\ SidesCarryEvidence /\ ResolveAfterBoth
              /\ ResultIsTheRecordedOne

\* What recordOpened and resolveOpenedPacks wrote is never replaced: neither the evidence
\* of a side nor the winner and the outcomes of the result.
DecidedOnce == [][/\ \A s \in Sides : op[s].status = "OPENED" => op'[s] = op[s]
                  /\ duel.winner # "none" => /\ duel'.winner = duel.winner
                                             /\ duel'.outcome = duel.outcome]_vars

\* An opening of the devnet provider ends: with a result, in refund, or with a
\* pack that was opened too late, recorded with too late a time or on too old a price,
\* which nothing resolves.
OpeningCompletes ==
  (duel.mode = "dailydraft-devnet" /\ duel.status = "OPENING")
    ~> \/ duel.status # "OPENING"
       \/ \E s \in Sides : LET p == pack["shared"][s] IN
            \/ p.at > ExpiresAt \/ op[s].outcome.at > ExpiresAt
            \/ p.at >= 0 /\ p.at - p.source > MaxSourceAge
=============================================================================
