------------------------------ MODULE CrashRound ------------------------------
(***************************************************************************)
(* A crash round: staged decisions of a player against a deadline, the     *)
(* pot and bust calculators, the house exposure each round reserves and    *)
(* the custody intent each stage prepares (crash/crash-stage-state.ts,     *)
(* crash-decision.service.ts, crash-risk.policy.ts, crash-calculators.ts,  *)
(* crash-custody-movement.service.ts).                                     *)
(*                                                                         *)
(* The rounds are those of one wallet; the reservations of everybody else, *)
(* the pause switch, the treasury snapshot and the house limits are one    *)
(* number, houseRoom: the exposure they would admit for these rounds now.  *)
(* decide and applyDefault are SERIALIZABLE transactions, so each is one   *)
(* step; the clock and the row are read before it.  An asset and a custody *)
(* intent are named by their stage.                                        *)
(***************************************************************************)
EXTENDS Integers, Sequences, FiniteSets, FiniteSetsExt

CONSTANTS
  Rounds, CrashCalls, CrashKeys,    \* rounds, player requests in flight, idempotency keys
  CrashStages,                      \* calculator rules: a sequence of [bps, maxPot, threshold]
  StageValue, BPS_SCALE, PPM_SCALE, \* 1000000, 10000 and 1000000 in the code
  MAX_POT_CONTRIBUTION_BPS,         \* 1000000, a hundred times a stage value at most
  MAX_RULE_STAGES,                  \* 64
  CrashRisk,                        \* risk rules: [maxStage, maxPot, maxWallet, maxDuration, maxAge]
  DecisionTimeout,
  InitialPot, HouseRooms,           \* values of the pot at the start and of houseRoom
  MaxCrashTime

\* validateCrashCalculatorRuleSet: the stages never get cheaper or safer.
ValidCalculatorRules(stages) ==
  /\ Len(stages) \in 1..MAX_RULE_STAGES
  /\ \A i \in DOMAIN stages :
       /\ stages[i].bps \in 0..MAX_POT_CONTRIBUTION_BPS /\ stages[i].threshold \in 0..PPM_SCALE
       /\ stages[i].maxPot > 0
       /\ i > 1 => /\ stages[i - 1].bps <= stages[i].bps
                   /\ stages[i - 1].threshold <= stages[i].threshold
                   /\ stages[i - 1].maxPot <= stages[i].maxPot

\* validateCrashRiskRules
ValidRiskRules(risk) ==
  /\ risk.maxStage > 0 /\ risk.maxDuration > 0 /\ risk.maxAge > 0
  /\ 0 < risk.maxPot /\ risk.maxPot <= risk.maxWallet

\* validateCrashStateRules: risk stays inside the envelope of the calculator.
ValidStateRules(stages, risk, timeout) ==
  /\ ValidCalculatorRules(stages) /\ ValidRiskRules(risk) /\ timeout > 0
  /\ risk.maxStage <= Len(stages) /\ risk.maxPot <= stages[risk.maxStage].maxPot

ASSUME CrashConstants ==
  /\ CrashStages \in Seq([bps : Nat, maxPot : Nat, threshold : Nat])
  /\ CrashRisk \in [maxStage : Nat, maxPot : Nat, maxWallet : Nat, maxDuration : Nat, maxAge : Nat]
  /\ ValidStateRules(CrashStages, CrashRisk, DecisionTimeout)
  /\ BPS_SCALE \in Nat \ {0} /\ PPM_SCALE \in Nat \ {0} /\ DecisionTimeout \in Nat
  /\ MAX_POT_CONTRIBUTION_BPS \in Nat /\ MAX_RULE_STAGES \in Nat
  /\ StageValue \in Nat /\ InitialPot \in Nat /\ HouseRooms \subseteq Nat /\ MaxCrashTime \in Nat
  /\ IsFiniteSet(Rounds)

VARIABLES
  round,       \* round[r]: the CrashRound row
  crashLog,    \* crashLog[r]: its CrashTransition rows
  intents,     \* intents[r]: stages with a PREPARED custody intent
  exposure,    \* exposure[r]: the HouseTreasuryReservation of the round
  houseRoom,   \* see above
  crashRoll,   \* crashRoll[r][s]: deterministicRoll of a stage, fixed for the round
  crashCall,   \* crashCall[c]: one player decision
  crashTime

crashVars == <<round, crashLog, intents, exposure, houseRoom, crashRoll, crashCall, crashTime>>

NoRound == [status |-> "NONE", stage |-> 0, version |-> 0, pot |-> 0, deadline |-> 0, expires |-> 0,
            settlement |-> "NOT_REQUIRED"]
CrashIdle == [pc |-> "idle", round |-> 0, action |-> "none", key |-> 0, stage |-> 0, version |-> 0, at |-> 0]
CrashEnded == {"CASHED_OUT", "BUSTED", "COMPLETED", "DEFAULTED"}

(***************************************************************************)
(* Calculators.                                                            *)
(***************************************************************************)
\* calculateCrashPot rounds down.
NextPot(stage, pot) == pot + (StageValue * CrashStages[stage].bps) \div BPS_SCALE
PotAllowed(stage, pot) == NextPot(stage, pot) <= CrashStages[stage].maxPot

\* calculateCrashBust
Busted(stage, roll) == roll < CrashStages[stage].threshold

BoundedDeadline(now, expires) == IF now + DecisionTimeout < expires THEN now + DecisionTimeout ELSE expires

(***************************************************************************)
(* The risk gate.                                                          *)
(***************************************************************************)
Reserved == {r \in Rounds : exposure[r].status = "RESERVED"}
ReservedAmount(R) == MapThenSumSet(LAMBDA r : exposure[r].amount, R)

\* validateCrashRiskHealth: the evidence is configuration of the process, observed at 0.
RiskHealthFresh(now) == now <= CrashRisk.maxAge

\* assertCanonicalAdmission: the round's own reservation is replaced, not added.
Admitted(r, amount) ==
  LET others == ReservedAmount(Reserved \ {r}) IN
  /\ amount <= CrashRisk.maxPot
  /\ others + amount <= CrashRisk.maxWallet
  /\ others + amount <= houseRoom

\* assertStageAndDuration
StageAndDuration(stage, expires, now) == stage \in 1..CrashRisk.maxStage /\ now < expires

\* releaseTerminal keeps the amount of the reservation.
ReleasedExposure(r) == [exposure EXCEPT ![r].status = "RELEASED"]

\* Mutant: a continued stage keeps the reservation it started with.
ExposureNotAdjusted(r, next) ==
  IF next.status # "ACTIVE" THEN ReleasedExposure(r) ELSE exposure

\* applyTransition, once admitted.
ExposureAfter(r, next) ==
  IF next.status # "ACTIVE" THEN ReleasedExposure(r)
  ELSE [exposure EXCEPT ![r].amount = next.pot]

(***************************************************************************)
(* createFixtureRound: the row, its first transition and the reservation.  *)
(***************************************************************************)
ReserveRound(r, amount, expires) ==
  /\ RiskHealthFresh(crashTime) /\ StageAndDuration(1, expires, crashTime) /\ Admitted(r, amount)
  /\ exposure' = [exposure EXCEPT ![r] = [status |-> "RESERVED", amount |-> amount]]

CreateFixtureRound(r) ==
  LET expires == crashTime + CrashRisk.maxDuration IN
  /\ round[r].status = "NONE"
  /\ ReserveRound(r, InitialPot, expires)
  /\ round' = [round EXCEPT ![r] =
       [NoRound EXCEPT !.status = "ACTIVE", !.stage = 1, !.version = 1, !.pot = InitialPot,
                       !.deadline = BoundedDeadline(crashTime, expires), !.expires = expires]]
  /\ crashLog' = [crashLog EXCEPT ![r] =
       <<[kind |-> "ROUND_STARTED", key |-> 0, decision |-> "none", from |-> 0, to |-> 1,
          status |-> "ACTIVE", asset |-> 0]>>]
  /\ UNCHANGED <<intents, houseRoom, crashRoll, crashCall, crashTime>>

(***************************************************************************)
(* Deadlines.                                                              *)
(***************************************************************************)
\* applyDefault: guarded by status, stage, version and deadline, so a candidate read
\* earlier is applied only while it is still the row.
CanDefault(r) == round[r].status = "ACTIVE" /\ round[r].deadline <= crashTime
Defaulted(r) ==
  /\ round' = [round EXCEPT ![r].status = "DEFAULTED", ![r].version = @ + 1, ![r].deadline = 0,
                            ![r].settlement = "PENDING"]
  /\ crashLog' = [crashLog EXCEPT ![r] = Append(@,
       [kind |-> "DEADLINE_DEFAULTED", key |-> 0, decision |-> "forfeit", from |-> round[r].stage,
        to |-> round[r].stage, status |-> "DEFAULTED", asset |-> 0])]
  /\ exposure' = ReleasedExposure(r)

\* applyExpiredDefaults, and every read of a round through resumeFixtureRound.
SweepExpired(r) ==
  /\ CanDefault(r) /\ Defaulted(r)
  /\ UNCHANGED <<intents, houseRoom, crashRoll, crashCall, crashTime>>

(***************************************************************************)
(* CrashDecisionService.decide.                                            *)
(***************************************************************************)
GotoCrash(c, pc) == crashCall' = [crashCall EXCEPT ![c].pc = pc]
EndCrash(c) == crashCall' = [crashCall EXCEPT ![c] = CrashIdle]

\* A request names the stage and version its player was shown: the current ones, or, when
\* an answer was lost and the request is sent again, the ones before.
BeginDecision(c, r) ==
  /\ crashCall[c].pc = "idle" /\ round[r].status # "NONE"
  /\ \E action \in {"continue", "cash-out"}, k \in CrashKeys,
        v \in {round[r].version, round[r].version - 1} \ {0} :
       crashCall' = [crashCall EXCEPT ![c] =
         [pc |-> "resume", round |-> r, action |-> action, key |-> k, stage |-> crashLog[r][v].to,
          version |-> v, at |-> 0]]
  /\ UNCHANGED <<round, crashLog, intents, exposure, houseRoom, crashRoll, crashTime>>

\* findPlayerReplay: a key that is known is a replay, or a mistake.
KeyKnown(r, key) == \E i \in DOMAIN crashLog[r] : crashLog[r][i].key = key

\* assertCurrentDecision
DecisionIsCurrent(c) ==
  LET r == crashCall[c].round IN
  /\ round[r].status = "ACTIVE"
  /\ round[r].stage = crashCall[c].stage /\ round[r].version = crashCall[c].version

\* The round is resumed, a replay answered and a stale request refused; only then is the
\* clock read for the transaction.
ResumeRound(c) ==
  LET r == crashCall[c].round IN
  /\ crashCall[c].pc = "resume"
  /\ IF CanDefault(r) THEN Defaulted(r) /\ EndCrash(c)
     ELSE /\ IF ~KeyKnown(r, crashCall[c].key) /\ DecisionIsCurrent(c)
             THEN crashCall' = [crashCall EXCEPT ![c].pc = "decide", ![c].at = crashTime]
             ELSE EndCrash(c)
          /\ UNCHANGED <<round, crashLog, exposure>>
  /\ UNCHANGED <<intents, houseRoom, crashRoll, crashTime>>

\* createFixtureDecision: the provider's outcome for the stage the player was shown.
FixtureRoll(c) == crashRoll[crashCall[c].round][crashCall[c].stage]

\* resolveDecision: the row a decision writes.
ResolvedDecision(c) ==
  LET r == crashCall[c].round
      row == round[r]
      ended == [row EXCEPT !.version = @ + 1, !.deadline = 0, !.settlement = "PENDING"]
      pot == NextPot(row.stage, row.pot)
  IN
  CASE crashCall[c].action = "cash-out" -> [ended EXCEPT !.status = "CASHED_OUT"]
    [] crashCall[c].action = "continue" /\ Busted(row.stage, FixtureRoll(c)) ->
         [ended EXCEPT !.status = "BUSTED", !.pot = pot]
    [] crashCall[c].action = "continue" /\ ~Busted(row.stage, FixtureRoll(c))
       /\ row.stage = Len(CrashStages) -> [ended EXCEPT !.status = "COMPLETED", !.pot = pot]
    [] OTHER -> [row EXCEPT !.version = @ + 1, !.stage = @ + 1, !.pot = pot,
                            !.deadline = BoundedDeadline(crashCall[c].at, row.expires)]

TransitionKind(c) == [CASHED_OUT |-> "CASHED_OUT", BUSTED |-> "BUSTED", COMPLETED |-> "COMPLETED",
                      ACTIVE |-> "STAGE_CONTINUED"][ResolvedDecision(c).status]

\* What the gate asks of a cash-out, and of a continue, at the time the call read.
RiskAccepts(c) ==
  LET r == crashCall[c].round
      next == ResolvedDecision(c)
  IN
  IF crashCall[c].action = "cash-out"
  THEN next.stage <= CrashRisk.maxStage /\ next.pot <= CrashRisk.maxPot
  ELSE /\ PotAllowed(round[r].stage, round[r].pot)
       /\ RiskHealthFresh(crashCall[c].at)
       /\ StageAndDuration(next.stage, round[r].expires, crashCall[c].at)
       /\ Admitted(r, next.pot)

\* The custody policies configured in the process that serves a call.
CustodyConfigs == {<<>>, <<"valid">>, <<"invalid">>, <<"valid", "valid">>}
ResolvePolicy(config) ==
  CASE config = <<>> -> "CUSTODY_POLICY_ABSENT"
    [] Len(config) > 1 -> "CUSTODY_POLICY_AMBIGUOUS"
    [] config = <<"invalid">> -> "CUSTODY_POLICY_INVALID"
    [] OTHER -> "approved"

\* resolveMovement
MovementStatus(c, config) ==
  IF DecisionIsCurrent(c) /\ ResolvePolicy(config) = "approved" THEN "PREPARED" ELSE "RECOVERY_REQUIRED"

\* prepareFixtureMovement, in the transaction of a continue: one intent for a stage, and
\* one that is not PREPARED takes the transaction back.
CustodyAllowed(c, config) ==
  crashCall[c].action = "continue" =>
    crashCall[c].stage \notin intents[crashCall[c].round] /\ MovementStatus(c, config) = "PREPARED"

\* state.decide: one transaction.  A conflict or a passed deadline sends the call to
\* resume the round once more; anything else is answered.
DecideRound(c) ==
  LET r == crashCall[c].round
      next == ResolvedDecision(c)
      open == DecisionIsCurrent(c) /\ round[r].deadline > crashCall[c].at
      accepted(config) == open /\ RiskAccepts(c) /\ CustodyAllowed(c, config)
  IN
  /\ crashCall[c].pc = "decide"
  /\ \/ /\ \E config \in CustodyConfigs : accepted(config)
        /\ round' = [round EXCEPT ![r] = next]
        /\ crashLog' = [crashLog EXCEPT ![r] = Append(@,
             [kind |-> TransitionKind(c), key |-> crashCall[c].key, decision |-> crashCall[c].action,
              from |-> round[r].stage, to |-> next.stage, status |-> next.status,
              asset |-> IF crashCall[c].action = "continue" THEN round[r].stage ELSE 0])]
        /\ intents' = [intents EXCEPT ![r] =
             IF crashCall[c].action = "continue" THEN @ \cup {round[r].stage} ELSE @]
        /\ exposure' = ExposureAfter(r, next)
        /\ EndCrash(c)
     \/ /\ \E config \in CustodyConfigs : ~accepted(config)
        /\ IF open THEN EndCrash(c) ELSE GotoCrash(c, "again")
        /\ UNCHANGED <<round, crashLog, intents, exposure>>
  /\ UNCHANGED <<houseRoom, crashRoll, crashTime>>

\* The catch of decide: the round is resumed, and its default applied if it is due.
ResumeAfterConflict(c) ==
  LET r == crashCall[c].round IN
  /\ crashCall[c].pc = "again"
  /\ IF CanDefault(r) THEN Defaulted(r) ELSE UNCHANGED <<round, crashLog, exposure>>
  /\ EndCrash(c)
  /\ UNCHANGED <<intents, houseRoom, crashRoll, crashTime>>

CrashCallDies(c) ==
  /\ crashCall[c].pc # "idle"
  /\ EndCrash(c)
  /\ UNCHANGED <<round, crashLog, intents, exposure, houseRoom, crashRoll, crashTime>>

(***************************************************************************)
(* The environment.                                                        *)
(***************************************************************************)
CrashTick ==
  /\ crashTime < MaxCrashTime
  /\ crashTime' = crashTime + 1
  /\ UNCHANGED <<round, crashLog, intents, exposure, houseRoom, crashRoll, crashCall>>
HouseRoomMoves ==
  /\ houseRoom' \in HouseRooms \ {houseRoom}
  /\ UNCHANGED <<round, crashLog, intents, exposure, crashRoll, crashCall, crashTime>>

CrashRoundStep(R, C) ==
  \/ \E r \in R : CreateFixtureRound(r) \/ SweepExpired(r)
  \/ \E c \in C :
       \/ \E r \in R : BeginDecision(c, r)
       \/ ResumeRound(c) \/ DecideRound(c) \/ ResumeAfterConflict(c) \/ CrashCallDies(c)
  \/ CrashTick \/ HouseRoomMoves

CrashRoundInit ==
  /\ round = [r \in Rounds |-> NoRound]
  /\ crashLog = [r \in Rounds |-> <<>>]
  /\ intents = [r \in Rounds |-> {}]
  /\ exposure = [r \in Rounds |-> [status |-> "NONE", amount |-> 0]]
  /\ houseRoom \in HouseRooms
  /\ crashTime = 0
  /\ crashCall = [c \in CrashCalls |-> CrashIdle]

CrashRoundTypeOK ==
  \A r \in Rounds :
    /\ round[r].status \in CrashEnded \cup {"NONE", "ACTIVE"}
    /\ round[r].stage \in 0..Len(CrashStages) /\ round[r].version \in 0..(Len(CrashStages) + 2)
    /\ round[r].deadline \in 0..(MaxCrashTime + DecisionTimeout)
    /\ intents[r] \subseteq 1..Len(CrashStages)
    /\ exposure[r].amount \in Nat

(***************************************************************************)
(* assertRoundLedger: what every read of a round asks of its rows.         *)
(***************************************************************************)
RoundLedgerValid(r) ==
  LET log == crashLog[r]
      ended == round[r].status \in CrashEnded IN
  /\ Len(log) = round[r].version
  /\ log[1].kind = "ROUND_STARTED" /\ log[1].from = 0
  /\ log[Len(log)].status = round[r].status /\ log[Len(log)].to = round[r].stage
  /\ ended = (round[r].settlement # "NOT_REQUIRED")
  /\ ended = (round[r].deadline = 0)

(***************************************************************************)
(* Property.                                                               *)
(***************************************************************************)
\* However decisions, retries, sweeps and changing house limits interleave, a round stays
\* readable and its reservation follows it: an active round reserves exactly its pot, in an
\* envelope where a cash-out is never refused by the gate, and is due before the risk of
\* the house ends; an ended round reserves nothing; each stage that was paid for has
\* exactly one transition with its asset and one custody intent; and together the rounds
\* of a wallet stay within its exposure limit.
CrashExposureFollowsRounds ==
  /\ ReservedAmount(Reserved) <= CrashRisk.maxWallet
  /\ \A r \in Rounds : round[r].status # "NONE" =>
       /\ RoundLedgerValid(r)
       /\ round[r].status = "ACTIVE" =>
            /\ exposure[r] = [status |-> "RESERVED", amount |-> round[r].pot]
            /\ round[r].stage <= CrashRisk.maxStage /\ round[r].pot <= CrashRisk.maxPot
            /\ round[r].deadline <= round[r].expires
       /\ round[r].status \in CrashEnded => exposure[r].status = "RELEASED"
       /\ \A s \in 1..Len(CrashStages) :
            Cardinality({i \in DOMAIN crashLog[r] : crashLog[r][i].asset = s})
              = IF s \in intents[r] THEN 1 ELSE 0
=============================================================================
