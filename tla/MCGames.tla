------------------------------- MODULE MCGames -------------------------------
(***************************************************************************)
(* The flip, crash and gacha games for TLC.  They share no rows, so each   *)
(* is explored in parts of its own while the others stay in their initial  *)
(* state:                                                                  *)
(*   stake       a flip session from its stake to its recorded selection   *)
(*   acquire     a selected flip session while its asset is bought and     *)
(*               transferred                                               *)
(*   decide      one crash round, two decisions in flight                  *)
(*   exposure    two crash rounds of one wallet                            *)
(*   settle      a crash round that busted, ran out of time or cashed out  *)
(*   boot        a gacha machine before its odds are committed             *)
(*   pay         one wallet's payment intents, each worth a rip            *)
(*   rip         two paid intents of two wallets and two cards             *)
(*   rules       no step: an input of the calculators of the games and of  *)
(*               the lists and reports about them                          *)
(***************************************************************************)
EXTENDS FlipAcquisition, CrashHistory, GachaRip, Calculators, Funnel, TLC

VARIABLE part
gameVars == <<flipVars, acqVars, crashVars, settleVars, payVars, ripVars, part, input>>

MCStages == <<[bps |-> 3, maxPot |-> 4, threshold |-> 1], [bps |-> 7, maxPot |-> 6, threshold |-> 1]>>
MCRisk == [maxStage |-> 2, maxPot |-> 5, maxWallet |-> 6, maxDuration |-> 2, maxAge |-> 1]
Stages == DOMAIN MCStages
One(S) == {CHOOSE x \in S : TRUE}

(***************************************************************************)
(* Initial states.                                                         *)
(***************************************************************************)
FlipEntry(kind, key, ev, from, to, pool, won) ==
  [kind |-> kind, key |-> key, ev |-> ev, from |-> from, to |-> to, reason |-> "none", pool |-> pool,
   asset |-> won]
SelectedLog ==
  << FlipEntry("session-started", "session-started", 0, "NONE", "AWAITING_STAKE", FALSE, 0),
     FlipEntry("confirm-stake", "stake", 1, "AWAITING_STAKE", "STAKE_CONFIRMED", FALSE, 0),
     FlipEntry("commit-pool", "pool", 0, "STAKE_CONFIRMED", "POOL_COMMITTED", TRUE, 0),
     FlipEntry("record-selection", "selection", 1, "POOL_COMMITTED", "SELECTION_RECORDED", TRUE, 1) >>
Selected == [NoSession EXCEPT !.status = "SELECTION_RECORDED", !.version = 4, !.stake = 1, !.pool = TRUE,
                              !.ordinal = 1]
FlipPart ==
  /\ FlipSessionInit /\ AcquisitionInit
  /\ IF part = "acquire"
     THEN /\ flip = [s \in Sessions |-> Selected] /\ flipLog = [s \in Sessions |-> SelectedLog]
          /\ proof = [s \in Sessions |-> [entropy |-> 4, ordinal |-> 1, final |-> TRUE]]
     ELSE /\ flip = [s \in Sessions |-> NoSession] /\ flipLog = [s \in Sessions |-> <<>>]
          /\ proof = [s \in Sessions |-> NoProof]

CrashEntry(kind, key, decision, from, to, status, won) ==
  [kind |-> kind, key |-> key, decision |-> decision, from |-> from, to |-> to, status |-> status,
   asset |-> won]
RoundStarted == CrashEntry("ROUND_STARTED", 0, "none", 0, 1, "ACTIVE", 0)
key1 == CHOOSE k \in CrashKeys : TRUE
key2 == CHOOSE k \in CrashKeys \ {key1} : TRUE
Ended(r, status, stage, pot, log, assets) ==
  /\ round = [q \in Rounds |-> IF q # r THEN NoRound
                ELSE [NoRound EXCEPT !.status = status, !.stage = stage, !.version = Len(log), !.pot = pot,
                                     !.expires = 2, !.settlement = "PENDING"]]
  /\ crashLog = [q \in Rounds |-> IF q = r THEN log ELSE <<>>]
  /\ intents = [q \in Rounds |-> IF q = r THEN assets ELSE {}]
  /\ exposure = [q \in Rounds |-> IF q = r THEN [status |-> "RELEASED", amount |-> 1]
                                  ELSE [status |-> "NONE", amount |-> 0]]
CrashPart ==
  /\ CrashSettlementInit
  /\ crashCall = [c \in CrashCalls |-> CrashIdle]
  /\ IF part \in {"decide", "exposure"}
     THEN /\ CrashRoundInit /\ crashRoll \in [Rounds -> [Stages -> 0..1]]
          /\ part = "exposure" => \A r \in Rounds, s \in Stages \ {1} : crashRoll[r][s] = 1
          /\ part = "decide" => \A r \in Rounds \ One(Rounds), s \in Stages : crashRoll[r][s] = 1
     ELSE crashRoll = [r \in Rounds |-> [s \in Stages |-> 1]]
  /\ part = "settle" =>
       /\ houseRoom = 6 /\ crashTime = 2
       /\ \E r \in One(Rounds) :
            \/ Ended(r, "BUSTED", 1, 2,
                 <<RoundStarted, CrashEntry("BUSTED", key1, "continue", 1, 1, "BUSTED", 1)>>, {1})
            \/ Ended(r, "DEFAULTED", 1, 1,
                 <<RoundStarted, CrashEntry("DEADLINE_DEFAULTED", 0, "forfeit", 1, 1, "DEFAULTED", 0)>>, {})
            \/ Ended(r, "CASHED_OUT", 2, 2,
                 <<RoundStarted, CrashEntry("STAGE_CONTINUED", key1, "continue", 1, 2, "ACTIVE", 1),
                   CrashEntry("CASHED_OUT", key2, "cash-out", 2, 2, "CASHED_OUT", 0)>>, {1})
  /\ part \notin {"decide", "exposure", "settle"} => CrashRoundInit /\ houseRoom = 6

GachaPart ==
  /\ rip = [r \in Rips |-> NoRip] /\ handed = [r \in Rips |-> NotHanded]
  /\ IF part \in {"pay", "rip"} THEN sealed = <<2, 1>> /\ odds = 1 ELSE sealed = <<>> /\ odds = 0
  /\ seed = [s \in Seeds |->
       IF part \in {"pay", "rip"} THEN [NoSeed EXCEPT !.status = "OPEN", !.snapshot = 1] ELSE NoSeed]
  /\ IF part = "rip"
     THEN /\ payment = [i \in Intents |->
               [NoPayment EXCEPT !.status = "VERIFIED", !.payer = i, !.signature = 1]]
          /\ transfer = [i \in Intents |-> [s \in Signatures |->
               IF s = 1 THEN [state |-> "final", fresh |-> FALSE] ELSE NoTransfer]]
          /\ gcall = [c \in GachaCalls |-> GachaIdle]
     ELSE PaymentInit

(***************************************************************************)
(* Inputs of the calculators.                                              *)
(***************************************************************************)
Band(min, ppm) == [min |-> min, ppm |-> ppm]
Listing(amount, decimals, age, liquidity) ==
  [amount |-> amount, decimals |-> decimals, ages |-> <<0, age>>, liquidity |-> liquidity, allowed |-> TRUE]
Listings == {Listing(3, 1, 0, 1), Listing(10, 2, 0, 1), Listing(15, 2, 0, 1), Listing(2, 1, 2, 1),
             Listing(2, 1, 0, 0), Listing(2, 1, 0, 1)}
FlipInput ==
  \E p \in 1..3, c \in [1..3 -> Listings], items \in 2..3, most \in {4, 9}, now \in {1, 3} :
    input = [kind |-> "flip", now |-> now,
             rules |-> [version |-> 1, bands |-> <<Band(0, p), Band(2, 4 - p)>>, stake |-> 2, fee |-> 1,
                        edge |-> 0, reviewedAt |-> 0],
             cands |-> [n \in 1..3 |-> [asset |-> n] @@ c[n]],
             policy |-> [minItems |-> 2, maxItems |-> items, minValue |-> 0, maxValue |-> 9,
                         maxExposure |-> most, maxAge |-> 1, maxSkew |-> 0, minLiquidity |-> 1]]
MoneyInput ==
  \E a, b \in 0..12, d, e \in 0..3 : input = [kind |-> "money", a |-> a, d |-> d, b |-> b, e |-> e]

GachaInput ==
  \E bands \in {<<Band(0, 0), Band(2, 4)>>, <<Band(0, 2), Band(0, 2)>>, <<Band(0, 2), Band(2, 2)>>,
               <<Band(0, 3), Band(1, 1)>>},
     cards \in [1..3 -> [asset : 0..3, value : {-1, 1, 2}, age : {0}, source : {TRUE}, open : {TRUE}]],
     stamp \in [1..3 -> {0, 2}], policy \in {FullPoolPolicy(3, 2), [FullPoolPolicy(3, 1) EXCEPT !.minItems = 1]},
     excluded \in {{}, {1}} :
    /\ \A n \in 1..2 : cards[n].asset <= cards[n + 1].asset
    /\ input = [kind |-> "gacha", bands |-> bands, cards |-> Aged(cards, stamp), policy |-> policy,
                excluded |-> excluded]

Placements == [position : {"p1", "p2"}, place : 1..2, shares : [{"w1", "w2"} -> 0..2]]
PayoutInput ==
  \E rules \in {"p1" :> <<1, 3>>, "p1" :> <<2, 2>>, ("p1" :> <<1>>) @@ ("p2" :> <<3>>)}, pool \in {3, 7},
     placements \in SeqOf(Placements, 2) :
    input = [kind |-> "payout", rules |-> rules, placements |-> placements, pool |-> pool]

Holdings == [custody : 1..3, wallet : {1}, player : 1..2, shares : 1..2]
LeagueInput ==
  \/ \E holdings \in SeqOf(Holdings, 2) : input = [kind |-> "kickoff", holdings |-> holdings]
  \/ \E stats \in [1..2 -> {"goals", "saves", "assists"}], weights \in [1..2 -> {-2, 1}],
        scored \in SUBSET {"goals", "saves"} : \E line \in [scored -> {-1, 2}] :
       input = [kind |-> "score", line |-> line,
                rule |-> [base |-> 5, components |-> [n \in 1..2 |-> [stat |-> stats[n], weight |-> weights[n]]]]]

\* Players 1, 2 and 3, the house; unsettled, unrankable, tied and decided duels.
PublicDuel(players, status, mode, winner, settledAt) ==
  [status |-> status, reason |-> "timeout", creator |-> players[1], opponent |-> players[2], mode |-> mode,
   mock |-> FALSE, values |-> <<winner, 1>>, winnerSide |-> "none", ready |-> TRUE,
   winner |-> winner, escrow |-> TRUE, settledAt |-> settledAt]
PublicDuels ==
  {PublicDuel(players, "SETTLED", mode, winner, at) :
     players \in {<<1, 2>>, <<2, 1>>, <<1, 3>>}, mode \in {"mock", "dailydraft-devnet"}, winner \in 0..3, at \in 1..2}
    \cup {PublicDuel(<<1, 2>>, status, "dailydraft-devnet", 0, 0) :
            status \in {"CANCELLED", "REFUNDED", "FAILED", "OPENING"}}
StandingsInput ==
  \E duels \in SeqOf(PublicDuels, 2), limit \in 1..2 :
    input = [kind |-> "standings", duels |-> duels, limit |-> limit]

\* Four rows, some at the same time, of which one may change while pages are read and a
\* fifth comes in.
PagesInput ==
  \E at \in [1..4 -> 1..2], ok \in [1..4 -> BOOLEAN], changed \in 0..4, when \in 1..3, limit \in 1..2 :
    /\ \A n \in 1..3 : at[n] <= at[n + 1]
    /\ input = [kind |-> "pages", limit |-> limit, tables |-> [n \in 1..6 |->
         {[at |-> at[i], id |-> i, ok |-> IF i = changed /\ n > when THEN ~ok[i] ELSE ok[i]] : i \in 1..4}
           \cup (IF n > when THEN {[at |-> 3, id |-> 5, ok |-> TRUE]} ELSE {})]]

PublicRow(action, wallet, status) ==
  [action |-> action, wallet |-> wallet, status |-> status, signed |-> TRUE, fee |-> 1, alert |-> FALSE,
   recovered |-> FALSE]
ActivityInput ==
  \E winner \in 0..3, values \in {<<>>, <<1, 1>>, <<2, 1>>, <<1, 2>>}, side \in {"creator", "opponent", "none"},
     mode \in {"mock", "dailydraft-devnet"}, mock, ready, hashes, consistent \in BOOLEAN,
     settled, committed \in {"SUBMITTED", "FINALIZED"}, paid \in 1..2, operations \in {{"creator"}, Sides} :
    input = [kind |-> "activity", row |->
      [duel |-> [status |-> "SETTLED", reason |-> "none", creator |-> 1, opponent |-> 2, mode |-> mode,
                 mock |-> mock, values |-> values, winnerSide |-> side, ready |-> ready, winner |-> winner,
                 escrow |-> TRUE, settledAt |-> 1],
       txs |-> {PublicRow("fund", w, "FINALIZED") : w \in 1..paid}
                 \cup {PublicRow("commit_result", 3, committed), PublicRow("settle", 3, settled)},
       evidence |-> [hashes |-> hashes, operations |-> operations, consistent |-> consistent]]]

AttentionInput ==
  \E status \in {"FUNDED", "FAILED", "OPENING"}, funded \in 1..3,
     txs \in SUBSET {t \in [status : {"FAILED", "SUBMITTED"}, stuck : BOOLEAN, candidate : BOOLEAN,
                             recovered : BOOLEAN] : t.status = "FAILED" => ~t.stuck} :
    input = [kind |-> "attention", stuckBefore |-> 2, duel |-> [status |-> status, fundedAt |-> funded, txs |-> txs]]

NoPolicy == [present |-> FALSE, json |-> FALSE, schema |-> FALSE, version |-> FALSE, approvals |-> {}, capabilities |-> {}]
Policies ==
  {NoPolicy} \cup {[present |-> TRUE, json |-> TRUE, schema |-> TRUE, version |-> version, approvals |-> approvals,
                  capabilities |-> capabilities] :
      version \in BOOLEAN, approvals \in {Range(APPROVAL_KEYS), Range(APPROVAL_KEYS) \ {"legal"}},
      capabilities \in {{}, {"unknown"}, REAL_VALUE_CAPABILITIES, REAL_VALUE_CAPABILITIES \ {"duel.join"},
                        REAL_VALUE_CAPABILITIES \ {"duel.create.house"}}}
LobbyInput ==
  \/ \E explicit \in {"unset", "true", "false", "yes"}, network \in {"none", "solana-devnet", "solana-mainnet"},
        provider \in {"none", "mock", "dailydraft-devnet", "collector-crypt-sandbox", "collector-crypt-production"},
        node \in {"test", "production"}, policy \in Policies, enabled \in BOOLEAN :
       input = [kind |-> "policy", env |->
         [explicit |-> explicit, network |-> network, provider |-> provider, node |-> node, policy |-> policy,
          enabled |-> enabled, tiers |-> {0}, house |-> TRUE, demo |-> TRUE, treasury |-> TRUE,
          maxWallet |-> 1, maxTier |-> 2]]
  \/ \E provider \in {"mock", "dailydraft-devnet", "collector-crypt-sandbox"}, tiers \in {{0}, {}, {25}, {50, 25}},
        house, demo, treasury, database, rpc, snapshot, paused \in BOOLEAN, found \in 0..1,
        duels \in {<<>>, <<1>>, <<1, 2>>} :
       input = [kind |-> "lobby",
         duels |-> [n \in DOMAIN duels |-> [creator |-> duels[n], opponent |-> 0, tier |-> 50]],
         env |-> [explicit |-> "unset", network |-> "solana-devnet", provider |-> provider, node |-> "production",
                  policy |-> NoPolicy, enabled |-> FALSE, tiers |-> tiers, house |-> house, demo |-> demo,
                  treasury |-> treasury, maxWallet |-> 1, maxTier |-> 2],
         facts |-> [database |-> database, rpc |-> rpc, snapshot |-> snapshot, discrepancies |-> found,
                    paused |-> paused]]

Request(key, at, forwarded, origin, method) ==
  [key |-> key, at |-> at, trusted |-> FALSE, forwarded |-> forwarded, origin |-> origin, method |-> method]
Requests ==
  UNION {{Request(key, at, "absent", "none", "GET"), Request(key, at, "valid", "none", "GET"),
          Request(key, at, "absent", "other", "GET"), Request(key, at, "absent", "allowed", "OPTIONS")} :
           key \in 1..3, at \in 0..2}
\* Clients are told apart by their keys only, so the first request is client 1's; the same
\* holds for duels and the first event of a log below.
RateInput ==
  \E requests \in SeqOf(Requests, 3), more \in {0, 2}, limit \in 1..2 :
    /\ requests # <<>> /\ requests[1].key = 1
    /\ \A n \in 1..(Len(requests) - 1) : requests[n].at <= requests[n + 1].at
    /\ input = [kind |-> "rate", limit |-> limit, requests |-> requests \o [n \in 1..more |-> Last(requests)]]

FunnelEvents ==
  {[name |-> name, source |-> "server", duel |-> d, session |-> 0, at |-> 0, id |-> 0] :
     name \in {"duel_created", "duel_matched", "duel_funded"}, d \in 1..2}
    \cup {[name |-> "lobby_viewed", source |-> "client", duel |-> 0, session |-> s, at |-> 0, id |-> 0] : s \in {1}}
FunnelInput ==
  \E events \in SeqOf(FunnelEvents, 5) :
    /\ events # <<>> => events[1].duel # 2
    /\ input = [kind |-> "funnel", now |-> 6,
             log |-> [n \in DOMAIN events |-> [events[n] EXCEPT !.at = n, !.id = n]]]

Rules(stake, edition) == [stake |-> stake, edition |-> edition]
Branches(c) == <<[code |-> 1, branch |-> "refund"], [code |-> c, branch |-> "retry"], [code |-> 3, branch |-> "retain"]>>
RegistryRequests ==
  {[op |-> "rules", key |-> 1, content |-> Rules(stake, e)] : stake \in 1..2, e \in {1}}
    \cup {[op |-> "snapshot", content |-> Rules(stake, e)] : stake \in 1..2, e \in {1}}
    \cup {[op |-> "pool", key |-> 1, rules |-> 1, snapshot |-> n] : n \in 1..2}
    \cup {[op |-> "policy", key |-> 1, content |-> [rules |-> Rules(1, 1), branches |-> Branches(c)]] : c \in {1, 2}}
    \cup {[op |-> "policy", key |-> 1, content |-> [rules |-> Rules(2, 1), branches |-> Branches(2)]]}
RegistryInput == \E requests \in SeqOf(RegistryRequests, 4) : input = [kind |-> "registry", requests |-> requests]

NoInput == [kind |-> "none"]

Init ==
  /\ part \in {"stake", "acquire", "decide", "exposure", "settle", "boot", "pay", "rip", "rules"}
  /\ FlipPart /\ CrashPart /\ GachaPart
  /\ IF part = "rules"
     THEN FlipInput \/ MoneyInput \/ GachaInput \/ PayoutInput \/ LeagueInput \/ StandingsInput
          \/ RegistryInput \/ PagesInput \/ ActivityInput \/ AttentionInput \/ LobbyInput \/ RateInput \/ FunnelInput
     ELSE input = NoInput

(***************************************************************************)
(* Steps.                                                                  *)
(***************************************************************************)
FlipNext ==
  \/ /\ part = "stake" /\ UNCHANGED acqVars
     /\ \/ \E c \in FlipCalls : StakeSteps(c) \/ SelectionSteps(c)
        \/ FlipTick \/ ProviderReports
        \/ \E s \in Sessions : CreateFixtureSession(s)
  \/ part = "acquire" /\ AcquisitionStep
  \/ /\ part \in {"stake", "acquire"} /\ UNCHANGED acqVars
     /\ \E s \in Sessions : OperatorTransition(s)

CrashNext ==
  \/ part = "decide" /\ UNCHANGED settleVars /\ CrashRoundStep(One(Rounds), CrashCalls)
  \/ part = "exposure" /\ UNCHANGED settleVars /\ CrashRoundStep(Rounds, One(CrashCalls))
  \/ part = "settle" /\ CrashSettlementStep(One(Rounds))

\* The rip that takes the first row was asked for with an idempotency key, the other one
\* without, or by a replay.
FirstRipHasKey == rip'[1].status # "NONE" => rip'[1].key = 1

GachaNext ==
  \/ part = "pay" /\ UNCHANGED ripVars /\ PaymentStep(One(Payers))
  \/ /\ part = "pay"
     /\ \E c \in GachaCalls :
          \/ RipCallEnds(c)
          \/ \E i \in Intents, w \in One(Payers), s \in Seeds : CreateFixtureRip(c, i, w, s, 0)
  \/ part \in {"boot", "rip"} /\ RipStep /\ FirstRipHasKey

Next ==
  /\ UNCHANGED <<part, input>>
  /\ \/ FlipNext /\ UNCHANGED <<crashVars, settleVars, payVars, ripVars>>
     \/ CrashNext /\ UNCHANGED <<flipVars, acqVars, payVars, ripVars>>
     \/ GachaNext /\ UNCHANGED <<flipVars, acqVars, crashVars, settleVars>>

Spec == Init /\ [][Next]_gameVars

\* Callers, workers and cards of all parts change places at once.
Swaps(S) == {f \in Permutations(S) : \A x \in S : f[x] # x}
Symmetry ==
  Permutations(Seeds)
    \cup {f @@ g @@ h @@ k @@ l @@ m :
            f \in Swaps(FlipCalls), g \in Swaps(Workers), h \in Swaps(Settlers), k \in Swaps(GachaCalls),
            l \in Swaps(CrashCalls), m \in Swaps(Cards)}

\* What is read from many rows or requests agrees with them: the public standings add up,
\* pages lose and repeat nothing, requests are limited, and reports count what happened once.
ViewsAgree ==
  /\ input.kind = "standings" => StandingsAddUp(input.duels, 3, input.limit)
  /\ input.kind = "pages" =>
       /\ WalkIsComplete(CursorPage, input.tables, input.limit)
       /\ WalkIsComplete(ActivityPage, input.tables, input.limit)
  /\ input.kind = "rate" => RateIsLimited(input.requests, input.limit)
  /\ input.kind = "funnel" => RetriesDoNotCount(input.log, input.now) /\ SampleInventsNothing(input.log, input.now)
=============================================================================
