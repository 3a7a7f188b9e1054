----------------------------- MODULE Calculators -----------------------------
(***************************************************************************)
(* What the calculators that keep no state are asked, and what they owe: a *)
(* call's arguments are one input, told apart by its kind.                 *)
(***************************************************************************)
EXTENDS GachaOdds, FlipRegistry, Fantasy, PublicListing, Admission

VARIABLE input

\* The calculators draw what was reviewed: what the flip services commit to stays sealed
\* and can be played at the reviewed odds, amounts are compared exactly, and the gacha machine pays its odds.
DrawsKeepOdds ==
  /\ input.kind = "flip" =>
       CommittedPoolIsPlayable(input.rules, input.cands, input.policy, input.rules.stake, 1, input.now)
  /\ input.kind = "registry" => RegistryIsFinal(input.requests)
  /\ input.kind = "money" => AmountsCompareExactly(input.a, input.d, input.b, input.e)
  /\ input.kind = "gacha" => GachaDrawKeepsOdds(input.bands, input.cards, input.policy, input.excluded)

\* The league's calculators account for what they are given: payouts lose dust only, kickoff
\* seals every holding once, and every unit is scored once.
BooksBalance ==
  /\ input.kind = "payout" => PayoutLosesOnlyDust(input.rules, input.placements, input.pool)
  /\ input.kind = "kickoff" => KickoffSealsOnce(input.holdings, 1)
  /\ input.kind = "score" => ScoreCountsUnitsOnce(input.rule, input.line)

\* No draw, division or rounding of the calculators makes or loses odds, money or points.
CalculationsAreExact == DrawsKeepOdds /\ BooksBalance

\* What is shown is backed: listed activity is verified, attention has its reason, what the
\* lobby offers is admitted, and no signal of production passes without its policy.
OffersHold ==
  /\ input.kind = "activity" => ActivityIsVerified(input.row)
  /\ input.kind = "attention" => AttentionHasReason(input.duel, input.stuckBefore)
  /\ input.kind = "policy" => ProductionNeedsPolicy(input.env)
  /\ input.kind = "lobby" =>
       /\ OfferedIsAdmitted(input.duels, input.env, input.facts)
       /\ SummaryTellsRefusals(input.duels, input.env, input.facts)
=============================================================================
