------------------------------- MODULE Fantasy -------------------------------
(***************************************************************************)
(* The fantasy league's calculators (fantasy/): the score of a player's    *)
(* stat line, the holdings locked at kickoff, and the payout of a prize    *)
(* pool.  Amounts are integers, as in the code; hashes and patterns are    *)
(* left out.  A refused input is one the code throws for.                  *)
(***************************************************************************)
EXTENDS Integers, SequencesExt

CONSTANTS
  BASIS_POINTS_TOTAL,    \* 10_000 in the code
  MAX_PLACES_PER_POSITION,
  MAX_COMPONENTS_PER_POSITION

ASSUME FantasyConstants ==
  BASIS_POINTS_TOTAL \in Nat \ {0} /\ MAX_PLACES_PER_POSITION \in Nat /\ MAX_COMPONENTS_PER_POSITION \in Nat

(***************************************************************************)
(* calculateFantasyPlayerScore.  A rule is [base, components], the         *)
(* components [stat, weight] in sequence; a line gives units for some      *)
(* stats.                                                                  *)
(***************************************************************************)
\* validateFantasyScoringRuleSet, for the rule of one position.
ValidScoringRule(rule) ==
  /\ Len(rule.components) <= MAX_COMPONENTS_PER_POSITION
  /\ \A j, k \in DOMAIN rule.components : rule.components[j].stat = rule.components[k].stat => j = k

LineAccepted(rule, line) == DOMAIN line \subseteq {c.stat : c \in Range(rule.components)}

TotalMilliPoints(rule, line) ==
  FoldLeft(LAMBDA total, c : total + c.weight * (IF c.stat \in DOMAIN line THEN line[c.stat] ELSE 0),
           rule.base, rule.components)

(***************************************************************************)
(* prepareFantasyKickoffSnapshot.  A holding is [custody, wallet, player,  *)
(* shares]; the entries are in the order of their custody references.      *)
(***************************************************************************)
HoldingsAccepted(holdings, minimum) ==
  /\ holdings # <<>>
  /\ \A n \in DOMAIN holdings :
       /\ holdings[n].shares >= minimum
       /\ \A k \in DOMAIN holdings : k # n => holdings[k].custody # holdings[n].custody

InCustodyOrder(locked) ==
  [k \in 1..Cardinality(locked) |->
     CHOOSE h \in locked : Cardinality({g \in locked : g.custody < h.custody}) = k - 1]

KickoffSnapshot(holdings) ==
  LET locked == {holdings[n] : n \in DOMAIN holdings} IN
  [entries |-> InCustodyOrder(locked), players |-> {h.player : h \in locked},
   total |-> MapThenSumSet(LAMBDA n : holdings[n].shares, DOMAIN holdings)]

\* createFixtureSnapshot under the tournament's lock: one revision for a content.
SealedSnapshots(sealed, snapshot) ==
  IF \E n \in DOMAIN sealed : sealed[n] = snapshot THEN sealed ELSE Append(sealed, snapshot)

(***************************************************************************)
(* calculateFantasyPayouts.  Rules give every position its places' basis   *)
(* points; a placement is [position, place, shares], shares a function of  *)
(* the holders' wallets.                                                   *)
(***************************************************************************)
\* validateFantasyPayoutRuleSet
BasisPointsTotal(rules) ==
  LET PositionTotal(p) == MapThenSumSet(LAMBDA n : rules[p][n], DOMAIN rules[p])
  IN  MapThenSumSet(PositionTotal, DOMAIN rules)

ValidPayoutRules(rules) ==
  /\ \A p \in DOMAIN rules :
       /\ Len(rules[p]) \in 1..MAX_PLACES_PER_POSITION
       /\ \A n \in DOMAIN rules[p] : rules[p][n] \in 0..BASIS_POINTS_TOTAL
  /\ BasisPointsTotal(rules) = BASIS_POINTS_TOTAL

\* Mutant: two placements of one place are both paid.
PlacementsConfigured(rules, placements) ==
  \A k \in DOMAIN placements : /\ placements[k].position \in DOMAIN rules
                               /\ placements[k].place \in DOMAIN rules[placements[k].position]

PlacementsAccepted(rules, placements) ==
  /\ \A k \in DOMAIN placements :
       /\ placements[k].position \in DOMAIN rules
       /\ placements[k].place \in DOMAIN rules[placements[k].position]
  /\ \A j, k \in DOMAIN placements :
       <<placements[j].position, placements[j].place>> = <<placements[k].position, placements[k].place>> => j = k

PlaceAllocation(rules, placement, pool) ==
  (pool * rules[placement.position][placement.place]) \div BASIS_POINTS_TOTAL

TotalShares(shares) == MapThenSumSet(LAMBDA w : shares[w], DOMAIN shares)

\* distributeToHolders
HolderReward(amount, shares, w) ==
  IF TotalShares(shares) > 0 THEN (amount * shares[w]) \div TotalShares(shares) ELSE 0

HolderDistributed(amount, shares) ==
  MapThenSumSet(LAMBDA w : HolderReward(amount, shares, w), DOMAIN shares)

\* A place without a share leaves its allocation undistributed; a filled one leaves dust.
Payouts(rules, placements, pool) ==
  LET filled == {k \in DOMAIN placements : TotalShares(placements[k].shares) > 0}
      Amount(k) == PlaceAllocation(rules, placements[k], pool)
      paid == MapThenSumSet(LAMBDA k : HolderDistributed(Amount(k), placements[k].shares), filled)
      allocated == MapThenSumSet(Amount, filled)
  IN  [distributed |-> paid, residual |-> allocated - paid, undistributed |-> pool - allocated]

(***************************************************************************)
(* Properties of the operators, for the inputs a run enumerates.           *)
(***************************************************************************)
\* Every unit of a stat line counts once: a line scores what any two parts of it score, and
\* the order of the components makes no difference.
ScoreCountsUnitsOnce(rule, line) ==
  LET Part(S) == TotalMilliPoints(rule, [s \in S |-> line[s]]) - rule.base IN
  ValidScoringRule(rule) /\ LineAccepted(rule, line) =>
    /\ \A S \in SUBSET DOMAIN line : Part(S) + Part(DOMAIN line \ S) = Part(DOMAIN line)
    /\ \A s \in DOMAIN line : \E c \in Range(rule.components) :
         c.stat = s /\ Part({s}) = c.weight * line[s]
    /\ TotalMilliPoints([rule EXCEPT !.components = Reverse(@)], line) = TotalMilliPoints(rule, line)

\* The holdings of a tournament seal one revision, whatever order they come in, and it
\* locks every share of every custody reference once.
KickoffSealsOnce(holdings, minimum) ==
  LET snapshot == KickoffSnapshot(holdings) IN
  HoldingsAccepted(holdings, minimum) =>
    /\ Len(SealedSnapshots(<<snapshot>>, KickoffSnapshot(Reverse(holdings)))) = 1
    /\ Len(snapshot.entries) = Len(holdings)
    /\ snapshot.total = FoldFunction(LAMBDA h, n : h.shares + n, 0, snapshot.entries)

PlacesOf(rules) == MapThenSumSet(LAMBDA p : Len(rules[p]), DOMAIN rules)
HoldersOf(placements) == MapThenSumSet(LAMBDA k : Cardinality(DOMAIN placements[k].shares), DOMAIN placements)

\* Nobody is paid more than the pool holds, and only dust is lost: a holder's reward is
\* his exact share less than two units short, what is held back in a filled place is less
\* than one unit for every holder, and when every place is filled less than one unit for
\* every place stays undistributed.
PayoutLosesOnlyDust(rules, placements, pool) ==
  LET payout == Payouts(rules, placements, pool)
      Filled(k) == TotalShares(placements[k].shares) > 0
  IN  ValidPayoutRules(rules) /\ PlacementsAccepted(rules, placements) =>
        /\ payout.distributed + payout.residual + payout.undistributed = pool
        /\ payout.residual \in 0..HoldersOf(placements) /\ payout.undistributed \in 0..pool
        /\ Len(placements) = PlacesOf(rules) /\ (\A k \in DOMAIN placements : Filled(k)) =>
             payout.undistributed < PlacesOf(rules)
        /\ \A k \in DOMAIN placements : Filled(k) =>
             LET shares == placements[k].shares
                 exact(w) == pool * rules[placements[k].position][placements[k].place] * shares[w]
                 unit == BASIS_POINTS_TOTAL * TotalShares(shares)
             IN  \A w \in DOMAIN shares :
                   LET reward == HolderReward(PlaceAllocation(rules, placements[k], pool), shares, w)
                   IN  unit * reward <= exact(w) /\ exact(w) < unit * (reward + 2)
=============================================================================
