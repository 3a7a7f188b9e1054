------------------------------ MODULE GachaOdds ------------------------------
(***************************************************************************)
(* The pure part of the gacha machine: the committed odds, the eligible    *)
(* cards of an inventory snapshot, and the card two seeds draw             *)
(* (gacha/gacha-pull-odds.ts, gacha-inventory-snapshot.service.ts,         *)
(* selectGachaOutcome in gacha-rip.service.ts).                            *)
(*                                                                         *)
(* A band is [min, ppm] and is named by its place.  A card is named by its *)
(* place in the canonical order; patterns, hashes and currencies are left  *)
(* out, a value that fails them never reaches these operators.             *)
(***************************************************************************)
EXTENDS FlipRules

CONSTANTS
  GACHA_PROBABILITY_SCALE_PPM,    \* 1_000_000 in the code
  GACHA_BANDS,                    \* 4: base, plus, premium, chase
  UINT32_RANGE                    \* 2^32 in the code

ASSUME GachaOddsConstants ==
  /\ GACHA_PROBABILITY_SCALE_PPM \in Nat \ {0} /\ GACHA_BANDS \in Nat \ {0}
  /\ UINT32_RANGE \in Nat /\ UINT32_RANGE >= GACHA_PROBABILITY_SCALE_PPM

\* validateGachaPullOddsRuleSet: minimums may repeat and a band may have no odds.
ValidGachaBands(bands) ==
  /\ Len(bands) = GACHA_BANDS
  /\ bands[1].min = 0
  /\ \A i \in DOMAIN bands : /\ bands[i].ppm \in 0..GACHA_PROBABILITY_SCALE_PPM
                             /\ i > 1 => bands[i - 1].min <= bands[i].min
  /\ PpmUpTo(bands, Len(bands)) = GACHA_PROBABILITY_SCALE_PPM

\* gachaPullOddsBandForRoll: the first band whose upper bound is above the roll.
GachaBandForRoll(bands, roll) == Min({i \in DOMAIN bands : roll < PpmUpTo(bands, i)})

\* gachaPullOddsBandForValue: the loop stops at the first band above the value.
GachaBandForValue(bands, value) ==
  LET above == {i \in DOMAIN bands : value < bands[i].min}
  IN  IF above = {} THEN Len(bands) ELSE Max({1, Min(above) - 1})

(***************************************************************************)
(* prepareGachaInventorySnapshot.  A card is [asset, value, age, source,   *)
(* open]: its asset reference, its insured value, the age of the value,    *)
(* whether the value names its source, and whether it is open, enabled,    *)
(* vaulted, graded and of the machine's sport.  0 stands for a missing     *)
(* asset, -1 for a missing value.                                          *)
(***************************************************************************)
\* canonicalPolicy: the bounds that a policy is accepted with.
ValidGachaPolicy(policy) ==
  /\ policy.minItems \in 1..policy.poolSize
  /\ policy.maxItems \in policy.minItems..policy.poolSize
  /\ policy.maxSkew >= 0 /\ policy.maxAge >= 1

ExclusionReasons(cards, n, policy) ==
  LET c == cards[n]
      When(condition, reason) == IF condition THEN {reason} ELSE {}
  IN  When(c.asset = 0, "MISSING_ASSET_REFERENCE")
        \cup When(c.asset # 0 /\ \E k \in DOMAIN cards \ {n} : cards[k].asset = c.asset, "DUPLICATE_ASSET")
        \cup When(c.value = -1, "MISSING_INSURED_VALUE")
        \cup When(~c.source, "MISSING_VALUATION_SOURCE")
        \cup When(c.value # -1 /\ c.age > policy.maxAge, "STALE_VALUATION")
        \cup When(c.value # -1 /\ c.age < -policy.maxSkew, "FUTURE_VALUATION")
        \cup When(~c.open, "CLOSED")

\* The first maximumEligibleItems cards without a reason; the rest get MAXIMUM_ITEM_COUNT.
EligibleCards(cards, policy) ==
  LET sound == {n \in DOMAIN cards : ExclusionReasons(cards, n, policy) = {}}
  IN  {n \in sound : Cardinality({k \in sound : k < n}) < policy.maxItems}

\* A snapshot with too few eligible cards is not sealed.
GachaSnapshotAccepted(cards, policy) ==
  ValidGachaPolicy(policy) /\ Cardinality(EligibleCards(cards, policy)) >= policy.minItems

\* fixtureSnapshotInput and devnetSnapshotInput: every committed card must be eligible.
FullPoolPolicy(size, maxAge) ==
  [poolSize |-> size, minItems |-> size, maxItems |-> size, maxAge |-> maxAge, maxSkew |-> 1]

\* latestEvidenceTimestamp: ages are counted from the newest evidence.
Aged(cards, stamp) ==
  [n \in DOMAIN cards |-> [cards[n] EXCEPT !.age = Max({stamp[k] : k \in DOMAIN stamp}) - stamp[n]]]

(***************************************************************************)
(* selectGachaOutcome                                                      *)
(***************************************************************************)
RollPpm(word) == word % GACHA_PROBABILITY_SCALE_PPM

\* The cards of the rolled band, or none: then the rip is refused and the payment kept.
DrawnFrom(bands, cards, policy, excluded, word) ==
  {n \in EligibleCards(cards, policy) : /\ cards[n].asset \notin excluded
                                        /\ GachaBandForValue(bands, cards[n].value)
                                             = GachaBandForRoll(bands, RollPpm(word))}

SelectGachaOutcome(bands, cards, policy, excluded, word1, word2) ==
  LET drawn == DrawnFrom(bands, cards, policy, excluded, word1)
  IN  IF drawn = {} THEN 0 ELSE NthOutcome(drawn, word2 % Cardinality(drawn))

(***************************************************************************)
(* Property of the operators, for the inputs a run enumerates.             *)
(***************************************************************************)
\* The machine pays the odds it committed to, up to the bias of reducing a 32-bit word:
\* a band is drawn by ppm residues, each of which has RANGE \div SCALE words or one more.
\* What is drawn is an eligible card of that band that no other rip holds, a band without
\* one refuses, and within a band no card is preferred by more than one word.
GachaDrawKeepsOdds(bands, cards, policy, excluded) ==
  LET words == 0..(UINT32_RANGE - 1)
      low == UINT32_RANGE \div GACHA_PROBABILITY_SCALE_PPM
      Words(i) == {w \in words : GachaBandForRoll(bands, RollPpm(w)) = i}
      free == {n \in EligibleCards(cards, policy) : cards[n].asset \notin excluded}
  IN  ValidGachaBands(bands) /\ GachaSnapshotAccepted(cards, policy) =>
        \A i \in DOMAIN bands :
          LET mine == {n \in free : GachaBandForValue(bands, cards[n].value) = i}
              Picks(w, n) == {v \in words : SelectGachaOutcome(bands, cards, policy, excluded, w, v) = n}
          IN  /\ Cardinality(Words(i)) \in (bands[i].ppm * low)..(bands[i].ppm * (low + 1))
              /\ \A w \in Words(i) :
                   /\ mine = {} => Picks(w, 0) = words
                   /\ \A n \in mine :
                        Cardinality(Picks(w, n)) - UINT32_RANGE \div Cardinality(mine) \in {0, 1}
=============================================================================
