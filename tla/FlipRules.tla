------------------------------ MODULE FlipRules ------------------------------
(***************************************************************************)
(* The pure part of the flip game: reviewed outcome bands, the eligible    *)
(* entries of an inventory snapshot, the outcome space a session commits   *)
(* to, the admission of a stake to it, and the draw of one outcome         *)
(* (flip/flip-rules.service.ts, flip-inventory-snapshot.service.ts,        *)
(* flip-tier-admission.policy.ts, flip-outcome-selection.service.ts).      *)
(*                                                                         *)
(* A band is [min, ppm] and is named by its place.  A candidate is named   *)
(* by its listing reference, a number: the canonical order is its order.   *)
(* Keys, patterns, hashes and currencies of the contracts are left out: a  *)
(* value that fails them never reaches these operators.                    *)
(***************************************************************************)
EXTENDS Integers, Sequences, FiniteSets, FiniteSetsExt

CONSTANTS
  FLIP_PROBABILITY_SCALE_PPM,     \* 1_000_000 in the code
  MAX_BANDS,
  MAX_CANDIDATES,
  NORMALIZED_DECIMALS,            \* 6 in the code
  UINT64_RANGE                    \* 2^64 in the code

ASSUME FlipConstants ==
  /\ FLIP_PROBABILITY_SCALE_PPM \in Nat \ {0} /\ MAX_BANDS \in Nat \ {0}
  /\ MAX_CANDIDATES \in Nat \ {0} /\ NORMALIZED_DECIMALS \in Nat
  /\ UINT64_RANGE \in Nat /\ UINT64_RANGE >= FLIP_PROBABILITY_SCALE_PPM

(***************************************************************************)
(* Bands and rules.                                                        *)
(***************************************************************************)
PpmUpTo(bands, i) == MapThenSumSet(LAMBDA j : bands[j].ppm, 1..i)

\* The loop over the bands of validateFlipRuleSet.
ValidBands(bands) ==
  /\ Len(bands) \in 1..MAX_BANDS
  /\ bands[1].min = 0
  /\ \A i \in DOMAIN bands : /\ bands[i].ppm \in 1..FLIP_PROBABILITY_SCALE_PPM
                             /\ i > 1 => bands[i - 1].min < bands[i].min
  /\ PpmUpTo(bands, Len(bands)) = FLIP_PROBABILITY_SCALE_PPM

\* The rest of it: rules are [version, bands, stake, fee, edge, reviewedAt].
ValidRuleSet(rules) ==
  /\ rules.version > 0
  /\ rules.edge \in 0..FLIP_PROBABILITY_SCALE_PPM
  /\ rules.stake > 0 /\ rules.fee \in 0..rules.stake
  /\ ValidBands(rules.bands)

\* flipOutcomeBandForValue: the loop stops at the first band above the value.
FlipOutcomeBandForValue(bands, value) ==
  LET above == {i \in DOMAIN bands : value < bands[i].min}
  IN  IF above = {} THEN Len(bands) ELSE IF Min(above) = 1 THEN 1 ELSE Min(above) - 1

\* Mutant: the upper bound of a band belongs to it.
BandForRollInclusive(bands, roll) == Min({i \in DOMAIN bands : roll <= PpmUpTo(bands, i)})

\* flipBandForRoll
FlipBandForRoll(bands, roll) == Min({i \in DOMAIN bands : roll < PpmUpTo(bands, i)})

(***************************************************************************)
(* unbiasedIndex: digests at or above the largest multiple of the modulus  *)
(* are drawn again.                                                        *)
(***************************************************************************)
Accepted(modulus) == 0..(UINT64_RANGE - (UINT64_RANGE % modulus) - 1)
UnbiasedIndex(value, modulus) == value % modulus

(***************************************************************************)
(* prepareFlipInventorySnapshot.  A candidate is                           *)
(* [asset, amount, decimals, ages, allowed, liquidity]: its asset          *)
(* reference, its listing value (amount -1: none), the ages of its         *)
(* inventory and value timestamps, whether collection, grader and          *)
(* exclusion lists admit it, and its liquidity.                            *)
(***************************************************************************)
\* 10n ** BigInt(n)
TenTo[n \in Nat] == IF n = 0 THEN 1 ELSE 10 * TenTo[n - 1]

\* normalizeAmount, -1 where it throws: the amount is not a whole number of micro-USDC.
NormalizeAmount(amount, decimals) ==
  LET divisor == TenTo[decimals - NORMALIZED_DECIMALS]
  IN  IF decimals <= NORMALIZED_DECIMALS THEN amount * TenTo[NORMALIZED_DECIMALS - decimals]
      ELSE IF amount % divisor = 0 THEN amount \div divisor ELSE -1

\* canonicalOptionalMoney
ListingValue(c) == IF c.amount = -1 THEN -1 ELSE NormalizeAmount(c.amount, c.decimals)

\* canonicalPolicy: the bounds a policy is accepted with; its money is normalized.
ValidFlipPolicy(policy) ==
  /\ policy.minItems \in 1..MAX_CANDIDATES
  /\ policy.maxItems \in policy.minItems..MAX_CANDIDATES
  /\ policy.minValue <= policy.maxValue /\ policy.minValue <= policy.maxExposure
  /\ policy.maxSkew >= 0 /\ policy.maxAge >= 1 /\ policy.minLiquidity >= 0

\* canonicalCandidate and the search for duplicates; money that cannot be normalized
\* refuses the whole snapshot.
CandidatesAccepted(cands) ==
  /\ Len(cands) \in 1..MAX_CANDIDATES
  /\ \A n \in DOMAIN cands : /\ cands[n].liquidity >= 0
                             /\ cands[n].amount # -1 => ListingValue(cands[n]) # -1
                             /\ \A k \in DOMAIN cands : k # n => cands[k].asset # cands[n].asset

\* addFreshnessReason
FreshnessReasons(age, policy) ==
  (IF age > policy.maxAge THEN {"STALE"} ELSE {})
    \cup (IF age < -policy.maxSkew THEN {"FROM_FUTURE"} ELSE {})

OwnReasons(c, policy) ==
  (IF c.allowed THEN {} ELSE {"NOT_ALLOWED"})
    \cup FreshnessReasons(c.ages[1], policy)
    \cup (IF c.liquidity < policy.minLiquidity THEN {"LIQUIDITY_BELOW_MINIMUM"} ELSE {})
    \cup (IF c.amount = -1 THEN {"VALUE_UNAVAILABLE"}
          ELSE FreshnessReasons(c.ages[2], policy)
                 \cup (IF ListingValue(c) < policy.minValue THEN {"VALUE_BELOW_MINIMUM"} ELSE {})
                 \cup (IF ListingValue(c) > policy.maxValue THEN {"VALUE_ABOVE_MAXIMUM"} ELSE {}))

ValueOf(S, cands) == MapThenSumSet(LAMBDA i : ListingValue(cands[i]), S)

\* The entries admitted among the first n, in canonical order: a candidate that has
\* no reason of its own is admitted while the item count and the exposure allow it.
EligibleEntries(cands, policy) ==
  LET upTo[n \in 0..Len(cands)] ==
        IF n = 0 THEN {}
        ELSE LET before == upTo[n - 1] IN
             IF /\ OwnReasons(cands[n], policy) = {}
                /\ Cardinality(before) < policy.maxItems
                /\ ValueOf(before, cands) + ListingValue(cands[n]) <= policy.maxExposure
             THEN before \cup {n} ELSE before
  IN  upTo[Len(cands)]

\* The snapshot is refused when too few entries are eligible.
SnapshotAccepted(cands, policy) ==
  /\ ValidFlipPolicy(policy) /\ CandidatesAccepted(cands)
  /\ Cardinality(EligibleEntries(cands, policy)) >= policy.minItems

(***************************************************************************)
(* prepareFlipSessionPoolCommitment, and the admission of a stake to the   *)
(* committed pool.  A pool is the outcomes it commits to, with the rules   *)
(* and the snapshot [policy, value, stake, at] it names.                   *)
(***************************************************************************)
OutcomeSpace(bands, cands, policy) ==
  {[ordinal |-> n, value |-> ListingValue(cands[n]),
    band |-> FlipOutcomeBandForValue(bands, ListingValue(cands[n]))] : n \in EligibleEntries(cands, policy)}

BandsRepresented(bands, outcomes) == \A i \in DOMAIN bands : \E o \in outcomes : o.band = i

\* A session predates neither the review nor the snapshot, and every band has an outcome.
PoolCommitable(rules, cands, policy, stake, evaluatedAt, committedAt) ==
  /\ ValidRuleSet(rules) /\ SnapshotAccepted(cands, policy)
  /\ rules.stake = stake
  /\ committedAt >= rules.reviewedAt /\ committedAt >= evaluatedAt
  /\ BandsRepresented(rules.bands, OutcomeSpace(rules.bands, cands, policy))

CommittedPool(rules, cands, policy, evaluatedAt) ==
  [rules |-> rules, policy |-> policy, outcomes |-> OutcomeSpace(rules.bands, cands, policy),
   value |-> ValueOf(EligibleEntries(cands, policy), cands), at |-> evaluatedAt]

\* validateConfiguration with its own validBands: no bound on the number of bands.
PoolConfigured(pool, stake) ==
  /\ stake = pool.rules.stake /\ stake > 0
  /\ pool.policy.minItems \in 1..MAX_CANDIDATES
  /\ pool.policy.maxItems \in pool.policy.minItems..MAX_CANDIDATES
  /\ pool.policy.maxAge >= 1 /\ pool.policy.maxSkew >= 0
  /\ Cardinality(pool.outcomes) \in 1..MAX_CANDIDATES
  /\ \A i \in DOMAIN pool.rules.bands :
       /\ pool.rules.bands[i].ppm >= 1
       /\ i > 1 => pool.rules.bands[i - 1].min < pool.rules.bands[i].min
  /\ pool.rules.bands # <<>> /\ pool.rules.bands[1].min = 0
  /\ PpmUpTo(pool.rules.bands, Len(pool.rules.bands)) = FLIP_PROBABILITY_SCALE_PPM

\* poolQualityMeetsReviewedThresholds
PoolMeetsThresholds(pool) ==
  /\ Cardinality(pool.outcomes) \in pool.policy.minItems..pool.policy.maxItems
  /\ pool.value <= pool.policy.maxExposure
  /\ BandsRepresented(pool.rules.bands, pool.outcomes)

\* evaluateFlipTierAdmission up to the provider's health.
PoolRefusal(pool, stake, now) ==
  CASE ~PoolConfigured(pool, stake) -> "configuration_invalid"
    [] FreshnessReasons(now - pool.at, pool.policy) # {} -> "inventory_stale"
    [] ~PoolMeetsThresholds(pool) -> "inventory_degraded"
    [] OTHER -> "none"

(***************************************************************************)
(* selectFlipOutcomeReproducibly                                           *)
(***************************************************************************)
\* parseOutcomeSpace and the bands derived again from the values.
OutcomeSpaceSound(pool) ==
  /\ pool.outcomes # {}
  /\ \A o \in pool.outcomes : o.band = FlipOutcomeBandForValue(pool.rules.bands, o.value)
  /\ \A o, q \in pool.outcomes : o.ordinal = q.ordinal => o = q
  /\ BandsRepresented(pool.rules.bands, pool.outcomes)

BandOutcomes(pool, i) == {o.ordinal : o \in {q \in pool.outcomes : q.band = i}}

\* Ordinals are strictly ordered: the k-th outcome of a band, counted from 0.
NthOutcome(S, k) == CHOOSE n \in S : Cardinality({m \in S : m < n}) = k

\* The audit proof of two digests of a seed: one for the band, one for the outcome in it.
SelectFlipOutcome(pool, bandDigest, outcomeDigest) ==
  LET roll == UnbiasedIndex(bandDigest, FLIP_PROBABILITY_SCALE_PPM)
      band == FlipBandForRoll(pool.rules.bands, roll)
      outcomes == BandOutcomes(pool, band)
      index == UnbiasedIndex(outcomeDigest, Cardinality(outcomes))
  IN  [roll |-> roll, band |-> band, count |-> Cardinality(outcomes), index |-> index,
       ordinal |-> NthOutcome(outcomes, index)]

(***************************************************************************)
(* Properties of the operators, for the inputs a run enumerates.           *)
(***************************************************************************)
\* The draw pays the reviewed odds: of the digests unbiasedIndex accepts, the share that
\* ends in an outcome of a band is exactly the band's ppm, and within the band every
\* outcome is drawn equally often.
DrawIsFair(pool) ==
  LET rolls == Accepted(FLIP_PROBABILITY_SCALE_PPM)
      Band(r) == FlipBandForRoll(pool.rules.bands, UnbiasedIndex(r, FLIP_PROBABILITY_SCALE_PPM))
  IN  \A i \in DOMAIN pool.rules.bands :
        LET outcomes == BandOutcomes(pool, i)
            picks == Accepted(Cardinality(outcomes))
            mine == {r \in rolls : Band(r) = i}
            Picks(n) == {p \in picks : \A r \in mine : SelectFlipOutcome(pool, r, p).ordinal = n}
        IN  /\ FLIP_PROBABILITY_SCALE_PPM * Cardinality(mine)
                 = pool.rules.bands[i].ppm * Cardinality(rolls)
            /\ \A n \in outcomes : Cardinality(outcomes) * Cardinality(Picks(n)) = Cardinality(picks)

\* What the snapshot admits stays within the reviewed limits, and a candidate without a
\* reason of its own is left out only because one more would exceed them.
SnapshotIsMaximal(cands, policy) ==
  LET admitted == EligibleEntries(cands, policy) IN
  /\ Cardinality(admitted) <= policy.maxItems
  /\ ValueOf(admitted, cands) <= policy.maxExposure
  /\ \A n \in DOMAIN cands \ admitted :
       OwnReasons(cands[n], policy) = {} =>
         \/ Cardinality(admitted) = policy.maxItems
         \/ ValueOf({m \in admitted : m < n}, cands) + ListingValue(cands[n]) > policy.maxExposure

\* Three services check a pool on their own.  What one of them commits, the others take:
\* a committed pool is admitted as long as its snapshot is fresh, and then the draw from
\* it is defined and pays the reviewed odds.
CommittedPoolIsPlayable(rules, cands, policy, stake, at, now) ==
  LET pool == CommittedPool(rules, cands, policy, at) IN
  /\ SnapshotAccepted(cands, policy) => SnapshotIsMaximal(cands, policy)
  /\ PoolCommitable(rules, cands, policy, stake, at, now) =>
       /\ PoolRefusal(pool, stake, now) \in {"none", "inventory_stale"}
       /\ now = at => PoolRefusal(pool, stake, now) = "none"
       /\ OutcomeSpaceSound(pool) /\ DrawIsFair(pool)

\* Amounts given with different decimals compare as the values they stand for: what
\* cannot be normalized exactly is refused, never rounded.
AmountsCompareExactly(a, d, b, e) ==
  LET x == NormalizeAmount(a, d)
      y == NormalizeAmount(b, e)
  IN  x # -1 /\ y # -1 => (x <= y <=> a * TenTo[e] <= b * TenTo[d])
=============================================================================
