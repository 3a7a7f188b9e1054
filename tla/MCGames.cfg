CONSTANTS
  Sessions = {s1}
  FlipCalls = {c1, c2}
  Entropies = {3, 4}
  Ordinals = {1, 2}
  FlipStakes = {1, 2}
  MaxHealthAge = 0
  MaxFlipTime = 1
  Workers = {v1, v2}
  Nobody = Nobody
  MaxPlanVersion = 5
  Rounds = {r1, r2}
  CrashCalls = {x1, x2}
  CrashKeys = {k1, k2}
  CrashStages <- MCStages
  StageValue = 1
  BPS_SCALE = 2
  MAX_POT_CONTRIBUTION_BPS = 200
  MAX_RULE_STAGES = 2
  PPM_SCALE = 2
  CrashRisk <- MCRisk
  DecisionTimeout = 1
  InitialPot = 1
  HouseRooms = {0, 6}
  MaxCrashTime = 2
  Settlers = {e1, e2}
  NoSettler = NoSettler
  Liquidates = TRUE
  MaxSettleVersion = 6
  Payers = {1, 2}
  Intents = {1, 2}
  Signatures = {1, 2}
  GachaCalls = {g1, g2}
  Rips = {1, 2}
  Seeds = {z1, z2}
  Snapshots = {1, 2}
  Cards = {a1, a2}
  RipKeys = {0, 1}
  FLIP_PROBABILITY_SCALE_PPM = 4
  MAX_BANDS = 2
  MAX_CANDIDATES = 3
  NORMALIZED_DECIMALS = 1
  UINT64_RANGE = 10
  GACHA_PROBABILITY_SCALE_PPM = 4
  GACHA_BANDS = 2
  UINT32_RANGE = 6
  BASIS_POINTS_TOTAL = 4
  MAX_PLACES_PER_POSITION = 2
  MAX_COMPONENTS_PER_POSITION = 2
  PUBLIC_ACTIVITY_SCAN_LIMIT = 2
  MAX_RATE_LIMIT_CLIENTS = 2
  RATE_WINDOW = 2
  REPORT_EVENT_LIMIT = 4
  ABANDONMENT_AFTER = 2
  CLIENT_EVENT_LIMIT = 2
  CLIENT_EVENT_WINDOW = 2
SPECIFICATION Spec
SYMMETRY Symmetry
INVARIANTS
  FlipSessionsStayReadable
  SelectionIsProven
  FlipAssetIsAccounted
  CrashExposureFollowsRounds
  CrashSettlementIsBacked
  GachaPaymentIsAccounted
  GachaCardIsAccounted
  CalculationsAreExact
  OffersHold
  ViewsAgree
  CrashReceiptIsBacked
CHECK_DEADLOCK FALSE
