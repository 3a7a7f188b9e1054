CONSTANTS
  Duels = {d1, d2}
  Wallets = {w1, w2}
  DailyLossLimit = 1
  MaxTotalExposure = 2
  MaxActivePerWallet = 1
  MaxConcurrentPerTier = 2
  MinimumLiquidity = 1
  SnapshotMaxAge = 1
  InitialBalance = 4
  DayLength = 2
  MaxTime = 2
  MaxSlot = 2
  MaxListings = 2
  CommitmentWindow = 1
  SearchLifetime = 2
  FailureWindow = 2
  MaxFailures = 2
  BlockTime = 2
  MaxActiveDuels = 2
  MaxCalls = 4
  MaxVersion = 8
  Accounts = {wa, wb}
  NoAccount = NoAccount
  Challenges = {1, 2, 3}
  WalletSessions = {1, 2}
  AuthOps = {o1, o2}
  CHALLENGE_TTL = 1
  SESSION_TTL = 1
  CHALLENGE_WINDOW = 2
  CHALLENGE_LIMIT = 2
  MaxAuthTime = 3
  EntryIntents = {1, 2, 3}
  MaxReloads = 2
  Tabs = {t1, t2}
  Orders = {1, 2}
  SignedBytes = {1, 2}
  MaxTabFaults = 2
SPECIFICATION Spec
SYMMETRY Symmetry
INVARIANTS TicketsAgreeWithDuels ExposureWithinDailyLimit ReservationFollowsDuel
  WalletSessionIsCurrent ChallengesAreLimited PromptIsSafe GachaClientIsSafe
PROPERTIES OnlyTheLateAreCharged DisposedIsFinal
CHECK_DEADLOCK FALSE
