CONSTANTS
  Creator = creator
  Opponent = opponent
  TxIds = {t1, t2}
  Procs = {p1, p2}
  IndexKeepsHistory = TRUE
  NoTx = NoTx
  NoWallet = NoWallet
SPECIFICATION Spec
SYMMETRY Symmetry
INVARIANTS
  TypeOK
  FundedIsBacked
  AbsenceIsCertain
  TimeoutSparesFinalizedFunding
  OpponentPaysSecond
  RefundKnowsEscrow
PROPERTY PromiseKept
CHECK_DEADLOCK FALSE
