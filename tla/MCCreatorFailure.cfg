CONSTANTS
  Creator = creator
  Opponent = opponent
  TxIds = {t1, t2}
  Procs = {p1}
  IndexKeepsHistory = TRUE
  NoTx = NoTx
  NoWallet = NoWallet
SPECIFICATION Spec
INVARIANT CreatorFailureDepositsNothing
CHECK_DEADLOCK FALSE
