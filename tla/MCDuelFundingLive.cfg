CONSTANTS
  Creator = creator
  Opponent = opponent
  TxIds = {t1, t2}
  Procs = {p1}
  IndexKeepsHistory = TRUE
  NoTx = NoTx
  NoWallet = NoWallet
SPECIFICATION FairSpec
PROPERTIES
  UnboundDepositIsFound
  IntentsAreSettled
CHECK_DEADLOCK FALSE
