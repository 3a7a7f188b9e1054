--------------------------- MODULE MCDuelSettlement ---------------------------
(***************************************************************************)
(* Settlement, refund and the public receipt for TLC.                      *)
(***************************************************************************)
EXTENDS DuelReceipt, TLC

Symmetry == Permutations(Procs)
OneCard == << "card" >>
None == << >>
TwoPayments == << "creator", "opponent" >>
=============================================================================
