---------------------------- MODULE MCDuelFunding ----------------------------
(***************************************************************************)
(* Instances of DuelFunding for TLC.                                       *)
(***************************************************************************)
EXTENDS DuelFunding, TLC

\* Intents and processes are interchangeable.
Symmetry == Permutations(TxIds) \cup Permutations(Procs)
=============================================================================
