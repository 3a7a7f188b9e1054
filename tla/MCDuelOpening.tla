---------------------------- MODULE MCDuelOpening ----------------------------
(***************************************************************************)
(* An instance of DuelOpening for TLC.                                     *)
(***************************************************************************)
EXTENDS DuelOpening, TLC

\* The mock provider gives the two sides values of different parity.
MCMockValue == [s \in Sides |-> IF s = "creator" THEN 0 ELSE 1]

\* Requests are interchangeable, and so are their processes.
Symmetry == Permutations(Requests)
=============================================================================
