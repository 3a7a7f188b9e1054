----------------------------- MODULE DuelPromise -----------------------------
(***************************************************************************)
(* What a participant may rely on, whatever happens between the API, the   *)
(* workers and the cluster: the duel's public status follows the graph of  *)
(* duel-state.ts, it says FUNDED only over both deposits, and a status off *)
(* the graph means one thing only, that a deposit already made is being    *)
(* returned.                                                               *)
(***************************************************************************)
EXTENDS DuelState

CONSTANT Wallets

VARIABLES status, deposits     \* deposits: wallets whose deposit is final

Init == status \in {"WAITING", "MATCHED"} /\ deposits = {}

Deposit(w) ==
  /\ deposits' = deposits \cup {w}
  /\ UNCHANGED status

Advance ==
  /\ CanTransition(status, status')
  /\ status' = "FUNDED" => deposits = Wallets
  /\ UNCHANGED deposits

\* Recovery overrides the graph for the sake of a deposit.
Reopen ==
  /\ deposits # {}
  /\ status' = RecoveryAlertTarget(status)
  /\ UNCHANGED deposits

Next == Advance \/ Reopen \/ \E w \in Wallets : Deposit(w)

Spec == Init /\ [][Next]_<<status, deposits>>
=============================================================================
