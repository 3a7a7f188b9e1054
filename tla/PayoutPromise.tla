---------------------------- MODULE PayoutPromise ----------------------------
(***************************************************************************)
(* What the owners of a duel's assets may rely on from its result on: an   *)
(* asset leaves the escrow once, and either some go back to their owners   *)
(* or the winner gets every one of them, never both.  The public status    *)
(* follows the graph of duel-state.ts behind the payout, and says SETTLED  *)
(* or REFUNDED only when all of it has been made.                          *)
(***************************************************************************)
EXTENDS DuelState

CONSTANT Assets

VARIABLES
  status,
  at       \* at[a]: "nowhere" (never deposited), "escrow", "owner" or "winner"

Init ==
  /\ status \in {"AWAITING_ASSETS", "REFUNDING"}
  /\ \/ at \in [Assets -> {"nowhere", "escrow"}]
     \/ \A a \in Assets : at[a] = "winner"

Refund(a) ==
  /\ at[a] = "escrow" /\ \A b \in Assets : at[b] # "winner"
  /\ at' = [b \in Assets |-> IF b = a THEN "owner" ELSE at[b]]
  /\ UNCHANGED status

Award ==
  /\ \A a \in Assets : at[a] = "escrow"
  /\ at' = [a \in Assets |-> "winner"]
  /\ UNCHANGED status

\* The recovery of an awarded duel goes from its refund to the end at once, which is
\* not an edge of the graph.
Advance ==
  /\ \/ CanTransition(status, status')
     \/ status' = RecoveryAlertTarget(status)
     \/ status = "REFUNDING" /\ status' = "SETTLED"
  /\ status' = "SETTLED" => \A a \in Assets : at[a] = "winner"
  /\ status' = "REFUNDED" => \A a \in Assets : at[a] \in {"nowhere", "owner"}
  /\ UNCHANGED at

Next == Advance \/ Award \/ \E a \in Assets : Refund(a)

Spec == Init /\ [][Next]_<<status, at>>
=============================================================================
