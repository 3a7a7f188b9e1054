------------------------------ MODULE DuelState ------------------------------
(***************************************************************************)
(* The duel status graph of apps/api/src/duels/duel-state.ts and the two   *)
(* routing tables the transaction monitor lays over it.  Pure operators,   *)
(* shared by every module that moves a duel row.                           *)
(***************************************************************************)

\* domain.ts DuelStatus, in the database spelling.
DuelStatuses == {"WAITING", "MATCHED", "COMMITTING", "FUNDED", "OPENING",
                 "AWAITING_ASSETS", "SETTLING", "SETTLED", "REFUNDING",
                 "REFUNDED", "CANCELLING", "CANCELLED", "FAILED"}

\* ALLOWED_TRANSITIONS
AllowedTransitions ==
  [s \in DuelStatuses |->
     CASE s = "WAITING"         -> {"MATCHED", "CANCELLED", "FAILED"}
       [] s = "MATCHED"         -> {"COMMITTING", "CANCELLED", "FAILED"}
       [] s = "COMMITTING"      -> {"FUNDED", "CANCELLED", "REFUNDING", "FAILED"}
       [] s = "FUNDED"          -> {"OPENING", "REFUNDING", "FAILED"}
       [] s = "OPENING"         -> {"AWAITING_ASSETS", "REFUNDING", "FAILED"}
       [] s = "AWAITING_ASSETS" -> {"SETTLING", "REFUNDING", "FAILED"}
       [] s = "SETTLING"        -> {"SETTLED", "REFUNDING", "FAILED"}
       [] s = "REFUNDING"       -> {"REFUNDED", "SETTLING", "FAILED"}
       [] s = "CANCELLING"      -> {"CANCELLED", "REFUNDING", "FAILED"}
       [] s = "FAILED"          -> {"REFUNDING"}
       [] OTHER                 -> {}]          \* settled, refunded, cancelled

CanTransition(from, to) == to \in AllowedTransitions[from]

\* recoveryStatusAfterTransactionFailure: the recovery target, or the status
\* itself where the code returns null.
RecoveryStatusAfterTransactionFailure(s) ==
  IF s \in {"AWAITING_ASSETS", "COMMITTING", "FUNDED", "OPENING", "SETTLING"}
  THEN "REFUNDING"
  ELSE IF CanTransition(s, "FAILED") THEN "FAILED" ELSE s

\* Mutant: the alert respects the graph, and leaves a cancelled duel alone.
AlertOnGraph(s) == IF CanTransition(s, "REFUNDING") THEN "REFUNDING" ELSE s

\* recoveryAlertTarget: it moves statuses the graph calls terminal.
RecoveryAlertTarget(s) ==
  IF s \in {"MATCHED", "COMMITTING", "FUNDED", "OPENING", "AWAITING_ASSETS",
            "SETTLING", "CANCELLING", "CANCELLED", "FAILED"}
  THEN "REFUNDING" ELSE s
=============================================================================
