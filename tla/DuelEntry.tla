------------------------------- MODULE DuelEntry -------------------------------
(***************************************************************************)
(* The browser's side of paying for a duel: the creator of a direct or     *)
(* house duel in one tab, from the first review to the recorded payment    *)
(* (duel-arena.tsx, duel/duel-entry-recovery.ts, solana/duel-client.ts,    *)
(* wallet-transaction.ts).  Any request or its reply may be lost and the   *)
(* page may be reloaded at any point: what is left is the draft in         *)
(* localStorage, which an effect keeps equal to the state of the page.     *)
(*                                                                         *)
(* The API is what DuelFunding shows of it: one prepared intent of the     *)
(* wallet at a time, dropped only when its message can no longer land or   *)
(* the wallet declined to sign it.                                         *)
(***************************************************************************)
EXTENDS Integers, FiniteSets, FiniteSetsExt

CONSTANTS
  EntryIntents,    \* funding intents, in the order they are prepared (1..n)
  MaxReloads       \* bound on reloads of the page

ASSUME DuelEntryConstants == EntryIntents \subseteq Nat \ {0} /\ MaxReloads \in Nat

VARIABLES
  page,      \* the component's state
  draft,     \* the stored DuelEntryDraft
  entryOp,   \* entryOp["main"]: a button's handler; entryOp["restore"]: the draft effect;
             \* entryOp["late"]: a restore of the effect whose result is ignored
  fund,      \* fund[i]: the API's row of intent i
  message,   \* message[i]: its transaction
  entryDuel, \* the duel's status, as the API shows it to the creator
  resigned,  \* intents signed after their rejection was recorded (history)
  reloads

entryVars == <<page, draft, entryOp, fund, message, entryDuel, resigned, reloads>>

EntryIdle == [pc |-> "idle", as |-> "none", intent |-> 0, sent |-> FALSE, rejected |-> 0]
EntryOps == {"main", "restore", "late"}
FreshPage == [intent |-> 0, rejected |-> 0, phase |-> "idle", pending |-> FALSE, restoring |-> FALSE,
              restoreDraft |-> FALSE, seen |-> "none"]
NoDraft == [saved |-> FALSE, sent |-> FALSE, rejected |-> 0]

EntryInit ==
  /\ page = FreshPage /\ draft = NoDraft
  /\ entryOp = [o \in EntryOps |-> EntryIdle]
  /\ fund = [i \in EntryIntents |-> "NONE"] /\ message = [i \in EntryIntents |-> "unsigned"]
  /\ entryDuel = "none" /\ resigned = {} /\ reloads = 0

(***************************************************************************)
(* The API and the cluster.                                                *)
(***************************************************************************)
\* prepare: the prepared intent again, or a new one.  The empty set is a refusal.
Preparable ==
  LET prepared == {i \in EntryIntents : fund[i] = "PREPARED"}
      unused == {i \in EntryIntents : fund[i] = "NONE"}
  IN  IF entryDuel # "matched" \/ \E i \in EntryIntents : fund[i] \in {"SUBMITTED", "FINALIZED"} THEN {}
      ELSE IF prepared # {} THEN {i \in prepared : message[i] # "dead"}
      ELSE IF unused = {} THEN {} ELSE {Min(unused)}

EntryPrepared(i) == fund' = [fund EXCEPT ![i] = "PREPARED"]

\* What one pass of the monitor may do: a landed message is bound or finalized, a dead
\* one is dropped.
Monitored ==
  {f \in [EntryIntents -> {"NONE", "PREPARED", "SUBMITTED", "FINALIZED", "EXPIRED"}] :
     \A i \in EntryIntents :
       \/ f[i] = fund[i]
       \/ fund[i] = "PREPARED" /\ message[i] = "landed" /\ f[i] \in {"SUBMITTED", "FINALIZED"}
       \/ fund[i] = "SUBMITTED" /\ message[i] = "landed" /\ f[i] = "FINALIZED"
       \/ fund[i] \in {"PREPARED", "SUBMITTED"} /\ message[i] = "dead" /\ f[i] = "EXPIRED"}
StatusAfter(f) ==
  IF entryDuel \notin {"matched", "committing"} THEN entryDuel
  ELSE IF \E i \in EntryIntents : f[i] = "FINALIZED" THEN "funded"
  ELSE IF \E i \in EntryIntents : fund[i] = "SUBMITTED" /\ f[i] = "EXPIRED" THEN "cancelled"
  ELSE IF \E i \in EntryIntents : f[i] = "SUBMITTED" THEN "committing" ELSE entryDuel
Monitor == fund' \in Monitored /\ entryDuel' = StatusAfter(fund')

MonitorStep ==
  /\ Monitor
  /\ UNCHANGED <<page, draft, entryOp, message, resigned, reloads>>

\* The escrow takes one deposit of the creator.
MessageLands(i) ==
  /\ message[i] = "signed" /\ \A j \in EntryIntents : message[j] # "landed"
  /\ message' = [message EXCEPT ![i] = "landed"]
  /\ UNCHANGED <<page, draft, entryOp, fund, entryDuel, resigned, reloads>>

\* The blockhash of a message that did not land is forgotten.
MessageDies(i) ==
  /\ message[i] \in {"unsigned", "signed"} /\ fund[i] # "NONE"
  /\ message' = [message EXCEPT ![i] = "dead"]
  /\ UNCHANGED <<page, draft, entryOp, fund, entryDuel, resigned, reloads>>

(***************************************************************************)
(* The page.  Every change of it rewrites the draft.                       *)
(***************************************************************************)
\* completedEntryStatuses: the saved entry and the rejected intent are cleared.
CompletedEntry(status) == status = "funded"
Completes(p) ==
  IF CompletedEntry(p.seen) THEN [p EXCEPT !.rejected = 0, !.restoreDraft = FALSE] ELSE p

DraftOf(p) ==
  IF CompletedEntry(p.seen) THEN NoDraft
  ELSE [saved |-> TRUE, sent |-> p.phase \in {"signing", "confirming", "recovering"}, rejected |-> p.rejected]

\* The draft effect runs again when the phase, the rejected intent or the saved entry
\* changes.  Its cleanup enables the buttons; the restore in flight goes on, and its result
\* is ignored.  One such restore is kept: the requests of an earlier one are lost.
EffectReruns(p) ==
  p.phase # page.phase \/ p.rejected # page.rejected \/ p.restoreDraft # page.restoreDraft
Overtaken(ops) ==
  IF ops["restore"].pc = "idle" THEN ops
  ELSE [ops EXCEPT !["late"] = ops["restore"], !["restore"] = EntryIdle]

PageBecomes(p, ops) ==
  LET q == Completes(p)
  IN  IF EffectReruns(q)
      THEN /\ page' = [q EXCEPT !.restoring = FALSE] /\ draft' = DraftOf(q) /\ entryOp' = Overtaken(ops)
      ELSE /\ page' = q /\ draft' = DraftOf(q) /\ entryOp' = ops
Becomes(p, o, next) == PageBecomes(p, [entryOp EXCEPT ![o] = next])

\* A button is enabled: pending = intentPending || restorePending.
ButtonsEnabled == ~page.pending /\ ~page.restoring
\* getDuelEntryStage
FundingReview == page.phase = "idle" /\ page.intent # 0
RecoveryStage ==
  \/ page.phase = "recovering"
  \/ page.phase = "idle" /\ page.intent = 0 /\ page.seen \in {"matched", "cancelled"}

MainStarts(p, next) ==
  /\ entryOp["main"].pc = "idle"
  /\ Becomes([p EXCEPT !.pending = TRUE], "main", next)
  /\ UNCHANGED <<fund, message, entryDuel, resigned, reloads>>

MainEnds(p) == Becomes([p EXCEPT !.pending = FALSE], "main", EntryIdle)

\* reviewDuel: the duel is created and its first intent prepared.
ReviewDuel ==
  /\ ButtonsEnabled /\ page.phase = "idle" /\ page.intent = 0 /\ page.seen = "none" /\ entryDuel = "none"
  /\ MainStarts(page, [EntryIdle EXCEPT !.pc = "create"])

CreateDuel ==
  /\ entryOp["main"].pc = "create"
  /\ \/ /\ entryDuel' = "matched" /\ UNCHANGED fund
        /\ Becomes([page EXCEPT !.seen = "matched"], "main", [EntryIdle EXCEPT !.pc = "prepare"])
     \/ MainEnds(page) /\ UNCHANGED <<fund, entryDuel>>
  /\ UNCHANGED <<message, resigned, reloads>>

\* prepareDuelIntent at the end of reviewDuel and of reconcileBroadcastFunding.
PrepareDuelIntent ==
  LET again == entryOp["main"].as = "again" IN
  /\ entryOp["main"].pc = "prepare"
  /\ \/ \E i \in Preparable :
          /\ EntryPrepared(i)
          /\ MainEnds([page EXCEPT !.intent = i, !.rejected = 0, !.phase = "idle"])
     \/ /\ MainEnds(IF again THEN [page EXCEPT !.phase = "recovering"] ELSE page)
        /\ UNCHANGED fund \/ \E i \in Preparable : EntryPrepared(i)
  /\ UNCHANGED <<message, entryDuel, resigned, reloads>>

(***************************************************************************)
(* approveIntent.                                                          *)
(***************************************************************************)
ApproveIntent ==
  /\ ButtonsEnabled /\ FundingReview
  /\ MainStarts([page EXCEPT !.phase = "signing", !.rejected = 0],
                [EntryIdle EXCEPT !.pc = "sign", !.intent = page.intent])

EntrySigned(i) ==
  /\ message' = [message EXCEPT ![i] = IF @ = "unsigned" THEN "signed" ELSE @]
  /\ resigned' = IF fund[i] = "EXPIRED" THEN resigned \cup {i} ELSE resigned

\* Mutant: an error of the wallet always means that nothing was broadcast.
AnyWalletError(explicit) == TRUE

\* sendWalletTransaction throws WalletTransactionNotBroadcastError when the wallet
\* explicitly refuses, or fails before it returned signed bytes.
NotBroadcast(explicit) == explicit

WalletAnswers ==
  LET i == entryOp["main"].intent IN
  /\ entryOp["main"].pc = "sign"
  /\ \/ EntrySigned(i) /\ Becomes([page EXCEPT !.phase = "confirming"], "main", [entryOp["main"] EXCEPT !.pc = "submit"])
     \/ \E explicit \in BOOLEAN :
          /\ explicit => UNCHANGED <<message, resigned>>
          /\ ~explicit => UNCHANGED <<message, resigned>> \/ EntrySigned(i)
          /\ IF NotBroadcast(explicit)
             THEN Becomes([page EXCEPT !.phase = "idle", !.rejected = i], "main",
                          [EntryIdle EXCEPT !.pc = "load", !.as = "reset", !.rejected = i])
             ELSE MainEnds([page EXCEPT !.phase = "recovering"])
  /\ UNCHANGED <<fund, entryDuel, reloads>>

\* submitSignedDuelIntent: bindSubmission, when the request arrives.
SubmitSignedIntent ==
  LET i == entryOp["main"].intent
      bound == fund[i] = "PREPARED" /\ message[i] # "unsigned" /\ entryDuel \in {"matched", "committing"}
      Bind == fund' = [fund EXCEPT ![i] = "SUBMITTED"] /\ entryDuel' = "committing"
  IN
  /\ entryOp["main"].pc = "submit"
  /\ \/ /\ \/ bound /\ Bind
           \/ fund[i] \in {"SUBMITTED", "FINALIZED"} /\ UNCHANGED <<fund, entryDuel>>
        /\ Becomes(page, "main", [entryOp["main"] EXCEPT !.pc = "confirm"])
     \/ /\ MainEnds([page EXCEPT !.phase = "recovering"])
        /\ UNCHANGED <<fund, entryDuel>> \/ (bound /\ Bind)
  /\ UNCHANGED <<message, resigned, reloads>>

\* trackConfirmation: confirmed once it landed; otherwise failed or, after its budget,
\* expired, which is no proof.
TrackConfirmation ==
  /\ entryOp["main"].pc = "confirm"
  /\ \/ /\ message[entryOp["main"].intent] = "landed"
        /\ Becomes(page, "main", [entryOp["main"] EXCEPT !.pc = "settle"])
     \/ MainEnds([page EXCEPT !.phase = "recovering"])
  /\ UNCHANGED <<fund, message, entryDuel, resigned, reloads>>

\* classifyPostBroadcastRecovery; `complete' and `waiting' are handled alike.
ClassifyPostBroadcastRecovery(active, unbound, status) ==
  IF active > 0 \/ unbound > 0 THEN "still-confirming"
  ELSE IF status = "matched" THEN "retry-safe" ELSE "waiting"

ActiveCount(f) == Cardinality({i \in EntryIntents : f[i] = "SUBMITTED"})
UnboundCount(f) == Cardinality({i \in EntryIntents : f[i] = "PREPARED"})

\* reconcileBroadcastFunding: waitForDuelTransactions, getDuel, and the decision.
ReconcileBroadcastFunding ==
  /\ entryOp["main"].pc = "settle"
  /\ Monitor
  /\ \/ LET seen == [page EXCEPT !.seen = entryDuel']
            outcome == ClassifyPostBroadcastRecovery(ActiveCount(fund'), UnboundCount(fund'), entryDuel')
        IN  CASE outcome = "still-confirming" -> MainEnds([seen EXCEPT !.phase = "recovering"])
              [] outcome = "retry-safe" ->
                   Becomes(seen, "main", [entryOp["main"] EXCEPT !.pc = "prepare", !.as = "again"])
              [] OTHER -> MainEnds([seen EXCEPT !.intent = 0, !.rejected = 0, !.phase = "idle"])
     \/ MainEnds([page EXCEPT !.phase = "recovering"])
  /\ UNCHANGED <<message, resigned, reloads>>

(***************************************************************************)
(* restoreDuelEntry, run by the draft effect, by reviewPersistedFunding    *)
(* and by recoverRejectedFundingIntent.                                    *)
(***************************************************************************)
RestoreFails(o) ==
  CASE o = "main" -> MainEnds(page)
    [] o = "restore" -> Becomes([page EXCEPT !.restoring = FALSE], o, EntryIdle)
    [] o = "late" -> Becomes(page, o, EntryIdle)

\* What the caller does with the restored intent i (0: none).
EntryRestored(o, i, still) ==
  LET as == entryOp[o].as
      p == [page EXCEPT !.seen = entryDuel, !.intent = i]
  IN  CASE o = "main" ->
             MainEnds(IF still THEN p
                      ELSE IF as = "reset" THEN [p EXCEPT !.rejected = 0, !.phase = "idle"]
                      ELSE [p EXCEPT !.rejected = IF i # 0 THEN 0 ELSE @])
        [] o = "restore" ->
             Becomes([p EXCEPT !.restoring = FALSE, !.restoreDraft = FALSE,
                               !.rejected = IF i # 0 /\ ~still THEN 0 ELSE @], o, EntryIdle)
        [] o = "late" -> Becomes(page, o, EntryIdle)

GotoRestore(o, pc) == Becomes(page, o, [entryOp[o] EXCEPT !.pc = pc])

LoadDuel(o) ==
  /\ entryOp[o].pc = "load"
  /\ \/ RestoreFails(o)
     \/ /\ entryDuel # "none"
        /\ IF entryOp[o].sent \/ entryDuel # "matched" THEN EntryRestored(o, 0, FALSE)
           ELSE GotoRestore(o, IF entryOp[o].rejected # 0 THEN "abandon" ELSE "reconcile")
  /\ UNCHANGED <<fund, message, entryDuel, resigned, reloads>>

\* recordRejectedDuelIntent: a prepared intent is dropped; a rejection that was recorded
\* before is acknowledged, a submitted intent is a conflict.
AbandonRejectedIntent(o) ==
  LET i == entryOp[o].rejected
      drop == fund' = [fund EXCEPT ![i] = IF @ = "PREPARED" THEN "EXPIRED" ELSE @]
  IN
  /\ entryOp[o].pc = "abandon"
  /\ \/ fund[i] \in {"PREPARED", "EXPIRED"} /\ drop /\ GotoRestore(o, "reconcile")
     \/ RestoreFails(o) /\ (UNCHANGED fund \/ drop)
  /\ UNCHANGED <<message, entryDuel, resigned, reloads>>

ReconcileTransactions(o) ==
  /\ entryOp[o].pc = "reconcile"
  /\ Monitor
  /\ \/ RestoreFails(o)
     \/ IF ActiveCount(fund') + UnboundCount(fund') > 0 THEN EntryRestored(o, 0, TRUE) ELSE GotoRestore(o, "reload")
  /\ UNCHANGED <<message, resigned, reloads>>

ReloadDuel(o) ==
  /\ entryOp[o].pc = "reload"
  /\ \/ RestoreFails(o)
     \/ IF entryDuel = "matched" THEN GotoRestore(o, "prepareRestored") ELSE EntryRestored(o, 0, FALSE)
  /\ UNCHANGED <<fund, message, entryDuel, resigned, reloads>>

PrepareRestored(o) ==
  /\ entryOp[o].pc = "prepareRestored"
  /\ \/ \E i \in Preparable : EntryPrepared(i) /\ EntryRestored(o, i, FALSE)
     \/ RestoreFails(o) /\ (UNCHANGED fund \/ \E i \in Preparable : EntryPrepared(i))
  /\ UNCHANGED <<message, entryDuel, resigned, reloads>>

(***************************************************************************)
(* Resuming.                                                               *)
(***************************************************************************)
\* The draft effect.
RestoreDraft ==
  /\ page.restoreDraft /\ page.phase \in {"idle", "recovering"} /\ entryOp["restore"].pc = "idle"
  /\ Becomes([page EXCEPT !.restoring = TRUE], "restore",
             [EntryIdle EXCEPT !.pc = "load", !.as = "draft", !.sent = page.phase = "recovering",
                               !.rejected = page.rejected])
  /\ UNCHANGED <<fund, message, entryDuel, resigned, reloads>>

\* The button of the duel's card: it does not look at the phase.
ReviewPersistedFunding ==
  /\ ~page.pending /\ page.seen = "matched"
  /\ MainStarts(page, [EntryIdle EXCEPT !.pc = "load", !.as = "review", !.rejected = page.rejected])

ResumeGuidedEntry ==
  /\ ButtonsEnabled /\ RecoveryStage
  /\ IF page.rejected # 0
     THEN MainStarts(page, [EntryIdle EXCEPT !.pc = "load", !.as = "reset", !.rejected = page.rejected])
     ELSE IF page.phase = "recovering"
     THEN MainStarts([page EXCEPT !.phase = "confirming"], [EntryIdle EXCEPT !.pc = "settle", !.as = "resume"])
     ELSE page.seen # "none" /\ MainStarts(page, [EntryIdle EXCEPT !.pc = "load", !.as = "review"])

\* The page's polls of the duel, until its status is a terminal one.
PollDuel ==
  /\ page.seen \notin {"none", "cancelled", entryDuel}
  /\ PageBecomes([page EXCEPT !.seen = entryDuel], entryOp)
  /\ UNCHANGED <<fund, message, entryDuel, resigned, reloads>>

\* cancelGuidedEntry, offered before the payment.  The page forgets the duel, unless the
\* reply is lost.
CancelGuidedEntry ==
  /\ ButtonsEnabled /\ page.phase = "idle" /\ page.seen = "matched" /\ entryDuel = "matched"
  /\ entryDuel' = "cancelled"
  /\ \/ page' = FreshPage /\ draft' = NoDraft /\ entryOp' = Overtaken(entryOp)
     \/ UNCHANGED <<page, draft, entryOp>>
  /\ UNCHANGED <<fund, message, resigned, reloads>>

\* A reload: the draft, unless it is older than DUEL_ENTRY_DRAFT_MAX_AGE_MS, and the
\* active duel of sessionStorage.
ReloadPage ==
  /\ reloads < MaxReloads /\ reloads' = reloads + 1
  /\ \E d \in {draft, NoDraft} :
       LET p == Completes([FreshPage EXCEPT !.phase = IF d.sent THEN "recovering" ELSE "idle",
                                            !.rejected = d.rejected,
                                            !.restoreDraft = d.saved /\ entryDuel # "none", !.seen = entryDuel])
       IN  page' = p /\ draft' = IF d.saved \/ p.seen # "none" THEN DraftOf(p) ELSE NoDraft
  /\ entryOp' = [o \in EntryOps |-> EntryIdle]
  /\ UNCHANGED <<fund, message, entryDuel, resigned>>

EntryStep ==
  \/ MonitorStep \/ \E i \in EntryIntents : MessageLands(i) \/ MessageDies(i)
  \/ ReviewDuel \/ CreateDuel \/ PrepareDuelIntent
  \/ ApproveIntent \/ WalletAnswers \/ SubmitSignedIntent \/ TrackConfirmation \/ ReconcileBroadcastFunding
  \/ \E o \in EntryOps :
       LoadDuel(o) \/ AbandonRejectedIntent(o) \/ ReconcileTransactions(o) \/ ReloadDuel(o) \/ PrepareRestored(o)
  \/ RestoreDraft \/ ReviewPersistedFunding \/ ResumeGuidedEntry \/ PollDuel \/ CancelGuidedEntry \/ ReloadPage

(***************************************************************************)
(* Properties.                                                             *)
(***************************************************************************)
EntryTypeOK ==
  /\ page.phase \in {"idle", "signing", "confirming", "recovering"}
  /\ page.intent \in EntryIntents \cup {0} /\ page.rejected \in EntryIntents \cup {0}
  /\ entryDuel \in {"none", "matched", "committing", "funded", "cancelled"}
  /\ \A i \in EntryIntents : /\ fund[i] \in {"NONE", "PREPARED", "SUBMITTED", "FINALIZED", "EXPIRED"}
                             /\ message[i] \in {"unsigned", "signed", "landed", "dead"}

MayHavePaid(i) == message[i] \in {"signed", "landed"} /\ i \notin resigned

\* "no wallet prompt will open until it is safe" (STILL_RECONCILING_PAYMENT): the page
\* offers a payment, or has the wallet's prompt open, only if no message the wallet
\* signed before can still land or has landed; and the API never drops a message that
\* landed because the page reported it as rejected.  Left out is a message that was
\* signed after its own rejection had been recorded.
PromptIsSafe ==
  \A i \in EntryIntents : MayHavePaid(i) =>
    /\ ~(ButtonsEnabled /\ FundingReview)
    /\ entryOp["main"].pc # "sign"
    /\ fund[i] # "EXPIRED"
=============================================================================
