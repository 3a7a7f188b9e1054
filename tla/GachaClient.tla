----------------------------- MODULE GachaClient -----------------------------
(***************************************************************************)
(* The browser's side of paying for a rip: the tabs of one browser, one    *)
(* wallet and one machine (app/games/flip/, flip-machine.tsx,              *)
(* flip-machine-actions.ts, flip-machine-state.ts,                         *)
(* flip-payment-recovery.ts).  The tabs share one recovery record in       *)
(* localStorage and hear of each other's writes by storage events.  Any    *)
(* request or reply may be lost, any tab may be reloaded, the storage may  *)
(* refuse a write.                                                         *)
(*                                                                         *)
(* The API is what GachaPayment and GachaRip show of it, one step for each *)
(* request.  Seeds are left out: a rip of another seed than the one the    *)
(* tab knows is one of the failures of its last request.                   *)
(***************************************************************************)
EXTENDS Integers, FiniteSets

CONSTANTS
  Tabs,
  Orders,        \* payment intents, in the order they are created (1..n)
  SignedBytes,   \* transactions the wallet signs, in that order (1..n)
  MaxTabFaults   \* bound on reloads and on writes the storage refuses

ASSUME GachaClientConstants ==
  Orders \subseteq Nat \ {0} /\ SignedBytes \subseteq Nat \ {0} /\ MaxTabFaults \in Nat

VARIABLES
  gtab,       \* gtab[t]: the reducer's state, the refs, and the operation in flight
  record,     \* the stored FlipPaymentRecovery
  event,      \* event[t]: a storage event waits for tab t
  order,      \* order[i]: the API's row of intent i
  bytes,      \* bytes[b]: a signed transaction
  tabFaults

clientVars == <<gtab, record, event, order, bytes, tabFaults>>

NoRecord == [status |-> "empty", intent |-> 0, bytes |-> 0]
Awaiting(i) == [status |-> "awaiting-signature", intent |-> i, bytes |-> 0]
SignedPending(i, b) == [status |-> "signed-claim-pending", intent |-> i, bytes |-> b]
SignatureKnown(i, b) == [status |-> "signature-known", intent |-> i, bytes |-> b]
ClientIdle == [pc |-> "idle", resumes |-> FALSE, intent |-> 0, bytes |-> 0]
\* told: the outcome the page shows, and the transaction it is about.
FreshTab == [recovery |-> NoRecord, ref |-> NoRecord, signature |-> 0, invalid |-> FALSE, phase |-> "idle",
             intent |-> 0, prepared |-> FALSE, result |-> FALSE, told |-> "none", of |-> 0, op |-> ClientIdle]

ClientInit ==
  /\ record \in {NoRecord, [NoRecord EXCEPT !.status = "invalid"]}
  /\ gtab = [t \in Tabs |-> [FreshTab EXCEPT !.invalid = record.status = "invalid"]]
  /\ event = [t \in Tabs |-> FALSE]
  /\ order = [i \in Orders |-> [status |-> "NONE", bytes |-> 0]]
  /\ bytes = [b \in SignedBytes |-> [state |-> "none", intent |-> 0]]
  /\ tabFaults = 0

(***************************************************************************)
(* The API and the chain.                                                  *)
(***************************************************************************)
OpenOrders == {i \in Orders : order[i].status \in {"PENDING", "VERIFIED"}}
FreeOrders == {i \in Orders : order[i].status = "NONE"}

\* createIntent: <<rows, i>> for every row it may answer with.  An open row is left
\* when it is late and unclaimed, or claimed by a transaction that is proven absent.
CreatedOrders ==
  LET Create(rows) == {<<[rows EXCEPT ![i] = [status |-> "PENDING", bytes |-> 0]], i>> :
                         i \in {j \in FreeOrders : \A k \in FreeOrders : j <= k}}
      Left(i) == IF order[i].status # "PENDING" THEN {}
                 ELSE IF order[i].bytes = 0 THEN Create([order EXCEPT ![i].status = "EXPIRED"])
                 ELSE IF bytes[order[i].bytes].state = "dead" THEN Create([order EXCEPT ![i].status = "FAILED"])
                 ELSE {}
  IN  IF OpenOrders = {} THEN Create(order)
      ELSE UNION {{<<order, i>>} \cup Left(i) : i \in OpenOrders}

\* claimSignature takes the first signature of an open row.
ClaimAccepted(b) ==
  LET row == order[bytes[b].intent] IN
  (row.status = "PENDING" /\ row.bytes = 0) \/ (row.status \in {"PENDING", "VERIFIED"} /\ row.bytes = b)

\* verifyIntent: a spent intent is refused like any other that does not wait.
Verifiable(i, b) ==
  \/ order[i].status = "VERIFIED" /\ order[i].bytes = b
  \/ order[i].status = "PENDING" /\ order[i].bytes = b /\ bytes[b].state = "landed"
ExecutionFailed(i, b) == order[i].status = "PENDING" /\ order[i].bytes = b /\ bytes[b].state = "error"

TransactionEnds(b) ==
  /\ \/ bytes[b].state = "sent" /\ \E s \in {"landed", "error", "dead"} : bytes' = [bytes EXCEPT ![b].state = s]
     \/ bytes[b].state = "signed" /\ bytes' = [bytes EXCEPT ![b].state = "dead"]
  /\ UNCHANGED <<gtab, record, event, order, tabFaults>>

(***************************************************************************)
(* The record and the tabs.                                                *)
(***************************************************************************)
\* Every other tab hears of a changed record.
Stores(t, r) ==
  /\ record' = r
  /\ event' = IF r = record THEN event ELSE [u \in Tabs |-> u # t \/ event[u]]
KeepsRecord == UNCHANGED <<record, event>>
Busy(t) == gtab[t].op.pc # "idle"
TabBecomes(t, s) == gtab' = [gtab EXCEPT ![t] = s]
At(t, pc) == gtab[t].op.pc = pc
Goes(s, pc) == [s EXCEPT !.op.pc = pc]
Unresolved(s) == s.recovery # NoRecord \/ s.invalid \/ s.signature # 0

\* recovery-cleared
Cleared(s) == [s EXCEPT !.recovery = NoRecord, !.ref = NoRecord, !.signature = 0, !.invalid = FALSE, !.phase = "idle"]

\* recovery-hydrated and recovery-synchronized, with the ref set before them.
Synchronized(s, r) == [s EXCEPT !.recovery = r, !.ref = r, !.signature = r.bytes, !.invalid = FALSE]
RecoveryInvalid(s) ==
  [s EXCEPT !.invalid = TRUE, !.ref = NoRecord, !.recovery = NoRecord, !.signature = 0, !.phase = "recovering"]

\* hydrateRecovery: <<tab, record>>.
Hydrated(s) ==
  CASE record.status = "awaiting-signature" -> <<Cleared(s), NoRecord>>
    [] record.status = "invalid" -> <<RecoveryInvalid(s), record>>
    [] record.status = "empty" -> <<IF s.ref # NoRecord THEN Cleared(s) ELSE s, record>>
    [] OTHER -> <<[Synchronized(s, record) EXCEPT !.phase = "recovering"], record>>

HydratedFrom(t, s) ==
  /\ TabBecomes(t, Hydrated(s)[1])
  /\ record' = Hydrated(s)[2]
  /\ event' = [u \in Tabs |-> IF u = t THEN FALSE ELSE event[u] \/ record' # record]

\* The storage listener, and the effect of a page that is mounted again.
HydrateRecovery(t) == event[t] /\ HydratedFrom(t, gtab[t]) /\ UNCHANGED <<order, bytes, tabFaults>>

ReloadTab(t) ==
  /\ tabFaults < MaxTabFaults /\ tabFaults' = tabFaults + 1
  /\ HydratedFrom(t, FreshTab)
  /\ UNCHANGED <<order, bytes>>

\* rip-failed, transaction-failed, rip-declined and rip-succeeded, with
\* clearTerminalFlipRecovery for the last three.
Failed(s) == [s EXCEPT !.op = ClientIdle, !.phase = "recovering"]
Terminal(s, told, phase) ==
  [s EXCEPT !.op = ClientIdle, !.recovery = NoRecord, !.ref = NoRecord, !.signature = 0, !.invalid = FALSE,
            !.phase = phase, !.told = told, !.of = s.op.bytes, !.result = told = "ripped"]
EndsFailed(t) == TabBecomes(t, Failed(gtab[t])) /\ KeepsRecord
EndsWith(t, told, phase) == TabBecomes(t, Terminal(gtab[t], told, phase)) /\ Stores(t, NoRecord)

(***************************************************************************)
(* handlePrepare.                                                          *)
(***************************************************************************)
\* The view offers it in the stages review and preparing, and in the stage recovery when
\* nothing is locked and no intent is left (a payment resumed by another page that failed).
HandlePrepare(t) ==
  LET s == gtab[t] IN
  /\ ~Busy(t) /\ ~Unresolved(s) /\ s.ref = NoRecord /\ s.phase \in {"idle", "recovering"}
  /\ ~s.prepared /\ ~s.result
  /\ TabBecomes(t, [s EXCEPT !.op.pc = "intent", !.told = "none"])
  /\ UNCHANGED <<record, event, order, bytes, tabFaults>>

\* A claimed intent is resumed, whether its record can be stored or not.
IntentAnswers(t) ==
  LET s == gtab[t]
      Resumed(i) == SignatureKnown(i, order[i].bytes) IN
  /\ At(t, "intent")
  /\ \E c \in CreatedOrders \cup {<<order, 0>>} :
       /\ order' = c[1]
       /\ CASE c[2] = 0 -> TabBecomes(t, [s EXCEPT !.op = ClientIdle]) /\ KeepsRecord
            [] c[2] # 0 /\ c[1][c[2]].bytes = 0 ->
                 TabBecomes(t, [s EXCEPT !.op.pc = "transaction", !.op.intent = c[2]]) /\ KeepsRecord
            [] OTHER ->
                 /\ TabBecomes(t, [Synchronized(s, Resumed(c[2])) EXCEPT !.op = ClientIdle, !.phase = "recovering"])
                 /\ Stores(t, Resumed(c[2]))
  /\ UNCHANGED <<bytes, tabFaults>>

\* prepare-succeeded
PrepareSucceeded(s, i) ==
  [s EXCEPT !.op = ClientIdle, !.intent = i, !.prepared = TRUE, !.recovery = NoRecord, !.invalid = FALSE]

Payable(i) == order[i].status = "PENDING" /\ order[i].bytes = 0

TransactionAnswers(t) ==
  LET s == gtab[t] IN
  /\ At(t, "transaction")
  /\ \/ Payable(s.op.intent) /\ TabBecomes(t, PrepareSucceeded(s, s.op.intent))
     \/ TabBecomes(t, [s EXCEPT !.op = ClientIdle])
  /\ UNCHANGED <<record, event, order, bytes, tabFaults>>

(***************************************************************************)
(* handleConfirm and confirmFlipRip.                                       *)
(***************************************************************************)
HandleConfirm(t) ==
  LET s == gtab[t] IN
  /\ ~Busy(t) /\ ~Unresolved(s) /\ s.phase = "idle" /\ s.prepared /\ ~s.result
  /\ TabBecomes(t, [s EXCEPT !.op = [ClientIdle EXCEPT !.pc = "lock", !.intent = s.intent], !.phase = "working",
                          !.told = "none"])
  /\ UNCHANGED <<record, event, order, bytes, tabFaults>>

\* The prepared transaction is checked, and asked for again when it expired;
\* onBroadcastPending stores the lock, or nothing is signed.
LockBroadcast(t) ==
  LET s == gtab[t]
      lock == Awaiting(s.op.intent) IN
  /\ At(t, "lock")
  /\ \/ /\ TabBecomes(t, Goes(Synchronized(s, lock), "sign"))
        /\ Stores(t, lock) /\ UNCHANGED tabFaults
     \/ EndsFailed(t) /\ UNCHANGED tabFaults
     \/ /\ tabFaults < MaxTabFaults /\ tabFaults' = tabFaults + 1
        /\ EndsWith(t, "declined", "idle")
  /\ UNCHANGED <<order, bytes>>

\* onSignedTransaction stores the signed bytes with the lock, if there still is one.
WalletSigns(t) ==
  LET s == gtab[t]
      b == CHOOSE x \in SignedBytes : bytes[x].state = "none" /\ \A y \in SignedBytes : bytes[y].state = "none" => x <= y
      pending == SignedPending(s.op.intent, b) IN
  /\ At(t, "sign")
  /\ \/ EndsWith(t, "declined", "idle") /\ UNCHANGED <<bytes, tabFaults>>
     \/ /\ \E x \in SignedBytes : bytes[x].state = "none"
        /\ bytes' = [bytes EXCEPT ![b] = [state |-> "signed", intent |-> s.op.intent]]
        /\ \/ /\ s.ref # NoRecord
              /\ TabBecomes(t, [Synchronized(s, pending) EXCEPT !.op.pc = "claim", !.op.bytes = b])
              /\ Stores(t, pending) /\ UNCHANGED tabFaults
           \/ s.ref = NoRecord /\ EndsFailed(t) /\ UNCHANGED tabFaults
           \/ /\ tabFaults < MaxTabFaults /\ tabFaults' = tabFaults + 1
              /\ EndsFailed(t)
  /\ UNCHANGED order

\* onSignature: confirmFlipRip stores what it learns, a resumed operation shows it only.
Known(t, s, b) ==
  LET known == SignatureKnown(s.ref.intent, b)
      shown == [s EXCEPT !.signature = b] IN
  \/ /\ ~s.op.resumes /\ s.ref # NoRecord
     /\ TabBecomes(t, [shown EXCEPT !.ref = known, !.recovery = known]) /\ Stores(t, known) /\ UNCHANGED tabFaults
  \/ /\ s.op.resumes \/ s.ref = NoRecord
     /\ TabBecomes(t, shown) /\ KeepsRecord /\ UNCHANGED tabFaults
  \/ /\ ~s.op.resumes /\ s.ref # NoRecord
     /\ tabFaults < MaxTabFaults /\ tabFaults' = tabFaults + 1
     /\ TabBecomes(t, shown) /\ KeepsRecord

\* Mutant: a row that no one has claimed is no reason not to send.
UnclaimedIsMine(claimed, b) == claimed \in {0, b}

\* The signed transaction is sent only if the API names it.
Authority(claimed, b) == claimed = b

\* claimOrRecoverSignature: the claim ...
ClaimSignatureOf(t) ==
  LET s == gtab[t]
      i == s.op.intent
      b == s.op.bytes IN
  /\ At(t, "claim")
  /\ \/ ClaimAccepted(b) /\ order' = [order EXCEPT ![i].bytes = b] /\ TabBecomes(t, Goes(s, "broadcast"))
     \/ /\ TabBecomes(t, Goes(s, "reclaim"))
        /\ UNCHANGED order \/ (ClaimAccepted(b) /\ order' = [order EXCEPT ![i].bytes = b])
  /\ UNCHANGED <<record, event, bytes, tabFaults>>

\* ... and after a refused or a lost claim the open row.  The claimed signature of the
\* same intent is the authority; an unclaimed other row is taken as a proof that the
\* bytes were never sent.
RecoverSignature(t) ==
  LET s == gtab[t]
      b == s.op.bytes IN
  /\ At(t, "reclaim")
  /\ \/ \E c \in CreatedOrders :
          LET i == c[2]
              claimed == c[1][i].bytes IN
          /\ order' = c[1]
          /\ CASE i = s.op.intent /\ Authority(claimed, b) ->
                    TabBecomes(t, Goes(s, "broadcast")) /\ KeepsRecord /\ UNCHANGED tabFaults
               [] i = s.op.intent /\ claimed \notin {0, b} ->
                    IF s.op.resumes THEN Known(t, [s EXCEPT !.op.pc = "track", !.op.bytes = claimed], claimed)
                    ELSE Known(t, Failed(s), claimed)
               [] i # s.op.intent /\ claimed = 0 -> EndsWith(t, "replaced", "recovering") /\ UNCHANGED tabFaults
               [] OTHER -> EndsFailed(t) /\ UNCHANGED tabFaults
     \/ EndsFailed(t) /\ UNCHANGED <<order, tabFaults>>
  /\ UNCHANGED bytes

\* broadcastTransaction: an error may follow the transaction's arrival.
Broadcast(t) ==
  LET s == gtab[t]
      b == s.op.bytes
      Sent == bytes' = [bytes EXCEPT ![b].state = IF @ = "signed" THEN "sent" ELSE @] IN
  /\ At(t, "broadcast")
  /\ \/ Sent /\ Known(t, Goes(s, "track"), b)
     \/ EndsFailed(t) /\ UNCHANGED tabFaults /\ (UNCHANGED bytes \/ Sent)
  /\ UNCHANGED order

(***************************************************************************)
(* completeBroadcastFlipRip.                                               *)
(***************************************************************************)
\* track ends with what the cluster said, or at its own deadline, which proves nothing.
Track(t) ==
  LET s == gtab[t]
      b == s.op.bytes IN
  /\ At(t, "track")
  /\ \/ bytes[b].state = "landed" /\ TabBecomes(t, Goes(s, "verify"))
     \/ bytes[b].state = "error" /\ TabBecomes(t, Goes(s, "verifyFailed"))
     \/ TabBecomes(t, Failed(s))
  /\ UNCHANGED <<record, event, order, bytes, tabFaults>>

VerifyPayment(t) ==
  LET s == gtab[t]
      i == s.op.intent
      b == s.op.bytes
      Verified == order' = [order EXCEPT ![i].status = "VERIFIED"]
      Rejected == order' = [order EXCEPT ![i].status = "FAILED"] IN
  /\ At(t, "verify") \/ At(t, "verifyFailed")
  /\ \/ Verifiable(i, b) /\ Verified /\ TabBecomes(t, Goes(s, "rip")) /\ KeepsRecord
     \/ ExecutionFailed(i, b) /\ Rejected
          /\ IF At(t, "verifyFailed") THEN EndsWith(t, "failedOnChain", "recovering") ELSE EndsFailed(t)
     \/ /\ EndsFailed(t)
        /\ \/ UNCHANGED order
           \/ Verifiable(i, b) /\ Verified
           \/ ExecutionFailed(i, b) /\ Rejected
  /\ UNCHANGED <<bytes, tabFaults>>

\* createRip spends the payment, or answers with the rip it was spent on.
CreateRip(t) ==
  LET s == gtab[t]
      Spent == order' = [order EXCEPT ![s.op.intent].status = "CONSUMED"]
      spendable == order[s.op.intent].status \in {"VERIFIED", "CONSUMED"} IN
  /\ At(t, "rip")
  /\ \/ spendable /\ Spent /\ EndsWith(t, "ripped", "idle")
     \/ EndsFailed(t) /\ (UNCHANGED order \/ (spendable /\ Spent))
  /\ UNCHANGED <<bytes, tabFaults>>

(***************************************************************************)
(* handleResume, of the player or of the effect, and reset.                *)
(***************************************************************************)
\* reconcileSignedFlipRip claims again, resumeFlipRip goes on with the confirmation.
ReconcileSigned(s, i, b) ==
  [s EXCEPT !.op = [pc |-> "claim", resumes |-> TRUE, intent |-> i, bytes |-> b], !.phase = "working"]
ResumeRip(s, i, b) ==
  [s EXCEPT !.op = [pc |-> "track", resumes |-> TRUE, intent |-> i, bytes |-> b], !.phase = "working"]

HandleResume(t) ==
  LET s == gtab[t]
      r == s.recovery IN
  /\ ~Busy(t) /\ ~s.invalid
  /\ \/ r.status = "signed-claim-pending" /\ TabBecomes(t, ReconcileSigned(s, r.intent, r.bytes))
     \/ r.status = "signature-known" /\ TabBecomes(t, ResumeRip(s, r.intent, r.bytes))
     \/ /\ r = NoRecord /\ s.phase = "recovering" /\ s.prepared
        /\ TabBecomes(t, IF s.signature # 0 THEN ResumeRip(s, s.intent, s.signature)
                      ELSE [s EXCEPT !.op = [ClientIdle EXCEPT !.pc = "refresh", !.intent = s.intent]])
  /\ UNCHANGED <<record, event, order, bytes, tabFaults>>

RefreshPrepared(t) ==
  LET s == gtab[t] IN
  /\ At(t, "refresh")
  /\ \/ Payable(s.op.intent) /\ TabBecomes(t, [s EXCEPT !.op = ClientIdle, !.phase = "idle"])
     \/ TabBecomes(t, [s EXCEPT !.op = ClientIdle])
  /\ UNCHANGED <<record, event, order, bytes, tabFaults>>

HandleReset(t) ==
  LET s == gtab[t] IN
  /\ ~Busy(t) /\ s.ref = NoRecord /\ ~Unresolved(s) /\ s.result
  /\ TabBecomes(t, FreshTab)
  /\ UNCHANGED <<record, event, order, bytes, tabFaults>>

TabStep(t) ==
  \/ HydrateRecovery(t) \/ ReloadTab(t)
  \/ HandlePrepare(t) \/ IntentAnswers(t) \/ TransactionAnswers(t)
  \/ HandleConfirm(t) \/ LockBroadcast(t) \/ WalletSigns(t) \/ ClaimSignatureOf(t) \/ RecoverSignature(t)
  \/ Broadcast(t) \/ Track(t) \/ VerifyPayment(t) \/ CreateRip(t)
  \/ HandleResume(t) \/ RefreshPrepared(t) \/ HandleReset(t)
ClientStep == (\E t \in Tabs : TabStep(t)) \/ \E b \in SignedBytes : TransactionEnds(b)

(***************************************************************************)
(* Properties.                                                             *)
(***************************************************************************)
RecordOK(r) ==
  /\ r.status \in {"empty", "invalid", "awaiting-signature", "signed-claim-pending", "signature-known"}
  /\ r.intent \in Orders \cup {0} /\ r.bytes \in SignedBytes \cup {0}
ClientTypeOK ==
  /\ RecordOK(record)
  /\ \A t \in Tabs : /\ RecordOK(gtab[t].recovery) /\ RecordOK(gtab[t].ref)
                     /\ gtab[t].phase \in {"idle", "working", "recovering"}
  /\ \A b \in SignedBytes : bytes[b].state \in {"none", "signed", "sent", "landed", "error", "dead"}

Arrived(b) == bytes[b].state \in {"sent", "landed"}

\* Whatever the tabs, reloads, lost replies and refused writes do: what reaches the
\* chain is the transaction the API has claimed for that intent, so two tabs never pay
\* twice, and what a page tells its player is true: nothing was charged when it says
\* the transfer was declined or failed on the chain, and a shown rip was paid for.
GachaClientIsSafe ==
  /\ \A b \in SignedBytes : Arrived(b) => order[bytes[b].intent].bytes = b
  /\ \A t \in Tabs :
       LET b == gtab[t].of IN
       /\ gtab[t].told \in {"declined", "failedOnChain"} /\ b # 0 => ~Arrived(b)
       /\ gtab[t].told = "ripped" => bytes[b].state = "landed" /\ order[bytes[b].intent].status = "CONSUMED"
=============================================================================
