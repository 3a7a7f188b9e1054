----------------------------- MODULE GachaPayment -----------------------------
(***************************************************************************)
(* The payment of a sports-pack rip in devnet mode: an intent is opened,   *)
(* the wallet's first signature is claimed for it before it is broadcast,  *)
(* the finalized transfer is verified, and a wallet has one open intent    *)
(* for a machine (gacha/gacha-payment.service.ts, gacha-payment.ts,        *)
(* gacha-transaction.ts).                                                  *)
(*                                                                         *)
(* One machine.  Every database transaction of an intent holds the lock of *)
(* its wallet and machine; the reads of the chain happen between two of    *)
(* them, with no lock held.                                                *)
(***************************************************************************)
EXTENDS Integers, FiniteSets

CONSTANTS
  Payers,        \* wallets
  Intents,       \* payment intents, in the order they are created (1..n)
  Signatures,    \* the transactions a wallet signs for one intent, one per tab
  GachaCalls     \* requests in flight

ASSUME GachaPaymentConstants == Intents \subseteq Nat \ {0} /\ Signatures \subseteq Nat \ {0}

VARIABLES
  payment,   \* payment[i]: the GachaRipPayment row
  transfer,  \* transfer[i][s]: the transaction on the chain (external)
  gcall      \* gcall[c]: one request

payVars == <<payment, transfer, gcall>>

NoPayment == [status |-> "NONE", payer |-> 0, signature |-> 0, late |-> FALSE, rip |-> 0]
NoTransfer == [state |-> "none", fresh |-> TRUE]
GachaIdle == [pc |-> "idle", payer |-> 0, intent |-> 0, signature |-> 0, rip |-> 0,
              snapshot |-> 0]

\* activePayerWallet and activeMachineKey are set as long as the row may still be paid or spent.
Active(i) == payment[i].status \in {"PENDING", "VERIFIED"}
ActivePayments(w) == {i \in Intents : Active(i) /\ payment[i].payer = w}

UnclaimedIntentExpired(i) ==
  payment[i].status = "PENDING" /\ payment[i].signature = 0 /\ payment[i].late

EndGachaCall(c) == gcall' = [gcall EXCEPT ![c] = GachaIdle]
GotoGacha(c, pc) == gcall' = [gcall EXCEPT ![c].pc = pc]

(***************************************************************************)
(* The chain and the wallet.                                               *)
(***************************************************************************)
\* prepareTransaction gives an unclaimed open intent a transaction on a fresh blockhash;
\* the wallet signs it.  Signatures are numbered in the order they are made.
PrepareTransaction(i, s) ==
  /\ payment[i].status = "PENDING" /\ payment[i].signature = 0 /\ transfer[i][s].state = "none"
  /\ \A r \in Signatures : r < s => transfer[i][r].state # "none"
  /\ IF payment[i].late
     THEN payment' = [payment EXCEPT ![i].status = "EXPIRED"] /\ UNCHANGED transfer
     ELSE transfer' = [transfer EXCEPT ![i][s].state = "signed"] /\ UNCHANGED payment
  /\ UNCHANGED gcall

\* A broadcast transaction is included, as a transfer or as a failed execution, as long
\* as its blockhash is valid; what is included is finalized before the finalized bank
\* forgets the blockhash.
TransferLands(i, s) ==
  /\ transfer[i][s].state = "sent" /\ transfer[i][s].fresh
  /\ \E result \in {"landed", "landedError"} :
       transfer' = [transfer EXCEPT ![i][s].state = result]
  /\ UNCHANGED <<payment, gcall>>

TransferFinalizes(i, s) ==
  /\ \/ transfer[i][s].state = "landed" /\ transfer' = [transfer EXCEPT ![i][s].state = "final"]
     \/ transfer[i][s].state = "landedError" /\ transfer' = [transfer EXCEPT ![i][s].state = "finalError"]
  /\ UNCHANGED <<payment, gcall>>

BlockhashExpires(i, s) ==
  /\ transfer[i][s].state \in {"signed", "sent", "final", "finalError"} /\ transfer[i][s].fresh
  /\ transfer' = [transfer EXCEPT ![i][s].fresh = FALSE]
  /\ UNCHANGED <<payment, gcall>>

\* GACHA_PAYMENT_INTENT_TTL_MS have passed since the intent was created.
IntentIsLate(i) ==
  /\ payment[i].status = "PENDING" /\ ~payment[i].late
  /\ payment' = [payment EXCEPT ![i].late = TRUE]
  /\ UNCHANGED <<transfer, gcall>>

(***************************************************************************)
(* createIntent.                                                           *)
(***************************************************************************)
\* releaseClaimedIfProvenExpired: which rows it looks at.
MayBeReleased(i) == payment[i].status = "PENDING" /\ payment[i].signature # 0 /\ payment[i].late

\* findOrExpireActiveIntent, then the resumed row is returned or examined.
BeginIntent(c, w) ==
  /\ gcall[c].pc = "idle"
  /\ IF \E i \in ActivePayments(w) : ~UnclaimedIntentExpired(i)
     THEN LET i == CHOOSE j \in ActivePayments(w) : TRUE IN
          /\ UNCHANGED payment
          /\ gcall' = [gcall EXCEPT ![c] =
               IF MayBeReleased(i)
               THEN [GachaIdle EXCEPT !.pc = "statuses", !.payer = w, !.intent = i,
                                      !.signature = payment[i].signature]
               ELSE @]
     ELSE /\ payment' = [i \in Intents |->
               IF i \in ActivePayments(w) THEN [payment[i] EXCEPT !.status = "EXPIRED"] ELSE payment[i]]
          /\ gcall' = [gcall EXCEPT ![c] = [GachaIdle EXCEPT !.pc = "create", !.payer = w]]
  /\ UNCHANGED transfer

Claimed(c) == transfer[gcall[c].intent][gcall[c].signature]

\* Mutant: the history is read first, the blockhash last.
HistoryBeforeBlockhash(c) ==
  \/ gcall[c].pc = "statuses" /\ Claimed(c).state \in {"signed", "sent"} /\ GotoGacha(c, "history")
  \/ gcall[c].pc = "history" /\ Claimed(c).state \notin {"final", "finalError"} /\ GotoGacha(c, "blockhash")
  \/ gcall[c].pc = "blockhash" /\ ~Claimed(c).fresh /\ GotoGacha(c, "release")

\* Three reads of the chain, each of which may keep the slot instead: the signature has
\* no status, its blockhash is not valid, no finalized transaction has it.
AbsenceIsProven(c) ==
  \/ gcall[c].pc = "statuses" /\ Claimed(c).state \in {"signed", "sent"} /\ GotoGacha(c, "blockhash")
  \/ gcall[c].pc = "blockhash" /\ ~Claimed(c).fresh /\ GotoGacha(c, "history")
  \/ gcall[c].pc = "history" /\ Claimed(c).state \notin {"final", "finalError"} /\ GotoGacha(c, "release")

ReadChain(c) == AbsenceIsProven(c) /\ UNCHANGED <<payment, transfer>>

\* The claim that was read is still the open one.
SameClaim(c) ==
  LET i == gcall[c].intent IN
  payment[i].status = "PENDING" /\ payment[i].signature = gcall[c].signature

ReleaseClaimed(c) ==
  /\ gcall[c].pc = "release"
  /\ IF SameClaim(c)
     THEN /\ payment' = [payment EXCEPT ![gcall[c].intent].status = "FAILED"]
          /\ GotoGacha(c, "create")
     ELSE EndGachaCall(c) /\ UNCHANGED payment
  /\ UNCHANGED transfer

\* The last transaction of createIntent finds the open row again before it creates one;
\* one it has to expire leaves the wallet's slot.
CreateIntent(c) ==
  LET w == gcall[c].payer
      open == {i \in ActivePayments(w) : ~UnclaimedIntentExpired(i)}
      free == {i \in Intents : payment[i].status = "NONE"} IN
  /\ gcall[c].pc = "create"
  /\ \/ open # {} /\ UNCHANGED payment
     \/ /\ open = {}
        /\ \E new \in free :
             /\ \A k \in free : new <= k
             /\ payment' = [i \in Intents |->
                  IF i \in ActivePayments(w) THEN [payment[i] EXCEPT !.status = "EXPIRED"]
                  ELSE IF i = new THEN [NoPayment EXCEPT !.status = "PENDING", !.payer = w]
                  ELSE payment[i]]
  /\ EndGachaCall(c)
  /\ UNCHANGED transfer

(***************************************************************************)
(* claimSignature, one transaction.  The client broadcasts after a reply   *)
(* that its signature is the claimed one, if it gets that reply.           *)
(***************************************************************************)
\* validateSignedPaymentClaim: the payer signed exactly the transfer of this intent.
SignedFor(i, s) == transfer[i][s].state \in {"signed", "sent"}

\* An open intent takes the first signature, and answers for that one alone.
ClaimSignature(i, s) ==
  LET unclaimed == payment[i].status = "PENDING" /\ payment[i].signature = 0
      expired == unclaimed /\ payment[i].late IN
  /\ SignedFor(i, s)
  /\ unclaimed \/ (Active(i) /\ payment[i].signature = s)
  /\ payment' = [payment EXCEPT ![i] =
       IF expired THEN [@ EXCEPT !.status = "EXPIRED"] ELSE [@ EXCEPT !.signature = s]]
  /\ \/ ~expired /\ transfer' = [transfer EXCEPT ![i][s].state = "sent"]
     \/ UNCHANGED transfer
  /\ UNCHANGED gcall

(***************************************************************************)
(* verifyIntent: the row, then the finalized transaction, then the row     *)
(* again.                                                                  *)
(***************************************************************************)
BeginVerify(c, i, s) ==
  /\ gcall[c].pc = "idle" /\ payment[i].status = "PENDING"
  /\ \/ /\ payment[i].signature = s
        /\ gcall' = [gcall EXCEPT ![c] = [GachaIdle EXCEPT !.pc = "fetch", !.intent = i, !.signature = s]]
        /\ UNCHANGED payment
     \/ /\ UnclaimedIntentExpired(i)              \* expireUnclaimedPayment
        /\ payment' = [payment EXCEPT ![i].status = "EXPIRED"] /\ UNCHANGED gcall
  /\ UNCHANGED transfer

\* verifyGachaPaymentTransaction: what a finalized transaction of the claim shows.
Evidence(t) == CASE t.state = "final" -> "verified" [] t.state = "finalError" -> "failed" [] OTHER -> "missing"

\* A failed execution fails the intent, a transfer verifies it, any doubt leaves it for
\* reconciliation.
FetchTransaction(c) ==
  /\ gcall[c].pc = "fetch"
  /\ \/ Evidence(Claimed(c)) # "missing" /\ GotoGacha(c, Evidence(Claimed(c)))
     \/ EndGachaCall(c)
  /\ UNCHANGED <<payment, transfer>>

WriteVerification(c) ==
  LET outcome == IF gcall[c].pc = "verified" THEN "VERIFIED" ELSE "FAILED" IN
  /\ gcall[c].pc \in {"verified", "failed"}
  /\ payment' = IF SameClaim(c) THEN [payment EXCEPT ![gcall[c].intent].status = outcome] ELSE payment
  /\ EndGachaCall(c)
  /\ UNCHANGED transfer

\* An error of an RPC read, or the process, ends a request between two of its steps.
PaymentCallEnds(c) ==
  /\ gcall[c].pc \in {"statuses", "blockhash", "history", "release", "create", "fetch", "verified", "failed"}
  /\ EndGachaCall(c)
  /\ UNCHANGED <<payment, transfer>>

PaymentStep(W) ==
  \/ \E c \in GachaCalls :
       \/ \E w \in W : BeginIntent(c, w)
       \/ \E i \in Intents, s \in Signatures : BeginVerify(c, i, s)
       \/ ReadChain(c) \/ ReleaseClaimed(c) \/ CreateIntent(c)
       \/ FetchTransaction(c) \/ WriteVerification(c) \/ PaymentCallEnds(c)
  \/ \E i \in Intents :
       \/ IntentIsLate(i)
       \/ \E s \in Signatures :
            \/ PrepareTransaction(i, s) \/ ClaimSignature(i, s)
            \/ TransferLands(i, s) \/ TransferFinalizes(i, s) \/ BlockhashExpires(i, s)

PaymentInit ==
  /\ payment = [i \in Intents |-> NoPayment]
  /\ transfer = [i \in Intents |-> [s \in Signatures |-> NoTransfer]]
  /\ gcall = [c \in GachaCalls |-> GachaIdle]

PaymentStatuses == {"NONE", "PENDING", "VERIFIED", "CONSUMED", "EXPIRED", "FAILED"}
TransferStates == {"none", "signed", "sent", "landed", "landedError", "final", "finalError"}

PaymentTypeOK ==
  /\ payment \in [Intents -> [status : PaymentStatuses, payer : Payers \cup {0},
                              signature : Signatures \cup {0}, late : BOOLEAN, rip : Nat]]
  /\ transfer \in [Intents -> [Signatures -> [state : TransferStates, fresh : BOOLEAN]]]

(***************************************************************************)
(* Property.                                                               *)
(***************************************************************************)
\* A transaction whose money has moved or may still move.
MayMoveMoney(i, s) ==
  \/ transfer[i][s].state \in {"landed", "final"}
  \/ transfer[i][s].state = "sent" /\ transfer[i][s].fresh

\* The row of an intent says where the money is.  What is verified or spent is final on
\* the chain; an intent that ended without a rip took no money and can take none later;
\* so a wallet never has two transfers to a machine that no rip answers for, whatever its
\* tabs, retries and lost replies do.
GachaPaymentIsAccounted ==
  /\ \A i \in Intents :
       /\ payment[i].status \in {"VERIFIED", "CONSUMED"} => transfer[i][payment[i].signature].state = "final"
       /\ payment[i].status \in {"EXPIRED", "FAILED"} => \A s \in Signatures : ~MayMoveMoney(i, s)
  /\ \A w \in Payers :
       Cardinality({m \in Intents \X Signatures : /\ payment[m[1]].payer = w
                                                  /\ payment[m[1]].status # "CONSUMED"
                                                  /\ MayMoveMoney(m[1], m[2])}) <= 1

(***************************************************************************)
(* The inductive invariant, for CardGameProofs.                            *)
(***************************************************************************)
\* Only the claimed signature of an intent is ever broadcast, and a transaction whose
\* blockhash is forgotten is on the chain for good or will never be on it.
ClaimedAloneMoves == \A i \in Intents, s \in Signatures :
  /\ s # payment[i].signature => transfer[i][s].state \in {"none", "signed"}
  /\ ~transfer[i][s].fresh => transfer[i][s].state \in {"signed", "sent", "final", "finalError"}

NeverLands(t) == t.state = "finalError" \/ (t.state \in {"signed", "sent"} /\ ~t.fresh)

\* What the status of an intent says of its claim.
StatusTellsClaim == \A i \in Intents :
  LET t == transfer[i][payment[i].signature]
  IN  /\ payment[i].status \in {"NONE", "EXPIRED"} => payment[i].signature = 0
      /\ payment[i].status \in {"VERIFIED", "CONSUMED"} =>
           payment[i].signature \in Signatures /\ t.state = "final"
      /\ payment[i].status = "FAILED" => payment[i].signature \in Signatures /\ NeverLands(t)

OneOpenIntent == \A i, j \in Intents :
  Active(i) /\ Active(j) /\ payment[i].payer = payment[j].payer => i = j

\* What a request has read of the chain and the chain never takes back.
KnowsTheTransfer(call) ==
  LET t == transfer[call.intent][call.signature]
  IN  /\ call.pc \in {"statuses", "blockhash", "history", "release", "fetch", "verified", "failed"} =>
           call.intent \in Intents /\ call.signature \in Signatures
      /\ call.pc \in {"history", "release"} => ~t.fresh
      /\ call.pc = "release" => t.state \in {"signed", "sent"}
      /\ call.pc = "verified" => t.state = "final"
      /\ call.pc = "failed" => t.state = "finalError"

PaymentInv == /\ PaymentTypeOK /\ ClaimedAloneMoves /\ StatusTellsClaim /\ OneOpenIntent
              /\ \A c \in GachaCalls : KnowsTheTransfer(gcall[c])
=============================================================================
