------------------------------- MODULE GachaRip -------------------------------
(***************************************************************************)
(* A rip of the sports-pack gacha: the machine's odds fix its snapshot,    *)
(* one transaction spends a verified payment and a seed on one selected    *)
(* card, and a leased lifecycle then acquires and settles that card with   *)
(* the provider (gacha/gacha-rip.service.ts, the snapshot service and the  *)
(* provider interface).                                                    *)
(*                                                                         *)
(* The digest that selects a card is any value: which card a digest names  *)
(* is in GachaOdds.  Rips, seeds and snapshots are of one machine.         *)
(***************************************************************************)
EXTENDS GachaPayment, Sequences

CONSTANTS
  Rips,          \* rip rows, in the order they are created
  Seeds,         \* seed commitments
  Snapshots,     \* the contents the provider's pool can be sealed with
  Cards,         \* eligible cards of a snapshot
  RipKeys        \* idempotency keys, 0 when a request has none

ASSUME GachaRipConstants == Rips \subseteq Nat \ {0} /\ 0 \in RipKeys /\ 0 \notin Cards

VARIABLES
  rip,        \* rip[r]: the GachaRip row
  seed,       \* seed[s]: the GachaRipSeedCommitment row
  sealed,     \* snapshots sealed so far, newest last (GachaInventorySnapshot)
  odds,       \* the snapshot of the machine's odds commitments, 0 before there is one
  handed      \* handed[r]: what the provider did with the card of rip r (external)

ripVars == <<rip, seed, sealed, odds, handed>>

NoRip == [status |-> "NONE", payer |-> 0, card |-> 0, key |-> 0, seed |-> 0, payment |-> 0,
          snapshot |-> 0, owner |-> 0, stale |-> FALSE]
NoSeed == [status |-> "NONE", snapshot |-> 0, late |-> FALSE]
NotHanded == [state |-> "no", card |-> 0]

INCOMPLETE_RIP_STATUSES == {"SELECTED", "REVEALED", "ACQUIRED"}

(***************************************************************************)
(* ensureMachineReadiness and createSeedCommitment.                        *)
(***************************************************************************)
\* ensureFixtureSnapshot: the latest sealed snapshot, or a new one of the pool as it is
\* read now; two processes may seal two.
BeginReadiness(c) ==
  /\ gcall[c].pc = "idle" /\ odds = 0
  /\ \E content \in Snapshots :
       gcall' = [gcall EXCEPT ![c] =
         IF sealed = <<>> THEN [GachaIdle EXCEPT !.pc = "seal", !.snapshot = content]
         ELSE [GachaIdle EXCEPT !.pc = "odds", !.snapshot = sealed[Len(sealed)]]]
  /\ UNCHANGED <<payment, transfer, ripVars>>

\* createFixtureSnapshot keeps one row for a content; findLatestSealed follows.
CreateFixtureSnapshot(c) ==
  /\ gcall[c].pc = "seal"
  /\ sealed' = IF \E j \in DOMAIN sealed : sealed[j] = gcall[c].snapshot THEN sealed
               ELSE Append(sealed, gcall[c].snapshot)
  /\ gcall' = [gcall EXCEPT ![c].pc = "odds", ![c].snapshot = sealed'[Len(sealed')]]
  /\ UNCHANGED <<payment, transfer, rip, seed, odds, handed>>

\* Under the lock of the odds the first commitment names the snapshot for everyone.
OddsWinner(candidate) == IF odds # 0 THEN odds ELSE candidate

CommitOdds(c) ==
  /\ gcall[c].pc = "odds"
  /\ odds' = OddsWinner(gcall[c].snapshot)
  /\ EndGachaCall(c)
  /\ UNCHANGED <<payment, transfer, rip, seed, sealed, handed>>

CreateSeedCommitment(s) ==
  /\ seed[s].status = "NONE" /\ odds # 0
  /\ seed' = [seed EXCEPT ![s] = [NoSeed EXCEPT !.status = "OPEN", !.snapshot = odds]]
  /\ UNCHANGED <<payVars, rip, sealed, odds, handed>>

\* GACHA_SEED_COMMITMENT_TTL_MS have passed.
SeedIsLate(s) ==
  /\ seed[s].status = "OPEN" /\ ~seed[s].late
  /\ seed' = [seed EXCEPT ![s].late = TRUE]
  /\ UNCHANGED <<payVars, rip, sealed, odds, handed>>

(***************************************************************************)
(* createFixtureRip.                                                       *)
(***************************************************************************)
\* consumeVerifiedPayment finds a verified payment of that wallet.
PaymentIsVerified(i, w) == payment[i].status = "VERIFIED" /\ payment[i].payer = w

\* excludedAssetReferences: cards of the snapshot's rips that did not fail.
ExcludedCards == {rip[r].card : r \in {x \in Rips : rip[x].status \notin {"NONE", "FAILED"}
                                                  /\ rip[x].snapshot = odds}}

\* findConsumedRip, then the idempotency key.
ReplayedRip(i, w, k) ==
  IF payment[i].rip # 0 THEN {payment[i].rip}
  ELSE {r \in Rips : k # 0 /\ rip[r].status # "NONE" /\ rip[r].key = k}

\* A request whose wallet is not the one of the row is refused; a created or an existing
\* rip goes on to its lifecycle.
CreateFixtureRip(c, i, w, s, k) ==
  LET free == {r \in Rips : rip[r].status = "NONE"} IN
  /\ gcall[c].pc = "idle" /\ odds # 0
  /\ \/ \E r \in ReplayedRip(i, w, k) :
          /\ rip[r].payer = w
          /\ gcall' = [gcall EXCEPT ![c] = [GachaIdle EXCEPT !.pc = "lease", !.rip = r]]
          /\ UNCHANGED <<payment, rip, seed>>
     \/ /\ ReplayedRip(i, w, k) = {}
        /\ seed[s].status = "OPEN" /\ ~seed[s].late /\ seed[s].snapshot = odds
        /\ PaymentIsVerified(i, w)
        /\ \E card \in Cards \ ExcludedCards, r \in free :
             /\ \A x \in free : r <= x
             /\ rip' = [rip EXCEPT ![r] = [NoRip EXCEPT !.status = "SELECTED", !.payer = w, !.card = card,
                          !.key = k, !.seed = s, !.payment = i, !.snapshot = odds]]
             /\ payment' = [payment EXCEPT ![i].status = "CONSUMED", ![i].rip = r]
             /\ seed' = [seed EXCEPT ![s].status = "CONSUMED"]
             /\ gcall' = [gcall EXCEPT ![c] = [GachaIdle EXCEPT !.pc = "lease", !.rip = r]]
  /\ UNCHANGED <<transfer, sealed, odds, handed>>

(***************************************************************************)
(* resumeRipLifecycle.                                                     *)
(***************************************************************************)
RipOf(c) == rip[gcall[c].rip]
Owns(c) == RipOf(c).owner = c
SetRip(c, row) == rip' = [rip EXCEPT ![gcall[c].rip] = row]

ClaimRipLease(c) ==
  /\ gcall[c].pc = "lease"
  /\ IF RipOf(c).status \in INCOMPLETE_RIP_STATUSES /\ (RipOf(c).owner = 0 \/ RipOf(c).stale)
     THEN SetRip(c, [RipOf(c) EXCEPT !.owner = c, !.stale = FALSE]) /\ GotoGacha(c, "read")
     ELSE EndGachaCall(c) /\ UNCHANGED rip
  /\ UNCHANGED <<payment, transfer, seed, sealed, odds, handed>>

\* requireRip, and the step that the status asks for.
ReadRip(c) ==
  /\ gcall[c].pc = "read"
  /\ GotoGacha(c, CASE RipOf(c).status = "SELECTED" -> "reveal"
               [] RipOf(c).status = "REVEALED" -> "acquire"
               [] RipOf(c).status = "ACQUIRED" -> "settle"
               [] OTHER -> "end")
  /\ UNCHANGED <<payment, transfer, ripVars>>

\* advanceLeasedRip: the lease is renewed with the step, or given back with the last one.
AdvanceLeasedRip(c, from, to, next) ==
  IF Owns(c) /\ RipOf(c).status = from
  THEN /\ SetRip(c, [RipOf(c) EXCEPT !.status = to, !.stale = FALSE, !.owner = IF to = "SETTLED" THEN 0 ELSE c])
       /\ GotoGacha(c, next)
  ELSE UNCHANGED rip /\ GotoGacha(c, "unlease")

Reveal(c) ==
  /\ gcall[c].pc = "reveal"
  /\ AdvanceLeasedRip(c, "SELECTED", "REVEALED", "read")
  /\ UNCHANGED <<payment, transfer, seed, sealed, odds, handed>>

\* Mutant: an answer that was not heard counts as a refusal.
EveryErrorIsDefinite == "fail"

\* Any error but GachaCardDefinitelyNotAcquiredError keeps the card and the status.
AfterProviderError == "unlease"

\* provider.acquireCard: it hands the card over once for a rip, refuses the rip for good,
\* or is not heard and may still hand it over.
AcquireCard(c) ==
  LET r == gcall[c].rip
      Did(state, pc) == /\ handed' = [handed EXCEPT ![r] = [state |-> state, card |-> RipOf(c).card]]
                        /\ GotoGacha(c, pc) IN
  /\ gcall[c].pc = "acquire"
  /\ \/ handed[r].state # "refused" /\ Did("yes", "acquired")
     \/ handed[r].state # "yes" /\ Did("refused", "fail")
     \/ handed[r].state \in {"no", "sent"} /\ Did("sent", AfterProviderError)
     \/ handed[r].state = "yes" /\ Did("yes", AfterProviderError)
  /\ UNCHANGED <<payment, transfer, rip, seed, sealed, odds>>

ProviderHandsOver(r) ==
  /\ handed[r].state = "sent"
  /\ handed' = [handed EXCEPT ![r].state = "yes"]
  /\ UNCHANGED <<payVars, rip, seed, sealed, odds>>

CardAcquired(c) ==
  /\ gcall[c].pc = "acquired"
  /\ AdvanceLeasedRip(c, "REVEALED", "ACQUIRED", "read")
  /\ UNCHANGED <<payment, transfer, seed, sealed, odds, handed>>

\* failLeasedRip: the card goes back to the pool, the payment stays spent.
FailLeasedRip(c) ==
  /\ gcall[c].pc = "fail"
  /\ IF Owns(c) /\ RipOf(c).status \in INCOMPLETE_RIP_STATUSES
     THEN SetRip(c, [RipOf(c) EXCEPT !.status = "FAILED", !.owner = 0, !.stale = FALSE, !.card = 0])
     ELSE UNCHANGED rip
  /\ GotoGacha(c, "unlease")
  /\ UNCHANGED <<payment, transfer, seed, sealed, odds, handed>>

\* provider.settleRip answers by rip, or fails.
Settle(c) ==
  /\ gcall[c].pc = "settle"
  /\ \/ AdvanceLeasedRip(c, "ACQUIRED", "SETTLED", "end")
     \/ UNCHANGED rip /\ GotoGacha(c, "unlease")
  /\ UNCHANGED <<payment, transfer, seed, sealed, odds, handed>>

\* releaseLifecycleLease
ReleaseRipLease(c) ==
  /\ gcall[c].pc = "unlease"
  /\ IF Owns(c) /\ RipOf(c).status \in INCOMPLETE_RIP_STATUSES
     THEN SetRip(c, [RipOf(c) EXCEPT !.owner = 0, !.stale = FALSE])
     ELSE UNCHANGED rip
  /\ EndGachaCall(c)
  /\ UNCHANGED <<payment, transfer, seed, sealed, odds, handed>>

RipCallEnds(c) ==
  /\ gcall[c].pc \in {"seal", "odds", "lease", "read", "reveal", "acquire", "acquired", "fail", "settle", "unlease", "end"}
  /\ EndGachaCall(c)
  /\ UNCHANGED <<payment, transfer, ripVars>>

\* GACHA_RIP_LIFECYCLE_LEASE_MS have passed since the lease was last renewed.
RipLeaseExpires(r) ==
  /\ rip[r].owner # 0 /\ ~rip[r].stale
  /\ rip' = [rip EXCEPT ![r].stale = TRUE]
  /\ UNCHANGED <<payVars, seed, sealed, odds, handed>>

\* revealSeedCommitment: whose server seed a reader is given.
SeedRevealed(s) == \E r \in Rips : rip[r].seed = s /\ rip[r].status \in {"SETTLED", "FAILED"}

RipStep ==
  \/ \E c \in GachaCalls :
       \/ BeginReadiness(c) \/ CreateFixtureSnapshot(c) \/ CommitOdds(c)
       \/ \E i \in Intents, w \in Payers, s \in Seeds, k \in RipKeys : CreateFixtureRip(c, i, w, s, k)
       \/ ClaimRipLease(c) \/ ReadRip(c) \/ Reveal(c) \/ AcquireCard(c) \/ CardAcquired(c)
       \/ FailLeasedRip(c) \/ Settle(c) \/ ReleaseRipLease(c) \/ RipCallEnds(c)
  \/ \E s \in Seeds : CreateSeedCommitment(s) \/ SeedIsLate(s)
  \/ \E r \in Rips : ProviderHandsOver(r) \/ RipLeaseExpires(r)

RipInit ==
  /\ rip = [r \in Rips |-> NoRip]
  /\ seed = [s \in Seeds |-> NoSeed]
  /\ sealed = <<>> /\ odds = 0
  /\ handed = [r \in Rips |-> NotHanded]

\* The payment intents and the rips of one machine together.
GachaVars == <<payVars, ripVars>>
GachaSpec ==
  /\ PaymentInit /\ RipInit
  /\ [][(PaymentStep(Payers) /\ UNCHANGED ripVars) \/ RipStep]_GachaVars

GachaPcs == {"idle", "statuses", "blockhash", "history", "release", "create", "fetch", "verified", "failed",
             "seal", "odds", "lease", "read", "reveal", "acquire", "acquired", "fail", "settle", "unlease", "end"}

RipTypeOK ==
  /\ gcall \in [GachaCalls -> [pc : GachaPcs, payer : Payers \cup {0}, intent : Intents \cup {0},
                               signature : Signatures \cup {0}, rip : Rips \cup {0},
                               snapshot : Snapshots \cup {0}]]
  /\ rip \in [Rips -> [status : INCOMPLETE_RIP_STATUSES \cup {"NONE", "SETTLED", "FAILED"},
                       payer : Payers \cup {0}, card : Cards \cup {0}, key : RipKeys,
                       seed : Seeds \cup {0}, payment : Intents \cup {0},
                       snapshot : Snapshots \cup {0}, owner : GachaCalls \cup {0}, stale : BOOLEAN]]
  /\ seed \in [Seeds -> [status : {"NONE", "OPEN", "CONSUMED"}, snapshot : Snapshots \cup {0},
                         late : BOOLEAN]]
  /\ handed \in [Rips -> [state : {"no", "sent", "yes", "refused"}, card : Cards \cup {0}]]
  /\ odds \in Snapshots \cup {0} /\ sealed \in Seq(Snapshots)

(***************************************************************************)
(* Property.                                                               *)
(***************************************************************************)
RipsOf(P(_)) == {r \in Rips : rip[r].status # "NONE" /\ P(r)}

\* Every spent payment and every consumed seed has exactly one rip, the rips and seeds
\* of the machine are of the one committed snapshot, and a card is handed to one rip at
\* most: never to a rip that ended FAILED, always to one that is ACQUIRED or SETTLED, so
\* a card that went back to the pool is really there.
GachaCardIsAccounted ==
  /\ \A i \in Intents :
       Cardinality(RipsOf(LAMBDA r : rip[r].payment = i)) = IF payment[i].status = "CONSUMED" THEN 1 ELSE 0
  /\ \A s \in Seeds :
       /\ Cardinality(RipsOf(LAMBDA r : rip[r].seed = s)) = IF seed[s].status = "CONSUMED" THEN 1 ELSE 0
       /\ seed[s].status # "NONE" => seed[s].snapshot = odds
       /\ SeedRevealed(s) => seed[s].status = "CONSUMED"
  /\ \A r \in Rips :
       /\ rip[r].status # "NONE" => rip[r].snapshot = odds
       /\ rip[r].status \in {"ACQUIRED", "SETTLED"} => handed[r].state = "yes" /\ handed[r].card = rip[r].card
       /\ rip[r].status = "FAILED" => handed[r].state # "yes"
       /\ \A q \in Rips \ {r} : handed[r].state = "yes" /\ handed[q].state = "yes" => handed[r].card # handed[q].card

(***************************************************************************)
(* The inductive invariant, for CardGameProofs.                            *)
(***************************************************************************)
Made(r) == rip[r].status # "NONE"

\* A rip and the payment it spent name each other; a rip and the seed it consumed too; rips
\* that may hold a card hold different ones.
RipsAndSpending ==
  /\ \A i \in Intents : payment[i].rip # 0 => payment[i].status = "CONSUMED"
  /\ \A i \in Intents : payment[i].status = "CONSUMED" =>
       /\ payment[i].rip \in Rips /\ Made(payment[i].rip)
       /\ rip[payment[i].rip].payment = i
  /\ \A s \in Seeds :
       /\ seed[s].status = "CONSUMED" => \E r \in Rips : Made(r) /\ rip[r].seed = s
       /\ seed[s].status # "NONE" => odds # 0 /\ seed[s].snapshot = odds
  /\ \A r \in Rips : Made(r) =>
       /\ rip[r].payment \in Intents /\ payment[rip[r].payment].status = "CONSUMED"
       /\ payment[rip[r].payment].rip = r
       /\ rip[r].seed \in Seeds /\ seed[rip[r].seed].status = "CONSUMED"
       /\ odds # 0 /\ rip[r].snapshot = odds
  /\ \A r, q \in Rips : r # q /\ Made(r) /\ Made(q) =>
       /\ rip[r].seed # rip[q].seed
       /\ "FAILED" \notin {rip[r].status, rip[q].status} => rip[r].card # rip[q].card

\* The provider hands over the card of a revealed rip; a failed rip was refused for good.
HandedFollowsRip == \A r \in Rips :
  /\ handed[r].state = "sent" => rip[r].status = "REVEALED"
  /\ handed[r].state = "yes" => rip[r].status \in {"REVEALED", "ACQUIRED", "SETTLED"}
  /\ handed[r].state \in {"sent", "yes"} => handed[r].card = rip[r].card
  /\ rip[r].status \in {"ACQUIRED", "SETTLED"} => handed[r].state = "yes"
  /\ rip[r].status = "FAILED" => handed[r].state = "refused"

\* What a request knows of its rip without holding its lease.
KnowsTheRip(call) ==
  LET row == rip[call.rip]
  IN  /\ call.pc \in {"lease", "read", "reveal", "acquire", "acquired", "fail", "settle", "unlease"} =>
           call.rip \in Rips /\ Made(call.rip)
      /\ call.pc = "acquire" => row.status # "SELECTED"
      /\ call.pc = "acquired" => handed[call.rip].state = "yes"
      /\ call.pc = "fail" => handed[call.rip].state = "refused"
      /\ call.pc \in {"seal", "odds"} => call.snapshot \in Snapshots

RipInv == /\ RipTypeOK /\ RipsAndSpending /\ HandedFollowsRip
          /\ \A c \in GachaCalls : KnowsTheRip(gcall[c])

GachaInv == PaymentInv /\ RipInv
=============================================================================
