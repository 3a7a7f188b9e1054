----------------------------- MODULE PackDeposit -----------------------------
(***************************************************************************)
(* One pack of the devnet provider: openPack and getPack calls for one     *)
(* reference, the deposit lease on its DevnetPackSnapshot row, and the     *)
(* transaction that mints the card and deposits it into the escrow vault.  *)
(*                                                                         *)
(* Every database or RPC round trip is a step.  A call is made once: its   *)
(* lease owner is a fresh UUID, so a retry is another member of Calls.     *)
(***************************************************************************)
EXTENDS Integers, Sequences, FiniteSetsExt

CONSTANTS
  Calls,           \* calls ever made
  NoCall,          \* depositLeaseOwner is null
  WaitAttempts,    \* DEPOSIT_WAIT_ATTEMPTS (120 in the code)
  CheckEvery,      \* a waiting call looks at the chain every so many attempts (4)
  SIGNATURE_LIMIT, \* signatures getSignaturesForAddress is asked for (10)
  MaxTime,         \* bound on the clock
  MaxHistory,      \* bound on the transactions of others that name the mint
  MaxFaults        \* bound on RPC errors, crashes and failing transactions

ASSUME DepositConstants ==
  /\ NoCall \notin Calls
  /\ WaitAttempts \in Nat \ {0} /\ CheckEvery \in 1..WaitAttempts
  /\ SIGNATURE_LIMIT \in Nat \ {0}
  /\ MaxTime \in Nat /\ MaxHistory \in Nat /\ MaxFaults \in Nat

VARIABLES
  snap,      \* the snapshot row: asset recorded, lease owner, lease not expired
  call,      \* call[c]: where a call is and what it will answer
  sent,      \* sent[c]: the transaction call c has sent
  vault,     \* the escrow vault of this side holds the card
  history,   \* block times of the finalized transactions that name the mint, oldest first
  clock, faults,
  lapsed     \* some lease has run out

vars == <<snap, call, sent, vault, history, clock, faults, lapsed>>

Pcs == {"idle", "deposited?", "claim", "chain?", "reread", "vault?", "mint?", "send",
        "confirm", "complete", "record", "release", "answered", "generated", "threw",
        "crashed"}
Ended == {"answered", "generated", "threw", "crashed"}
\* Who asked ensureCardDeposited: the lease holder, a waiting call that saw the
\* card in the vault, or verifyCompletedDeposit.
Vias == {"none", "lease", "wait", "verify"}
\* A call is partial when the listing it read lacked a block time.
IdleCall == [pc |-> "idle", via |-> "none", attempt |-> 0, at |-> -1, partial |-> FALSE]

Goto(c, where) == call' = [call EXCEPT ![c].pc = where]
Ensure(c, via) == call' = [call EXCEPT ![c].pc = "vault?", ![c].via = via]
Fault == faults < MaxFaults /\ faults' = faults + 1
Quiet == UNCHANGED <<sent, vault, history, clock, lapsed>>

(***************************************************************************)
(* openPack, getPack and the wait loop of ensureSnapshotDeposited.         *)
(***************************************************************************)
BeginOpenPack(c) ==
  /\ call[c].pc = "idle"
  /\ IF snap.asset THEN Ensure(c, "verify") ELSE Goto(c, "claim")
  /\ UNCHANGED <<snap, faults>> /\ Quiet

BeginGetPack(c) ==
  /\ call[c].pc = "idle"
  /\ IF snap.asset THEN Ensure(c, "verify") ELSE Goto(c, "deposited?")
  /\ UNCHANGED <<snap, faults>> /\ Quiet

\* getPack of a pack whose card is not in the vault answers "generated".
GetPackChecks(c) ==
  /\ call[c].pc = "deposited?"
  /\ Goto(c, IF vault THEN "claim" ELSE "generated")
  /\ UNCHANGED <<snap, faults>> /\ Quiet

LeaseFree == ~snap.asset /\ (snap.owner = NoCall \/ ~snap.live)

\* Mutant: a waiting call only rereads the row.
ClaimWithoutCheck(c) ==
  /\ call[c].pc = "claim"
  /\ IF LeaseFree
     THEN /\ snap' = [snap EXCEPT !.owner = c, !.live = TRUE]
          /\ Ensure(c, "lease")
     ELSE Goto(c, "reread") /\ UNCHANGED snap
  /\ UNCHANGED faults /\ Quiet

Claim(c) ==
  /\ call[c].pc = "claim"
  /\ IF LeaseFree
     THEN /\ snap' = [snap EXCEPT !.owner = c, !.live = TRUE]
          /\ Ensure(c, "lease")
     ELSE /\ Goto(c, IF call[c].attempt % CheckEvery = CheckEvery - 1 THEN "chain?" ELSE "reread")
          /\ UNCHANGED snap
  /\ UNCHANGED faults /\ Quiet

WaitChecksChain(c) ==
  /\ call[c].pc = "chain?"
  /\ IF vault THEN Ensure(c, "wait") ELSE Goto(c, "reread")
  /\ UNCHANGED <<snap, faults>> /\ Quiet

Reread(c) ==
  /\ call[c].pc = "reread"
  /\ IF snap.asset THEN Ensure(c, "verify")
     ELSE call' = [call EXCEPT ![c].pc = IF call[c].attempt + 1 < WaitAttempts
                                         THEN "claim" ELSE "threw",
                               ![c].attempt = @ + 1]
  /\ UNCHANGED <<snap, faults>> /\ Quiet

(***************************************************************************)
(* ensureCardDeposited.                                                    *)
(***************************************************************************)
\* The newest SIGNATURE_LIMIT transactions, which one listing returns.
Newest == {i \in DOMAIN history : i > Len(history) - SIGNATURE_LIMIT}

\* Mutant: the newest transaction that names the mint.
ResolveLatest(known) == Max({history[i] : i \in known})

\* resolveOpenedAt: the oldest block time that came with the listing, failed
\* transactions included.
ResolveOpenedAt(known) == Min({history[i] : i \in known})

Throw(c) == Goto(c, IF call[c].via = "lease" THEN "release" ELSE "threw")

Hand(c, known) ==
  call' = [call EXCEPT ![c].at = ResolveOpenedAt(known),
                       ![c].partial = @ \/ known # Newest,
                       ![c].pc = CASE call[c].via = "lease" -> "complete"
                                   [] call[c].via = "wait"  -> "record"
                                   [] OTHER                 -> "answered"]

\* A node may return null for a block time; without any, resolveOpenedAt throws
\* (the Throw of ReadVault and Confirm).
Return(c) ==
  \/ Hand(c, Newest) /\ UNCHANGED faults
  \/ Fault /\ \E known \in (SUBSET Newest) \ {{}, Newest} : Hand(c, known)

ReadVault(c) ==
  /\ call[c].pc = "vault?"
  /\ \/ vault /\ Return(c)
     \/ ~vault /\ Goto(c, "mint?") /\ UNCHANGED faults
     \/ Throw(c) /\ Fault
  /\ UNCHANGED snap /\ Quiet

\* Mint and vault are filled by one transaction: a mint that exists now was
\* deposited since the vault was read, and the provider no longer holds it.
ReadMint(c) ==
  /\ call[c].pc = "mint?"
  /\ IF vault THEN Throw(c) ELSE Goto(c, "send")
  /\ UNCHANGED <<snap, faults>> /\ Quiet

\* sendRawTransaction with preflight: a deposit that is already there is refused.
Send(c) ==
  /\ call[c].pc = "send"
  /\ IF vault THEN Throw(c) /\ UNCHANGED sent
     ELSE Goto(c, "confirm") /\ sent' = [sent EXCEPT ![c] = "sent"]
  /\ UNCHANGED <<snap, vault, history, clock, faults, lapsed>>

\* Mutant: confirmation.value.err is not looked at.
ConfirmAny(c) ==
  /\ call[c].pc = "confirm"
  /\ \/ sent[c] \in {"landed", "failed"} /\ Return(c)
     \/ sent[c] = "dropped" /\ Throw(c) /\ UNCHANGED faults
     \/ Throw(c) /\ Fault
  /\ UNCHANGED snap /\ Quiet

\* confirmTransaction: a lost connection throws with the transaction in flight.
Confirm(c) ==
  /\ call[c].pc = "confirm"
  /\ \/ sent[c] = "landed" /\ Return(c)
     \/ sent[c] \in {"failed", "dropped"} /\ Throw(c) /\ UNCHANGED faults
     \/ Throw(c) /\ Fault
  /\ UNCHANGED snap /\ Quiet

(***************************************************************************)
(* What follows the deposit.                                               *)
(***************************************************************************)
\* Only the owner of the lease completes the row; a lost lease is an error.
Complete(c) ==
  /\ call[c].pc = "complete"
  /\ IF snap.owner = c
     THEN /\ snap' = [asset |-> TRUE, owner |-> NoCall, live |-> FALSE]
          /\ Goto(c, "answered")
     ELSE Goto(c, "release") /\ UNCHANGED snap
  /\ UNCHANGED faults /\ Quiet

\* A waiting call records the asset without the lease, if nobody has.
RecordWaited(c) ==
  /\ call[c].pc = "record"
  /\ snap' = [snap EXCEPT !.asset = TRUE]
  /\ Goto(c, "answered")
  /\ UNCHANGED faults /\ Quiet

Release(c) ==
  /\ call[c].pc = "release"
  /\ snap' = IF snap.owner = c THEN [snap EXCEPT !.owner = NoCall, !.live = FALSE] ELSE snap
  /\ Goto(c, "threw")
  /\ UNCHANGED faults /\ Quiet

(***************************************************************************)
(* The cluster, the clock and crashes.                                     *)
(***************************************************************************)
\* The mint account can be created once: a second deposit lands as a failure,
\* and so may a first one.
Land(c) ==
  /\ sent[c] = "sent"
  /\ \/ /\ ~vault /\ vault' = TRUE /\ UNCHANGED faults
        /\ sent' = [sent EXCEPT ![c] = "landed"]
     \/ /\ vault /\ UNCHANGED <<vault, faults>>
        /\ sent' = [sent EXCEPT ![c] = "failed"]
     \/ /\ ~vault /\ Fault /\ UNCHANGED vault
        /\ sent' = [sent EXCEPT ![c] = "failed"]
  /\ history' = Append(history, clock)
  /\ UNCHANGED <<snap, call, clock, lapsed>>

\* A transaction of somebody else that names the mint once it is known: a
\* settlement that failed, or anybody's.
NameMint ==
  /\ history # <<>> /\ Len(history) < MaxHistory
  /\ history' = Append(history, clock)
  /\ UNCHANGED <<snap, call, sent, vault, clock, faults, lapsed>>

Drop(c) ==
  /\ sent[c] = "sent" /\ Fault
  /\ sent' = [sent EXCEPT ![c] = "dropped"]
  /\ UNCHANGED <<snap, call, vault, history, clock, lapsed>>

Crash(c) ==
  /\ call[c].pc \notin Ended \cup {"idle"} /\ Fault
  /\ Goto(c, "crashed")
  /\ UNCHANGED snap /\ Quiet

\* DEPOSIT_LEASE_MS have passed since the claim.
LeaseExpires ==
  /\ snap.owner # NoCall /\ snap.live
  /\ snap' = [snap EXCEPT !.live = FALSE]
  /\ lapsed' = TRUE
  /\ UNCHANGED <<call, sent, vault, history, clock, faults>>

Tick == /\ clock < MaxTime /\ clock' = clock + 1
        /\ UNCHANGED <<snap, call, sent, vault, history, faults, lapsed>>

Init ==
  /\ snap = [asset |-> FALSE, owner |-> NoCall, live |-> FALSE]
  /\ call = [c \in Calls |-> IdleCall]
  /\ sent = [c \in Calls |-> "none"]
  /\ vault = FALSE /\ history = <<>> /\ clock = 0 /\ faults = 0 /\ lapsed = FALSE

CallStep(c) ==
  \/ GetPackChecks(c) \/ Claim(c) \/ WaitChecksChain(c) \/ Reread(c) \/ ReadVault(c)
  \/ ReadMint(c) \/ Send(c) \/ Confirm(c) \/ Complete(c) \/ RecordWaited(c) \/ Release(c)

Next ==
  \/ \E c \in Calls : \/ BeginOpenPack(c) \/ BeginGetPack(c) \/ CallStep(c)
                      \/ Land(c) \/ Drop(c) \/ Crash(c)
  \/ NameMint \/ LeaseExpires \/ Tick

Spec == Init /\ [][Next]_vars

\* A call that has begun runs on, and the cluster decides every transaction.
FairSpec == Spec /\ \A c \in Calls : WF_vars(CallStep(c)) /\ WF_vars(Land(c))

(***************************************************************************)
(* Properties.                                                             *)
(***************************************************************************)
TypeOK ==
  /\ snap \in [asset : BOOLEAN, owner : Calls \cup {NoCall}, live : BOOLEAN]
  /\ call \in [Calls -> [pc : Pcs, via : Vias, attempt : 0..WaitAttempts, at : -1..MaxTime,
                          partial : BOOLEAN]]
  /\ sent \in [Calls -> {"none", "sent", "landed", "failed", "dropped"}]
  /\ vault \in BOOLEAN /\ history \in Seq(0..MaxTime) /\ lapsed \in BOOLEAN
  /\ clock \in 0..MaxTime /\ faults \in 0..MaxFaults

\* The row records an asset only once the card is in the vault, whichever call
\* records it: the lease holder, one that lost its lease, or a waiting one.
SnapshotIsBacked == snap.asset => vault

\* The opening time can still be read: the first transaction is among the newest
\* SIGNATURE_LIMIT, and the listing of this call lacked no block time.
Legible(c) == Len(history) <= SIGNATURE_LIMIT /\ ~call[c].partial

Promise == INSTANCE PackPromise WITH
  Times   <- 0..MaxTime,
  opened  <- IF vault THEN history[1] ELSE -1,
  legible <- [c \in Calls |-> Legible(c)],
  answer  <- [c \in Calls |-> IF call[c].pc = "answered" THEN call[c].at ELSE -1]

\* The leases, retries and duplicate transactions of the devnet provider add up
\* to the pack DuelOpening relies on, whose answers may run late, never early, once
\* more transactions name the mint than one listing returns.
PackPromised == Promise!Spec

(***************************************************************************)
(* The inductive invariant, for PackDepositProofs.                         *)
(***************************************************************************)
\* The wait loop gives up at its last attempt.
WaitsAreCounted == \A c \in Calls : call[c].pc # "threw" => call[c].attempt < WaitAttempts

\* Only a transaction that filled the vault reads as landed, and the chain knows when.
LandingIsSeen == /\ \A c \in Calls : sent[c] = "landed" => vault
                 /\ vault => history # <<>>

\* Block times are past, and a later transaction never has an earlier one.
HistoryIsOrdered == /\ \A i \in DOMAIN history : history[i] <= clock
                    /\ \A i, j \in DOMAIN history : i < j => history[i] <= history[j]

\* A call that has returned from ensureCardDeposited holds the opening time of the
\* pack, or a later one if it could not be read.
ReturnsOpenedAt == \A c \in Calls : call[c].pc \in {"complete", "record", "answered"} =>
                                      /\ vault /\ call[c].at >= history[1]
                                      /\ Legible(c) => call[c].at = history[1]

DepositInv == /\ TypeOK /\ WaitsAreCounted /\ LandingIsSeen /\ HistoryIsOrdered
              /\ ReturnsOpenedAt /\ SnapshotIsBacked

\* A call made once the card is in the vault answers, even behind the lease of a
\* process that died; only a new fault or a lease that ran out may stop it.
LandedPackIsAnswered ==
  \A c \in Calls, f \in 0..MaxFaults :
    (vault /\ call[c].pc \in {"claim", "deposited?"} /\ call[c].attempt = 0 /\ faults = f)
      ~> (call[c].pc = "answered" \/ lapsed \/ faults > f)
=============================================================================
