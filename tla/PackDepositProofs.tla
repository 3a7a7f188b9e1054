-------------------------- MODULE PackDepositProofs --------------------------
(***************************************************************************)
(* Machine-checked proofs about PackDeposit, for any number of calls, any  *)
(* wait loop and any bounds on time and faults: the row is never ahead of  *)
(* the vault, and the provider keeps the promise DuelOpening relies on.    *)
(***************************************************************************)
EXTENDS PackDeposit, Totals, SequenceTheorems

\* The types of a call and of the snapshot row.
CallType == [pc : Pcs, via : Vias, attempt : 0..WaitAttempts, at : -1..MaxTime,
             partial : BOOLEAN]
SnapType == [asset : BOOLEAN, owner : Calls \cup {NoCall}, live : BOOLEAN]

\* The type invariant in terms of these types.
LEMMA Types ==
  TypeOK <=>
  /\ snap \in SnapType
  /\ call \in [Calls -> CallType]
  /\ sent \in [Calls -> {"none", "sent", "landed", "failed", "dropped"}]
  /\ vault \in BOOLEAN /\ history \in Seq(0..MaxTime) /\ lapsed \in BOOLEAN
  /\ clock \in 0..MaxTime /\ faults \in 0..MaxFaults
  BY DEF TypeOK, SnapType, CallType

\* Min of the community modules is the least element of a set that has one.
LEMMA LeastIsMin ==
  ASSUME NEW S \in SUBSET Int, NEW m \in S, \A t \in S : m <= t
  PROVE  Min(S) = m
<1>1. \A x \in S : (\A t \in S : x <= t) => x = m
  OBVIOUS
<1> QED
  BY <1>1 DEF Min

\* A set of numbers below a bound that is not empty has a least element.
LEMMA LeastExists ==
  ASSUME NEW n \in Nat, NEW S \in SUBSET (1..n), S # {}
  PROVE  \E i \in S : \A j \in S : i <= j
<1> DEFINE T == {1..i : i \in S}
<1>1. IsFiniteSet(1..n)
  BY Numbered
<1>2. T \subseteq SUBSET (1..n) /\ T # {}
  <2>1. \A i \in S : 1..i \in SUBSET (1..n)
    OBVIOUS
  <2>2. PICK i : i \in S
    OBVIOUS
  <2>3. 1..i \in T
    BY <2>2
  <2> QED
    BY <2>1, <2>3
<1> HIDE DEF T
<1>3. PICK x \in T : \A y \in SUBSET x : y # x => y \notin T
  BY <1>1, <1>2, Smallest
<1>4. PICK i \in S : x = 1..i
  BY <1>3 DEF T
<1>5. ASSUME NEW j \in S, j < i
      PROVE  FALSE
  <2>1. 1..j \in SUBSET x /\ i \in x /\ i \notin 1..j
    BY <1>4, <1>5
  <2>2. 1..j \in T
    BY DEF T
  <2> QED
    BY <1>3, <2>1, <2>2
<1> QED
  BY <1>5

\* A call that returned holds the opening time, or a later one if it could not be read.
Honest(y) == /\ y.at >= history[1]
             /\ Len(history) <= SIGNATURE_LIMIT /\ ~y.partial => y.at = history[1]

\* What the type of the history says of its members.
LEMMA HistoryTyped ==
  ASSUME TypeOK
  PROVE  /\ history \in Seq(0..MaxTime) /\ Len(history) \in Nat
         /\ DOMAIN history = 1..Len(history)
         /\ \A i \in DOMAIN history : history[i] \in 0..MaxTime
         /\ clock \in 0..MaxTime /\ vault \in BOOLEAN
         /\ history # <<>> => 1 \in DOMAIN history
<1>1. history \in Seq(0..MaxTime) /\ clock \in 0..MaxTime /\ vault \in BOOLEAN
  BY DEF TypeOK
<1>2. /\ Len(history) \in Nat /\ DOMAIN history = 1..Len(history)
      /\ \A i \in 1..Len(history) : history[i] \in 0..MaxTime
  BY <1>1, LenProperties, ElementOfSeq
<1>3. history # <<>> => 1 \in 1..Len(history)
  BY <1>1
<1> QED
  BY <1>1, <1>2, <1>3

\* The oldest block time of some transactions is one of the mint's, not before the first.
LEMMA OldestKnown ==
  ASSUME TypeOK, HistoryIsOrdered, NEW known \in SUBSET DOMAIN history, known # {}
  PROVE  /\ ResolveOpenedAt(known) \in 0..MaxTime
         /\ ResolveOpenedAt(known) >= history[1]
         /\ 1 \in known => ResolveOpenedAt(known) = history[1]
<1>1. /\ history \in Seq(0..MaxTime) /\ Len(history) \in Nat
      /\ DOMAIN history = 1..Len(history)
      /\ \A i \in DOMAIN history : history[i] \in 0..MaxTime
  BY HistoryTyped
<1>2. PICK k \in known : \A j \in known : k <= j
  BY <1>1, LeastExists
<1> DEFINE S == {history[i] : i \in known}
<1>3. S \in SUBSET Int /\ history[k] \in S /\ \A t \in S : history[k] <= t
  <2>1. \A i \in known : history[k] <= history[i]
    BY <1>1, <1>2 DEF HistoryIsOrdered
  <2> QED
    BY <1>1, <2>1
<1>4. ResolveOpenedAt(known) = history[k]
  <2>1. Min(S) = history[k]
    BY <1>3, LeastIsMin
  <2> QED
    BY <2>1 DEF ResolveOpenedAt
<1>5. 1 \in DOMAIN history /\ 1 <= k /\ history[1] <= history[k]
  BY <1>1, <1>2 DEF HistoryIsOrdered
<1>6. 1 \in known => k = 1
  BY <1>1, <1>2
<1> QED
  BY <1>1, <1>4, <1>5, <1>6

\* A transaction that lands is the newest, and leaves the first one alone.
LEMMA HistoryGrows ==
  ASSUME TypeOK, HistoryIsOrdered, history' = Append(history, clock), UNCHANGED clock
  PROVE  /\ history' \in Seq(0..MaxTime) /\ Len(history') = Len(history) + 1
         /\ Len(history) \in Nat /\ history' # <<>> /\ history'[1] \in 0..MaxTime
         /\ history # <<>> => history'[1] = history[1]
         /\ HistoryIsOrdered'
<1>1. history \in Seq(0..MaxTime) /\ clock \in 0..MaxTime
  BY DEF TypeOK
<1> DEFINE n == Len(history)
<1>2. /\ n \in Nat /\ DOMAIN history = 1..n /\ history' \in Seq(0..MaxTime)
      /\ Len(history') = n + 1 /\ history' # <<>> /\ DOMAIN history' = 1..(n + 1)
      /\ \A i \in 1..n : history'[i] = history[i]
      /\ history'[n + 1] = clock
  BY <1>1, AppendProperties
<1>3. \A i \in DOMAIN history' : i \in 1..n \/ i = n + 1
  BY <1>2
<1>4. \A i \in 1..n : history[i] <= clock /\ history[i] \in 0..MaxTime
  BY <1>2, HistoryTyped DEF HistoryIsOrdered
<1>5. \A i \in DOMAIN history' : history'[i] <= clock' /\ history'[i] \in 0..MaxTime
  BY <1>1, <1>2, <1>3, <1>4
<1>6. \A i, j \in DOMAIN history' : i < j => history'[i] <= history'[j]
  <2>1. \A i, j \in 1..n : i < j => history[i] <= history[j]
    BY <1>2 DEF HistoryIsOrdered
  <2>2. \A i, j \in 1..n : i < j => history'[i] <= history'[j]
    BY <1>2, <2>1
  <2>3. \A i \in 1..n : history'[i] <= history'[n + 1]
    BY <1>2, <1>4
  <2>4. \A i, j \in DOMAIN history' : i < j => i \in 1..n
    BY <1>2
  <2> QED
    BY <1>3, <2>2, <2>3, <2>4
<1>7. HistoryIsOrdered'
  BY <1>5, <1>6 DEF HistoryIsOrdered
<1>8. history # <<>> => 1 \in 1..n
  BY <1>1, <1>2
<1>9. 1 \in DOMAIN history'
  BY <1>2
<1> QED
  BY <1>2, <1>5, <1>7, <1>8, <1>9

\* What a call becomes when only its place changes.
LEMMA Moved ==
  \A y \in CallType, w \in Pcs :
    /\ [y EXCEPT !.pc = w] \in CallType
    /\ [y EXCEPT !.pc = w].pc = w
    /\ [y EXCEPT !.pc = w].attempt = y.attempt /\ [y EXCEPT !.pc = w].at = y.at
    /\ [y EXCEPT !.pc = w].partial = y.partial
  BY DEF CallType

\* Every step of a call replaces the call, and perhaps the row or what it has sent.
LEMMA CallMoves ==
  ASSUME DepositInv, UNCHANGED <<vault, history, clock, lapsed>>,
         faults' \in 0..MaxFaults,
         snap' \in SnapType, snap'.asset => vault,
         sent' \in [Calls -> {"none", "sent", "landed", "failed", "dropped"}],
         \A z \in Calls : sent'[z] = "landed" => sent[z] = "landed",
         NEW c \in Calls, NEW y \in CallType, call' = [call EXCEPT ![c] = y],
         y.pc # "threw" => y.attempt < WaitAttempts,
         y.pc \in {"complete", "record", "answered"} => vault /\ Honest(y)
  PROVE  DepositInv'
<1>1. /\ call' \in [Calls -> CallType] /\ call'[c] = y
      /\ \A z \in Calls : z # c => call'[z] = call[z]
  BY Types DEF DepositInv
<1>2. TypeOK'
  BY <1>1, Types DEF DepositInv, TypeOK, CallType, SnapType
<1>3. WaitsAreCounted'
  BY <1>1 DEF DepositInv, WaitsAreCounted
<1>4. LandingIsSeen' /\ HistoryIsOrdered' /\ SnapshotIsBacked'
  BY DEF DepositInv, LandingIsSeen, HistoryIsOrdered, SnapshotIsBacked
<1>5. ReturnsOpenedAt'
  BY <1>1 DEF DepositInv, ReturnsOpenedAt, Legible, Honest
<1> QED
  BY <1>2, <1>3, <1>4, <1>5 DEF DepositInv

\* The same for a step that only moves the place of a call that has not thrown.
LEMMA PlaceMoves ==
  ASSUME DepositInv, UNCHANGED <<vault, history, clock, lapsed>>,
         Fault \/ UNCHANGED faults,
         snap' \in SnapType, snap'.asset => vault,
         sent' \in [Calls -> {"none", "sent", "landed", "failed", "dropped"}],
         \A z \in Calls : sent'[z] = "landed" => sent[z] = "landed",
         NEW c \in Calls, NEW w \in Pcs, Goto(c, w),
         call[c].pc # "threw",
         w \in {"complete", "record", "answered"} =>
           call[c].pc \in {"complete", "record", "answered"}
  PROVE  DepositInv'
<1>1. call[c] \in CallType /\ faults' \in 0..MaxFaults
  BY DepositConstants, Types DEF DepositInv, Fault
<1>2. call' = [call EXCEPT ![c] = [call[c] EXCEPT !.pc = w]]
  BY DEF Goto
<1>3. PICK y \in CallType : /\ y.pc = w /\ y.attempt = call[c].attempt /\ y.at = call[c].at
                            /\ y.partial = call[c].partial /\ call' = [call EXCEPT ![c] = y]
  BY <1>1, <1>2, Moved
<1>4. /\ y.pc # "threw" => y.attempt < WaitAttempts
      /\ y.pc \in {"complete", "record", "answered"} => vault /\ Honest(y)
  BY <1>3 DEF DepositInv, WaitsAreCounted, ReturnsOpenedAt, Legible, Honest
<1> QED
  BY <1>1, <1>3, <1>4, CallMoves

\* No call has begun.
LEMMA InitInv == Init => DepositInv
<1> SUFFICES ASSUME Init PROVE DepositInv
  OBVIOUS
<1>1. TypeOK
  <2>1. IdleCall \in CallType
    BY DepositConstants DEF IdleCall, CallType, Pcs, Vias
  <2>2. snap \in SnapType /\ call \in [Calls -> CallType]
    BY <2>1 DEF Init, SnapType
  <2>3. faults \in 0..MaxFaults /\ clock \in 0..MaxTime
    BY DepositConstants DEF Init
  <2>4. history \in Seq(0..MaxTime)
    BY DEF Init
  <2>5. /\ sent \in [Calls -> {"none", "sent", "landed", "failed", "dropped"}]
        /\ vault \in BOOLEAN /\ lapsed \in BOOLEAN
    BY DEF Init
  <2> QED
    BY <2>2, <2>3, <2>4, <2>5, Types
<1>2. WaitsAreCounted /\ LandingIsSeen /\ HistoryIsOrdered /\ ReturnsOpenedAt /\ SnapshotIsBacked
  BY DepositConstants DEF Init, WaitsAreCounted, LandingIsSeen, HistoryIsOrdered,
     ReturnsOpenedAt, SnapshotIsBacked, IdleCall
<1> QED
  BY <1>1, <1>2 DEF DepositInv

-----------------------------------------------------------------------------
(***************************************************************************)
(* The steps of a call.                                                    *)
(***************************************************************************)
\* What every step of a call starts from.
LEMMA Before ==
  ASSUME DepositInv
  PROVE  /\ snap \in SnapType
         /\ snap.asset => vault
         /\ sent \in [Calls -> {"none", "sent", "landed", "failed", "dropped"}]
         /\ \A c \in Calls : call[c] \in CallType
  BY Types DEF DepositInv, SnapshotIsBacked, SnapType

\* A call that enters ensureCardDeposited.
LEMMA EnsureStep ==
  ASSUME DepositInv, NEW c \in Calls, NEW via \in Vias, Ensure(c, via), Quiet,
         UNCHANGED faults, snap' \in SnapType, snap'.asset => vault,
         call[c].pc # "threw"
  PROVE  DepositInv'
<1>1. \A y \in CallType :
        /\ [y EXCEPT !.pc = "vault?", !.via = via] \in CallType
        /\ [y EXCEPT !.pc = "vault?", !.via = via].pc = "vault?"
        /\ [y EXCEPT !.pc = "vault?", !.via = via].attempt = y.attempt
  BY DEF CallType, Pcs
<1>2. call' = [call EXCEPT ![c] = [call[c] EXCEPT !.pc = "vault?", !.via = via]]
  BY DEF Ensure
<1>3. PICK y \in CallType : /\ y.pc = "vault?" /\ y.attempt = call[c].attempt
                            /\ call' = [call EXCEPT ![c] = y]
  BY <1>1, <1>2, Before
<1>4. y.attempt < WaitAttempts
  BY <1>3 DEF DepositInv, WaitsAreCounted
<1>5. faults' \in 0..MaxFaults
  BY Types DEF DepositInv
<1> QED
  BY <1>3, <1>4, <1>5, CallMoves, Before DEF Quiet

\* Hand gives a time of the pack that is in the vault to the caller.
LEMMA HandStep ==
  ASSUME DepositInv, NEW c \in Calls, NEW known \in SUBSET Newest, known # {},
         Hand(c, known), Quiet, Fault \/ UNCHANGED faults, UNCHANGED snap,
         call[c].pc # "threw", vault
  PROVE  DepositInv'
<1> DEFINE w == CASE call[c].via = "lease" -> "complete" [] call[c].via = "wait" -> "record"
                  [] OTHER -> "answered"
           at == ResolveOpenedAt(known)
           partial == call[c].partial \/ known # Newest
<1>1. known \in SUBSET DOMAIN history
  BY DEF Newest
<1>2. /\ at \in 0..MaxTime /\ at >= history[1]
      /\ 1 \in known => at = history[1]
  BY <1>1, OldestKnown DEF DepositInv
<1>3. Len(history) <= SIGNATURE_LIMIT /\ ~partial => 1 \in known
  <2>1. history \in Seq(0..MaxTime) /\ history # <<>>
    BY Types DEF DepositInv, LandingIsSeen
  <2>2. 1 \in DOMAIN history /\ Len(history) \in Nat
    BY <2>1
  <2> QED
    BY <2>2, DepositConstants DEF Newest
<1>4. w \in Pcs /\ w # "threw"
  BY DEF Pcs
<1> DEFINE y == [call[c] EXCEPT !.at = at, !.partial = partial, !.pc = w]
<1>5. call' = [call EXCEPT ![c] = y]
  BY DEF Hand
<1>6. at \in -1..MaxTime /\ partial \in BOOLEAN
  BY <1>2, Before, DepositConstants DEF CallType
<1> HIDE DEF w, at, partial
<1>7. /\ y \in CallType /\ y.attempt = call[c].attempt /\ y.at = at
      /\ y.partial = partial
  BY <1>4, <1>6, Before DEF CallType
<1> HIDE DEF y
<1>8. y.attempt < WaitAttempts /\ Honest(y)
  BY <1>2, <1>3, <1>7 DEF DepositInv, WaitsAreCounted, Honest
<1>9. faults' \in 0..MaxFaults
  BY DepositConstants, Types DEF DepositInv, Fault
<1> QED
  BY <1>5, <1>7, <1>8, <1>9, CallMoves, Before DEF Quiet

\* Return hands what the listing told, be it with every block time or without some.
LEMMA ReturnStep ==
  ASSUME DepositInv, NEW c \in Calls, Return(c), Quiet, UNCHANGED snap,
         call[c].pc # "threw", vault
  PROVE  DepositInv'
<1>1. history \in Seq(0..MaxTime) /\ history # <<>>
  BY Types DEF DepositInv, LandingIsSeen
<1>2. Len(history) \in DOMAIN history /\ Len(history) > Len(history) - SIGNATURE_LIMIT
  BY <1>1, DepositConstants
<1>3. Newest # {}
  BY <1>2 DEF Newest
<1>4. PICK known \in SUBSET Newest : known # {} /\ Hand(c, known) /\ (Fault \/ UNCHANGED faults)
  <2>1. CASE Hand(c, Newest) /\ UNCHANGED faults
    BY <1>3, <2>1
  <2>2. CASE Fault /\ \E known \in (SUBSET Newest) \ {{}, Newest} : Hand(c, known)
    BY <2>2
  <2> QED
    BY <2>1, <2>2 DEF Return
<1> QED
  BY <1>4, HandStep

\* Throw leads to the release of a lease or out of the call.
LEMMA ThrowStep ==
  ASSUME DepositInv, NEW c \in Calls, Throw(c), UNCHANGED <<sent, vault, history, clock, lapsed>>,
         Fault \/ UNCHANGED faults, UNCHANGED snap, call[c].pc # "threw"
  PROVE  DepositInv'
<1>1. PICK w \in {"release", "threw"} : Goto(c, w)
  BY DEF Throw
<1>2. w \in Pcs /\ w \notin {"complete", "record", "answered"}
  BY DEF Pcs
<1> QED
  BY <1>1, <1>2, PlaceMoves, Before

\* openPack and getPack begin, and getPack looks at the vault.
LEMMA BeginStep ==
  ASSUME DepositInv, NEW c \in Calls, BeginOpenPack(c) \/ BeginGetPack(c) \/ GetPackChecks(c)
  PROVE  DepositInv'
<1>1. call[c].pc # "threw" /\ UNCHANGED <<snap, faults>> /\ Quiet
  BY DEF BeginOpenPack, BeginGetPack, GetPackChecks
<1>2. CASE Ensure(c, "verify")
  BY <1>1, <1>2, EnsureStep, Before DEF Vias
<1>3. CASE \E w \in {"claim", "deposited?", "generated"} : Goto(c, w)
  <2>1. PICK w \in {"claim", "deposited?", "generated"} : Goto(c, w)
    BY <1>3
  <2>2. w \in Pcs /\ w \notin {"complete", "record", "answered"}
    BY DEF Pcs
  <2> QED
    BY <1>1, <2>1, <2>2, PlaceMoves, Before DEF Quiet
<1> QED
  BY <1>2, <1>3 DEF BeginOpenPack, BeginGetPack, GetPackChecks

\* A claim takes a free lease, which does not touch the asset.
LEMMA ClaimStep ==
  ASSUME DepositInv, NEW c \in Calls, Claim(c)
  PROVE  DepositInv'
<1>1. call[c].pc = "claim" /\ UNCHANGED faults /\ Quiet
  BY DEF Claim
<1>2. CASE LeaseFree
  <2>1. snap' = [snap EXCEPT !.owner = c, !.live = TRUE] /\ Ensure(c, "lease")
    BY <1>2 DEF Claim
  <2>2. snap' \in SnapType /\ snap'.asset = snap.asset
    BY <2>1, Before DEF SnapType
  <2> QED
    BY <1>1, <2>1, <2>2, EnsureStep, Before DEF Vias
<1>3. CASE ~LeaseFree
  <2>1. PICK w \in {"chain?", "reread"} : Goto(c, w) /\ UNCHANGED snap
    BY <1>3 DEF Claim
  <2>2. w \in Pcs /\ w \notin {"complete", "record", "answered"}
    BY DEF Pcs
  <2> QED
    BY <1>1, <2>1, <2>2, PlaceMoves, Before DEF Quiet
<1> QED
  BY <1>2, <1>3

LEMMA WaitStep ==
  ASSUME DepositInv, NEW c \in Calls, WaitChecksChain(c)
  PROVE  DepositInv'
<1>1. call[c].pc = "chain?" /\ UNCHANGED <<snap, faults>> /\ Quiet
  BY DEF WaitChecksChain
<1>2. CASE Ensure(c, "wait")
  BY <1>1, <1>2, EnsureStep, Before DEF Vias
<1>3. CASE Goto(c, "reread")
  BY <1>1, <1>3, PlaceMoves, Before DEF Quiet, Pcs
<1> QED
  BY <1>2, <1>3 DEF WaitChecksChain

\* The wait loop counts its attempts and throws at the last.
LEMMA RereadStep ==
  ASSUME DepositInv, NEW c \in Calls, Reread(c)
  PROVE  DepositInv'
<1>1. call[c].pc = "reread" /\ UNCHANGED <<snap, faults>> /\ Quiet
      /\ call[c] \in CallType /\ call[c].attempt < WaitAttempts
  BY Before DEF Reread, DepositInv, WaitsAreCounted
<1>2. CASE snap.asset
  BY <1>1, <1>2, EnsureStep, Before DEF Reread, Vias
<1>3. CASE ~snap.asset
  <2> DEFINE n == call[c].attempt + 1
             w == IF n < WaitAttempts THEN "claim" ELSE "threw"
  <2>1. w \in Pcs /\ n \in 0..WaitAttempts /\ (w # "threw" => n < WaitAttempts)
        /\ w \in {"claim", "threw"}
    BY <1>1, DepositConstants DEF Pcs, CallType
  <2> DEFINE y == [call[c] EXCEPT !.pc = w, !.attempt = n]
  <2>2. call' = [call EXCEPT ![c] = y]
    BY <1>3 DEF Reread
  <2> HIDE DEF n, w
  <2>3. y \in CallType /\ y.pc = w /\ y.attempt = n
    BY <1>1, <2>1 DEF CallType
  <2> HIDE DEF y
  <2>4. faults' \in 0..MaxFaults
    BY <1>1, Types DEF DepositInv
  <2> QED
    BY <1>1, <2>1, <2>2, <2>3, <2>4, CallMoves, Before DEF Quiet
<1> QED
  BY <1>2, <1>3

LEMMA ReadVaultStep ==
  ASSUME DepositInv, NEW c \in Calls, ReadVault(c)
  PROVE  DepositInv'
<1>1. call[c].pc = "vault?" /\ UNCHANGED snap /\ Quiet
  BY DEF ReadVault
<1>2. CASE vault /\ Return(c)
  BY <1>1, <1>2, ReturnStep
<1>3. CASE Goto(c, "mint?") /\ UNCHANGED faults
  BY <1>1, <1>3, PlaceMoves, Before DEF Quiet, Pcs
<1>4. CASE Throw(c) /\ Fault
  BY <1>1, <1>4, ThrowStep DEF Quiet
<1> QED
  BY <1>2, <1>3, <1>4 DEF ReadVault

LEMMA ReadMintStep ==
  ASSUME DepositInv, NEW c \in Calls, ReadMint(c)
  PROVE  DepositInv'
<1>1. call[c].pc = "mint?" /\ UNCHANGED <<snap, faults>> /\ Quiet
  BY DEF ReadMint
<1>2. CASE Throw(c)
  BY <1>1, <1>2, ThrowStep DEF Quiet
<1>3. CASE Goto(c, "send")
  BY <1>1, <1>3, PlaceMoves, Before DEF Quiet, Pcs
<1> QED
  BY <1>2, <1>3 DEF ReadMint

LEMMA SendStep ==
  ASSUME DepositInv, NEW c \in Calls, Send(c)
  PROVE  DepositInv'
<1>1. call[c].pc = "send" /\ UNCHANGED <<snap, vault, history, clock, faults, lapsed>>
  BY DEF Send
<1>2. CASE Throw(c) /\ UNCHANGED sent
  BY <1>1, <1>2, ThrowStep
<1>3. CASE Goto(c, "confirm") /\ sent' = [sent EXCEPT ![c] = "sent"]
  <2>1. /\ sent' \in [Calls -> {"none", "sent", "landed", "failed", "dropped"}]
        /\ \A z \in Calls : sent'[z] = "landed" => sent[z] = "landed"
    BY <1>3, Before
  <2> QED
    BY <1>1, <1>3, <2>1, PlaceMoves, Before DEF Pcs
<1> QED
  BY <1>2, <1>3 DEF Send

\* A confirmed transaction has filled the vault.
LEMMA ConfirmStep ==
  ASSUME DepositInv, NEW c \in Calls, Confirm(c)
  PROVE  DepositInv'
<1>1. call[c].pc = "confirm" /\ UNCHANGED snap /\ Quiet
  BY DEF Confirm
<1>2. CASE sent[c] = "landed" /\ Return(c)
  <2>1. vault
    BY <1>2 DEF DepositInv, LandingIsSeen
  <2> QED
    BY <1>1, <1>2, <2>1, ReturnStep
<1>3. CASE Throw(c) /\ (Fault \/ UNCHANGED faults)
  BY <1>1, <1>3, ThrowStep DEF Quiet
<1> QED
  BY <1>2, <1>3 DEF Confirm

\* What follows the deposit: the row records an asset only after it.
LEMMA CompleteStep ==
  ASSUME DepositInv, NEW c \in Calls, Complete(c)
  PROVE  DepositInv'
<1>1. call[c].pc = "complete" /\ UNCHANGED faults /\ Quiet /\ vault
  BY DEF Complete, DepositInv, ReturnsOpenedAt
<1>2. CASE snap' = [asset |-> TRUE, owner |-> NoCall, live |-> FALSE] /\ Goto(c, "answered")
  <2>1. snap' \in SnapType
    BY <1>2 DEF SnapType
  <2> QED
    BY <1>1, <1>2, <2>1, PlaceMoves, Before DEF Quiet, Pcs
<1>3. CASE Goto(c, "release") /\ UNCHANGED snap
  BY <1>1, <1>3, PlaceMoves, Before DEF Quiet, Pcs
<1> QED
  BY <1>2, <1>3 DEF Complete

LEMMA RecordStep ==
  ASSUME DepositInv, NEW c \in Calls, RecordWaited(c)
  PROVE  DepositInv'
<1>1. call[c].pc = "record" /\ UNCHANGED faults /\ Quiet /\ vault
  BY DEF RecordWaited, DepositInv, ReturnsOpenedAt
<1>2. snap' \in SnapType /\ Goto(c, "answered")
  BY Before DEF RecordWaited, SnapType
<1> QED
  BY <1>1, <1>2, PlaceMoves, Before DEF Quiet, Pcs

LEMMA ReleaseStep ==
  ASSUME DepositInv, NEW c \in Calls, Release(c)
  PROVE  DepositInv'
<1>1. call[c].pc = "release" /\ UNCHANGED faults /\ Quiet /\ Goto(c, "threw")
  BY DEF Release
<1>2. snap' \in SnapType /\ snap'.asset = snap.asset
  BY Before DEF Release, SnapType
<1> QED
  BY <1>1, <1>2, PlaceMoves, Before DEF Quiet, Pcs

-----------------------------------------------------------------------------
(***************************************************************************)
(* The cluster, the clock and crashes.                                     *)
(***************************************************************************)
\* A longer history leaves the times of the calls honest.
LEMMA StaysHonest ==
  ASSUME DepositInv, history' = Append(history, clock), UNCHANGED <<call, clock>>,
         vault => vault', vault' \in BOOLEAN
  PROVE  /\ history' \in Seq(0..MaxTime) /\ history' # <<>> /\ history'[1] \in 0..MaxTime
         /\ HistoryIsOrdered' /\ ReturnsOpenedAt'
         /\ vault => history'[1] = history[1]
         /\ \A c \in Calls : Legible(c)' => Legible(c)
<1>1. /\ history' \in Seq(0..MaxTime) /\ Len(history') = Len(history) + 1
      /\ Len(history) \in Nat /\ history' # <<>> /\ history'[1] \in 0..MaxTime
      /\ history # <<>> => history'[1] = history[1]
      /\ HistoryIsOrdered'
  BY HistoryGrows DEF DepositInv
<1>2. vault => history'[1] = history[1]
  BY <1>1 DEF DepositInv, LandingIsSeen
<1>3. \A c \in Calls : Legible(c)' => Legible(c)
  BY <1>1, DepositConstants DEF Legible
<1>4. ReturnsOpenedAt'
  BY <1>2, <1>3 DEF DepositInv, ReturnsOpenedAt
<1> QED
  BY <1>1, <1>2, <1>3, <1>4

\* A transaction that lands, first or late, leaves the opening time of a pack alone.
LEMMA LandStep ==
  ASSUME DepositInv, NEW c \in Calls, Land(c)
  PROVE  DepositInv'
<1>1. /\ history' = Append(history, clock) /\ UNCHANGED <<snap, call, clock, lapsed>>
      /\ clock \in 0..MaxTime /\ vault \in BOOLEAN
  BY Types DEF Land, DepositInv
<1>2. /\ sent' \in [Calls -> {"none", "sent", "landed", "failed", "dropped"}]
      /\ faults' \in 0..MaxFaults
      /\ vault' \in BOOLEAN /\ (vault => vault')
      /\ \A z \in Calls : sent'[z] = "landed" => sent[z] = "landed" \/ vault'
  <2>1. faults' \in 0..MaxFaults
    BY DepositConstants, Types DEF Land, DepositInv, Fault
  <2>2. /\ vault' \in BOOLEAN /\ (vault => vault')
        /\ \/ sent' = [sent EXCEPT ![c] = "landed"] /\ vault'
           \/ sent' = [sent EXCEPT ![c] = "failed"]
    BY <1>1 DEF Land
  <2>3. /\ sent' \in [Calls -> {"none", "sent", "landed", "failed", "dropped"}]
        /\ \A z \in Calls : sent'[z] = "landed" => sent[z] = "landed" \/ vault'
    BY <2>2, Before
  <2> QED
    BY <2>1, <2>2, <2>3
<1>3. history' \in Seq(0..MaxTime) /\ history' # <<>> /\ HistoryIsOrdered' /\ ReturnsOpenedAt'
  BY <1>1, <1>2, StaysHonest
<1>4. TypeOK'
  BY <1>1, <1>2, <1>3, Types DEF DepositInv, TypeOK, CallType, SnapType
<1>5. WaitsAreCounted' /\ SnapshotIsBacked' /\ LandingIsSeen'
  BY <1>1, <1>2, <1>3 DEF DepositInv, WaitsAreCounted, SnapshotIsBacked, LandingIsSeen
<1> QED
  BY <1>3, <1>4, <1>5 DEF DepositInv

\* So does a transaction of somebody else.
LEMMA NameStep ==
  ASSUME DepositInv, NameMint
  PROVE  DepositInv'
<1>1. /\ history' = Append(history, clock)
      /\ UNCHANGED <<snap, call, sent, vault, clock, faults, lapsed>>
  BY DEF NameMint
<1>2. history' \in Seq(0..MaxTime) /\ history' # <<>> /\ HistoryIsOrdered' /\ ReturnsOpenedAt'
  BY <1>1, Types, StaysHonest DEF DepositInv
<1>3. TypeOK'
  BY <1>1, <1>2, Types DEF DepositInv, TypeOK, CallType, SnapType
<1>4. WaitsAreCounted' /\ SnapshotIsBacked' /\ LandingIsSeen'
  BY <1>1, <1>2 DEF DepositInv, WaitsAreCounted, SnapshotIsBacked, LandingIsSeen
<1> QED
  BY <1>2, <1>3, <1>4 DEF DepositInv

\* A crash stops the call where it is.
LEMMA CrashStep ==
  ASSUME DepositInv, NEW c \in Calls, Crash(c)
  PROVE  DepositInv'
<1>1. call[c].pc # "threw" /\ Fault /\ UNCHANGED snap /\ Quiet /\ Goto(c, "crashed")
  BY DEF Crash, Ended
<1> QED
  BY <1>1, PlaceMoves, Before DEF Quiet, Pcs

\* A dropped transaction, an expired lease and the clock.
LEMMA IdleStep ==
  ASSUME DepositInv, (\E c \in Calls : Drop(c)) \/ LeaseExpires \/ Tick \/ UNCHANGED vars
  PROVE  DepositInv' /\ UNCHANGED <<call, vault, history>>
<1>1. UNCHANGED <<call, vault, history>>
  BY DEF Drop, LeaseExpires, Tick, vars
<1>2. /\ sent' \in [Calls -> {"none", "sent", "landed", "failed", "dropped"}]
      /\ \A z \in Calls : sent'[z] = "landed" => sent[z] = "landed"
      /\ faults' \in 0..MaxFaults /\ lapsed' \in BOOLEAN
  <2>1. CASE LeaseExpires \/ Tick \/ UNCHANGED vars
    BY <2>1, Types DEF DepositInv, LeaseExpires, Tick, vars
  <2>2. ASSUME NEW c \in Calls, Drop(c)
        PROVE  /\ sent' = [sent EXCEPT ![c] = "dropped"] /\ UNCHANGED lapsed
               /\ faults' \in 0..MaxFaults
    BY <2>2, DepositConstants, Types DEF DepositInv, Drop, Fault
  <2> QED
    BY <2>1, <2>2, Before, Types DEF DepositInv
<1>3. snap' \in SnapType /\ snap'.asset = snap.asset
  BY Before DEF Drop, LeaseExpires, Tick, vars, SnapType
<1>4. clock' \in 0..MaxTime /\ clock <= clock'
  BY DepositConstants, Types DEF DepositInv, Drop, LeaseExpires, Tick, vars
<1>5. TypeOK'
  BY <1>1, <1>2, <1>3, <1>4, Types DEF DepositInv, TypeOK, CallType, SnapType
<1>6. WaitsAreCounted' /\ LandingIsSeen' /\ ReturnsOpenedAt' /\ SnapshotIsBacked'
  BY <1>1, <1>2, <1>3 DEF DepositInv, WaitsAreCounted, LandingIsSeen, ReturnsOpenedAt,
     SnapshotIsBacked, Legible
<1>7. HistoryIsOrdered'
  <2>1. /\ clock \in Int /\ clock' \in Int
        /\ \A i \in DOMAIN history : history[i] \in Int /\ history[i] <= clock
    BY HistoryTyped, <1>4 DEF DepositInv, HistoryIsOrdered
  <2> QED
    BY <1>1, <1>4, <2>1 DEF DepositInv, HistoryIsOrdered
<1> QED
  BY <1>1, <1>5, <1>6, <1>7 DEF DepositInv

\* Every step of every call, and of the environment, keeps the invariant.
LEMMA StepInv == DepositInv /\ [Next]_vars => DepositInv'
<1> SUFFICES ASSUME DepositInv, [Next]_vars PROVE DepositInv'
  OBVIOUS
<1>1. ASSUME NEW c \in Calls, CallStep(c) PROVE DepositInv'
  BY <1>1, BeginStep, ClaimStep, WaitStep, RereadStep, ReadVaultStep, ReadMintStep, SendStep,
     ConfirmStep, CompleteStep, RecordStep, ReleaseStep DEF CallStep
<1>2. ASSUME NEW c \in Calls, BeginOpenPack(c) \/ BeginGetPack(c) \/ Land(c) \/ Crash(c)
      PROVE  DepositInv'
  BY <1>2, BeginStep, LandStep, CrashStep
<1>3. CASE (\E c \in Calls : Drop(c)) \/ LeaseExpires \/ Tick \/ UNCHANGED vars
  BY <1>3, IdleStep
<1> QED
  BY <1>1, <1>2, <1>3, NameStep DEF Next

\* The inductive invariant of the deposit holds in every reachable state.
THEOREM DepositInvariant == Spec => []DepositInv
  BY InitInv, StepInv, PTL DEF Spec

\* The snapshot row records an asset only once the card is in the escrow vault, however
\* leases lapse, calls crash and duplicate transactions land.
THEOREM SnapshotBacked == Spec => []SnapshotIsBacked
<1>1. DepositInv => SnapshotIsBacked
  BY DEF DepositInv
<1> QED
  BY <1>1, DepositInvariant, PTL

-----------------------------------------------------------------------------
(***************************************************************************)
(* The promise to DuelOpening.                                             *)
(***************************************************************************)
\* The variables of PackPromise as PackDeposit implements them.
Opened == IF vault THEN history[1] ELSE -1
Answers == [c \in Calls |-> IF call[c].pc = "answered" THEN call[c].at ELSE -1]
Legibles == [c \in Calls |-> Legible(c)]

\* A pack that is in the vault has an opening time.
LEMMA OpenedInTime ==
  DepositInv => (vault => Opened \in 0..MaxTime) /\ (~vault => Opened = -1)
<1> SUFFICES ASSUME DepositInv
             PROVE  (vault => Opened \in 0..MaxTime) /\ (~vault => Opened = -1)
  OBVIOUS
<1>1. vault => history[1] \in 0..MaxTime
  BY HistoryTyped DEF DepositInv, LandingIsSeen
<1> QED
  BY <1>1 DEF Opened

\* What a call can read it may stop being able to read, and never again.
LEMMA Fades ==
  ASSUME DepositInv, \A c \in Calls : Legible(c)' => Legible(c)
  PROVE  Promise!Fade
<1>1. Legibles' \in [Calls -> BOOLEAN] /\ \A c \in Calls : Legibles'[c] => Legibles[c]
  BY DEF Legibles, Legible, DepositInv
<1> QED
  BY <1>1 DEF Promise!Fade, Legibles

\* What a step of a call leaves of it and of the others.
Moves(c) == /\ call[c].partial => call'[c].partial
            /\ \A z \in Calls : z # c => call'[z] = call[z]

\* A step of a call that has not answered is an answer of that call, or nothing.
LEMMA CallPromise ==
  ASSUME DepositInv, DepositInv', UNCHANGED <<vault, history>>,
         NEW c \in Calls, call[c].pc # "answered", Moves(c)
  PROVE  Promise!Next
<1> USE DEF Moves
<1>1. Opened' = Opened
  BY DEF Opened
<1>2. \A z \in Calls : Legible(z)' => Legible(z)
  BY DEF Legible
<1>3. Promise!Fade
  BY <1>2, Fades
<1>4. CASE call'[c].pc # "answered"
  <2>1. Answers' = Answers
    BY <1>4 DEF Answers
  <2> QED
    BY <1>1, <1>3, <2>1 DEF Promise!Next, Opened, Answers
<1>5. CASE call'[c].pc = "answered"
  <2> DEFINE t == call'[c].at
  <2>1. /\ vault' /\ t >= history'[1]
        /\ Legible(c)' => t = history'[1]
    BY <1>5 DEF DepositInv, ReturnsOpenedAt
  <2>2. Opened \in 0..MaxTime /\ Opened # -1 /\ Opened = history[1] /\ history' = history
    BY <2>1, OpenedInTime, DepositConstants DEF Opened
  <2>3. t \in 0..MaxTime /\ t >= Opened /\ (Legibles'[c] => t = Opened)
    <3>1. t \in -1..MaxTime
      BY DEF DepositInv, TypeOK
    <3> QED
      BY <3>1, <2>1, <2>2 DEF Legibles
  <2>4. Answers[c] = -1 /\ Answers' = [Answers EXCEPT ![c] = t]
    BY <1>5 DEF Answers
  <2>5. Promise!Answer(c)
    BY <1>1, <2>2, <2>3, <2>4 DEF Promise!Answer, Opened, Answers, Legibles
  <2> QED
    BY <1>3, <2>5 DEF Promise!Next
<1> QED
  BY <1>4, <1>5

\* No way of moving a call forgets that its listing lacked a block time.
LEMMA EveryMove ==
  ASSUME TypeOK, NEW c \in Calls
  PROVE  /\ \A w : Goto(c, w) => Moves(c)
         /\ \A via : Ensure(c, via) => Moves(c)
         /\ \A known : Hand(c, known) => Moves(c)
         /\ Throw(c) => Moves(c)
         /\ Return(c) => Moves(c)
         /\ Reread(c) => Moves(c)
<1>1. call \in [Calls -> CallType] /\ call[c] \in CallType
  BY Types
<1>2. ASSUME NEW y, call' = [call EXCEPT ![c] = y], call[c].partial => y.partial
      PROVE  Moves(c)
  BY <1>1, <1>2 DEF Moves
<1>3. ASSUME NEW w, Goto(c, w) PROVE Moves(c)
  <2> DEFINE y == [call[c] EXCEPT !.pc = w]
  <2>1. call' = [call EXCEPT ![c] = y] /\ y.partial = call[c].partial
    BY <1>1, <1>3 DEF Goto, CallType
  <2> QED
    BY <1>2, <2>1
<1>4. ASSUME NEW via, Ensure(c, via) PROVE Moves(c)
  <2> DEFINE y == [call[c] EXCEPT !.pc = "vault?", !.via = via]
  <2>1. call' = [call EXCEPT ![c] = y] /\ y.partial = call[c].partial
    BY <1>1, <1>4 DEF Ensure, CallType
  <2> QED
    BY <1>2, <2>1
<1>5. ASSUME NEW known, Hand(c, known) PROVE Moves(c)
  <2> DEFINE w == CASE call[c].via = "lease" -> "complete" [] call[c].via = "wait" -> "record"
                    [] OTHER -> "answered"
             at == ResolveOpenedAt(known)
             partial == call[c].partial \/ known # Newest
             y == [call[c] EXCEPT !.at = at, !.partial = partial, !.pc = w]
  <2>1. call' = [call EXCEPT ![c] = y]
    BY <1>5 DEF Hand
  <2> HIDE DEF w, at
  <2>2. y.partial = partial
    BY <1>1 DEF CallType
  <2> HIDE DEF y
  <2> QED
    BY <1>2, <2>1, <2>2
<1>6. Throw(c) => Moves(c)
  BY <1>3 DEF Throw
<1>7. Return(c) => Moves(c)
  BY <1>5 DEF Return
<1>8. ASSUME Reread(c) PROVE Moves(c)
  <2>1. CASE snap.asset
    BY <1>4, <1>8, <2>1 DEF Reread
  <2>2. CASE ~snap.asset
    <3> DEFINE n == call[c].attempt + 1
               w == IF n < WaitAttempts THEN "claim" ELSE "threw"
               y == [call[c] EXCEPT !.pc = w, !.attempt = n]
    <3>1. call' = [call EXCEPT ![c] = y]
      BY <1>8, <2>2 DEF Reread
    <3> HIDE DEF w, n
    <3>2. y.partial = call[c].partial
      BY <1>1 DEF CallType
    <3> QED
      BY <1>2, <3>1, <3>2
  <2> QED
    BY <2>1, <2>2
<1> QED
  BY <1>3, <1>4, <1>5, <1>6, <1>7, <1>8

\* The calls that step have not answered, and leave the others alone.
LEMMA OneCallMoves ==
  ASSUME TypeOK, NEW c \in Calls,
         CallStep(c) \/ BeginOpenPack(c) \/ BeginGetPack(c) \/ Crash(c)
  PROVE  UNCHANGED <<vault, history>> /\ call[c].pc # "answered" /\ Moves(c)
<1> USE EveryMove DEF Quiet
<1>1. CASE BeginOpenPack(c) \/ BeginGetPack(c) \/ GetPackChecks(c)
  BY <1>1 DEF BeginOpenPack, BeginGetPack, GetPackChecks
<1>2. CASE Claim(c) \/ WaitChecksChain(c)
  BY <1>2 DEF Claim, WaitChecksChain
<1>3. CASE Reread(c)
  <2>1. Moves(c)
    BY <1>3
  <2> QED
    BY <1>3, <2>1 DEF Reread
<1>4. CASE ReadVault(c) \/ ReadMint(c)
  BY <1>4 DEF ReadVault, ReadMint
<1>5. CASE Send(c) \/ Confirm(c)
  BY <1>5 DEF Send, Confirm
<1>6. CASE Complete(c) \/ RecordWaited(c) \/ Release(c)
  BY <1>6 DEF Complete, RecordWaited, Release
<1>7. CASE Crash(c)
  BY <1>7 DEF Crash, Ended
<1> QED
  BY <1>1, <1>2, <1>3, <1>4, <1>5, <1>6, <1>7 DEF CallStep

\* A transaction that names the mint opens the pack, or changes at most what can be read.
LEMMA ChainPromise ==
  ASSUME DepositInv, DepositInv', history' = Append(history, clock),
         UNCHANGED <<call, clock>>, vault => vault'
  PROVE  Promise!Next
<1>1. vault' \in BOOLEAN
  BY DEF DepositInv, TypeOK
<1>2. /\ vault => history'[1] = history[1]
      /\ \A c \in Calls : Legible(c)' => Legible(c)
  BY <1>1, StaysHonest
<1>3. Promise!Fade /\ Answers' = Answers
  BY <1>2, Fades DEF Answers
<1>4. CASE vault \/ ~vault'
  <2>1. Opened' = Opened
    BY <1>2, <1>4 DEF Opened
  <2> QED
    BY <1>3, <2>1 DEF Promise!Next, Opened, Answers
<1>5. CASE ~vault /\ vault'
  <2>1. Opened = -1 /\ Opened' \in 0..MaxTime
    <3>1. history'[1] \in 0..MaxTime
      BY <1>1, StaysHonest
    <3> QED
      BY <1>5, <3>1 DEF Opened
  <2>2. Promise!Open
    BY <1>3, <2>1 DEF Promise!Open, Opened, Answers
  <2> QED
    BY <1>3, <2>2 DEF Promise!Next
<1> QED
  BY <1>4, <1>5

\* Every step of the provider opens the pack, answers a call, or changes nothing its
\* callers can see but what they can read.
LEMMA PromiseStep ==
  DepositInv /\ [Next]_vars => [Promise!Next]_<<Opened, Answers, Legibles>>
<1> SUFFICES ASSUME DepositInv, [Next]_vars
             PROVE  [Promise!Next]_<<Opened, Answers, Legibles>>
  OBVIOUS
<1>1. DepositInv'
  BY StepInv
<1>2. ASSUME NEW c \in Calls,
             CallStep(c) \/ BeginOpenPack(c) \/ BeginGetPack(c) \/ Crash(c)
      PROVE  Promise!Next
  BY <1>1, <1>2, OneCallMoves, CallPromise DEF DepositInv
<1>3. ASSUME NEW c \in Calls, Land(c)
      PROVE  Promise!Next
  <2>1. history' = Append(history, clock) /\ UNCHANGED <<call, clock>> /\ (vault => vault')
    BY <1>3 DEF Land
  <2> QED
    BY <1>1, <2>1, ChainPromise
<1>4. CASE NameMint
  <2>1. history' = Append(history, clock) /\ UNCHANGED <<call, clock, vault>>
    BY <1>4 DEF NameMint
  <2> QED
    BY <1>1, <2>1, ChainPromise
<1>5. CASE (\E c \in Calls : Drop(c)) \/ LeaseExpires \/ Tick \/ UNCHANGED vars
  BY <1>5, IdleStep DEF Opened, Answers, Legibles, Legible
<1> QED
  BY <1>2, <1>3, <1>4, <1>5 DEF Next

\* The leases, retries, crashes and duplicate transactions of the devnet provider implement
\* the pack DuelOpening relies on: opened once, at a time no answer precedes, and which
\* every answer repeats as long as the newest SIGNATURE_LIMIT transactions that name the
\* mint include the first and their block times were given.
THEOREM PromiseKept == Spec => PackPromised
<1>1. Init => Promise!Init
  <2> SUFFICES ASSUME Init PROVE Promise!Init
    OBVIOUS
  <2>1. \A c \in Calls : call[c].pc = "idle" /\ ~call[c].partial
    BY DEF Init, IdleCall
  <2>2. ~vault /\ Len(history) = 0
    BY DEF Init
  <2>3. \A c \in Calls : Legible(c) = TRUE
    BY <2>1, <2>2, DepositConstants DEF Legible
  <2> QED
    BY <2>1, <2>2, <2>3 DEF Promise!Init
<1>2. DepositInv /\ [Next]_vars => [Promise!Next]_<<Opened, Answers, Legibles>>
  BY PromiseStep
<1> QED
  BY <1>1, <1>2, DepositInvariant, PTL
     DEF Spec, PackPromised, Promise!Spec, Opened, Answers, Legibles
=============================================================================
