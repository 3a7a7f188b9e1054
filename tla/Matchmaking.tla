----------------------------- MODULE Matchmaking -----------------------------
(***************************************************************************)
(* The matchmaking queue (matchmaking/matchmaking.service.ts) over the     *)
(* duel rows it shares with the treasury: search, status, cancel, house    *)
(* fallback, and the expiry pass every one of them begins with.            *)
(*                                                                         *)
(* One queue (one pack, region and risk segment).  A call keeps its start  *)
(* time as "now"; between its awaits other calls run.                      *)
(***************************************************************************)
EXTENDS HouseTreasury

CONSTANTS
  CommitmentWindow, SearchLifetime,     \* how long a match and a search stand
  FailureWindow, MaxFailures, BlockTime,
  MaxActiveDuels,                       \* risk limit on one wallet's active duels
  MaxCalls                              \* bound on API calls

ASSUME MatchmakingConstants ==
  {CommitmentWindow, SearchLifetime, FailureWindow, MaxFailures, BlockTime,
   MaxActiveDuels, MaxCalls} \subseteq Nat

VARIABLES
  ticket,      \* ticket[w]: the MatchmakingTicket row of wallet w
  behavior,    \* behavior[w]: failed commitments, window start, block
  call,        \* call[w]: the request wallet w has in flight
  calls        \* requests made so far

matchVars == <<duel, res, ledger, asset, snap, disc, tier, paused, rec, chain, market, clock,
               ticket, behavior, call, calls>>

NoTicket == [duel |-> "none", role |-> "none", status |-> "none", at |-> 0]
Idle == [op |-> "none", pc |-> "idle", now |-> 0, due |-> {}]
Operations == {"search", "status", "cancel", "house"}

LiveForTicket == {"WAITING", "MATCHED", "COMMITTING"}
ACTIVE_DUEL_STATUSES == DuelStatuses \ {"SETTLED", "REFUNDED", "CANCELLED", "FAILED"}

TicketsOf(d) == {w \in Wallets : ticket[w].duel = d}
\* Mutant: the creator's ticket is removed instead of everyone's.
WithoutCreatorTicket(d) ==
  [w \in Wallets |-> IF ticket[w].duel = d /\ ticket[w].role = "CREATOR" THEN NoTicket ELSE ticket[w]]
WithoutTickets(d) == [w \in Wallets |-> IF ticket[w].duel = d THEN NoTicket ELSE ticket[w]]
CreatorTicket(d) == {w \in TicketsOf(d) : ticket[w].role = "CREATOR"}

Goto(w, pc) == call' = [call EXCEPT ![w].pc = pc]
Return(w) == call' = [call EXCEPT ![w] = Idle]
MoveDuel(d, row) == duel' = [duel EXCEPT ![d] = [row EXCEPT !.version = @ + 1]]

(***************************************************************************)
(* Failed commitments.                                                     *)
(***************************************************************************)
\* nextBehaviorState
NextBehavior(b, now) ==
  LET same  == b.count > 0 /\ now - b.start < FailureWindow
      count == IF same THEN b.count + 1 ELSE 1
  IN  [count |-> count, start |-> IF same THEN b.start ELSE now,
       until |-> IF count >= MaxFailures THEN now + BlockTime ELSE 0]

RecordFailedCommitment(w, now) == [behavior EXCEPT ![w] = NextBehavior(@, now)]

\* commitmentTimeoutPolicy: who failed, and whether the creator searches on.
Offender(row) ==
  IF row.status = "MATCHED" THEN row.creator ELSE IF row.funded THEN row.opponent ELSE NoWallet
CanRequeueCreator(row, blocked) == row.status = "MATCHED" /\ row.mode = "OPEN" /\ ~blocked

(***************************************************************************)
(* expireTimedOut, the first thing every call does.                        *)
(***************************************************************************)
\* expireCommitments reads rows, tickets and funding in one query.
CommitmentsDue(now) ==
  {<<d, duel[d], CreatorTicket(d)>> :
     d \in {e \in Duels : duel[e].status \in {"MATCHED", "COMMITTING"} /\ duel[e].commitBy \in 0..now}}

SearchesDue(now) ==
  {<<d, duel[d]>> : d \in {e \in Duels : /\ duel[e].status = "WAITING" /\ duel[e].mode = "OPEN"
                                         /\ duel[e].expiresAt <= now /\ TicketsOf(e) # {}}}

BeginCall(w) ==
  /\ call[w].pc = "idle" /\ calls < MaxCalls
  /\ \E op \in Operations :
       call' = [call EXCEPT ![w] = [Idle EXCEPT !.op = op, !.pc = "commitments", !.now = clock,
                                                !.due = CommitmentsDue(clock)]]
  /\ calls' = calls + 1
  /\ UNCHANGED <<duel, ticket, behavior, treasuryVars>>

\* Mutant: the row is guarded by its status alone.
SameStatus(d, seen) == duel[d].status = seen.status
SameVersion(d, seen) == duel[d].status = seen.status /\ duel[d].version = seen.version

\* One expired commitment: the offender is charged, then the duel moves under its
\* status and version.  A row that changed rolls the whole transaction back.
ExpireCommitment(w) ==
  /\ call[w].pc = "commitments"
  /\ \E t \in call[w].due :
       LET d == t[1]
           seen == t[2]
           now == call[w].now
           who == Offender(seen)
           charged == IF who \in Wallets THEN RecordFailedCommitment(who, now) ELSE behavior
           requeue == CanRequeueCreator(seen, who = seen.creator /\ charged[who].until > now)
       IN  /\ call' = [call EXCEPT ![w].due = @ \ {t}]
           /\ IF SameVersion(d, seen) /\ t[3] # {}
              THEN /\ behavior' = charged
                   /\ MoveDuel(d, IF requeue
                        THEN [duel[d] EXCEPT !.status = "WAITING", !.opponent = NoWallet, !.commitBy = -1]
                        ELSE [duel[d] EXCEPT !.commitBy = -1,
                                !.status = IF seen.status = "COMMITTING" THEN "REFUNDING"
                                           ELSE "CANCELLED"])
                   /\ ticket' = IF requeue
                        THEN [WithoutTickets(d) EXCEPT ![seen.creator] =
                                [ticket[seen.creator] EXCEPT !.status = "SEARCHING"]]
                        ELSE WithoutTickets(d)
              ELSE UNCHANGED <<duel, behavior, ticket>>
  /\ UNCHANGED <<calls, treasuryVars>>

ReadSearches(w) ==
  /\ call[w].pc = "commitments" /\ call[w].due = {}
  /\ call' = [call EXCEPT ![w].pc = "searches", ![w].due = SearchesDue(call[w].now)]
  /\ UNCHANGED <<duel, ticket, behavior, calls, treasuryVars>>

ExpireSearch(w) ==
  /\ call[w].pc = "searches"
  /\ \E t \in call[w].due :
       /\ call' = [call EXCEPT ![w].due = @ \ {t}]
       /\ IF SameVersion(t[1], t[2])
          THEN /\ MoveDuel(t[1], [duel[t[1]] EXCEPT !.status = "CANCELLED"])
               /\ ticket' = WithoutTickets(t[1])
          ELSE UNCHANGED <<duel, ticket>>
  /\ UNCHANGED <<behavior, calls, treasuryVars>>

(***************************************************************************)
(* search and status.                                                      *)
(***************************************************************************)
\* findSession: a ticket of a live duel is the answer; the tickets of a dead one
\* are deleted by a statement of their own.
FindSession(w) ==
  /\ call[w].pc = "searches" /\ call[w].due = {} /\ call[w].op \in {"search", "status"}
  /\ \/ ticket[w] = NoTicket /\ IF call[w].op = "search" THEN Goto(w, "allowed") ELSE Return(w)
     \/ /\ ticket[w] # NoTicket
        /\ IF duel[ticket[w].duel].status \in LiveForTicket THEN Return(w)
           ELSE call' = [call EXCEPT ![w].pc = "clean",
                           ![w].due = {<<ticket[w].duel, duel[ticket[w].duel]>>}]
  /\ UNCHANGED <<duel, ticket, behavior, calls, treasuryVars>>

DeleteStaleTickets(w) ==
  /\ call[w].pc = "clean"
  /\ \E t \in call[w].due : ticket' = WithoutTickets(t[1])
  /\ IF call[w].op = "search" THEN call' = [call EXCEPT ![w].pc = "allowed", ![w].due = {}]
     ELSE Return(w)
  /\ UNCHANGED <<duel, behavior, calls, treasuryVars>>

ActiveDuelsOf(w) == {d \in Duels : /\ duel[d].status \in ACTIVE_DUEL_STATUSES
                                   /\ w \in {duel[d].creator, duel[d].opponent}}

\* assertCreateAllowed and assertWalletAllowed, read before the transaction.
AssertAllowed(w) ==
  /\ call[w].pc = "allowed"
  /\ IF ~paused /\ Cardinality(ActiveDuelsOf(w)) < MaxActiveDuels /\ behavior[w].until <= call[w].now
     THEN Goto(w, "assign") ELSE Return(w)
  /\ UNCHANGED <<duel, ticket, behavior, calls, treasuryVars>>

Candidates(w) ==
  {v \in Wallets \ {w} : /\ ticket[v].status = "SEARCHING"
                         /\ duel[ticket[v].duel].status = "WAITING"
                         /\ duel[ticket[v].duel].mode = "OPEN"
                         /\ duel[ticket[v].duel].expiresAt > call[w].now}

\* The serializable transaction: a ticket another call of the wallet made is returned.
ReplaySearch(w) ==
  /\ call[w].pc = "assign" /\ ticket[w] # NoTicket
  /\ Return(w)
  /\ UNCHANGED <<duel, ticket, behavior, calls, treasuryVars>>

\* else the oldest waiting search is taken, or a new one is made.
AssignCandidate(w) ==
  /\ call[w].pc = "assign" /\ ticket[w] = NoTicket
  /\ \E v \in Candidates(w) :
       LET d == ticket[v].duel IN
       /\ \A u \in Candidates(w) : ticket[v].at <= ticket[u].at
       /\ ticket' = [ticket EXCEPT ![v].status = "MATCHED",
                       ![w] = [duel |-> d, role |-> "OPPONENT", status |-> "MATCHED",
                               at |-> call[w].now]]
       /\ MoveDuel(d, [duel[d] EXCEPT !.status = "MATCHED", !.opponent = w,
                         !.commitBy = call[w].now + CommitmentWindow])
  /\ Return(w)
  /\ UNCHANGED <<behavior, calls, treasuryVars>>

CreateSearch(w) ==
  /\ call[w].pc = "assign" /\ ticket[w] = NoTicket /\ Candidates(w) = {}
  /\ \E d \in Duels :
       /\ duel[d] = NoDuel
       /\ duel' = [duel EXCEPT ![d] = [NoDuel EXCEPT !.status = "WAITING", !.creator = w,
                     !.version = 1, !.expiresAt = call[w].now + SearchLifetime]]
       /\ ticket' = [ticket EXCEPT ![w] = [duel |-> d, role |-> "CREATOR",
                       status |-> "SEARCHING", at |-> call[w].now]]
  /\ Return(w)
  /\ UNCHANGED <<behavior, calls, treasuryVars>>

(***************************************************************************)
(* cancel and houseFallback read the ticket and its duel first.            *)
(***************************************************************************)
ReadTicket(w) ==
  /\ call[w].pc = "searches" /\ call[w].due = {} /\ call[w].op \in {"cancel", "house"}
  /\ LET d == ticket[w].duel
         allowed == /\ ticket[w] # NoTicket
                    /\ IF call[w].op = "cancel" THEN duel[d].status \in {"WAITING", "MATCHED"}
                       ELSE /\ ticket[w].status = "SEARCHING" /\ duel[d].status = "WAITING"
                            /\ ~paused
     IN  IF allowed
         THEN call' = [call EXCEPT ![w].pc = call[w].op, ![w].due = {<<d, duel[d]>>}]
         ELSE Return(w)
  /\ UNCHANGED <<duel, ticket, behavior, calls, treasuryVars>>

Cancel(w) ==
  /\ call[w].pc = "cancel"
  /\ \E t \in call[w].due :
       IF SameVersion(t[1], t[2])
       THEN /\ MoveDuel(t[1], [duel[t[1]] EXCEPT !.status = "CANCELLED", !.commitBy = -1])
            /\ behavior' = IF t[2].status = "MATCHED" THEN RecordFailedCommitment(w, call[w].now)
                           ELSE behavior
            /\ ticket' = WithoutTickets(t[1])
       ELSE UNCHANGED <<duel, behavior, ticket>>
  /\ Return(w)
  /\ UNCHANGED <<calls, treasuryVars>>

\* The reservation and the match are one transaction; a refusal is recorded in
\* another one.
HouseFallback(w) ==
  /\ call[w].pc = "house"
  /\ \E t \in call[w].due :
       LET d == t[1]
           admission == Admission(d, w)
       IN  IF /\ admission \in {"allowed", "replay"}
              /\ SameVersion(d, t[2])
           THEN /\ MoveDuel(d, [duel[d] EXCEPT !.status = "MATCHED", !.mode = "HOUSE",
                       !.opponent = House, !.commitBy = call[w].now + CommitmentWindow])
                /\ ticket' = [ticket EXCEPT ![w].status = "MATCHED"]
                /\ IF admission = "allowed" THEN Reserve(d) ELSE UNCHANGED <<res, ledger, tier>>
                /\ Return(w)
           ELSE /\ IF admission \in TierDisabling
                   THEN call' = [call EXCEPT ![w].pc = "refused", ![w].due = {}, ![w].now = clock]
                   ELSE Return(w)
                /\ UNCHANGED <<duel, ticket, res, ledger, tier>>
  /\ UNCHANGED <<behavior, calls, asset, snap, disc, paused, rec, chain, market>>

\* persistHouseTierAdmissionFailureSafely: its own failure is swallowed.
PersistRefusal(w) ==
  /\ call[w].pc = "refused"
  /\ tier' = TierState(TRUE, call[w].now) \/ UNCHANGED tier
  /\ Return(w)
  /\ UNCHANGED <<duel, ticket, behavior, calls, res, ledger, asset, snap, disc, paused, rec,
                 chain, market>>

(***************************************************************************)
(* Other services and time.                                                *)
(***************************************************************************)
\* A player duel that is committing: the creator's payment is final, or the funding
\* flow moves the row.  It is followed until it leaves the queue.
PlayerDuelMoves(d) ==
  /\ duel[d].mode = "OPEN"
  /\ \/ /\ duel[d].status = "COMMITTING" /\ ~duel[d].funded
        /\ duel' = [duel EXCEPT ![d].funded = TRUE]
     \/ \E to \in CASE duel[d].status = "WAITING" -> {"CANCELLED"}       \* DELETE /duels/:id
                    [] duel[d].status = "MATCHED" -> {"COMMITTING"}
                    [] duel[d].status = "COMMITTING" -> {"FUNDED", "CANCELLED", "REFUNDING"}
                    [] OTHER -> {} :
          MoveDuel(d, [duel[d] EXCEPT !.status = to])
  /\ UNCHANGED <<ticket, behavior, call, calls, treasuryVars>>

Tick ==
  /\ clock < MaxTime /\ clock' = clock + 1
  /\ UNCHANGED <<duel, ticket, behavior, call, calls, treasuryVars>>

\* The account was verified in slot 1 and nothing has happened since.
RestInit ==
  /\ behavior = [w \in Wallets |-> [count |-> 0, start |-> 0, until |-> 0]]
  /\ call = [w \in Wallets |-> Idle]
  /\ snap = [balance |-> InitialBalance, delegated |-> MaxTotalExposure, slot |-> 1, mark |-> 0,
             at |-> 0]
  /\ disc = [balance |-> [open |-> FALSE, expected |-> 0, mark |-> 0], assets |-> {}]
  /\ tier = [disabled |-> FALSE, at |-> 0]
  /\ paused = FALSE
  /\ rec = IdleRec
  /\ chain = [balance |-> InitialBalance, delegated |-> MaxTotalExposure, slot |-> 1]
  /\ market = [n \in Listings |-> "NONE"]
  /\ clock = 0

MatchStep(w) ==
  \/ BeginCall(w) \/ ExpireCommitment(w) \/ ReadSearches(w) \/ ExpireSearch(w)
  \/ FindSession(w) \/ DeleteStaleTickets(w) \/ AssertAllowed(w)
  \/ ReplaySearch(w) \/ AssignCandidate(w) \/ CreateSearch(w)
  \/ ReadTicket(w) \/ Cancel(w) \/ HouseFallback(w) \/ PersistRefusal(w)

MatchInit ==
  /\ duel = [d \in Duels |-> NoDuel]
  /\ res = [d \in Duels |-> "NONE"]
  /\ ledger = <<>>
  /\ asset = [a \in Assets |-> NoAsset]
  /\ ticket = [w \in Wallets |-> NoTicket]
  /\ calls = 0
  /\ RestInit

MatchNext ==
  \/ (\E w \in Wallets : MatchStep(w)) /\ UNCHANGED clock
  \/ (\E d \in Duels : PlayerDuelMoves(d)) /\ UNCHANGED clock
  \/ TreasuryNext /\ UNCHANGED <<ticket, behavior, call, calls, clock>>
  \/ Tick

MatchSpec == MatchInit /\ [][MatchNext]_matchVars

(***************************************************************************)
(* Properties.                                                             *)
(***************************************************************************)
\* A player's ticket and the duel row tell the same story.  A live duel's ticket
\* belongs to the player the row names, it is searching exactly while the duel waits,
\* and a live player duel has the tickets of everyone in it, so nobody who is in a
\* match can be matched again and nobody who waits is forgotten.
TicketsAgreeWithDuels ==
  /\ \A w \in Wallets :
       LET t == ticket[w]
           r == duel[t.duel]
       IN  t # NoTicket /\ r.status \in LiveForTicket =>
             /\ w = IF t.role = "CREATOR" THEN r.creator ELSE r.opponent
             /\ t.status = IF r.status = "WAITING" THEN "SEARCHING" ELSE "MATCHED"
  /\ \A d \in Duels :
       /\ duel[d].status \in LiveForTicket /\ duel[d].mode = "OPEN" =>
            TicketsOf(d) = {duel[d].creator, duel[d].opponent} \ {NoWallet}
       /\ duel[d].status = "WAITING" => duel[d].opponent = NoWallet /\ duel[d].mode = "OPEN"

\* Nobody is charged with a failed commitment unless he gave the match up himself or
\* its own window has ended, although the expiry pass works from rows it read earlier:
\* the pair it read may have been dissolved and matched again with a fresh window.
OnlyTheLateAreCharged ==
  [][\A w \in Wallets : behavior'[w] # behavior[w] =>
       \/ call[w].pc = "cancel"
       \/ \E d \in Duels : /\ duel'[d] # duel[d] /\ w \in {duel[d].creator, duel[d].opponent}
                           /\ duel[d].commitBy \in 0..clock]_behavior
=============================================================================
