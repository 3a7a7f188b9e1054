------------------------------- MODULE MCPlayers ------------------------------
(***************************************************************************)
(* What players do, for TLC: matchmaking with the house treasury, and the  *)
(* pages of their browsers.  The components share no rows, so TLC explores *)
(* each in parts that start from states of their own, the others staying   *)
(* as they were:                                                           *)
(*   queue     players search, match, cancel and fall back to the house;   *)
(*             a house duel is followed until its funding is decided       *)
(*   exposure  one house duel holds a reservation while another player     *)
(*             asks for one; duels run to their end                        *)
(*   alerts    the same request while the account and a card are           *)
(*             reconciled and the operator pauses                          *)
(*   custody   a settled house duel: its cards are acquired, verified,     *)
(*             listed, delisted and sold while the reconciler runs         *)
(*   auth      a tab signs in and out while accounts change                *)
(*   expiry    the same while challenges and sessions expire               *)
(*   limit     challenges are asked for over several windows               *)
(*   balance   balances are read while accounts change                     *)
(*   entry     the page that funds a duel                                  *)
(*   tabs      two tabs pay for rips                                       *)
(*   reloads   one tab pays, is reloaded, and its storage refuses writes   *)
(***************************************************************************)
EXTENDS Matchmaking, WalletSession, DuelEntry, GachaClient, TLC

VARIABLE part
mcVars == <<matchVars, authVars, entryVars, clientVars, part>>
One(S) == {CHOOSE x \in S : TRUE}
queueVars == <<ticket, behavior, call, calls>>

HouseDuel(w, status, winner) ==
  [NoDuel EXCEPT !.status = status, !.mode = "HOUSE", !.creator = w, !.opponent = House,
                 !.version = 1, !.winner = winner, !.opened = status = "SETTLED",
                 !.funded = status = "SETTLED"]
Searching(w) == [NoDuel EXCEPT !.status = "WAITING", !.creator = w, !.version = 1,
                               !.expiresAt = SearchLifetime]
NoDuels == [d \in Duels |-> NoDuel]
NoReservations == [d \in Duels |-> "NONE"]
NoTickets == [w \in Wallets |-> NoTicket]
Ticket(d) == [duel |-> d, role |-> "CREATOR", status |-> "SEARCHING", at |-> 0]
NoAssets == [a \in Assets |-> NoAsset]

\* d is a house duel of w, e a duel v searches with.
TwoDuels(d, e, w, v, status, winner, reservation) ==
  /\ duel = [NoDuels EXCEPT ![d] = HouseDuel(w, status, winner), ![e] = Searching(v)]
  /\ res = [NoReservations EXCEPT ![d] = reservation]
  /\ ticket = [NoTickets EXCEPT ![v] = Ticket(e)]
  /\ calls = MaxCalls - 1

MatchParts ==
  /\ RestInit
  /\ \/ /\ part = "queue"
        /\ duel = NoDuels /\ res = NoReservations /\ ledger = <<>> /\ asset = NoAssets
        /\ ticket = NoTickets /\ calls = 0
     \/ \E d, e \in Duels, w, v \in Wallets :
          /\ d # e /\ w # v
          /\ \/ /\ part = "exposure"
                /\ TwoDuels(d, e, w, v, "MATCHED", NoWallet, "RESERVED")
                /\ ledger = <<Entry("RESERVATION_CREATED", d, 0, 1)>> /\ asset = NoAssets
             \/ /\ part = "alerts"
                /\ TwoDuels(d, e, w, v, "SETTLED", NoWallet, "SETTLED")
                /\ ledger = <<Entry("RESERVATION_CREATED", d, 0, 1), Entry("HOUSE_PACK_COST", d, 0, 1)>>
                /\ asset = [NoAssets EXCEPT ![<<d, "OPPONENT">>].status = "HELD"]
     \/ /\ part = "custody"
        /\ \E d \in Duels, w \in Wallets :
             /\ \E winner \in {w, House, NoWallet} :
                  duel = [NoDuels EXCEPT ![d] = HouseDuel(w, "SETTLED", winner)]
             /\ res = [NoReservations EXCEPT ![d] = "SETTLEMENT_PENDING"]
             /\ ledger = <<Entry("RESERVATION_CREATED", d, 0, 1)>>
        /\ asset = NoAssets /\ ticket = NoTickets /\ calls = MaxCalls
     \/ /\ part \in {"auth", "expiry", "limit", "balance", "entry", "tabs", "reloads"}
        /\ duel = NoDuels /\ res = NoReservations /\ ledger = <<>> /\ asset = NoAssets
        /\ ticket = NoTickets /\ calls = 0

Init ==
  /\ MatchParts /\ AuthInit /\ EntryInit /\ ClientInit
  /\ part \notin {"tabs", "reloads"} => record = NoRecord

Queue == (\E w \in Wallets : MatchStep(w)) /\ UNCHANGED clock
Follow(statuses) ==
  /\ \E d \in Duels : \/ duel[d].status \in statuses /\ HouseDuelMoves(d)
                      \/ ReconcileLifecycle(d)
  /\ UNCHANGED <<queueVars, clock>>

MatchPartsNext ==
  \/ /\ part = "queue"
     /\ \/ Queue \/ Tick \/ Follow({"MATCHED", "COMMITTING"})
        \/ (\E d \in Duels : PlayerDuelMoves(d)) /\ UNCHANGED clock
  \/ part = "exposure" /\ (Queue \/ Tick \/ Follow(DuelStatuses))
  \/ /\ part = "alerts"
     /\ \/ Queue \/ Tick
        \/ (SetPaused \/ SlotAdvances \/ ReconcileOnChain) /\ UNCHANGED <<queueVars, clock>>
  \/ /\ part = "custody"
     /\ \/ Follow({})
        \/ (SlotAdvances \/ ReconcileOnChain \/ DisposeCards) /\ UNCHANGED <<queueVars, clock>>

AuthNext ==
  \/ /\ part = "auth"
     /\ SignInStep(AuthOps) \/ BalanceArrives
     /\ authTime' = 0 /\ challenge'[3].row = "none" /\ Cardinality(reads') <= 1
  \/ /\ part = "expiry"
     /\ SignInStep(One(AuthOps)) \/ BalanceArrives
     /\ authTime' <= 2 /\ challenge'[3].row = "none" /\ Cardinality(reads') <= 1
  \/ /\ part = "limit"
     /\ \/ AuthTick \/ BalanceArrives
        \/ \E o \in One(AuthOps) : \/ Prepare(o) \/ IssueChallenge(o) \/ LoseAuthMessage(o)
                                   \/ ChallengeArrives(o) \/ OperationFails(o)
        \/ \E w \in Accounts : ChangeAccount(w)
     /\ Cardinality(reads') <= 1
  \/ /\ part = "balance"
     /\ BalanceStep \/ Reload \/ \E w \in Accounts \cup {NoAccount} : ChangeAccount(w)

ClientNext ==
  \/ part = "tabs" /\ ClientStep /\ tabFaults' = 0 /\ order'[2].status = "NONE"
  \/ /\ part = "reloads"
     /\ \/ \E t \in One(Tabs) : TabStep(t)
        \/ \E b \in SignedBytes : TransactionEnds(b)

Next ==
  /\ UNCHANGED part
  /\ \/ MatchPartsNext /\ UNCHANGED <<authVars, entryVars, clientVars>>
     \/ AuthNext /\ UNCHANGED <<matchVars, entryVars, clientVars>>
     \/ part = "entry" /\ EntryStep /\ UNCHANGED <<matchVars, authVars, clientVars>>
     \/ ClientNext /\ UNCHANGED <<matchVars, authVars, entryVars>>

Spec == Init /\ [][Next]_mcVars

\* Rows, queues, counters, pages and records stay in their ranges.
TypeOK ==
  /\ TreasuryTypeOK
  /\ \A w \in Wallets : /\ ticket[w] = NoTicket \/ ticket[w].duel \in Duels
                        /\ behavior[w].count \in 0..MaxCalls
  /\ calls \in 0..MaxCalls
  /\ AuthTypeOK /\ EntryTypeOK /\ ClientTypeOK

\* A wallet changes places with the other together with an operation, a duel together
\* with an account: no part uses both.
Together(S, T) ==
  {f @@ g : <<f, g>> \in {p \in Permutations(S) \X Permutations(T) :
                           (\E x \in S : p[1][x] # x) <=> (\E y \in T : p[2][y] # y)}}
Symmetry == Together(Wallets, AuthOps) \cup Together(Duels, Accounts)
=============================================================================
