----------------------------- MODULE WalletSession -----------------------------
(***************************************************************************)
(* Signing in with a wallet: one browser tab (the wallet providers under   *)
(* apps/app, solana/) and the rows of the API (auth/).  The wallet may     *)
(* change accounts, the player may sign out and the page may be reloaded   *)
(* at any point of a request; requests and replies may be lost.            *)
(*                                                                         *)
(* The tab's generation counter is kept as the field `current' of each     *)
(* operation: a step that increments the counter makes every operation in  *)
(* flight stale.  Signatures are honest: an operation signs its own        *)
(* challenge.                                                              *)
(***************************************************************************)
EXTENDS Integers, FiniteSets, FiniteSetsExt

CONSTANTS
  Accounts,
  NoAccount,
  Challenges,        \* challenge rows, in the order they are created (1..n)
  WalletSessions,    \* session rows, in the order they are created (1..n)
  AuthOps,           \* asynchronous operations of the tab
  CHALLENGE_TTL, SESSION_TTL, CHALLENGE_WINDOW, CHALLENGE_LIMIT,
  MaxAuthTime        \* bound on the clock

ASSUME WalletSessionConstants ==
  /\ NoAccount \notin Accounts
  /\ Challenges \subseteq Nat \ {0} /\ WalletSessions \subseteq Nat \ {0}
  /\ {CHALLENGE_TTL, SESSION_TTL, CHALLENGE_WINDOW, CHALLENGE_LIMIT, MaxAuthTime} \subseteq Nat

VARIABLES
  tab,         \* what the providers hold and show
  authOp,      \* authOp[o]: an operation of the tab waiting for a reply
  reads,       \* balance reads in flight
  challenge,   \* challenge[c]: the WalletAuthChallenge row
  wsession,    \* wsession[s]: the WalletSession row
  authTime,
  left         \* challenges whose session the player signed out of (history)

authVars == <<tab, authOp, reads, challenge, wsession, authTime, left>>

NoChallenge == [wallet |-> NoAccount, row |-> "none", created |-> 0]
NoWalletSession == [wallet |-> NoAccount, row |-> "none", challenge |-> 0, ends |-> 0]
AuthIdle == [pc |-> "idle", wallet |-> NoAccount, challenge |-> 0, session |-> 0, current |-> FALSE,
             now |-> 0]

AuthInit ==
  /\ tab = [address |-> NoAccount, status |-> "unauthenticated", session |-> 0, stored |-> 0, challenge |-> 0,
            balance |-> NoAccount, balanceStatus |-> "idle"]
  /\ authOp = [o \in AuthOps |-> AuthIdle]
  /\ challenge = [c \in Challenges |-> NoChallenge]
  /\ wsession = [s \in WalletSessions |-> NoWalletSession]
  /\ authTime = 0 /\ left = {} /\ reads = {}

SessionWallet(s) == IF s = 0 THEN NoAccount ELSE wsession[s].wallet
SessionChallenge(s) == IF s = 0 THEN 0 ELSE wsession[s].challenge
SessionEnds(s) == wsession[s].ends
Authenticates(s) == wsession[s].row = "live" /\ wsession[s].ends > authTime

EndAuthOp(o) == authOp' = [authOp EXCEPT ![o] = AuthIdle]
\* An incremented generation makes the tab's authentication operations stale.
Stale(ops) == [o \in AuthOps |-> [ops[o] EXCEPT !.current = FALSE]]

(***************************************************************************)
(* The API.                                                                *)
(***************************************************************************)
\* Mutant: every expired challenge is deleted, those of the running window too.
CleanupIgnoresWindow(now) ==
  [c \in Challenges |->
     IF challenge[c].row = "open" /\ challenge[c].created + CHALLENGE_TTL <= now
     THEN [challenge[c] EXCEPT !.row = "deleted"] ELSE challenge[c]]

\* cleanupExpiredAuthRows: unconsumed challenges that are expired and older than the window.
CleanupChallenges(now) ==
  [c \in Challenges |->
     IF /\ challenge[c].row = "open"
        /\ challenge[c].created < now - CHALLENGE_WINDOW
        /\ challenge[c].created + CHALLENGE_TTL <= now
     THEN [challenge[c] EXCEPT !.row = "deleted"] ELSE challenge[c]]

CleanupSessions(now) ==
  [s \in WalletSessions |->
     IF wsession[s].row # "none" /\ (wsession[s].row = "revoked" \/ wsession[s].ends <= now)
     THEN [wsession[s] EXCEPT !.row = "deleted"] ELSE wsession[s]]

RecentChallenges(kept, w, now) ==
  {c \in Challenges : /\ kept[c].row \in {"open", "consumed"} /\ kept[c].wallet = w
                      /\ kept[c].created >= now - CHALLENGE_WINDOW}

\* issueChallenge: `now' is read before the transaction that holds the wallet's lock.
IssueChallenge(o) ==
  /\ authOp[o].pc = "requestChallenge"
  /\ LET w == authOp[o].wallet
         kept == CleanupChallenges(authOp[o].now)
         unused == {c \in Challenges : challenge[c].row = "none"}
     IN  /\ wsession' = CleanupSessions(authOp[o].now)
         /\ IF Cardinality(RecentChallenges(kept, w, authOp[o].now)) >= CHALLENGE_LIMIT
            THEN /\ authOp' = [authOp EXCEPT ![o].pc = "refused"]
                 /\ challenge' = kept
            ELSE /\ unused # {}
                 /\ challenge' = [kept EXCEPT ![Min(unused)] =
                                    [wallet |-> w, row |-> "open", created |-> authTime]]
                 /\ authOp' = [authOp EXCEPT ![o].pc = "challengeReply", ![o].challenge = Min(unused)]
  /\ UNCHANGED <<reads, tab, authTime, left>>

\* createSession reads the challenge and checks the signature ...
FindChallenge(o) ==
  /\ authOp[o].pc = "postSignature"
  /\ LET c == authOp[o].challenge IN
     IF challenge[c].row = "open" /\ challenge[c].created + CHALLENGE_TTL > authTime
     THEN authOp' = [authOp EXCEPT ![o].pc = "consume", ![o].now = authTime]
     ELSE authOp' = [authOp EXCEPT ![o].pc = "refused"]
  /\ UNCHANGED <<reads, tab, challenge, wsession, authTime, left>>

\* ... and consumes it in a transaction that compares it once more.
ConsumeChallengeAndCreateSession(o) ==
  /\ authOp[o].pc = "consume"
  /\ LET c == authOp[o].challenge
         now == authOp[o].now
         unused == {s \in WalletSessions : wsession[s].row = "none"}
         kept == CleanupChallenges(now)
     IN  IF challenge[c].row = "open" /\ challenge[c].created + CHALLENGE_TTL > now
         THEN /\ unused # {}
              /\ challenge' = [kept EXCEPT ![c].row = "consumed"]
              /\ wsession' = [CleanupSessions(now) EXCEPT ![Min(unused)] =
                   [wallet |-> challenge[c].wallet, row |-> "live", challenge |-> c, ends |-> now + SESSION_TTL]]
              /\ authOp' = [authOp EXCEPT ![o].pc = "sessionReply", ![o].session = Min(unused)]
         ELSE /\ challenge' = kept /\ wsession' = CleanupSessions(now)
              /\ authOp' = [authOp EXCEPT ![o].pc = "refused"]
  /\ UNCHANGED <<reads, tab, authTime, left>>

\* revoke, when the request arrives.
Revoked(sessions) ==
  {wsession} \cup
  {[s \in WalletSessions |-> IF s \in sessions /\ wsession[s].row = "live"
                             THEN [wsession[s] EXCEPT !.row = "revoked"] ELSE wsession[s]]}

(***************************************************************************)
(* The tab.                                                                *)
(***************************************************************************)
\* Mutant: an operation is current as long as the wallet is the same.
SameWallet(o) == authOp[o].wallet = tab.address

\* isCurrentOperation
IsCurrentOperation(o) == authOp[o].current /\ authOp[o].wallet = tab.address

\* A request or its reply is lost: the operation fails in the tab.
LoseAuthMessage(o) ==
  /\ authOp[o].pc \in {"requestChallenge", "challengeReply", "postSignature", "consume", "sessionReply"}
  /\ authOp' = [authOp EXCEPT ![o].pc = "refused"]
  /\ UNCHANGED <<reads, tab, challenge, wsession, authTime, left>>

\* prepare, offered while no challenge is shown and nothing is in progress.
Prepare(o) ==
  /\ authOp[o].pc = "idle" /\ tab.address # NoAccount /\ tab.challenge = 0
  /\ tab.status \in {"unauthenticated", "error"}
  /\ tab' = [tab EXCEPT !.status = "preparing"]
  /\ authOp' = [authOp EXCEPT ![o] = [AuthIdle EXCEPT !.pc = "requestChallenge", !.wallet = tab.address,
                                                      !.current = TRUE, !.now = authTime]]
  /\ UNCHANGED <<reads, challenge, wsession, authTime, left>>

ChallengeArrives(o) ==
  /\ authOp[o].pc = "challengeReply"
  /\ tab' = IF IsCurrentOperation(o)
            THEN [tab EXCEPT !.challenge = authOp[o].challenge, !.status = "ready"] ELSE tab
  /\ EndAuthOp(o)
  /\ UNCHANGED <<reads, challenge, wsession, authTime, left>>

\* An error of prepare or signIn is shown unless the operation is stale.
OperationFails(o) ==
  /\ authOp[o].pc = "refused"
  /\ tab' = IF IsCurrentOperation(o) THEN [tab EXCEPT !.status = "error"] ELSE tab
  /\ EndAuthOp(o)
  /\ UNCHANGED <<reads, challenge, wsession, authTime, left>>

SignIn(o) ==
  /\ authOp[o].pc = "idle" /\ tab.challenge # 0 /\ tab.status # "signing"
  /\ IF challenge[tab.challenge].wallet # tab.address
     THEN tab' = [tab EXCEPT !.status = "error"] /\ UNCHANGED authOp
     ELSE /\ tab' = [tab EXCEPT !.status = "signing"]
          /\ authOp' = [authOp EXCEPT ![o] = [AuthIdle EXCEPT !.pc = "sign", !.wallet = tab.address,
                                                 !.challenge = tab.challenge, !.current = TRUE]]
  /\ UNCHANGED <<reads, challenge, wsession, authTime, left>>

\* createCurrentWalletSession after signMessage: the player signs, refuses, or the
\* operation has become stale meanwhile.
MessageSigned(o) ==
  /\ authOp[o].pc = "sign"
  /\ \/ IsCurrentOperation(o) /\ authOp' = [authOp EXCEPT ![o].pc = "postSignature"]
     \/ ~IsCurrentOperation(o) /\ EndAuthOp(o)
     \/ authOp' = [authOp EXCEPT ![o].pc = "refused"]
  /\ UNCHANGED <<reads, tab, challenge, wsession, authTime, left>>

\* ... and after createSession: a stale operation revokes what it created.
SessionArrives(o) ==
  /\ authOp[o].pc = "sessionReply"
  /\ IF IsCurrentOperation(o)
     THEN /\ tab' = [tab EXCEPT !.session = authOp[o].session, !.stored = authOp[o].session, !.challenge = 0,
                                !.status = "authenticated"]
          /\ UNCHANGED wsession
     ELSE wsession' \in Revoked({authOp[o].session}) /\ UNCHANGED tab
  /\ EndAuthOp(o)
  /\ UNCHANGED <<reads, challenge, authTime, left>>

\* readStoredWalletSession drops a session of another wallet or one that ended.
ReadStored(w) ==
  IF tab.stored # 0 /\ SessionWallet(tab.stored) = w /\ SessionEnds(tab.stored) > authTime
  THEN tab.stored ELSE 0

\* refreshBalances: the reads in flight are out of date, the new one is for wallet w.
OutOfDate == {[r EXCEPT !.current = FALSE] : r \in reads}
ReadBalances(w) == OutOfDate \cup {[wallet |-> w, current |-> TRUE]}

\* connect, the wallet's change event, disconnect, and the effects of a changed address:
\* reconcileWalletSession and refreshBalances.  With a session in memory the
\* reconciliation ends before anything else can run.
ChangeAccount(w) ==
  LET stored == IF tab.session # 0 THEN 0 ELSE IF w = NoAccount THEN tab.stored ELSE ReadStored(w)
      restores == w # NoAccount /\ stored # 0
      ops == [o \in AuthOps |-> IF authOp[o].pc = "validate" THEN AuthIdle    \* aborted
                                ELSE [authOp[o] EXCEPT !.current = FALSE]]
      restore == [AuthIdle EXCEPT !.pc = "validate", !.wallet = w, !.session = stored, !.current = TRUE]
  IN  /\ w # tab.address
      /\ tab' = [tab EXCEPT !.address = w, !.session = 0, !.challenge = 0, !.stored = stored,
                            !.status = IF restores THEN "restoring" ELSE "unauthenticated",
                            !.balance = IF w = NoAccount THEN NoAccount ELSE @,
                            !.balanceStatus = IF w = NoAccount THEN "idle" ELSE "loading"]
      /\ IF restores THEN \E o \in AuthOps : ops[o].pc = "idle" /\ authOp' = [ops EXCEPT ![o] = restore]
                     ELSE authOp' = ops
      /\ reads' = IF w = NoAccount THEN OutOfDate ELSE ReadBalances(w)
      /\ wsession' \in IF tab.session = 0 THEN {wsession} ELSE Revoked({tab.session})
      /\ UNCHANGED <<challenge, authTime, left>>

\* validateSession answers: the stored session is current, gone, or cannot be checked.
SessionValidated(o) ==
  /\ authOp[o].pc = "validate"
  /\ LET s == authOp[o].session IN
     \/ /\ Authenticates(s)
        /\ tab' = IF authOp[o].current THEN [tab EXCEPT !.session = s, !.status = "authenticated"] ELSE tab
     \/ /\ ~Authenticates(s)
        /\ tab' = IF authOp[o].current
                  THEN [tab EXCEPT !.stored = 0, !.session = 0, !.status = "unauthenticated"]
                  ELSE [tab EXCEPT !.stored = 0]
     \/ tab' = IF authOp[o].current THEN [tab EXCEPT !.session = 0, !.status = "unauthenticated"] ELSE tab
  /\ EndAuthOp(o)
  /\ UNCHANGED <<reads, challenge, wsession, authTime, left>>

\* The expiration timer of the session in memory.
ExpireSession ==
  /\ tab.session # 0 /\ SessionEnds(tab.session) <= authTime
  /\ tab' = [tab EXCEPT !.session = 0, !.stored = 0, !.challenge = 0, !.status = "unauthenticated"]
  /\ wsession' \in Revoked({tab.session})
  /\ UNCHANGED <<reads, authOp, challenge, authTime, left>>

SignOut ==
  LET stored == IF tab.address = NoAccount THEN 0 ELSE ReadStored(tab.address)
      token == IF tab.session # 0 THEN tab.session ELSE stored
  IN  /\ tab' = [tab EXCEPT !.session = 0, !.stored = 0, !.challenge = 0, !.status = "unauthenticated"]
      /\ authOp' = Stale(authOp)
      /\ left' = (left \cup {SessionChallenge(tab.session), SessionChallenge(stored)}
                       \cup {authOp[o].challenge : o \in AuthOps}) \ {0}
      /\ wsession' \in IF token = 0 THEN {wsession} ELSE Revoked({token})
      /\ UNCHANGED <<reads, challenge, authTime>>

\* The page is reloaded: only the stored session is left.
Reload ==
  /\ tab' = [tab EXCEPT !.address = NoAccount, !.status = "unauthenticated", !.session = 0, !.challenge = 0,
                        !.balance = NoAccount, !.balanceStatus = "idle"]
  /\ authOp' = [o \in AuthOps |-> AuthIdle] /\ reads' = {}
  /\ UNCHANGED <<challenge, wsession, authTime, left>>

\* refreshBalances, called again by a page.
RefreshBalances ==
  /\ tab.address # NoAccount
  /\ tab' = [tab EXCEPT !.balanceStatus = "loading"]
  /\ reads' = ReadBalances(tab.address)
  /\ UNCHANGED <<authOp, challenge, wsession, authTime, left>>

\* refreshWalletBalances after the read; a failed read keeps the last figure.
BalanceArrives ==
  \E r \in reads :
    /\ reads' = reads \ {r}
    /\ tab' \in IF r.current
                THEN {[tab EXCEPT !.balance = r.wallet, !.balanceStatus = "ready"],
                      [tab EXCEPT !.balanceStatus = "error"]}
                ELSE {tab}
    /\ UNCHANGED <<authOp, challenge, wsession, authTime, left>>

AuthTick ==
  /\ authTime < MaxAuthTime /\ authTime' = authTime + 1
  /\ UNCHANGED <<reads, tab, authOp, challenge, wsession, left>>

SignInStep(ops) ==
  \/ \E o \in ops :
       \/ IssueChallenge(o) \/ FindChallenge(o) \/ ConsumeChallengeAndCreateSession(o) \/ LoseAuthMessage(o)
       \/ Prepare(o) \/ ChallengeArrives(o) \/ OperationFails(o) \/ SignIn(o) \/ MessageSigned(o)
       \/ SessionArrives(o) \/ SessionValidated(o)
  \/ \E w \in Accounts \cup {NoAccount} : ChangeAccount(w)
  \/ ExpireSession \/ SignOut \/ Reload \/ AuthTick
BalanceStep == RefreshBalances \/ BalanceArrives

(***************************************************************************)
(* Properties.                                                             *)
(***************************************************************************)
AuthTypeOK ==
  /\ tab.address \in Accounts \cup {NoAccount} /\ tab.balance \in Accounts \cup {NoAccount}
  /\ tab.status \in {"unauthenticated", "restoring", "preparing", "ready", "signing", "authenticated", "error"}
  /\ tab.session \in WalletSessions \cup {0} /\ tab.stored \in WalletSessions \cup {0}
  /\ tab.challenge \in Challenges \cup {0}
  /\ \A c \in Challenges : challenge[c].row \in {"none", "open", "consumed", "deleted"}
  /\ \A s \in WalletSessions : wsession[s].row \in {"none", "live", "revoked", "deleted"}

\* Whatever order accounts change, requests end and pages reload in: a tab that shows
\* itself as authenticated holds a session of the connected wallet, a balance shown as
\* read is the connected wallet's, a session the player signed out of, one still being
\* created at that moment too, is never used or stored again, and a challenge makes one
\* session (wallet-auth-provider.tsx, wallet-auth-operations.ts,
\* read-balances.ts, prisma-auth.repository.ts).
WalletSessionIsCurrent ==
  /\ tab.status = "authenticated" => tab.session # 0 /\ SessionWallet(tab.session) = tab.address
  /\ tab.balanceStatus = "ready" => tab.balance = tab.address
  /\ {SessionChallenge(tab.session), SessionChallenge(tab.stored)} \cap left = {}
  /\ \A r, s \in WalletSessions :
       wsession[r].row # "none" /\ wsession[r].challenge = wsession[s].challenge => r = s

\* A wallet is given at most CHALLENGE_LIMIT challenges in any window, the rows that were
\* cleaned up since included (createChallenge, cleanupExpiredAuthRows).
ChallengesAreLimited ==
  \A w \in Accounts, t \in 0..MaxAuthTime :
    Cardinality({c \in Challenges : /\ challenge[c].row # "none" /\ challenge[c].wallet = w
                                    /\ challenge[c].created \in t..(t + CHALLENGE_WINDOW)})
      <= CHALLENGE_LIMIT
=============================================================================
