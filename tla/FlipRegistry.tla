---------------------------- MODULE FlipRegistry -----------------------------
(***************************************************************************)
(* The tables a flip session commits to, each row written and sealed by    *)
(* one transaction under the lock of its key: reviewed rule sets,          *)
(* inventory snapshots with their revisions, the pool a session is bound   *)
(* to, and the acquisition policy of a rule set                            *)
(* (flip/flip-rules.service.ts, flip-inventory-snapshot.service.ts,        *)
(* flip-acquisition.service.ts, flip-acquisition.policy.ts).               *)
(*                                                                         *)
(* A rule set's content is its stake and an edition; what a hash covers is *)
(* what the hash is.  Requests come one after another: a call reads its    *)
(* key under the lock, and rows of other tables never change.              *)
(***************************************************************************)
EXTENDS Integers, Sequences, FiniteSets, SequencesExt

NoRegistry == [rules |-> {}, snapshots |-> <<>>, pools |-> {}, policies |-> {}]

Stored(rows, key) == CHOOSE row \in rows : row.key = key
HasRow(rows, key) == \E row \in rows : row.key = key

\* A row is created once for its key; the same content again is a replay.
Sealed(rows, key, content) ==
  IF ~HasRow(rows, key) THEN <<rows \cup {[key |-> key, content |-> content]}, "created">>
  ELSE IF Stored(rows, key).content = content THEN <<rows, "replayed">> ELSE <<rows, "refused">>

CreateFixtureRuleSet(reg, q) ==
  LET done == Sealed(reg.rules, q.key, q.content)
  IN  <<[reg EXCEPT !.rules = done[1]], done[2]>>

\* A content is looked for in every revision of its pool.
HasRevision(snapshots, content) == \E n \in DOMAIN snapshots : snapshots[n] = content

CreateInventorySnapshot(reg, q) ==
  IF HasRevision(reg.snapshots, q.content) THEN <<reg, "replayed">>
  ELSE <<[reg EXCEPT !.snapshots = Append(@, q.content)], "created">>

\* The session's row decides alone when there is one; a new one needs a sealed rule set
\* and a snapshot of the same stake.
CreateFixtureSessionPoolCommitment(reg, q) ==
  LET bound == [rules |-> q.rules, snapshot |-> q.snapshot]
      done == Sealed(reg.pools, q.key, bound)
      committable == /\ HasRow(reg.rules, q.rules) /\ q.snapshot \in DOMAIN reg.snapshots
                     /\ Stored(reg.rules, q.rules).content.stake = reg.snapshots[q.snapshot].stake
  IN  IF HasRow(reg.pools, q.key) \/ committable THEN <<[reg EXCEPT !.pools = done[1]], done[2]>>
      ELSE <<reg, "refused">>

\* A policy has three failure codes, a recovery branch for each, and names the rules it
\* was reviewed for.
ValidPolicy(policy) ==
  Len(policy.branches) = 3 /\ \A j, k \in DOMAIN policy.branches :
    policy.branches[j].code = policy.branches[k].code \/ policy.branches[j].branch = policy.branches[k].branch => j = k

CreateFixturePolicy(reg, q) ==
  LET done == Sealed(reg.policies, q.key, q.content)
      reviewed == HasRow(reg.rules, q.key) /\ Stored(reg.rules, q.key).content = q.content.rules
  IN  IF ValidPolicy(q.content) /\ reviewed THEN <<[reg EXCEPT !.policies = done[1]], done[2]>>
      ELSE <<reg, "refused">>

Registered(reg, q) ==
  CASE q.op = "rules"    -> CreateFixtureRuleSet(reg, q)
    [] q.op = "snapshot" -> CreateInventorySnapshot(reg, q)
    [] q.op = "pool"     -> CreateFixtureSessionPoolCommitment(reg, q)
    [] q.op = "policy"   -> CreateFixturePolicy(reg, q)

\* What callers asked for, with the answers, and the tables in the end.
RegistryRun(requests) ==
  FoldLeft(LAMBDA run, q : [reg |-> Registered(run.reg, q)[1],
                            answers |-> Append(run.answers, Registered(run.reg, q)[2])],
           [reg |-> NoRegistry, answers |-> <<>>], requests)

\* Whatever requests come, in whatever order: what a caller was told is sealed stays
\* sealed with that content, it is created once, and no session is bound to a pool of
\* another stake, no policy to rules it was not reviewed for.
RegistryIsFinal(requests) ==
  LET run == RegistryRun(requests)
      reg == run.reg IN
  /\ \A n \in DOMAIN requests :
       run.answers[n] # "refused" =>
         /\ Registered(reg, requests[n])[2] = "replayed"
         /\ Cardinality({m \in DOMAIN requests : requests[m] = requests[n] /\ run.answers[m] = "created"}) = 1
  /\ \A p \in reg.pools :
       Stored(reg.rules, p.content.rules).content.stake = reg.snapshots[p.content.snapshot].stake
  /\ \A p \in reg.policies : Stored(reg.rules, p.key).content = p.content.rules
=============================================================================
