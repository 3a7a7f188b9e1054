------------------------------ MODULE Admission ------------------------------
(***************************************************************************)
(* What stands between a request and a new duel: the request boundary      *)
(* (common/request-boundary.ts), the real-value policy and its guard       *)
(* (policy/), and the operators' risk limits (admin/admin.service.ts);     *)
(* and the lobby, which tells a player beforehand what will be let through *)
(* (health/public-product-capabilities.ts, games/games-catalog.service.ts, *)
(* games/games-lobby.service.ts).                                          *)
(*                                                                         *)
(* An environment is [explicit, network, provider, node, policy, enabled,  *)
(* tiers, house, demo, treasury, maxWallet, maxTier]; a policy document is *)
(* [present, json, schema, version, approvals, capabilities], and tiers is *)
(* {0} when unset.  The facts a request reads are [database, rpc,          *)
(* snapshot, discrepancies, paused].                                       *)
(***************************************************************************)
EXTENDS Integers, FiniteSetsExt, SequencesExt

CONSTANTS MAX_RATE_LIMIT_CLIENTS, RATE_WINDOW
ASSUME BoundaryAssumption == MAX_RATE_LIMIT_CLIENTS \in Nat \ {0} /\ RATE_WINDOW \in Nat \ {0}

REAL_VALUE_CAPABILITIES ==
  {"duel.create.direct", "duel.create.house", "duel.create.open", "duel.funding.prepare", "duel.join",
   "duel.pack.open", "matchmaking.house-fallback", "matchmaking.search", "provider.escrow.prepare"}
APPROVAL_KEYS == <<"age", "disclosure", "jurisdiction", "legal", "limits", "production", "sanctions">>

(***************************************************************************)
(* The request boundary.                                                   *)
(***************************************************************************)
\* forwardedHeaderIssue: forwarding headers come from a trusted proxy, which must send them.
ForwardedHeaderIssue(q) == IF q.trusted THEN q.forwarded # "valid" ELSE q.forwarded # "absent"

\* consumeRateLimit: clients is a sequence of [key, count, resetAt] in the order of insertion.
ConsumeRateLimit(clients, key, limit, now) ==
  LET known == SelectInSeq(clients, LAMBDA c : c.key = key)
      fresh == [key |-> key, count |-> 1, resetAt |-> now + RATE_WINDOW]
      kept == IF Len(clients) >= MAX_RATE_LIMIT_CLIENTS THEN Tail(clients) ELSE clients
      again == SelectInSeq(kept, LAMBDA c : c.key = key)
  IN  IF known # 0 /\ clients[known].resetAt > now THEN [clients EXCEPT ![known].count = @ + 1]
      ELSE IF again # 0 THEN [kept EXCEPT ![again] = fresh] ELSE Append(kept, fresh)

\* The onRequest hook: the answer, and the clients counted.
OnRequest(clients, q, limit, now) ==
  LET counted == ConsumeRateLimit(clients, q.key, limit, now)
      mine == counted[SelectInSeq(counted, LAMBDA c : c.key = q.key)]
  IN  CASE ForwardedHeaderIssue(q) -> [status |-> 400, clients |-> clients]
        [] ~ForwardedHeaderIssue(q) /\ q.origin = "other" -> [status |-> 403, clients |-> clients]
        [] ~ForwardedHeaderIssue(q) /\ q.origin = "allowed" /\ q.method = "OPTIONS" ->
             [status |-> 204, clients |-> clients]
        [] OTHER -> [status |-> IF mine.count <= limit THEN 200 ELSE 429, clients |-> counted]

(***************************************************************************)
(* The real-value policy.                                                  *)
(***************************************************************************)
\* Mutant: an explicit signal is taken at its word, whatever the network and the provider say.
RuntimeAsDeclared(env) ==
  CASE env.explicit \notin {"unset", "true", "false"} -> "unclassified"
    [] env.explicit = "true" \/ (env.explicit = "unset"
         /\ (env.network = "solana-mainnet" \/ env.provider = "collector-crypt-production")) -> "production"
    [] OTHER -> IF env.node \in {"test", "development"} \/ env.provider = "mock" THEN "fixture"
                ELSE IF env.network = "solana-devnet" \/ env.provider \in {"dailydraft-devnet", "collector-crypt-sandbox"}
                THEN "devnet" ELSE "unclassified"

ResolveRealValueRuntime(env) ==
  CASE env.explicit \notin {"unset", "true", "false"} -> "unclassified"
    [] env.explicit = "true" \/ (env.explicit \in {"unset", "false"}
         /\ (env.network = "solana-mainnet" \/ env.provider = "collector-crypt-production")) -> "production"
    [] OTHER -> IF env.node \in {"test", "development"} \/ env.provider = "mock" THEN "fixture"
                ELSE IF env.network = "solana-devnet" \/ env.provider \in {"dailydraft-devnet", "collector-crypt-sandbox"}
                THEN "devnet" ELSE "unclassified"

ApprovalDenialReason(key) ==
  [age |-> "age_policy_missing", disclosure |-> "disclosure_policy_missing",
   jurisdiction |-> "jurisdiction_policy_missing", legal |-> "legal_approval_missing",
   limits |-> "limits_policy_missing", production |-> "production_approval_missing",
   sanctions |-> "sanctions_policy_missing"][key]

\* parseRealValuePolicy: "ok", or why the document is refused.
ParseRealValuePolicy(p) ==
  LET missing == SelectInSeq(APPROVAL_KEYS, LAMBDA key : key \notin p.approvals) IN
  CASE ~p.json -> "policy_malformed"
    [] p.json /\ ~p.schema -> "policy_schema_unsupported"
    [] p.json /\ p.schema /\ ~p.version -> "policy_version_missing"
    [] OTHER -> IF missing # 0 THEN ApprovalDenialReason(APPROVAL_KEYS[missing])
                ELSE IF p.capabilities = {} THEN "capability_configuration_missing"
                ELSE IF ~(p.capabilities \subseteq REAL_VALUE_CAPABILITIES) THEN "policy_malformed" ELSE "ok"

\* evaluateRealValuePolicy: "allowed", or the reason for the denial.
EvaluateRealValuePolicy(capability, env) ==
  LET runtime == ResolveRealValueRuntime(env)
      parsed == IF ~env.policy.present THEN "none" ELSE ParseRealValuePolicy(env.policy)
  IN  IF parsed \notin {"none", "ok"} THEN parsed
      ELSE IF runtime = "unclassified" THEN "runtime_unclassified"
      ELSE IF runtime # "production" THEN "allowed"
      ELSE IF parsed = "none" THEN "policy_missing"
      ELSE IF ~env.enabled THEN "production_approval_missing"
      ELSE IF capability \notin env.policy.capabilities THEN "capability_disabled" ELSE "allowed"
Allowed(capability, env) == EvaluateRealValuePolicy(capability, env) = "allowed"

\* RealValuePolicyService.assertAllowed: an answer that cannot be recorded is a refusal.
AssertAllowed(capability, env, facts) == facts.database /\ Allowed(capability, env)

(***************************************************************************)
(* Risk limits.                                                            *)
(***************************************************************************)
ReadRiskLimits(env) ==
  [allowedTiers |-> IF env.tiers = {0} THEN {50} ELSE env.tiers \cap {25, 50, 100},
   houseEnabled |-> env.house, maxWallet |-> env.maxWallet, maxTier |-> env.maxTier]

\* assertWithinRiskLimits
WithinRiskLimits(limits, tierActive, walletActive) ==
  walletActive < limits.maxWallet /\ tierActive < limits.maxTier

\* duels: the active ones, [creator, opponent, tier].
ActiveDuelsForWallet(duels, w) == Cardinality({n \in DOMAIN duels : w \in {duels[n].creator, duels[n].opponent}})
ActiveDuelsOfTier(duels, tier) == Cardinality({n \in DOMAIN duels : duels[n].tier = tier})

AssertCreateAllowed(mode, tier, w, duels, env, facts) ==
  LET limits == ReadRiskLimits(env) IN
  /\ facts.database /\ ~facts.paused /\ tier \in limits.allowedTiers
  /\ mode = "house" => limits.houseEnabled
  /\ WithinRiskLimits(limits, ActiveDuelsOfTier(duels, tier), ActiveDuelsForWallet(duels, w))

\* getRiskSummary: the wallets and tiers an operator is shown.
WalletsAtLimit(duels, env) ==
  {w \in UNION {{d.creator, d.opponent} : d \in Range(duels)} \ {0} :
     ActiveDuelsForWallet(duels, w) >= ReadRiskLimits(env).maxWallet}
TierCounts(duels) == [tier \in {d.tier : d \in Range(duels)} |-> ActiveDuelsOfTier(duels, tier)]

(***************************************************************************)
(* The lobby.                                                              *)
(***************************************************************************)
\* getReadiness
Readiness(env, facts) ==
  [database |-> facts.database, rpc |-> facts.rpc,
   provider |-> env.provider = "mock" \/ (env.provider = "dailydraft-devnet" /\ env.demo),
   entryEnabled |-> ReadRiskLimits(env).houseEnabled,
   treasury |-> facts.database /\ env.treasury /\ facts.snapshot /\ facts.discrepancies = 0]

\* publicProductCapabilities: the modes that are enabled; PACK_TIER_CATALOG supports one tier.
SupportedTiers == {50}
ProductModes(ready) ==
  LET duelReady == ready.database /\ ready.rpc /\ ready.provider IN
  (IF duelReady THEN {"direct", "open"} ELSE {})
    \cup (IF duelReady /\ ready.entryEnabled /\ ready.treasury THEN {"house"} ELSE {})

ActionOf(mode) == [direct |-> "direct-challenge", open |-> "open-matchmaking", house |-> "house-opponent"][mode]

ACTION_POLICY_CAPABILITIES(action) ==
  {"duel.funding.prepare", "duel.pack.open", "provider.escrow.prepare"}
    \cup CASE action = "direct-challenge" -> {"duel.create.direct", "duel.join"}
           [] action = "house-opponent" -> {"duel.create.house", "matchmaking.house-fallback"}
           [] action = "open-matchmaking" -> {"duel.create.open", "duel.join", "matchmaking.search"}

\* resolveDuelCatalogMode; degradedDuelCatalogMode when readiness cannot be read.
DuelCatalogMode(env, facts) ==
  LET limits == ReadRiskLimits(env)
      modes == ProductModes(Readiness(env, facts))
      packReady == modes # {} /\ SupportedTiers \cap limits.allowedTiers # {}
      actions == IF ~facts.paused /\ packReady THEN {ActionOf(mode) : mode \in modes} ELSE {}
  IN  IF ~facts.database THEN [actions |-> {}, state |-> "degraded"]
      ELSE [actions |-> actions,
            state |-> IF {ActionOf("direct"), ActionOf("open")} \subseteq actions THEN "playable"
                      ELSE IF actions # {} THEN "degraded" ELSE "unavailable"]

\* applyDuelPolicyGates and getAvailability
DuelAvailability(env, facts) ==
  LET mode == DuelCatalogMode(env, facts)
      admitted == {a \in mode.actions : \A c \in ACTION_POLICY_CAPABILITIES(a) : Allowed(c, env)}
  IN  IF admitted = mode.actions THEN mode
      ELSE [actions |-> admitted, state |-> IF admitted # {} THEN "degraded" ELSE "unavailable"]

\* resolveAdmissionCapability: the capability the guard of an endpoint asks for.
AdmissionCapability(boundary, mode) ==
  IF boundary # "duel.create" THEN boundary
  ELSE [direct |-> "duel.create.direct", house |-> "duel.create.house", open |-> "duel.create.open"][mode]

\* create, join and the steps that follow, as far as they are admitted, for a wallet.
CreateAdmitted(mode, tier, w, duels, env, facts) ==
  /\ AssertAllowed(AdmissionCapability("duel.create", mode), env, facts)
  /\ env.provider \in {"mock", "dailydraft-devnet", "collector-crypt-sandbox"}
  /\ tier \in SupportedTiers
  /\ AssertCreateAllowed(mode, tier, w, duels, env, facts)

(***************************************************************************)
(* Properties, for the inputs a run enumerates.                            *)
(***************************************************************************)
\* What the lobby offers is let through: a wallet with no duel is refused only when its tier
\* is full, and no later step of the duel is stopped by the policy.
OfferedIsAdmitted(duels, env, facts) ==
  \A mode \in {"direct", "open", "house"} :
    ActionOf(mode) \in DuelAvailability(env, facts).actions =>
      /\ \E tier \in SupportedTiers :
           CreateAdmitted(mode, tier, 9, duels, env, facts)
             \/ ActiveDuelsOfTier(duels, tier) >= ReadRiskLimits(env).maxTier
      /\ \A step \in {"duel.funding.prepare", "duel.pack.open", "provider.escrow.prepare"} :
           AssertAllowed(AdmissionCapability(step, mode), env, facts)

\* Nothing that looks like production is let through without an enabled, complete policy
\* that names the capability, whatever the other signals say.
ProductionNeedsPolicy(env) ==
  \A c \in REAL_VALUE_CAPABILITIES :
    /\ Allowed(c, env)
    /\ env.explicit = "true" \/ env.network = "solana-mainnet" \/ env.provider = "collector-crypt-production"
    => /\ env.enabled /\ env.policy.present /\ c \in env.policy.capabilities
       /\ env.policy.approvals = Range(APPROVAL_KEYS)

\* The wallets shown at their limit are the ones the next create would refuse.
SummaryTellsRefusals(duels, env, facts) ==
  \A w \in {d.creator : d \in Range(duels)}, tier \in SupportedTiers :
    AssertCreateAllowed("open", tier, w, duels, env, facts) =>
      /\ w \notin WalletsAtLimit(duels, env)
      /\ tier \in DOMAIN TierCounts(duels) => TierCounts(duels)[tier] < env.maxTier

\* As long as the clients fit into the table, each is let through at most limit times in its
\* window and refused only if it was just let through that often; what is refused at the
\* boundary and preflight requests are not counted; the table never outgrows its limit.
RateIsLimited(requests, limit) ==
  LET Step(acc, q) ==
        LET answer == OnRequest(acc.clients, q, limit, q.at)
        IN  [clients |-> answer.clients, log |-> Append(acc.log, answer.status)]
      end == FoldLeft(Step, [clients |-> <<>>, log |-> <<>>], requests)
      Served(key, from, to) ==
        Cardinality({n \in DOMAIN requests : requests[n].key = key /\ end.log[n] = 200
                                               /\ requests[n].at \in from..to})
  IN  /\ Len(end.clients) <= MAX_RATE_LIMIT_CLIENTS
      /\ \A c \in Range(end.clients) : c.count <= Len(requests)
      /\ Cardinality({q.key : q \in Range(requests)}) <= MAX_RATE_LIMIT_CLIENTS =>
           \A c \in Range(end.clients) :
             /\ Served(c.key, c.resetAt - RATE_WINDOW, c.resetAt - 1) <= limit
             /\ \A n \in DOMAIN requests :
                  requests[n].key = c.key /\ end.log[n] = 429 =>
                    Served(c.key, requests[n].at - RATE_WINDOW + 1, requests[n].at) >= limit
=============================================================================
