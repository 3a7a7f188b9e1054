-------------------------------- MODULE Funnel --------------------------------
(***************************************************************************)
(* Product analytics (analytics/analytics.service.ts): events are recorded *)
(* by clients and by the server, and an operator reads a report computed   *)
(* from the newest of them.  The server records an event again whenever a  *)
(* client repeats a request that was already carried out.                  *)
(*                                                                         *)
(* An event is [name, source, duel, session, at, id]; 0 is no duel, no     *)
(* session.  The log is ordered by time.                                   *)
(***************************************************************************)
EXTENDS Integers, FiniteSetsExt, SequencesExt

CONSTANTS REPORT_EVENT_LIMIT, ABANDONMENT_AFTER, CLIENT_EVENT_LIMIT, CLIENT_EVENT_WINDOW
ASSUME FunnelAssumption ==
  /\ REPORT_EVENT_LIMIT \in Nat \ {0} /\ ABANDONMENT_AFTER \in Nat
  /\ CLIENT_EVENT_LIMIT \in Nat /\ CLIENT_EVENT_WINDOW \in Nat

(***************************************************************************)
(* ingest and recordServer.                                                *)
(***************************************************************************)
\* ingest: a batch of one session is stored as a whole or refused.
Ingest(log, session, batch, now) ==
  LET recent == {n \in DOMAIN log : log[n].source = "client" /\ log[n].session = session
                                      /\ log[n].at >= now - CLIENT_EVENT_WINDOW}
  IN  IF Cardinality(recent) + Len(batch) > CLIENT_EVENT_LIMIT THEN log
      ELSE log \o [n \in DOMAIN batch |->
                     [batch[n] EXCEPT !.source = "client", !.session = session, !.at = now, !.id = Len(log) + n]]

RecordServer(log, event, now) ==
  Append(log, [event EXCEPT !.source = "server", !.at = now, !.id = Len(log) + 1])

(***************************************************************************)
(* buildFunnelReport.                                                      *)
(***************************************************************************)
\* getFunnel reads the newest events only.
Reported(log) == SubSeq(log, Max({1, Len(log) - REPORT_EVENT_LIMIT + 1}), Len(log))
Sampled(log) == Len(log) > REPORT_EVENT_LIMIT

\* uniqueKeys: whose event it is; anonymous ones are counted one by one.
EventKey(e, source) ==
  LET duel == <<"duel", e.duel>>
      session == <<"session", e.session>>
      first == IF source = "server" THEN <<duel, session>> ELSE <<session, duel>>
      known == SelectSeq(first, LAMBDA key : key[2] # 0)
  IN  IF known # <<>> THEN Head(known) ELSE <<"event", e.id>>
UniqueCount(log, name, source) ==
  Cardinality({EventKey(e, source) : e \in {f \in Range(log) : f.name = name /\ f.source = source}})

ServerEvents(log) == SelectSeq(log, LAMBDA e : e.source = "server")

\* latencySamples: from the first start of a duel to its first end after that.
LatencySamples(log, start, end) ==
  LET Step(acc, e) ==
        IF e.duel = 0 THEN acc
        ELSE LET started == IF e.name = start /\ e.duel \notin DOMAIN acc.starts
                            THEN acc.starts @@ (e.duel :> e.at) ELSE acc.starts
                 ends == /\ e.name = end /\ e.duel \notin acc.completed /\ e.duel \in DOMAIN started
                         /\ e.at >= started[e.duel]
             IN  [starts |-> started,
                  completed |-> IF ends THEN acc.completed \cup {e.duel} ELSE acc.completed,
                  samples |-> IF ends THEN Append(acc.samples, e.at - started[e.duel]) ELSE acc.samples]
  IN  FoldLeft(Step, [starts |-> <<>>, completed |-> {}, samples |-> <<>>], log).samples

\* The duels created long enough ago, and those of them that were never funded.
EligibleForAbandonment(log, now) ==
  {e.duel : e \in {f \in Range(log) : f.name = "duel_created" /\ f.duel # 0 /\ f.at <= now - ABANDONMENT_AFTER}}
AbandonedDuels(log, now) ==
  EligibleForAbandonment(log, now) \ {e.duel : e \in {f \in Range(log) : f.name = "duel_funded"}}

\* percentile of the sorted samples, in percent; -1 of none.
Percentile(sorted, percent) ==
  IF sorted = <<>> THEN -1 ELSE sorted[Max({1, (Len(sorted) * percent + 99) \div 100})]
Distribution(samples) ==
  LET sorted == SortSeq(samples, LAMBDA x, y : x < y)
  IN  [count |-> Len(sorted), p50 |-> Percentile(sorted, 50), p95 |-> Percentile(sorted, 95)]

\* ratio, with four decimals.
Ratio(numerator, denominator) ==
  IF denominator = 0 THEN 0 ELSE (numerator * 20000 + denominator) \div (2 * denominator)

\* eventCountSource
ClientEventNames ==
  {"duel_rematched", "duel_shared", "lobby_viewed", "tier_selected", "ui_error", "wallet_authenticated",
   "wallet_connected"}
ServerEventNames ==
  {"duel_cancelled", "duel_created", "duel_funded", "duel_matched", "duel_refunded", "duel_settled",
   "pack_reveal_started", "pack_revealed", "provider_error", "settlement_failed", "solana_rpc_error",
   "matchmaking_wait_started", "matchmaking_matched", "matchmaking_abandoned", "matchmaking_commitment_failed",
   "house_fallback_selected"}
EventCounts(events) ==
  [name \in ClientEventNames \cup ServerEventNames |->
     UniqueCount(events, name, IF name \in ClientEventNames THEN "client" ELSE "server")]

\* The rates of the report, each of one count to another.
RatePairs ==
  {<<"wallet_authenticated", "wallet_connected">>, <<"duel_created", "wallet_authenticated">>,
   <<"duel_funded", "duel_matched">>, <<"duel_matched", "duel_created">>, <<"pack_revealed", "duel_funded">>,
   <<"duel_settled", "pack_revealed">>, <<"wallet_connected", "lobby_viewed">>,
   <<"matchmaking_abandoned", "matchmaking_wait_started">>,
   <<"house_fallback_selected", "matchmaking_wait_started">>,
   <<"matchmaking_matched", "matchmaking_wait_started">>, <<"duel_refunded", "duel_funded">>,
   <<"settlement_failed", "pack_revealed">>}

FunnelReport(log, now) ==
  LET events == Reported(log)
      server == ServerEvents(events)
      counts == EventCounts(events)
      Latency(start, end) == Distribution(LatencySamples(server, start, end))
  IN  [counts |-> counts, rates |-> [p \in RatePairs |-> Ratio(counts[p[1]], counts[p[2]])],
       match |-> Latency("duel_created", "duel_matched"),
       wait |-> Latency("matchmaking_wait_started", "matchmaking_matched"),
       provider |-> Latency("pack_reveal_started", "pack_revealed"),
       abandonment |-> Ratio(Cardinality(AbandonedDuels(server, now)),
                             Cardinality(EligibleForAbandonment(server, now))),
       animations |-> UniqueCount(events, "pack_reveal_started", "client"), sampled |-> Sampled(log)]

(***************************************************************************)
(* Properties, for the inputs a run enumerates.                            *)
(***************************************************************************)
\* Whether every first event of a duel comes before the second.
InOrder(log, first, second) ==
  \A m, n \in DOMAIN log :
    log[m].name = second /\ log[n].name = first /\ log[m].duel = log[n].duel => n < m

\* A request that is repeated records its events again and changes nothing in a report that
\* is not sampled: no count, no latency, no rate.  (The two services that create and match a
\* duel record their events after they commit, so a match may be recorded first; a repeated
\* join then adds the latency that was missing.)
RetriesDoNotCount(log, now) ==
  InOrder(log, "duel_created", "duel_matched") =>
  \A n \in DOMAIN log :
    LET again == IF log[n].source = "server" THEN RecordServer(log, log[n], now)
                 ELSE Ingest(log, log[n].session, <<log[n]>>, now) IN
    (log[n].duel # 0 \/ log[n].session # 0) /\ ~Sampled(again) => FunnelReport(again, now) = FunnelReport(log, now)

\* What a sampled report leaves out makes no duel look abandoned, and a session never has
\* more events in a window than the limit; percentiles are samples, in order.
SampleInventsNothing(log, now) ==
  LET samples == LatencySamples(ServerEvents(log), "duel_created", "duel_matched")
      stats == Distribution(samples)
  IN  /\ InOrder(log, "duel_created", "duel_funded") =>
           AbandonedDuels(ServerEvents(Reported(log)), now) \subseteq AbandonedDuels(ServerEvents(log), now)
      /\ samples # <<>> => {stats.p50, stats.p95} \subseteq Range(samples) /\ 0 <= stats.p50 /\ stats.p50 <= stats.p95
      /\ Len(samples) <= UniqueCount(log, "duel_matched", "server")
      /\ \A e \in Range(log) :
           LET after == Ingest(log, e.session, <<e, e>>, now) IN
           after # log => Cardinality({n \in DOMAIN after : after[n].source = "client" /\ after[n].session = e.session
                                         /\ after[n].at >= now - CLIENT_EVENT_WINDOW}) <= CLIENT_EVENT_LIMIT
=============================================================================
