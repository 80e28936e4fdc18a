----------------------------- MODULE MCAgentRuntime -----------------------------
(* Two versions of one agent, one of another, two instruments and four pieces of evidence. *)
EXTENDS AgentRuntime

MCInstruments == {1, 2}

MCPolicy ==
  [thresholds |-> [momentum |-> 2, volume |-> 3], unit |-> 6, ttl |-> 2, candidates |-> 2,
   calls |-> 2, snapshotAge |-> 1, portfolioAge |-> 3, groups |-> (1 :> "crypto" @@ 2 :> "crypto"),
   newPct |-> 50, groupPct |-> 60, bufferPct |-> 10]

Version(agent, interval, perDay) ==
  [workspace |-> "w", agent |-> agent, mode |-> "paper", horizons |-> {60}, featureSet |-> 1,
   packs |-> {"news", "price"}, minQuality |-> 1, universe |-> {1, 2}, scanner |-> TRUE,
   minEvidence |-> 2, contradiction |-> TRUE, analyzer |-> TRUE, network |-> FALSE,
   interval |-> interval, perDay |-> perDay]

MCVersionOf ==
  "fast" :> Version("a", 1, 3)
  @@ "slow" :> [Version("a", 1, 3) EXCEPT !.contradiction = FALSE]
  @@ "wired" :> [Version("b", 1, 2) EXCEPT !.network = TRUE, !.scanner = FALSE]

Item(id, pack, about, injected) ==
  [id |-> id, pack |-> pack, quality |-> 1, injected |-> injected, about |-> about,
   observed |-> 0, ingested |-> 0]

MCEvidence ==
  {Item("rise", "news", {}, FALSE), Item("doubt", "price", {1, 2}, FALSE),
   Item("trap", "news", {1}, TRUE), Item("chain", "onchain", {1}, FALSE)}

MCPortfolio ==
  [workspace |-> "w", mode |-> "paper", currency |-> "USD", asOf |-> 0, reconciled |-> 0,
   cash |-> 12, available |-> 10, equity |-> 20, pending |-> 0,
   held |-> (2 :> [quantity |-> 1, value |-> 8, opened |-> 0])]

Request(key, version) ==
  [workspace |-> "w", key |-> key, version |-> version, asOf |-> 0, horizon |-> 60,
   intact |-> TRUE, featureSet |-> 1, cited |-> {e.id : e \in MCEvidence},
   evidence |-> MCEvidence, healthy |-> TRUE, portfolio |-> MCPortfolio,
   features |-> (1 :> [momentum |-> 2, volume |-> 9] @@ 2 :> [momentum |-> 5, volume |-> 0])]

MCRequestOf ==
  "first" :> Request("k", "fast")
  @@ "conflict" :> [Request("k", "fast") EXCEPT !.portfolio.pending = 1, !.asOf = 1]
  @@ "later" :> [Request("l", "slow") EXCEPT !.asOf = 1]
  @@ "other" :> Request("m", "wired")
  @@ "alien" :> Request("o", "unknown")
  @@ "stale" :> [Request("n", "fast") EXCEPT !.portfolio.reconciled = Unknown]

MCScenarios ==
  {[requests |-> {"first", "conflict"}, capacity |-> 2],
   [requests |-> {"first", "later"}, capacity |-> 2],
   [requests |-> {"first", "later"}, capacity |-> 1],
   [requests |-> {"other", "stale", "alien"}, capacity |-> 2]}

Symmetry == Permutations(Callers)

Context(id, until, health) ==
  [id |-> id, about |-> {1, 2}, known |-> 0, until |-> until, health |-> health, refs |-> {},
   intact |-> TRUE]

MCContextSets ==
  {{Context("x", 1, "normal")}, {Context("x", 3, "degraded")},
   {[Context("x", 3, "normal") EXCEPT !.refs = {"trap"}]}}

Proposal(action, for, against, amount, rank) ==
  [action |-> action, for |-> for, against |-> against, horizon |-> 60, amount |-> amount,
   cost |-> 0, rank |-> rank, reason |-> "model"]

MCProposals ==
  {Proposal("buy", {"rise"}, {"doubt"}, 7, 3), Proposal("buy", {"trap", "rise"}, {"doubt"}, 7, 5),
   Proposal("sell", {"doubt"}, {"rise"}, 9, 1)}
===============================================================================
