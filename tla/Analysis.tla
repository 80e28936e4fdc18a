-------------------------------- MODULE Analysis --------------------------------
(***************************************************************************)
(* The pure parts of an evaluation: what validation.py refuses, what       *)
(* scanner.py selects, what analyzer.py accepts of a model's proposal and  *)
(* how portfolio.py divides the money.  Instruments are numbers, in the    *)
(* alphabetical order that breaks ties.  Times are ticks.  Hashes are      *)
(* perfect: a record says whether its content still agrees with its hash.  *)
(***************************************************************************)
EXTENDS Integers, FiniteSets, SequencesExt, FiniteSetsExt, Totals

CONSTANTS
  Policy,    \* RuntimePolicy, see PolicyAssumption
  Instruments

ASSUME PolicyAssumption ==
  /\ Instruments \subseteq Nat
  /\ DOMAIN Policy = {"thresholds", "unit", "ttl", "candidates", "calls", "snapshotAge",
                      "portfolioAge", "groups", "newPct", "groupPct", "bufferPct"}
  /\ {Policy.candidates, Policy.calls, Policy.ttl, Policy.snapshotAge} \subseteq Nat
  /\ {Policy.newPct, Policy.groupPct, Policy.bufferPct} \subseteq Nat
  /\ Policy.unit \in Nat /\ IsFiniteSet(DOMAIN Policy.thresholds)
  /\ \A f \in DOMAIN Policy.thresholds :
       Policy.thresholds[f] \in Nat \ {0} /\ Policy.unit % Policy.thresholds[f] = 0

Unknown == -1
NoReason == "none"

\* The reason of the first check that fails: the early returns of a function, in their order.
FirstReason(checks) ==
  LET failing == {i \in DOMAIN checks : checks[i][1]}
  IN  IF failing = {} THEN NoReason ELSE checks[Min(failing)][2]

-------------------------------------------------------------------------------
(* validation.py *)

Value(portfolio, instruments) == Total([i \in instruments |-> portfolio.held[i].value])

Exposure(portfolio) == Value(portfolio, DOMAIN portfolio.held)

InputReason(request, version, now) ==
  LET p == request.portfolio
      positions == {p.held[i] : i \in DOMAIN p.held}
      valued == \A position \in positions : position.quantity >= 0 /\ position.value # Unknown
  IN FirstReason(<<
    <<request.asOf > now, "future_snapshot">>,
    <<p.workspace # version.workspace, "workspace_mismatch">>,
    <<p.mode # version.mode, "mode_mismatch">>,
    <<p.currency # "USD", "unsupported_valuation_currency">>,
    <<~valued, "unknown_position_valuation">>,
    <<\E position \in positions : position.opened > request.asOf, "future_position">>,
    <<valued /\ p.equity # p.cash + Exposure(p), "inconsistent_portfolio">>,
    <<request.horizon \notin version.horizons, "unsupported_horizon">>,
    <<p.asOf > request.asOf, "future_portfolio">>,
    <<request.asOf - p.asOf > Policy.portfolioAge, "stale_portfolio">>,
    <<now - request.asOf > Policy.snapshotAge, "stale_snapshot">>,
    <<p.reconciled # Unknown /\ p.reconciled > request.asOf, "future_reconciliation">>,
    <<p.reconciled = Unknown, "unknown_portfolio">>,
    <<now - p.reconciled > Policy.portfolioAge, "stale_reconciliation">>,
    <<~request.intact, "snapshot_hash_mismatch">>,
    <<request.featureSet # version.featureSet, "feature_version_mismatch">>,
    <<request.cited # {e.id : e \in request.evidence}, "evidence_snapshot_mismatch">>,
    <<\E e \in request.evidence : e.ingested > request.asOf \/ e.observed > request.asOf,
      "future_evidence">>,
    <<~request.healthy, "unhealthy_snapshot">> >>)

Eligible(request, version) ==
  {e \in request.evidence : /\ e.pack \in version.packs
                            /\ e.quality >= version.minQuality
                            /\ ~e.injected}

\* The network contexts an evaluation may read.
ContextReason(contexts, request, version) ==
  LET known == {e.id : e \in Eligible(request, version)}
  IN  FirstReason(<<
        <<\E c, d \in contexts : c # d /\ c.id = d.id, "network_capacity">>,
        <<\E c \in contexts : ~c.intact \/ c.known > request.asOf \/ ~(c.refs \subseteq known),
          "invalid_network_context">> >>)

-------------------------------------------------------------------------------
(* scanner.py: a score of |v| / (|v| + threshold) ranks as |v| / threshold does. *)

Hits(values) ==
  {f \in DOMAIN Policy.thresholds \cap DOMAIN values : values[f] >= Policy.thresholds[f]}

Interest(values) ==
  LET scores == {values[f] * (Policy.unit \div Policy.thresholds[f]) : f \in Hits(values)}
  IN  IF scores = {} THEN 0 ELSE Max(scores)

Found(request, version) ==
  {i \in DOMAIN request.features \cap version.universe :
     version.scanner => Hits(request.features[i]) # {}}

\* How many candidates a scan yields, and which.
Scanned(request, version) == Min({Cardinality(Found(request, version)), Policy.candidates})

\* The candidates before i: those of more interest, then the alphabet.
Ahead(request, version, i) ==
  LET interest(j) == Interest(request.features[j])
  IN  {j \in Found(request, version) :
         interest(j) > interest(i) \/ (interest(j) = interest(i) /\ j < i)}

Scan(request, version) ==
  [n \in 1..Scanned(request, version) |->
     CHOOSE i \in Found(request, version) : Cardinality(Ahead(request, version, i)) = n - 1]

ExpiresAt(request) == request.asOf + Policy.ttl

-------------------------------------------------------------------------------
(* analyzer.py *)

Relevant(evidence, i) == {e \in evidence : e.about = {} \/ i \in e.about}

RequiresOrder(proposal) == proposal.action \in {"buy", "sell", "reduce", "close"}

Abstain(reason) ==
  [action |-> "no_trade", for |-> {}, against |-> {}, horizon |-> Unknown, amount |-> 0,
   cost |-> 0, rank |-> 0, reason |-> reason]

ProposalReason(proposal, evidence, request, version) ==
  LET known == {e.id : e \in evidence}
      cited == proposal.for \cup proposal.against
  IN FirstReason(<<
    <<~(cited \subseteq known) \/ proposal.for \cap proposal.against # {},
      "unsupported_evidence_reference">>,
    <<proposal.horizon # request.horizon, "horizon_mismatch">>,
    <<RequiresOrder(proposal)
        /\ (Cardinality(cited) < version.minEvidence \/ proposal.for = {}),
      "insufficient_supported_evidence">>,
    <<RequiresOrder(proposal) /\ version.contradiction /\ proposal.against = {},
      "missing_contradicting_evidence">>,
    <<RequiresOrder(proposal) /\ proposal.cost < 0, "unknown_estimated_cost">> >>)

-------------------------------------------------------------------------------
(* portfolio.py: amounts in the quantum, percentages of the equity rounded down as the   *)
(* amounts are.                                                                          *)

PortfolioReasons(p) ==
  {reason \in {"unknown_portfolio", "pending_orders", "nonpositive_equity", "unknown_exposure"} :
     CASE reason = "unknown_portfolio" -> p.reconciled = Unknown
       [] reason = "pending_orders" -> p.pending > 0
       [] reason = "nonpositive_equity" -> p.equity <= 0
       [] reason = "unknown_exposure" -> ~(DOMAIN p.held \subseteq DOMAIN Policy.groups)}

PositivePart(n) == Max({0, n})

\* The positions of an overlap group.
HeldIn(p, group) == {i \in DOMAIN p.held \cap DOMAIN Policy.groups : Policy.groups[i] = group}

\* What is left to divide: the cash in hundredths, so that the fee buffer is exact.
Funds(p) ==
  [cash |-> PositivePart(p.available) * 100,
   remaining |-> PositivePart((p.equity * Policy.newPct) \div 100),
   room |-> [g \in {Policy.groups[i] : i \in DOMAIN Policy.groups} |->
               PositivePart((p.equity * Policy.groupPct) \div 100) - Value(p, HeldIn(p, g))],
   held |-> [i \in DOMAIN p.held |-> p.held[i].value]]

BuyAmount(decision, funds) ==
  PositivePart(Min({decision.amount, funds.cash \div (100 + Policy.bufferPct), funds.remaining,
                    funds.room[Policy.groups[decision.instrument]]}))

SellAmount(decision, funds) ==
  IF decision.instrument \in DOMAIN funds.held
  THEN Min({decision.amount, funds.held[decision.instrument]}) ELSE 0

SpendOnceForAll(funds, decision, amount) == funds

\* A sale frees the position it sells, never cash.
Spend(funds, decision, amount) ==
  IF decision.action = "buy"
  THEN [funds EXCEPT !.cash = @ - amount * (100 + Policy.bufferPct), !.remaining = @ - amount,
                     !.room[Policy.groups[decision.instrument]] = @ - amount]
  ELSE IF decision.instrument \in DOMAIN funds.held
  THEN [funds EXCEPT !.held[decision.instrument] = @ - amount] ELSE funds

Amount(decision, funds, blocked) ==
  IF blocked \/ decision.instrument \notin DOMAIN Policy.groups THEN 0
  ELSE IF decision.action = "buy" THEN BuyAmount(decision, funds) ELSE SellAmount(decision, funds)

Proposed(decisions) == {k \in DOMAIN decisions : RequiresOrder(decisions[k])}

\* The better return for its cost goes first, then the alphabet.
Outranks(d, e) ==
  \/ d.rank - d.cost > e.rank - e.cost
  \/ d.rank - d.cost = e.rank - e.cost /\ d.instrument < e.instrument

Foremost(decisions, left) ==
  CHOOSE k \in left : \A j \in left : ~Outranks(decisions[j], decisions[k])

\* One decision is given what there still is for it.
Allot(so, decisions, blocked) ==
  LET k == Foremost(decisions, so.left)
      d == decisions[k]
      amount == Amount(d, so.funds, blocked)
  IN  [left  |-> so.left \ {k},
       funds |-> IF amount = 0 THEN so.funds ELSE Spend(so.funds, d, amount),
       given |-> Append(so.given, [instrument |-> d.instrument, action |-> d.action,
                                   requested |-> d.amount, amount |-> amount])]

\* Every proposal in turn: the value at n is what the first n of them were given and leave.
AllottedInTurn(decisions, p) ==
  LET after[n \in 0..Cardinality(Proposed(decisions))] ==
        IF n = 0 THEN [left |-> Proposed(decisions), funds |-> Funds(p), given |-> <<>>]
        ELSE Allot(after[n - 1], decisions, PortfolioReasons(p) # {})
  IN  after

Allocate(decisions, p) == AllottedInTurn(decisions, p)[Cardinality(Proposed(decisions))].given
===============================================================================
