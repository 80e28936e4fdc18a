-------------------------------- MODULE Backtest --------------------------------
(***************************************************************************)
(* One backtest run: the definition is validated (run.py), the adapter     *)
(* refuses it or loads its bars, the reference strategy trades them on the *)
(* simulator through the risk gate (engine.py, ReplayGate), and the fills  *)
(* become the figures of a result.                                         *)
(*                                                                         *)
(* The content of a dataset is its sequence of bars; a hash names one      *)
(* content, so two hashes are equal when the contents are.  What the       *)
(* simulator does is external: the relation of the two averages at a bar,  *)
(* whether an order is denied, the price of a fill and how many pieces an  *)
(* order is filled in are chosen freely.  Figures are in BpsDen-ths of a   *)
(* unit, in which the slippage of a fill is exact.                         *)
(***************************************************************************)
EXTENDS ReplayGate

CONSTANTS
  Definitions,    \* the run definitions that are submitted
  Replacements,   \* contents a catalog object may be replaced with
  SlowPeriod,     \* slow_period of the strategy
  Day,            \* how long one UTC day is
  MaxReceipts,    \* MAX_RISK_RECEIPTS
  MinObservations \* min_observations_for_ratios

Bar == [event : Nat, ingested : Nat, close : Nat \ {0}, volume : Nat]

ASSUME BacktestAssumption ==
  /\ {SlowPeriod, MaxReceipts, MinObservations} \subseteq Nat
  /\ Day \in Nat \ {0}
  /\ \A c \in Definitions :
       /\ c.content \in Seq(Bar)
       /\ {c.start, c.end, c.notional, c.manifest.frozen, c.manifest.lastIngested} \subseteq Nat
  /\ Replacements \subseteq Seq(Bar)

VARIABLES
  phase,      \* "defined", "valid", "running", "ended"
  run,        \* the run definition
  object,     \* what the catalog holds under the definition's key
  bars,       \* the bars the engine was given
  published,  \* how many of them the strategy was given
  strategy,   \* signal_long, the approvals it asked for and the orders it submitted
  venue,      \* the simulator's account, the orders under way and the fills
  gate,       \* the peak equity, the receipts and counters of ReferenceRiskGate
  result

backtestVars == <<phase, run, object, bars, published, strategy, venue, gate, result>>

NoResult == [status |-> "none"]

-------------------------------------------------------------------------------
(* What a run definition must be, and what its bars must be *)

\* The definition as it was submitted (run.py, governance.py).
Coherent(c) ==
  /\ c.balance > 0
  /\ c.coherent                          \* universe, currencies, benchmark, policies and rates agree
  /\ (c.source = "none") = ~c.strategy
  /\ c.gated => c.strategy /\ c.versioned <= c.start

Ordered(bs) ==
  \A i \in 1..Len(bs) - 1 :
    bs[i].event < bs[i + 1].event /\ bs[i].ingested <= bs[i + 1].ingested

\* validate_bars, and the frozen manifest's sources.
Bound(c, bs) ==
  /\ c.content = c.manifest.content /\ Len(bs) = c.manifest.rows
  /\ Len(bs) >= SlowPeriod + 2
  /\ \A i \in DOMAIN bs : /\ c.start <= bs[i].event /\ bs[i].event <= c.end
                          /\ bs[i].ingested <= c.manifest.frozen
  /\ c.notional >= bs[1].close * SizeIncrement
  /\ c.manifest.lastIngested >= LastOf(bs).ingested
  /\ c.gated => \A i \in DOMAIN bs : bs[i].ingested \div Day = bs[1].ingested \div Day

\* leakage_findings
LeakageFindings(c) ==
  {f \in {"not_point_in_time", "contains_provider_revisions", "ingested_after_period",
          "event_after_period"} :
     \/ f = "not_point_in_time" /\ c.manifest.basis # "ingested_at"
     \/ f = "contains_provider_revisions" /\ c.manifest.revised
     \/ f = "ingested_after_period" /\ c.manifest.lastIngested > c.end
     \/ f = "event_after_period" /\ c.manifest.lastEvent > c.end}

Limitations(c) ==
  {"bar_data", "entitlement_not_verified", "reference_strategy", c.source}
    \cup IF c.gated THEN {} ELSE {"risk_not_replayed"}

LoadedUnverified(c, content) == content # <<>> /\ Ordered(content)

\* LocalParquetBarCatalog.load: the bytes that were hashed are the bytes that are parsed.
Loaded(c, content) == content = c.content /\ Ordered(content)

-------------------------------------------------------------------------------
(* The figures (_metrics, compute_metrics) *)

Opening == [cash |-> run.balance * BpsDen, position |-> 0, trades |-> <<>>,
            open |-> FALSE, entry |-> [price |-> 0, fee |-> 0, slippage |-> 0]]

Slippage(f) == f.price * f.quantity * SlipBps

TradeWithoutEntryFee(entry, f) ==
  LET gross == (f.price - entry.price) * f.quantity * BpsDen
  IN  [fees |-> f.fee * BpsDen, net |-> gross - f.fee * BpsDen - entry.slippage - Slippage(f)]

Trade(entry, f) ==
  LET gross == (f.price - entry.price) * f.quantity * BpsDen
      fees == (entry.fee + f.fee) * BpsDen
  IN  [fees |-> fees, net |-> gross - fees - entry.slippage - Slippage(f)]

Booked(book, f) ==
  LET amount == f.price * f.quantity * BpsDen
      charges == f.fee * BpsDen + Slippage(f)
  IN  IF f.side = "buy"
      THEN [book EXCEPT !.cash = @ - amount - charges, !.position = @ + f.quantity,
                        !.open = TRUE,
                        !.entry = [price |-> f.price, fee |-> f.fee, slippage |-> Slippage(f)]]
      ELSE [book EXCEPT !.cash = @ + amount - charges, !.position = @ - f.quantity,
                        !.open = FALSE,
                        !.trades = IF book.open THEN Append(@, Trade(book.entry, f)) ELSE @]

\* The book when the fills up to bar i have been taken in.
BookAt(i) ==
  FoldLeft(Booked, Opening, SelectSeq(venue.fills, LAMBDA f : f.time <= bars[i].ingested))

\* The equity curve: the starting balance, then one point per bar.
Curve ==
  LET Point(i) == LET book == BookAt(i) IN book.cash + book.position * bars[i].close * BpsDen
  IN  FoldLeft(LAMBDA curve, i : Append(curve, Point(i)), <<Opening.cash>>, [i \in DOMAIN bars |-> i])

RunningPeak(curve, i) == CHOOSE e \in {curve[j] : j \in 1..i} : \A j \in 1..i : curve[j] <= e

\* The largest decline from a running peak, as a fraction of that peak.
Drawdown(curve) ==
  LET declines == {[drop |-> RunningPeak(curve, i) - curve[i], peak |-> RunningPeak(curve, i)] :
                     i \in DOMAIN curve}
  IN  CHOOSE d \in declines : \A e \in declines : e.drop * d.peak <= d.drop * e.peak

\* No two of these periods have different returns.
SameReturns(curve, periods) ==
  \A i, j \in periods : curve[i + 1] * curve[j] = curve[j + 1] * curve[i]

(* What the sample cannot support, by name; a ratio is reported when its name is not here. *)
Unavailable(curve, trades) ==
  LET periods == {i \in 1..Len(curve) - 1 : curve[i] > 0}
      losing == {i \in periods : curve[i + 1] < curve[i]}
      few == Cardinality(periods) < MinObservations
  IN  {m \in {"volatility", "expected_shortfall_5pct", "downside_volatility", "sharpe", "sortino",
              "win_rate", "profit_factor", "average_exposure"} :
         \/ m \in {"volatility", "expected_shortfall_5pct"} /\ few
         \/ m = "downside_volatility" /\ (few \/ Cardinality(losing) < 2)
         \/ m = "sharpe" /\ (few \/ SameReturns(curve, periods))
         \/ m = "sortino" /\ (few \/ Cardinality(losing) < 2 \/ SameReturns(curve, losing))
         \/ m = "win_rate" /\ trades = <<>>
         \/ m = "profit_factor" /\ \A t \in ToSet(trades) : t.net >= 0
         \/ m = "average_exposure" /\ \A i \in DOMAIN curve : curve[i] = 0}

Metrics ==
  LET curve == Curve
      book == BookAt(Len(bars))
      trades == book.trades
  IN  [starting |-> curve[1], ending |-> LastOf(curve), peak |-> RunningPeak(curve, Len(curve)),
       drawdown |-> Drawdown(curve), position |-> book.position,
       fees |-> FoldLeft(LAMBDA sum, f : sum + f.fee, 0, venue.fills),
       benchmark |-> [first |-> bars[1].close, last |-> LastOf(bars).close],
       trades |-> trades, unavailable |-> Unavailable(curve, trades),
       wins |-> Len(SelectSeq(trades, LAMBDA t : t.net > 0)),
       losses |-> Len(SelectSeq(trades, LAMBDA t : t.net < 0))]

EmptyMetrics ==
  [starting |-> Opening.cash, ending |-> Opening.cash, peak |-> Opening.cash,
   drawdown |-> [drop |-> 0, peak |-> Opening.cash], position |-> 0, fees |-> 0,
   benchmark |-> [first |-> 0, last |-> 0], trades |-> <<>>,
   unavailable |-> Unavailable(<<Opening.cash, Opening.cash>>, <<>>), wins |-> 0, losses |-> 0]

-------------------------------------------------------------------------------
BacktestInit ==
  /\ phase = "defined"
  /\ run \in Definitions
  /\ object = run.content
  /\ bars = <<>> /\ published = 0
  /\ strategy = [long |-> FALSE, asked |-> <<>>, orders |-> <<>>]
  /\ venue = [cash |-> 0, quantity |-> 0, cost |-> 0, realized |-> 0, underWay |-> <<>>,
              fills |-> <<>>]
  /\ gate = [peak |-> 0, receipts |-> <<>>, evaluations |-> 0, approvals |-> 0, failed |-> FALSE]
  /\ result = NoResult

\* The definition is constructed, or construction raises and there is no run.
Define ==
  /\ phase = "defined"
  /\ phase' = IF Coherent(run)
                 /\ (run.source = "inline" => Ordered(run.content) /\ Bound(run, run.content))
              THEN "valid" ELSE "ended"
  /\ UNCHANGED <<run, object, bars, published, strategy, venue, gate, result>>

\* Somebody replaces the file in the catalog between the definition and the run.
ReplaceObject ==
  /\ phase = "valid" /\ run.source = "catalog"
  /\ object' \in Replacements
  /\ UNCHANGED <<phase, run, bars, published, strategy, venue, gate, result>>

Refuse(findings) ==
  /\ phase' = "ended"
  /\ result' = [status |-> "refused", findings |-> findings]

Mismatched == run.gated /\ ~run.bundleMatches

\* adapter.run, up to the first bar.
RefuseRun ==
  /\ phase = "valid"
  /\ \/ LeakageFindings(run) # {} /\ Refuse(LeakageFindings(run))
     \/ /\ LeakageFindings(run) = {} /\ Mismatched
        /\ Refuse({"risk_replay_bundle_mismatch"})
     \/ /\ LeakageFindings(run) = {} /\ ~Mismatched /\ run.source = "catalog"
        /\ \/ ~run.worker /\ Refuse({"catalog_unconfigured"})
           \/ /\ run.worker /\ ~(Loaded(run, object) /\ Bound(run, object))
              /\ Refuse({"catalog_integrity_invalid"})
  /\ UNCHANGED <<run, object, bars, published, strategy, venue, gate>>

\* Without data the engine is built and disposed of, and the result says so little.
Diagnose ==
  /\ phase = "valid" /\ LeakageFindings(run) = {} /\ ~Mismatched /\ run.source = "none"
  /\ phase' = "ended"
  /\ result' = [status |-> "completed", limitations |-> {}, evaluations |-> 0, approvals |-> 0,
                orders |-> 0, receipts |-> <<>>, metrics |-> EmptyMetrics]
  /\ UNCHANGED <<run, object, bars, published, strategy, venue, gate>>

StartRun ==
  /\ phase = "valid" /\ LeakageFindings(run) = {} /\ ~Mismatched
  /\ \/ run.source = "inline" /\ bars' = run.content
     \/ /\ run.source = "catalog" /\ run.worker
        /\ Loaded(run, object) /\ Bound(run, object)
        /\ bars' = object
  /\ phase' = "running"
  /\ venue' = [venue EXCEPT !.cash = run.balance]
  /\ gate' = [gate EXCEPT !.peak = run.balance]
  /\ UNCHANGED <<run, object, published, strategy, result>>

-------------------------------------------------------------------------------
(* The simulator: external, as far as the adapter can see it *)

\* The bar an order meets: the one it was decided on, or the next that is late enough.
Meets == IF run.latency = 0 THEN published ELSE published + 1

Arrived ==
  /\ venue.underWay # <<>> /\ Meets <= Len(bars)
  /\ bars[Meets].ingested >= Head(venue.underWay).at + run.latency

\* The last price, or one tick worse.
FillPrices(side) ==
  LET close == bars[Meets].close
  IN  {close, IF side = "buy" THEN close + Tick ELSE Larger(close - Tick, 1)}

\* An order is filled at once or in two pieces.
Pieces(order) ==
  {order.quantity} \cup IF order.whole /\ order.quantity > 1 THEN {order.quantity \div 2} ELSE {}

AccountAfter(v, f) ==
  LET basis == IF f.side = "buy" THEN 0 ELSE (v.cost * f.quantity) \div v.quantity
      gross == f.price * f.quantity
  IN  IF f.side = "buy"
      THEN [v EXCEPT !.cash = @ - gross - f.fee, !.quantity = @ + f.quantity,
                     !.cost = @ + gross, !.realized = @ - f.fee]
      ELSE [v EXCEPT !.cash = @ + gross - f.fee, !.quantity = @ - f.quantity,
                     !.cost = @ - basis, !.realized = @ + gross - basis - f.fee]

Affordable(f) == IF f.side = "buy" THEN f.price * f.quantity + f.fee <= venue.cash
                                   ELSE f.quantity <= venue.quantity

FillOrder ==
  /\ phase = "running" /\ Arrived
  /\ LET order == Head(venue.underWay)
         rest(q) == IF q = order.quantity THEN Tail(venue.underWay)
                    ELSE <<[order EXCEPT !.quantity = @ - q, !.whole = FALSE]>>
                           \o Tail(venue.underWay)
     IN  \E price \in FillPrices(order.side), q \in Pieces(order) :
           LET f == [side |-> order.side, price |-> price, quantity |-> q,
                     fee |-> Fee(price * q), time |-> bars[Meets].ingested]
           IN  /\ Affordable(f)
               /\ venue' = [AccountAfter(venue, f) EXCEPT !.underWay = rest(q),
                                                     !.fills = Append(@, f)]
  /\ UNCHANGED <<phase, run, object, bars, published, strategy, gate, result>>

DenyOrder ==
  /\ phase = "running" /\ Arrived
  /\ venue' = [venue EXCEPT !.underWay = Tail(@)]
  /\ UNCHANGED <<phase, run, object, bars, published, strategy, gate, result>>

-------------------------------------------------------------------------------
(* The strategy, and its gate *)

PeakMissed(bar) == gate

\* observe
PeakTaken(bar) == [gate EXCEPT !.peak = Larger(@, EquityAt(venue, Source(bars, bar).close))]

ApproveDroppingReceipts(g, bar, side, requested) ==
  LET receipt == Attempt(run, bars, bar, venue, g.peak, side, requested)
  IN  IF Len(g.receipts) >= MaxReceipts THEN g
      ELSE [g EXCEPT !.receipts = Append(@, receipt),
                     !.evaluations = @ + 1,
                     !.approvals = IF receipt.quantity > 0 THEN @ + 1 ELSE @]

(* approve: the receipt of an attempt and what it lets through; a journal that cannot take the
   receipt ends all trading.                                                                  *)
Approve(g, bar, side, requested) ==
  LET receipt == Attempt(run, bars, bar, venue, g.peak, side, requested)
  IN  IF g.failed THEN g
      ELSE IF Len(g.receipts) >= MaxReceipts \/ ~Consistent(receipt)
      THEN [g EXCEPT !.failed = TRUE]
      ELSE [g EXCEPT !.receipts = Append(@, receipt),
                     !.evaluations = @ + 1,
                     !.approvals = IF receipt.quantity > 0 THEN @ + 1 ELSE @]

\* What the last approval lets through.
Admitted(after) ==
  IF Len(after.receipts) > Len(gate.receipts) THEN LastOf(after.receipts).quantity ELSE 0

Smaller(a, b) == IF a < b THEN a ELSE b

Asked(bar, side) ==
  IF run.gated THEN Append(strategy.asked, [at |-> bar.ingested, side |-> side])
               ELSE strategy.asked

SendOrder(bar, side, quantity) ==
  LET order == [side |-> side, quantity |-> quantity, at |-> bar.ingested, whole |-> TRUE]
  IN  /\ strategy' = [long |-> side = "buy", asked |-> Asked(bar, side),
                      orders |-> Append(strategy.orders, order)]
      /\ venue' = [venue EXCEPT !.underWay = Append(@, order)]

HoldBack(bar, side) ==
  strategy' = [strategy EXCEPT !.long = side = "buy", !.asked = Asked(bar, side)] /\ UNCHANGED venue

ActUncapped(bar, side, wanted, requested) ==
  \E after \in {IF run.gated THEN Approve(PeakTaken(bar), bar, side, requested) ELSE PeakTaken(bar)} :
    /\ gate' = after
    /\ IF run.gated /\ Admitted(after) = 0 THEN HoldBack(bar, side) ELSE SendOrder(bar, side, wanted)

(* A signal that calls for an order: without a gate it is submitted as wanted; with one, for
   what the gate lets through and never for more than is held.                              *)
Act(bar, side, wanted, requested) ==
  \E after \in {IF run.gated THEN Approve(PeakTaken(bar), bar, side, requested) ELSE PeakTaken(bar)} :
    /\ gate' = after
    /\ IF ~run.gated THEN SendOrder(bar, side, wanted)
       ELSE IF Admitted(after) = 0 THEN HoldBack(bar, side)
       ELSE SendOrder(bar, side, IF side = "sell" THEN Smaller(wanted, Admitted(after))
                                               ELSE Admitted(after))

Idle(bar, long) ==
  strategy' = [strategy EXCEPT !.long = long] /\ gate' = PeakTaken(bar) /\ UNCHANGED venue

EntryQuantity == Lots(run.notional \div bars[1].close)

(* on_bar: the averages exist from the slow period on; a signal is used up whether or not the
   order it calls for is let through.                                                        *)
OnBar ==
  /\ phase = "running" /\ published < Len(bars) /\ ~Arrived
  /\ published' = published + 1
  /\ LET bar == bars[published + 1]
         flat == venue.quantity = 0
     IN  \E signal \in IF published + 1 < SlowPeriod THEN {"none"} ELSE {"above", "below", "none"} :
           LET enters == signal = "above" /\ ~strategy.long
               leaves == signal = "below" /\ strategy.long
           IN  \/ ~enters /\ ~leaves /\ Idle(bar, strategy.long)
               \/ enters /\ ~flat /\ Idle(bar, TRUE)
               \/ leaves /\ flat /\ Idle(bar, FALSE)
               \/ enters /\ flat /\ Act(bar, "buy", EntryQuantity, run.notional)
               \/ leaves /\ ~flat /\ Act(bar, "sell", venue.quantity, venue.quantity * bar.close)
  /\ UNCHANGED <<phase, run, object, bars, result>>

\* The receipts that let an order through.
Admitting(receipts) == {i \in DOMAIN receipts : receipts[i].quantity > 0}

\* BacktestResult's own checks of its counters against the journal.
Constructible(r) ==
  /\ r.approvals <= r.evaluations
  /\ r.evaluations = Len(r.receipts)
  /\ r.approvals = Cardinality(Admitting(r.receipts))
  /\ Sealable(r.receipts)

Completed ==
  [status |-> "completed", limitations |-> Limitations(run),
   evaluations |-> gate.evaluations, approvals |-> gate.approvals,
   orders |-> Len(strategy.orders), receipts |-> gate.receipts, metrics |-> Metrics]

\* The result of a run that was simulated; one that cannot be constructed raises.
EndRun ==
  /\ phase = "running" /\ published = Len(bars) /\ ~Arrived
  /\ phase' = "ended"
  /\ result' = IF gate.failed
               THEN [status |-> "refused", findings |-> {"risk_audit_unavailable"}]
               ELSE IF Constructible(Completed) THEN Completed ELSE NoResult
  /\ UNCHANGED <<run, object, bars, published, strategy, venue, gate>>

BacktestNext ==
  \/ Define \/ ReplaceObject \/ RefuseRun \/ Diagnose \/ StartRun
  \/ OnBar \/ FillOrder \/ DenyOrder \/ EndRun

BacktestSpec == BacktestInit /\ [][BacktestNext]_backtestVars
-------------------------------------------------------------------------------
(* No order of a gated run reaches the simulator without a handoff of its own, for no more than
   was handed off, which is no more than the evaluator approved; a refusal, a failed handoff and
   a full journal let nothing through (engine.py:93-104, 115-130; risk_replay.py:377-409).     *)
OrdersAreHandedOff ==
  LET handed == Admitting(gate.receipts)
      OrderOf(i) == strategy.orders[Cardinality({j \in handed : j <= i})]
  IN  run.gated =>
        /\ Len(strategy.orders) = Cardinality(handed)
        /\ \A i \in handed :
             LET r == gate.receipts[i]
                 entry == r.session.entries[1]
             IN  /\ OrderOf(i).side = r.side
                 /\ OrderOf(i).quantity <= r.quantity
                 /\ r.quantity <= entry.quantity
                 /\ entry.approved <= r.request.notional

(* Every run that was simulated is answered, and figures of a gated run come with one receipt for
   every approval the strategy asked for, in order: a journal that ran full ends in a refusal,
   neither in figures with a truncated journal nor in a result its own checks reject
   (risk_replay.py:385-409, engine.py:467-474, audit.py:151-171, run.py:335-360).              *)
AuditIsWhole ==
  /\ (phase = "ended" /\ bars # <<>>) => result.status # "none"
  /\ (result.status = "completed" /\ run.gated) =>
       [i \in DOMAIN result.receipts |->
          [at |-> result.receipts[i].at, side |-> result.receipts[i].side]] = strategy.asked

(* What is traded is what the gate decided, and what the gate decided is what is reported: both
   of the above (engine.py:93-130, 467-474; run.py:335-360).                                   *)
GateDecides == OrdersAreHandedOff /\ AuditIsWhole

(* Figures come only from the bars the manifest was frozen over, all of them knowable when it
   was frozen and within the period, whatever became of the catalog's file since the run was
   defined (manifest.py:136-190, catalog.py:105-139, run.py:140-194, engine.py:510-599).     *)
NoFigureFromTheFuture ==
  (result.status = "completed" /\ bars # <<>>) =>
    /\ bars = run.manifest.content
    /\ run.manifest.basis = "ingested_at" /\ ~run.manifest.revised
    /\ \A i \in DOMAIN bars : /\ bars[i].event \in run.start..run.end
                              /\ bars[i].ingested <= run.end
                              /\ bars[i].ingested <= run.manifest.frozen

(* An exit the policies did not reduce sells the whole holding: rounding the notional down and
   the quantity up again cancel out (risk_replay.py:438-455, evaluator.py:424-429).           *)
ExitsClose ==
  \A i \in DOMAIN gate.receipts :
    LET r == gate.receipts[i]
    IN  (r.side = "sell" /\ r.outcome = "handed_off"
         /\ r.session.entries[1].approved = r.request.notional) =>
          r.quantity = r.session.portfolio.quantity[Instrument]

(* The drawdown limit is applied to the true peak: no equity of the curve up to a signal is above the
   peak the drawdown limit was applied to at that signal (risk_replay.py:106-130, 146).        *)
PeakCoversTheCurve ==
  LET curve == Curve
  IN  \A i \in DOMAIN gate.receipts, j \in 1..published :
        LET r == gate.receipts[i]
        IN  bars[j].ingested <= r.at => curve[j + 1] <= r.session.portfolio.peak * BpsDen

Net(trades) == FoldLeft(LAMBDA sum, t : sum + t.net, 0, trades)
Slipped(fills) == FoldLeft(LAMBDA sum, f : sum + Slippage(f), 0, fills)

\* Each entry is filled at once and closed by one fill of the same size.
RoundTrips(fills) ==
  /\ Len(fills) % 2 = 0
  /\ \A i \in DOMAIN fills :
       /\ fills[i].side = (IF i % 2 = 1 THEN "buy" ELSE "sell")
       /\ i % 2 = 1 => fills[i + 1].quantity = fills[i].quantity

(* The reported equity is the simulator's account less the slippage charged on top, and when all
   orders were round trips filled in one piece the trades explain all of the profit
   (engine.py:166-255, metrics.py:214-349).                                                    *)
ProfitIsExplained ==
  (result.status = "completed" /\ bars # <<>>) =>
    LET m == result.metrics
    IN  /\ m.ending = EquityAt(venue, LastOf(bars).close) * BpsDen - Slipped(venue.fills)
        /\ RoundTrips(venue.fills) => m.ending - m.starting = Net(m.trades)

(* The figures the limits and the reader see are those of the simulated account.                *)
FiguresAddUp == PeakCoversTheCurve /\ ProfitIsExplained
=============================================================================
