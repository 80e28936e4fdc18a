------------------------------ MODULE SignalWindow ------------------------------
(***************************************************************************)
(* What the signal library sees of one instrument at a decision time       *)
(* (window.py) and the features it computes from it (features.py).  A      *)
(* feature is the exact operands of its last division, root or logarithm:  *)
(* two windows with the same operands give the same number.                *)
(***************************************************************************)
EXTENDS Integers, FiniteSets, SequencesExt, FiniteSetsExt

CONSTANTS
  Lookbacks,    \* short, middle and long, in ticks: 5 and 15 minutes and an hour
  MinBuckets,   \* buckets a z-score needs
  MinReturns    \* returns a volatility needs

NoSequence == -1

Unavailable(reason) == [available |-> FALSE, reason |-> reason]
Value(operands) == [available |-> TRUE, operands |-> operands]

-------------------------------------------------------------------------------
(* window.py: what had been received by asOf, in a total order.                          *)

HappenedBy(events, asOf) == SelectSeq(events, LAMBDA e : e.kind # "trade" \/ e.time <= asOf)

Knowable(events, asOf) == SelectSeq(events, LAMBDA e : e.received <= asOf)

\* Lexicographic order of two keys of one length.
Precedes(k, l) ==
  \E i \in DOMAIN k : k[i] < l[i] /\ \A j \in 1..(i - 1) : k[j] = l[j]

Side(aggressor) == CASE aggressor = "buy" -> 1 [] aggressor = "sell" -> 2 [] OTHER -> 3

TradeTime(t) == <<t.received>>

TradeKey(t) == <<t.received, t.seq, t.time, t.price, t.quantity, Side(t.aggressor)>>

QuoteKey(q) == <<q.received, q.seq, q.bid, q.ask, q.bidSize, q.askSize>>
CandleKey(c) == <<c.close, c.open, c.price, c.quantity>>

\* A stable sort: what compares equal keeps the order it was delivered in.
SortedBy(events, Key(_)) ==
  LET Before(i, j) == \/ Precedes(Key(events[i]), Key(events[j]))
                      \/ (Key(events[i]) = Key(events[j]) /\ i < j)
      order == SetToSortSeq(DOMAIN events, Before)
  IN  [i \in DOMAIN events |-> events[order[i]]]

Window(symbol, events, asOf) ==
  LET known == Knowable(events, asOf)
      Of(kind) == SelectSeq(known, LAMBDA e : e.symbol = symbol /\ e.kind = kind)
  IN  [symbol |-> symbol, asOf |-> asOf,
       trades |-> SortedBy(Of("trade"), TradeKey),
       quotes |-> SortedBy(Of("quote"), QuoteKey),
       candles |-> SortedBy(SelectSeq(Of("candle"), LAMBDA c : c.closed), CandleKey)]

TradesWithin(w, lookback) == SelectSeq(w.trades, LAMBDA t : t.received > w.asOf - lookback)

Covers(w, lookback) ==
  LET stamps == {t.received : t \in Range(w.trades)} \cup {q.received : q \in Range(w.quotes)}
                \cup {c.close : c \in Range(w.candles)}
  IN  stamps # {} /\ w.asOf - Min(stamps) >= lookback

-------------------------------------------------------------------------------
(* features.py *)

Total(trades, F(_)) == FoldLeft(LAMBDA sum, t : sum + F(t), 0, trades)
Quantity(t) == t.quantity

SimpleReturn(w, lookback) ==
  LET earlier == SelectSeq(w.trades, LAMBDA t : t.received <= w.asOf - lookback)
  IN  IF w.trades = <<>> THEN Unavailable("no trades in window")
      ELSE IF ~Covers(w, lookback) THEN Unavailable("window too short")
      ELSE IF earlier = <<>> THEN Unavailable("no trade at or before the lookback boundary")
      ELSE Value(<<Last(w.trades).price, Last(earlier).price>>)

Vwap(w, lookback) ==
  LET trades == TradesWithin(w, lookback)
  IN  IF trades = <<>> THEN Unavailable("no trades in lookback")
      ELSE Value(<<Total(trades, LAMBDA t : t.price * t.quantity), Total(trades, Quantity)>>)

TradedVolume(w, lookback) ==
  LET trades == TradesWithin(w, lookback)
  IN  IF trades = <<>> THEN Unavailable("no trades in lookback")
      ELSE Value(<<Total(trades, Quantity)>>)

\* Buckets are anchored at the decision time, newest first.
VolumeZscore(w, lookback, bucket) ==
  LET count == lookback \div bucket
      volumes == [i \in 1..count |->
                    Total(SelectSeq(w.trades, LAMBDA t : /\ t.received > w.asOf - bucket * i
                                                         /\ t.received <= w.asOf - bucket * (i - 1)),
                          Quantity)]
  IN  IF ~Covers(w, lookback) THEN Unavailable("window too short")
      ELSE IF count < MinBuckets THEN Unavailable("too few buckets")
      ELSE IF Cardinality(Range(volumes)) = 1 THEN Unavailable("zero variance in the baseline")
      ELSE Value(volumes)

RealizedVolatility(w, lookback) ==
  LET trades == TradesWithin(w, lookback)
  IN  IF Len(trades) < MinReturns + 1 THEN Unavailable("too few trades")
      ELSE IF ~Covers(w, lookback) THEN Unavailable("window too short")
      ELSE Value([i \in 1..(Len(trades) - 1) |-> <<trades[i + 1].price, trades[i].price>>])

SpreadBps(w) ==
  IF w.quotes = <<>> THEN Unavailable("no quote in window")
  ELSE Value(<<Last(w.quotes).ask - Last(w.quotes).bid, Last(w.quotes).ask + Last(w.quotes).bid>>)

BookImbalance(w) ==
  IF w.quotes = <<>> THEN Unavailable("no quote in window")
  ELSE IF Last(w.quotes).bidSize + Last(w.quotes).askSize = 0 THEN Unavailable("empty book")
  ELSE Value(<<Last(w.quotes).bidSize, Last(w.quotes).askSize>>)

Signed(t) == CASE t.aggressor = "buy" -> t.quantity [] t.aggressor = "sell" -> -t.quantity
               [] OTHER -> 0

Attributed(trades) == SelectSeq(trades, LAMBDA t : t.aggressor # "unknown")

CumulativeVolumeDelta(w, lookback) ==
  IF Attributed(TradesWithin(w, lookback)) = <<>> THEN Unavailable("no attributed trade")
  ELSE Value(<<Total(TradesWithin(w, lookback), Signed)>>)

TakerBuyRatio(w, lookback) ==
  LET attributed == Attributed(TradesWithin(w, lookback))
  IN  IF attributed = <<>> THEN Unavailable("no attributed volume in lookback")
      ELSE Value(<<Total(SelectSeq(attributed, LAMBDA t : t.aggressor = "buy"), Quantity),
                   Total(attributed, Quantity)>>)

RelativeStrength(w, benchmark, lookback) ==
  LET asset == SimpleReturn(w, lookback)
      other == SimpleReturn(benchmark, lookback)
  IN  IF benchmark.symbol = w.symbol THEN Unavailable("its own benchmark")
      ELSE IF ~asset.available \/ ~other.available THEN Unavailable("a return is unavailable")
      ELSE Value(<<asset.operands, other.operands>>)

\* engine.py: every registered feature, available or not, for windows of one decision time.
Features(w, benchmark) ==
  [return_5m |-> SimpleReturn(w, Lookbacks.short),
   return_15m |-> SimpleReturn(w, Lookbacks.middle),
   return_1h |-> SimpleReturn(w, Lookbacks.long),
   vwap_15m |-> Vwap(w, Lookbacks.middle),
   volume_15m |-> TradedVolume(w, Lookbacks.middle),
   volume_zscore_1h |-> VolumeZscore(w, Lookbacks.long, Lookbacks.short),
   realized_volatility_15m |-> RealizedVolatility(w, Lookbacks.middle),
   realized_volatility_1h |-> RealizedVolatility(w, Lookbacks.long),
   spread_bps |-> SpreadBps(w),
   book_imbalance |-> BookImbalance(w),
   cvd_15m |-> CumulativeVolumeDelta(w, Lookbacks.middle),
   taker_buy_ratio_15m |-> TakerBuyRatio(w, Lookbacks.middle),
   relative_strength_1h |-> RelativeStrength(w, benchmark, Lookbacks.long)]
===============================================================================
