------------------------------- MODULE StreamHealth -------------------------------
(***************************************************************************)
(* What a venue parser makes of a frame (binance.py, coinbase.py) and what *)
(* the health monitor makes of the event (health.py).  A frame carries a   *)
(* kind, a symbol, a sequence number and its fields; "shape" says whether  *)
(* the fields are there and sensible: "whole", "partial" (missing or not   *)
(* positive) or "odd" (accepted by the parser's own checks, refused by the *)
(* domain type it builds).                                                 *)
(***************************************************************************)
EXTENDS SignalWindow

CONSTANTS
  Venue,         \* "binance" or "coinbase"
  Subscribed,    \* the symbols of the instrument map
  DelayedAfter, StaleAfter   \* ticks without a message

NoTime == -1

Control == [outcome |-> "control"]
Skipped == [outcome |-> "skipped"]
Raised == [outcome |-> "raised"]

\* Both venues name the maker's side: the aggressor took the other one.
Aggressor(maker) ==
  CASE maker = "buyer" -> "sell" [] maker = "seller" -> "buy" [] OTHER -> "unknown"

\* The kinds a venue's parser knows; Coinbase publishes no candles.
Parsed == [binance |-> {"trade", "quote", "candle"}, coinbase |-> {"trade", "quote"}]

EventOf(frame, now) ==
  CASE frame.kind = "trade" ->
         [kind |-> "trade", symbol |-> frame.symbol, received |-> now, seq |-> frame.seq,
          time |-> frame.time, price |-> frame.price, quantity |-> frame.quantity,
          aggressor |-> Aggressor(frame.maker)]
    [] frame.kind = "quote" ->
         [kind |-> "quote", symbol |-> frame.symbol, received |-> now, seq |-> frame.seq,
          time |-> IF Venue = "binance" THEN NoTime ELSE frame.time,
          bid |-> frame.bid, ask |-> frame.ask, bidSize |-> frame.bidSize, askSize |-> frame.askSize]
    [] frame.kind = "candle" ->
         [kind |-> "candle", symbol |-> frame.symbol, received |-> now, seq |-> NoSequence,
          open |-> frame.open, close |-> frame.close, price |-> frame.price,
          quantity |-> frame.quantity, closed |-> frame.closed]

Parse(frame, now) ==
  CASE frame.kind = "control" -> Control
    [] frame.kind \notin Parsed[Venue] \/ frame.symbol \notin Subscribed -> Skipped
    [] frame.shape = "partial" -> Skipped
    [] frame.kind = "quote" /\ frame.bid >= frame.ask -> Skipped
    [] frame.shape = "odd" -> IF frame.kind = "candle" THEN Skipped ELSE Raised
    [] OTHER -> [outcome |-> "event", event |-> EventOf(frame, now)]

-------------------------------------------------------------------------------
(* health.py *)

Fresh ==
  [messages |-> 0, at |-> NoTime, seq |-> NoSequence, gaps |-> 0, missed |-> 0,
   duplicates |-> 0, reordered |-> 0, reconnects |-> 0, reconnecting |-> FALSE]

ClassifyEqualOnly(health, seq) ==
  CASE seq = NoSequence        -> "not_sequenced"
    [] health.seq = NoSequence -> "first"
    [] seq = health.seq + 1    -> "ok"
    [] seq = health.seq        -> "duplicate"
    [] OTHER                   -> "gap"

Classify(health, seq) ==
  CASE seq = NoSequence        -> "not_sequenced"
    [] health.seq = NoSequence -> "first"
    [] seq = health.seq + 1    -> "ok"
    [] seq = health.seq        -> "duplicate"
    [] seq < health.seq        -> "out_of_order"
    [] OTHER                   -> "gap"

ShouldProcess(verdict) == verdict \in {"ok", "first", "gap", "not_sequenced"}

Skip(health, seq) == seq - health.seq

Between(health, seq) == seq - health.seq - 1

Counted(health, verdict, seq) ==
  CASE verdict = "gap" -> [health EXCEPT !.gaps = @ + 1, !.missed = @ + Between(health, seq)]
    [] verdict = "duplicate" -> [health EXCEPT !.duplicates = @ + 1]
    [] verdict = "out_of_order" -> [health EXCEPT !.reordered = @ + 1]
    [] OTHER -> health

Observe(health, seq, now) ==
  LET verdict == Classify(health, seq)
      counted == Counted(health, verdict, seq)
  IN  IF ~ShouldProcess(verdict) THEN counted
      ELSE [counted EXCEPT !.messages = @ + 1, !.reconnecting = FALSE, !.at = now,
                           !.seq = IF seq = NoSequence THEN @ ELSE seq]

StaysLive(health) == [health EXCEPT !.reconnects = @ + 1, !.seq = NoSequence]

\* The baseline is forgotten: the venue may resume anywhere.
RecordReconnect(health) ==
  [health EXCEPT !.reconnects = @ + 1, !.reconnecting = TRUE, !.seq = NoSequence]

State(health, now) ==
  CASE health.reconnecting -> "reconnecting"
    [] health.at = NoTime -> "unknown"
    [] now - health.at >= StaleAfter -> "stale"
    [] now - health.at >= DelayedAfter -> "delayed"
    [] OTHER -> "live"

Usable(health, now) == State(health, now) \in {"live", "delayed"}
===============================================================================
