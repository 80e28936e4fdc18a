------------------------------- MODULE ReplayGate -------------------------------
(***************************************************************************)
(* The risk gate of a reference backtest (risk_replay.py): for each signal *)
(* of the strategy it builds a portfolio from the simulator's account, a   *)
(* request and a risk session of its own, evaluates the request, takes the *)
(* handoff and keeps a receipt.                                            *)
(*                                                                         *)
(* The session, its evaluator and its search for a size are those of the   *)
(* paper account (RiskSession).  A bar has a close, a volume, the time of  *)
(* the event and the time it was ingested, which is the time of everything *)
(* decided on it.                                                          *)
(***************************************************************************)
EXTENDS RiskSession

CONSTANTS
  Instrument,     \* the one instrument of a reference run
  SpreadBps,      \* spread_crossing_bps of the cost model
  SizeIncrement   \* size_increment of the strategy

ASSUME ReplayAssumption == SpreadBps \in 0..SlipBps /\ SizeIncrement \in Nat \ {0}

Larger(a, b) == IF a < b THEN b ELSE a
Lots(quantity) == (quantity \div SizeIncrement) * SizeIncrement
LastOf(s) == s[Len(s)]

\* Decimal.quantize: to the nearest unit, a tie to the even one.
Quantized(scaled) ==
  LET q == scaled \div BpsDen
      twice == 2 * (scaled % BpsDen)
  IN  IF twice > BpsDen \/ (twice = BpsDen /\ q % 2 = 1) THEN q + 1 ELSE q

Bid(close) == Quantized(close * BpsDen - Larger(close * SpreadBps, Tick * BpsDen))
Ask(close) == Quantized(close * BpsDen + Larger(close * SpreadBps, Tick * BpsDen))

(* The gate finds a bar by its ingestion time: of several with one time it has the last. *)
Source(bars, bar) ==
  LET same == {i \in DOMAIN bars : bars[i].ingested = bar.ingested}
  IN  bars[CHOOSE i \in same : \A j \in same : j <= i]

EquityAt(account, close) == account.cash + account.quantity * close

\* _portfolio, from the account the simulator owns.
Portfolio(account, bar, peak) ==
  LET held == IF account.quantity > 0 THEN {Instrument} ELSE {}
  IN  [cash       |-> account.cash,
       equity     |-> EquityAt(account, bar.close),
       exposure   |-> [k \in held |-> account.quantity * bar.close],
       quantity   |-> [k \in held |-> account.quantity],
       realized   |-> account.realized,
       peak       |-> Larger(peak, EquityAt(account, bar.close)),
       openOrders |-> 0,   \* an order on its way to the venue is not an open one
       reconciled |-> TRUE,
       asOf       |-> bar.ingested]

Validity == Larger(Larger(QuoteAge, PortfolioAge), ApprovalAge) + 1

Controls(replay, bar) ==
  [version |-> 1, token |-> 1, halted |-> replay.halted, asOf |-> bar.ingested,
   validUntil |-> bar.ingested + Validity, leaseExpires |-> bar.ingested + Validity]

(* What an exit asks for: the whole holding at the price the evaluator will assume, down to a
   multiple of the notional increment.                                                       *)
ExitNotional(held, bar) ==
  ((held * WorstPrice("sell", Bid(bar.close))) \div Increment) * Increment

Request(replay, bar, side, notional) ==
  [intent     |-> [at |-> bar.ingested, side |-> side],
   decision   |-> [at |-> bar.ingested, side |-> side],
   side       |-> side,
   instrument |-> Instrument,
   notional   |-> notional,
   expires    |-> bar.ingested + ApprovalAge,
   observed   |-> bar.ingested,
   bid        |-> Bid(bar.close),
   ask        |-> Ask(bar.close),
   size       |-> bar.volume,
   sound      |-> replay.sound]

Outcome(request, session) ==
  LET entry == session.entries[1]
      now == request.observed
  IN  CASE request.notional = 0          -> "unavailable"   \* a request of nothing is refused
        [] entry.approved = 0            -> "risk_rejected"
        [] ~Issues(session, 1, 1, now)   -> "handoff_refused"
        [] Lots(entry.quantity) = 0      -> "below_minimum_order_size"
        [] OTHER                         -> "handed_off"

\* _attempt: the receipt of one signal.
Attempt(replay, bars, bar, account, peak, side, requested) ==
  LET source == Source(bars, bar)
      notional == IF side = "sell" THEN ExitNotional(requested \div source.close, source)
                                   ELSE requested
      request == Request(replay, source, side, notional)
      fresh == NewSession(Portfolio(account, source, peak), Controls(replay, source))
      session == Evaluate(fresh, request, source.ingested)
      outcome == Outcome(request, session)
  IN  [at       |-> bar.ingested,
       side     |-> side,
       outcome  |-> outcome,
       request  |-> request,
       session  |-> session,
       quantity |-> IF outcome = "handed_off" THEN Lots(session.entries[1].quantity) ELSE 0]

\* What a receipt has to be for its construction not to raise.
Consistent(receipt) ==
  LET approved == receipt.session.entries[1].approved > 0
  IN  /\ receipt.outcome = "risk_rejected" => ~approved
      /\ receipt.outcome \in {"handed_off", "handoff_refused", "below_minimum_order_size"} => approved
      /\ (receipt.outcome = "handed_off") = (receipt.quantity > 0)
      /\ receipt.quantity <= receipt.session.entries[1].quantity

\* BacktestRiskAudit: in order, and no intent twice.
Sealable(receipts) ==
  \A i, j \in DOMAIN receipts :
    i < j => /\ receipts[i].at <= receipts[j].at
             /\ receipts[i].request.intent # receipts[j].request.intent
=============================================================================
