------------------------------ MODULE RiskSession ------------------------------
(***************************************************************************)
(* The paper account gate (session.py) and its evaluator (evaluator.py).   *)
(* A session is a value: the frozen portfolio of a generation, the         *)
(* supervisor's controls and one entry per evaluated intent.               *)
(*                                                                         *)
(* A request is an order intent with the quote it was decided on.  Its     *)
(* field "sound" stands for every check of the evaluator that depends on   *)
(* the request and the frozen policies alone: that ids, hashes, evidence   *)
(* and times agree, mode and order type, the spread, liquidity and edge    *)
(* thresholds.  One policy stands for the sixteen a session may join: all  *)
(* of them apply, so the tightest of each limit is what counts.            *)
(***************************************************************************)
EXTENDS Sizing, Totals, Sequences, SequencesExt

CONSTANTS
  QuoteAge,       \* max_market_age_ms: how old the request's quote may be
  PortfolioAge,   \* max_portfolio_age_ms and max_reconciliation_age_ms
  ApprovalAge,    \* max_approval_age_ms
  Increment,      \* notional_increment_usd
  MinOrder, MaxOrder,
  MaxLossPct, MaxDrawdownPct, MaxGrossPct, MaxAssetPct, MaxPositions,
  Capacity        \* entries a session holds

ASSUME RiskAssumption ==
  /\ {QuoteAge, PortfolioAge, ApprovalAge, MinOrder, MaxOrder} \subseteq Nat
  /\ Increment \in Nat \ {0}
  /\ {MaxLossPct, MaxDrawdownPct, MaxGrossPct, MaxAssetPct, MaxPositions, Capacity} \subseteq Nat

-------------------------------------------------------------------------------
(* account_state: the frozen portfolio less everything that is reserved. *)

ReservingUntilIssued(S, excluding) ==
  {i \in DOMAIN S.entries : /\ S.entries[i].approved > 0 /\ ~S.entries[i].issued
                            /\ S.entries[i].request.intent # excluding}

\* Entries that hold a reservation, one of which may be left out of account.
Reserving(S, excluding) ==
  {i \in DOMAIN S.entries : S.entries[i].approved > 0 /\ S.entries[i].request.intent # excluding}

Sum(S, entries, Amount(_)) == Total([i \in entries |-> Amount(S.entries[i])])

BuyNotional(e) == IF e.request.side = "buy" THEN e.approved ELSE 0

ExposedBefore(S, entries, k) ==
  IF k \in DOMAIN S.portfolio.exposure THEN S.portfolio.exposure[k] ELSE 0

Exposed(S, entries, k) ==
  LET mine == {i \in entries : S.entries[i].request.instrument = k}
  IN  (IF k \in DOMAIN S.portfolio.exposure THEN S.portfolio.exposure[k] ELSE 0)
      + Sum(S, mine, BuyNotional)

FreeQuantity(S, entries, k) ==
  LET sells == {i \in entries : S.entries[i].request.instrument = k
                                /\ S.entries[i].request.side = "sell"}
  IN  (IF k \in DOMAIN S.portfolio.quantity THEN S.portfolio.quantity[k] ELSE 0)
      - Sum(S, sells, LAMBDA e : e.quantity)

Available(S, excluding) ==
  LET held == Reserving(S, excluding)
      bought == {S.entries[i].request.instrument : i \in {j \in held : S.entries[j].request.side = "buy"}}
      assets == DOMAIN S.portfolio.exposure \cup bought
      cost == Sum(S, held, LAMBDA e : e.cost)
      exposure == [k \in assets |-> Exposed(S, held, k)]
  IN  [cash     |-> S.portfolio.cash - Sum(S, held, LAMBDA e : e.debit),
       equity   |-> S.portfolio.equity - cost,
       exposure |-> exposure,
       gross    |-> Total(exposure),
       losses   |-> cost + IF S.portfolio.realized < 0 THEN -S.portfolio.realized ELSE 0,
       peak     |-> S.portfolio.peak,
       free     |-> [k \in DOMAIN S.portfolio.quantity |-> FreeQuantity(S, held, k)]]

Free(A, k) == IF k \in DOMAIN A.free THEN A.free[k] ELSE 0

-------------------------------------------------------------------------------
(* evaluate *)

\* The checks whose answer changes with time or with the supervisor's controls.
Permitted(S, r, now) ==
  LET C == S.controls
  IN  /\ r.sound
      /\ now < r.expires
      /\ ~C.halted
      /\ C.asOf <= now /\ now < C.validUntil /\ now < C.leaseExpires
      /\ S.portfolio.reconciled
      /\ S.portfolio.asOf <= now /\ now - S.portfolio.asOf <= PortfolioAge
      /\ r.observed <= now /\ now - r.observed <= QuoteAge

\* account_state refuses a portfolio with open orders or without equity.
Known(S) == S.portfolio.cash >= 0 /\ S.portfolio.equity > 0 /\ S.portfolio.openOrders = 0

LossLimit(S) == MaxLossPct * S.portfolio.equity

Stopped(S, A, r) ==
  /\ r.side = "buy"
  /\ \/ A.losses * 100 >= LossLimit(S)
     \/ (A.peak - A.equity) * 100 >= MaxDrawdownPct * A.peak

Quote(r) == IF r.side = "buy" THEN r.ask ELSE r.bid

QuantityRoundedUp(r, amount) == CeilDiv(amount, WorstPrice(r.side, Quote(r)))

QuantityRoundedDown(r, amount) == amount \div WorstPrice(r.side, Quote(r))

Quantity(r, amount) ==
  LET price == WorstPrice(r.side, Quote(r))
  IN  IF r.side = "buy" THEN amount \div price ELSE CeilDiv(amount, price)

BuyAcceptable(S, A, r, amount) ==
  LET equity == A.equity - Fee(amount)
      exposure(k) == (IF k \in DOMAIN A.exposure THEN A.exposure[k] ELSE 0)
                     + (IF k = r.instrument THEN amount ELSE 0)
      assets == DOMAIN A.exposure \cup {r.instrument}
      open == {k \in DOMAIN A.exposure : A.exposure[k] > 0} \cup {r.instrument}
  IN  /\ equity > 0
      /\ (A.losses + Fee(amount)) * 100 <= LossLimit(S)
      /\ (A.peak - equity) * 100 <= MaxDrawdownPct * A.peak
      /\ (A.gross + amount) * 100 <= MaxGrossPct * equity
      /\ \A k \in assets : exposure(k) * 100 <= MaxAssetPct * equity
      /\ Cardinality(open) <= MaxPositions

\* No violation at this amount.
Acceptable(S, A, r, amount) ==
  /\ Debit(r.side, amount) <= A.cash
  /\ r.side = "sell" => Quantity(r, amount) <= Free(A, r.instrument)
  /\ amount <= r.size * Quote(r)
  /\ amount <= MaxOrder
  /\ r.side = "buy" => BuyAcceptable(S, A, r, amount)

AcceptableSteps(S, A, r) == {n \in 1..r.notional \div Increment : Acceptable(S, A, r, n * Increment)}

\* The largest multiple of the increment without a violation, or nothing.
Approvable(S, A, r) ==
  LET amount == Increment * Largest(AcceptableSteps(S, A, r))
  IN  IF amount >= MinOrder /\ amount > 0 /\ Quantity(r, amount) > 0 THEN amount ELSE 0

Approved(S, r, now) ==
  LET A == Available(S, r.intent)
  IN  IF /\ Permitted(S, r, now)
         /\ Known(S)
         /\ WorstPrice(r.side, Quote(r)) > 0
         /\ ~Stopped(S, A, r)
      THEN Approvable(S, A, r) ELSE 0

Earliest(times) == CHOOSE t \in times : \A u \in times : t <= u

NewEntry(S, r, amount, now) ==
  [request  |-> r,
   approved |-> amount,
   quantity |-> IF amount = 0 THEN 0 ELSE Quantity(r, amount),
   debit    |-> IF amount = 0 THEN 0 ELSE Debit(r.side, amount),
   cost     |-> IF amount = 0 THEN 0 ELSE Fee(amount),
   expires  |-> Earliest({r.expires, S.controls.validUntil, S.controls.leaseExpires,
                          now + ApprovalAge}),
   token    |-> S.controls.token,
   terminal |-> FALSE,
   issued   |-> FALSE]

EntryOf(S, intent) == {i \in DOMAIN S.entries : S.entries[i].request.intent = intent}

\* A request that is not a replay, and neither a second one for a decision nor one too many.
Evaluable(S, r) ==
  /\ EntryOf(S, r.intent) = {}
  /\ \A i \in DOMAIN S.entries : S.entries[i].request.decision # r.decision
  /\ Len(S.entries) < Capacity

Evaluate(S, r, now) == [S EXCEPT !.entries = Append(@, NewEntry(S, r, Approved(S, r, now), now))]

-------------------------------------------------------------------------------
(* handoff, execution_allowed, update_controls *)

\* The time-dependent policy, asked again with the entry's own reservation left out.
StillApproved(S, e, now) == Approved(S, e.request, now) >= e.approved

TokenCurrent(S, e, token) == token = S.controls.token /\ token = e.token

\* handoff reaches a verdict, and the entry is used up whichever it is.
Consumes(S, i, token) ==
  LET e == S.entries[i]
  IN  e.approved > 0 /\ ~e.terminal /\ TokenCurrent(S, e, token)

Issues(S, i, token, now) ==
  LET e == S.entries[i]
  IN  Consumes(S, i, token) /\ now < e.expires /\ StillApproved(S, e, now)

Handoff(S, i, token, now) ==
  [S EXCEPT !.entries[i].terminal = @ \/ Consumes(S, i, token),
            !.entries[i].issued = @ \/ Issues(S, i, token, now)]

Permit(S, i, token, now) ==
  LET e == S.entries[i]
  IN  [intent |-> e.request.intent, instrument |-> e.request.instrument,
       side |-> e.request.side, portfolio |-> S.portfolio, token |-> token,
       approved |-> e.approved, quantity |-> e.quantity, debit |-> e.debit,
       approvedAt |-> now, expires |-> e.expires]

AllowedUnderAnyToken(S, intent, token, now) ==
  \E i \in EntryOf(S, intent) :
    LET e == S.entries[i] IN e.issued /\ now < e.expires /\ StillApproved(S, e, now)

ExecutionAllowed(S, intent, token, now) ==
  \E i \in EntryOf(S, intent) :
    LET e == S.entries[i]
    IN  /\ e.issued
        /\ TokenCurrent(S, e, token)
        /\ now < e.expires
        /\ StillApproved(S, e, now)

\* A refresh of the controls the session takes.
Fresher(S, controls, now) ==
  /\ controls.version > S.controls.version
  /\ controls.token >= S.controls.token
  /\ controls.asOf >= S.controls.asOf
  /\ controls.asOf <= now

UpdateControls(S, controls) == [S EXCEPT !.controls = controls]

NewSession(portfolio, controls) ==
  [portfolio |-> portfolio, controls |-> controls, entries |-> <<>>]
=============================================================================
