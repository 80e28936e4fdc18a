------------------------------ MODULE PaperLedger ------------------------------
(***************************************************************************)
(* The replay kernel of the paper broker (ledger.py).  A ledger is a value *)
(* and every command an operator from one ledger to the next; what raises  *)
(* in the code is a predicate that is false here, or, in the middle of a   *)
(* market command, the mark "broken" on the result.                        *)
(***************************************************************************)
EXTENDS Sizing, Totals, Sequences, SequencesExt

CONSTANTS
  Instruments,
  Lot,           \* quantity_step
  MinNotional,   \* minimum_notional_usd
  Latency,       \* PaperConfig.latency_ms
  FeedAge,       \* PaperConfig.max_market_age_ms
  FillAge        \* max_market_age_ms of the execution policy

ASSUME LedgerAssumption ==
  /\ Lot \in Nat \ {0}
  /\ MinNotional \in Nat \ {0}
  /\ {Latency, FeedAge, FillAge} \subseteq Nat

-------------------------------------------------------------------------------
Put(f, k, v) == [j \in DOMAIN f \cup {k} |-> IF j = k THEN v ELSE f[j]]

(* Reading a ledger. *)

OpenOrders(L) == {i \in DOMAIN L.orders : L.orders[i].status = "submitted"}

\* reserved_cash: what the open orders may still take.
Reserved(L) == Total([i \in OpenOrders(L) |-> L.orders[i].maxDebit - L.orders[i].debit])

OpenSells(L, k) ==
  LET sells == {i \in OpenOrders(L) : L.orders[i].side = "sell" /\ L.orders[i].instrument = k}
  IN  Total([i \in sells |-> L.orders[i].target])

Held(L, k) == IF k \in DOMAIN L.holdings THEN L.holdings[k].quantity ELSE 0

Positions(L) == {k \in DOMAIN L.holdings : L.holdings[k].quantity # 0}

ValueOf(L, k) == L.holdings[k].quantity * L.holdings[k].mark

Equity(L) == L.cash + Total([k \in Positions(L) |-> ValueOf(L, k)])

Reconciled(L) ==
  /\ \A k \in DOMAIN L.healthy : L.healthy[k]
  /\ \A k \in Positions(L) : L.asOf - L.holdings[k].markTime <= FeedAge

\* snapshot: the portfolio as the rest of the system sees it.
Snapshot(L) ==
  [cash       |-> L.cash,
   equity     |-> Equity(L),
   exposure   |-> [k \in Positions(L) |-> ValueOf(L, k)],
   quantity   |-> [k \in Positions(L) |-> L.holdings[k].quantity],
   realized   |-> L.realized,
   peak       |-> IF Equity(L) > L.peak THEN Equity(L) ELSE L.peak,
   openOrders |-> Cardinality(OpenOrders(L)),
   reconciled |-> Reconciled(L),
   asOf       |-> L.asOf]

\* The bookkeeping that ends every command.
Stamped(L, at) ==
  LET later == [L EXCEPT !.asOf = at] IN [later EXCEPT !.peak = Snapshot(later).peak]

-------------------------------------------------------------------------------
(* submit *)

Target(permit) == (permit.quantity \div Lot) * Lot

\* A permit the ledger takes; any other is refused with an error.
Submittable(L, permit, at) ==
  /\ at >= L.asOf
  /\ ~L.sealed
  /\ permit.instrument \in Instruments
  /\ permit.portfolio = L.initial
  /\ permit.approvedAt <= at /\ at < permit.expires
  /\ \A i \in DOMAIN L.orders : L.orders[i].intent # permit.intent
  /\ permit.debit \in 0..(L.cash - Reserved(L))
  /\ permit.side = "sell" =>
       /\ permit.instrument \in DOMAIN L.holdings
       /\ Target(permit) <= Held(L, permit.instrument) - OpenSells(L, permit.instrument)

NewOrder(permit, at) ==
  [intent     |-> permit.intent,
   instrument |-> permit.instrument,
   side       |-> permit.side,
   token      |-> permit.token,
   expires    |-> permit.expires,
   approved   |-> permit.approved,
   maxDebit   |-> permit.debit,
   target     |-> Target(permit),
   status     |-> IF Target(permit) <= 0 \/ permit.approved < MinNotional
                  THEN "rejected" ELSE "submitted",
   submitted  |-> at,
   filled     |-> 0,
   gross      |-> 0,
   debit      |-> 0]

Submit(L, permit, at) ==
  Stamped([L EXCEPT !.orders = Append(@, NewOrder(permit, at))], at)

-------------------------------------------------------------------------------
(* market *)

MarketAccepted(L, book, at) ==
  /\ at >= L.asOf
  /\ book.instrument \in Instruments
  /\ book.received <= at
  /\ book.instrument \in DOMAIN L.books =>
       LET previous == L.books[book.instrument]
       IN  /\ book.sequence > previous.sequence
           /\ book.received >= previous.received
           /\ book.event >= previous.event

ExpectedSequence(L, k) == IF k \in DOMAIN L.books THEN L.books[k].sequence + 1 ELSE 1

InSequence(L, book) ==
  LET k == book.instrument
  IN  /\ book.sequence = ExpectedSequence(L, k)
      /\ k \in DOMAIN L.healthy => L.healthy[k]

Healthy(L, book, at) ==
  /\ book.resync \/ InSequence(L, book)
  /\ at - book.event <= FeedAge
  /\ at - book.received <= FeedAge

\* The cursor, the health of the feed and, when it is healthy, the mark of a holding.
Observed(L, book, at) ==
  LET k == book.instrument
      marked == Healthy(L, book, at) /\ k \in DOMAIN L.holdings
  IN  [L EXCEPT
        !.books = Put(@, k, [sequence |-> book.sequence, event |-> book.event,
                             received |-> book.received]),
        !.healthy = Put(@, k, Healthy(L, book, at)),
        !.holdings = IF marked THEN [@ EXCEPT ![k].mark = book.bids[1].price,
                                              ![k].markTime = book.event]
                               ELSE @]

Levels(side, book) == IF side = "buy" THEN book.asks ELSE book.bids

FitsApprovalOnly(o, price, quantity) == quantity * price <= o.approved - o.gross

FitsAnew(o, price, quantity) ==
  quantity * price <= o.approved /\ Debit(o.side, quantity * price) <= o.maxDebit

\* The bounds an order's fills keep, whatever the book offers.
Fits(o, price, quantity) ==
  /\ quantity * price <= o.approved - o.gross
  /\ Debit(o.side, quantity * price) <= o.maxDebit - o.debit

FillableLots(o, price, depth) ==
  {n \in 0..(o.target - o.filled) \div Lot : n * Lot <= depth /\ Fits(o, price, n * Lot)}

FillQuantity(o, price, depth) == Lot * Largest(FillableLots(o, price, depth))

Holding(L, book) ==
  LET k == book.instrument
  IN  IF k \in DOMAIN L.holdings THEN L.holdings[k]
      ELSE [quantity |-> 0, basis |-> 0, mark |-> book.bids[1].price, markTime |-> book.event]

Bought(h, quantity, gross) == [h EXCEPT !.quantity = @ + quantity, !.basis = @ + gross]

\* The cost of what is sold leaves the basis in proportion, rounded down.
SoldBasis(h, quantity) == (h.basis * quantity) \div h.quantity

Sold(h, quantity) == [h EXCEPT !.quantity = @ - quantity, !.basis = @ - SoldBasis(h, quantity)]

\* The two invariants the code asserts before it books a fill.
Bookable(L, h, side, quantity, gross) ==
  IF side = "buy" THEN L.cash >= Debit(side, gross)
                  ELSE h.quantity >= quantity /\ L.cash >= Fee(gross)

Proceeds(side, gross) == (IF side = "sell" THEN gross ELSE 0) - Debit(side, gross)

ProfitBeforeFee(side, h, quantity, gross) ==
  IF side = "buy" THEN 0 ELSE gross - SoldBasis(h, quantity) - Fee(gross)

Profit(side, h, quantity, gross) ==
  (IF side = "buy" THEN 0 ELSE gross - SoldBasis(h, quantity)) - Fee(gross)

Charged(o, quantity, gross) ==
  [o EXCEPT !.filled = @ + quantity, !.gross = @ + gross, !.debit = @ + Debit(o.side, gross)]

Book(L, i, book, quantity, gross) ==
  LET o == L.orders[i]
      h == Holding(L, book)
      after == IF o.side = "buy" THEN Bought(h, quantity, gross) ELSE Sold(h, quantity)
  IN  [L EXCEPT
        !.cash = @ + Proceeds(o.side, gross),
        !.holdings = Put(@, book.instrument, [after EXCEPT !.markTime = book.event]),
        !.realized = @ + Profit(o.side, h, quantity, gross),
        !.fees = @ + Fee(gross),
        !.orders[i] = Charged(o, quantity, gross)]

(* One level of the book against one order.  s carries the ledger, what is left of the
   depth on each side, and whether an assertion has failed.                          *)
FillLevel(s, i, book, level) ==
  LET o == s.ledger.orders[i]
      price == FillPrice(o.side, Levels(o.side, book)[level].price)
      quantity == FillQuantity(o, price, s.depth[o.side][level])
      gross == quantity * price
  IN  IF s.broken \/ o.filled = o.target \/ price <= 0 \/ quantity = 0
      THEN s
      ELSE IF Bookable(s.ledger, Holding(s.ledger, book), o.side, quantity, gross)
      THEN [s EXCEPT !.ledger = Book(@, i, book, quantity, gross),
                     !.depth[o.side][level] = @ - quantity]
      ELSE [s EXCEPT !.broken = TRUE]

\* Every level of the order's side in turn: the value at n is what n levels have made of s.
Levelled(s, i, book) ==
  LET after[n \in 0..Len(Levels(s.ledger.orders[i].side, book))] ==
        IF n = 0 THEN s ELSE FillLevel(after[n - 1], i, book, n)
  IN  after

\* Immediate or cancel: what no level fills is cancelled.
Execute(s, i, book) ==
  LET done == Levelled(s, i, book)[Len(Levels(s.ledger.orders[i].side, book))]
  IN  [done EXCEPT !.ledger.orders[i].status =
         IF done.ledger.orders[i].filled = done.ledger.orders[i].target
         THEN "filled" ELSE "cancelled"]

Ready(o, book) ==
  /\ book.event >= o.submitted + Latency
  /\ book.received >= o.submitted + Latency

\* What one market event does to one order.
Settle(s, i, book, at, blocked) ==
  LET o == s.ledger.orders[i]
      sealed == [s EXCEPT !.ledger.sealed = TRUE]
      unfit == \/ o.intent \in blocked
               \/ ~s.ledger.healthy[book.instrument]
               \/ at - book.event > FillAge
  IN  IF o.status # "submitted" \/ o.instrument # book.instrument THEN s
      ELSE IF at >= o.expires THEN [s EXCEPT !.ledger.orders[i].status = "expired"]
      ELSE IF ~Ready(o, book) THEN s
      ELSE IF unfit THEN [sealed EXCEPT !.ledger.orders[i].status = "cancelled"]
      ELSE Execute(sealed, i, book)

Quantities(levels) == [j \in DOMAIN levels |-> levels[j].quantity]

Begun(L, book, at) ==
  [ledger |-> Observed(L, book, at),
   depth |-> [buy |-> Quantities(book.asks), sell |-> Quantities(book.bids)],
   broken |-> FALSE]

\* Every order in turn: the value at n is what the event has made of the first n orders.
SettledInTurn(L, book, at, blocked) ==
  LET after[n \in 0..Len(L.orders)] ==
        IF n = 0 THEN Begun(L, book, at) ELSE Settle(after[n - 1], n, book, at, blocked)
  IN  after

\* The result of a market command: a ledger, or a failed assertion.
Market(L, book, at, blocked) ==
  LET settled == SettledInTurn(L, book, at, blocked)[Len(L.orders)]
  IN  [ledger |-> Stamped(settled.ledger, at), broken |-> settled.broken]

-------------------------------------------------------------------------------
(* cancel, begin_generation *)

Cancellable(L, intent, at) ==
  at >= L.asOf /\ \E i \in DOMAIN L.orders : L.orders[i].intent = intent

Cancel(L, intent, at) ==
  Stamped([L EXCEPT !.orders = [i \in DOMAIN @ |->
             IF @[i].intent = intent /\ @[i].status = "submitted"
             THEN [@[i] EXCEPT !.status = "cancelled"] ELSE @[i]]], at)

Settled(L, at) ==
  at >= L.asOf /\ OpenOrders(L) = {} /\ Reconciled([L EXCEPT !.asOf = at])

BeginFromOldPortfolio(L, at) == [L EXCEPT !.asOf = at, !.orders = <<>>, !.sealed = FALSE]

BeginGeneration(L, at) ==
  [L EXCEPT !.asOf = at, !.initial = Snapshot([L EXCEPT !.asOf = at]),
            !.orders = <<>>, !.sealed = FALSE]
=============================================================================
