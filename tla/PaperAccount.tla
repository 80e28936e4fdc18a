------------------------------ MODULE PaperAccount ------------------------------
(***************************************************************************)
(* The account machine (machine.py): the risk session and the paper ledger *)
(* of one account, driven by the commands the durable account has accepted *)
(* one after the other.  A command whose application raises leaves no      *)
(* trace, because its transaction rolls back and the next one rebuilds the *)
(* machine from the journal; it is a step that is not enabled.             *)
(***************************************************************************)
EXTENDS PaperTrading

CONSTANTS
  Batches,        \* the sequences of requests one orders command may carry
  Delays,         \* pairs: how long an observation takes to arrive and to be committed
  DayEnd,         \* last moment of the day the account was opened
  MaxCommands

ASSUME AccountAssumption ==
  /\ \A batch \in Batches : batch \in Seq(Requests)
  /\ Delays \subseteq Nat \X Nat

VARIABLES
  risk,
  generation,
  intents,        \* order intents ever processed
  decisions,      \* decisions ever processed
  commands,       \* commands applied: the machine's sequence
  placed          \* history: for each decision, the orders it ever led to

vars == <<now, ledger, risk, generation, intents, decisions, commands, placed>>

DecisionIds == {r.decision : r \in Requests}

Init ==
  /\ now = InitialLedger.asOf
  /\ ledger = InitialLedger
  /\ risk = NewSession(InitialLedger.initial, InitialControls)
  /\ generation = 1
  /\ intents = {} /\ decisions = {}
  /\ commands = 0
  /\ placed = [d \in DecisionIds |-> 0]

-------------------------------------------------------------------------------
\* What every command checks first.
Accepts(at) == at \in now..MaxTime /\ commands < MaxCommands

\* Without a rollover command, orders, market events and new generations stop at midnight.
SameDay(at) == at <= DayEnd

Applied(at) == now' = at /\ commands' = commands + 1

RememberIntent(m, r) == [m EXCEPT !.intents = @ \cup {r.intent}]

Remember(m, r) == [m EXCEPT !.intents = @ \cup {r.intent}, !.decisions = @ \cup {r.decision}]

Refused(m) == [m EXCEPT !.refused = TRUE]

Placeable(m, r) ==
  /\ ~m.refused
  /\ r.intent \notin m.intents /\ r.decision \notin m.decisions
  /\ ~m.ledger.sealed /\ Reconciled(m.ledger)
  /\ Evaluable(m.risk, r)

\* The risk session's verdict on its entry i, and the order if there is one.
HandOver(m, i, at) ==
  LET token == m.risk.controls.token
      permit == Permit(m.risk, i, token, at)
      after == [m EXCEPT !.risk = Handoff(@, i, token, at)]
  IN  IF ~Issues(m.risk, i, token, at) THEN after
      ELSE IF Submittable(m.ledger, permit, at)
      THEN [after EXCEPT !.ledger = Submit(@, permit, at)] ELSE Refused(m)

(* One request of an orders command.  m is the machine so far, "refused" once
   anything has raised.                                                          *)
Place(m, r, at) ==
  IF Placeable(m, r)
  THEN HandOver(Remember([m EXCEPT !.risk = Evaluate(@, r, at)], r), Len(m.risk.entries) + 1, at)
  ELSE Refused(m)

Machine == [ledger |-> ledger, risk |-> risk, intents |-> intents, decisions |-> decisions,
            refused |-> FALSE]

\* The value at n is what the first n requests have made of the machine.
PlacedInTurn(m, batch, at) ==
  LET after[n \in 0..Len(batch)] == IF n = 0 THEN m ELSE Place(after[n - 1], batch[n], at)
  IN  after

AfterOrders(batch, at) == PlacedInTurn(Machine, batch, at)[Len(batch)]

\* The orders this command has led to for decision d.
NewOrders(d) ==
  {i \in DOMAIN ledger'.orders \ DOMAIN ledger.orders :
     \E e \in Range(risk'.entries) :
       e.request.intent = ledger'.orders[i].intent /\ e.request.decision = d}

Orders(batch, at) ==
  /\ Accepts(at) /\ SameDay(at)
  /\ \E m \in {AfterOrders(batch, at)} :
       /\ ~m.refused
       /\ ledger' = m.ledger /\ risk' = m.risk
       /\ intents' = m.intents /\ decisions' = m.decisions
  /\ placed' = [d \in DecisionIds |-> placed[d] + Cardinality(NewOrders(d))]
  /\ Applied(at)
  /\ UNCHANGED generation

\* The open orders of this book's instrument that the risk session no longer stands by.
Blocked(book, at) ==
  {ledger.orders[i].intent : i \in {j \in OpenOrders(ledger) :
     /\ ledger.orders[j].instrument = book.instrument
     /\ ~ExecutionAllowed(risk, ledger.orders[j].intent, ledger.orders[j].token, at)}}

AfterMarket(book, at) == Market(ledger, book, at, Blocked(book, at))

ObserveMarket(book, at) ==
  /\ Accepts(at) /\ SameDay(at)
  /\ MarketAccepted(ledger, book, at)
  /\ ~AfterMarket(book, at).broken
  /\ ledger' = AfterMarket(book, at).ledger
  /\ Applied(at)
  /\ UNCHANGED <<risk, generation, intents, decisions, placed>>

CancelOrder(intent, at) ==
  /\ Accepts(at)
  /\ Cancellable(ledger, intent, at)
  /\ ledger' = Cancel(ledger, intent, at)
  /\ Applied(at)
  /\ UNCHANGED <<risk, generation, intents, decisions, placed>>

ChangeControls(controls, at) ==
  /\ Accepts(at)
  /\ Fresher(risk, controls, at)
  /\ risk' = UpdateControls(risk, controls)
  /\ Applied(at)
  /\ UNCHANGED <<ledger, generation, intents, decisions, placed>>

Advance(at) ==
  /\ Accepts(at) /\ SameDay(at)
  /\ Settled(ledger, at)
  /\ ledger' = BeginGeneration(ledger, at)
  /\ risk' = NewSession(BeginGeneration(ledger, at).initial, risk.controls)
  /\ generation' = generation + 1
  /\ Applied(at)
  /\ UNCHANGED <<intents, decisions, placed>>

\* It ages the marks and refreshes nothing.
Reconcile(at) ==
  /\ Accepts(at)
  /\ ledger' = [ledger EXCEPT !.asOf = at]
  /\ Applied(at)
  /\ UNCHANGED <<risk, generation, intents, decisions, placed>>

-------------------------------------------------------------------------------
\* Observations that have arrived by this time.
BooksAt(at) ==
  {[instrument |-> f.instrument, bids |-> f.bids, asks |-> f.asks, resync |-> f.resync,
    sequence |-> s, event |-> at - d[1] - d[2], received |-> at - d[2]]
     : f \in Feeds, s \in 1..MaxSequence, d \in {e \in Delays : e[1] + e[2] <= at}}

Next ==
  \E at \in now..MaxTime :
    \/ \E batch \in Batches : Orders(batch, at)
    \/ \E book \in BooksAt(at) : ObserveMarket(book, at)
    \/ \E r \in Requests : CancelOrder(r.intent, at)
    \/ \E controls \in ControlStates : ChangeControls(controls, at)
    \/ Advance(at)
    \/ Reconcile(at)

Spec == Init /\ [][Next]_vars

-------------------------------------------------------------------------------
(* Properties *)

(* Open orders never promise more than the account holds: reservations are covered by cash,
   pending sells by the position, and no order's fills exceed what was approved for it
   (ledger.py:288, 299, 425).                                                            *)
FundsCovered ==
  /\ Reserved(ledger) <= ledger.cash
  /\ \A k \in Instruments : OpenSells(ledger, k) <= Held(ledger, k)
  /\ \A i \in DOMAIN ledger.orders :
       LET o == ledger.orders[i]
       IN  o.filled <= o.target /\ o.gross <= o.approved /\ o.debit <= o.maxDebit

(* Double entry: cash and cost basis together change only by realized profit and fees, so the
   integer balances cannot drift, whatever is rounded (ledger.py:440-461).                  *)
Basis(L) == Total([k \in DOMAIN L.holdings |-> L.holdings[k].basis])
BooksBalance ==
  ledger.cash + Basis(ledger) - ledger.realized
    = InitialLedger.cash + Basis(InitialLedger) - InitialLedger.realized

(* The account's money is all there, and promised once.                                     *)
MoneyIsKept == FundsCovered /\ BooksBalance

(* The assertions "cash_invariant" and "position_invariant" cannot fail: no acceptable market
   observation is refused because of what it would fill (ledger.py:443, 450).               *)
FillsNeverRaise ==
  \A book \in BooksAt(now) :
    MarketAccepted(ledger, book, now) => ~AfterMarket(book, now).broken

(* There is no orphan permit (machine.py:137): whatever the risk session would issue now, from a
   portfolio frozen when the generation began, the ledger takes as it stands after every
   submission, cancellation and refresh of controls since.                                    *)
IssuedOrderLands(S) ==
  LET i == Len(S.entries)
      token == S.controls.token
  IN  Issues(S, i, token, now) => Submittable(ledger, Permit(S, i, token, now), now)
PermitsLand ==
  \A r \in Requests :
    /\ r.intent \notin intents /\ r.decision \notin decisions
    /\ ~ledger.sealed /\ Evaluable(risk, r)
    => IssuedOrderLands(Evaluate(risk, r, now))

(* Nothing raises behind the checks that let it through.                                        *)
NothingRaises == FillsNeverRaise /\ PermitsLand

(* Both predicates the code bisects over are monotone in the size, fees rounded up included, so
   halving the interval finds the largest size within every bound (ledger.py:427-433,
   evaluator.py:413-421).                                                                       *)
SearchIsOptimal ==
  /\ \A i \in OpenOrders(ledger), level \in UNION {Range(f.asks \o f.bids) : f \in Feeds} :
       LET o == ledger.orders[i]
           lots == FillableLots(o, FillPrice(o.side, level.price), level.quantity)
           left == o.target - o.filled
           most == (IF left < level.quantity THEN left ELSE level.quantity) \div Lot
       IN  Bisect(most, lots) = Largest(lots)
  /\ \A r \in Requests :
       LET steps == AcceptableSteps(risk, Available(risk, "none"), r)
       IN  WorstPrice(r.side, Quote(r)) > 0 =>
             Bisect(r.notional \div Increment, steps) = Largest(steps)

(* An approved buy can be executed: a market that has not moved from the quote and shows the
   whole quantity on one level fills all of it within the permit, whatever was rounded on the
   way, unless the tick makes the fill dearer than the worst price (evaluator.py:424-429,
   ledger.py:405-425).                                                                      *)
ApprovedBuyFills ==
  \A r \in Requests :
    LET amount == Approved(risk, r, now)
        price == FillPrice("buy", r.ask)
        whole == (Quantity(r, amount) \div Lot) * Lot
        order == [side |-> "buy", approved |-> amount, maxDebit |-> Debit("buy", amount),
                  gross |-> 0, debit |-> 0, filled |-> 0, target |-> whole]
    IN  (r.side = "buy" /\ Evaluable(risk, r) /\ amount > 0 /\ price <= WorstPrice("buy", r.ask)) =>
          FillQuantity(order, price, whole) = whole

(* Sizes are neither smaller nor larger than they must be.                                    *)
SizesAreRight == SearchIsOptimal /\ ApprovedBuyFills

(* One decision leads to at most one order in the life of the account, through every generation
   and every retry under another intent (machine.py:90-96, session.py:231).                     *)
OneOrderPerDecision == \A d \in DecisionIds : placed[d] <= 1

(* A fill happens only under the supervisor's present word: the current fencing token, no kill,
   valid controls and lease, an unexpired approval, and a healthy, fresh observation made after
   the simulated latency; what was true when the order was approved does not count.           *)
Authorised(o) ==
  LET C == risk.controls
      book == ledger'.books[o.instrument]
  IN  /\ o.token = C.token /\ ~C.halted
      /\ now' < C.validUntil /\ now' < C.leaseExpires /\ now' < o.expires
      /\ ledger'.healthy[o.instrument]
      /\ now' - book.event <= FillAge
      /\ book.event >= o.submitted + Latency
FillsAreAuthorised ==
  [][\A i \in DOMAIN ledger.orders \cap DOMAIN ledger'.orders :
       ledger'.orders[i].filled > ledger.orders[i].filled => Authorised(ledger.orders[i])]_vars

(* When a buy is placed, everything bought or reserved in this generation together keeps the
   limits of the policy, not the new order alone (evaluator.py:348-409).                      *)
Committed(L) ==
  Total([i \in DOMAIN L.orders |-> IF L.orders[i].side = "buy" THEN L.orders[i].approved ELSE 0])
Costs(L) == Total([i \in DOMAIN L.orders |-> Fee(L.orders[i].approved)])
BuysKeepLimits ==
  [][LET n == Len(ledger'.orders)
     IN  (n > Len(ledger.orders) /\ ledger'.orders[n].side = "buy") =>
           /\ 100 * (Total(ledger'.initial.exposure) + Committed(ledger'))
                <= MaxGrossPct * (ledger'.initial.equity - Costs(ledger'))
           /\ 100 * Costs(ledger') <= MaxLossPct * ledger'.initial.equity]_vars

=============================================================================
