# Kavrigo: verification project

TLA+ models of Kavrigo, the operating system for paper-trading agents in this
repository, checked with TLC and, where it says so below, proved with TLAPS.
The models are written from the Python source; every definition that stands for
code is listed with its lines in `PROJECT.json` ("map").

Paths: `E` is `src/kavrigo-engine`, `P` is
`src/kavrigo-platform/services/api/src/kavrigo_api`.

## 1. Inventory

| Component | Source | State | Operations | Hard part | Status |
|---|---|---|---|---|---|
| Durable account | `E/services/workflows` accounts, database | account row (lease owner, token, expiry, head), command journal, outbox | create, acquire, release, commit, read | stalled holders, lost acknowledgements, the clock between statements | modelled |
| Durable runs | same: runs, activities, workflows, dispatch; engine-worker | run row, stage rows, outbox, Temporal workflow | create, dispatch, resolve, evaluate, execute, supervise, backtest, health, finish | late answers, worker death around a model call, second starts | modelled |
| Account machine | same: machine | ledger, risk session, dedupe sets, generation | orders, market, cancel, controls, advance, reconcile | partial batches, permits that outlive their order | modelled |
| Paper ledger | `E/services/paper-broker` ledger | balances, orders, book cursor per instrument | submit, market, cancel, begin_generation | reservations, fee rounding, feed gaps, expiry | modelled |
| Paper venue | same: account | ledger, journal, views of several brokers | submit, observe, cancel, reconcile | an acknowledgement the broker never sees | modelled |
| Risk session | `E/services/risk-engine` session, evaluator, fixed | reservations, issued permits, controls | evaluate, handoff, execution_guard, update_controls | control changes between approval, hand-off and fill | modelled |
| Model gateway | `E/libs/model-gateway` budget, gateway | day, minute and cycle budgets, reservations | call, reserve, finish | unknown usage, concurrent reservations, day change | modelled |
| Agent runtime | `E/services/agent-runtime` | cache of results, slots of a day, pace of an agent | evaluate: validate, scan, analyse, decide, allocate | claims that race, deadlines and cancellation across several model calls | modelled |
| Market data | `E/libs/market-data`, `E/services/market-ingestion` | connection, sequence per stream, buffer, sinks | parse, observe, connect, flush, reconnect, close | lost, doubled and swapped frames, reconnects, a sink that fails | modelled |
| Signals | `E/libs/signals` | none: a window of what was knowable | build a window, thirteen features | late observations, ties | modelled |
| News | `E/services/news-intelligence` | index of extracted texts, texts under way | collect, screen, extract, list evidence | the duplicate check and the entry lie on two sides of a model call | modelled |
| Backtest and replay | `E/libs/backtest`, `E/libs/nautilus-adapter` | strategy, risk gate with its journal, fills | define, refuse, load, run, figure out | look-ahead, refused exits, a full journal, late orders | modelled |
| Policy review | `P` routers/paper_policies, paper_activation | bundles, reviews, approvals, assessments | create, review, approve, read, assess | maker and checker, evidence that ages | modelled |
| Entitlements | `P` services/provider_entitlements | ledger of grants and revocations | record, evaluate | events dated in the past, ties | modelled |
| Agents and versions | `P` routers/agents, services, idempotency | agents, versions, audit, keys | create, version, archive, replay | concurrent duplicates, row locks, expired keys | modelled |
| Users, workspaces | `P` auth, identity, workspaces | users, memberships | sign in, create workspace | first sign-ins that race | partly |
| Rehearsals | `P` routers/rehearsals, `E` rehearsal | one run | launch | a key used for another run | modelled |
| Inspection, health, token verification | `P` | none | reads | none for this project | not modelled |
| Web application, research, infrastructure | other directories | none of their own | rendering, offline work | none for this project | not modelled |

Interactions. The control plane freezes agent versions and policies. A run is
created in PostgreSQL together with a `run.queued` outbox event; the engine
worker's dispatch loop hands it to Temporal; activity attempts on workers
execute its stages and write stage rows; `execute` and `supervise` stages lease
the paper account and write an account command and their stage row in one
transaction. A command is applied by the account machine, which runs the risk
session and the paper ledger in memory, rebuilt from the journal on every
commit. Market observations reach the account by `AccountRepository.commit`
directly. The agent runtime and the news pipeline call models through the
gateway, which reserves from budgets before and settles after each call. Market
ingestion feeds the store from which signals are computed and evidence is cited.
A backtest runs the risk evaluator on the bars of a frozen dataset.

What makes the parts correct:

- account: no write under a superseded lease; a command is applied once
  whatever is retried; a receipt names a durable record; a restart can always
  replay the journal;
- runs: a model dispatch is never repeated; orders need a completed evaluation;
  recorded results never change; the final status is true; every queued run is
  delivered and every workflow ends;
- machine, ledger, risk: cash and positions never go negative, reservations
  cover what open orders may spend, a permit is used once, control changes take
  effect on what is not yet filled, unhealthy feeds fill nothing;
- gateway: no scope spends more than its limit, whatever runs concurrently;
- runtime: one evaluation per key, whose answer everybody gets; the pace and the
  slots of an agent hold; money is set aside only by a cycle that finished, for
  decisions that are still founded, and never more than there is;
- market data: what is stored is in the venue's order and what is missing is
  counted; what was knowable at a time never changes;
- news: a text is evidence once, quotes itself, and is never backdated;
- backtest: no order without a hand-off, no figure from the future, figures that
  add up;
- control plane: an approval needs a reviewer who is not the author and
  evidence that matches, a key is used for one request, an archived agent is
  frozen, an entitlement is earned at both of its times.

## 2. Modules

| Module | What it is |
|---|---|
| `AccountLog` | abstract specification: one totally ordered log of accepted commands, and the receipts callers have been handed |
| `DurableAccount` | `accounts.py` statement by statement where the database clock can move between statements; implements `AccountLog` |
| `DurableAccountProofs` | inductive invariant and theorems about `DurableAccount` |
| `RunLifecycle` | runs, dispatch, the four workflows and the activity attempts, with the account reduced to its lease |
| `RunLifecycleProofs` | theorems about it |
| `Sizing` | fees, prices and the integer search, as functions |
| `PaperLedger` | the paper broker's ledger as a value, its commands as operators |
| `RiskSession` | the risk session and its evaluator as a value, its commands as operators |
| `PaperTrading` | what the next two share: the ledger and the clock, what they are given and the shape it has |
| `PaperAccount` | `machine.py`: composes `PaperLedger` and `RiskSession` under the command stream of the durable account |
| `PaperVenue` | `account.py`: composes the same two under brokers that lose acknowledgements |
| `TradingProofs` | theorems about both and about `Backtest`, and about the operators of the modules under them |
| `Totals`, `TotalsProofs` | sums of integers without recursion, and facts about them |
| `ModelBudget` | the model gateway's budget ledger and the calls that use it |
| `ModelBudgetProofs` | theorems about it |
| `Analysis` | validation, scanner, analyzer and allocation of the agent runtime, as operators |
| `AgentRuntime` | `runtime.py`: evaluations of several callers over one cache, slots and pace |
| `AgentRuntimeProofs` | theorems about it |
| `StreamHealth` | parsers and the health of a stream, as operators |
| `SignalWindow` | windows of what was knowable, and the features of them |
| `Ingestion` | `pipeline.py`: composes `StreamHealth` with a venue, a network, a buffer and sinks, and `SignalWindow` with what was stored |
| `News` | `pipeline.py` of the news intelligence |
| `NewsProofs` | theorems about it |
| `ReplayGate` | the requests and receipts of the risk gate of a backtest, over `RiskSession` |
| `Backtest` | one run: definition, catalog, strategy, gate, fills, result |
| `Access`, `Entitlements` | roles and permissions; the evaluation of the ledger of grants |
| `ControlStore` | a store of rows under transactions with locks, READ COMMITTED |
| `AgentRequests`, `PolicyRequests` | the requests of the control plane, step by step |
| `ControlPlane` | composes both over one store |
| `ControlPlaneProofs` | theorems about it |
| `MC...` | TLC instances of the module they name |

A definition that stands directly above another, is named like a wrong version of
it (`ClaimAgain`, `WriteStageInTwo`, `OwnsAnyway`, ...) and is used by nothing
else is a mutation listed in `PROJECT.json`: a plausible bug that some property
must notice.

### DurableAccount

State: `row` is the `engine_accounts` row, `journal` the `engine_commands`
rows, `outbox` the announced sequences, `txn` the commit that holds the row
lock with what it has done so far, `lease[p]` the `Lease` object in the memory
of process `p`, `reply[p]` a receipt on its way to `p`, `answered` the receipts
that arrived (history). `clock` is `clock_timestamp()`.

`SELECT ... FOR UPDATE` serialises writers, so `acquire`, `release` and a
commit that finds its answer in the journal are one action each. A commit that
appends reads the clock four times while it holds the lock, and is the
sequence `Admit`, `Apply`, `Stage`, `Recheck`, `Commit`, between any two of
which time passes, the process crashes or the statement fails (`Rollback`).
A command is a key, a generation, a kind and, for a market observation, a book
with its place in the feed and its content: what the code compares. What the
machine does with it is outside this module, except the checks that can make a
replay fail. The machine's other refusals and the byte limit are `Rollback`.

### RunLifecycle

State: `kind` is the kind of job in the run's frozen definition, `status` and
`steps` are the `engine_runs` and `engine_steps` rows, `event` the outbox event,
`acking` the starts the dispatcher has not acknowledged, `wf` what Temporal
knows of the workflow, `act[a]` the execution of an attempt on a worker (its
program counter, the result it is about to report, and the lease it holds),
`account` the account's lease, `applied` the commands the account has taken,
`calls` the model dispatches (history), `tries` how many attempts each start of
the run gets (a bound, chosen once from `Plans`).

An attempt is identified by run, stage, start of the workflow and try. Temporal
may give up on it at any time after it began (`Timeout`); it then continues as
a zombie whose database writes still happen and whose report is ignored.
`Crash` stops an attempt between any two transactions and leaves its lease.
Each action is one database transaction or one call. A transaction that is
committed and whose acknowledgement is lost is the action followed by `Crash`
or `Unavailable`.

### PaperLedger, RiskSession and Sizing

Both kernels are written in the code as state that one thread of commands
changes, so they are values here: a ledger is a record (cash, holdings with
basis and mark, orders, the cursor and health of each feed, the seal of an
executed batch, the frozen portfolio of the generation), a session is the frozen
portfolio, the controls and one entry per evaluated intent. A command is an
operator from one value to the next and its refusals are a predicate of its own
(`Submittable`, `MarketAccepted`, `Cancellable`, `Settled`, `Evaluable`,
`Fresher`). The two assertions inside a market command, which leave nothing
behind because the caller discards the ledger, are the mark `broken` on its
result.

Amounts are integers as in `fixed.py`. One unit of quantity at one unit of price
is one unit of cash, so the twelve decimal places only matter where fees and
slipped prices are rounded; the instances use rates of a tenth or a fifth, for
which nearly every amount rounds. `FillableLots` and `AcceptableSteps` are the
sets the two bisections search; the models take the largest member, and the
property `SizesAreRight` runs the bisections themselves (`Bisect`) in every
state and compares. The loops of the code (over levels, orders, requests of a
batch, and the halving of an interval) are recursive functions of the number of
turns taken: `Levelled`, `SettledInTurn`, `PlacedInTurn`, `Bisect`.

Abstractions. Checks of the evaluator that depend only on the request and the
frozen policies (ids, hashes, evidence, order type, spread, liquidity, edge)
are the request's field `sound`. One policy stands for the up to sixteen that
may be joined, since the tightest of each limit is applied. Network-wide limits
are left out: they have the form of the per-asset limit, over a partition of the
assets. An intent's idempotency key is its decision, as `machine.py` derives it.

### PaperAccount

State: `ledger`, `risk`, `generation`, `intents` and `decisions` are the fields
of the machine, `now` the time of its last command, `commands` its sequence,
`placed` how many orders each decision ever led to (history). One action per
command kind: `Orders` (a batch is applied whole or not at all), `ObserveMarket`,
`CancelOrder`, `ChangeControls`, `Advance`, `Reconcile`. A command that raises is
a step that is not enabled: its transaction rolls back and the machine is rebuilt
from the journal (`DurableAccount`). Replays of a command are answered from the
journal before they reach the machine. `TradingAssumption` and `AccountAssumption`
say what the account is given: requests, books and controls of the shapes their
contracts demand, and an opening ledger as `Ledger.__init__` makes it (`Opens`).

### PaperVenue

State: the shared `session`, the venue's `ledger`, the length of its `journal`,
its market keys (`observed`), per broker a `view` (last snapshot, sequence,
connected or not), and `answer`, what the last submission of each intent
returned (history). Evaluation, hand-off and fill are separate calls here. `ack`
is whether the acknowledgement of a call arrives; a refusal disconnects the
broker too. The clock is read a second time between hand-off and submission,
hence `later`. The venue is given what `TradingAssumption` says. Journal records that change nothing a caller can see do not count,
and all happens within one day, as the ledger's day check is the machine's.

### ModelBudget

State: `tickets`, `days`, `rates` and `cycles` are the ledger's dictionaries,
`clock` and `day` the two time sources, `call[a]` the program counter of each
call, `billed` what providers were asked and charge (history). `reserve` and
`finish` hold the ledger's lock and are one step each; a call is `Reserve` (or
`Refuse`, `FindTicket`), then `TooLate` or `Dispatch`, then `Answer` or
`NoUsage`, and between these other calls run, the minute rolls and midnight
passes. A provider charges at most the bound unless it reports an excess itself.

### Analysis and AgentRuntime

State: `cache`, `counts` and `last` are the runtime's dictionaries, `run[c]` is
where the caller `c` of `evaluate` is, `opened` the evaluations that were started
(history). An evaluation holds the lock twice: to look at the cache (`Arrive`)
and, after it has read the clock and validated outside of it, to look again and
to claim key, slots and pace (`Claim`). From then on it is at work alone:
contexts, then per selected candidate either a decision without a model (`Skip`),
a refusal of the gateway before anything is reserved, or a call (`Ask`) that
answers, fails, is outrun by the cycle's deadline or is cancelled with its
caller. `Settle` is the `finally` that stores a result whatever happened. Facts
an evaluation was given are a record with what the code compares: times, hashes
that match or not, evidence with its pack, quality and injection flag. Sizes are
integers in per cent of small amounts. The sort and the loop of the allocation are a
function on turns (`AllottedInTurn`): each picks the foremost proposal that is left.

### StreamHealth, SignalWindow and Ingestion

State: `market` and `pos` are what the venue publishes and how far it is, `wire`
the frames received and not read, `health` the monitor, `buffer` and `flush` the
batch and the write in progress, `stored` what each sink holds, `accepted` and
`cut` history. The network loses, doubles and swaps frames on the wire
(`Fault`), connections end (`HangUp`) or fail to open, a sink suspends, refuses
or is cut short, the sampler's timeout cancels the pipeline where it awaits. A
frame is a kind, a symbol, a sequence and a shape; `Parse` says what each venue's
parser does with it: an event, nothing, or an exception that ends `run`. A
feature is the operands of its last operation, or unavailable with the code's
reason, and is computed from a window of what was stored (`Window`).

### News

State: `seen` and `pending` are the pipeline's index and the keys under way,
`calls` the gateway's record, `work[c]` a collector's place in its batch,
`records` the evidence handed out (history). Screening, the duplicate check,
the call, and what an answer must be (`Rejection`) are one action each where the
code holds the lock or awaits. Text, markup, quotes and entities are flags and
small sets.

### ReplayGate and Backtest

State: `run` is the submitted definition, `object` what the catalog holds, `bars`
and `published` what the engine was given and how many of them it has published, `strategy` the signal, the
approvals and orders of `_LongOnlyEma`, `gate` the peak, the receipts and the
counters of `ReferenceRiskGate`, `venue` the simulator's account, orders and
fills, `result` the result. The simulator is NautilusTrader's and external: the
relation of the averages, whether an order is denied, its price within one tick
and the pieces it is filled in are chosen freely, at the bar that the run's
latency allows. The gate asks the same `RiskSession` operators as the paper
account.

### Access, Entitlements, ControlStore, AgentRequests, PolicyRequests, ControlPlane

State: `rows` are the committed tables, `tx[r]` the transaction of request `r`:
where it is, what it has written and locked, what it will answer; `ask` is the
scenario, `now` the clock. A request is a sequence of statements; between any two
others run. A statement waits for row locks, advisory locks and unfinished
inserts of its unique key (`Blocked`) and sees what was committed when it runs.
`Commit` puts what it wrote over the tables (`Applied`), `Lose` is a connection
that breaks before it. A scenario is what is asked and what earlier requests left
behind; `StartsSound` says what may have been left, which is what the tables then
still hold. `PolicyRequests` takes the advisory locks the code takes, each under its own
name. A document and its hash are one value. `PolicyRequests` also has the
operator's sessions that append to the ledger of entitlements while assessments
read it.

## 3. Runs

Sizes are distinct states, times those of two workers.

| Run | Instance | What it shows |
|---|---|---|
| `account` | 3 processes of 2 runs, 5 commands (an observation, its repetition, a conflicting one, a generation advance, a command of generation 2), 3 records, 1 tick, 2 tokens, the clock may step back; 890,000 states | commands apply once, the journal is ordered by lease, a superseded holder never appends, recovery succeeds, `AccountLog` is implemented |
| `runs` | one run of any kind, started twice, with one or two tries per activity, a competing lease, under `FairSpec`; 620,000 states | one model dispatch, records that are true and final, every run is delivered and every workflow ends |
| `paper` | 2 instruments, requests in batches of up to two, late and prompt feeds, a halt and a takeover, up to three generations; 450,000 states | money is kept and the books balance, no command that was let through raises, one order per decision, searched sizes are right, fills are authorised, a batch keeps the policy's limits |
| `paper_venue` | 2 brokers, 2 purchases that together take all the cash, a halt or a takeover, 3 ticks | views never lie and retries find their order, nothing is promised twice |
| `model_budget` | 5 calls of 2 agents: a repetition, a conflict, a cycle of another version; 2 ticks and 2 days | spend is covered, no budget and no rate is exceeded, a key is dispatched once |
| `control_plane` | 13 scenarios of up to four requests that race over one store; transactions may be lost, 2 ticks | rows and references are whole, repetitions agree, four eyes, verdicts are earned, archived agents are frozen |
| `agent_runtime` | 2 callers; equal, conflicting and later requests of one agent and requests of another, 2 instruments, 4 pieces of evidence, 3 proposals; 2 ticks over a midnight and one step back | one answer per key, pace and slots hold, money is founded and there, claims are worked on and calls reported |
| `ingestion` | 5 markets of up to three frames over two connections, one fault of the network, 2 sinks, 2 ticks | streams are in order and losses counted, usable means heard, sinks hold prefixes, nothing is learned later |
| `ingestion_last_match` | violation | finding 1 |
| `news` | 2 collectors, 9 batches over one text from two sources and two decisions, its corrections, a third text and refused articles; 2 ticks and one step back | a text is evidence once and founded on itself, nothing stays pending, nothing is backdated |
| `backtest` | three price series of five or six bars, 17 definitions (sound ones of every kind, and one fault each), every signal, price, split and denial | the gate decides and its journal is whole, no figure from the future, exits close, figures add up |
| `backtest_exit` | violation | finding 2 |

Bounds. Two processes of one run and one of another are what the lease code
distinguishes: same owner, other owner. Two tokens allow one takeover, the
event every fencing property is about; the theorems hold for any number. Two
tries are a zombie and its replacement; a third attempt meets the same rows. In
a run that is started twice an activity gets one try per start for a model call:
the zombie of the first start meets the attempt of the second. Prices, cash and
limits are chosen so that cash, loss, gross and asset limits all bind for some
batch, and partial fills and all rejections occur. Three ticks pass every expiry
in the venue. In the budget every limit is met by one to three calls, and the run
is as long as a minute and a cycle, so that their boundaries are met. In the
runtime a day is two ticks, so the step back recrosses midnight; the cache holds
one or two entries. The wire of the ingestion holds two frames, the least that
can be swapped; a batch is two events and the memory sink refuses the fourth. The
index of the news holds two texts, so that the third finds it full. The journal
of a backtest holds three receipts, so that a run can fill it. The scenarios of
the control plane are the pairs and triples of requests that meet in one table
or read what another writes. Symmetry is used for the brokers, which differ only
in their views, for calls with the same request, for the callers of the runtime
and for the two attempts of one run; no run with symmetry checks liveness.
`CHECK_DEADLOCK FALSE` is set where bounded clocks, tokens, commands and tries
let the system come to rest; in `control_plane`, where it is not set, rest is a
state in which every request has ended (`Quiet`), so that waiting on each other
for ever would be found.

Fairness. `FairSpec` assumes weak fairness of the dispatcher's start (the loop
in `engine_worker/__main__.py` polls every two seconds and survives
exceptions), of the resolve activity and of Temporal's timeouts, and strong
fairness of the dispatcher's acknowledgement: it may crash before it any number
of times, not always. Workers, the provider and the database owe nothing.

## 4. Proofs

Each `...Proofs` module states `IInv`, the inductive invariant (`TradingProofs` one for
each of its three systems), proves `Init => IInv` and one step lemma per action, and derives the properties that
runs check. Everything holds for all values of the constants that satisfy the
assumptions of the model, which the code justifies: bounds are naturals, tables
of what is asked have the types of the API. `IInv` was checked by TLC before it
was proved.

| Module | Properties of the run that are proved | The argument |
|---|---|---|
| `DurableAccountProofs` | all of `account`, with the refinement of `AccountLog`; `TypeOK`, `ReceiptsAreDurable`, `CommittedUnderLease` besides | what an open commit has established still holds (`TxnInv`: the row lock), the newest record's token is not above the row's and is its owner's when equal (`NewestLease`), record times do not decrease, which makes the last record the latest without an induction (`TimeOrdered`) |
| `RunLifecycleProofs` | `OneModelDispatch`, `RecordsAreTrue`, `ResultsAreFinal` | a provider is asked only by the attempt that wrote the marker of its stage, and no second attempt can write it; a stage is asked for only when the stages before it are settled, and a stage that is settled stays so |
| `ModelBudgetProofs` | all of `model_budget`: `SpendIsCovered`, `BudgetsHold`, `AskedOnce` | every counter is the total of the tickets charged to it (`BooksAreTrue`); what is left of a list of times after any of them accounts for every younger call, so pruning loses nothing (`RatesAreKept`); an active call owns the open ticket of its key (`TicketsAreOwned`) |
| `NewsProofs` | all of `news`: `RecordsAreSound`, `NothingStaysPending`, `NeverBackdated` | a key is pending while exactly one collector works on it; what a collector works on has passed the screen and is not in the index; the index tells of every record |
| `AgentRuntimeProofs` | all of `agent_runtime`: `OneAnswerPerKey`, `PaceHolds`, `ClaimsAreAccountedFor`, `MoneyIsSound` | a claim has one owner until it is settled, a settled answer is kept; the last start of an agent is the latest of its evaluations, and a day's counter is the number of slots its evaluations took; the money below |
| `ControlPlaneProofs` | all of `control_plane`: `TypeOK`, `RepeatsAgree`, `FourEyes`, `VerdictsAreEarned`, `ArchivedIsFrozen` | below |
| `TradingProofs` | all of `paper`: `MoneyIsKept`, `NothingRaises`, `OneOrderPerDecision`, `SizesAreRight`, `FillsAreAuthorised`, `BuysKeepLimits`; all of `paper_venue`: `BrokersKnowTheTruth`, `NothingPromisedTwice`; of `backtest`: `NoFigureFromTheFuture`, the orders of `GateDecides` (`OrdersAreHandedOff`), and under a condition all of `GateDecides` and `ExitsClose` | below |
| `TotalsProofs` | none: facts about sums, for the modules that count | below |

None of the properties is inductive. A state in which a commit of the account has
passed its checks while the row is changed under it satisfies `FencedJournal` and
has a step that breaks it; a state in which two transactions have both written
a review that is not committed yet satisfies `FourEyes` and has two steps that
break it. `IInv` says why such states are not reached.

In the control plane the reason is the locks. Whatever a transaction wrote, it
holds the lock of (a row's, or the unique key's), no two transactions hold one
lock, and what it inserted was not there when it inserted it. So a commit adds
rows nobody else has written, changes none that another transaction has locked,
and leaves append-only tables as they were otherwise: the committed store only grows
(`StoreGrows`). What another transaction has read of it therefore stays
true (`ReadIsTrue`), and so does what it will answer (`AnswerIsTrue`):
`SoundGrows` says so once for all requests, and the step lemma of each
statement only looks at its own transaction. The assumption is `StartsSound`: what is
stored before the scenarios satisfies the properties itself, and a request has the
shape the API accepts. The row predicates take the store as a parameter,
so that the same words say it of what was stored, of what is, and of what
a commit makes.

In the paper account the ledger and the risk session each keep their own books of
the same money, from a portfolio frozen when the generation began. `IInv` says
how the two agree. The ledger is solvent: reservations of open orders are within
cash, pending sells within the position, and no order is filled beyond what was
approved. Every open order is backed by one entry of the session, and no two by
the same; what the session has reserved is at least what its orders were
promised. So whatever the session would still issue finds its cash and its
position in the ledger (`NothingRaises`), the bounds each fill keeps are enough
for the assertions inside it, and a limit that the session checks over its
entries holds of the ledger's orders (`BuysKeepLimits`, through an injection of
orders into entries). A command that loops is proved by the least turn at which a
named bound would first fail, so no induction over data is needed. Both
bisections keep their answer between the ends of the interval, and find the
largest member because both sets are closed downwards, rounding included; the
length of the interval is what decreases.

The venue has an inductive invariant of its own, `VenueIInv`, over the same agreement
of ledger and session. It adds that the debits of all approvals are together
within the portfolio the session was given, and that an entry that was issued is used
up (`Granted`): an approval is cut to what the reservations before it leave, and a
hand-off reserves nothing new. The entries behind the venue's orders are then disjoint
from those that may still be handed off, so the two together are within the
portfolio (`PromisesFit`); and a fill takes no more from the cash than it takes off
the reservation, so they are within the cash at any time, also while a batch executes. Of a
broker's view the invariant says that it is current or older than the journal, and that
what was over in it is over in the ledger, unchanged (`Shows`): that is why only open
orders must be shown as unknown. Each ledger command is shown once to leave closed
orders alone (`Final`, in `MarketIs` and `CancelIs`).

A backtest has `BacktestIInv`. Its bars are those of the definition, bound to the
manifest, whatever became of the file (`BarsAreBound`); with no leakage found and bars in
order of arrival, the last of them being within the period means that all are
(`InOrderOfArrival`, by the least distance of two that are not). Its journal has
one sound receipt per approval that was asked for, in order (`JournalIsSound`):
whatever the session decides is within what was asked (`ApprovalIsWithin`), and a
handed-off receipt adds one order at its place among those (`AdmittingGrows`). Two of
its properties hold under a condition only, and TLC shows both fail without it.
`AuditIsWhole`, the other half of `GateDecides`, needs bars that arrived at times of their own (`DistinctTimes`): two
signals for one side at one instant have one intent, which the audit refuses, and
then the run is not answered. `ExitsClose` needs
`ExitsArePlain`: besides that, holdings in whole lots and a notional increment no
larger than one unit is worth. Rounding the notional down and the quantity up then
cancel out (`RoundingCancels`); finding 2 is a run in which they do not. The series of the
run `backtest` satisfy both, so there the two properties are checked as they stand.

In the agent runtime the money needs a second invariant, `CyclesAreSound`, which is
inductive given `IInv`: what a cycle has decided so far may be answered for
(`Decides`: an order among it is founded), its request passed the validation
(`RequestIsFit`: no position is short or unvalued), and every stored result is that
of a finished cycle and affordable. That the division of a portfolio is affordable
is a fact about an operator (`DivisionIsAffordable`). `Allocate` is a function on
turns, and in every turn the books balance (`Booked`): what is left of the cash, of the
budget and of the room of each overlap group, and what was given out of it, add up to
what there was. Were there a turn without that, there would be a least one, and the
turn before it says it has it (`AllocateIs`). A group may have no room from the start,
because its positions are worth more than its limit; it is then given nothing. What is
stated of money is assumed of nothing but the types of the contracts (`IsRequest`,
`IsProposal` in `RuntimeAssumption`): cash, what is available of
it and a notional are not negative, and a position that is not short has a value or none.

Sums. Counters of the budget, slots of the runtime and reservations of the
account are compared with sums over tickets, evaluations and orders. Folds are
out of the prover's reach, so `Totals` defines the total of a function as the
number of its positive units less that of its negative ones, and `TotalsProofs`
derives what the proofs need (a new key adds its value, a changed key the
difference, one value is at most the total, an injection carries one total below
another) from the theorems about finite sets, without induction.

`CommittedUnderLease` is proved for a clock that does not step back, as the code
assumes.

Only model-checked. Liveness (`EveryRunEnds`): fairness is out of the prover's
reach. `FiguresAddUp` of `Backtest`: the figures are folds over its fills. `Ingestion` and `SignalWindow`
speak of what `SelectSeq` and flattening leave of a sequence, which is recursive and
would have to be rephrased first.

## 5. Findings

1. `ingestion_last_match`. Coinbase sends the last match to every new
   subscription, `coinbase.py:106` parses it as a trade, and a reconnect forgets
   the stream's sequence (`health.py:219`), so a trade is stored a second time and
   counts twice in volume and order flow. `pipeline.py:13-15` of the ingestion
   says duplicates are discarded before a sink.
2. `backtest_exit`. The notional of an exit is rounded down to the increment
   (`risk_replay.py:473`), and with an increment above the price of one lot the
   approved quantity is less than the holding; the strategy is then not flat and
   ignores later entries. `adr/0041` says the approved quantity closes the
   intended position.

Smaller disagreements met while modelling, which no run is spent on:

- A market observation that is already recorded is answered before its key is
  stored (`accounts.py:219`), so the key can be used again for another payload;
  `durable-workflows.md:60-61` says conflicting payloads fail.
- An owner with an active lease is given the same token again (`accounts.py:95`)
  and the owner is the run: the token fences runs, not processes, as
  `durable-workflows.md:55-56` says.
- An answer that is both late and of another model is settled by a tariff that
  `gateway.py:292` calls not valid, since lateness is looked at first
  (`gateway.py:289`).
- A repetition that arrives before the first request has committed finds no
  record and is answered with an error (`agents.py:139`), while `conventions.md:29`
  says a replay returns the original result. A key whose record has expired can
  never be used again, as nothing purges the row (`idempotency.py:58`).
- A bundle read while its review is being written may be answered with 409
  (`paper_policies.py:67`), and a request is answered before its transaction
  commits (`dependencies.py:173`).
- The result of an evaluation is lost at a restart, and a conflicting request may be
  answered `in_progress` on the second look (`runtime.py:147`).
- `record_parse_failure` and `record_connected` are never called; the heartbeats
  of Coinbase carry sequences nobody observes; a field a domain type refuses ends
  the pipeline (`adapter.py:135`), while `pipeline.py:9` says bad input is skipped;
  events of a quiet stream wait in the buffer for the next frame of any stream
  (`pipeline.py:165`).
- Bars ingested at one instant share a key in the risk gate, so all but the last
  are priced at a later close (`risk_replay.py:84`), and two signals for one side
  among them are one intent (`risk_replay.py:273`), with which the audit cannot be
  sealed (`audit.py:165`) and the run raises (the series here have distinct times); with late orders an entry may be doubled (`engine.py:109`);
  an order filled in pieces overwrites the entry it belongs to (`engine.py:217`);
  a result without data can be publishable (`run.py:363`).
- Without a rollover an account that lives past midnight stops trading for good
  (`machine.py:80`).

## 6. Plan

What is left, in this order:

1. Proofs about `Ingestion`, rephrased without `SelectSeq` and flattening.
2. `AgentRuntime` and `News` composed with `ModelBudget` instead of a gateway of
   their own, once an abstract gateway is stated that `ModelBudget` implements.
3. Preparing a request in the gateway: routes, schemas and validation of outputs.

## 7. Not modelled

Row level security and database triggers are PostgreSQL's; hashing and
serialisation are taken as injective. Token verification, inspection and health
routes and the listing pages keep no state across requests. Domain types, data
contracts, observability, the web application, research evaluations,
infrastructure and migrations hold no state machine of their own. The simulator
of a backtest is a library. Of the modelled parts: network limits of the risk
policy, the rollover of the account at midnight (the code refuses it), the byte
limit of the journal beyond its refusal, prompts and telemetry of the gateway,
the limits of 16 contexts and 64 pieces of evidence in the runtime, the ratios of
a backtest's metrics, and several accounts in one database, which share nothing.
