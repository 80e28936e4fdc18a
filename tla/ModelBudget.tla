------------------------------- MODULE ModelBudget -------------------------------
(***************************************************************************)
(* The model gateway's budget ledger (budget.py) and the calls that        *)
(* reserve from it and settle (gateway.py, _call).  Every reserve and      *)
(* finish holds the ledger's lock; between them a call awaits its provider *)
(* while other calls run, the minute rolls on and midnight passes.         *)
(***************************************************************************)
EXTENDS Integers, FiniteSets, Sequences, Totals

CONSTANTS
  Attempts,       \* calls of structured()
  RequestOf,      \* the request of each: its key, agent, version, decision and bound in units
  Agents, Decisions, Versions,
  DailyUnits, DailyCalls, MinuteCalls,   \* per scope: the workspace and each agent
  CycleUnits, CycleCalls, CycleTime,     \* per decision
  Minute,         \* ticks in a rolling minute
  CallTimeout,    \* timeout_ms of the route
  Capacity,       \* tickets the ledger holds
  Overrun,        \* how far a provider may exceed its token bound
  MaxClock, MaxDay

Workspace == "workspace"
Scopes == {Workspace} \cup Agents
Keys == {RequestOf[a].key : a \in Attempts}
Days == 1..MaxDay

ASSUME BudgetAssumption ==
  /\ Workspace \notin Agents
  /\ DailyUnits \in [Scopes -> Nat] /\ DailyCalls \in [Scopes -> Nat]
  /\ MinuteCalls \in [Scopes -> Nat]
  /\ {CycleUnits, CycleCalls, CycleTime, Minute, CallTimeout, Capacity, Overrun} \subseteq Nat
  /\ MaxClock \in Nat /\ MaxDay \in Nat \ {0}
  /\ \A a \in Attempts : /\ RequestOf[a].agent \in Agents
                         /\ RequestOf[a].decision \in Decisions
                         /\ RequestOf[a].version \in Versions
                         /\ RequestOf[a].bound \in Nat

VARIABLES
  clock,     \* the monotonic clock
  day,       \* the UTC date
  tickets,   \* per key: the ticket, once there is one
  days,      \* per scope and day: units and calls
  rates,     \* per scope: times of the calls of the last minute
  cycles,    \* per agent and decision: version, deadline, units and calls
  call,      \* per attempt: where it is, when its provider was asked, what it returned
  billed     \* history, per key: how often the provider was asked, what it charges, and whether
             \* its answer came from the model whose tariff is configured

vars == <<clock, day, tickets, days, rates, cycles, call, billed>>
ledger == <<tickets, days, rates, cycles>>

Unknown == -1

\* A dictionary after an assignment to one of its keys.
Put(f, k, v) == [j \in DOMAIN f \union {k} |-> IF j = k THEN v ELSE f[j]]

Zero == [units |-> 0, calls |-> 0]

Init ==
  /\ clock = 0 /\ day = 1
  /\ tickets = <<>>
  /\ days = [s \in Scopes |-> [d \in Days |-> Zero]]
  /\ rates = [s \in Scopes |-> <<>>]
  /\ cycles = <<>>
  /\ call = [a \in Attempts |-> [pc |-> "idle", since |-> 0, result |-> "none"]]
  /\ billed = [k \in Keys |-> [asked |-> 0, units |-> 0, priced |-> TRUE]]

-------------------------------------------------------------------------------
(* reserve *)

ScopesOf(r) == {Workspace, r.agent}
CycleOf(r) == <<r.agent, r.decision>>

Cycle(r) ==
  IF CycleOf(r) \in DOMAIN cycles THEN cycles[CycleOf(r)]
  ELSE [version |-> r.version, deadline |-> clock + CycleTime, units |-> 0, calls |-> 0]

Kept(s, old) == SubSeq(rates[s], Cardinality(old) + 1, Len(rates[s]))

RecentTooShort(s) ==
  Kept(s, {i \in 1..Len(rates[s]) : \A j \in 1..i : rates[s][j] <= clock - Minute + 1})

\* Times are dropped from the front while the first of them is a minute old.
Old(s) == {i \in 1..Len(rates[s]) : \A j \in 1..i : rates[s][j] <= clock - Minute}

Recent(s) == Kept(s, Old(s))

WithinDaySoFar(s, units) ==
  /\ days[s][day].units <= DailyUnits[s]
  /\ days[s][day].calls < DailyCalls[s]
  /\ Len(Recent(s)) < MinuteCalls[s]

WithinDay(s, units) ==
  /\ days[s][day].units + units <= DailyUnits[s]
  /\ days[s][day].calls < DailyCalls[s]
  /\ Len(Recent(s)) < MinuteCalls[s]

WithinCycle(r) ==
  /\ Cycle(r).version = r.version
  /\ clock < Cycle(r).deadline
  /\ Cycle(r).units + r.bound <= CycleUnits
  /\ Cycle(r).calls < CycleCalls

Admitted(r) ==
  /\ Cardinality(DOMAIN tickets) < Capacity
  /\ \A s \in ScopesOf(r) : WithinDay(s, r.bound)
  /\ WithinCycle(r)

Charge(counter, units) == [counter EXCEPT !.units = @ + units, !.calls = @ + 1]

NewTicket(r) ==
  [fingerprint |-> r, reserved |-> r.bound, day |-> day, at |-> clock,   \* at: history
   deadline |-> Cycle(r).deadline, open |-> TRUE, actual |-> r.bound, outcome |-> "none"]

Returns(a, result) == call' = [call EXCEPT ![a].pc = "done", ![a].result = result]

\* Nothing is charged until every scope has admitted the call.
Reserve(a) ==
  LET r == RequestOf[a]
  IN  /\ call[a].pc = "idle" /\ r.key \notin DOMAIN tickets
      /\ Admitted(r)
      /\ tickets' = Put(tickets, r.key, NewTicket(r))
      /\ days' = [s \in Scopes |-> IF s \in ScopesOf(r)
                                   THEN [days[s] EXCEPT ![day] = Charge(@, r.bound)] ELSE days[s]]
      /\ rates' = [s \in Scopes |-> IF s \in ScopesOf(r)
                                    THEN Append(Recent(s), clock) ELSE rates[s]]
      /\ cycles' = Put(cycles, CycleOf(r), Charge(Cycle(r), r.bound))
      /\ call' = [call EXCEPT ![a].pc = "reserved"]
      /\ UNCHANGED <<clock, day, billed>>

\* The lists of the scopes that were looked at lose what is older than a minute.
Refuse(a) ==
  LET r == RequestOf[a]
  IN  /\ call[a].pc = "idle" /\ r.key \notin DOMAIN tickets
      /\ ~Admitted(r)
      /\ \E looked \in {{}, {Workspace}, ScopesOf(r)} :
           rates' = [s \in Scopes |-> IF s \in looked THEN Recent(s) ELSE rates[s]]
      /\ Returns(a, "refused")
      /\ UNCHANGED <<clock, day, tickets, days, cycles, billed>>

\* A key that has a ticket: the same request is answered from it, another one conflicts.
FindTicket(a) ==
  LET r == RequestOf[a]
      ticket == tickets[r.key]
  IN  /\ call[a].pc = "idle" /\ r.key \in DOMAIN tickets
      /\ \/ ticket.fingerprint # r /\ Returns(a, "conflict")
         \/ ticket.fingerprint = r /\ ticket.open /\ Returns(a, "in_progress")
         \/ ticket.fingerprint = r /\ ~ticket.open /\ Returns(a, ticket.outcome)
      /\ UNCHANGED <<clock, day, ledger, billed>>

-------------------------------------------------------------------------------
(* finish: the counters of the day the call was reserved on are corrected. *)

ReleasedCharge(ticket, usage) == IF usage = Unknown THEN 0 ELSE usage

SettledCharge(ticket, usage) == IF usage = Unknown THEN ticket.reserved ELSE usage

SettlementToday(ticket) == day

SettlementDay(ticket) == ticket.day

Finish(a, usage, outcome) ==
  LET r == RequestOf[a]
      ticket == tickets[r.key]
      charge == SettledCharge(ticket, usage)
      change == charge - ticket.reserved
      on == SettlementDay(ticket)
  IN  /\ ticket.open
      /\ tickets' = [tickets EXCEPT ![r.key].open = FALSE, ![r.key].actual = charge,
                                    ![r.key].outcome = outcome]
      /\ days' = [s \in Scopes |-> IF s \in ScopesOf(r)
                                   THEN [days[s] EXCEPT ![on].units = @ + change] ELSE days[s]]
      /\ cycles' = [cycles EXCEPT ![CycleOf(r)].units = @ + change]
      /\ Returns(a, outcome)
      /\ UNCHANGED rates

\* The clock has reached the deadline of the cycle since the reservation.
TooLate(a) ==
  /\ call[a].pc = "reserved"
  /\ clock >= tickets[RequestOf[a].key].deadline
  /\ Finish(a, Unknown, "failure")
  /\ UNCHANGED <<clock, day, billed>>

DispatchTwice(a) ==
  /\ call[a].pc \in {"reserved", "waiting"}
  /\ clock < tickets[RequestOf[a].key].deadline
  /\ call' = [call EXCEPT ![a].pc = "waiting", ![a].since = clock]
  /\ billed' = [billed EXCEPT ![RequestOf[a].key].asked = @ + 1]
  /\ UNCHANGED <<clock, day, ledger>>

Dispatch(a) ==
  /\ call[a].pc = "reserved"
  /\ clock < tickets[RequestOf[a].key].deadline
  /\ call' = [call EXCEPT ![a].pc = "waiting", ![a].since = clock]
  /\ billed' = [billed EXCEPT ![RequestOf[a].key].asked = @ + 1]
  /\ UNCHANGED <<clock, day, ledger>>

Seconds(a) ==
  LET left == tickets[RequestOf[a].key].deadline - call[a].since
  IN  IF left < CallTimeout THEN left ELSE CallTimeout

Bills(a, units) == billed' = [billed EXCEPT ![RequestOf[a].key].units = @ + units]

Misprices(a) == billed' = [billed EXCEPT ![RequestOf[a].key].priced = FALSE]

Late(a) == clock - call[a].since >= Seconds(a)

(* The usage an answer is settled with.  One of another model says nothing of the costs, which the
   code finds out only when the answer is in time.                                              *)
UsageOf(a, units, same) == IF same \/ Late(a) THEN units ELSE Unknown

(* An answer with its usage, which may exceed the bound, of the route's model or of another.  A late
   answer, an excess, a refusal or an invalid output is a failure whose usage is known all the same. *)
Answer(a, units, valid, same) ==
  /\ call[a].pc = "waiting"
  /\ units <= tickets[RequestOf[a].key].reserved + Overrun
  /\ IF same THEN Bills(a, units) ELSE Misprices(a)
  /\ LET ok == valid /\ same /\ ~Late(a) /\ units <= tickets[RequestOf[a].key].reserved
     IN  Finish(a, UsageOf(a, units, same), IF ok THEN "success" ELSE "failure")
  /\ UNCHANGED <<clock, day>>

(* A timeout, a cancellation, an error, or an answer without usage.  What the provider charges for
   it, up to the bound, the gateway never learns.                                              *)
NoUsage(a, units) ==
  /\ call[a].pc = "waiting"
  /\ units <= tickets[RequestOf[a].key].reserved
  /\ Bills(a, units)
  /\ Finish(a, Unknown, "failure")
  /\ UNCHANGED <<clock, day>>

-------------------------------------------------------------------------------
ClockTicks ==
  /\ clock < MaxClock
  /\ clock' = clock + 1
  /\ UNCHANGED <<day, ledger, call, billed>>

Midnight ==
  /\ day < MaxDay
  /\ day' = day + 1
  /\ UNCHANGED <<clock, ledger, call, billed>>

MaxBound == CHOOSE n \in {RequestOf[a].bound : a \in Attempts} :
              \A a \in Attempts : RequestOf[a].bound <= n

Next ==
  \/ \E a \in Attempts :
       \/ Reserve(a) \/ Refuse(a) \/ FindTicket(a)
       \/ TooLate(a) \/ Dispatch(a)
       \/ \E units \in 0..MaxBound + Overrun, valid, same \in BOOLEAN : Answer(a, units, valid, same)
       \/ \E units \in 0..MaxBound : NoUsage(a, units)
  \/ ClockTicks
  \/ Midnight

Spec == Init /\ [][Next]_vars

-------------------------------------------------------------------------------
(* Properties *)

Requests == {RequestOf[a] : a \in Attempts}
Outcomes == {"none", "success", "failure", "refused", "conflict", "in_progress"}

Ticket ==
  [fingerprint : Requests, reserved : Nat, day : Days, at : Nat, deadline : Nat, open : BOOLEAN,
   actual : Nat, outcome : Outcomes]

TypeOK ==
  /\ clock \in Nat /\ day \in Days
  /\ IsFiniteSet(DOMAIN tickets) /\ DOMAIN tickets \subseteq Keys
  /\ tickets \in [DOMAIN tickets -> Ticket]
  /\ days \in [Scopes -> [Days -> [units : Int, calls : Nat]]]
  /\ rates \in [Scopes -> Seq(Nat)]
  /\ DOMAIN cycles \subseteq Agents \X Decisions
  /\ cycles \in [DOMAIN cycles -> [version : Versions, deadline : Nat, units : Int, calls : Nat]]
  /\ call \in [Attempts -> [pc : {"idle", "reserved", "waiting", "done"}, since : Nat,
                            result : Outcomes]]
  /\ billed \in [Keys -> [asked : Nat, units : Nat, priced : BOOLEAN]]

TicketsOf(s, d) ==
  {k \in DOMAIN tickets : tickets[k].day = d /\ s \in ScopesOf(tickets[k].fingerprint)}
TicketsIn(c) == {k \in DOMAIN tickets : CycleOf(tickets[k].fingerprint) = c}

Billed(keys) == Total([k \in keys |-> billed[k].units])
ExcessOf(k) ==
  IF tickets[k].actual > tickets[k].reserved THEN tickets[k].actual - tickets[k].reserved ELSE 0
Excess(keys) == Total([k \in keys |-> ExcessOf(k)])

(* The ledger never understates what providers charge: on every day, scope and decision the
   counter is at least the real bill, also for calls that timed out, were cancelled, answered
   after midnight or answered without usage (budget.py:176-179).  A bill under an unknown tariff is not in it. *)
SpendIsCovered ==
  /\ \A s \in Scopes, d \in Days : Billed(TicketsOf(s, d)) <= days[s][d].units
  /\ \A c \in DOMAIN cycles : Billed(TicketsIn(c)) <= cycles[c].units

(* No scope spends more than its limit whatever runs concurrently, except by what a provider
   charged above its own bound, and a decision's budget outlives midnight (budget.py:122-138).    *)
LimitsHold ==
  /\ \A s \in Scopes, d \in Days :
       /\ days[s][d].units <= DailyUnits[s] + Excess(TicketsOf(s, d))
       /\ days[s][d].calls <= DailyCalls[s]
  /\ \A c \in DOMAIN cycles :
       /\ cycles[c].units <= CycleUnits + Excess(TicketsIn(c))
       /\ Cardinality(TicketsIn(c)) <= CycleCalls

StartedIn(s, t) ==
  {k \in DOMAIN tickets : /\ s \in ScopesOf(tickets[k].fingerprint)
                          /\ tickets[k].at \in t..(t + Minute - 1)}

(* In no window of a minute does a scope start more calls than its rate allows, although its list
   of times is pruned on the way and calls that were refused are not in it (budget.py:129-133).   *)
RateHolds ==
  \A s \in Scopes, t \in 0..MaxClock : Cardinality(StartedIn(s, t)) <= MinuteCalls[s]

(* Every limit of a scope holds whatever runs concurrently: its day, its decisions and its rate.   *)
BudgetsHold == LimitsHold /\ RateHolds

(* A provider is asked at most once for a key, however often and however concurrently the call is
   retried (budget.py:99-107).                                                                  *)
AskedOnce == \A k \in Keys : billed[k].asked <= 1

=============================================================================
