------------------------------ MODULE AgentRuntime ------------------------------
(***************************************************************************)
(* LocalAgentRuntime.evaluate (runtime.py): evaluations of several callers *)
(* share a cache of results, the decision slots of a day and the pace of   *)
(* an agent, under one lock that no evaluation holds while it works.  An   *)
(* evaluation asks the model gateway once per candidate; the gateway       *)
(* answers, fails, is outrun by the deadline of the cycle or the caller is *)
(* cancelled.  The wall clock moves on, and may be stepped back.           *)
(***************************************************************************)
EXTENDS Analysis

CONSTANTS
  Callers,      \* the calls of evaluate()
  Scenarios,    \* the requests that may meet, and the entries of the cache, which never evicts
  RequestOf,    \* request id -> EvaluationRequest
  VersionOf,    \* version id -> the registered AgentVersion; others are unknown
  ContextSets,  \* what the provider of network contexts may return
  Proposals,    \* what a model may answer
  DayLength, MaxClock, MaxStepsBack

Ids == UNION {scenario.requests : scenario \in Scenarios}

\* What the contracts of a request and of a proposal demand.
IsRequest(request) ==
  LET p == request.portfolio
  IN  /\ request.asOf \in Int
      /\ \A e \in request.evidence : e.ingested \in Int
      /\ \A i \in DOMAIN request.features : \A f \in DOMAIN request.features[i] :
           request.features[i][f] \in Int
      /\ {p.cash, p.available} \subseteq Nat /\ p.equity \in Int
      /\ IsFiniteSet(DOMAIN p.held)
      /\ \A i \in DOMAIN p.held :
           p.held[i].quantity >= 0 => p.held[i].value \in Nat \cup {Unknown}

IsProposal(proposal) ==
  /\ IsFiniteSet(proposal.for) /\ IsFiniteSet(proposal.against)
  /\ proposal.amount \in Nat /\ {proposal.rank, proposal.cost} \subseteq Int

\* What the registry and the contracts let through.
ASSUME RuntimeAssumption ==
  /\ DayLength \in Nat \ {0}
  /\ \A v \in DOMAIN VersionOf : /\ VersionOf[v].interval \in Nat /\ VersionOf[v].perDay \in Nat
                                 /\ VersionOf[v].universe \in SUBSET Instruments
                                 /\ IsFiniteSet(VersionOf[v].universe)
                                 /\ VersionOf[v].minEvidence \in Nat
  /\ \A id \in Ids : IsRequest(RequestOf[id])
  /\ \A proposal \in Proposals : IsProposal(proposal)
  /\ \A contexts \in ContextSets : \A x \in contexts : x.until \in Int

VARIABLES
  asked,   \* the scenario of this behaviour
  clock, stepsBack,
  cache,   \* per workspace and key: the request and its result, NoResult while it runs
  counts,  \* per workspace, agent and day: decision slots taken
  last,    \* per workspace and agent: when it last started
  run,     \* per caller: where it is
  opened   \* history: the evaluations that were started

vars == <<asked, clock, stepsBack, cache, counts, last, run, opened>>

Put(f, k, v) == [x \in DOMAIN f \cup {k} |-> IF x = k THEN v ELSE f[x]]

NoResult == [status |-> "none"]
NoAllocation == <<[action |-> "none"]>>

Result(status, reason) ==
  [status |-> status, reason |-> reason, decisions |-> <<>>, allocations |-> NoAllocation,
   calls |-> {}]

Idle == [pc |-> "idle", request |-> "none", now |-> 0, selected |-> <<>>, contexts |-> {},
         decisions |-> <<>>, calls |-> {}, sent |-> {}, out |-> NoResult]

Init ==
  /\ asked \in Scenarios
  /\ clock = 0 /\ stepsBack = 0
  /\ cache = <<>> /\ counts = <<>> /\ last = <<>>
  /\ run = [c \in Callers |-> Idle]
  /\ opened = <<>>

RequestAt(c) == RequestOf[run[c].request]
VersionAt(c) == VersionOf[RequestAt(c).version]
KeyOf(request) == <<request.workspace, request.key>>
AgentOf(version) == <<version.workspace, version.agent>>
DayOf(version, time) == <<version.workspace, version.agent, time \div DayLength>>
Taken(day) == IF day \in DOMAIN counts THEN counts[day] ELSE 0

Registered(request) ==
  /\ request.version \in DOMAIN VersionOf
  /\ VersionOf[request.version].workspace = request.workspace

Answer(c, id, result) ==
  run' = [run EXCEPT ![c].pc = "done", ![c].request = id, ![c].out = result]

Refuse(c, id, reason) == Answer(c, id, Result("refused", reason))

-------------------------------------------------------------------------------
(* Before the evaluation: the first look at the cache, the validation, the second look.  *)

FindCached(c, id) ==
  LET entry == cache[KeyOf(RequestOf[id])]
  IN  CASE entry.request # id -> Refuse(c, id, "idempotency_conflict")
        [] entry.result = NoResult -> Answer(c, id, Result("in_progress", "evaluation_in_progress"))
        [] OTHER -> Answer(c, id, entry.result)

\* The clock is read and the request validated after the lock is released.
Examine(c, id) ==
  LET request == RequestOf[id]
      reason == InputReason(request, VersionOf[request.version], clock)
  IN  IF reason # NoReason THEN Refuse(c, id, reason)
      ELSE run' = [run EXCEPT ![c].pc = "valid", ![c].request = id, ![c].now = clock]

Arrive(c) ==
  \E id \in asked.requests :
    LET request == RequestOf[id]
    IN  /\ run[c].pc = "idle"
        /\ IF ~Registered(request) THEN Refuse(c, id, "unauthorized_version")
           ELSE IF KeyOf(request) \in DOMAIN cache THEN FindCached(c, id)
           ELSE Examine(c, id)
        /\ UNCHANGED <<asked, clock, stepsBack, cache, counts, last, opened>>

TooSoon(c) ==
  /\ AgentOf(VersionAt(c)) \in DOMAIN last
  /\ run[c].now - last[AgentOf(VersionAt(c))] < VersionAt(c).interval

Remaining(c) == VersionAt(c).perDay - Taken(DayOf(VersionAt(c), run[c].now))

ClaimRefusalByPace(c) ==
  FirstReason(<<
    <<Cardinality(DOMAIN cache) >= asked.capacity, "runtime_capacity">>,
    <<TooSoon(c), "decision_interval">>,
    <<Remaining(c) <= 0, "daily_decision_budget">> >>)

ClaimRefusal(c) ==
  FirstReason(<<
    <<KeyOf(RequestAt(c)) \in DOMAIN cache, "evaluation_in_progress">>,
    <<Cardinality(DOMAIN cache) >= asked.capacity, "runtime_capacity">>,
    <<TooSoon(c), "decision_interval">>,
    <<Remaining(c) <= 0, "daily_decision_budget">> >>)

Candidates(c) == Scan(RequestAt(c), VersionAt(c))

\* How many of the candidates are put to a model: each takes a slot of the day.
Slots(c) == Min({Scanned(RequestAt(c), VersionAt(c)), Remaining(c), Policy.calls})

Selected(c) == SubSeq(Candidates(c), 1, Slots(c))

\* The key is looked up again: another caller may have started it since.
NotClaimed(c) ==
  /\ run[c].pc = "valid" /\ ClaimRefusal(c) # NoReason
  /\ Answer(c, run[c].request,
            Result(IF ClaimRefusal(c) = "evaluation_in_progress" THEN "in_progress" ELSE "refused",
                   ClaimRefusal(c)))
  /\ UNCHANGED <<asked, clock, stepsBack, cache, counts, last, opened>>

UnchargedSlots(c) == Taken(DayOf(VersionAt(c), run[c].now))

ChargedSlots(c) == Taken(DayOf(VersionAt(c), run[c].now)) + Slots(c)

\* The slots and the pace are charged before a model is asked, and never given back.
Claim(c) ==
  LET version == VersionAt(c)
      now == run[c].now
  IN  /\ run[c].pc = "valid" /\ ClaimRefusal(c) = NoReason
      /\ counts' = Put(counts, DayOf(version, now), ChargedSlots(c))
      /\ last' = Put(last, AgentOf(version), now)
      /\ cache' = Put(cache, KeyOf(RequestAt(c)), [request |-> run[c].request, result |-> NoResult])
      /\ run' = [run EXCEPT ![c].pc = "claimed", ![c].selected = Selected(c)]
      /\ opened' = Append(opened, [key |-> KeyOf(RequestAt(c)), agent |-> AgentOf(version),
                                   version |-> RequestAt(c).version, now |-> now,
                                   slots |-> Slots(c)])
      /\ UNCHANGED <<asked, clock, stepsBack>>

-------------------------------------------------------------------------------
(* The evaluation ends, in whatever way, by storing its result under its key.            *)

Store(c, result) ==
  cache' = [cache EXCEPT ![KeyOf(RequestAt(c))].result = result]

\* The caller gets its result; one that was cancelled gets an exception.
Settle(c, result) ==
  /\ Store(c, result)
  /\ run' = [run EXCEPT ![c].pc = "done", ![c].out = result]
  /\ UNCHANGED <<asked, clock, stepsBack, counts, last, opened>>

SettleWithoutStoring(c, result) ==
  /\ run' = [run EXCEPT ![c].pc = "done", ![c].out = result]
  /\ UNCHANGED <<asked, clock, stepsBack, cache, counts, last, opened>>

Progress(c, changed) ==
  /\ run' = [run EXCEPT ![c] = changed]
  /\ UNCHANGED <<asked, clock, stepsBack, cache, counts, last, opened>>

Begin(c) ==
  /\ run[c].pc = "claimed"
  /\ \E contexts \in IF VersionAt(c).network THEN ContextSets ELSE {{}} :
       LET reason == ContextReason(contexts, RequestAt(c), VersionAt(c))
       IN  IF reason # NoReason THEN Settle(c, Result("refused", reason))
           ELSE Progress(c, [run[c] EXCEPT !.pc = "cycle", !.contexts = contexts])

ContextsUnavailable(c) ==
  /\ run[c].pc = "claimed" /\ VersionAt(c).network
  /\ Settle(c, Result("refused", "network_unavailable"))

Current(c) == run[c].selected[Len(run[c].decisions) + 1]
Considering(c) == run[c].pc = "cycle" /\ Len(run[c].decisions) < Len(run[c].selected)

Evidence(c) == Relevant(Eligible(RequestAt(c), VersionAt(c)), Current(c))

Contexts(c) ==
  {x \in run[c].contexts : Current(c) \in x.about /\ x.until > RequestAt(c).asOf}

\* Why a candidate is not put to a model at all.
Withheld(c) ==
  FirstReason(<<
    <<clock >= ExpiresAt(RequestAt(c)), "candidate_expired">>,
    <<~VersionAt(c).analyzer, "analyzer_disabled">>,
    <<Cardinality(Evidence(c)) < VersionAt(c).minEvidence, "insufficient_evidence">>,
    <<VersionAt(c).network /\ (Contexts(c) = {} \/ \E x \in Contexts(c) : x.health # "normal"),
      "unknown_network_context">> >>)

NeverExpires(c) == clock < run[c].now

\* The frozen facts, or the clock, have moved on while the model was thinking.
DecisionExpired(c) ==
  \/ clock < run[c].now
  \/ clock >= ExpiresAt(RequestAt(c))
  \/ \E x \in Contexts(c) : x.until <= clock
  \/ clock - RequestAt(c).asOf > Policy.snapshotAge

DecidedAt(c) == Max({run[c].now, clock})

Bind(c, proposal) ==
  LET bound == IF DecisionExpired(c) THEN Abstain("decision_expired") ELSE proposal
  IN  [action |-> bound.action, for |-> bound.for, against |-> bound.against,
       horizon |-> bound.horizon, amount |-> bound.amount, cost |-> bound.cost,
       rank |-> bound.rank, reason |-> bound.reason,
       instrument |-> Current(c), decided |-> DecidedAt(c)]

Conclude(c, proposal, calls) ==
  Progress(c, [run[c] EXCEPT !.pc = "cycle", !.calls = calls,
                             !.decisions = Append(@, Bind(c, proposal))])

WithCall(c) == run[c].calls \cup {Current(c)}

Skip(c) == Considering(c) /\ Withheld(c) # NoReason /\ Conclude(c, Abstain(Withheld(c)), run[c].calls)

\* The gateway refuses before anything is reserved: there is no call to report.
GatewayRefuses(c) ==
  /\ Considering(c) /\ Withheld(c) = NoReason
  /\ Conclude(c, Abstain("model_refused"), run[c].calls)

Ask(c) ==
  /\ Considering(c) /\ Withheld(c) = NoReason
  /\ Progress(c, [run[c] EXCEPT !.pc = "asking", !.sent = @ \cup {Current(c)}])

Replies(c) ==
  /\ run[c].pc = "asking"
  /\ \E proposal \in Proposals :
       LET reason == ProposalReason(proposal, Evidence(c), RequestAt(c), VersionAt(c))
       IN  Conclude(c, IF reason # NoReason THEN Abstain(reason) ELSE proposal, WithCall(c))

GatewayFails(c) ==
  run[c].pc = "asking" /\ Conclude(c, Abstain("model_failed"), WithCall(c))

InterruptedCountingAnswers(c, reason) ==
  [Result("refused", reason) EXCEPT
     !.decisions = IF reason = "cycle_timeout" THEN run[c].decisions ELSE <<>>,
     !.calls = run[c].calls]

\* The deadline and a cancellation reach an evaluation only while it awaits the gateway,
\* which has recorded the call by then (record_for).
Interrupted(c, reason) ==
  [Result("refused", reason) EXCEPT
     !.decisions = IF reason = "cycle_timeout" THEN run[c].decisions ELSE <<>>,
     !.calls = WithCall(c)]

TimesOut(c) == run[c].pc = "asking" /\ Settle(c, Interrupted(c, "cycle_timeout"))

CancelledUnstored(c) ==
  run[c].pc = "asking" /\ SettleWithoutStoring(c, Interrupted(c, "evaluation_interrupted"))

Cancelled(c) == run[c].pc = "asking" /\ Settle(c, Interrupted(c, "evaluation_interrupted"))

\* Only a cycle that decided every candidate is given money.
Complete(c) ==
  /\ run[c].pc = "cycle" /\ Len(run[c].decisions) = Len(run[c].selected)
  /\ Settle(c, [Result("completed", NoReason) EXCEPT
                  !.decisions = run[c].decisions,
                  !.allocations = Allocate(run[c].decisions, RequestAt(c).portfolio),
                  !.calls = run[c].calls])

-------------------------------------------------------------------------------
Tick == clock < MaxClock /\ clock' = clock + 1 /\ UNCHANGED <<asked, stepsBack, cache, counts, last, run, opened>>

StepBack ==
  /\ stepsBack < MaxStepsBack /\ clock > 0
  /\ clock' = clock - 1 /\ stepsBack' = stepsBack + 1
  /\ UNCHANGED <<asked, cache, counts, last, run, opened>>

Works(c) ==
  \/ NotClaimed(c) \/ Claim(c) \/ Begin(c) \/ ContextsUnavailable(c) \/ Skip(c)
  \/ GatewayRefuses(c) \/ Ask(c) \/ Complete(c)

\* A call of the gateway ends, since the cycle's deadline ends it.
CallEnds(c) == Replies(c) \/ GatewayFails(c) \/ TimesOut(c) \/ Cancelled(c)

Next ==
  \/ Tick \/ StepBack
  \/ \E c \in Callers : Arrive(c) \/ Works(c) \/ CallEnds(c)

Spec == Init /\ [][Next]_vars

-------------------------------------------------------------------------------
(* Properties *)

Done(c) == run[c].pc = "done"
Paid(c) == {a \in Range(run[c].out.allocations) : a.amount > 0}
Completed(c) == Done(c) /\ run[c].out.status = "completed"

\* One evaluation is started per key (runtime.py, both looks at the cache), and whoever asks
\* with the key again, at the same time or later, gets its final answer or none: never the
\* answer to another request.
OneAnswerPerKey ==
  /\ \A i, j \in DOMAIN opened : opened[i].key = opened[j].key => i = j
  /\ \A c, d \in Callers :
       /\ Completed(c) /\ Completed(d)
       /\ KeyOf(RequestAt(c)) = KeyOf(RequestAt(d))
       => run[c].request = run[d].request /\ run[c].out = run[d].out

\* An agent keeps its pace and its slots of a day whatever interleaves, fails or is cancelled,
\* and across midnight and a clock that is stepped back: the second look at the cache and the
\* charge are one critical section, though the time was read before it.
PaceHolds ==
  /\ \A i, j \in DOMAIN opened :
       i < j /\ opened[i].agent = opened[j].agent
       => opened[j].now >= opened[i].now + VersionOf[opened[j].version].interval
  /\ \A i \in DOMAIN opened :
       LET sameDay == {j \in 1..i : /\ opened[j].agent = opened[i].agent
                                    /\ opened[j].now \div DayLength = opened[i].now \div DayLength}
       IN  Total([j \in sameDay |-> opened[j].slots]) <= VersionOf[opened[i].version].perDay

Founded(c, decision) ==
  LET request == RequestAt(c)
      version == VersionAt(c)
      allowed == {e \in request.evidence :
                    /\ ~e.injected /\ e.quality >= version.minQuality /\ e.pack \in version.packs
                    /\ e.about # {} => decision.instrument \in e.about}
      cited == decision.for \cup decision.against
  IN  /\ cited \subseteq {e.id : e \in allowed}
      /\ \A e \in allowed : e.id \in cited => e.ingested <= request.asOf
      /\ Cardinality(cited) >= version.minEvidence /\ decision.for # {}
      /\ version.contradiction => decision.against # {}
      /\ decision.decided >= run[c].now
      /\ decision.decided < request.asOf + Policy.ttl
      /\ decision.decided - request.asOf <= Policy.snapshotAge
      /\ version.network =>
           /\ \E x \in run[c].contexts : decision.instrument \in x.about
           /\ \A x \in run[c].contexts :
                decision.instrument \in x.about /\ x.until > request.asOf
                => x.health = "normal" /\ decision.decided < x.until

\* Money is set aside only by a cycle that finished, and only for decisions that cite enough
\* evidence the agent may use, none of it flagged as an injection, made while the frozen facts
\* still held (runtime.py 298-325): a decision kept by a cycle that timed out gets none.
MoneyIsFounded ==
  \A c \in Callers :
    Done(c) /\ run[c].out # NoResult /\ run[c].out.allocations # NoAllocation =>
      /\ run[c].out.status = "completed"
      /\ \A a \in Paid(c) :
           \E d \in Range(run[c].out.decisions) :
             d.instrument = a.instrument /\ (run[c].selected # <<>> => Founded(c, d))

\* The allocations of a cycle together fit in the cash with its fee buffer, in the budget for
\* new positions and in each overlap group; no sale exceeds what is held, and a portfolio that
\* is not reconciled or has orders pending gets nothing (portfolio.py).
Worth(paid) == Total([a \in paid |-> a.amount])

Affordable(p, paid) ==
  LET buys == {a \in paid : a.action = "buy"}
      GroupOf(a) == Policy.groups[a.instrument]
  IN  /\ Worth(buys) * (100 + Policy.bufferPct) <= p.available * 100
      /\ Worth(buys) * 100 <= p.equity * Policy.newPct
      /\ \A a \in buys :
           100 * (Worth({b \in buys : GroupOf(b) = GroupOf(a)}) + Value(p, HeldIn(p, GroupOf(a))))
             <= p.equity * Policy.groupPct
      /\ \A a \in paid \ buys :
           a.instrument \in DOMAIN p.held /\ a.amount <= p.held[a.instrument].value
      /\ p.pending > 0 \/ p.reconciled = Unknown => paid = {}

MoneyIsThere == \A c \in Callers : Completed(c) => Affordable(RequestAt(c).portfolio, Paid(c))

\* What a cycle sets aside it may set aside, and is there.
MoneyIsSound == MoneyIsFounded /\ MoneyIsThere

\* Every call a model may have been paid for is in the result that is kept, also the one that
\* was under way when the cycle timed out or its caller was cancelled.
CallsAreReported ==
  \A c \in Callers :
    Done(c) /\ run[c].selected # <<>>
    => /\ run[c].out.calls = run[c].sent
       /\ cache[KeyOf(RequestAt(c))].result = run[c].out

\* A key is never left in progress: as long as it has no result, one evaluation is at work on
\* it, and every way that evaluation can end, a cancelled caller's too, leaves a result.
ClaimsAreWorkedOn ==
  \A key \in DOMAIN cache :
    cache[key].result = NoResult =>
      \E c \in Callers : /\ run[c].pc \in {"claimed", "cycle", "asking"}
                         /\ run[c].request = cache[key].request

\* However a cycle ends, its key has a result that tells of every call it paid for.
ClaimsAreAccountedFor == ClaimsAreWorkedOn /\ CallsAreReported
===============================================================================
