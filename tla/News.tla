---------------------------------- MODULE News ----------------------------------
(***************************************************************************)
(* LocalNewsPipeline (pipeline.py): collectors read bounded batches of     *)
(* untrusted articles and ask the model gateway to extract each of them.   *)
(* The duplicate check and the entry into the index lie on the two sides   *)
(* of the call; the gateway answers a repeated key from its own record.    *)
(***************************************************************************)
EXTENDS Integers, FiniteSets, Sequences, Functions, FiniteSetsExt

CONSTANTS
  Collectors,
  Batches,     \* per collector: the batches its feed may return, with their source and scope
  Sources,     \* source id -> its allowed hosts, quality and class; others are not registered
  Outputs,     \* what a model may answer: a quote, the texts it occurs in, and entities
  Codes,       \* failures of a model call
  MaxEntities, \* a record maps so many at most
  Capacity, MaxClock, MaxStepsBack

VARIABLES
  clock, stepsBack,
  seen,     \* per key: the record it was extracted to
  pending,  \* keys being extracted
  calls,    \* the gateway, per idempotency key: the request and its outcome
  work,     \* per collector
  records   \* the records that were handed out

AllBatches == UNION {Batches[c] : c \in Collectors}
Articles == UNION {Range(batch.articles) : batch \in AllBatches}

\* Feeds, sources and models deliver what their contracts let through.
ASSUME NewsAssumption ==
  /\ Capacity \in Nat
  /\ \A batch \in AllBatches : batch.articles \in Seq(Articles)
  /\ \A article \in Articles : article.published \in Int /\ article.seen \in Int
  /\ \A s \in DOMAIN Sources : Sources[s].quality \in Int
  /\ \A output \in Outputs : output.certainty \in Int

vars == <<clock, stepsBack, seen, pending, calls, work, records>>

Never == -1
Running == [status |-> "running"]
Failure(code) == [status |-> "failure", code |-> code]
Success(output) == [status |-> "success", output |-> output]

Put(f, k, v) == [x \in DOMAIN f \cup {k} |-> IF x = k THEN v ELSE f[x]]

Idle == [pc |-> "idle", source |-> "none", scope |-> "none", queue |-> <<>>, started |-> Never,
         results |-> <<>>]

Init ==
  /\ clock = 0 /\ stepsBack = 0
  /\ seen = <<>> /\ pending = {} /\ calls = <<>> /\ records = {}
  /\ work = [c \in Collectors |-> Idle]

Article(c) == Head(work[c].queue)

\* One text, once per agent version: another source, url or date of it is the same evidence.
Key(c) == <<work[c].scope.workspace, work[c].scope.agent, work[c].scope.version, Article(c).text>>

CallKey(c) == <<Key(c), work[c].scope.decision, work[c].source, Article(c).host>>

\* The batch goes on with its next article, or is over.
Move(c, result, change) ==
  LET rest == Tail(work[c].queue)
      next == [work[c] EXCEPT !.results = Append(@, result), !.queue = rest, !.started = Never,
                              !.pc = IF rest = <<>> THEN "done" ELSE "screening"]
  IN  work' = [work EXCEPT ![c] = next] /\ change

Status(s, reason) == [status |-> s, reason |-> reason]

-------------------------------------------------------------------------------
(* collect, and the screening before the lock.                                           *)

Collect(c) ==
  /\ work[c].pc = "idle"
  /\ \E batch \in Batches[c] :
       work' = [work EXCEPT ![c] =
         IF batch.source \notin DOMAIN Sources
         THEN [Idle EXCEPT !.pc = "done", !.results = <<Status("quarantined", "unknown_source")>>]
         ELSE [Idle EXCEPT !.pc = IF batch.articles = <<>> THEN "done" ELSE "screening",
                           !.source = batch.source, !.scope = batch.scope, !.queue = batch.articles]]
  /\ UNCHANGED <<clock, stepsBack, seen, pending, calls, records>>

ScreenReason(c) ==
  LET a == Article(c)
  IN  CASE work[c].scope.mode = "backtest" -> "frozen_evidence_required"
        [] ~a.valid -> "invalid_article"
        [] a.published = Never -> "missing_publication_time"
        [] a.published > a.seen \/ a.seen > clock -> "future_source_time"
        [] a.host \notin Sources[work[c].source].hosts -> "source_url"
        [] a.signals -> "injection_signals"
        [] OTHER -> "none"

Screen(c) ==
  /\ work[c].pc = "screening"
  /\ IF ScreenReason(c) # "none"
     THEN Move(c, Status("quarantined", ScreenReason(c)), TRUE)
     ELSE work' = [work EXCEPT ![c].pc = "screened", ![c].started = clock]
  /\ UNCHANGED <<clock, stepsBack, seen, pending, calls, records>>

-------------------------------------------------------------------------------
(* Under the lock: the index and the keys being worked on.                               *)

AdmissionByIndex(c) ==
  CASE Key(c) \in DOMAIN seen -> Status("duplicate", seen[Key(c)])
    [] Cardinality(DOMAIN seen) + Cardinality(pending) >= Capacity -> Status("capacity", "dedupe_capacity")
    [] OTHER -> Status("admitted", "none")

Admission(c) ==
  CASE Key(c) \in DOMAIN seen -> Status("duplicate", seen[Key(c)])
    [] Key(c) \in pending -> Status("in_progress", "extraction_in_progress")
    [] Cardinality(DOMAIN seen) + Cardinality(pending) >= Capacity -> Status("capacity", "dedupe_capacity")
    [] OTHER -> Status("admitted", "none")

Admit(c) ==
  /\ work[c].pc = "screened"
  /\ IF Admission(c).status = "admitted"
     THEN /\ pending' = pending \cup {Key(c)}
          /\ work' = [work EXCEPT ![c].pc = "asking"]
     ELSE Move(c, Admission(c), UNCHANGED pending)
  /\ UNCHANGED <<clock, stepsBack, seen, calls, records>>

\* The "finally" around the extraction.
Release(c) == pending' = pending \ {Key(c)}

Unavailable(c, code) == Move(c, Status("unavailable", code), Release(c)) /\ UNCHANGED <<seen, records>>

-------------------------------------------------------------------------------
(* What an answer must be to become a record.                                            *)

Quoted(c, output) == Article(c).text \in output.inTexts /\ ~output.signals

Supported(output) == IsInjective(output.entities) /\ Range(output.entities) \subseteq output.mentions

RejectionAnyTime(c, output) ==
  CASE ~output.valid -> "invalid_extraction"
    [] ~Quoted(c, output) -> "unsupported_quote"
    [] ~Supported(output) -> "unsupported_entity"
    [] Len(output.entities) > MaxEntities -> "mapping_capacity"
    [] OTHER -> "none"

Rejection(c, output) ==
  CASE ~output.valid -> "invalid_extraction"
    [] ~Quoted(c, output) -> "unsupported_quote"
    [] ~Supported(output) -> "unsupported_entity"
    [] clock < work[c].started -> "clock_regression"
    [] Len(output.entities) > MaxEntities -> "mapping_capacity"
    [] OTHER -> "none"

StartedAt(c) == work[c].started

AvailableAt(c) == clock

Record(c, output) ==
  LET source == Sources[work[c].source]
  IN  [key |-> Key(c), article |-> Article(c), source |-> work[c].source, output |-> output,
       ingested |-> AvailableAt(c), workspace |-> work[c].scope.workspace, quality |-> source.quality,
       certainty |-> Min({output.certainty, source.quality}),
       primary |-> source.class = "official_primary"]

Extract(c, output) ==
  LET record == Record(c, output)
  IN  IF Rejection(c, output) # "none"
      THEN /\ Move(c, Status("quarantined", Rejection(c, output)), Release(c))
           /\ UNCHANGED <<seen, records>>
      ELSE /\ Move(c, Status("extracted", record), Release(c))
           /\ seen' = Put(seen, Key(c), record)
           /\ records' = records \cup {record}

-------------------------------------------------------------------------------
(* The call.  The gateway asks its provider once per key and answers the rest itself.    *)

Request(c) == [text |-> Article(c).text, scope |-> work[c].scope]

Ask(c) ==
  /\ work[c].pc = "asking" /\ CallKey(c) \notin DOMAIN calls
  /\ calls' = Put(calls, CallKey(c), [request |-> Request(c), outcome |-> Running])
  /\ work' = [work EXCEPT ![c].pc = "waiting"]
  /\ UNCHANGED <<clock, stepsBack, seen, pending, records>>

AskAgain(c) ==
  /\ work[c].pc = "asking" /\ CallKey(c) \in DOMAIN calls
  /\ LET call == calls[CallKey(c)]
     IN  CASE call.request # Request(c) -> Unavailable(c, "idempotency_conflict")
           [] call.outcome = Running -> Unavailable(c, "in_progress")
           [] call.outcome.status = "failure" -> Unavailable(c, call.outcome.code)
           [] OTHER -> Extract(c, call.outcome.output)
  /\ UNCHANGED <<clock, stepsBack, calls>>

Finish(c, outcome) == calls' = [calls EXCEPT ![CallKey(c)].outcome = outcome]

Answer(c) ==
  /\ work[c].pc = "waiting"
  /\ \E output \in Outputs : Finish(c, Success(output)) /\ Extract(c, output)
  /\ UNCHANGED <<clock, stepsBack>>

Fail(c) ==
  /\ work[c].pc = "waiting"
  /\ \E code \in Codes : Finish(c, Failure(code)) /\ Unavailable(c, code)
  /\ UNCHANGED <<clock, stepsBack>>

CancelledPending(c) ==
  /\ work[c].pc = "waiting"
  /\ Finish(c, Failure("cancelled"))
  /\ work' = [work EXCEPT ![c].pc = "cancelled"]
  /\ UNCHANGED <<clock, stepsBack, seen, pending, records>>

\* Cancelled where it waits; the collector's caller may collect again.
Cancelled(c) ==
  /\ work[c].pc = "waiting"
  /\ Finish(c, Failure("cancelled")) /\ Release(c)
  /\ work' = [work EXCEPT ![c].pc = "cancelled"]
  /\ UNCHANGED <<clock, stepsBack, seen, records>>

CollectAgain(c) ==
  /\ work[c].pc = "cancelled" /\ work' = [work EXCEPT ![c] = Idle]
  /\ UNCHANGED <<clock, stepsBack, seen, pending, calls, records>>

Tick ==
  /\ clock < MaxClock /\ clock' = clock + 1
  /\ UNCHANGED <<stepsBack, seen, pending, calls, work, records>>

StepBack ==
  /\ clock > 0 /\ stepsBack < MaxStepsBack
  /\ clock' = clock - 1 /\ stepsBack' = stepsBack + 1
  /\ UNCHANGED <<seen, pending, calls, work, records>>

Next ==
  \/ \E c \in Collectors :
       \/ Collect(c) \/ Screen(c) \/ Admit(c) \/ Ask(c) \/ AskAgain(c)
       \/ Answer(c) \/ Fail(c) \/ Cancelled(c) \/ CollectAgain(c)
  \/ Tick \/ StepBack

Spec == Init /\ [][Next]_vars

-------------------------------------------------------------------------------
\* available_evidence: what a decision at asOf may cite.
Available(workspace, asOf) ==
  {r \in records : r.workspace = workspace /\ r.ingested <= asOf}

\* A text becomes evidence once per agent version, whatever sources, urls, decisions and
\* collectors bring it, and however many of them work on it at a time (pipeline.py:162-185, 298).
OneRecordPerText == \A r, s \in records : r.key = s.key => r = s

\* A key is pending exactly while one collector extracts it: a failure, a refused answer or a
\* cancellation leaves no trace that would suppress the text (pipeline.py:303-307), and the
\* index with what is on its way fits its capacity.
NothingStaysPending ==
  LET working == {c \in Collectors : work[c].pc \in {"asking", "waiting"}}
  IN  /\ pending = {Key(c) : c \in working}
      /\ \A c, d \in working : Key(c) = Key(d) => c = d
      /\ Cardinality(DOMAIN seen \cup pending) <= Capacity

\* Evidence quotes its own article and names what the quote names, also when the answer was
\* given to another article with this text and decision, and is dated after the article and
\* after the work on it began (pipeline.py:207-219).
RecordsAreFounded ==
  \A r \in records :
    /\ r.article.text \in r.output.inTexts /\ ~r.output.signals
    /\ Range(r.output.entities) \subseteq r.output.mentions
    /\ r.article.published <= r.article.seen /\ r.article.seen <= r.ingested
    /\ r.certainty <= Sources[r.source].quality

\* Evidence is one per text, and founded on it.
RecordsAreSound == OneRecordPerText /\ RecordsAreFounded

\* Fresh extraction is never backdated: what a decision at an earlier time may cite stays as
\* it was, while calls take their time (pipeline.py:217, 310-322).
NeverBackdated ==
  [][\A r \in records' \ records, asOf \in 0..(clock - 1) :
       r \notin Available(r.workspace, asOf)']_records
===============================================================================
