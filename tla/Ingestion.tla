------------------------------- MODULE Ingestion -------------------------------
(***************************************************************************)
(* IngestionPipeline (pipeline.py): one venue connection, a parser, the    *)
(* health monitor, a buffer and several sinks (sinks.py, testnet.py), with *)
(* the sampler that runs the pipeline for a while and closes it.  The      *)
(* venue publishes whether or not it is heard; frames may be lost, doubled *)
(* or swapped; connections end; a sink suspends, fails or is cut short.    *)
(***************************************************************************)
EXTENDS StreamHealth

CONSTANTS
  Markets,          \* what the venue may publish: a sequence of frames per stream
  Sinks,            \* the sinks in their order; "store" is ClickHouse, the others keep memory
  Capacity,         \* events a memory sink holds before it refuses a batch
  BatchSize, FlushInterval, MaxReconnects,
  MaxWire, MaxFaults, MaxClock

VARIABLES
  market, pos,      \* what the venue publishes in this behaviour, and how far it is
  clock,
  connected, wire,  \* the connection and the frames received but not read
  faults,
  pc, flush,        \* where run() is; the write in progress
  health, buffer, lastFlush, attempt,
  stored,           \* per sink: what it holds
  session,          \* history: connections so far
  accepted,         \* history: the events the monitor let through, with their session
  cut               \* history: whether a part of a batch was not written

venueVars == <<market, pos, connected, wire, faults, session>>
pipeVars == <<pc, flush, health, buffer, lastFlush, attempt, stored, accepted, cut>>
vars == <<venueVars, clock, pipeVars>>

Streams == Subscribed \X Parsed[Venue]
StreamOf(event) == <<event.symbol, event.kind>>
NoFlush == [todo |-> <<>>, at |-> NoTime, then |-> "none"]

Init ==
  /\ market \in Markets /\ pos = [s \in DOMAIN market |-> 0]
  /\ clock = 0 /\ connected = FALSE /\ wire = <<>> /\ faults = 0
  /\ pc = "connecting" /\ flush = NoFlush
  /\ health = [s \in Streams |-> Fresh]
  /\ buffer = <<>> /\ lastFlush = 0 /\ attempt = 0
  /\ stored = [sink \in Range(Sinks) |-> <<>>]
  /\ session = 0 /\ accepted = <<>> /\ cut = FALSE

-------------------------------------------------------------------------------
(* The venue and the network.                                                            *)

Ended == pc \in {"returned", "cancelled", "dead", "closed"}

Emit(s) ==
  /\ ~Ended /\ pos[s] < Len(market[s])
  /\ pos' = [pos EXCEPT ![s] = @ + 1]
  /\ IF connected
     THEN Len(wire) < MaxWire /\ wire' = Append(wire, market[s][pos[s] + 1])
     ELSE UNCHANGED wire
  /\ UNCHANGED <<market, connected, faults, session, clock, pipeVars>>

Tampered(i) ==
  {RemoveAt(wire, i), InsertAt(wire, i, wire[i])}
  \cup (IF i < Len(wire) THEN {[wire EXCEPT ![i] = wire[i + 1], ![i + 1] = wire[i]]} ELSE {})

Fault ==
  /\ ~Ended /\ faults < MaxFaults /\ faults' = faults + 1
  /\ \E i \in DOMAIN wire : wire' \in Tampered(i)
  /\ UNCHANGED <<market, pos, connected, session, clock, pipeVars>>

HangUp ==
  /\ connected /\ ~Ended /\ connected' = FALSE
  /\ UNCHANGED <<market, pos, wire, faults, session, clock, pipeVars>>

Tick ==
  /\ ~Ended /\ clock < MaxClock /\ clock' = clock + 1
  /\ UNCHANGED <<venueVars, pipeVars>>

-------------------------------------------------------------------------------
(* The sinks: what of a batch is one write.                                              *)

Parts(sink, batch) ==
  LET FirstOf(kind) == CHOOSE i \in DOMAIN batch :
                         batch[i].kind = kind /\ \A j \in 1..(i - 1) : batch[j].kind # kind
      kinds == SetToSortSeq({e.kind : e \in Range(batch)}, LAMBDA k, l : FirstOf(k) < FirstOf(l))
  IN  IF sink # "store" THEN <<[sink |-> sink, events |-> batch]>>
      ELSE [k \in DOMAIN kinds |->
              [sink |-> sink, events |-> SelectSeq(batch, LAMBDA e : e.kind = kinds[k])]]

\* _flush: the buffer is taken before the first sink is asked.
Flush(batch, then) ==
  /\ buffer' = <<>>
  /\ IF batch = <<>> THEN pc' = then /\ UNCHANGED flush
     ELSE /\ pc' = "flushing"
          /\ flush' = [todo |-> FlattenSeq([i \in DOMAIN Sinks |-> Parts(Sinks[i], batch)]),
                       at |-> clock, then |-> then]

\* The flush in the "finally" of run().
FinalFlush(batch, then) == Flush(batch, then)

Fits(part) == part.sink = "store" \/ Len(stored[part.sink]) + Len(part.events) <= Capacity

Put(part) == stored' = [stored EXCEPT ![part.sink] = @ \o part.events]

Write ==
  /\ pc = "flushing" /\ Fits(Head(flush.todo)) /\ Put(Head(flush.todo))
  /\ flush' = IF Len(flush.todo) = 1 THEN NoFlush ELSE [flush EXCEPT !.todo = Tail(@)]
  /\ pc' = IF Len(flush.todo) = 1 THEN flush.then ELSE pc
  /\ lastFlush' = IF Len(flush.todo) = 1 THEN flush.at ELSE lastFlush
  /\ UNCHANGED <<venueVars, clock, health, buffer, attempt, accepted, cut>>

CutShortForLater(then) ==
  /\ buffer' = Head(flush.todo).events
  /\ flush' = NoFlush /\ cut' = TRUE /\ pc' = then
  /\ UNCHANGED <<venueVars, clock, health, lastFlush, attempt, stored, accepted>>

\* Nothing writes the batch again, though an insert may have arrived.
CutShort(then) ==
  /\ IF Head(flush.todo).sink = "store" THEN Put(Head(flush.todo)) \/ UNCHANGED stored
     ELSE UNCHANGED stored
  /\ flush' = NoFlush /\ cut' = TRUE /\ pc' = then
  /\ UNCHANGED <<venueVars, clock, health, buffer, lastFlush, attempt, accepted>>

WriteFails ==
  /\ pc = "flushing"
  /\ Head(flush.todo).sink = "store" \/ ~Fits(Head(flush.todo))
  /\ CutShort("dead")

-------------------------------------------------------------------------------
(* run(): connect, consume, flush, reconnect.                                            *)

\* Coinbase repeats the last match to whoever subscribes.
Greeting ==
  IF Venue # "coinbase" THEN <<>>
  ELSE LET Matches(s) == SelectSeq(SubSeq(market[s], 1, pos[s]), LAMBDA f : f.kind = "trade")
       IN  FlattenSeq(SetToSeq({<<Last(Matches(s))>> : s \in {t \in DOMAIN market : Matches(t) # <<>>}}))

Connect ==
  /\ pc = "connecting" /\ pc' = "consuming"
  /\ connected' = TRUE /\ wire' = Greeting /\ session' = session + 1
  /\ UNCHANGED <<market, pos, faults, clock, flush, health, buffer, lastFlush, attempt, stored,
                 accepted, cut>>

ConnectFails ==
  /\ pc = "connecting" /\ FinalFlush(buffer, "lost")
  /\ UNCHANGED <<venueVars, clock, health, lastFlush, attempt, stored, accepted, cut>>

ShouldFlush(batch) == Len(batch) >= BatchSize \/ clock - lastFlush >= FlushInterval

Accept(event) ==
  LET s == StreamOf(event)
      now == Observe(health[s], event.seq, clock)
      heard == event @@ [session |-> session]
      batch == Append(buffer, heard)
  IN  /\ health' = [health EXCEPT ![s] = now]
      /\ IF ~ShouldProcess(Classify(health[s], event.seq))
         THEN UNCHANGED <<buffer, flush, pc, accepted>>
         ELSE /\ accepted' = Append(accepted, heard)
              /\ IF ShouldFlush(batch) THEN Flush(batch, "consuming")
                 ELSE buffer' = batch /\ UNCHANGED <<flush, pc>>

Receive ==
  /\ pc = "consuming" /\ wire # <<>> /\ wire' = Tail(wire)
  /\ LET parsed == Parse(Head(wire), clock)
     IN  \/ /\ parsed.outcome \in {"control", "skipped"}
            /\ UNCHANGED <<health, buffer, flush, pc, accepted>>
         \/ parsed.outcome = "event" /\ Accept(parsed.event)
         \/ parsed.outcome = "raised" /\ FinalFlush(buffer, "dead") /\ UNCHANGED <<health, accepted>>
  /\ UNCHANGED <<market, pos, connected, faults, session, clock, lastFlush, attempt, stored, cut>>

\* The frames that had arrived are read before the close is noticed.
Closed ==
  /\ pc = "consuming" /\ ~connected /\ wire = <<>>
  /\ FinalFlush(buffer, "lost")
  /\ UNCHANGED <<venueVars, clock, health, lastFlush, attempt, stored, accepted, cut>>

MarkReconnecting ==
  /\ pc = "lost"
  /\ health' = [s \in Streams |-> RecordReconnect(health[s])]
  /\ attempt' = attempt + 1
  /\ pc' = IF attempt + 1 > MaxReconnects THEN "returned" ELSE "backoff"
  /\ UNCHANGED <<venueVars, clock, flush, buffer, lastFlush, stored, accepted, cut>>

Retry ==
  /\ pc = "backoff" /\ pc' = "connecting"
  /\ UNCHANGED <<venueVars, clock, flush, health, buffer, lastFlush, attempt, stored, accepted, cut>>

-------------------------------------------------------------------------------
(* The sampler's timeout, which cancels run() where it waits, and aclose().              *)

Cancel ==
  \/ /\ pc \in {"connecting", "consuming", "backoff"}
     /\ FinalFlush(buffer, "cancelled")
     /\ UNCHANGED <<venueVars, clock, health, lastFlush, attempt, stored, accepted, cut>>
  \/ /\ pc = "flushing" /\ flush.then # "cancelled" /\ Head(flush.todo).sink = "store"
     /\ CutShort("cancelled")

Close ==
  /\ pc \in {"returned", "cancelled", "dead"}
  /\ Flush(buffer, "closed")
  /\ connected' = FALSE /\ wire' = <<>>
  /\ UNCHANGED <<market, pos, faults, session, clock, health, lastFlush, attempt, stored, accepted, cut>>

Next ==
  \/ \E s \in DOMAIN pos : Emit(s)
  \/ Fault \/ HangUp \/ Tick
  \/ Write \/ WriteFails
  \/ Connect \/ ConnectFails \/ Receive \/ Closed \/ MarkReconnecting \/ Retry
  \/ Cancel \/ Close

Spec == Init /\ [][Next]_vars

-------------------------------------------------------------------------------
From(events, s) == SelectSeq(events, LAMBDA e : StreamOf(e) = s)

\* Whatever the network does to the frames, and however the batches are cut into writes, a
\* sink holds of each stream on each connection an increasing run of the venue's own
\* sequence (health.py:188-204, sinks.py:182-202).
StoredInOrder ==
  \A sink \in Range(Sinks), s \in Streams :
    LET kept == SelectSeq(From(stored[sink], s), LAMBDA e : e.seq # NoSequence)
    IN  \A i, j \in DOMAIN kept :
          i < j /\ kept[i].session = kept[j].session => kept[i].seq < kept[j].seq

\* What a stream misses on its connections, from the first sequence heard on each to the
\* last, is exactly what the monitor says was missed (health.py:202-203): late frames and
\* duplicates do not hide a loss, and a reconnect does not invent one.
LossIsCounted ==
  \A s \in Streams :
    LET MissedOn(n) ==
          LET heard == SelectSeq(From(accepted, s), LAMBDA e : e.seq # NoSequence /\ e.session = n)
          IN  IF heard = <<>> THEN 0 ELSE Last(heard).seq - Head(heard).seq + 1 - Len(heard)
    IN  health[s].missed = MapThenSumSet(MissedOn, 1..session)

\* What a stream brought is in order, and what it did not bring is counted.
StreamsAreAccountedFor == StoredInOrder /\ LossIsCounted

\* A stream that may support a decision was heard on the latest connection, and less than
\* the stale time ago (health.py:112-125, pipeline.py:121, 185-188): what was live before a
\* reconnect says nothing until the venue speaks again.
UsableMeansHeard ==
  \A s \in Streams : Usable(health[s], clock) =>
    \E e \in Range(From(accepted, s)) : e.session = session /\ clock - e.received < StaleAfter

\* A sink that fails, a timeout or a parser that raises may end the pipeline, but leaves no
\* hole: of each stream every sink holds a prefix of what was let through, and all of it
\* when no write was cut (pipeline.py:118-119, 175-183, 190-195).
SinksHoldPrefixes ==
  \A sink \in Range(Sinks), s \in Streams :
    /\ IsPrefix(From(stored[sink], s), From(accepted, s))
    /\ pc = "closed" /\ ~cut => From(stored[sink], s) = From(accepted, s)

\* The features of a stored sample do not depend on the order in which the rows are read
\* back, at any decision time (window.py:46-66, 149-185): ties on the arrival are broken.
FeaturesReplay ==
  LET Others(symbol) == Subscribed \ {symbol}
      Of(events, symbol, asOf) ==
        {Features(w, b) : w \in {Window(symbol, events, asOf)},
                          b \in {Window(other, events, asOf) : other \in Others(symbol)}}
  IN  pc = "closed" => \A events \in Range(stored) : Len(events) > 1 =>
        \A symbol \in Subscribed, asOf \in 0..clock :
          Of(events, symbol, asOf) = Of(Reverse(events), symbol, asOf)

\* What was knowable at an earlier time never changes: a frame that arrives late stays out
\* of every window that was already over, whatever its own time says (window.py:8-11, 145),
\* and what was stored at the end says the same again, in whatever order it is read.
NothingLearnedLater ==
  [][/\ accepted' # accepted =>
          \A asOf \in 0..(clock - 1), symbol \in Subscribed :
            Window(symbol, accepted', asOf) = Window(symbol, accepted, asOf)
     /\ pc' # pc => FeaturesReplay']_vars

\* Duplicates are discarded before a sink, so that at-least-once delivery does not become
\* double-counted volume (pipeline.py:13-15).
NoTradeIsStoredTwice ==
  \A sink \in Range(Sinks) :
    LET trades == SelectSeq(stored[sink], LAMBDA e : e.kind = "trade")
    IN  \A i, j \in DOMAIN trades :
          trades[i].symbol = trades[j].symbol /\ trades[i].seq = trades[j].seq => i = j
===============================================================================
