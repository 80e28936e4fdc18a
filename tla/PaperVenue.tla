------------------------------- MODULE PaperVenue -------------------------------
(***************************************************************************)
(* The local paper venue and the broker views over it (account.py), with   *)
(* the risk session they share with the agents and the supervisor.  Unlike *)
(* in the durable account, approval, hand-off and fill are separate calls, *)
(* between which time passes and controls change, and the acknowledgement  *)
(* of a committed command may be lost.                                     *)
(***************************************************************************)
EXTENDS PaperTrading

CONSTANTS
  Brokers,
  JournalCapacity   \* commands the venue's journal holds

VARIABLES
  session,     \* the shared LocalRiskSession
  journal,     \* length of the venue's journal
  observed,    \* the venue's market keys, with the content recorded under each
  view,        \* per broker: its last snapshot and whether it is connected
  answer       \* history: whether the last submission of each intent returned an order

venueVars == <<now, session, ledger, journal, observed, view, answer>>

PlacedAndOpen == {ledger.orders[i].intent : i \in OpenOrders(ledger)}

Placed == {ledger.orders[i].intent : i \in DOMAIN ledger.orders}

VenueInit ==
  /\ now = InitialLedger.asOf
  /\ session = NewSession(InitialLedger.initial, InitialControls)
  /\ ledger = InitialLedger
  /\ journal = 0
  /\ observed = <<>>
  /\ view = [b \in Brokers |-> [connected |-> TRUE, sequence |-> 0, state |-> InitialLedger]]
  /\ answer = [n \in Intents |-> "none"]

-------------------------------------------------------------------------------
(* What a broker shows. *)

CurrentIfConnected(b) == view[b].connected

Current(b) == view[b].connected /\ view[b].sequence = journal

ShownStatus(b, i) ==
  IF ~Current(b) /\ view[b].state.orders[i].status = "submitted"
  THEN "unknown" ELSE view[b].state.orders[i].status

ShownReconciled(b) == Current(b) /\ Reconciled(view[b].state)

Disconnected(b) == [view EXCEPT ![b].connected = FALSE]

Refreshed(b) == [view EXCEPT ![b] = [connected |-> TRUE, sequence |-> journal', state |-> ledger']]

\* _ack: a lost acknowledgement leaves the view as it was, cut off from the venue.
Acknowledged(b, ack) == IF ack /\ view[b].connected THEN Refreshed(b) ELSE Disconnected(b)

Full == journal >= JournalCapacity

Unchanged == UNCHANGED <<ledger, journal, observed>>

-------------------------------------------------------------------------------
(* Agents, the supervisor, the clock. *)

EvaluateIntent(r) ==
  /\ Evaluable(session, r)
  /\ session' = Evaluate(session, r, now)
  /\ UNCHANGED <<now, ledger, journal, observed, view, answer>>

RefreshControls(controls) ==
  /\ Fresher(session, controls, now)
  /\ session' = UpdateControls(session, controls)
  /\ UNCHANGED <<now, ledger, journal, observed, view, answer>>

ClockTicks ==
  /\ now < MaxTime
  /\ now' = now + 1
  /\ UNCHANGED <<session, ledger, journal, observed, view, answer>>

-------------------------------------------------------------------------------
(* submit: the clock is read again after the hand-off, hence the time "later". *)

\* The intent has an order: it is returned, and nothing is handed off again.
SubmitAgain(b, intent, ack) ==
  /\ intent \in Placed
  /\ Unchanged /\ UNCHANGED <<now, session>>
  /\ view' = Acknowledged(b, ack)
  /\ answer' = [answer EXCEPT ![intent] = "order"]

\* The checks before the hand-off, any of which raises.
Open == ~Full /\ ~ledger.sealed /\ Reconciled(ledger)

SubmitRefused(b, intent) ==
  /\ intent \notin Placed
  /\ ~Open \/ EntryOf(session, intent) = {}
  /\ Unchanged /\ UNCHANGED <<now, session, answer>>
  /\ view' = Disconnected(b)

\* The session hands nothing off; that, too, is an answer.
SubmitNothing(b, intent, i, token, ack) ==
  /\ intent \notin Placed /\ Open
  /\ ~Issues(session, i, token, now)
  /\ session' = Handoff(session, i, token, now)
  /\ Unchanged /\ UNCHANGED now
  /\ view' = Acknowledged(b, ack)
  /\ answer' = [answer EXCEPT ![intent] = "nothing"]

SubmitOrder(b, intent, i, token, ack, later) ==
  /\ intent \notin Placed /\ Open
  /\ Issues(session, i, token, now)
  /\ session' = Handoff(session, i, token, now)
  /\ now' = later
  /\ UNCHANGED observed
  /\ LET permit == Permit(session, i, token, now)
     IN  \/ /\ Submittable(ledger, permit, later)
            /\ ledger' = Submit(ledger, permit, later)
            /\ journal' = journal + 1
            /\ view' = Acknowledged(b, ack)
            /\ answer' = [answer EXCEPT ![intent] = "order"]
         \/ /\ ~Submittable(ledger, permit, later)
            /\ UNCHANGED <<ledger, journal, answer>>
            /\ view' = Disconnected(b)

SubmitIntent(b, intent, token, ack, later) ==
  /\ ShownReconciled(b)
  /\ \/ SubmitAgain(b, intent, ack)
     \/ SubmitRefused(b, intent)
     \/ \E i \in EntryOf(session, intent) :
          \/ SubmitNothing(b, intent, i, token, ack)
          \/ SubmitOrder(b, intent, i, token, ack, later)

-------------------------------------------------------------------------------
(* observe *)

Key(book) == <<book.instrument, book.sequence>>

Withheld(book) ==
  {ledger.orders[i].intent : i \in {j \in OpenOrders(ledger) :
     /\ ledger.orders[j].instrument = book.instrument
     /\ ~ExecutionAllowed(session, ledger.orders[j].intent, ledger.orders[j].token, now)}}

AfterBook(book) == Market(ledger, book, now, Withheld(book))

Committable(book) == ~Full /\ MarketAccepted(ledger, book, now) /\ ~AfterBook(book).broken

ObserveBook(b, book, ack) ==
  /\ UNCHANGED <<now, session, answer>>
  /\ \/ /\ Key(book) \in DOMAIN observed /\ observed[Key(book)] = book
        /\ Unchanged
        /\ view' = Acknowledged(b, ack)
     \/ /\ \/ Key(book) \in DOMAIN observed /\ observed[Key(book)] # book
           \/ Key(book) \notin DOMAIN observed /\ ~Committable(book)
        /\ Unchanged
        /\ view' = Disconnected(b)
     \/ /\ Key(book) \notin DOMAIN observed /\ Committable(book)
        /\ ledger' = AfterBook(book).ledger
        /\ journal' = journal + 1
        /\ observed' = Put(observed, Key(book), book)
        /\ view' = Acknowledged(b, ack)

-------------------------------------------------------------------------------
(* cancel, reconcile, and a new broker over the same venue. *)

OpenIntents == {ledger.orders[i].intent : i \in OpenOrders(ledger)}

CancelIntent(b, intent, ack) ==
  /\ UNCHANGED <<now, session, observed, answer>>
  /\ \/ /\ intent \in OpenIntents /\ ~Full
        /\ ledger' = Cancel(ledger, intent, now)
        /\ journal' = journal + 1
        /\ view' = Acknowledged(b, ack)
     \/ /\ intent \in Placed \ OpenIntents
        /\ UNCHANGED <<ledger, journal>>
        /\ view' = Acknowledged(b, ack)
     \/ /\ intent \notin Placed \/ (intent \in OpenIntents /\ Full)
        /\ UNCHANGED <<ledger, journal>>
        /\ view' = Disconnected(b)

\* Both read the venue; a reconciliation also replays its journal.
ReconcileBroker(b) ==
  /\ Unchanged /\ UNCHANGED <<now, session, answer>>
  /\ view' = Refreshed(b)

-------------------------------------------------------------------------------
BooksNow ==
  {[instrument |-> f.instrument, bids |-> f.bids, asks |-> f.asks, resync |-> f.resync,
    sequence |-> s, event |-> now, received |-> now] : f \in Feeds, s \in 1..MaxSequence}

\* Observations made now, and any recorded earlier that is delivered again.
Deliveries == BooksNow \cup {observed[k] : k \in DOMAIN observed}

Tokens == {InitialControls.token} \cup {c.token : c \in ControlStates}

VenueNext ==
  \/ \E r \in Requests : EvaluateIntent(r)
  \/ \E controls \in ControlStates : RefreshControls(controls)
  \/ ClockTicks
  \/ \E b \in Brokers, ack \in BOOLEAN :
       \/ \E n \in Intents, token \in Tokens, later \in now..MaxTime :
            SubmitIntent(b, n, token, ack, later)
       \/ \E book \in Deliveries : ObserveBook(b, book, ack)
       \/ \E n \in Intents : CancelIntent(b, n, ack)
  \/ \E b \in Brokers : ReconcileBroker(b)

VenueSpec == VenueInit /\ [][VenueNext]_venueVars

-------------------------------------------------------------------------------
(* Properties *)

(* A broker never shows an order in a state the venue has left: after a lost acknowledgement, or
   when another broker has moved the account, what was open is shown as unknown and nothing as
   reconciled, until the journal is read again (account.py:262-282).                            *)
ViewNeverLies ==
  \A b \in Brokers :
    /\ \A i \in DOMAIN view[b].state.orders :
         ShownStatus(b, i) # "unknown" => view[b].state.orders[i] = ledger.orders[i]
    /\ ShownReconciled(b) => view[b].state = ledger

(* Whoever submits an intent that has an order is given that order, also after an unknown delivery
   and through another broker: "nothing" is only ever the last word on an intent that has none
   (account.py:163-166).                                                                        *)
RetriesFindTheOrder ==
  \A i \in DOMAIN ledger.orders : answer[ledger.orders[i].intent] # "nothing"

(* What a broker knows of the venue is true, whatever acknowledgements were lost.                *)
BrokersKnowTheTruth == ViewNeverLies /\ RetriesFindTheOrder

(* Resources are promised once: what was approved and may still be handed off, what open orders
   may still take and what has been spent are together within the portfolio the session was given
   (session.py:205-210).                                                                       *)
Promised ==
  LET pending == {i \in DOMAIN session.entries : session.entries[i].approved > 0
                                                 /\ ~session.entries[i].terminal}
  IN  Total([i \in pending |-> session.entries[i].debit])
NothingPromisedTwice == Promised + Reserved(ledger) <= ledger.cash
=============================================================================
