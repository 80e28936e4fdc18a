------------------------------ MODULE MCPaperVenue ------------------------------
(* Two brokers over one venue, and two purchases that together take all the cash. *)
EXTENDS PaperVenue, TLC

Request(intent, side, notional, expires) ==
  [intent |-> intent, decision |-> intent, side |-> side, instrument |-> "A",
   notional |-> notional, expires |-> expires, observed |-> 0, bid |-> 2, ask |-> 3,
   size |-> 9, sound |-> TRUE]

MCRequests == {Request("i1", "buy", 9, 3), Request("i2", "buy", 9, 2)}

Level(price, quantity) == [price |-> price, quantity |-> quantity]

MCFeeds ==
  {[instrument |-> "A", asks |-> <<Level(3, 3)>>, bids |-> <<Level(2, 4)>>, resync |-> FALSE]}

Control(version, token, halted, validUntil) ==
  [version |-> version, token |-> token, halted |-> halted, asOf |-> 0,
   validUntil |-> validUntil, leaseExpires |-> 9]

MCInitialControls == Control(1, 1, FALSE, 9)

\* The supervisor halts, or another one takes over.
MCControlStates == {Control(2, 1, TRUE, 9), Control(2, 2, FALSE, 9)}

\* The brokers differ in nothing but their views.
Views == Permutations(Brokers)

Opening == [cash |-> 19, holdings |-> "A" :> [quantity |-> 4, basis |-> 7, mark |-> 2, markTime |-> 0],
            realized |-> 0, fees |-> 0, orders |-> <<>>, books |-> <<>>, healthy |-> <<>>,
            asOf |-> 0, sealed |-> FALSE, peak |-> 27]

MCInitialLedger == Opening @@ [initial |-> Snapshot(Opening)]
=============================================================================
