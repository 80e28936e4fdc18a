----------------------------- MODULE MCPaperAccount -----------------------------
(* The paper account on small numbers: rates of a tenth, prices of a few units, so that
   every fee and every slipped price is rounded.                                      *)
EXTENDS PaperAccount

Request(intent, decision, side, k, notional, expires) ==
  [intent |-> intent, decision |-> decision, side |-> side, instrument |-> k,
   notional |-> notional, expires |-> expires, observed |-> 0, bid |-> 2, ask |-> 3,
   size |-> 9, sound |-> TRUE]

Buy(intent, decision, k, notional, expires) == Request(intent, decision, "buy", k, notional, expires)
Sell(intent, decision, k, notional, expires) == Request(intent, decision, "sell", k, notional, expires)

\* One batch over two instruments, and a second intent for a decision.
MCRequests ==
  {Buy("i1", "d1", "A", 9, 3), Buy("i2", "d2", "B", 8, 2), Sell("i3", "d3", "B", 4, 3),
   Sell("i4", "d1", "B", 2, 3)}

Singles(requests) == {<<r>> : r \in requests}

MCBatches ==
  Singles(MCRequests) \cup {p \in MCRequests \X MCRequests : p[1] # p[2]}

Level(price, quantity) == [price |-> price, quantity |-> quantity]

Feed(k, asks, bids, resync) == [instrument |-> k, asks |-> asks, bids |-> bids, resync |-> resync]

MCFeeds ==
  {Feed("A", <<Level(6, 1), Level(7, 4)>>, <<Level(1, 3)>>, FALSE),
   Feed("B", <<Level(4, 1), Level(5, 2)>>, <<Level(3, 1), Level(2, 4)>>, FALSE),
   Feed("B", <<Level(3, 4)>>, <<Level(2, 4)>>, TRUE)}

MCDelays == {<<0, 0>>, <<1, 1>>}

Control(version, token, halted, validUntil) ==
  [version |-> version, token |-> token, halted |-> halted, asOf |-> 0,
   validUntil |-> validUntil, leaseExpires |-> 9]

MCInitialControls == Control(1, 1, FALSE, 3)

MCControlStates == {Control(2, 1, TRUE, 9), Control(3, 2, FALSE, 9)}

Empty == [cash |-> 20, holdings |-> "B" :> [quantity |-> 4, basis |-> 7, mark |-> 2, markTime |-> 0],
          realized |-> 0, fees |-> 0, orders |-> <<>>, books |-> <<>>, healthy |-> <<>>,
          asOf |-> 0, sealed |-> FALSE, peak |-> 28]

MCInitialLedger == [Empty EXCEPT !.peak = 28] @@ [initial |-> Snapshot(Empty)]
=============================================================================
