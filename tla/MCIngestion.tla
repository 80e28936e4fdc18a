------------------------------ MODULE MCIngestion ------------------------------
(* Two instruments: trades with a late venue time, an odd and an alien one; quotes; candles. *)
EXTENDS Ingestion

MCLookbacks == [short |-> 1, middle |-> 2, long |-> 2]
MCSinks == <<"sample", "store">>

Frame(kind, seq) == [kind |-> kind, symbol |-> "BTC", seq |-> seq, shape |-> "whole", time |-> 0]

Trade(seq, price, maker) ==
  Frame("trade", seq) @@ [price |-> price, quantity |-> seq, maker |-> maker]
Quote(seq, bid, ask) ==
  Frame("quote", seq) @@ [bid |-> bid, ask |-> ask, bidSize |-> seq, askSize |-> 1]
Candle(closed) ==
  Frame("candle", NoSequence) @@ [open |-> 0, close |-> 1, price |-> 3, quantity |-> 1, closed |-> closed]

Odd(frame) == [frame EXCEPT !.shape = "odd"]
Partial(frame) == [frame EXCEPT !.shape = "partial"]
Ether(frame) == [frame EXCEPT !.symbol = "ETH"]
Alien(frame) == [frame EXCEPT !.symbol = "DOGE"]
Ack == [kind |-> "control", symbol |-> "BTC"]

MCMarkets ==
  {<<<<Trade(1, 5, "buyer"), Trade(2, 4, "seller"), Trade(3, 6, "none")>>>>,
   <<<<Trade(1, 5, "buyer"), Odd(Trade(2, 4, "seller"))>>, <<Quote(1, 4, 5), Quote(2, 5, 5)>>>>,
   <<<<Trade(1, 5, "buyer"), Trade(2, 4, "none")>>, <<Ether(Trade(7, 2, "seller"))>>>>,
   <<<<Candle(FALSE), Odd(Candle(TRUE)), Candle(TRUE)>>>>,
   <<<<Ack, Alien(Trade(1, 9, "buyer")), Partial(Trade(2, 6, "buyer")), Quote(3, 4, 5)>>>>}
================================================================================
