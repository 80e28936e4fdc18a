------------------------------- MODULE MCBacktest -------------------------------
(* Two short price series, sound definitions of every kind, and definitions with one thing
   wrong with each.                                                                       *)
EXTENDS Backtest

Series(closes, ingested) ==
  [i \in DOMAIN closes |->
     [event |-> i, ingested |-> ingested[i], close |-> closes[i], volume |-> 4]]

Rising == Series(<<6, 6, 7, 9, 8, 7>>, <<2, 4, 6, 8, 9, 10>>)
Falling == Series(<<8, 9, 6, 8, 6>>, <<2, 4, 6, 8, 10>>)
Bunched == Series(<<6, 6, 7, 9, 8>>, <<2, 4, 5, 6, 10>>)   \* three bars came in a row
Revised == [Rising EXCEPT ![6].close = 8]                  \* its last price was corrected
MCReplacements == {Falling, SubSeq(Rising, 1, 4), Revised}

Manifest(content) ==
  [content |-> content, rows |-> Len(content), frozen |-> 12, basis |-> "ingested_at",
   revised |-> FALSE, lastIngested |-> 10, lastEvent |-> Len(content)]

Definition(content) ==
  [source |-> "inline", strategy |-> TRUE, gated |-> TRUE, worker |-> TRUE, coherent |-> TRUE,
   versioned |-> 0, start |-> 1, end |-> 10, balance |-> 60, notional |-> 26,
   latency |-> 0,
   content |-> content, manifest |-> Manifest(content), halted |-> FALSE, sound |-> TRUE,
   bundleMatches |-> TRUE]

Sound == Definition(Rising)

MCDefinitions ==
  {Sound, Definition(Falling),
   [Sound EXCEPT !.gated = FALSE],
   [Sound EXCEPT !.latency = 1],
   [Definition(Bunched) EXCEPT !.latency = 3],
   [Sound EXCEPT !.source = "catalog"],
   [Sound EXCEPT !.halted = TRUE],
   [Sound EXCEPT !.source = "none", !.strategy = FALSE, !.gated = FALSE],
   [Sound EXCEPT !.source = "catalog", !.worker = FALSE],
   [Sound EXCEPT !.bundleMatches = FALSE],
   [Sound EXCEPT !.manifest.basis = "event_time"],
   [Sound EXCEPT !.manifest.revised = TRUE],
   [Sound EXCEPT !.manifest.lastIngested = 11],
   [Sound EXCEPT !.manifest.frozen = 9],
   [Sound EXCEPT !.manifest.content = Falling],
   [Sound EXCEPT !.start = 2],
   [Sound EXCEPT !.versioned = 2]}
=============================================================================
