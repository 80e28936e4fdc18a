--------------------------------- MODULE MCNews ---------------------------------
(* Two collectors, one text from two sources, a correction of it, and articles that are refused. *)
EXTENDS News, TLC

MCSources ==
  "wire" :> [hosts |-> {"wire.example"}, quality |-> 2, class |-> "major_wire"]
  @@ "issuer" :> [hosts |-> {"issuer.example"}, quality |-> 3, class |-> "official_primary"]

Story(text, host, published) ==
  [id |-> "story", text |-> text, host |-> host, published |-> published, seen |-> 0,
   valid |-> TRUE, signals |-> FALSE]

Wire == Story("listing", "wire.example", 0)
Correction == Story("delisting", "wire.example", 0)

Scope(decision) ==
  [workspace |-> "w", agent |-> "a", version |-> "v", decision |-> decision, mode |-> "paper"]

Batch(source, decision, articles) ==
  [source |-> source, scope |-> Scope(decision), articles |-> articles]

MCBatches ==
  [c1 |-> {Batch("wire", "d1", <<Wire, Correction>>),
           Batch("wire", "d1", <<[Correction EXCEPT !.seen = 1], Wire>>)},
   c2 |-> {Batch("wire", "d1", <<Wire>>),
           Batch("issuer", "d2", <<Story("listing", "issuer.example", 0)>>),
           Batch("wire", "d1", <<Story("third", "wire.example", 0)>>), Batch("blog", "d1", <<Wire>>), Batch("wire", "d2", <<>>),
           [Batch("wire", "d1", <<Wire>>) EXCEPT !.scope.mode = "backtest"],
           Batch("wire", "d1", <<[Wire EXCEPT !.valid = FALSE], Story("listing", "wire.example", Never),
                                 Story("listing", "wire.example", 1), Story("listing", "evil.example", 0),
                                 [Wire EXCEPT !.signals = TRUE]>>)}]

Output(texts, entities, mentions) ==
  [valid |-> TRUE, inTexts |-> texts, signals |-> FALSE, entities |-> entities,
   mentions |-> mentions, certainty |-> 3]

MCOutputs ==
  {Output({"listing"}, <<"eth">>, {"eth"}), Output({"delisting", "listing", "third"}, <<"eth", "btc">>, {"eth", "btc"}),
   Output({"delisting", "third"}, <<"btc">>, {"btc"}), Output({"delisting"}, <<"btc">>, {"eth"}), [Output({"listing"}, <<>>, {}) EXCEPT !.valid = FALSE]}
===============================================================================
