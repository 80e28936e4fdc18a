-------------------------- MODULE MCDurableAccount --------------------------
(* Instances of DurableAccount for TLC. Attempts a1 and a2 belong to one   *)
(* run (a retry and the stalled attempt it replaces), b1 to another.       *)
EXTENDS DurableAccount, TLC

CONSTANTS a1, a2, b1, runA, runB, k1, k2, k3, seq1, bookX, bookY

MCProcs == {a1, a2, b1}
MCOwner == (a1 :> runA) @@ (a2 :> runA) @@ (b1 :> runB)

Market(k, g, s, h) ==
  [key |-> k, generation |-> g, kind |-> "market", book |-> [slot |-> s, content |-> h]]
Plain(k, g, kind) == [key |-> k, generation |-> g, kind |-> kind, book |-> NoBook]

(* A market observation, the same one under another key, that key again    *)
(* for a generation advance, and a book that contradicts the observation   *)
(* once the generation has advanced.                                       *)
MCCommands == {Market(k1, 1, seq1, bookX), Market(k2, 1, seq1, bookX),
               Plain(k2, 1, "advance"), Market(k3, 2, seq1, bookY)}

(* The attempts of one run are interchangeable.                            *)
Retries == Permutations({a1, a2})
=============================================================================
