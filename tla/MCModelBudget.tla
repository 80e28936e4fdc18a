------------------------------ MODULE MCModelBudget ------------------------------
(* Five calls of two agents.  The second repeats the first; the fifth uses the key of the fourth for
   another request, of a version its decision may not have.                                      *)
EXTENDS ModelBudget, TLC

CONSTANTS c1, c2, c3, c4, c5

MCAttempts == {c1, c2, c3, c4, c5}

Repeats == Permutations({c1, c2})

Request(key, agent, version, decision) ==
  [key |-> key, agent |-> agent, version |-> version, decision |-> decision, bound |-> 1]

MCRequestOf ==
  [a \in MCAttempts |-> CASE a \in {c1, c2} -> Request("k1", "a1", "v1", "d1")
                          [] a = c3         -> Request("k2", "a1", "v1", "d1")
                          [] a = c4         -> Request("k3", "a2", "v2", "d2")
                          [] a = c5         -> Request("k3", "a1", "v2", "d1")]

MCDailyUnits == [workspace |-> 2, a1 |-> 2, a2 |-> 1]
MCDailyCalls == [workspace |-> 3, a1 |-> 2, a2 |-> 1]
MCMinuteCalls == [workspace |-> 2, a1 |-> 2, a2 |-> 1]
=============================================================================
