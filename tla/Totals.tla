---------------------------------- MODULE Totals ----------------------------------
(* Sums of integers without recursion: the total of a function is the number of its units less the
   number of units it lacks, so that what is true of sums follows from what is true of finite sets. *)
EXTENDS Integers, FiniteSets

Units(f) == UNION {{k} \X (1..f[k]) : k \in DOMAIN f}
Lacks(f) == UNION {{k} \X (1..-f[k]) : k \in DOMAIN f}

Total(f) == Cardinality(Units(f)) - Cardinality(Lacks(f))
=============================================================================
