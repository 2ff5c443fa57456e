------------------------------- MODULE Queues -------------------------------
(* Lists as the engines handle them: sorted by a key, filtered by a        *)
(* comprehension, summed up.                                               *)
EXTENDS Integers, Sequences, FiniteSets

(* The members of I from the first to the last in the strict order R.      *)
Sorted(I, R) ==
  [k \in 1..Cardinality(I) |->
     CHOOSE i \in I : Cardinality({j \in I : <<j, i>> \in R}) = k - 1]

Ascending(n) == {e \in (1..n) \X (1..n) : e[1] < e[2]}

(* [x for x in q if x in S]                                                *)
Filtered(q, S) ==
  LET order == Sorted({i \in 1..Len(q) : q[i] \in S}, Ascending(Len(q)))
  IN  [k \in DOMAIN order |-> q[order[k]]]

(* sum(f[r] for r in R), as the number of units that R has altogether.     *)
Total(f, R) == Cardinality(UNION {{r} \X (1..f[r]) : r \in R})
=============================================================================
