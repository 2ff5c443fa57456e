--------------------------- MODULE MC_AsyncEngine ---------------------------
(* Instances of AsyncEngine for TLC.                                       *)
EXTENDS AsyncEngine

CONSTANTS r1, r2, r3, i1, i2, i3, n1, n2

(* r1 and r3 carry the same id; r1 and r2 share a namespace whose tokens   *)
(* are enough for one of them; r2 comes first by priority.                 *)
SharedId == [r \in Reqs |-> IF r = r2 THEN i2 ELSE i1]
OwnId == [r \in Reqs |-> CASE r = r1 -> i1 [] r = r2 -> i2 [] OTHER -> i3]
TwoNamespaces == [r \in Reqs |-> IF r = r3 THEN n2 ELSE n1]
Priorities == [r \in Reqs |-> IF r = r2 THEN 1 ELSE 0]
Prompts == [r \in Reqs |-> IF r = r1 THEN 1 ELSE 2]
Maxes == [r \in Reqs |-> CASE r = r1 -> 3 [] r = r2 -> 1 [] OTHER -> 0]
TwoTokens == [r \in Reqs |-> 2]
None == [r \in Reqs |-> FALSE]
OnlyR1 == [r \in Reqs |-> r = r1]
OnlyR2 == [r \in Reqs |-> r = r2]
=============================================================================
