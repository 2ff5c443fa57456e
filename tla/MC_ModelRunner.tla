--------------------------- MODULE MC_ModelRunner ---------------------------
(* Instances of ModelRunner for TLC.                                       *)
EXTENDS ModelRunner

CONSTANTS w1, w2, w3

(* Grouped heads with a tied vocabulary, ungrouped with a separate one;    *)
(* the constructors refuse the inner sizes that four does not divide.      *)
SomeShapes ==
  {[heads |-> 8, kvHeads |-> IF tied THEN 4 ELSE 8, dim |-> 2, inner |-> inner,
    vocab |-> 8, tied |-> tied] : inner \in {2, 6, 8}, tied \in BOOLEAN}
=============================================================================
