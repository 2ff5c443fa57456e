---------------------------- MODULE MC_Scheduler ----------------------------
(* Instances of Scheduler for TLC.                                         *)
EXTENDS Scheduler, TLC

CONSTANTS s1, s2, s3, b1, b2, b3, b4, b5, n1

BlockSymmetry == Permutations(Blocks)

OneNamespace == [s \in Seqs |-> n1]
NoBreakpoints == [s \in Seqs |-> {}]
All == [s \in Seqs |-> TRUE]
None == [s \in Seqs |-> FALSE]

(* Two requests with one prefix that decode, the first into a new block;   *)
(* s3 only warms the cache.                                                *)
WarmedPrompt == [s \in Seqs |-> IF s = s3 THEN <<1, 1>> ELSE <<1, 1, 1, 1>>]
WarmedMax == [s \in Seqs |-> CASE s = s1 -> 2 [] s = s2 -> 1 [] OTHER -> 0]
OnlyS3 == [s \in Seqs |-> s = s3]

(* Long prompts with a common prefix; s3 only warms the cache.             *)
LongPrompt == [s \in Seqs |-> <<1, 1, 1, 1>>]
LongMax == [s \in Seqs |-> CASE s = s1 -> 3 [] s = s2 -> 1 [] OTHER -> 0]

(* Prompts of two blocks that have nothing in common.                      *)
ApartPrompt == [s \in Seqs |-> IF s = s2 THEN <<2, 2, 2>> ELSE <<1, 1, 1>>]

OneToken == [s \in Seqs |-> 1]
=============================================================================
