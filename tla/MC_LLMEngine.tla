---------------------------- MODULE MC_LLMEngine ----------------------------
(* Instances of LLMEngine for TLC.                                         *)
EXTENDS LLMEngine, TLC

CONSTANTS s1, s2, s3, b1, b2, b3, b4, n1

(* Sound where no batch is padded: otherwise Block0 is not like the others.*)
BlockSymmetry == Permutations(Blocks)

OneNamespace == [s \in Seqs |-> n1]
NoBreakpoints == [s \in Seqs |-> {}]
All == [s \in Seqs |-> TRUE]
None == [s \in Seqs |-> FALSE]
OnlyS1 == [s \in Seqs |-> s = s1]

(* Common prefixes of every length: two requests that decode beside s3,    *)
(* which only warms the cache.                                             *)
MixedPrompt == [s \in Seqs |-> IF s = s3 THEN <<1, 1, 1, 1>> ELSE <<1, 1, 1>>]
MixedMax == [s \in Seqs |-> IF s = s3 THEN 0 ELSE 3]

(* Prompts of one token, which decode side by side.                        *)
ShortPrompt == [s \in Seqs |-> IF s = s1 THEN <<1>> ELSE <<2>>]
ShortMax == [s \in Seqs |-> 3]
=============================================================================
