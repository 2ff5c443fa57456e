--------------------------- MODULE TensorParallel ---------------------------
(***************************************************************************)
(* How the weights of a Qwen3 layer and its vocabulary are spread over the *)
(* ranks: load_model of nanovllm/utils/loader.py hands every tensor of the *)
(* checkpoint, in whatever order the files have it, to the weight_loader   *)
(* of a parameter (layers/linear.py, layers/embed_head.py), which copies   *)
(* the rank's share into place; the layers of models/qwen3.py then combine *)
(* what the ranks have.                                                    *)
(*                                                                         *)
(* A weight is the row it comes from, <<tensor, index>>: what a layer      *)
(* computes is right if the right rows meet.  The rows of "o" and "down"   *)
(* are their columns, the dimension RowParallelLinear splits.  The ranks   *)
(* share nothing while they load, so one step loads a tensor on all.       *)
(***************************************************************************)
EXTENDS Naturals, FiniteSets

CONSTANTS
  TpSize,   \* tensor_parallel_size
  Shapes    \* what the config of a model may say

ASSUME TpSizeAssumption == TpSize \in 1..8
(* Sizes are not zero, and each key head serves a whole group of query     *)
(* heads: what the attention kernels (external) ask of a model.            *)
ASSUME ShapesAssumption ==
  \A s \in Shapes :
    /\ {s.heads, s.kvHeads, s.dim, s.inner, s.vocab} \subseteq Nat \ {0}
    /\ s.heads % s.kvHeads = 0
    /\ s.tied \in BOOLEAN

VARIABLES
  shape,     \* the model that is being loaded
  pending,   \* the tensors that are still to be loaded
  param,     \* param[r][p]: the rows of parameter p on rank r
  failed     \* a weight_loader has raised

weightVars == <<shape, pending, param, failed>>

Ranks == 0..TpSize - 1
CeilDiv(a, b) == (a + b - 1) \div b
Smaller(a, b) == IF a < b THEN a ELSE b

-----------------------------------------------------------------------------
(* Sizes                                                                   *)

(* The rows of a tensor in the checkpoint, and of a parameter on a rank.   *)
Rows(t) == CASE t \in {"q", "o"} -> shape.heads * shape.dim
             [] t \in {"k", "v"} -> shape.kvHeads * shape.dim
             [] t \in {"gate", "up", "down"} -> shape.inner
             [] t \in {"embed", "head"} -> shape.vocab

LocalHeads == shape.heads \div TpSize
LocalKvHeads == shape.kvHeads \div TpSize
QSize == LocalHeads * shape.dim
KvSize == LocalKvHeads * shape.dim

(* Where qkv_proj and gate_up_proj keep their parts.                       *)
Width(t) == CASE t = "q" -> QSize
              [] t \in {"k", "v"} -> KvSize
              [] OTHER -> Rows(t) \div TpSize
(* The mutant takes all heads for key heads.                               *)
OffsetByRow(t) == CASE t = "k" -> KvSize [] t = "v" -> 2 * KvSize
                    [] t = "up" -> Rows("gate") \div TpSize [] OTHER -> 0
Offset(t) == CASE t = "k" -> QSize
               [] t = "v" -> QSize + KvSize
               [] t = "up" -> Rows("gate") \div TpSize
               [] OTHER -> 0

(* The asserts of divide and of the constructors.                          *)
Divides(s) ==
  /\ s.heads % TpSize = 0 /\ s.kvHeads % TpSize = 0
  /\ (2 * s.inner) % TpSize = 0
  /\ (s.heads * s.dim) % TpSize = 0 /\ s.inner % TpSize = 0
  /\ s.vocab % TpSize = 0

(* packed_modules_mapping; a tied lm_head shares the storage of the        *)
(* embedding.                                                              *)
ParamOf(t) == CASE t \in {"q", "k", "v"} -> "qkv"
                [] t \in {"gate", "up"} -> "gate_up"
                [] OTHER -> t
Params == {"qkv", "o", "gate_up", "down", "embed"} \cup (IF shape.tied THEN {} ELSE {"head"})
HeadStorage == IF shape.tied THEN "embed" ELSE "head"
Tensors == {"q", "k", "v", "o", "gate", "up", "down", "embed"}
             \cup (IF shape.tied THEN {} ELSE {"head"})

LocalRows(p) == CASE p = "qkv" -> QSize + 2 * KvSize
                  [] p = "gate_up" -> (2 * shape.inner) \div TpSize
                  [] OTHER -> Rows(p) \div TpSize
Empty(n) == [i \in 0..n - 1 |-> <<"nothing", 0>>]

WeightsInit ==
  /\ shape \in {s \in Shapes : Divides(s)}
  /\ pending = Tensors
  /\ param = [r \in Ranks |-> [p \in Params |-> Empty(LocalRows(p))]]
  /\ failed = FALSE

-----------------------------------------------------------------------------
(* Loading one tensor                                                      *)

(* The share of rank r: the r-th of torch.chunk for the parts of a packed  *)
(* parameter, of which there may be too few or a short one, and a narrow   *)
(* of the parameter's own length for the others.                           *)
Packed(t) == ParamOf(t) # t
ChunkSize(t) == CeilDiv(Rows(t), TpSize)
HasShare(t, r) == Packed(t) => r * ChunkSize(t) < Rows(t)
Share(t, r) ==
  LET start == r * IF Packed(t) THEN ChunkSize(t) ELSE LocalRows(t)
      length == IF Packed(t) THEN Smaller(ChunkSize(t), Rows(t) - start) ELSE LocalRows(t)
  IN  [i \in 0..length - 1 |-> <<t, start + i>>]

(* copy_ takes a share of the size of its place, or repeats a single row.  *)
Copies(t, r) ==
  /\ HasShare(t, r)
  /\ Offset(t) + Width(t) <= LocalRows(ParamOf(t))
  /\ Cardinality(DOMAIN Share(t, r)) \in {1, Width(t)}
Loaded(t, r) ==
  [i \in DOMAIN param[r][ParamOf(t)] |->
     IF i \in Offset(t)..Offset(t) + Width(t) - 1
     THEN Share(t, r)[IF DOMAIN Share(t, r) = {0} THEN 0 ELSE i - Offset(t)]
     ELSE param[r][ParamOf(t)][i]]

LoadWeight(t) ==
  /\ t \in pending /\ ~failed
  /\ IF \A r \in Ranks : Copies(t, r)
     THEN /\ param' = [r \in Ranks |-> [param[r] EXCEPT ![ParamOf(t)] = Loaded(t, r)]]
          /\ pending' = pending \ {t}
          /\ UNCHANGED failed
     ELSE /\ failed' = TRUE
          /\ UNCHANGED <<param, pending>>
  /\ UNCHANGED shape

LoadModel == \E t \in pending : LoadWeight(t)

-----------------------------------------------------------------------------
(* What the layers compute: the products they add up over all ranks        *)

(* Element i of the output of attention on rank r: its query, the key and  *)
(* the value of the head that its group shares, and the column of o_proj   *)
(* it is multiplied with before the sum over the ranks.                    *)
Element(q, k, v, o, i, heads, kvHeads) ==
  LET kv == (i \div shape.dim) \div (heads \div kvHeads)
      j == kv * shape.dim + (i % shape.dim)
  IN  <<q[i], k[j], v[j], o[i]>>
AttentionOn(r) ==
  LET qkv == param[r]["qkv"]
      k == [j \in 0..KvSize - 1 |-> qkv[QSize + j]]
      v == [j \in 0..KvSize - 1 |-> qkv[QSize + KvSize + j]]
  IN  {Element(qkv, k, v, param[r]["o"], i, LocalHeads, LocalKvHeads) : i \in 0..QSize - 1}

(* Element i of silu(gate) * up on rank r, with its column of down_proj.   *)
MlpOn(r) ==
  LET gateUp == param[r]["gate_up"]
      half == LocalRows("gate_up") \div 2
  IN  {<<gateUp[i], gateUp[half + i], param[r]["down"][i]>> : i \in 0..half - 1}

(* The rows that the sum over the ranks adds up for token x: a rank that   *)
(* has not got it adds zero.                                               *)
PartOfVocabulary(r) == r * LocalRows("embed")..(r + 1) * LocalRows("embed") - 1
Embedding(x) ==
  {param[r]["embed"][x - r * LocalRows("embed")] : r \in {q \in Ranks : x \in PartOfVocabulary(q)}}

(* The logit of token x, in the gathered logits of the ranks in order.     *)
Logit(x) ==
  LET n == LocalRows("embed") IN param[x \div n][HeadStorage][x % n]

-----------------------------------------------------------------------------
(* Properties                                                              *)

Whole(t) == [i \in 0..Rows(t) - 1 |-> <<t, i>>]
AllOf(Part(_)) == UNION {Part(r) : r \in Ranks}

(* A model whose constructors accept its sizes can be loaded, and the      *)
(* ranks then compute together what one rank would: query heads meet the   *)
(* keys and values of their group and the columns of o_proj that belong to *)
(* them, gates their up-projections, no product is missing from a sum and  *)
(* none is in it twice, and the embedding and the logit of every token are *)
(* its own (linear.py:97, 126, embed_head.py:36, 66).                      *)
ShardsMakeTheModel ==
  /\ ~failed
  /\ pending = {} =>
       /\ AllOf(AttentionOn) =
            {Element(Whole("q"), Whole("k"), Whole("v"), Whole("o"), i, shape.heads, shape.kvHeads) :
               i \in 0..Rows("q") - 1}
       /\ AllOf(MlpOn) = {<<Whole("gate")[i], Whole("up")[i], Whole("down")[i]>> : i \in 0..shape.inner - 1}
       /\ \A x \in 0..shape.vocab - 1 :
            /\ Embedding(x) = {<<"embed", x>>}
            /\ Logit(x) = <<HeadStorage, x>>
=============================================================================
