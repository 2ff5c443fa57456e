----------------------------- MODULE CudaGraphs -----------------------------
(* Which CUDA graph decodes a batch, and how many rows it runs:            *)
(* capture_cudagraph and run_model of nanovllm/engine/model_runner.py.     *)
EXTENDS Naturals, FiniteSetsExt

MostRows(maxNumSeqs) == Min({maxNumSeqs, 512})

(* graph_bs, the batch sizes for which a graph is recorded.                *)
GraphSizes(maxNumSeqs) ==
  {1, 2, 4, 8} \cup {16 * k : k \in 1..MostRows(maxNumSeqs) \div 16}

Large(n) == n > 512     \* decoded without a graph

(* The next graph that is not too small, if there is one; a graph has at   *)
(* most as many rows as its inputs, which are allocated for MostRows.      *)
Covered(maxNumSeqs, n) == \E g \in GraphSizes(maxNumSeqs) : g >= n
RowsOf(maxNumSeqs, n) ==
  Min({MostRows(maxNumSeqs), Min({g \in GraphSizes(maxNumSeqs) : g >= n})})
=============================================================================
