------------------------------ MODULE LLMEngine ------------------------------
(***************************************************************************)
(* The engine end to end: nanovllm/engine/llm_engine.py puts a request     *)
(* through validate_request_limits into the scheduler, and its step lets   *)
(* nanovllm/engine/model_runner.py write keys and values into the slots    *)
(* that prepare_prefill and prepare_decode derive from the block tables.   *)
(*                                                                         *)
(* Decoding may run CUDA graphs, whose rows of padding write a slot, too.  *)
(*                                                                         *)
(* The memory is modelled by what attention needs of it: kv[b][o] is the   *)
(* token prefix whose last key and value slot o of block b holds.  Blocks  *)
(* are not cleared when they are freed, here as in the program.            *)
(***************************************************************************)
EXTENDS Scheduler, CudaGraphs

CONSTANTS
  MaxModelLen,  \* max_model_len
  EnforceEager, \* enforce_eager: decode without CUDA graphs
  Block0        \* the block with the index 0

ASSUME EngineAssumption ==
  /\ MaxModelLen \in Nat
  /\ EnforceEager \in BOOLEAN
  /\ Block0 \in Blocks

VARIABLE kv           \* the KV cache tensor

engineVars == <<vars, kv>>

(* The slot of the p-th token of s (counted from 1): its block and offset. *)
BlockAt(s, p) == table[s][BM!NumBlocksFor(p)]
OffsetAt(p) == (p - 1) % BlockSize
PrefixAt(s, p) == SubSeq(tokens[s], 1, p)

(* slot_mapping: prefill writes the chunk it computes, decode the last     *)
(* token.                                                                  *)
Written(s) ==
  IF isPrefill THEN computed[s] + 1 .. chunkEnd[s] ELSE {Len(tokens[s])}

(* A batch that is decoded by graph is padded up to the rows of the graph; *)
(* without one of its size the run raises StopIteration, and the engine    *)
(* makes no more steps.                                                    *)
UsesGraph == ~isPrefill /\ ~EnforceEager /\ ~Large(Len(batch))
Runnable == UsesGraph => Covered(MaxNumSeqs, Len(batch))
Padded == UsesGraph /\ RowsOf(MaxNumSeqs, Len(batch)) > Len(batch)

(* What may be in a slot after the run: one of the rows written to it, in  *)
(* whatever order the device writes them.  A row of padding has token 0 at *)
(* position 0 and slot 0.                                                  *)
PaddingRow == <<0>>
Outcomes(b, o) ==
  LET rows == {w \in ToSet(batch) \X (1..MaxModelLen) :
                 w[2] \in Written(w[1]) /\ BlockAt(w[1], w[2]) = b /\ OffsetAt(w[2]) = o}
      written == {PrefixAt(w[1], w[2]) : w \in rows}
                   \cup (IF Padded /\ b = Block0 /\ o = 0 THEN {PaddingRow} ELSE {})
  IN  IF written = {} THEN {kv[b][o]} ELSE written

(* ModelRunner.run for the scheduled batch.  Two rows with one slot are a  *)
(* row of padding and another: WritesArePrivate.                           *)
RunModel ==
  /\ Run /\ Runnable
  /\ \E first \in Outcomes(Block0, 0) :
       kv' = [b \in Blocks |-> [o \in 0..BlockSize-1 |->
                IF b = Block0 /\ o = 0 THEN first ELSE CHOOSE v \in Outcomes(b, o) : TRUE]]

(* validate_request_limits.                                                *)
WithinLimits(s) ==
  /\ Len(Prompt[s]) + MaxTokens[s] <= MaxModelLen
  /\ BM!NumBlocksFor(Len(Prompt[s]) + MaxTokens[s]) <= Cardinality(Blocks)

AddRequest(s) ==
  /\ WithinLimits(s)
  /\ Add(s)
  /\ UNCHANGED kv

EngineInit ==
  /\ Init
  /\ kv = [b \in Blocks |-> [o \in 0..BlockSize-1 |-> << >>]]

EngineNext ==
  \/ \E s \in Seqs : AddRequest(s)
  \/ RunModel
  \/ (Scheduling \/ Postprocessing \/ Environment) /\ UNCHANGED kv

EngineSpec == EngineInit /\ [][EngineNext]_engineVars

-----------------------------------------------------------------------------
(* Properties                                                              *)

(* Every position a sequence counts as computed, whoever computed it,      *)
(* holds the key and value of exactly that sequence's own prefix: sharing, *)
(* eviction, preemption and chunking never make a request attend to        *)
(* another one's or to stale memory.                                       *)
AttendsToOwnPrefix ==
  \A s \in Seqs : \A p \in 1..computed[s] : kv[BlockAt(s, p)][OffsetAt(p)] = PrefixAt(s, p)

(* A block that the prefix cache publishes, used or idle, holds the keys   *)
(* and values of the whole block its hash names, so any later hit is good. *)
CacheHoldsItsKey ==
  \A b \in Blocks : key[b] # NoKey =>
    LET prefix == key[b][2]
    IN  \A o \in 0..BlockSize-1 :
          kv[b][o] = SubSeq(prefix, 1, Len(prefix) - BlockSize + 1 + o)

=============================================================================
