----------------------------- MODULE ModelRunner -----------------------------
(***************************************************************************)
(* A model runner from its construction to its exit: ModelRunner.__init__  *)
(* of nanovllm/engine/model_runner.py loads the weights of its rank before *)
(* it creates or attaches to the shared memory, and the processes then     *)
(* talk through that (WorkerGroup).  A process whose load raises dies      *)
(* before the first barrier, and no other gets past it.                    *)
(***************************************************************************)
EXTENDS WorkerGroup, TensorParallel

ASSUME RanksAssumption == TpSize = Cardinality(Workers) + 1

RunnerVars == <<vars, weightVars>>

RunnerInit == Init /\ WeightsInit

Load == pending # {} /\ LoadModel /\ UNCHANGED vars
Serve == pending = {} /\ Next /\ UNCHANGED weightVars

RunnerNext == Load \/ Serve

RunnerSpec ==
  /\ RunnerInit /\ [][RunnerNext]_RunnerVars
  /\ WF_RunnerVars(Load)
  /\ WF_RunnerVars(pending = {} /\ StartBarrier /\ UNCHANGED weightVars)
  /\ WF_RunnerVars(pending = {} /\ ExitBarrier /\ UNCHANGED weightVars)
  /\ WF_RunnerVars(pending = {} /\ Rank0 /\ UNCHANGED weightVars)
  /\ \A w \in Workers : WF_RunnerVars(pending = {} /\ Worker(w) /\ UNCHANGED weightVars)
=============================================================================
