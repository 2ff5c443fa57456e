---------------------------- MODULE WorkerGroup ----------------------------
(***************************************************************************)
(* The processes of a tensor-parallel engine: rank 0, which schedules, and *)
(* the workers, which run what it runs.  nanovllm/engine/model_runner.py   *)
(* passes every call through ONE shared-memory slot and one event per      *)
(* worker; nothing in write_shm waits until the last call has been read.   *)
(* What keeps a call from being overwritten is the last collective of the  *)
(* model, the gather of the logits to rank 0 (layers/embed_head.py): rank  *)
(* 0 reads the tokens of a run only after every worker has joined it.  The *)
(* collectives before it synchronise no more than that one, and workers    *)
(* enqueue theirs without waiting, so that one stands for all.             *)
(*                                                                         *)
(* A call is a pair of its number and its method; the batch it carries is  *)
(* left out, but may be too long for the slot.                             *)
(***************************************************************************)
EXTENDS Naturals

CONSTANTS
  Workers,   \* the ranks other than 0
  MaxRuns    \* bound of the model: the calls of run

ASSUME GroupAssumption == Workers # {} /\ MaxRuns \in Nat

VARIABLES
  pc0,       \* where rank 0 is
  method,    \* the method rank 0 is calling
  calls,     \* the calls rank 0 has put into the slot
  shm,       \* the shared memory: absent, torn, or the call in its slot
  asleep,    \* the workers whose event rank 0 has not yet set for this call
  event,     \* event[w] is set
  pcw,       \* where worker w is
  msg,       \* msg[w]: the call w has read
  joined     \* joined[w]: the gathers w has joined

rank0Vars == <<pc0, method, calls, asleep>>
workerVars == <<pcw, msg, joined>>
vars == <<rank0Vars, workerVars, shm, event>>

Absent == <<0, "absent">>
Torn == <<0, "torn">>

Init ==
  /\ pc0 = "starting"
  /\ method = "none"
  /\ calls = 0
  /\ shm = Absent
  /\ asleep = {}
  /\ event = [w \in Workers |-> FALSE]
  /\ pcw = [w \in Workers |-> "starting"]
  /\ msg = [w \in Workers |-> Absent]
  /\ joined = [w \in Workers |-> 0]

-----------------------------------------------------------------------------
(* Start: rank 0 creates the memory, all meet, the workers attach to it    *)

CreateMemory ==
  /\ pc0 = "starting"
  /\ pc0' = "created"
  /\ shm' = <<0, "empty">>
  /\ UNCHANGED <<method, calls, asleep, workerVars, event>>

ReadyToAttach(w) ==
  /\ pcw[w] = "starting"
  /\ pcw' = [pcw EXCEPT ![w] = "ready"]
  /\ UNCHANGED <<rank0Vars, msg, joined, shm, event>>

(* dist.barrier: all workers are at `place' and go on to `next' (those of  *)
(* the mutant do not wait for each other).                                 *)
All(place) == \A w \in Workers : pcw[w] = place
NobodyWaits(place, next) ==
  pcw' = [w \in Workers |-> IF pcw[w] = place THEN next ELSE pcw[w]]
Barrier(place, next) ==
  /\ All(place)
  /\ pcw' = [w \in Workers |-> next]

StartBarrier ==
  /\ pc0 = "created"
  /\ Barrier("ready", "attaching")
  /\ pc0' = "idle"
  /\ UNCHANGED <<method, calls, asleep, msg, joined, shm, event>>

Attach(w) ==
  /\ pcw[w] = "attaching"
  /\ shm # Absent
  /\ pcw' = [pcw EXCEPT ![w] = "waiting"]
  /\ UNCHANGED <<rank0Vars, msg, joined, shm, event>>

-----------------------------------------------------------------------------
(* Rank 0: call, write_shm, its own part of the method                     *)

(* LLMEngine.step calls run; LLMEngine.exit, which is called once, exit.   *)
(* The length of the pickled call goes first.                              *)
Call(m) ==
  /\ pc0 = "idle"
  /\ m = "run" => calls < MaxRuns
  /\ method' = m
  /\ pc0' = "writing"
  /\ shm' = Torn
  /\ UNCHANGED <<calls, asleep, workerVars, event>>

WriteData ==
  /\ pc0 = "writing"
  /\ calls' = calls + 1
  /\ shm' = <<calls + 1, method>>
  /\ asleep' = Workers
  /\ pc0' = "waking"
  /\ UNCHANGED <<method, workerVars, event>>

(* A batch whose pickle does not fit into the slot: the assignment to the  *)
(* buffer raises, before any event is set, and the engine step fails.      *)
WriteTooLong ==
  /\ pc0 = "writing" /\ method = "run"
  /\ pc0' = "idle"
  /\ UNCHANGED <<method, calls, asleep, workerVars, shm, event>>

Wake(w) ==
  /\ pc0 = "waking" /\ w \in asleep
  /\ event' = [event EXCEPT ![w] = TRUE]
  /\ asleep' = asleep \ {w}
  /\ pc0' = IF asleep' # {} THEN "waking"
            ELSE IF method = "run" THEN "gathering" ELSE "closing"
  /\ UNCHANGED <<method, calls, workerVars, shm>>

(* Rank 0 has the tokens, or raises because the logits have the wrong      *)
(* number of rows; either way the gather is over.  The mutant does not     *)
(* gather.                                                                 *)
NothingToGather == TRUE
Gathered == \A w \in Workers : joined[w] >= calls

FinishRun ==
  /\ pc0 = "gathering" /\ Gathered
  /\ pc0' = "idle"
  /\ UNCHANGED <<method, calls, asleep, workerVars, shm, event>>

-----------------------------------------------------------------------------
(* A worker: read_shm, and the call it has read                            *)

Awake(w) ==
  /\ pcw[w] = "waiting" /\ event[w]
  /\ pcw' = [pcw EXCEPT ![w] = "reading"]
  /\ UNCHANGED <<rank0Vars, msg, joined, shm, event>>

Read(w) ==
  /\ pcw[w] = "reading"
  /\ msg' = [msg EXCEPT ![w] = shm]
  /\ pcw' = [pcw EXCEPT ![w] = "clearing"]
  /\ UNCHANGED <<rank0Vars, joined, shm, event>>

Clear(w) ==
  /\ pcw[w] = "clearing"
  /\ event' = [event EXCEPT ![w] = FALSE]
  /\ pcw' = [pcw EXCEPT ![w] = "calling"]
  /\ UNCHANGED <<rank0Vars, msg, joined, shm>>

(* run joins the gather and leaves the worker in its loop; exit closes the *)
(* memory and meets the others.                                            *)
Execute(w) ==
  /\ pcw[w] = "calling"
  /\ \/ /\ msg[w][2] = "run"
        /\ joined' = [joined EXCEPT ![w] = @ + 1]
        /\ pcw' = [pcw EXCEPT ![w] = "waiting"]
     \/ /\ msg[w][2] = "exit"
        /\ pcw' = [pcw EXCEPT ![w] = "closed"]
        /\ UNCHANGED joined
  /\ UNCHANGED <<rank0Vars, msg, shm, event>>

-----------------------------------------------------------------------------
(* Exit: all meet again, rank 0 removes the memory and joins the processes *)

ExitBarrier ==
  /\ pc0 = "closing"
  /\ Barrier("closed", "leaving")
  /\ pc0' = "unlinking"
  /\ UNCHANGED <<method, calls, asleep, msg, joined, shm, event>>

Unlink ==
  /\ pc0 = "unlinking"
  /\ shm' = Absent
  /\ pc0' = "joining"
  /\ UNCHANGED <<method, calls, asleep, workerVars, event>>

Leave(w) ==
  /\ pcw[w] = "leaving"
  /\ pcw' = [pcw EXCEPT ![w] = "gone"]
  /\ UNCHANGED <<rank0Vars, msg, joined, shm, event>>

JoinProcesses ==
  /\ pc0 = "joining" /\ All("gone")
  /\ pc0' = "stopped"
  /\ UNCHANGED <<method, calls, asleep, workerVars, shm, event>>

-----------------------------------------------------------------------------
Rank0 ==
  \/ CreateMemory \/ WriteData \/ FinishRun \/ Unlink \/ JoinProcesses
  \/ \E w \in Workers : Wake(w)
Worker(w) ==
  \/ ReadyToAttach(w) \/ Attach(w) \/ Awake(w) \/ Read(w) \/ Clear(w)
  \/ Execute(w) \/ Leave(w)
Caller == \/ \E m \in {"run", "exit"} : Call(m)
          \/ WriteTooLong

Next ==
  \/ StartBarrier \/ ExitBarrier
  \/ Rank0
  \/ Caller
  \/ \E w \in Workers : Worker(w)

Spec == Init /\ [][Next]_vars

-----------------------------------------------------------------------------
(* Properties                                                              *)

Methods == {"run", "exit"}
Slots == (Nat \X Methods) \cup {Absent, Torn, <<0, "empty">>}

TypeOK ==
  /\ pc0 \in {"starting", "created", "idle", "writing", "waking", "gathering",
              "closing", "unlinking", "joining", "stopped"}
  /\ method \in Methods \cup {"none"}
  /\ calls \in Nat
  /\ shm \in Slots
  /\ asleep \subseteq Workers
  /\ event \in [Workers -> BOOLEAN]
  /\ pcw \in [Workers -> {"starting", "ready", "attaching", "waiting", "reading",
                          "clearing", "calling", "closed", "leaving", "gone"}]
  /\ msg \in [Workers -> Slots]
  /\ joined \in [Workers -> Nat]

(* What a worker is about to run is the next call of rank 0, never a torn  *)
(* one, never one it has run before, and it misses none: the calls that it *)
(* has joined are those before.  Nothing but the gather keeps rank 0 from  *)
(* writing a call over one that a slow worker has still to read            *)
(* (model_runner.py:90).                                                   *)
FollowsRankZero ==
  \A w \in Workers : pcw[w] \in {"clearing", "calling"} =>
    /\ msg[w] = <<joined[w] + 1, method>>
    /\ msg[w][1] = calls

(* A worker attaches to memory that exists, and rank 0 removes it only     *)
(* when no worker will look at it again (model_runner.py:54, 61).          *)
MemoryOutlivesItsUse ==
  /\ \A w \in Workers : pcw[w] \in {"attaching", "waiting", "reading"} => shm # Absent
  /\ pc0 \in {"unlinking", "joining", "stopped"} =>
       \A w \in Workers : pcw[w] \in {"leaving", "gone"}

(* No wake-up is lost: a run that rank 0 started ends, and a shutdown that *)
(* it started joins every process (model_runner.py:81, llm_engine.py:39).  *)
EveryCallReturns ==
  /\ pc0 = "gathering" ~> pc0 = "idle"
  /\ pc0 = "closing" ~> pc0 = "stopped"
=============================================================================
