------------------------------ MODULE Scheduler ------------------------------
(***************************************************************************)
(* The continuous-batching scheduler, nanovllm/engine/scheduler.py, around *)
(* the step of nanovllm/engine/llm_engine.py, over BlockManager.           *)
(*                                                                         *)
(* LLMEngine.step is synchronous: schedule, run the model, postprocess.    *)
(* `pc' says where in it the engine is; an action is one turn of one of    *)
(* its loops, with at most one call into the block manager.  Requests are  *)
(* added and aborted, and the cache is purged, only between steps          *)
(* (pc = "idle"); wall-clock time passes at any moment.  A step that       *)
(* raises leaves pc at the name of the exception, and the engine stops.    *)
(***************************************************************************)
EXTENDS Integers, Sequences, FiniteSets, SequencesExt, Queues

CONSTANTS
  Seqs, Blocks, Tokens, Namespaces, NoKey, BlockSize, Prompt, MaxTokens, Namespace,
  CacheEnabled, Breakpoints, HasTTL, EnablePrefixCache, MinTokens, MaxCached,
  MaxCachedPerNs,
  Policy,            \* scheduler_fairness
  MaxNumSeqs,        \* max_num_seqs
  MaxBatched,        \* max_num_batched_tokens
  MaxPrefillChunk,   \* max_prefill_chunk_tokens
  MinPrefillChunk,   \* min_prefill_chunk_tokens
  Watermark,         \* kvcache_watermark_blocks
  StarvationLimit,   \* cache_aware_starvation_limit
  Eos,               \* eos
  IgnoreEos,         \* IgnoreEos[s]: ignore_eos
  Recurring,         \* bound of the model: the requests that are sent again and again
  MaxAge             \* bound of the model: waiting ages stop counting here

Policies == {"alternate", "fcfs", "prefill_first", "decode_first", "cache_aware_lpm"}

(* What BlockManager.tla assumes of its constants.                         *)
ASSUME SizeAssumption == BlockSize \in Nat \ {0}
ASSUME SetAssumption == IsFiniteSet(Seqs) /\ IsFiniteSet(Blocks)
ASSUME NoKeyAssumption == NoKey \notin Namespaces \X Seq(Tokens)
ASSUME RequestAssumption ==
  /\ Prompt \in [Seqs -> Seq(Tokens) \ {<< >>}]
  /\ MaxTokens \in [Seqs -> Nat]
  /\ Namespace \in [Seqs -> Namespaces]
  /\ CacheEnabled \in [Seqs -> BOOLEAN]
  /\ Breakpoints \in [Seqs -> SUBSET Nat]
  /\ HasTTL \in [Seqs -> BOOLEAN]
ASSUME CacheConfigAssumption ==
  /\ EnablePrefixCache \in BOOLEAN
  /\ {MinTokens, MaxCached, MaxCachedPerNs} \subseteq Nat

ASSUME SchedulerAssumption ==
  /\ Policy \in Policies
  /\ {MaxNumSeqs, MaxBatched, MaxPrefillChunk, MinPrefillChunk} \subseteq Nat \ {0}
  /\ {Watermark, StarvationLimit, MaxAge} \subseteq Nat
  /\ IgnoreEos \in [Seqs -> BOOLEAN]
  /\ Recurring \subseteq Seqs

VARIABLES
  tokens, target, computed, table, cacheRead, cacheCreate,
  free, cached, used, older, ref, key, expiry, hashToBlock,
  waiting,      \* waiting
  running,      \* running
  status,       \* status[s]: seq.status, with the finish_reason once finished
  age,          \* age[s]: waiting_ages[s], 0 outside the waiting queue
  lastPrefill,  \* _last_step_was_prefill
  pc,           \* where the engine is in step()
  fallback,     \* schedule() is on the second of its two alternatives
  isPrefill,    \* the batch being run is a prefill batch
  cand,         \* the sequences the current loop has still to visit
  batch,        \* scheduled_seqs
  batched,      \* num_batched_tokens
  chunk,        \* prefill_chunk_budget
  reserve,      \* reserve_blocks
  goal,         \* the target computed for the head of cand
  chunkEnd      \* chunkEnd[s]: scheduled_prefill_end, 0 when cleared

seqVars == <<tokens, target>>
useVars == <<computed, table, cacheRead, cacheCreate>>
poolVars == <<free, cached, used, older, ref, key, expiry, hashToBlock>>
bmVars == <<seqVars, useVars, poolVars>>
queueVars == <<waiting, running, status, age>>
localVars == <<cand, batch, batched, chunk, reserve, goal, chunkEnd>>
pathVars == <<lastPrefill, fallback, isPrefill>>
vars == <<bmVars, queueVars, localVars, pathVars, pc>>

BM == INSTANCE BlockManager

MinOf(a, b) == IF a < b THEN a ELSE b
MaxOf(a, b) == IF a > b THEN a ELSE b

(* The limits on a chunk, as Config clamps them.                           *)
MaxChunk == MinOf(MaxPrefillChunk, MaxBatched)
MinChunk == MinOf(MinPrefillChunk, MaxChunk)

-----------------------------------------------------------------------------
(* What the scheduler asks about its queues                                *)

FinishReasons == {"stop", "length", "cache_warmed", "cancelled"}
Finished(s) == status[s] \in FinishReasons

(* is_prompt_ready.                                                        *)
Ready(s) == computed[s] >= target[s]

HasDecodeWork == \E s \in ToSet(running) : Ready(s)
HasPrefillWork == waiting # << >> \/ \E s \in ToSet(running) : ~Ready(s)

(* _prefer_prefill.                                                        *)
PreferPrefill ==
  CASE Policy = "fcfs" ->
         \/ \E s \in ToSet(running) : ~Ready(s)
         \/ ~HasDecodeWork /\ HasPrefillWork
    [] Policy = "prefill_first" -> HasPrefillWork
    [] Policy = "decode_first" -> ~HasDecodeWork /\ HasPrefillWork
    [] OTHER -> HasPrefillWork /\ (HasDecodeWork => ~lastPrefill)

(* _prefill_chunk_budget: chunks shrink as sequences decode.               *)
ChunkBudget ==
  LET pressure == Cardinality({s \in ToSet(running) : Ready(s)})
  IN  IF pressure = 0 THEN MaxChunk
      ELSE MaxOf(MinChunk, MaxChunk \div MinOf(pressure + 1, 8))

(* _prefill_reserve_blocks; one mutant reserves nothing, one always.       *)
ReserveNothing == 0
ReserveAlways == Watermark
ReserveBlocks == IF HasDecodeWork THEN Watermark ELSE 0

(* estimate_cached_prefix_tokens, in blocks.                               *)
CachedPrefix(s) ==
  IF ~BM!CacheOn(s) THEN 0
  ELSE Cardinality({i \in 1..target[s] : \A j \in 1..i :
         BM!Reusable(s, j) /\ BM!Key(s, j) \in DOMAIN hashToBlock})

(* _reorder_waiting_for_cache_affinity: starved requests first, then the   *)
(* longest cached prefix, then the oldest, then the queue's own order.     *)
Affinity(i) ==
  LET s == waiting[i]
  IN  <<IF age[s] >= StarvationLimit THEN 1 ELSE 0, CachedPrefix(s), age[s], -i>>
Above(a, b) ==
  \E k \in 1..4 : a[k] > b[k] /\ \A j \in 1..k-1 : a[j] = b[j]
Reordered ==
  IF Policy # "cache_aware_lpm" THEN waiting
  ELSE LET places == 1..Len(waiting)
           order == Sorted(places, {e \in places \X places :
                                      Above(Affinity(e[1]), Affinity(e[2]))})
       IN  [i \in places |-> waiting[order[i]]]

(* The tokens an admitted sequence must find room for in its first chunk.  *)
AdmitTarget(s) ==
  MinOf(target[s], MaxOf(computed[s] + 1, MinOf(target[s], MaxChunk)))

(* Mutant: the last running sequence other than s, scheduled or not.       *)
AnyVictim(s) ==
  LET i == SelectLastInSeq(running, LAMBDA t : t # s)
  IN  IF i = 0 THEN s ELSE running[i]

(* _select_preemption_victim: the last running sequence that is neither s  *)
(* nor already scheduled, or s itself.                                     *)
Victim(s) ==
  LET free_to_go(t) == t # s /\ t \notin ToSet(batch)
      i == SelectLastInSeq(running, free_to_go)
  IN  IF i = 0 THEN s ELSE running[i]

-----------------------------------------------------------------------------
(* Between steps                                                           *)

(* The waiting queue is first come, first served; the mutant is a stack.   *)
Pushed(s) == <<s>> \o waiting
Enqueued(s) == Append(waiting, s)

Add(s) ==
  /\ pc = "idle"
  /\ status[s] = "new"
  /\ waiting' = Enqueued(s)
  /\ status' = [status EXCEPT ![s] = "waiting"]
  /\ UNCHANGED <<bmVars, running, age, localVars, pathVars, pc>>

Abort(s) ==
  /\ pc = "idle"
  /\ status[s] \in {"waiting", "running"}
  /\ waiting' = RemoveFirst(waiting, s)
  /\ running' = RemoveFirst(running, s)
  /\ age' = [age EXCEPT ![s] = 0]
  /\ status' = [status EXCEPT ![s] = "cancelled"]
  /\ IF table[s] # << >> THEN BM!Retire(s) ELSE UNCHANGED bmVars
  /\ UNCHANGED <<localVars, pathVars, pc>>

(* A client sends a finished request again, as a new Sequence.             *)
Resubmit(s) ==
  /\ pc = "idle"
  /\ s \in Recurring
  /\ Finished(s)
  /\ status' = [status EXCEPT ![s] = "new"]
  /\ BM!Renew(s)
  /\ UNCHANGED <<waiting, running, age, localVars, pathVars, pc>>

(* purge_prefix_cache, and the purge made by stats.                        *)
PurgePrefixCache ==
  /\ pc = "idle"
  /\ BM!PurgeAction
  /\ UNCHANGED <<queueVars, localVars, pathVars, pc>>

TimePasses ==
  /\ \E b \in Blocks : BM!Expire(b)
  /\ UNCHANGED <<queueVars, localVars, pathVars, pc>>

-----------------------------------------------------------------------------
(* schedule                                                                *)

StartDecode == pc' = "decode" /\ cand' = running
StartPrefill == pc' = "admit" /\ UNCHANGED cand

Schedule ==
  /\ pc = "idle"
  /\ waiting # << >> \/ running # << >>
  /\ age' = [s \in Seqs |-> IF s \in ToSet(waiting) THEN MinOf(age[s] + 1, MaxAge) ELSE age[s]]
  /\ fallback' = FALSE
  /\ IF PreferPrefill THEN StartPrefill ELSE StartDecode
  /\ UNCHANGED <<bmVars, waiting, running, status, lastPrefill, isPrefill,
                 batch, batched, chunk, reserve, goal, chunkEnd>>

(* The end of _schedule_prefill and of _schedule_decode: run the batch, or *)
(* try the other kind of work, or give up.                                 *)
Dispatch(prefill) ==
  IF batch # << >>
  THEN /\ pc' = "run"
       /\ lastPrefill' = prefill
       /\ isPrefill' = prefill
       /\ cand' = batch
       /\ UNCHANGED fallback
  ELSE /\ UNCHANGED <<lastPrefill, isPrefill>>
       /\ fallback' = TRUE
       /\ IF fallback THEN pc' = "RuntimeError" /\ UNCHANGED cand
          ELSE IF prefill THEN StartDecode ELSE StartPrefill

(* _admit_waiting.                                                         *)
Admit ==
  /\ pc = "admit"
  /\ waiting' = Reordered
  /\ reserve' = ReserveBlocks
  /\ pc' = "match"
  /\ UNCHANGED <<bmVars, running, status, age, cand, batch, batched, chunk, goal,
                 chunkEnd, pathVars>>

AdmitMatch ==
  /\ pc = "match"
  /\ IF waiting # << >> /\ Len(running) < MaxNumSeqs
     THEN BM!Match(Head(waiting)) /\ pc' = "allocate"
     ELSE UNCHANGED bmVars /\ pc' = "prefill_init"
  /\ UNCHANGED <<queueVars, localVars, pathVars>>

AdmitAllocate ==
  LET s == Head(waiting)
  IN /\ pc = "allocate"
     /\ BM!PurgeExpired
     /\ IF BM!CanAllocate(s, AdmitTarget(s), reserve)
        THEN /\ waiting' = Tail(waiting)
             /\ running' = Append(running, s)
             /\ status' = [status EXCEPT ![s] = "running"]
             /\ age' = [age EXCEPT ![s] = 0]
             /\ pc' = "match"
        ELSE pc' = "prefill_init" /\ UNCHANGED queueVars
     /\ UNCHANGED <<seqVars, localVars, pathVars>>

(* _schedule_prefill, after admission.                                     *)
PrefillInit ==
  /\ pc = "prefill_init"
  /\ cand' = Filtered(running, {s \in Seqs : ~Ready(s)})
  /\ chunk' = ChunkBudget
  /\ reserve' = ReserveBlocks
  /\ batched' = 0
  /\ pc' = "prefill"
  /\ UNCHANGED <<bmVars, queueVars, batch, goal, chunkEnd, pathVars>>

PrefillVisits == cand # << >> /\ Len(batch) < MaxNumSeqs /\ batched < MaxBatched

PrefillVisit ==
  LET s == Head(cand)
      end == MinOf(target[s], computed[s] + MinOf(chunk, MaxBatched - batched))
  IN /\ pc = "prefill"
     /\ PrefillVisits
     /\ BM!PurgeExpired
     /\ IF BM!CanAllocate(s, end, reserve)
        THEN goal' = end /\ pc' = "prepare" /\ UNCHANGED cand
        ELSE cand' = Tail(cand) /\ UNCHANGED <<goal, pc>>
     /\ UNCHANGED <<seqVars, queueVars, batch, batched, chunk, reserve, chunkEnd, pathVars>>

(* prepare_prefill: look the prefix up again, assert, allocate.            *)
PrepareMatch ==
  /\ pc = "prepare"
  /\ BM!Match(Head(cand))
  /\ pc' = "ensure"
  /\ UNCHANGED <<queueVars, localVars, pathVars>>

(* The assertion of prepare_prefill.                                       *)
TargetBeyondPrefix(s) == goal > computed[s]

PrepareEnsure ==
  LET s == Head(cand)
  IN /\ pc = "ensure"
     /\ TargetBeyondPrefix(s)
     /\ BM!EnsureBlocks(s, goal)
     /\ UNCHANGED seqVars
     /\ chunkEnd' = [chunkEnd EXCEPT ![s] = goal]
     /\ batched' = batched + (goal - computed[s])
     /\ batch' = Append(batch, s)
     /\ cand' = Tail(cand)
     /\ pc' = "prefill"
     /\ UNCHANGED <<queueVars, chunk, reserve, goal, pathVars>>

PrepareFails ==
  /\ pc = "ensure"
  /\ ~TargetBeyondPrefix(Head(cand))
  /\ pc' = "AssertionError"
  /\ UNCHANGED <<bmVars, queueVars, localVars, pathVars>>

PrefillDone ==
  /\ pc = "prefill"
  /\ ~PrefillVisits
  /\ Dispatch(TRUE)
  /\ UNCHANGED <<bmVars, queueVars, batch, batched, chunk, reserve, goal, chunkEnd>>

(* _schedule_decode.                                                       *)
DecodeVisits == cand # << >> /\ Len(batch) < MaxNumSeqs

DecodeSkip ==
  /\ pc = "decode"
  /\ DecodeVisits
  /\ ~Ready(Head(cand))
  /\ cand' = Tail(cand)
  /\ UNCHANGED <<bmVars, queueVars, batch, batched, chunk, reserve, goal, chunkEnd,
                 pathVars, pc>>

DecodeVisit ==
  LET s == Head(cand)
  IN /\ pc = "decode"
     /\ DecodeVisits
     /\ Ready(s)
     /\ BM!PurgeExpired
     /\ pc' = IF BM!CanAllocate(s, Len(tokens[s]), 0) THEN "append" ELSE "preempt"
     /\ UNCHANGED <<seqVars, queueVars, localVars, pathVars>>

DecodeAppend ==
  LET s == Head(cand)
  IN /\ pc = "append"
     /\ BM!EnsureBlocks(s, Len(tokens[s]))
     /\ UNCHANGED seqVars
     /\ batch' = Append(batch, s)
     /\ cand' = Tail(cand)
     /\ pc' = "decode"
     /\ UNCHANGED <<queueVars, batched, chunk, reserve, goal, chunkEnd, pathVars>>

(* preempt: the victim gives its blocks back and waits at the front.       *)
PreemptVictim ==
  LET v == Victim(Head(cand))
  IN /\ pc = "preempt"
     /\ BM!Preempt(v)
     /\ running' = RemoveFirst(running, v)
     /\ waiting' = <<v>> \o waiting
     /\ status' = [status EXCEPT ![v] = "waiting"]
     /\ age' = [age EXCEPT ![v] = 0]
     /\ pc' = "decode"
     /\ UNCHANGED <<localVars, pathVars>>

(* The scheduled sequences move to the back of the running queue; the      *)
(* mutant does not remove them first.                                      *)
AppendedBatch == running \o batch
RotatedBatch == Filtered(running, Seqs \ ToSet(batch)) \o batch

DecodeDone ==
  /\ pc = "decode"
  /\ ~DecodeVisits
  /\ running' = RotatedBatch
  /\ Dispatch(FALSE)
  /\ UNCHANGED <<bmVars, waiting, status, age, batch, batched, chunk, reserve, goal, chunkEnd>>

-----------------------------------------------------------------------------
(* model_runner.run and postprocess                                        *)

Run ==
  /\ pc = "run"
  /\ pc' = "post"
  /\ UNCHANGED <<bmVars, queueVars, localVars, pathVars>>

(* The tokens postprocess counts as computed; the mutant forgets that the  *)
(* prefill was a chunk.                                                    *)
CommitToTarget(s) == IF isPrefill THEN target[s] ELSE Len(tokens[s])
CommitTo(s) == IF isPrefill THEN chunkEnd[s] ELSE MaxOf(computed[s], Len(tokens[s]))

PostCommit ==
  LET s == Head(cand)
  IN /\ pc = "post"
     /\ cand # << >>
     /\ BM!Commit(s, CommitTo(s))
     /\ UNCHANGED seqVars
     /\ chunkEnd' = [chunkEnd EXCEPT ![s] = 0]
     /\ pc' = "emit"
     /\ UNCHANGED <<queueVars, cand, batch, batched, chunk, reserve, goal, pathVars>>

(* A chunk that does not complete the prompt emits nothing.                *)
EmitNothing ==
  /\ pc = "emit"
  /\ isPrefill /\ ~Ready(Head(cand))
  /\ cand' = Tail(cand)
  /\ pc' = "post"
  /\ UNCHANGED <<bmVars, queueVars, batch, batched, chunk, reserve, goal, chunkEnd, pathVars>>

EmitWarmed ==
  LET s == Head(cand)
  IN /\ pc = "emit"
     /\ isPrefill /\ Ready(s) /\ MaxTokens[s] = 0
     /\ status' = [status EXCEPT ![s] = "cache_warmed"]
     /\ pc' = "release"
     /\ UNCHANGED <<bmVars, waiting, running, age, localVars, pathVars>>

EmitToken(t) ==
  LET s == Head(cand)
      reason == IF ~IgnoreEos[s] /\ t = Eos THEN "stop"
                ELSE IF Len(tokens[s]) + 1 - Len(Prompt[s]) >= MaxTokens[s] THEN "length"
                ELSE status[s]
  IN /\ pc = "emit"
     /\ isPrefill => Ready(s) /\ MaxTokens[s] > 0
     /\ tokens' = [tokens EXCEPT ![s] = Append(@, t)]
     /\ UNCHANGED <<target, useVars, poolVars>>
     /\ status' = [status EXCEPT ![s] = reason]
     /\ IF reason \in FinishReasons THEN pc' = "release" /\ UNCHANGED cand
        ELSE pc' = "post" /\ cand' = Tail(cand)
     /\ UNCHANGED <<waiting, running, age, batch, batched, chunk, reserve, goal,
                    chunkEnd, pathVars>>

(* A finished sequence is deallocated and leaves the running queue.        *)
FinishRelease ==
  LET s == Head(cand)
  IN /\ pc = "release"
     /\ BM!Retire(s)
     /\ running' = RemoveFirst(running, s)
     /\ cand' = Tail(cand)
     /\ pc' = "post"
     /\ UNCHANGED <<waiting, status, age, batch, batched, chunk, reserve, goal,
                    chunkEnd, pathVars>>

(* The step returns; its local variables are gone.                         *)
StepReturns ==
  /\ pc = "post"
  /\ cand = << >>
  /\ pc' = "idle"
  /\ batch' = << >>
  /\ isPrefill' = FALSE
  /\ fallback' = FALSE
  /\ batched' = 0 /\ chunk' = 0 /\ reserve' = 0 /\ goal' = 0
  /\ UNCHANGED <<bmVars, queueVars, cand, chunkEnd, lastPrefill>>

-----------------------------------------------------------------------------

Init ==
  /\ BM!Init
  /\ waiting = << >> /\ running = << >>
  /\ status = [s \in Seqs |-> "new"]
  /\ age = [s \in Seqs |-> 0]
  /\ lastPrefill = FALSE /\ fallback = FALSE /\ isPrefill = FALSE
  /\ pc = "idle"
  /\ cand = << >> /\ batch = << >>
  /\ batched = 0 /\ chunk = 0 /\ reserve = 0 /\ goal = 0
  /\ chunkEnd = [s \in Seqs |-> 0]

(* schedule(), and postprocess(), turn by turn.                            *)
Scheduling ==
  \/ Schedule
  \/ Admit \/ AdmitMatch \/ AdmitAllocate
  \/ PrefillInit \/ PrefillVisit \/ PrepareMatch \/ PrepareEnsure \/ PrepareFails \/ PrefillDone
  \/ DecodeSkip \/ DecodeVisit \/ DecodeAppend \/ PreemptVictim \/ DecodeDone

Postprocessing ==
  \/ PostCommit
  \/ EmitNothing \/ EmitWarmed \/ (\E t \in Tokens : EmitToken(t))
  \/ FinishRelease
  \/ StepReturns

(* LLMEngine.step.                                                         *)
Step == Scheduling \/ Run \/ Postprocessing

(* What clients, operators and the clock do.                               *)
Environment ==
  \/ \E s \in Seqs : Abort(s) \/ Resubmit(s)
  \/ PurgePrefixCache
  \/ TimePasses

Next == Step \/ (\E s \in Seqs : Add(s)) \/ Environment

Spec == Init /\ [][Next]_vars

(* Whoever drives the engine (the loop of AsyncLLMEngine, or generate)     *)
(* calls step again while it is not finished.                              *)
FairSpec == Spec /\ WF_vars(Step)

-----------------------------------------------------------------------------
(* Properties                                                              *)

(* Every call the scheduler makes into the block manager respects the      *)
(* contract BlockManager.tla states for its callers, so all that is proved *)
(* there holds of the scheduler.                                           *)
ImplementsBlockManager == BM!Spec

(* What a request reports of its cache usage, on batches, chunks and       *)
(* blocks that end apart: no prompt token is billed twice.                 *)
UsageAddsUp == BM!UsageAddsUp

(* Between steps a request is in exactly the queue its status names, once, *)
(* and a request in no queue holds no block: nothing is lost or scheduled  *)
(* twice by preemption, abortion and completion.                           *)
QueuesMatchStatus ==
  pc = "idle" =>
    /\ Len(waiting) = Cardinality(ToSet(waiting))
    /\ Len(running) = Cardinality(ToSet(running))
    /\ ToSet(waiting) = {s \in Seqs : status[s] = "waiting"}
    /\ ToSet(running) = {s \in Seqs : status[s] = "running"}
    /\ \A s \in Seqs : table[s] # << >> => s \in ToSet(waiting) \cup ToSet(running)

(* The batch that reaches the model is within max_num_seqs and             *)
(* max_num_batched_tokens, holds each sequence once, and every sequence in *)
(* it is still running and has a block for each token it will read or      *)
(* write: no later decision of the same step took a block back from it.    *)
ScheduledEnd(s) == IF isPrefill THEN chunkEnd[s] ELSE Len(tokens[s])
BatchIsRunnable ==
  pc = "run" =>
    /\ Len(batch) = Cardinality(ToSet(batch))
    /\ Len(batch) <= MaxNumSeqs
    /\ isPrefill => batched <= MaxBatched
    /\ \A s \in ToSet(batch) :
         /\ status[s] = "running"
         /\ computed[s] < ScheduledEnd(s)
         /\ ScheduledEnd(s) <= Len(table[s]) * BlockSize

(* The slots the model writes in one run belong to one sequence each and   *)
(* are in no published block: a batch never writes where another request   *)
(* reads.                                                                  *)
WritesArePrivate ==
  pc = "run" =>
    \A s \in ToSet(batch) : \A p \in computed[s]+1..ScheduledEnd(s) :
      LET b == table[s][BM!NumBlocksFor(p)]
      IN  ref[b] = 1 /\ key[b] = NoKey

(* What can_allocate promised is there when ensure_blocks takes it, with   *)
(* another prefix lookup and another purge in between: the assertion in    *)
(* _evict_cached_block that some cached block is left never fails.         *)
PromisedBlocksAreThere ==
  LET fits(s, n) == BM!NumBlocksFor(n) - Len(table[s]) <= Cardinality(free \cup cached)
  IN  /\ pc = "ensure" => fits(Head(cand), goal)
      /\ pc = "append" => fits(Head(cand), Len(tokens[Head(cand)]))

(* While sequences decode, a prefill leaves kvcache_watermark_blocks for   *)
(* them: it never takes blocks that bring the pool below the watermark.    *)
PrefillKeepsWatermark ==
  [][pc = "ensure" /\ table' # table /\ HasDecodeWork => BM!AvailableBlocks' >= Watermark]_vars

(* prepare_prefill asserts that the target lies beyond the cached prefix.  *)
PrefillTargetBeyondPrefix == pc # "AssertionError"

(* The engine gives up with "no schedulable sequence; KV cache may be too  *)
(* small for one request" only if it is too small for some request.        *)
GivesUpOnlyIfTooSmall ==
  pc = "RuntimeError" =>
    \E s \in Seqs : ~Finished(s) /\
      BM!NumBlocksFor(Len(Prompt[s]) + MaxTokens[s]) > Cardinality(Blocks)

(* Every request that was accepted is finished in the end, whatever is     *)
(* preempted on the way, unless the assertion above ends the engine first. *)
EveryRequestFinishes ==
  \A s \in Seqs :
    status[s] \in {"waiting", "running"} ~> Finished(s) \/ ~PrefillTargetBeyondPrefix

(* A request that waits is admitted in the end, unless it does, although   *)
(* other requests come back for ever and may have a prefix in the cache.   *)
EveryRequestIsAdmitted ==
  \A s \in Seqs :
    status[s] = "waiting" ~> status[s] # "waiting" \/ ~PrefillTargetBeyondPrefix

=============================================================================
