--------------------------- MODULE LLMEngine_proofs ---------------------------
(***************************************************************************)
(* Theorems about Scheduler, for every policy, all limits and chunk sizes, *)
(* any set of requests and any pool of blocks; and about LLMEngine, which  *)
(* extends it by the key-value memory.                                     *)
(*                                                                         *)
(* The scheduler and the block manager lean on each other: that its calls  *)
(* respect the contract of BlockManager needs the scheduler's invariant,   *)
(* and that a sequence is still what the scheduler took it for needs the   *)
(* block manager's, which holds as long as the calls respect the contract. *)
(* The induction is therefore over both, Cache!IInv /\ IInv (Invariants).  *)
(*                                                                         *)
(* Of the engine: a request attends to its own prefix, and the prefix      *)
(* cache holds what its hashes say, for every batch, chunk, policy,        *)
(* eviction and preemption.  The rows of padding of a CUDA graph write the *)
(* first slot of Block0, so the theorems come twice: of all other slots,   *)
(* whatever is decoded, and of every slot, where no batch is padded.  A    *)
(* slot that counts as computed is either in a published block, of which   *)
(* PublishedHolds and the invariant of the block manager say what it       *)
(* holds, or in a block that the sequence alone has, to which only its own *)
(* rows are written.                                                       *)
(*                                                                         *)
(* Of the RuntimeError of schedule: nobody decodes when it is raised, and  *)
(* whoever runs is too large for what the others leave.                    *)
(***************************************************************************)
EXTENDS LLMEngine, Queues_proofs, TLAPS

(* The block manager with its theorems.                                    *)
Cache == INSTANCE BlockManager_proofs

-----------------------------------------------------------------------------
(***************************************************************************)
(* The scheduler: the inductive invariant                                  *)
(***************************************************************************)
Statuses == {"new", "waiting", "running"} \cup FinishReasons

(* The parts of a step pc can be in.                                       *)
AdmitPhase == {"idle", "admit", "match", "allocate", "prefill_init"}
PrefillPhase == {"prefill", "prepare", "ensure"}
DecodePhase == {"decode", "append", "preempt"}
RunPhase == {"run", "post", "emit", "release"}
Stopped == {"RuntimeError", "AssertionError"}

(* The scheduler's own variables; those of the block manager have their    *)
(* types in Cache!IInv.                                                    *)
TypeOK ==
  /\ waiting \in Seq(Seqs) /\ running \in Seq(Seqs)
  /\ cand \in Seq(Seqs) /\ batch \in Seq(Seqs)
  /\ status \in [Seqs -> Statuses]
  /\ age \in [Seqs -> Nat]
  /\ chunkEnd \in [Seqs -> Nat]
  /\ batched \in Nat /\ chunk \in Nat /\ reserve \in Nat /\ goal \in Nat
  /\ lastPrefill \in BOOLEAN /\ fallback \in BOOLEAN /\ isPrefill \in BOOLEAN
  /\ pc \in AdmitPhase \cup PrefillPhase \cup DecodePhase \cup RunPhase \cup Stopped

(* The sequence postprocess has in hand.                                   *)
InHand(s) == pc \in {"emit", "release"} /\ s = Head(cand)

(* A sequence has either part of its prompt (or, once preempted, of all    *)
(* its tokens) to compute, or just its last token.                         *)
AtPrefill(s) == computed[s] < target[s] /\ target[s] = Len(tokens[s])
(* All tokens but the last are computed. *)
AtDecode(s) ==
  target[s] <= computed[s] /\ computed[s] + 1 = Len(tokens[s]) /\ MaxTokens[s] > 0

(* Which of the two a sequence is in follows from its status; without      *)
(* status it holds no blocks.                                              *)
StagesInv ==
  \A s \in Seqs : ~InHand(s) =>
    /\ status[s] \in {"new", "waiting"} => AtPrefill(s)
    /\ status[s] = "running" => AtPrefill(s) \/ AtDecode(s)
    /\ status[s] \notin {"waiting", "running"} => table[s] = << >>

(* A sequence that goes on has a token left to generate.                   *)
GrowthInv ==
  \A s \in Seqs : ~Finished(s) /\ MaxTokens[s] > 0 =>
    Len(tokens[s]) < Len(Prompt[s]) + MaxTokens[s]

(* Each sequence is in the queue of its status, once. Postprocess sets the *)
(* status of a finished sequence before it takes it out of running.        *)
QueuesInv ==
  /\ IsInjective(waiting) /\ IsInjective(running)
  /\ \A s \in Seqs : s \in ToSet(waiting) <=> status[s] = "waiting"
  /\ \A s \in Seqs : s \in ToSet(running) <=>
       status[s] = "running" \/ (pc = "release" /\ s = Head(cand))
  /\ pc = "allocate" => waiting # << >>

(* The batch holds no sequence twice, and is empty until a sequence is     *)
(* visited.                                                                *)
BatchInv ==
  /\ IsInjective(batch) /\ Len(batch) <= MaxNumSeqs
  /\ pc \in AdmitPhase => batch = << >>

(* What a member of a prefill batch brings to the model.                   *)
PrefillReady(s) ==
  /\ status[s] = "running" /\ AtPrefill(s)
  /\ computed[s] < chunkEnd[s] /\ chunkEnd[s] <= target[s]
  /\ chunkEnd[s] <= Len(table[s]) * BlockSize

(* What a member of a decode batch brings to the model.                    *)
DecodeReady(s) ==
  /\ status[s] = "running" /\ AtDecode(s)
  /\ Len(tokens[s]) <= Len(table[s]) * BlockSize

(* What can_allocate answers: s can hold n tokens and leaves r blocks.     *)
Fits(s, n, r) ==
  \/ BM!NumBlocksFor(n) <= Len(table[s])
  \/ BM!NumBlocksFor(n) - Len(table[s]) <= BM!AvailableBlocks - r

(* A loop over the sequences has those still to visit in cand, and none of *)
(* them is in the batch yet.                                               *)
VisitInv ==
  pc \in PrefillPhase \cup DecodePhase =>
    /\ IsInjective(cand) /\ ToSet(cand) \cap ToSet(batch) = {}
    /\ pc \notin {"prefill", "decode"} => cand # << >> /\ Len(batch) < MaxNumSeqs

(* What _schedule_prefill knows of its candidates, its batch and, once     *)
(* can_allocate has agreed, of the chunk in hand: this is what the second  *)
(* lookup in prepare_prefill must not take away.                           *)
PrefillInv ==
  pc \in PrefillPhase =>
    /\ \A s \in ToSet(cand) : status[s] = "running" /\ AtPrefill(s)
    /\ \A s \in ToSet(batch) : PrefillReady(s)
    /\ batched <= MaxBatched
    /\ HasDecodeWork => reserve = Watermark
    /\ pc # "prefill" =>
         /\ goal <= target[Head(cand)]
         /\ batched + (goal - computed[Head(cand)]) <= MaxBatched
         /\ Fits(Head(cand), goal, reserve)

(* What _schedule_decode knows: a preemption takes nobody from the batch,  *)
(* and what was found to fit fits until the blocks are taken.              *)
DecodeInv ==
  pc \in DecodePhase =>
    /\ \A s \in ToSet(cand) : status[s] \in {"waiting", "running"}
    /\ \A s \in ToSet(batch) : DecodeReady(s)
    /\ pc # "decode" => Ready(Head(cand))
    /\ pc = "append" => Fits(Head(cand), Len(tokens[Head(cand)]), 0)

(* The members of the batch that postprocess has still to visit.           *)
Todo == IF pc \in {"emit", "release"} THEN Tail(cand) ELSE cand

(* What the model and postprocess may rely on for the members still to     *)
(* visit.                                                                  *)
RunInv ==
  pc \in RunPhase =>
    /\ IsInjective(cand)
    /\ \A s \in ToSet(Todo) : IF isPrefill THEN PrefillReady(s) ELSE DecodeReady(s)
    /\ pc = "run" => cand = batch /\ batch # << >> /\ (isPrefill => batched <= MaxBatched)
    /\ pc \in {"emit", "release"} => cand # << >>

(* What postprocess knows of the member in hand after its commit, and      *)
(* after its last token.                                                   *)
EmitInv ==
  /\ pc = "emit" =>
       LET s == Head(cand)
       IN  /\ status[s] = "running"
           /\ isPrefill => target[s] = Len(tokens[s]) /\ computed[s] <= target[s]
           /\ ~isPrefill => target[s] <= computed[s] /\ computed[s] = Len(tokens[s]) /\ MaxTokens[s] > 0
  /\ pc = "release" => Finished(Head(cand))

(* None of the parts is inductive alone, and all need the invariant of the *)
(* block manager, Cache!IInv.                                              *)
IInv ==
  /\ TypeOK
  /\ StagesInv
  /\ GrowthInv
  /\ QueuesInv
  /\ BatchInv
  /\ VisitInv
  /\ PrefillInv
  /\ DecodeInv
  /\ RunInv
  /\ EmitInv

-----------------------------------------------------------------------------
(* The block manager's theorems, for the scheduler's constants             *)

(* What BlockManager.tla assumes of its constants.                         *)
LEMMA CacheAssumptions ==
  /\ BlockSize \in Nat \ {0}
  /\ Cache!IsFiniteSet(Seqs) /\ Cache!IsFiniteSet(Blocks)
  /\ NoKey \notin Cache!Keys
  /\ Prompt \in [Seqs -> Seq(Tokens) \ {<< >>}]
  /\ MaxTokens \in [Seqs -> Nat]
  /\ Namespace \in [Seqs -> Namespaces]
  /\ CacheEnabled \in [Seqs -> BOOLEAN]
  /\ Breakpoints \in [Seqs -> SUBSET Nat]
  /\ HasTTL \in [Seqs -> BOOLEAN]
  /\ EnablePrefixCache \in BOOLEAN
  /\ MinTokens \in Nat
  /\ MaxCached \in Nat
  /\ MaxCachedPerNs \in Nat
<1>1. Cache!IsFiniteSet(Seqs) /\ Cache!IsFiniteSet(Blocks)
  BY SetAssumption DEF Cache!IsFiniteSet, IsFiniteSet
<1>2. NoKey \notin Cache!Keys
  BY NoKeyAssumption DEF Cache!Keys
<1>3. QED
  BY <1>1, <1>2, SizeAssumption, RequestAssumption, CacheConfigAssumption

(* Its inductive invariant.                                                *)
LEMMA CacheKeeps == Cache!IInv /\ [Cache!Next]_Cache!vars => Cache!IInv'
BY CacheAssumptions, Cache!NextKeepsIInv, Zenon

(* BM and Cache are two instances of one module: the definitions the       *)
(* provers see through BM equal those the theorems are about.              *)
LEMMA SameBlocks == ASSUME NEW n PROVE BM!NumBlocksFor(n) = Cache!NumBlocksFor(n)
BY DEF BM!NumBlocksFor, Cache!NumBlocksFor

(* The same of available_blocks.                                           *)
LEMMA SameAvailable ==
  /\ BM!AvailableBlocks = Cache!AvailableBlocks
  /\ BM!AvailableBlocks' = Cache!AvailableBlocks'
BY DEF BM!AvailableBlocks, Cache!AvailableBlocks, BM!Cardinality, Cache!Cardinality

(* The same of a purge of the blocks in Q.                                 *)
LEMMA SamePurge == ASSUME NEW Q PROVE BM!Purge(Q) <=> Cache!Purge(Q)
BY DEF BM!Purge, Cache!Purge, BM!OlderAmong, Cache!OlderAmong, BM!KeyWithout, Cache!KeyWithout,
       BM!ExpiryWithout, Cache!ExpiryWithout, BM!HashWithout, Cache!HashWithout,
       BM!useVars, Cache!useVars

(* The same of match_cached_prefix.                                        *)
LEMMA SameMatch == ASSUME NEW s PROVE BM!Match(s) <=> Cache!Match(s)
BY DEF BM!Match, Cache!Match, BM!MatchCachedPrefix, Cache!MatchCachedPrefix,
       BM!OlderAmong, Cache!OlderAmong, BM!KeyWithout, Cache!KeyWithout,
       BM!ExpiryWithout, Cache!ExpiryWithout, BM!HashWithout, Cache!HashWithout,
       BM!Expired, Cache!Expired, BM!CacheOn, Cache!CacheOn, BM!Reusable, Cache!Reusable,
       BM!Cacheable, Cache!Cacheable, BM!Key, Cache!Key, BM!PromptTokensIn, Cache!PromptTokensIn,
       BM!NumBlocksFor, Cache!NumBlocksFor, BM!Cardinality, Cache!Cardinality,
       BM!RefWith, Cache!RefWith, BM!Deadline, Cache!Deadline, BM!seqVars, Cache!seqVars,
       BM!bmVars, Cache!bmVars, BM!useVars, Cache!useVars, BM!poolVars, Cache!poolVars

(* The same of ensure_blocks.                                              *)
LEMMA SameEnsure == ASSUME NEW s, NEW t PROVE BM!EnsureBlocks(s, t) <=> Cache!EnsureBlocks(s, t)
BY DEF BM!EnsureBlocks, Cache!EnsureBlocks, BM!Takings, Cache!Takings,
       BM!OlderAmong, Cache!OlderAmong, BM!KeyWithout, Cache!KeyWithout,
       BM!ExpiryWithout, Cache!ExpiryWithout, BM!HashWithout, Cache!HashWithout,
       BM!Expired, Cache!Expired,
       BM!NumBlocksFor, Cache!NumBlocksFor, BM!Cardinality, Cache!Cardinality,
       BM!bmVars, Cache!bmVars, BM!useVars, Cache!useVars, BM!poolVars, Cache!poolVars

(* The same of commit_computed_tokens.                                     *)
LEMMA SameCommit == ASSUME NEW s, NEW u PROVE BM!Commit(s, u) <=> Cache!Commit(s, u)
BY DEF BM!Commit, Cache!Commit, BM!Fresh, Cache!Fresh, BM!FullBlocks, Cache!FullBlocks,
       BM!CacheOn, Cache!CacheOn, BM!Cacheable, Cache!Cacheable, BM!Key, Cache!Key,
       BM!PromptTokensIn, Cache!PromptTokensIn,
       BM!NumBlocksFor, Cache!NumBlocksFor, BM!Cardinality, Cache!Cardinality,
       BM!Deadline, Cache!Deadline

(* The same of deallocate.                                                 *)
LEMMA SameDeallocate == ASSUME NEW s PROVE BM!Deallocate(s) <=> Cache!Deallocate(s)
BY DEF BM!Deallocate, Cache!Deallocate, BM!BlocksOf, Cache!BlocksOf,
       BM!Youngest, Cache!Youngest, BM!NamespaceOf, Cache!NamespaceOf,
       BM!KeyWithout, Cache!KeyWithout, BM!ExpiryWithout, Cache!ExpiryWithout,
       BM!HashWithout, Cache!HashWithout, BM!Cardinality, Cache!Cardinality

(* The same of a deadline that passes.                                     *)
LEMMA SameExpire == ASSUME NEW b PROVE BM!Expire(b) <=> Cache!Expire(b)
BY DEF BM!Expire, Cache!Expire, BM!seqVars, Cache!seqVars, BM!useVars, Cache!useVars

(* The same of a request that comes again.                                 *)
LEMMA SameRenew == ASSUME NEW b PROVE BM!Renew(b) <=> Cache!Renew(b)
BY DEF BM!Renew, Cache!Renew, BM!bmVars, Cache!bmVars, BM!useVars, Cache!useVars, BM!poolVars, Cache!poolVars

(* The same of the purges from outside.                                    *)
LEMMA SamePurgeAction == BM!PurgeAction <=> Cache!PurgeAction
BY SamePurge DEF BM!PurgeAction, Cache!PurgeAction, BM!seqVars, Cache!seqVars,
  BM!PurgeExpired, Cache!PurgeExpired, BM!PurgeCachedBlocks, Cache!PurgeCachedBlocks,
  BM!PurgeExpiredCachedBlocks, Cache!PurgeExpiredCachedBlocks, BM!Expired, Cache!Expired, BM!NamespaceOf, Cache!NamespaceOf

-----------------------------------------------------------------------------
(* What a call into the block manager gives the scheduler                  *)

(* The types of what the scheduler reads of the sequences.                 *)
SeqFacts ==
  /\ tokens \in [Seqs -> Seq(Tokens)] /\ target \in [Seqs -> Nat]
  /\ computed \in [Seqs -> Nat] /\ table \in [Seqs -> Seq(Blocks)]
  /\ \A s \in Seqs :
       /\ Len(tokens[s]) \in Nat /\ Len(table[s]) \in Nat
       /\ target[s] <= Len(tokens[s])
       /\ computed[s] <= Len(tokens[s])
       /\ computed[s] <= Len(table[s]) * BlockSize
       /\ table[s] = << >> => computed[s] = 0
  /\ BM!AvailableBlocks \in Nat

(* These follow from the block manager's invariant.                        *)
LEMMA CacheGives == Cache!IInv => SeqFacts
<1> SUFFICES ASSUME Cache!IInv PROVE SeqFacts
  OBVIOUS
<1>1. /\ tokens \in [Seqs -> Seq(Tokens)] /\ target \in [Seqs -> Nat]
      /\ computed \in [Seqs -> Nat] /\ table \in [Seqs -> Seq(Blocks)]
  BY DEF Cache!IInv, Cache!TypeOK
<1>2. ASSUME NEW s \in Seqs
      PROVE  /\ target[s] <= Len(tokens[s]) /\ computed[s] <= Len(tokens[s])
             /\ computed[s] <= Len(table[s]) * BlockSize
  BY DEF Cache!IInv, Cache!TargetWithin, Cache!PrefixIntegrity
<1>3. ASSUME NEW s \in Seqs
      PROVE  Len(tokens[s]) \in Nat /\ Len(table[s]) \in Nat
  BY <1>1, LenProperties
<1>4. ASSUME NEW s \in Seqs, table[s] = << >>
      PROVE  computed[s] = 0
  <2>1. Len(table[s]) = 0
    BY <1>4
  <2> QED
    BY <1>1, <1>2, <2>1, SizeAssumption
<1>5. BM!AvailableBlocks \in Nat
  <2>1. Cache!IdleCounted
    BY CacheAssumptions, Cache!AvailableIsIdle
  <2>2. Cache!AvailableBlocks \in Nat
    BY <2>1 DEF Cache!IdleCounted
  <2> QED
    BY <2>2, SameAvailable
<1>6. QED
  BY <1>1, <1>2, <1>3, <1>4, <1>5 DEF SeqFacts

(* A call made for s leaves the other sequences alone.                     *)
Others(s) ==
  \A u \in Seqs : u # s => table'[u] = table[u] /\ computed'[u] = computed[u]

(* A purge changes neither a sequence nor the number of blocks available.  *)
LEMMA PurgeCall ==
  ASSUME Cache!IInv, Cache!IInv', BM!PurgeExpired
  PROVE  /\ UNCHANGED <<computed, table>>
         /\ BM!AvailableBlocks' = BM!AvailableBlocks
<1>1. Cache!Purge(Cache!Expired) /\ Cache!Expired \in SUBSET cached
  BY SamePurge DEF BM!PurgeExpired, BM!Expired, Cache!Expired
<1>2. Cache!AvailableBlocks' = Cache!AvailableBlocks
  BY <1>1, CacheAssumptions, Cache!PurgeGives
<1>3. QED
  BY <1>2, SameAvailable DEF BM!PurgeExpired, BM!Purge, BM!useVars

(* A lookup does not reach the target, and attaches at least as many       *)
(* blocks as it takes from the available ones: what fitted before it fits  *)
(* after it.                                                               *)
LEMMA MatchCall ==
  ASSUME Cache!IInv, Cache!IInv', NEW s \in Seqs, BM!Match(s), computed[s] < target[s]
  PROVE  /\ UNCHANGED <<tokens, target>> /\ Others(s)
         /\ computed[s] <= computed'[s] /\ computed'[s] < target[s]
         /\ Len(table'[s]) >= Len(table[s])
         /\ BM!AvailableBlocks' + Len(table'[s]) >= BM!AvailableBlocks + Len(table[s])
<1>1. UNCHANGED <<tokens, target>>
  BY DEF BM!Match, BM!seqVars
<1>2. /\ Others(s) /\ computed[s] <= computed'[s] /\ computed'[s] < target[s]
      /\ BM!AvailableBlocks' + Len(table'[s]) >= BM!AvailableBlocks + Len(table[s])
  BY SameMatch, SameAvailable, CacheAssumptions, Cache!MatchGives DEF Others, Cache!OthersUntouched
<1>3. Len(table'[s]) >= Len(table[s])
  <2>1. SeqFacts /\ SeqFacts'
    BY CacheGives, PTL
  <2>2. CASE table[s] # << >>
    BY <2>1, <2>2 DEF BM!Match, BM!MatchCachedPrefix, BM!bmVars, BM!useVars, SeqFacts
  <2>3. CASE table[s] = << >>
    BY <2>1, <2>3 DEF SeqFacts
  <2> QED
    BY <2>2, <2>3
<1>4. QED
  BY <1>1, <1>2, <1>3

(* ensure_blocks makes room for t tokens out of the available blocks.      *)
LEMMA EnsureCall ==
  ASSUME Cache!IInv, Cache!IInv', NEW s \in Seqs, NEW t \in Nat, BM!EnsureBlocks(s, t)
  PROVE  /\ Others(s) /\ computed' = computed
         /\ t <= Len(table'[s]) * BlockSize
         /\ table' # table =>
              /\ BM!NumBlocksFor(t) > Len(table[s])
              /\ BM!AvailableBlocks' =
                   BM!AvailableBlocks - (BM!NumBlocksFor(t) - Len(table[s]))
<1>1. Cache!EnsureBlocks(s, t)
  BY SameEnsure
<1>2. /\ Others(s) /\ computed' = computed
      /\ Cache!NumBlocksFor(t) <= Len(table'[s])
      /\ table' # table =>
           /\ Cache!NumBlocksFor(t) > Len(table[s])
           /\ Cache!AvailableBlocks' =
                Cache!AvailableBlocks - (Cache!NumBlocksFor(t) - Len(table[s]))
  BY <1>1, CacheAssumptions, Cache!EnsureGives DEF Others, Cache!OthersUntouched
<1>3. Len(table'[s]) \in Nat
  <2>1. SeqFacts'
    BY CacheGives, PTL
  <2> QED
    BY <2>1 DEF SeqFacts
<1>4. t <= Len(table'[s]) * BlockSize
  BY <1>2, <1>3, CacheAssumptions, Cache!RoomFor
<1>5. QED
  BY <1>2, <1>4, SameBlocks, SameAvailable

(* deallocate leaves its sequence empty.                                   *)
LEMMA ReleaseCall ==
  ASSUME Cache!IInv, NEW s \in Seqs, BM!Deallocate(s)
  PROVE  Others(s) /\ table'[s] = << >> /\ computed'[s] = 0
<1>1. Cache!Deallocate(s) /\ Cache!TypeOK
  BY SameDeallocate DEF Cache!IInv
<1>2. QED
  BY <1>1, CacheAssumptions, Cache!DeallocateGives DEF Others, Cache!OthersUntouched

-----------------------------------------------------------------------------
(* Every call is allowed                                                   *)

(* The two instances of the block manager take the same steps.             *)
LEMMA SameNext ==
  /\ BM!Init <=> Cache!Init
  /\ BM!Next <=> Cache!Next
  /\ BM!vars = Cache!vars /\ BM!vars' = Cache!vars'
<1>1. BM!Init <=> Cache!Init
  BY DEF BM!Init, Cache!Init
<1>2. BM!vars = Cache!vars /\ BM!vars' = Cache!vars'
  BY DEF BM!vars, Cache!vars, BM!seqVars, Cache!seqVars, BM!useVars, Cache!useVars,
         BM!poolVars, Cache!poolVars
<1>3. ASSUME NEW s \in Seqs
      PROVE  /\ BM!Match(s) <=> Cache!Match(s)
             /\ BM!Retire(s) <=> Cache!Retire(s)
             /\ BM!Preempt(s) <=> Cache!Preempt(s)
             /\ BM!Renew(s) <=> Cache!Renew(s)
  BY SameMatch, SameDeallocate, SameRenew
  DEF BM!Retire, Cache!Retire, BM!Preempt, Cache!Preempt, BM!seqVars, Cache!seqVars
<1>4. ASSUME NEW s \in Seqs, NEW n
      PROVE  /\ BM!Ensure(s, n) <=> Cache!Ensure(s, n)
             /\ BM!Compute(s, n) <=> Cache!Compute(s, n)
  BY SameEnsure, SameCommit
  DEF BM!Ensure, Cache!Ensure, BM!Compute, Cache!Compute, BM!seqVars, Cache!seqVars
<1>5. ASSUME NEW s \in Seqs, NEW t
      PROVE  BM!AppendToken(s, t) <=> Cache!AppendToken(s, t)
  BY DEF BM!AppendToken, Cache!AppendToken, BM!bmVars, Cache!bmVars, BM!useVars, Cache!useVars,
         BM!poolVars, Cache!poolVars
<1>6. BM!Next <=> Cache!Next
  BY <1>3, <1>4, <1>5, SamePurgeAction, SameExpire, Zenon DEF BM!Next, Cache!Next
<1>7. QED
  BY <1>1, <1>2, <1>6

(* The sequence a decode turn allocates for runs, and is one token short.  *)
LEMMA DecodeHead ==
  ASSUME SeqFacts, IInv, pc \in {"append", "preempt"}
  PROVE  /\ Head(cand) \in Seqs /\ Head(cand) \in ToSet(cand) /\ Head(cand) \notin ToSet(batch)
         /\ status[Head(cand)] = "running" /\ AtDecode(Head(cand))
<1> DEFINE s == Head(cand)
<1>1. s \in Seqs /\ s \in ToSet(cand) /\ s \notin ToSet(batch)
  BY TailOfDistinct DEF IInv, TypeOK, VisitInv, DecodePhase
<1>2. status[s] \in {"waiting", "running"} /\ Ready(s) /\ ~InHand(s)
  BY <1>1 DEF IInv, DecodeInv, DecodePhase, InHand
<1>3. ~AtPrefill(s)
  BY <1>1, <1>2 DEF Ready, AtPrefill, SeqFacts
<1>4. QED
  BY <1>1, <1>2, <1>3 DEF IInv, StagesInv

(* The victim of a preemption runs and is not in the batch.                *)
LEMMA VictimFacts ==
  ASSUME SeqFacts, IInv, pc = "preempt"
  PROVE  /\ Victim(Head(cand)) \in Seqs
         /\ status[Victim(Head(cand))] = "running"
         /\ Victim(Head(cand)) \notin ToSet(batch)
<1> DEFINE s == Head(cand)
           test(t) == t # s /\ t \notin ToSet(batch)
           I == {i \in 1..Len(running) : test(running[i])}
<1>1. /\ cand \in Seq(Seqs) /\ cand # << >> /\ IsInjective(cand)
      /\ ToSet(cand) \cap ToSet(batch) = {}
      /\ running \in Seq(Seqs)
  BY DEF IInv, TypeOK, VisitInv, DecodePhase
<1>2. s \in Seqs /\ s \in ToSet(cand)
  BY <1>1, TailOfDistinct
<1>3. status[s] = "running"
  BY DecodeHead
<1>4. CASE I = {}
  <2>1. Victim(s) = s
    BY <1>4 DEF Victim, SelectLastInSeq
  <2> QED
    BY <1>1, <1>2, <1>3, <2>1
<1>5. CASE I # {}
  <2>1. Len(running) \in Nat /\ I \in SUBSET (1..Len(running))
    BY <1>1, MembersOf
  <2>2. Max(I) \in I
    BY <1>5, <2>1, LastPlace
  <2>3. Victim(s) = running[Max(I)]
    BY <1>5, <2>1, <2>2 DEF Victim, SelectLastInSeq
  <2>4. Victim(s) \in ToSet(running) /\ Victim(s) \in Seqs /\ Victim(s) \notin ToSet(batch)
    <3>1. Max(I) \in 1..Len(running) /\ running[Max(I)] \notin ToSet(batch)
      BY <2>2
    <3>2. /\ ToSet(running) \subseteq Seqs
          /\ \A x : x \in ToSet(running) <=> \E i \in 1..Len(running) : running[i] = x
      BY <1>1, MembersOf
    <3> QED
      BY <2>3, <3>1, <3>2
  <2> QED
    BY <2>4 DEF IInv, QueuesInv
<1>6. QED
  BY <1>4, <1>5

(* The calls of the scheduler, but for the commit of postprocess.          *)
OtherCall ==
  \/ \E s \in Seqs :
       \/ BM!Match(s)
       \/ \E n \in 1..Len(tokens[s]) : BM!Ensure(s, n)
       \/ \E t \in Tokens : BM!AppendToken(s, t)
       \/ BM!Retire(s)
       \/ BM!Preempt(s)
       \/ BM!Renew(s)
  \/ BM!PurgeAction
  \/ \E b \in Blocks : BM!Expire(b)

(* Every step of the scheduler but the commit of postprocess makes one of  *)
(* these calls, or none; what Ensure and AppendToken ask of their callers  *)
(* holds.                                                                  *)
LEMMA OtherCalls ==
  ASSUME SeqFacts, IInv, [Next]_vars, ~PostCommit
  PROVE  OtherCall \/ UNCHANGED bmVars
<1>1. /\ waiting \in Seq(Seqs) /\ cand \in Seq(Seqs)
      /\ \A s \in Seqs : Len(tokens[s]) \in Nat /\ computed[s] \in Nat /\ target[s] \in Nat
      /\ goal \in Nat /\ chunkEnd \in [Seqs -> Nat]
  BY DEF IInv, TypeOK, SeqFacts
<1>2. CASE UNCHANGED bmVars
  BY <1>2
<1>3. ASSUME NEW s \in Seqs, BM!Retire(s) \/ BM!Renew(s) \/ BM!Match(s) \/ BM!Preempt(s)
      PROVE  OtherCall
  BY <1>3 DEF OtherCall
<1>4. ASSUME BM!PurgeExpired, UNCHANGED seqVars
      PROVE  OtherCall
  BY <1>4 DEF OtherCall, BM!PurgeAction, seqVars, BM!seqVars
<1>5. ASSUME NEW s \in Seqs, NEW n \in 1..Len(tokens[s]), BM!EnsureBlocks(s, n), UNCHANGED seqVars
      PROVE  OtherCall
  <2>1. BM!Ensure(s, n)
    BY <1>1, <1>5 DEF BM!Ensure, seqVars, BM!seqVars
  <2> QED
    BY <2>1 DEF OtherCall
<1>6. ASSUME NEW s \in Seqs, Abort(s) \/ Resubmit(s) \/ Add(s)
      PROVE  OtherCall \/ UNCHANGED bmVars
  BY <1>2, <1>3, <1>6 DEF Abort, Resubmit, Add
<1>7. CASE PurgePrefixCache \/ TimePasses
  BY <1>7 DEF PurgePrefixCache, TimePasses, OtherCall
<1>8. CASE AdmitMatch
  <2>1. CASE waiting # << >> /\ Len(running) < MaxNumSeqs
    <3>1. Head(waiting) \in Seqs
      BY <1>1, <2>1, TailOfDistinct DEF IInv, QueuesInv
    <3> QED
      BY <1>3, <1>8, <2>1, <3>1 DEF AdmitMatch
  <2> QED
    BY <1>2, <1>8, <2>1 DEF AdmitMatch
<1>9. CASE AdmitAllocate \/ PrefillVisit \/ DecodeVisit
  BY <1>4, <1>9 DEF AdmitAllocate, PrefillVisit, DecodeVisit
<1>10. CASE PrepareMatch \/ PrepareEnsure \/ DecodeAppend
  <2> DEFINE s == Head(cand)
  <2>1. s \in Seqs /\ s \in ToSet(cand)
    BY <1>1, <1>10, TailOfDistinct
    DEF IInv, VisitInv, PrefillPhase, DecodePhase, PrepareMatch, PrepareEnsure, DecodeAppend
  <2>2. CASE PrepareMatch
    BY <1>3, <2>1, <2>2 DEF PrepareMatch
  <2>3. CASE PrepareEnsure
    <3>1. goal <= target[s] /\ target[s] <= Len(tokens[s]) /\ goal > computed[s]
      BY <2>1, <2>3 DEF PrepareEnsure, TargetBeyondPrefix, IInv, PrefillInv, PrefillPhase, SeqFacts
    <3>2. goal \in 1..Len(tokens[s])
      BY <1>1, <2>1, <3>1
    <3> QED
      BY <1>5, <2>1, <2>3, <3>2 DEF PrepareEnsure
  <2>4. CASE DecodeAppend
    <3>1. computed[s] + 1 = Len(tokens[s])
      BY <2>4, DecodeHead DEF DecodeAppend, AtDecode
    <3>2. Len(tokens[s]) \in 1..Len(tokens[s])
      BY <1>1, <2>1, <3>1
    <3> QED
      BY <1>5, <2>1, <2>4, <3>2 DEF DecodeAppend
  <2> QED
    BY <1>10, <2>2, <2>3, <2>4
<1>11. CASE PreemptVictim
  BY <1>3, <1>11, VictimFacts DEF PreemptVictim
<1>13. ASSUME NEW t \in Tokens, EmitToken(t)
       PROVE  OtherCall
  <2> DEFINE s == Head(cand)
  <2>1. /\ pc = "emit" /\ cand # << >> /\ IsInjective(cand)
        /\ isPrefill => Ready(s) /\ MaxTokens[s] > 0
        /\ tokens' = [tokens EXCEPT ![s] = Append(@, t)]
        /\ UNCHANGED <<target, useVars, poolVars>>
    BY <1>13 DEF EmitToken, IInv, RunInv, RunPhase
  <2>2. s \in Seqs
    BY <1>1, <2>1, TailOfDistinct
  <2>3. computed[s] = Len(tokens[s]) /\ status[s] = "running" /\ MaxTokens[s] > 0
    BY <1>1, <2>1, <2>2 DEF IInv, EmitInv, Ready
  <2>4. Len(tokens[s]) < Len(Prompt[s]) + MaxTokens[s]
    BY <2>2, <2>3 DEF IInv, GrowthInv, Finished, FinishReasons
  <2>5. BM!AppendToken(s, t)
    BY <2>1, <2>3, <2>4
    DEF BM!AppendToken, BM!bmVars, useVars, poolVars, BM!useVars, BM!poolVars
  <2> QED
    BY <2>2, <2>5 DEF OtherCall
<1>14. CASE FinishRelease
  <2>1. Head(cand) \in Seqs
    BY <1>1, <1>14, TailOfDistinct DEF FinishRelease, IInv, RunInv, RunPhase
  <2> QED
    BY <1>3, <1>14, <2>1 DEF FinishRelease
<1>15. CASE \/ Schedule \/ Admit \/ PrefillInit \/ PrepareFails \/ PrefillDone \/ DecodeSkip
            \/ DecodeDone \/ Run \/ EmitNothing \/ EmitWarmed \/ StepReturns
  BY <1>2, <1>15
  DEF Schedule, Admit, PrefillInit, PrepareFails, PrefillDone, DecodeSkip, DecodeDone, Run,
      EmitNothing, EmitWarmed, StepReturns
<1>16. CASE UNCHANGED vars
  BY <1>2, <1>16 DEF vars
<1>17. QED
  BY <1>6, <1>7, <1>8, <1>9, <1>10, <1>11, <1>13, <1>14, <1>15, <1>16
  DEF Next, Step, Scheduling, Postprocessing, Environment

(* The commit of postprocess counts what the batch has computed, in blocks *)
(* that are there: all that Compute asks of its caller.                    *)
LEMMA CommitIsAllowed ==
  ASSUME SeqFacts, IInv, PostCommit
  PROVE  /\ Head(cand) \in Seqs /\ Head(cand) \in ToSet(cand)
         /\ isPrefill => PrefillReady(Head(cand))
         /\ ~isPrefill => DecodeReady(Head(cand))
         /\ CommitTo(Head(cand)) \in 1..Len(tokens[Head(cand)])
         /\ BM!Compute(Head(cand), CommitTo(Head(cand)))
<1>1. /\ waiting \in Seq(Seqs) /\ cand \in Seq(Seqs)
      /\ \A s \in Seqs : Len(tokens[s]) \in Nat /\ computed[s] \in Nat /\ target[s] \in Nat
      /\ goal \in Nat /\ chunkEnd \in [Seqs -> Nat]
  BY DEF IInv, TypeOK, SeqFacts
<1> DEFINE s == Head(cand)
           u == CommitTo(s)
<1>2. pc = "post" /\ cand # << >> /\ BM!Commit(s, u) /\ UNCHANGED seqVars
  BY DEF PostCommit
<1>3. s \in Seqs /\ s \in ToSet(cand)
  BY <1>1, <1>2, TailOfDistinct DEF IInv, RunInv, RunPhase
<1>4. /\ isPrefill => PrefillReady(s)
      /\ ~isPrefill => DecodeReady(s)
  BY <1>2, <1>3 DEF IInv, RunInv, RunPhase, Todo
<1>5. /\ u \in Nat /\ computed[s] <= u /\ u <= Len(tokens[s]) /\ u <= Len(table[s]) * BlockSize
      /\ u >= 1
  <2>1. CASE isPrefill
    BY <1>1, <1>3, <1>4, <2>1 DEF PrefillReady, AtPrefill, CommitTo
  <2>2. CASE ~isPrefill
    BY <1>1, <1>3, <1>4, <2>2 DEF DecodeReady, AtDecode, CommitTo, MaxOf
  <2> QED
    BY <2>1, <2>2
<1>6. BM!Compute(s, u) /\ u \in 1..Len(tokens[s])
  BY <1>1, <1>2, <1>3, <1>5 DEF BM!Compute, seqVars, BM!seqVars
<1> QED
  BY <1>3, <1>4, <1>6

(* What Ensure, Compute, AppendToken, Preempt and Retire of BlockManager   *)
(* ask of their callers holds wherever the scheduler calls them.           *)
LEMMA EveryCallIsAllowed ==
  ASSUME SeqFacts, IInv, [Next]_vars
  PROVE  [BM!Next]_BM!vars
<1>1. CASE UNCHANGED bmVars
  BY <1>1 DEF BM!vars, bmVars, seqVars, useVars, poolVars, BM!seqVars, BM!useVars, BM!poolVars
<1>2. CASE OtherCall
  BY <1>2 DEF OtherCall, BM!Next
<1>3. CASE PostCommit
  BY <1>3, CommitIsAllowed DEF BM!Next
<1>4. QED
  BY <1>1, <1>2, <1>3, OtherCalls

-----------------------------------------------------------------------------
(* The turns that leave queues and sequences alone                         *)

(* They keep the three parts that are about queues and sequences. *)
LEMMA Quiet ==
  ASSUME IInv, UNCHANGED <<tokens, target, computed, table, status, waiting, running>>,
         pc \notin {"emit", "release"}, pc' \notin {"emit", "release", "allocate"}
  PROVE  StagesInv' /\ GrowthInv' /\ QueuesInv'
<1>1. StagesInv'
  BY DEF IInv, StagesInv, InHand, AtPrefill, AtDecode
<1>2. GrowthInv'
  BY DEF IInv, GrowthInv, Finished
<1>3. QueuesInv'
  BY DEF IInv, QueuesInv
<1>4. QED
  BY <1>1, <1>2, <1>3

(* Nothing the invariant speaks of changes but the past.                   *)
LEMMA TimePassesKeeps ==
  ASSUME SeqFacts, IInv,
         UNCHANGED <<tokens, target, computed, table, free, cached, queueVars, localVars,
                     pathVars, pc>>
  PROVE  IInv'
<1> USE DEF queueVars, localVars, pathVars
<1>1. TypeOK'
  BY DEF IInv, TypeOK
<1>2. StagesInv' /\ GrowthInv'
  BY DEF IInv, StagesInv, GrowthInv, InHand, AtPrefill, AtDecode, Finished
<1>3. QueuesInv' /\ BatchInv' /\ VisitInv'
  BY DEF IInv, QueuesInv, BatchInv, VisitInv
<1>4. /\ BM!AvailableBlocks' = BM!AvailableBlocks
      /\ \A s, n, r : Fits(s, n, r)' = Fits(s, n, r)
  BY DEF BM!AvailableBlocks, Fits, BM!NumBlocksFor
<1>5. PrefillInv'
  BY <1>4 DEF IInv, PrefillInv, PrefillReady, AtPrefill, HasDecodeWork, Ready, Fits, BM!NumBlocksFor
<1>6. DecodeInv'
  BY <1>4 DEF IInv, DecodeInv, DecodeReady, AtDecode, Ready, Fits, BM!NumBlocksFor
<1>7. RunInv' /\ EmitInv'
  BY DEF IInv, RunInv, EmitInv, Todo, PrefillReady, DecodeReady, AtPrefill, AtDecode, Finished
<1>8. QED
  BY <1>1, <1>2, <1>3, <1>5, <1>6, <1>7 DEF IInv

(* A step begins with the two purges and the choice between prefill and    *)
(* decode.                                                                 *)
LEMMA ScheduleKeeps ==
  ASSUME SeqFacts, IInv, Schedule
  PROVE  IInv'
<1>1. /\ pc = "idle" /\ batch = << >> /\ batch' = batch
      /\ UNCHANGED <<tokens, target, computed, table, status, waiting, running>>
      /\ UNCHANGED <<lastPrefill, isPrefill, batched, chunk, reserve, goal, chunkEnd>>
      /\ fallback' = FALSE
      /\ \/ pc' = "decode" /\ cand' = running
         \/ pc' = "admit" /\ cand' = cand
  BY DEF Schedule, StartDecode, StartPrefill, IInv, BatchInv, AdmitPhase, bmVars, seqVars, useVars
<1>2. TypeOK'
  <2>1. age' \in [Seqs -> Nat]
    <3>1. MaxAge \in Nat /\ age \in [Seqs -> Nat]
      BY SchedulerAssumption DEF IInv, TypeOK
    <3>2. \A s \in Seqs : MinOf(age[s] + 1, MaxAge) \in Nat /\ age[s] \in Nat
      BY <3>1 DEF MinOf
    <3>3. age' = [s \in Seqs |-> IF s \in ToSet(waiting) THEN MinOf(age[s] + 1, MaxAge) ELSE age[s]]
      BY DEF Schedule
    <3> QED
      BY <3>2, <3>3
  <2> QED
    BY <1>1, <2>1 DEF IInv, TypeOK, AdmitPhase, DecodePhase
<1>3. StagesInv' /\ GrowthInv' /\ QueuesInv'
  BY <1>1, Quiet
<1>4. BatchInv'
  BY <1>1 DEF IInv, BatchInv
<1>5. VisitInv' /\ DecodeInv'
  <2>1. ToSet(<< >>) = {}
    BY MembersOf, EmptySeq
  <2>2. pc' = "decode" => /\ \A s \in ToSet(cand') : s \in Seqs /\ status[s] = "running"
                          /\ IsInjective(cand')
    <3>1. ToSet(running) \subseteq Seqs
      BY MembersOf DEF IInv, TypeOK
    <3> QED
      BY <1>1, <3>1 DEF IInv, QueuesInv
  <2> QED
    BY <1>1, <2>1, <2>2 DEF VisitInv, DecodeInv, PrefillPhase, DecodePhase
<1>6. PrefillInv' /\ RunInv' /\ EmitInv'
  BY <1>1 DEF PrefillInv, RunInv, EmitInv, PrefillPhase, RunPhase
<1>7. QED
  BY <1>2, <1>3, <1>4, <1>5, <1>6 DEF IInv

-----------------------------------------------------------------------------
(* Admission                                                               *)

(* Affinities are compared from their first component to their last.       *)
LEMMA AboveMeans ==
  ASSUME NEW a, NEW b
  PROVE  Above(a, b) <=>
           \/ a[1] > b[1]
           \/ a[1] = b[1] /\ a[2] > b[2]
           \/ a[1] = b[1] /\ a[2] = b[2] /\ a[3] > b[3]
           \/ a[1] = b[1] /\ a[2] = b[2] /\ a[3] = b[3] /\ a[4] > b[4]
<1> DEFINE Higher(k) == a[k] > b[k] /\ \A j \in 1..k-1 : a[j] = b[j]
<1>1. Above(a, b) <=> Higher(1) \/ Higher(2) \/ Higher(3) \/ Higher(4)
  <2>1. 1..4 = {1, 2, 3, 4}
    OBVIOUS
  <2> QED
    BY <2>1 DEF Above
<1>2. 1..1-1 = {} /\ 1..2-1 = {1} /\ 1..3-1 = {1, 2} /\ 1..4-1 = {1, 2, 3}
  OBVIOUS
<1>3. QED
  BY <1>1, <1>2

(* What _reorder_waiting_for_cache_affinity sorts by.                      *)
FourIntegers(a) == a[1] \in Int /\ a[2] \in Int /\ a[3] \in Int /\ a[4] \in Int

(* Comparing four numbers in turn orders strictly.                         *)
LEMMA AboveOrders ==
  ASSUME NEW a, NEW b, NEW c, FourIntegers(a), FourIntegers(b), FourIntegers(c)
  PROVE  /\ ~Above(a, a)
         /\ Above(a, b) /\ Above(b, c) => Above(a, c)
         /\ a[4] = b[4] \/ Above(a, b) \/ Above(b, a)
BY AboveMeans DEF FourIntegers

(* A probe of the cache finds a number of blocks.                          *)
LEMMA CachedPrefixType ==
  ASSUME SeqFacts, NEW s \in Seqs
  PROVE  CachedPrefix(s) \in Nat
<1> DEFINE I == {i \in 1..target[s] : \A j \in 1..i :
                   BM!Reusable(s, j) /\ BM!Key(s, j) \in DOMAIN hashToBlock}
<1>1. IsFiniteSet(1..target[s]) /\ I \subseteq 1..target[s]
  <2>1. target[s] \in Nat
    BY DEF SeqFacts
  <2> QED
    BY <2>1, FS_Interval
<1>2. IsFiniteSet(I)
  BY <1>1, FS_Subset
<1>3. Cardinality(I) \in Nat
  BY <1>2, FS_CardinalityType
<1>4. CachedPrefix(s) = 0 \/ CachedPrefix(s) = Cardinality(I)
  BY DEF CachedPrefix
<1>5. QED
  BY <1>3, <1>4

(* The waiting requests, ordered by affinity, are the waiting requests.    *)
LEMMA ReorderedFacts ==
  ASSUME SeqFacts, IInv
  PROVE  /\ Reordered \in Seq(Seqs) /\ IsInjective(Reordered)
         /\ ToSet(Reordered) = ToSet(waiting)
<1> DEFINE places == 1..Len(waiting)
           R == {e \in places \X places : Above(Affinity(e[1]), Affinity(e[2]))}
           order == Sorted(places, R)
           r == [i \in places |-> waiting[order[i]]]
<1>1. /\ waiting \in Seq(Seqs) /\ IsInjective(waiting) /\ Len(waiting) \in Nat
      /\ \A i \in places : waiting[i] \in Seqs
  BY LenProperties, ElementOfSeq DEF IInv, TypeOK, QueuesInv
<1>2. CASE Policy # "cache_aware_lpm"
  BY <1>1, <1>2 DEF Reordered
<1>3. CASE Policy = "cache_aware_lpm"
  <2>1. ASSUME NEW i \in places
        PROVE  FourIntegers(Affinity(i)) /\ Affinity(i)[4] = -i
    <3>1. waiting[i] \in Seqs /\ age[waiting[i]] \in Nat
      BY <1>1 DEF IInv, TypeOK
    <3>2. CachedPrefix(waiting[i]) \in Nat
      BY <3>1, CachedPrefixType
    <3> QED
      BY <3>1, <3>2 DEF Affinity, FourIntegers
  <2>2. IsStrictOrder(places, R)
    <3> DEFINE A(i, j) == Above(Affinity(i), Affinity(j))
    <3>1. \A i, j \in places : <<i, j>> \in R <=> A(i, j)
      OBVIOUS
    <3>2. \A i \in places : ~A(i, i)
      BY <2>1, AboveOrders
    <3>3. \A i, j, k \in places : A(i, j) /\ A(j, k) => A(i, k)
      BY <2>1, AboveOrders
    <3>4. ASSUME NEW i \in places, NEW j \in places
          PROVE  i = j \/ A(i, j) \/ A(j, i)
      <4>1. -i = -j \/ A(i, j) \/ A(j, i)
        BY <2>1, AboveOrders
      <4> QED
        BY <4>1
    <3> HIDE DEF A, R
    <3> QED
      BY <3>1, <3>2, <3>3, <3>4 DEF IsStrictOrder
  <2>3. IsFiniteSet(places) /\ Cardinality(places) = Len(waiting)
    <3> DEFINE n == Len(waiting)
    <3>1. n \in Nat
      BY <1>1
    <3> HIDE DEF n
    <3>2. IsFiniteSet(1..n) /\ Cardinality(1..n) = IF 1 > n THEN 0 ELSE n - 1 + 1
      BY <3>1, FS_Interval
    <3>3. IsFiniteSet(1..n) /\ Cardinality(1..n) = n
      BY <3>1, <3>2
    <3> QED
      BY <3>3 DEF n
  <2> HIDE DEF R
  <2>4. /\ order \in [1..Len(waiting) -> 1..Len(waiting)]
        /\ \A k, l \in 1..Len(waiting) : order[k] = order[l] => k = l
        /\ \A i \in 1..Len(waiting) : \E k \in 1..Len(waiting) : order[k] = i
    <3> HIDE DEF places
    <3>1. /\ Cardinality(places) \in Nat
          /\ Sorted(places, R) \in [1..Cardinality(places) -> places]
          /\ \A k, l \in 1..Cardinality(places) :
               /\ Sorted(places, R)[k] = Sorted(places, R)[l] => k = l
               /\ k < l => <<Sorted(places, R)[k], Sorted(places, R)[l]>> \in R
          /\ \A i \in places : \E k \in 1..Cardinality(places) : Sorted(places, R)[k] = i
      BY <2>2, <2>3, SortedEnumerates
    <3>2. /\ order \in [1..Len(waiting) -> places]
          /\ \A k, l \in 1..Len(waiting) : order[k] = order[l] => k = l
          /\ \A i \in places : \E k \in 1..Len(waiting) : order[k] = i
      BY <2>3, <3>1
    <3> QED
      BY <3>2 DEF places
  <2> HIDE DEF order
  <2>5. r \in [1..Len(waiting) -> Seqs] /\ \A k \in 1..Len(waiting) : r[k] = waiting[order[k]]
    BY <1>1, <2>4
  <2> HIDE DEF r
  <2>6. /\ r \in Seq(Seqs) /\ ToSet(r) = Picked(waiting, order)
        /\ IsInjective(waiting) /\ IsInjective(order) => IsInjective(r)
    <3> DEFINE n == Len(waiting)
    <3>1. waiting \in Seq(Seqs) /\ n \in Nat
      BY <1>1
    <3>2. order \in [1..n -> 1..Len(waiting)]
      BY <2>4
    <3>3. r \in [1..n -> Seqs] /\ \A k \in 1..n : r[k] = waiting[order[k]]
      BY <2>5
    <3> HIDE DEF n
    <3>4. /\ r \in Seq(Seqs) /\ Len(r) = n
          /\ ToSet(r) = Picked(waiting, order)
          /\ IsInjective(waiting) /\ IsInjective(order) => IsInjective(r)
      BY <3>1, <3>2, <3>3, Rearranged
    <3> QED
      BY <3>4
  <2>7. IsInjective(order)
    BY <2>4 DEF IsInjective
  <2>8. Picked(waiting, order) = ToSet(waiting)
    <3>1. DOMAIN order = 1..Len(waiting) /\ DOMAIN waiting = 1..Len(waiting)
      BY <1>1, <2>4
    <3> QED
      BY <2>4, <3>1 DEF Picked, ToSet
  <2>9. Reordered = r
    BY <1>3 DEF Reordered, r, order, R
  <2> QED
    BY <1>1, <2>6, <2>7, <2>8, <2>9
<1>4. QED
  BY <1>2, <1>3

(* One turn of _admit_waiting.                                             *)
LEMMA AdmitKeeps ==
  ASSUME SeqFacts, IInv, Admit
  PROVE  IInv'
<1>1. /\ pc = "admit" /\ pc' = "match"
      /\ UNCHANGED <<tokens, target, computed, table, running, status, age, cand, batch,
                     batched, chunk, goal, chunkEnd, pathVars>>
      /\ waiting' = Reordered /\ reserve' = ReserveBlocks
  BY DEF Admit, bmVars, seqVars, useVars
<1>2. TypeOK'
  <2>1. ReserveBlocks \in Nat
    BY SchedulerAssumption DEF ReserveBlocks
  <2> QED
    BY <1>1, <2>1, ReorderedFacts DEF IInv, TypeOK, AdmitPhase, pathVars
<1>3. StagesInv' /\ GrowthInv'
  BY <1>1 DEF IInv, StagesInv, GrowthInv, InHand, AtPrefill, AtDecode, Finished
<1>4. QueuesInv'
  BY <1>1, ReorderedFacts DEF IInv, QueuesInv
<1>5. BatchInv' /\ VisitInv' /\ PrefillInv' /\ DecodeInv' /\ RunInv' /\ EmitInv'
  BY <1>1 DEF IInv, BatchInv, VisitInv, PrefillInv, DecodeInv, RunInv, EmitInv, AdmitPhase,
              PrefillPhase, DecodePhase, RunPhase
<1>6. QED
  BY <1>2, <1>3, <1>4, <1>5 DEF IInv

(* A lookup for s moves it nowhere and leaves it something to compute.     *)
LEMMA LookupKeeps ==
  ASSUME SeqFacts, SeqFacts', IInv, NEW s \in Seqs, AtPrefill(s),
         UNCHANGED <<tokens, target, waiting, running, status>>, Others(s),
         computed[s] <= computed'[s], computed'[s] < target[s],
         status[s] \in {"waiting", "running"},
         pc \notin {"emit", "release"}, pc' \notin {"emit", "release"},
         pc' = "allocate" => waiting # << >>
  PROVE  /\ StagesInv' /\ GrowthInv' /\ QueuesInv'
         /\ \A u \in Seqs : Ready(u)' <=> Ready(u)
<1>1. \A u \in Seqs : Ready(u)' <=> Ready(u)
  <2>1. ~Ready(s) /\ ~Ready(s)'
    BY DEF Ready, SeqFacts, AtPrefill
  <2> QED
    BY <2>1 DEF Others, Ready
<1>2. StagesInv'
  BY DEF IInv, StagesInv, InHand, AtPrefill, AtDecode, Others
<1>3. GrowthInv' /\ QueuesInv'
  BY DEF IInv, GrowthInv, Finished, QueuesInv
<1>4. QED
  BY <1>1, <1>2, <1>3

(* The lookup for the head of waiting.                                     *)
LEMMA AdmitMatchKeeps ==
  ASSUME Cache!IInv, Cache!IInv', SeqFacts, SeqFacts', IInv, AdmitMatch
  PROVE  IInv'
<1>1. /\ pc = "match" /\ pc' \in {"allocate", "prefill_init"}
      /\ UNCHANGED <<queueVars, localVars, pathVars>>
  BY DEF AdmitMatch
<1>2. TypeOK'
  BY <1>1 DEF IInv, TypeOK, AdmitPhase, queueVars, localVars, pathVars
<1>3. StagesInv' /\ GrowthInv' /\ QueuesInv'
  <2>1. CASE waiting # << >> /\ Len(running) < MaxNumSeqs
    <3> DEFINE s == Head(waiting)
    <3>1. s \in Seqs /\ s \in ToSet(waiting)
      BY <2>1, TailOfDistinct DEF IInv, TypeOK, QueuesInv
    <3>2. status[s] = "waiting" /\ AtPrefill(s)
      BY <1>1, <3>1 DEF IInv, QueuesInv, StagesInv, InHand
    <3>3. BM!Match(s)
      BY <2>1 DEF AdmitMatch
    <3>4. computed[s] < target[s]
      BY <3>2 DEF AtPrefill
    <3>5. /\ UNCHANGED <<tokens, target>> /\ Others(s)
          /\ computed[s] <= computed'[s] /\ computed'[s] < target[s]
      BY <3>1, <3>3, <3>4, MatchCall
    <3> QED
      BY <1>1, <2>1, <3>1, <3>2, <3>5, LookupKeeps DEF queueVars
  <2>2. CASE ~(waiting # << >> /\ Len(running) < MaxNumSeqs)
    BY <1>1, <2>2, Quiet DEF AdmitMatch, queueVars, bmVars, seqVars, useVars
  <2> QED
    BY <2>1, <2>2
<1>4. BatchInv' /\ VisitInv' /\ PrefillInv' /\ DecodeInv' /\ RunInv' /\ EmitInv'
  BY <1>1 DEF IInv, BatchInv, VisitInv, PrefillInv, DecodeInv, RunInv, EmitInv, AdmitPhase,
              PrefillPhase, DecodePhase, RunPhase, localVars
<1>5. QED
  BY <1>2, <1>3, <1>4 DEF IInv

(* The head is admitted, or the loop ends.                                 *)
LEMMA AdmitAllocateKeeps ==
  ASSUME Cache!IInv, Cache!IInv', SeqFacts, IInv, AdmitAllocate
  PROVE  IInv'
<1> DEFINE s == Head(waiting)
<1>1. /\ pc = "allocate" /\ pc' \in {"match", "prefill_init"}
      /\ UNCHANGED <<tokens, target, computed, table, localVars, pathVars>>
  <2>1. UNCHANGED <<computed, table>>
    BY PurgeCall DEF AdmitAllocate
  <2> QED
    BY <2>1 DEF AdmitAllocate, seqVars
<1>2. CASE UNCHANGED queueVars
  <2>1. TypeOK'
    BY <1>1, <1>2 DEF IInv, TypeOK, AdmitPhase, queueVars, localVars, pathVars
  <2>2. StagesInv' /\ GrowthInv' /\ QueuesInv'
    BY <1>1, <1>2, Quiet DEF queueVars
  <2> QED
    BY <1>1, <2>1, <2>2
    DEF IInv, BatchInv, VisitInv, PrefillInv, DecodeInv, RunInv, EmitInv, AdmitPhase,
        PrefillPhase, DecodePhase, RunPhase, localVars
<1>3. CASE /\ waiting' = Tail(waiting) /\ running' = Append(running, s)
           /\ status' = [status EXCEPT ![s] = "running"] /\ age' = [age EXCEPT ![s] = 0]
  <2>1. /\ s \in Seqs /\ s \in ToSet(waiting) /\ status[s] = "waiting" /\ s \notin ToSet(running)
        /\ waiting' \in Seq(Seqs) /\ IsInjective(waiting') /\ ToSet(waiting') = ToSet(waiting) \ {s}
    BY <1>1, <1>3, TailOfDistinct DEF IInv, TypeOK, QueuesInv
  <2>2. /\ running' \in Seq(Seqs) /\ IsInjective(running')
        /\ ToSet(running') = ToSet(running) \cup {s}
    <3>1. running \in Seq(Seqs) /\ IsInjective(running)
      BY DEF IInv, TypeOK, QueuesInv
    <3> HIDE DEF s
    <3>2. s \in Seqs /\ s \notin ToSet(running)
      BY <2>1
    <3>3. /\ Append(running, s) \in Seq(Seqs)
          /\ ToSet(Append(running, s)) = ToSet(running) \cup {s}
          /\ IsInjective(running) /\ s \notin ToSet(running)
               => IsInjective(Append(running, s)) /\ IsInjective(<<s>> \o running)
      BY <3>1, <3>2, OneMore
    <3> QED
      BY <1>3, <3>1, <3>2, <3>3
  <2>3. TypeOK'
    BY <1>1, <1>3, <2>1, <2>2 DEF IInv, TypeOK, AdmitPhase, Statuses, localVars, pathVars
  <2>4. /\ status'[s] = "running" /\ \A u \in Seqs : u # s => status'[u] = status[u]
        /\ status \in [Seqs -> Statuses]
    BY <1>3, <2>1 DEF IInv, TypeOK
  <2>5. StagesInv'
    <3>1. AtPrefill(s)
      BY <1>1, <2>1 DEF IInv, StagesInv, InHand
    <3> QED
      BY <1>1, <2>4, <3>1 DEF IInv, StagesInv, InHand, AtPrefill, AtDecode
  <2>6. GrowthInv'
    BY <1>1, <2>1, <2>4 DEF IInv, GrowthInv, Finished, FinishReasons
  <2>7. QueuesInv'
    BY <1>1, <2>1, <2>2, <2>4 DEF IInv, QueuesInv
  <2> QED
    BY <1>1, <2>3, <2>5, <2>6, <2>7
    DEF IInv, BatchInv, VisitInv, PrefillInv, DecodeInv, RunInv, EmitInv, AdmitPhase,
        PrefillPhase, DecodePhase, RunPhase, localVars
<1>4. QED
  BY <1>2, <1>3 DEF AdmitAllocate

-----------------------------------------------------------------------------
(* Prefill                                                                 *)

(* The budget of a chunk is a number, whatever the pressure. *)
LEMMA ChunkBudgetType ==
  ASSUME IInv
  PROVE  ChunkBudget \in Nat
<1> DEFINE ready == {s \in ToSet(running) : Ready(s)}
           pressure == Cardinality(ready)
           d == MinOf(pressure + 1, 8)
<1>1. MaxChunk \in Nat /\ MinChunk \in Nat
  BY SchedulerAssumption DEF MaxChunk, MinChunk, MinOf
<1>2. pressure \in Nat
  <2>1. IsFiniteSet(ToSet(running))
    BY LengthOfDistinct DEF IInv, TypeOK, QueuesInv
  <2>2. IsFiniteSet(ready)
    BY <2>1, FS_Subset
  <2> QED
    BY <2>2, FS_CardinalityType
<1> HIDE DEF pressure
<1>3. d \in 1..8
  BY <1>2 DEF MinOf
<1> HIDE DEF d
<1>4. MaxChunk \div d \in Nat
  <2>1. d = 1 \/ d = 2 \/ d = 3 \/ d = 4 \/ d = 5 \/ d = 6 \/ d = 7 \/ d = 8
    BY <1>3
  <2> QED
    BY <1>1, <2>1
<1>5. MaxOf(MinChunk, MaxChunk \div d) \in Nat
  BY <1>1, <1>4 DEF MaxOf
<1>6. QED
  BY <1>1, <1>5 DEF ChunkBudget, pressure, d

(* _schedule_prefill begins with the running sequences still to prefill.   *)
LEMMA PrefillInitKeeps ==
  ASSUME SeqFacts, IInv, PrefillInit
  PROVE  IInv'
<1> DEFINE S == {s \in Seqs : ~Ready(s)}
<1>1. /\ pc = "prefill_init" /\ pc' = "prefill" /\ batch = << >>
      /\ UNCHANGED <<tokens, target, computed, table, queueVars, batch, goal, chunkEnd, pathVars>>
      /\ cand' = Filtered(running, S) /\ chunk' = ChunkBudget
      /\ reserve' = ReserveBlocks /\ batched' = 0
  BY DEF PrefillInit, IInv, BatchInv, AdmitPhase, bmVars, seqVars, useVars
<1>2. /\ cand' \in Seq(Seqs) /\ IsInjective(cand') /\ ToSet(cand') = ToSet(running) \cap S
  <2>1. running \in Seq(Seqs) /\ IsInjective(running)
    BY DEF IInv, TypeOK, QueuesInv
  <2> HIDE DEF S
  <2> QED
    BY <1>1, <2>1, FilteredFacts
<1>3. TypeOK'
  <2>1. ReserveBlocks \in Nat
    BY SchedulerAssumption DEF ReserveBlocks
  <2> QED
    BY <1>1, <1>2, <2>1, ChunkBudgetType DEF IInv, TypeOK, PrefillPhase, queueVars, pathVars
<1>4. StagesInv' /\ GrowthInv' /\ QueuesInv'
  BY <1>1, Quiet DEF queueVars
<1>5. ToSet(batch) = {} /\ Len(batch) = 0
  BY <1>1, MembersOf, EmptySeq
<1>6. BatchInv' /\ VisitInv'
  BY <1>1, <1>2, <1>5 DEF IInv, BatchInv, VisitInv, AdmitPhase, PrefillPhase
<1>7. PrefillInv'
  <2>1. ASSUME NEW s \in ToSet(running) \cap S
        PROVE  status[s] = "running" /\ AtPrefill(s)
    <3>1. s \in Seqs /\ status[s] = "running" /\ ~InHand(s)
      BY <1>1 DEF IInv, QueuesInv, InHand
    <3>2. AtPrefill(s) \/ AtDecode(s)
      BY <3>1 DEF IInv, StagesInv
    <3> QED
      BY <3>1, <3>2 DEF AtDecode, Ready
  <2>2. \A s \in ToSet(cand') : status'[s] = "running" /\ AtPrefill(s)'
    BY <1>1, <1>2, <2>1 DEF AtPrefill, queueVars
  <2>3. HasDecodeWork' => reserve' = Watermark
    BY <1>1 DEF HasDecodeWork, ReserveBlocks, Ready, queueVars
  <2>4. MaxBatched \in Nat
    BY SchedulerAssumption
  <2> QED
    BY <1>1, <1>5, <2>2, <2>3, <2>4 DEF PrefillInv
<1>8. DecodeInv' /\ RunInv' /\ EmitInv'
  BY <1>1 DEF DecodeInv, RunInv, EmitInv, DecodePhase, RunPhase
<1>9. QED
  BY <1>3, <1>4, <1>6, <1>7, <1>8 DEF IInv

(* The chunk of one of them is cut to the budget, and checked.             *)
LEMMA PrefillVisitKeeps ==
  ASSUME Cache!IInv, Cache!IInv', SeqFacts, IInv, PrefillVisit
  PROVE  IInv'
<1> DEFINE s == Head(cand)
           end == MinOf(target[s], computed[s] + MinOf(chunk, MaxBatched - batched))
<1>1. /\ pc = "prefill" /\ PrefillVisits
      /\ UNCHANGED <<tokens, target, computed, table, queueVars, batch, batched, chunk,
                     reserve, chunkEnd, pathVars>>
      /\ BM!AvailableBlocks' = BM!AvailableBlocks
  BY PurgeCall DEF PrefillVisit, seqVars
<1>2. /\ s \in Seqs /\ s \in ToSet(cand) /\ Tail(cand) \in Seq(Seqs) /\ IsInjective(Tail(cand))
      /\ ToSet(Tail(cand)) = ToSet(cand) \ {s}
      /\ IsInjective(cand) /\ ToSet(cand) \cap ToSet(batch) = {}
  BY <1>1, TailOfDistinct DEF IInv, TypeOK, VisitInv, PrefillPhase, PrefillVisits
<1>3. /\ \A u \in Seqs : AtPrefill(u)' <=> AtPrefill(u)
      /\ \A u \in Seqs : PrefillReady(u)' <=> PrefillReady(u)
      /\ HasDecodeWork' <=> HasDecodeWork
  BY <1>1 DEF AtPrefill, PrefillReady, HasDecodeWork, Ready, queueVars
<1>4. PrefillInv /\ ToSet(cand) \subseteq Seqs /\ ToSet(batch) \subseteq Seqs
  BY MembersOf DEF IInv, TypeOK
<1>5. /\ batched \in Nat /\ chunk \in Nat /\ MaxBatched \in Nat /\ computed[s] \in Nat
      /\ target[s] \in Nat /\ batched < MaxBatched /\ reserve \in Nat
      /\ computed[s] < target[s]
  BY <1>1, <1>2, <1>4, SchedulerAssumption
  DEF IInv, TypeOK, SeqFacts, PrefillVisits, PrefillInv, PrefillPhase, AtPrefill
<1>6. StagesInv' /\ GrowthInv' /\ QueuesInv'
  <2>1. pc' \in {"prefill", "prepare"}
    BY <1>1 DEF PrefillVisit
  <2> QED
    BY <1>1, <2>1, Quiet DEF queueVars
<1>7. CASE BM!CanAllocate(s, end, reserve) /\ goal' = end /\ pc' = "prepare" /\ cand' = cand
  <2>1. /\ end \in Nat /\ end <= target[s] /\ batched + (end - computed[s]) <= MaxBatched
    BY <1>5 DEF MinOf
  <2>2. TypeOK'
    BY <1>1, <1>7, <2>1 DEF IInv, TypeOK, PrefillPhase, queueVars, pathVars
  <2>3. BatchInv' /\ VisitInv'
    BY <1>1, <1>2, <1>7 DEF IInv, BatchInv, VisitInv, AdmitPhase, PrefillPhase, DecodePhase, PrefillVisits
  <2>4. PrefillInv'
    <3>1. Fits(s, end, reserve)
      <4>1. BM!NumBlocksFor(end) \in Int
        BY <2>1, SizeAssumption DEF BM!NumBlocksFor
      <4> HIDE DEF end
      <4> QED
        BY <1>2, <1>7, <4>1 DEF BM!CanAllocate, Fits, SeqFacts
    <3>2. Fits(Head(cand), goal, reserve)'
      BY <1>1, <1>7, <3>1 DEF Fits, BM!NumBlocksFor
    <3> HIDE DEF end
    <3> QED
      BY <1>1, <1>2, <1>3, <1>4, <1>7, <2>1, <3>2 DEF PrefillInv, PrefillPhase, queueVars
  <2>5. DecodeInv' /\ RunInv' /\ EmitInv'
    BY <1>7 DEF DecodeInv, RunInv, EmitInv, DecodePhase, RunPhase
  <2> QED
    BY <1>6, <2>2, <2>3, <2>4, <2>5 DEF IInv
<1>8. CASE cand' = Tail(cand) /\ UNCHANGED <<goal, pc>>
  <2>1. TypeOK'
    BY <1>1, <1>2, <1>8 DEF IInv, TypeOK, PrefillPhase, queueVars, pathVars
  <2>2. BatchInv' /\ VisitInv'
    BY <1>1, <1>2, <1>8 DEF IInv, BatchInv, VisitInv, AdmitPhase, PrefillPhase, DecodePhase
  <2>3. PrefillInv'
    BY <1>1, <1>2, <1>3, <1>4, <1>8 DEF PrefillInv, PrefillPhase, queueVars
  <2>4. DecodeInv' /\ RunInv' /\ EmitInv'
    BY <1>1, <1>8 DEF DecodeInv, RunInv, EmitInv, DecodePhase, RunPhase
  <2> QED
    BY <1>6, <2>1, <2>2, <2>3, <2>4 DEF IInv
<1>9. QED
  BY <1>7, <1>8 DEF PrefillVisit

(* The lookup of prepare_prefill only helps: what fitted still fits.       *)
LEMMA PrepareMatchKeeps ==
  ASSUME Cache!IInv, Cache!IInv', SeqFacts, SeqFacts', IInv, PrepareMatch
  PROVE  IInv'
<1> DEFINE s == Head(cand)
<1>1. /\ pc = "prepare" /\ pc' = "ensure" /\ cand # << >> /\ cand' = cand
      /\ UNCHANGED <<queueVars, localVars, pathVars>>
      /\ BM!Match(s)
  BY DEF PrepareMatch, localVars, IInv, VisitInv, PrefillPhase
<1>2. /\ s \in Seqs /\ s \in ToSet(cand) /\ ToSet(cand) \subseteq Seqs /\ ToSet(batch) \subseteq Seqs
      /\ s \notin ToSet(batch)
  BY <1>1, TailOfDistinct, MembersOf DEF IInv, TypeOK, VisitInv, PrefillPhase
<1>3. PrefillInv /\ status[s] = "running" /\ AtPrefill(s) /\ computed[s] < target[s]
  BY <1>1, <1>2 DEF IInv, PrefillInv, PrefillPhase, AtPrefill
<1>4. /\ UNCHANGED <<tokens, target>> /\ Others(s)
      /\ computed[s] <= computed'[s] /\ computed'[s] < target[s]
      /\ Len(table'[s]) >= Len(table[s])
      /\ BM!AvailableBlocks' + Len(table'[s]) >= BM!AvailableBlocks + Len(table[s])
  BY <1>1, <1>2, <1>3, MatchCall
<1>5. /\ StagesInv' /\ GrowthInv' /\ QueuesInv'
      /\ \A u \in Seqs : Ready(u)' <=> Ready(u)
  BY <1>1, <1>2, <1>3, <1>4, LookupKeeps DEF queueVars
<1>6. TypeOK'
  BY <1>1 DEF IInv, TypeOK, PrefillPhase, queueVars, localVars, pathVars
<1>7. BatchInv' /\ VisitInv'
  BY <1>1 DEF IInv, BatchInv, VisitInv, AdmitPhase, PrefillPhase, DecodePhase, localVars
<1>8. PrefillInv'
  <2>1. \A u \in ToSet(cand) : status'[u] = "running" /\ AtPrefill(u)'
    BY <1>1, <1>2, <1>3, <1>4 DEF PrefillInv, PrefillPhase, AtPrefill, Others, queueVars
  <2>2. \A u \in ToSet(batch) : PrefillReady(u)'
    BY <1>1, <1>2, <1>3, <1>4
    DEF PrefillInv, PrefillPhase, PrefillReady, AtPrefill, Others, queueVars, localVars
  <2>3. HasDecodeWork' <=> HasDecodeWork
    <3>1. ToSet(running) \subseteq Seqs /\ running' = running
      BY <1>1, MembersOf DEF IInv, TypeOK, queueVars
    <3> QED
      BY <1>5, <3>1 DEF HasDecodeWork
  <2>4. batched + (goal - computed'[s]) <= MaxBatched
    <3>1. /\ batched \in Nat /\ goal \in Nat /\ computed[s] \in Nat /\ computed'[s] \in Nat
          /\ MaxBatched \in Nat /\ batched + (goal - computed[s]) <= MaxBatched
      BY <1>1, <1>2, <1>3, SchedulerAssumption DEF PrefillInv, PrefillPhase, IInv, TypeOK, SeqFacts
    <3> QED
      BY <1>4, <3>1
  <2>5. Fits(s, goal, reserve)'
    <3> DEFINE n == BM!NumBlocksFor(goal)
    <3>1. /\ n \in Int /\ reserve \in Nat /\ n' = n /\ reserve' = reserve
      BY <1>1, SizeAssumption DEF BM!NumBlocksFor, IInv, TypeOK, localVars
    <3>2. n <= Len(table[s]) \/ n - Len(table[s]) <= BM!AvailableBlocks - reserve
      BY <1>1, <1>3 DEF PrefillInv, PrefillPhase, Fits
    <3> HIDE DEF n
    <3>3. n <= Len(table'[s]) \/ n - Len(table'[s]) <= BM!AvailableBlocks' - reserve
      BY <1>2, <1>4, <3>1, <3>2 DEF SeqFacts
    <3> QED
      BY <1>1, <3>1, <3>3 DEF Fits, n
  <2> QED
    BY <1>1, <1>3, <1>4, <2>1, <2>2, <2>3, <2>4, <2>5 DEF PrefillInv, PrefillPhase, localVars
<1>9. DecodeInv' /\ RunInv' /\ EmitInv'
  BY <1>1 DEF DecodeInv, RunInv, EmitInv, DecodePhase, RunPhase
<1>10. QED
  BY <1>5, <1>6, <1>7, <1>8, <1>9 DEF IInv

(* It gets its blocks and joins the batch.                                 *)
LEMMA PrepareEnsureKeeps ==
  ASSUME Cache!IInv, Cache!IInv', SeqFacts, SeqFacts', IInv, PrepareEnsure
  PROVE  IInv'
<1> DEFINE s == Head(cand)
<1>1. /\ pc = "ensure" /\ pc' = "prefill" /\ cand # << >> /\ Len(batch) < MaxNumSeqs
      /\ goal > computed[s] /\ BM!EnsureBlocks(s, goal)
      /\ UNCHANGED <<tokens, target, queueVars, chunk, reserve, goal, pathVars>>
      /\ chunkEnd' = [chunkEnd EXCEPT ![s] = goal]
      /\ batched' = batched + (goal - computed[s])
      /\ batch' = Append(batch, s) /\ cand' = Tail(cand)
  BY DEF PrepareEnsure, TargetBeyondPrefix, IInv, VisitInv, PrefillPhase, seqVars
<1>2. /\ s \in Seqs /\ s \in ToSet(cand) /\ ToSet(cand) \subseteq Seqs /\ ToSet(batch) \subseteq Seqs
      /\ s \notin ToSet(batch) /\ ToSet(cand) \cap ToSet(batch) = {}
      /\ cand' \in Seq(Seqs) /\ IsInjective(cand') /\ ToSet(cand') = ToSet(cand) \ {s}
  BY <1>1, TailOfDistinct, MembersOf DEF IInv, TypeOK, VisitInv, PrefillPhase
<1>3. /\ batch' \in Seq(Seqs) /\ IsInjective(batch') /\ ToSet(batch') = ToSet(batch) \cup {s}
      /\ Len(batch') = Len(batch) + 1 /\ Len(batch) \in Nat
  <2>1. batch \in Seq(Seqs) /\ IsInjective(batch)
    BY DEF IInv, TypeOK, BatchInv
  <2>2. s \in Seqs /\ s \notin ToSet(batch)
    BY <1>2
  <2> HIDE DEF s
  <2>3. /\ Append(batch, s) \in Seq(Seqs)
        /\ ToSet(Append(batch, s)) = ToSet(batch) \cup {s}
        /\ IsInjective(batch) /\ s \notin ToSet(batch)
             => IsInjective(Append(batch, s)) /\ IsInjective(<<s>> \o batch)
    BY <2>1, <2>2, OneMore
  <2>4. Len(Append(batch, s)) = Len(batch) + 1 /\ Len(batch) \in Nat
    BY <2>1, <2>2, AppendProperties, LenProperties
  <2> QED
    BY <1>1, <2>1, <2>2, <2>3, <2>4
<1>4. /\ PrefillInv /\ status[s] = "running" /\ AtPrefill(s) /\ goal <= target[s]
      /\ batched + (goal - computed[s]) <= MaxBatched
      /\ goal \in Nat /\ batched \in Nat /\ computed[s] \in Nat /\ chunkEnd \in [Seqs -> Nat]
  BY <1>1, <1>2 DEF IInv, PrefillInv, PrefillPhase, TypeOK, SeqFacts
<1>5. Others(s) /\ computed' = computed /\ goal <= Len(table'[s]) * BlockSize
  BY <1>1, <1>2, <1>4, EnsureCall
<1>6. TypeOK'
  <2>1. batched' \in Nat
    BY <1>1, <1>4
  <2> QED
    BY <1>1, <1>2, <1>3, <1>4, <2>1 DEF IInv, TypeOK, PrefillPhase, queueVars, pathVars
<1>7. StagesInv' /\ GrowthInv' /\ QueuesInv'
  <2>1. StagesInv'
    BY <1>1, <1>4, <1>5 DEF IInv, StagesInv, InHand, AtPrefill, AtDecode, Others, queueVars
  <2> QED
    BY <1>1, <2>1 DEF IInv, GrowthInv, Finished, QueuesInv, queueVars
<1>8. BatchInv' /\ VisitInv'
  <2>1. MaxNumSeqs \in Nat
    BY SchedulerAssumption
  <2> QED
    BY <1>1, <1>2, <1>3, <2>1 DEF IInv, BatchInv, VisitInv, AdmitPhase, PrefillPhase, DecodePhase
<1>9. PrefillInv'
  <2>1. \A u \in Seqs : AtPrefill(u)' <=> AtPrefill(u)
    BY <1>1, <1>5 DEF AtPrefill
  <2>2. \A u \in ToSet(cand') : status'[u] = "running" /\ AtPrefill(u)'
    BY <1>1, <1>2, <1>4, <2>1 DEF PrefillInv, PrefillPhase, queueVars
  <2>3. \A u \in ToSet(batch) : PrefillReady(u)'
    BY <1>1, <1>2, <1>4, <1>5, <2>1 DEF PrefillInv, PrefillPhase, PrefillReady, Others, queueVars
  <2>4. ASSUME NEW u \in Seqs, u = s PROVE PrefillReady(u)'
    BY <2>4, <1>1, <1>2, <1>4, <1>5, <2>1 DEF PrefillReady, queueVars
  <2>5. HasDecodeWork' <=> HasDecodeWork
    BY <1>1, <1>5 DEF HasDecodeWork, Ready, queueVars
  <2> QED
    BY <1>1, <1>3, <1>4, <2>2, <2>3, <2>4, <2>5 DEF PrefillInv, PrefillPhase
<1>10. DecodeInv' /\ RunInv' /\ EmitInv'
  BY <1>1 DEF DecodeInv, RunInv, EmitInv, DecodePhase, RunPhase
<1>11. QED
  BY <1>6, <1>7, <1>8, <1>9, <1>10 DEF IInv

(* The loop ends with a batch or with nothing.                             *)
LEMMA PrefillDoneKeeps ==
  ASSUME SeqFacts, IInv, PrefillDone
  PROVE  IInv'
<1>1. /\ pc = "prefill"
      /\ UNCHANGED <<tokens, target, computed, table, queueVars, batch, batched, chunk,
                     reserve, goal, chunkEnd>>
      /\ Dispatch(TRUE)
      /\ batch \in Seq(Seqs) /\ IsInjective(batch) /\ running \in Seq(Seqs) /\ IsInjective(running)
  BY DEF PrefillDone, bmVars, seqVars, useVars, IInv, TypeOK, BatchInv, QueuesInv
<1>2. CASE /\ batch # << >> /\ pc' = "run" /\ isPrefill' = TRUE /\ lastPrefill' = TRUE
           /\ cand' = batch /\ UNCHANGED fallback
  <2>1. TypeOK'
    BY <1>1, <1>2 DEF IInv, TypeOK, RunPhase, queueVars
  <2>2. StagesInv' /\ GrowthInv' /\ QueuesInv'
    BY <1>1, <1>2, Quiet DEF queueVars
  <2>3. RunInv'
    <3>1. (\A u \in ToSet(batch) : PrefillReady(u)) /\ batched <= MaxBatched
      BY <1>1 DEF IInv, PrefillInv, PrefillPhase
    <3>2. \A u : PrefillReady(u)' <=> PrefillReady(u)
      BY <1>1 DEF PrefillReady, AtPrefill, queueVars
    <3> QED
      BY <1>1, <1>2, <3>1, <3>2 DEF RunInv, Todo
  <2> QED
    BY <1>1, <1>2, <2>1, <2>2, <2>3
    DEF IInv, BatchInv, VisitInv, PrefillInv, DecodeInv, EmitInv, AdmitPhase, PrefillPhase, DecodePhase
<1>3. CASE /\ batch = << >> /\ pc' = "RuntimeError" /\ fallback' = TRUE
           /\ UNCHANGED <<lastPrefill, isPrefill, cand>>
  <2>1. TypeOK'
    BY <1>1, <1>3 DEF IInv, TypeOK, Stopped, queueVars
  <2>2. StagesInv' /\ GrowthInv' /\ QueuesInv'
    BY <1>1, <1>3, Quiet DEF queueVars
  <2> QED
    BY <1>1, <1>3, <2>1, <2>2
    DEF IInv, BatchInv, VisitInv, PrefillInv, DecodeInv, RunInv, EmitInv, AdmitPhase,
        PrefillPhase, DecodePhase, RunPhase
<1>4. CASE /\ batch = << >> /\ pc' = "decode" /\ fallback' = TRUE /\ cand' = running
           /\ UNCHANGED <<lastPrefill, isPrefill>>
  <2>1. TypeOK'
    BY <1>1, <1>4 DEF IInv, TypeOK, DecodePhase, queueVars
  <2>2. StagesInv' /\ GrowthInv' /\ QueuesInv'
    BY <1>1, <1>4, Quiet DEF queueVars
  <2>3. ToSet(<< >>) = {}
    BY MembersOf, EmptySeq
  <2>4. \A u \in ToSet(running) : status[u] = "running"
    <3>1. ToSet(running) \subseteq Seqs
      BY <1>1, MembersOf
    <3> QED
      BY <1>1, <3>1 DEF IInv, QueuesInv
  <2>5. VisitInv' /\ DecodeInv'
    BY <1>1, <1>4, <2>3, <2>4 DEF VisitInv, DecodeInv, PrefillPhase, DecodePhase, queueVars
  <2> QED
    BY <1>1, <1>4, <2>1, <2>2, <2>5
    DEF IInv, BatchInv, PrefillInv, RunInv, EmitInv, AdmitPhase, PrefillPhase, RunPhase
<1>5. QED
  BY <1>1, <1>2, <1>3, <1>4 DEF Dispatch, StartDecode

-----------------------------------------------------------------------------
(* Decode                                                                  *)

(* A sequence that is not decoding is passed over. *)
LEMMA DecodeSkipKeeps ==
  ASSUME SeqFacts, IInv, DecodeSkip
  PROVE  IInv'
<1>1. /\ pc = "decode" /\ pc' = pc /\ cand # << >> /\ cand' = Tail(cand)
      /\ UNCHANGED <<tokens, target, computed, table, queueVars, batch, batched, chunk,
                     reserve, goal, chunkEnd, pathVars>>
  BY DEF DecodeSkip, DecodeVisits, bmVars, seqVars, useVars
<1>2. /\ cand' \in Seq(Seqs) /\ IsInjective(cand') /\ ToSet(cand') \subseteq ToSet(cand)
  BY <1>1, TailOfDistinct DEF IInv, TypeOK, VisitInv, DecodePhase
<1>3. TypeOK'
  BY <1>1, <1>2 DEF IInv, TypeOK, DecodePhase, queueVars, pathVars
<1>4. StagesInv' /\ GrowthInv' /\ QueuesInv'
  BY <1>1, Quiet DEF queueVars
<1>5. BatchInv' /\ VisitInv'
  BY <1>1, <1>2 DEF IInv, BatchInv, VisitInv, AdmitPhase, DecodePhase
<1>6. DecodeInv'
  BY <1>1, <1>2 DEF IInv, DecodeInv, DecodePhase, DecodeReady, AtDecode, queueVars
<1>7. PrefillInv' /\ RunInv' /\ EmitInv'
  BY <1>1 DEF PrefillInv, RunInv, EmitInv, PrefillPhase, RunPhase
<1>8. QED
  BY <1>3, <1>4, <1>5, <1>6, <1>7 DEF IInv

(* A decoding sequence fits, or somebody must go.                          *)
LEMMA DecodeVisitKeeps ==
  ASSUME Cache!IInv, Cache!IInv', SeqFacts, IInv, DecodeVisit
  PROVE  IInv'
<1> DEFINE s == Head(cand)
<1>1. /\ pc = "decode" /\ pc' \in {"append", "preempt"} /\ cand # << >> /\ Len(batch) < MaxNumSeqs
      /\ Ready(s) /\ (pc' = "append" => BM!CanAllocate(s, Len(tokens[s]), 0))
      /\ UNCHANGED <<tokens, target, computed, table, queueVars, localVars, pathVars>>
      /\ BM!AvailableBlocks' = BM!AvailableBlocks
  BY PurgeCall DEF DecodeVisit, DecodeVisits, seqVars
<1>2. s \in Seqs /\ s \in ToSet(cand)
  BY <1>1, TailOfDistinct DEF IInv, TypeOK, VisitInv, DecodePhase
<1>3. TypeOK'
  BY <1>1 DEF IInv, TypeOK, DecodePhase, queueVars, localVars, pathVars
<1>4. StagesInv' /\ GrowthInv' /\ QueuesInv'
  BY <1>1, Quiet DEF queueVars
<1>5. BatchInv' /\ VisitInv'
  BY <1>1 DEF IInv, BatchInv, VisitInv, AdmitPhase, DecodePhase, localVars
<1>6. DecodeInv'
  <2>1. pc' = "append" => Fits(s, Len(tokens[s]), 0)
    <3> DEFINE n == BM!NumBlocksFor(Len(tokens[s]))
    <3>1. n \in Int /\ Len(table[s]) \in Nat /\ BM!AvailableBlocks \in Nat
      BY <1>2, SizeAssumption DEF SeqFacts, BM!NumBlocksFor
    <3>2. pc' = "append" => n - Len(table[s]) <= 0 \/ n - Len(table[s]) <= BM!AvailableBlocks - 0
      BY <1>1 DEF BM!CanAllocate
    <3> HIDE DEF n
    <3>3. pc' = "append" => n <= Len(table[s]) \/ n - Len(table[s]) <= BM!AvailableBlocks - 0
      BY <3>1, <3>2
    <3> QED
      BY <3>3 DEF Fits, n
  <2>2. pc' = "append" => Fits(s, Len(tokens[s]), 0)'
    BY <1>1, <2>1 DEF Fits, BM!NumBlocksFor, localVars
  <2>3. DecodeInv /\ Ready(s)'
    BY <1>1 DEF IInv, Ready, localVars
  <2> QED
    BY <1>1, <2>2, <2>3 DEF DecodeInv, DecodePhase, DecodeReady, AtDecode, queueVars, localVars
<1>7. PrefillInv' /\ RunInv' /\ EmitInv'
  BY <1>1 DEF PrefillInv, RunInv, EmitInv, PrefillPhase, RunPhase
<1>8. QED
  BY <1>3, <1>4, <1>5, <1>6, <1>7 DEF IInv

(* may_append takes the block for its next token.                          *)
LEMMA DecodeAppendKeeps ==
  ASSUME Cache!IInv, Cache!IInv', SeqFacts, SeqFacts', IInv, DecodeAppend
  PROVE  IInv'
<1> DEFINE s == Head(cand)
<1>1. /\ pc = "append" /\ pc' = "decode" /\ cand # << >> /\ Len(batch) < MaxNumSeqs
      /\ BM!EnsureBlocks(s, Len(tokens[s]))
      /\ UNCHANGED <<tokens, target, queueVars, batched, chunk, reserve, goal, chunkEnd, pathVars>>
      /\ batch' = Append(batch, s) /\ cand' = Tail(cand)
  BY DEF DecodeAppend, IInv, VisitInv, DecodePhase, seqVars
<1>2. /\ s \in Seqs /\ s \in ToSet(cand) /\ ToSet(cand) \subseteq Seqs /\ ToSet(batch) \subseteq Seqs
      /\ s \notin ToSet(batch) /\ ToSet(cand) \cap ToSet(batch) = {}
      /\ cand' \in Seq(Seqs) /\ IsInjective(cand') /\ ToSet(cand') = ToSet(cand) \ {s}
  BY <1>1, TailOfDistinct, MembersOf DEF IInv, TypeOK, VisitInv, DecodePhase
<1>3. /\ batch' \in Seq(Seqs) /\ IsInjective(batch') /\ ToSet(batch') = ToSet(batch) \cup {s}
      /\ Len(batch') = Len(batch) + 1 /\ Len(batch) \in Nat
  <2>1. batch \in Seq(Seqs) /\ IsInjective(batch)
    BY DEF IInv, TypeOK, BatchInv
  <2>2. s \in Seqs /\ s \notin ToSet(batch)
    BY <1>2
  <2> HIDE DEF s
  <2>3. /\ Append(batch, s) \in Seq(Seqs)
        /\ ToSet(Append(batch, s)) = ToSet(batch) \cup {s}
        /\ IsInjective(batch) /\ s \notin ToSet(batch)
             => IsInjective(Append(batch, s)) /\ IsInjective(<<s>> \o batch)
    BY <2>1, <2>2, OneMore
  <2>4. Len(Append(batch, s)) = Len(batch) + 1 /\ Len(batch) \in Nat
    BY <2>1, <2>2, AppendProperties, LenProperties
  <2> QED
    BY <1>1, <2>1, <2>2, <2>3, <2>4
<1>4. DecodeInv /\ status[s] = "running" /\ AtDecode(s) /\ Len(tokens[s]) \in Nat
  BY <1>1, <1>2, DecodeHead DEF IInv, SeqFacts
<1>5. Others(s) /\ computed' = computed /\ Len(tokens[s]) <= Len(table'[s]) * BlockSize
  BY <1>1, <1>2, <1>4, EnsureCall
<1>6. TypeOK'
  BY <1>1, <1>2, <1>3 DEF IInv, TypeOK, DecodePhase, queueVars, pathVars
<1>7. StagesInv' /\ GrowthInv' /\ QueuesInv'
  <2>1. StagesInv'
    BY <1>1, <1>4, <1>5 DEF IInv, StagesInv, InHand, AtPrefill, AtDecode, Others, queueVars
  <2> QED
    BY <1>1, <2>1 DEF IInv, GrowthInv, Finished, QueuesInv, queueVars
<1>8. BatchInv' /\ VisitInv'
  <2>1. MaxNumSeqs \in Nat
    BY SchedulerAssumption
  <2> QED
    BY <1>1, <1>2, <1>3, <2>1 DEF IInv, BatchInv, VisitInv, AdmitPhase, PrefillPhase, DecodePhase
<1>9. DecodeInv'
  <2>1. \A u \in Seqs : AtDecode(u)' <=> AtDecode(u)
    BY <1>1, <1>5 DEF AtDecode
  <2>2. \A u \in ToSet(batch) : DecodeReady(u)'
    BY <1>1, <1>2, <1>4, <1>5, <2>1 DEF DecodeInv, DecodePhase, DecodeReady, Others, queueVars
  <2>3. ASSUME NEW u \in Seqs, u = s PROVE DecodeReady(u)'
    BY <1>1, <1>4, <1>5, <2>1, <2>3 DEF DecodeReady, queueVars
  <2> QED
    BY <1>1, <1>2, <1>3, <1>4, <2>2, <2>3 DEF DecodeInv, DecodePhase, queueVars
<1>10. PrefillInv' /\ RunInv' /\ EmitInv'
  BY <1>1 DEF PrefillInv, RunInv, EmitInv, PrefillPhase, RunPhase
<1>11. QED
  BY <1>6, <1>7, <1>8, <1>9, <1>10 DEF IInv

(* A preempted sequence, not one of the batch, goes back to waiting with   *)
(* nothing computed.                                                       *)
LEMMA PreemptVictimKeeps ==
  ASSUME Cache!IInv, SeqFacts, SeqFacts', IInv, PreemptVictim
  PROVE  IInv'
<1>1. PICK v \in Seqs :
        /\ v = Victim(Head(cand)) /\ status[v] = "running" /\ v \notin ToSet(batch)
  BY VictimFacts DEF PreemptVictim
<1>2. /\ pc = "preempt" /\ pc' = "decode" /\ BM!Preempt(v)
      /\ running' = RemoveFirst(running, v) /\ waiting' = <<v>> \o waiting
      /\ status' = [status EXCEPT ![v] = "waiting"] /\ age' = [age EXCEPT ![v] = 0]
      /\ UNCHANGED <<localVars, pathVars>>
  BY <1>1 DEF PreemptVictim
<1>3. /\ tokens' = tokens /\ target' = [target EXCEPT ![v] = Len(tokens[v])]
      /\ Others(v) /\ table'[v] = << >> /\ computed'[v] = 0
  BY <1>2, ReleaseCall DEF BM!Preempt
<1>4. /\ running' \in Seq(Seqs) /\ IsInjective(running') /\ ToSet(running') = ToSet(running) \ {v}
  BY <1>2, RemoveFirstFacts DEF IInv, TypeOK, QueuesInv
<1>5. /\ waiting' \in Seq(Seqs) /\ IsInjective(waiting') /\ ToSet(waiting') = ToSet(waiting) \cup {v}
  <2>1. waiting \in Seq(Seqs) /\ IsInjective(waiting) /\ v \notin ToSet(waiting)
    BY <1>1 DEF IInv, TypeOK, QueuesInv
  <2>2. /\ <<v>> \o waiting \in Seq(Seqs)
        /\ ToSet(<<v>> \o waiting) = ToSet(waiting) \cup {v}
        /\ IsInjective(waiting) /\ v \notin ToSet(waiting)
             => IsInjective(Append(waiting, v)) /\ IsInjective(<<v>> \o waiting)
    BY <2>1, OneMore
  <2> QED
    BY <1>2, <2>1, <2>2
<1>6. /\ status \in [Seqs -> Statuses] /\ status'[v] = "waiting"
      /\ \A u \in Seqs : u # v => status'[u] = status[u] /\ target'[u] = target[u]
      /\ target'[v] = Len(tokens[v])
  BY <1>2, <1>3 DEF IInv, TypeOK, SeqFacts
<1>7. TypeOK'
  BY <1>2, <1>4, <1>5 DEF IInv, TypeOK, DecodePhase, Statuses, localVars, pathVars
<1>8. StagesInv'
  <2>1. AtPrefill(v)'
    <3>1. AtPrefill(v) \/ AtDecode(v)
      BY <1>1, <1>2 DEF IInv, StagesInv, InHand
    <3> QED
      BY <1>3, <1>6, <3>1 DEF AtPrefill, AtDecode, SeqFacts
  <2> QED
    BY <1>1, <1>2, <1>3, <1>6, <2>1
    DEF IInv, StagesInv, InHand, AtPrefill, AtDecode, Others, localVars
<1>9. GrowthInv'
  BY <1>1, <1>3, <1>6 DEF IInv, GrowthInv, Finished, FinishReasons
<1>10. QueuesInv'
  BY <1>1, <1>2, <1>4, <1>5, <1>6 DEF IInv, QueuesInv
<1>11. BatchInv' /\ VisitInv'
  BY <1>2 DEF IInv, BatchInv, VisitInv, AdmitPhase, DecodePhase, localVars
<1>12. DecodeInv'
  <2>1. ToSet(batch) \subseteq Seqs /\ ToSet(cand) \subseteq Seqs /\ DecodeInv
    BY MembersOf DEF IInv, TypeOK
  <2> QED
    BY <1>1, <1>2, <1>3, <1>6, <2>1
    DEF DecodeInv, DecodePhase, DecodeReady, AtDecode, Others, localVars
<1>13. PrefillInv' /\ RunInv' /\ EmitInv'
  BY <1>2 DEF PrefillInv, RunInv, EmitInv, PrefillPhase, RunPhase
<1>14. QED
  BY <1>7, <1>8, <1>9, <1>10, <1>11, <1>12, <1>13 DEF IInv

(* The scheduled sequences move to the back of the queue they are in.      *)
LEMMA RotatedBatchFacts ==
  ASSUME IInv, ToSet(batch) \subseteq ToSet(running)
  PROVE  /\ RotatedBatch \in Seq(Seqs) /\ IsInjective(RotatedBatch)
         /\ ToSet(RotatedBatch) = ToSet(running)
<1> DEFINE S == Seqs \ ToSet(batch)
           kept == Filtered(running, S)
<1>1. /\ running \in Seq(Seqs) /\ IsInjective(running) /\ batch \in Seq(Seqs) /\ IsInjective(batch)
      /\ ToSet(running) \subseteq Seqs
  BY MembersOf DEF IInv, TypeOK, QueuesInv, BatchInv
<1> HIDE DEF S
<1>2. /\ kept \in Seq(Seqs) /\ IsInjective(kept) /\ ToSet(kept) = ToSet(running) \cap S
  BY <1>1, FilteredFacts
<1> HIDE DEF kept
<1>3. /\ kept \o batch \in Seq(Seqs) /\ ToSet(kept \o batch) = ToSet(kept) \cup ToSet(batch)
      /\ IsInjective(kept) /\ IsInjective(batch) /\ ToSet(kept) \cap ToSet(batch) = {}
           => IsInjective(kept \o batch)
  BY <1>1, <1>2, ConcatOfDistinct
<1>4. ToSet(kept) \cap ToSet(batch) = {} /\ ToSet(kept) \cup ToSet(batch) = ToSet(running)
  BY <1>1, <1>2 DEF S
<1>5. RotatedBatch = kept \o batch
  BY DEF RotatedBatch, kept, S
<1>6. QED
  BY <1>1, <1>2, <1>3, <1>4, <1>5

(* _schedule_decode ends with a batch, with another attempt or with the    *)
(* RuntimeError.                                                           *)
LEMMA DecodeDoneKeeps ==
  ASSUME SeqFacts, IInv, DecodeDone
  PROVE  IInv'
<1>1. /\ pc = "decode"
      /\ UNCHANGED <<tokens, target, computed, table, waiting, status, age, batch, batched,
                     chunk, reserve, goal, chunkEnd>>
      /\ running' = RotatedBatch
      /\ Dispatch(FALSE)
      /\ batch \in Seq(Seqs) /\ IsInjective(batch)
  BY DEF DecodeDone, bmVars, seqVars, useVars, IInv, TypeOK, BatchInv
<1>2. \A u \in ToSet(batch) : u \in Seqs /\ DecodeReady(u)
  <2>1. ToSet(batch) \subseteq Seqs
    BY <1>1, MembersOf
  <2> QED
    BY <1>1, <2>1 DEF IInv, DecodeInv, DecodePhase
<1>3. running' \in Seq(Seqs) /\ IsInjective(running') /\ ToSet(running') = ToSet(running)
  <2>1. ToSet(batch) \subseteq ToSet(running)
    BY <1>2 DEF DecodeReady, IInv, QueuesInv
  <2> QED
    BY <1>1, <2>1, RotatedBatchFacts
<1>4. CASE /\ batch # << >> /\ pc' = "run" /\ isPrefill' = FALSE /\ lastPrefill' = FALSE
           /\ cand' = batch /\ UNCHANGED fallback
  <2>1. TypeOK'
    BY <1>1, <1>3, <1>4 DEF IInv, TypeOK, RunPhase
  <2>2. StagesInv' /\ GrowthInv' /\ QueuesInv'
    BY <1>1, <1>3, <1>4 DEF IInv, StagesInv, InHand, AtPrefill, AtDecode, GrowthInv, Finished, QueuesInv
  <2>3. RunInv'
    <3>1. \A u : DecodeReady(u)' <=> DecodeReady(u)
      BY <1>1 DEF DecodeReady, AtDecode
    <3> QED
      BY <1>1, <1>2, <1>4, <3>1 DEF RunInv, Todo
  <2> QED
    BY <1>1, <1>4, <2>1, <2>2, <2>3
    DEF IInv, BatchInv, VisitInv, PrefillInv, DecodeInv, EmitInv, AdmitPhase, PrefillPhase, DecodePhase
<1>5. CASE /\ batch = << >> /\ pc' \in {"RuntimeError", "admit"} /\ fallback' = TRUE
           /\ UNCHANGED <<lastPrefill, isPrefill, cand>>
  <2>1. TypeOK'
    BY <1>1, <1>3, <1>5 DEF IInv, TypeOK, Stopped, AdmitPhase
  <2>2. StagesInv' /\ GrowthInv' /\ QueuesInv'
    BY <1>1, <1>3, <1>5 DEF IInv, StagesInv, InHand, AtPrefill, AtDecode, GrowthInv, Finished, QueuesInv
  <2> QED
    BY <1>1, <1>5, <2>1, <2>2
    DEF IInv, BatchInv, VisitInv, PrefillInv, DecodeInv, RunInv, EmitInv, AdmitPhase,
        PrefillPhase, DecodePhase, RunPhase
<1>6. QED
  BY <1>1, <1>4, <1>5 DEF Dispatch, StartPrefill

-----------------------------------------------------------------------------
(* Running and postprocessing                                              *)

(* The run of the model changes no queue and no sequence. *)
LEMMA RunKeeps ==
  ASSUME SeqFacts, IInv, Run
  PROVE  IInv'
<1>1. /\ pc = "run" /\ pc' = "post"
      /\ UNCHANGED <<tokens, target, computed, table, queueVars, localVars, pathVars>>
  BY DEF Run, bmVars, seqVars, useVars
<1>2. TypeOK'
  BY <1>1 DEF IInv, TypeOK, RunPhase, queueVars, localVars, pathVars
<1>3. StagesInv' /\ GrowthInv' /\ QueuesInv'
  BY <1>1, Quiet DEF queueVars
<1>4. RunInv'
  BY <1>1 DEF IInv, RunInv, RunPhase, Todo, PrefillReady, DecodeReady, AtPrefill, AtDecode,
              queueVars, localVars, pathVars
<1>5. QED
  BY <1>1, <1>2, <1>3, <1>4
  DEF IInv, BatchInv, VisitInv, PrefillInv, DecodeInv, EmitInv, AdmitPhase, PrefillPhase,
      DecodePhase, localVars

(* The members of the list that are still to visit are not its head.       *)
LEMMA PostHead ==
  ASSUME IInv, pc \in {"post", "emit", "release"}, cand # << >>
  PROVE  /\ Head(cand) \in Seqs /\ Head(cand) \in ToSet(cand)
         /\ Tail(cand) \in Seq(Seqs) /\ IsInjective(Tail(cand))
         /\ ToSet(Tail(cand)) = ToSet(cand) \ {Head(cand)}
         /\ ToSet(Tail(cand)) \subseteq Seqs
<1>1. cand \in Seq(Seqs) /\ IsInjective(cand)
  BY DEF IInv, TypeOK, RunInv, RunPhase
<1>2. /\ Head(cand) \in Seqs /\ Head(cand) \in ToSet(cand)
      /\ Tail(cand) \in Seq(Seqs) /\ IsInjective(Tail(cand))
      /\ ToSet(Tail(cand)) = ToSet(cand) \ {Head(cand)}
  BY <1>1, TailOfDistinct
<1>3. QED
  BY <1>2, MembersOf

(* postprocess counts what was computed and publishes it.                  *)
LEMMA PostCommitKeeps ==
  ASSUME SeqFacts, IInv, PostCommit
  PROVE  IInv'
<1>1. PICK s \in Seqs : s = Head(cand) /\ s \in ToSet(cand) /\ s \notin ToSet(Tail(cand))
                        /\ ToSet(Tail(cand)) \subseteq ToSet(cand) /\ ToSet(Tail(cand)) \subseteq Seqs
  BY PostHead DEF PostCommit
<1> DEFINE u == CommitTo(s)
<1>2. /\ pc = "post" /\ pc' = "emit" /\ cand # << >>
      /\ UNCHANGED <<tokens, target, table, queueVars, cand, batch, batched, chunk, reserve,
                     goal, pathVars>>
      /\ computed' = [computed EXCEPT ![s] = u]
      /\ chunkEnd' = [chunkEnd EXCEPT ![s] = 0]
  BY <1>1 DEF PostCommit, BM!Commit, seqVars
<1>3. /\ isPrefill => PrefillReady(s)
      /\ ~isPrefill => DecodeReady(s)
  BY <1>1, <1>2 DEF IInv, RunInv, RunPhase, Todo
<1>4. /\ status[s] = "running"
      /\ isPrefill => target[s] = Len(tokens[s]) /\ u <= target[s]
      /\ ~isPrefill => target[s] <= u /\ u = Len(tokens[s]) /\ MaxTokens[s] > 0
  <2>1. CASE isPrefill
    BY <1>3, <2>1 DEF PrefillReady, AtPrefill, CommitTo
  <2>2. CASE ~isPrefill
    BY <1>3, <2>2 DEF DecodeReady, AtDecode, CommitTo, MaxOf, SeqFacts
  <2> QED
    BY <2>1, <2>2
<1> HIDE DEF u
<1>5. /\ computed'[s] = u /\ \A v \in Seqs : v # s => computed'[v] = computed[v]
      /\ \A v \in Seqs : v # s => chunkEnd'[v] = chunkEnd[v]
  BY <1>2 DEF SeqFacts, IInv, TypeOK
<1>6. TypeOK'
  BY <1>2 DEF IInv, TypeOK, RunPhase, queueVars, pathVars
<1>7. StagesInv' /\ GrowthInv' /\ QueuesInv'
  <2>1. StagesInv'
    BY <1>1, <1>2, <1>5 DEF IInv, StagesInv, InHand, AtPrefill, AtDecode, queueVars
  <2> QED
    BY <1>2, <2>1 DEF IInv, GrowthInv, Finished, QueuesInv, queueVars
<1>8. RunInv'
  <2>1. ASSUME NEW v \in ToSet(Tail(cand))
        PROVE  IF isPrefill THEN PrefillReady(v)' ELSE DecodeReady(v)'
    <3>1. v \in Seqs /\ v # s /\ v \in ToSet(cand)
      BY <1>1
    <3>2. IF isPrefill THEN PrefillReady(v) ELSE DecodeReady(v)
      BY <1>2, <3>1 DEF IInv, RunInv, RunPhase, Todo
    <3> QED
      BY <1>2, <1>5, <3>1, <3>2 DEF PrefillReady, DecodeReady, AtPrefill, AtDecode, queueVars
  <2> QED
    BY <1>2, <2>1 DEF IInv, RunInv, RunPhase, Todo, pathVars
<1>9. EmitInv'
  BY <1>1, <1>2, <1>4, <1>5 DEF EmitInv, queueVars, pathVars
<1>10. QED
  BY <1>2, <1>6, <1>7, <1>8, <1>9
  DEF IInv, BatchInv, VisitInv, PrefillInv, DecodeInv, AdmitPhase, PrefillPhase, DecodePhase

(* After the head has been dealt with, the rest is as it was.              *)
LEMMA RestKeeps ==
  ASSUME SeqFacts, IInv, pc \in {"emit", "release"}, pc' \in {"post", "release"},
         UNCHANGED <<target, batch, batched, chunk, reserve, goal, chunkEnd, pathVars>>,
         cand' = IF pc' = "post" THEN Tail(cand) ELSE cand,
         \A v \in Seqs : v # Head(cand) =>
           /\ tokens'[v] = tokens[v] /\ computed'[v] = computed[v]
           /\ table'[v] = table[v] /\ status'[v] = status[v]
  PROVE  /\ cand' \in Seq(Seqs) /\ IsInjective(cand')
         /\ BatchInv' /\ VisitInv' /\ PrefillInv' /\ DecodeInv' /\ RunInv'
<1>1. /\ cand # << >> /\ cand \in Seq(Seqs) /\ IsInjective(cand)
      /\ Tail(cand) \in Seq(Seqs) /\ IsInjective(Tail(cand))
      /\ ToSet(Tail(cand)) = ToSet(cand) \ {Head(cand)} /\ ToSet(Tail(cand)) \subseteq Seqs
  <2>1. cand # << >> /\ cand \in Seq(Seqs) /\ IsInjective(cand)
    BY DEF IInv, TypeOK, RunInv, RunPhase
  <2> QED
    BY <2>1, PostHead
<1>2. Todo' = Tail(cand) /\ Todo = Tail(cand)
  BY DEF Todo
<1>3. \A v \in ToSet(Tail(cand)) : IF isPrefill THEN PrefillReady(v)' ELSE DecodeReady(v)'
  <2>1. \A v \in ToSet(Tail(cand)) : v \in Seqs /\ v # Head(cand)
                                     /\ IF isPrefill THEN PrefillReady(v) ELSE DecodeReady(v)
    BY <1>1, <1>2 DEF IInv, RunInv, RunPhase
  <2> QED
    BY <2>1 DEF PrefillReady, DecodeReady, AtPrefill, AtDecode
<1>4. RunInv'
  BY <1>1, <1>2, <1>3 DEF RunInv, pathVars
<1>5. QED
  BY <1>1, <1>4
  DEF IInv, BatchInv, VisitInv, PrefillInv, DecodeInv, AdmitPhase, PrefillPhase, DecodePhase

(* A chunk that is not the last emits nothing.                             *)
LEMMA EmitNothingKeeps ==
  ASSUME SeqFacts, IInv, EmitNothing
  PROVE  IInv'
<1>1. /\ pc = "emit" /\ pc' = "post" /\ cand' = Tail(cand) /\ isPrefill /\ ~Ready(Head(cand))
      /\ UNCHANGED <<tokens, target, computed, table, queueVars, batch, batched, chunk, reserve,
                     goal, chunkEnd, pathVars>>
  BY DEF EmitNothing, bmVars, seqVars, useVars
<1>2. PICK s \in Seqs : s = Head(cand)
  BY <1>1, PostHead DEF IInv, RunInv, RunPhase
<1>3. /\ cand' \in Seq(Seqs) /\ IsInjective(cand')
      /\ BatchInv' /\ VisitInv' /\ PrefillInv' /\ DecodeInv' /\ RunInv'
  BY <1>1, RestKeeps DEF queueVars
<1>4. status[s] = "running" /\ AtPrefill(s)
  BY <1>1, <1>2 DEF IInv, EmitInv, AtPrefill, Ready, SeqFacts
<1>5. TypeOK'
  BY <1>1, <1>3 DEF IInv, TypeOK, RunPhase, queueVars, pathVars
<1>6. StagesInv' /\ GrowthInv' /\ QueuesInv' /\ EmitInv'
  <2>1. StagesInv'
    BY <1>1, <1>2, <1>4 DEF IInv, StagesInv, InHand, AtPrefill, AtDecode, queueVars
  <2> QED
    BY <1>1, <2>1 DEF IInv, GrowthInv, Finished, QueuesInv, EmitInv, queueVars
<1>7. QED
  BY <1>3, <1>5, <1>6 DEF IInv

(* A sequence that has got what it asked for is finished where it stands.  *)
LEMMA EmitWarmedKeeps ==
  ASSUME SeqFacts, IInv, EmitWarmed
  PROVE  IInv'
<1>1. PICK s \in Seqs : s = Head(cand)
  BY PostHead DEF EmitWarmed, IInv, RunInv, RunPhase
<1>2. /\ pc = "emit" /\ pc' = "release"
      /\ UNCHANGED <<tokens, target, computed, table, waiting, running, age, localVars, pathVars>>
      /\ status' = [status EXCEPT ![s] = "cache_warmed"]
      /\ status \in [Seqs -> Statuses]
  BY <1>1 DEF EmitWarmed, bmVars, seqVars, useVars, IInv, TypeOK
<1>3. status'[s] = "cache_warmed" /\ \A v \in Seqs : v # s => status'[v] = status[v]
  BY <1>2
<1>4. BatchInv' /\ VisitInv' /\ PrefillInv' /\ DecodeInv' /\ RunInv'
  BY <1>1, <1>2, <1>3, RestKeeps DEF localVars
<1>5. TypeOK'
  BY <1>2 DEF IInv, TypeOK, RunPhase, Statuses, FinishReasons, localVars, pathVars
<1>6. StagesInv' /\ GrowthInv'
  BY <1>1, <1>2, <1>3
  DEF IInv, StagesInv, InHand, AtPrefill, AtDecode, GrowthInv, Finished, FinishReasons, localVars
<1>7. QueuesInv' /\ EmitInv'
  <2>1. status[s] = "running"
    BY <1>1, <1>2 DEF IInv, EmitInv
  <2> QED
    BY <1>1, <1>2, <1>3, <2>1 DEF IInv, QueuesInv, EmitInv, Finished, FinishReasons, localVars
<1>8. QED
  BY <1>4, <1>5, <1>6, <1>7 DEF IInv

(* A token is appended, and may be the last.                               *)
LEMMA EmitTokenKeeps ==
  ASSUME SeqFacts, SeqFacts', IInv, NEW t \in Tokens, EmitToken(t)
  PROVE  IInv'
<1>1. PICK s \in Seqs : s = Head(cand)
  BY PostHead DEF EmitToken, IInv, RunInv, RunPhase
<1> DEFINE reason == IF ~IgnoreEos[s] /\ t = Eos THEN "stop"
                     ELSE IF Len(tokens[s]) + 1 - Len(Prompt[s]) >= MaxTokens[s] THEN "length"
                     ELSE status[s]
<1>2. /\ pc = "emit"
      /\ isPrefill => Ready(s) /\ MaxTokens[s] > 0
      /\ tokens' = [tokens EXCEPT ![s] = Append(@, t)]
      /\ UNCHANGED <<target, computed, table>>
      /\ status' = [status EXCEPT ![s] = reason]
      /\ UNCHANGED <<waiting, running, age, batch, batched, chunk, reserve, goal, chunkEnd, pathVars>>
      /\ IF reason \in FinishReasons THEN pc' = "release" /\ cand' = cand
         ELSE pc' = "post" /\ cand' = Tail(cand)
      /\ status \in [Seqs -> Statuses]
  BY <1>1 DEF EmitToken, useVars, IInv, TypeOK
<1>3. /\ status'[s] = reason /\ \A v \in Seqs : v # s => status'[v] = status[v]
      /\ tokens'[s] = Append(tokens[s], t) /\ \A v \in Seqs : v # s => tokens'[v] = tokens[v]
      /\ Len(tokens'[s]) = Len(tokens[s]) + 1 /\ Len(tokens[s]) \in Nat
  <2>1. tokens[s] \in Seq(Tokens)
    BY DEF SeqFacts
  <2> QED
    BY <1>2, <2>1, AppendProperties, LenProperties DEF SeqFacts
<1>4. /\ status[s] = "running" /\ computed[s] = Len(tokens[s]) /\ target[s] <= computed[s]
      /\ MaxTokens[s] > 0 /\ MaxTokens[s] \in Nat /\ Len(Prompt[s]) \in Nat
  <2>1. status[s] = "running" /\ computed[s] = Len(tokens[s]) /\ target[s] <= computed[s]
        /\ MaxTokens[s] > 0
    BY <1>1, <1>2 DEF IInv, EmitInv, Ready, SeqFacts
  <2>2. Prompt[s] \in Seq(Tokens)
    BY RequestAssumption
  <2> QED
    BY <2>1, <2>2, RequestAssumption, LenProperties
<1>5. /\ reason \in {"stop", "length", "running"}
      /\ reason = "running" => Len(tokens[s]) + 1 < Len(Prompt[s]) + MaxTokens[s]
  <2> DEFINE stops == ~IgnoreEos[s] /\ t = Eos
             full == Len(tokens[s]) + 1 - Len(Prompt[s]) >= MaxTokens[s]
  <2>1. reason = IF stops THEN "stop" ELSE IF full THEN "length" ELSE "running"
    BY <1>4
  <2>2. ~full => Len(tokens[s]) + 1 < Len(Prompt[s]) + MaxTokens[s]
    <3>1. Len(tokens[s]) \in Nat /\ Len(Prompt[s]) \in Nat /\ MaxTokens[s] \in Nat
      BY <1>3, <1>4
    <3>2. \A a, b, c \in Nat : ~(a + 1 - b >= c) => a + 1 < b + c
      OBVIOUS
    <3> QED
      BY <3>1, <3>2
  <2> HIDE DEF reason, stops, full
  <2> QED
    BY <2>1, <2>2
<1> HIDE DEF reason
<1>6. /\ cand' \in Seq(Seqs) /\ IsInjective(cand')
      /\ BatchInv' /\ VisitInv' /\ PrefillInv' /\ DecodeInv' /\ RunInv'
  <2>1. pc' \in {"post", "release"} /\ cand' = IF pc' = "post" THEN Tail(cand) ELSE cand
    BY <1>2
  <2>2. \A v \in Seqs : v # Head(cand) =>
           /\ tokens'[v] = tokens[v] /\ computed'[v] = computed[v]
           /\ table'[v] = table[v] /\ status'[v] = status[v]
    BY <1>1, <1>2, <1>3
  <2> QED
    BY <1>2, <2>1, <2>2, RestKeeps
<1>7. TypeOK'
  <2>1. status' \in [Seqs -> Statuses] /\ pc' \in RunPhase
    BY <1>2, <1>5 DEF Statuses, FinishReasons, RunPhase
  <2> QED
    BY <1>2, <1>6, <2>1 DEF IInv, TypeOK, pathVars
<1>8. StagesInv'
  <2>1. CASE reason = "running"
    <3>1. AtDecode(s)'
      BY <1>2, <1>3, <1>4 DEF AtDecode
    <3> QED
      BY <1>1, <1>2, <1>3, <2>1, <3>1
      DEF IInv, StagesInv, InHand, AtPrefill, AtDecode, FinishReasons
  <2>2. CASE reason # "running"
    BY <1>1, <1>2, <1>3, <1>5, <2>2
    DEF IInv, StagesInv, InHand, AtPrefill, AtDecode, FinishReasons
  <2> QED
    BY <2>1, <2>2
<1>9. GrowthInv'
  BY <1>2, <1>3, <1>5 DEF IInv, GrowthInv, Finished, FinishReasons
<1>10. QueuesInv' /\ EmitInv'
  BY <1>1, <1>2, <1>3, <1>4, <1>5 DEF IInv, QueuesInv, EmitInv, Finished, FinishReasons
<1>11. QED
  BY <1>6, <1>7, <1>8, <1>9, <1>10 DEF IInv

(* A finished sequence leaves running and its blocks.                      *)
LEMMA FinishReleaseKeeps ==
  ASSUME Cache!IInv, SeqFacts, SeqFacts', IInv, FinishRelease
  PROVE  IInv'
<1>1. PICK s \in Seqs : s = Head(cand)
  BY PostHead DEF FinishRelease, IInv, RunInv, RunPhase
<1>2. /\ pc = "release" /\ pc' = "post" /\ cand' = Tail(cand)
      /\ UNCHANGED <<tokens, target>> /\ BM!Deallocate(s)
      /\ running' = RemoveFirst(running, s)
      /\ UNCHANGED <<waiting, status, age, batch, batched, chunk, reserve, goal, chunkEnd, pathVars>>
  BY <1>1 DEF FinishRelease, BM!Retire, BM!seqVars
<1>3. Others(s) /\ table'[s] = << >> /\ computed'[s] = 0
  BY <1>2, ReleaseCall
<1>4. Finished(s) /\ status[s] \notin {"new", "waiting", "running"}
  BY <1>1, <1>2 DEF IInv, EmitInv, Finished, FinishReasons
<1>5. /\ running' \in Seq(Seqs) /\ IsInjective(running') /\ ToSet(running') = ToSet(running) \ {s}
  BY <1>2, RemoveFirstFacts DEF IInv, TypeOK, QueuesInv
<1>6. /\ cand' \in Seq(Seqs) /\ IsInjective(cand')
      /\ BatchInv' /\ VisitInv' /\ PrefillInv' /\ DecodeInv' /\ RunInv'
  <2>1. \A v \in Seqs : v # Head(cand) =>
           /\ tokens'[v] = tokens[v] /\ computed'[v] = computed[v]
           /\ table'[v] = table[v] /\ status'[v] = status[v]
    BY <1>1, <1>2, <1>3 DEF Others
  <2> QED
    BY <1>2, <2>1, RestKeeps
<1>7. TypeOK'
  BY <1>2, <1>5, <1>6 DEF IInv, TypeOK, RunPhase, pathVars
<1>8. StagesInv' /\ GrowthInv'
  BY <1>1, <1>2, <1>3, <1>4
  DEF IInv, StagesInv, InHand, AtPrefill, AtDecode, Others, GrowthInv, Finished
<1>9. QueuesInv' /\ EmitInv'
  BY <1>1, <1>2, <1>4, <1>5 DEF IInv, QueuesInv, EmitInv
<1>10. QED
  BY <1>6, <1>7, <1>8, <1>9 DEF IInv

(* The step returns.                                                       *)
LEMMA StepReturnsKeeps ==
  ASSUME SeqFacts, IInv, StepReturns
  PROVE  IInv'
<1>1. /\ pc = "post" /\ pc' = "idle" /\ batch' = << >> /\ isPrefill' = FALSE /\ fallback' = FALSE
      /\ batched' = 0 /\ chunk' = 0 /\ reserve' = 0 /\ goal' = 0
      /\ UNCHANGED <<tokens, target, computed, table, queueVars, cand, chunkEnd, lastPrefill>>
  BY DEF StepReturns, bmVars, seqVars, useVars
<1>2. /\ batch' \in Seq(Seqs) /\ IsInjective(batch') /\ Len(batch') = 0 /\ MaxNumSeqs \in Nat
  <2>1. << >> \in Seq(Seqs) /\ Len(<< >>) = 0 /\ IsInjective(<< >>)
    BY EmptySeq DEF IsInjective
  <2> QED
    BY <1>1, <2>1, SchedulerAssumption
<1>3. TypeOK'
  BY <1>1, <1>2 DEF IInv, TypeOK, AdmitPhase, queueVars
<1>4. StagesInv' /\ GrowthInv' /\ QueuesInv'
  BY <1>1, Quiet DEF queueVars
<1>5. QED
  BY <1>1, <1>2, <1>3, <1>4
  DEF IInv, BatchInv, VisitInv, PrefillInv, DecodeInv, RunInv, EmitInv, PrefillPhase,
      DecodePhase, RunPhase

(* The assertion of prepare_prefill ends the engine.                       *)
LEMMA PrepareFailsKeeps ==
  ASSUME SeqFacts, IInv, PrepareFails
  PROVE  IInv'
<1>1. /\ pc = "ensure" /\ pc' = "AssertionError"
      /\ UNCHANGED <<tokens, target, computed, table, queueVars, localVars, pathVars>>
  BY DEF PrepareFails, bmVars, seqVars, useVars
<1>2. TypeOK'
  BY <1>1 DEF IInv, TypeOK, Stopped, queueVars, localVars, pathVars
<1>3. StagesInv' /\ GrowthInv' /\ QueuesInv'
  BY <1>1, Quiet DEF queueVars
<1>4. QED
  BY <1>1, <1>2, <1>3
  DEF IInv, BatchInv, VisitInv, PrefillInv, DecodeInv, RunInv, EmitInv, AdmitPhase,
      PrefillPhase, DecodePhase, RunPhase, localVars

-----------------------------------------------------------------------------
(* Between steps                                                           *)

(* While no step runs, only the queues and the stages can go wrong.        *)
LEMMA BetweenSteps ==
  ASSUME IInv, pc = "idle", UNCHANGED <<localVars, pathVars, pc>>,
         waiting' \in Seq(Seqs), running' \in Seq(Seqs), status' \in [Seqs -> Statuses],
         age' \in [Seqs -> Nat], StagesInv', GrowthInv', QueuesInv'
  PROVE  IInv'
<1>1. TypeOK'
  BY DEF IInv, TypeOK, localVars, pathVars
<1>2. QED
  BY <1>1
  DEF IInv, BatchInv, VisitInv, PrefillInv, DecodeInv, RunInv, EmitInv, AdmitPhase,
      PrefillPhase, DecodePhase, RunPhase, localVars

(* A request is added.                                                     *)
LEMMA AddKeeps ==
  ASSUME SeqFacts, IInv, NEW s \in Seqs, Add(s)
  PROVE  IInv'
<1>1. /\ pc = "idle" /\ status[s] = "new" /\ waiting' = Append(waiting, s)
      /\ status' = [status EXCEPT ![s] = "waiting"] /\ status \in [Seqs -> Statuses]
      /\ UNCHANGED <<tokens, target, computed, table, running, age, localVars, pathVars, pc>>
  BY DEF Add, Enqueued, bmVars, seqVars, useVars, IInv, TypeOK
<1>2. status'[s] = "waiting" /\ \A u \in Seqs : u # s => status'[u] = status[u]
  BY <1>1
<1>3. waiting' \in Seq(Seqs) /\ IsInjective(waiting') /\ ToSet(waiting') = ToSet(waiting) \cup {s}
  <2>1. waiting \in Seq(Seqs) /\ IsInjective(waiting) /\ s \notin ToSet(waiting)
    BY <1>1 DEF IInv, TypeOK, QueuesInv
  <2>2. /\ Append(waiting, s) \in Seq(Seqs)
        /\ ToSet(Append(waiting, s)) = ToSet(waiting) \cup {s}
        /\ IsInjective(waiting) /\ s \notin ToSet(waiting)
             => IsInjective(Append(waiting, s)) /\ IsInjective(<<s>> \o waiting)
    BY <2>1, OneMore
  <2> QED
    BY <1>1, <2>1, <2>2
<1>4. StagesInv' /\ GrowthInv'
  BY <1>1, <1>2
  DEF IInv, StagesInv, InHand, AtPrefill, AtDecode, GrowthInv, Finished, FinishReasons
<1>5. QueuesInv'
  BY <1>1, <1>2, <1>3 DEF IInv, QueuesInv
<1>6. status' \in [Seqs -> Statuses] /\ running' \in Seq(Seqs) /\ age' \in [Seqs -> Nat]
  BY <1>1 DEF IInv, TypeOK, Statuses
<1>7. QED
  BY <1>1, <1>3, <1>4, <1>5, <1>6, BetweenSteps

(* A request is aborted, wherever it is.                                   *)
LEMMA AbortKeeps ==
  ASSUME Cache!IInv, SeqFacts, SeqFacts', IInv, NEW s \in Seqs, Abort(s)
  PROVE  IInv'
<1>1. /\ pc = "idle" /\ status[s] \in {"waiting", "running"}
      /\ waiting' = RemoveFirst(waiting, s) /\ running' = RemoveFirst(running, s)
      /\ age' = [age EXCEPT ![s] = 0]
      /\ status' = [status EXCEPT ![s] = "cancelled"] /\ status \in [Seqs -> Statuses]
      /\ UNCHANGED <<localVars, pathVars, pc>>
  BY DEF Abort, IInv, TypeOK
<1>2. UNCHANGED <<tokens, target>> /\ Others(s) /\ table'[s] = << >>
  <2>1. CASE table[s] # << >>
    BY <2>1, ReleaseCall DEF Abort, BM!Retire, BM!seqVars
  <2>2. CASE table[s] = << >>
    BY <2>2 DEF Abort, Others, bmVars, seqVars, useVars
  <2> QED
    BY <2>1, <2>2
<1>3. status'[s] = "cancelled" /\ \A u \in Seqs : u # s => status'[u] = status[u]
  BY <1>1
<1>4. /\ waiting' \in Seq(Seqs) /\ IsInjective(waiting') /\ ToSet(waiting') = ToSet(waiting) \ {s}
      /\ running' \in Seq(Seqs) /\ IsInjective(running') /\ ToSet(running') = ToSet(running) \ {s}
  BY <1>1, RemoveFirstFacts DEF IInv, TypeOK, QueuesInv
<1>5. StagesInv' /\ GrowthInv'
  BY <1>1, <1>2, <1>3
  DEF IInv, StagesInv, InHand, AtPrefill, AtDecode, Others, GrowthInv, Finished, FinishReasons
<1>6. QueuesInv'
  BY <1>1, <1>3, <1>4 DEF IInv, QueuesInv
<1>7. status' \in [Seqs -> Statuses] /\ age' \in [Seqs -> Nat]
  BY <1>1 DEF IInv, TypeOK, Statuses, FinishReasons
<1>8. QED
  BY <1>1, <1>4, <1>5, <1>6, <1>7, BetweenSteps

(* A finished request comes again.                                         *)
LEMMA ResubmitKeeps ==
  ASSUME SeqFacts, IInv, NEW s \in Seqs, Resubmit(s)
  PROVE  IInv'
<1>1. /\ pc = "idle" /\ Finished(s)
      /\ status' = [status EXCEPT ![s] = "new"] /\ status \in [Seqs -> Statuses]
      /\ table[s] = << >> /\ computed[s] = 0
      /\ tokens' = [tokens EXCEPT ![s] = Prompt[s]]
      /\ target' = [target EXCEPT ![s] = Len(Prompt[s])]
      /\ UNCHANGED <<computed, table, waiting, running, age, localVars, pathVars, pc>>
  BY DEF Resubmit, BM!Renew, BM!bmVars, BM!useVars, IInv, TypeOK
<1>2. /\ status'[s] = "new" /\ tokens'[s] = Prompt[s] /\ target'[s] = Len(Prompt[s])
      /\ \A u \in Seqs : u # s =>
           status'[u] = status[u] /\ tokens'[u] = tokens[u] /\ target'[u] = target[u]
  BY <1>1 DEF SeqFacts
<1>3. Len(Prompt[s]) \in Nat /\ Len(Prompt[s]) > 0 /\ MaxTokens[s] \in Nat
  BY RequestAssumption, LenProperties, EmptySeq
<1>4. StagesInv' /\ GrowthInv'
  BY <1>1, <1>2, <1>3
  DEF IInv, StagesInv, InHand, AtPrefill, AtDecode, GrowthInv, Finished, FinishReasons
<1>5. QueuesInv'
  BY <1>1, <1>2 DEF IInv, QueuesInv, Finished, FinishReasons
<1>6. /\ status' \in [Seqs -> Statuses] /\ waiting' \in Seq(Seqs) /\ running' \in Seq(Seqs)
      /\ age' \in [Seqs -> Nat]
  BY <1>1 DEF IInv, TypeOK, Statuses
<1>7. QED
  BY <1>1, <1>4, <1>5, <1>6, BetweenSteps

(* The cache is purged from outside.                                       *)
LEMMA PurgeKeeps ==
  ASSUME SeqFacts, IInv, PurgePrefixCache
  PROVE  IInv'
<1>1. /\ pc = "idle" /\ UNCHANGED <<tokens, target, computed, table, queueVars, localVars, pathVars, pc>>
  BY DEF PurgePrefixCache, BM!PurgeAction, BM!PurgeExpired, BM!PurgeCachedBlocks,
         BM!PurgeExpiredCachedBlocks, BM!Purge, BM!useVars, BM!seqVars
<1>2. StagesInv' /\ GrowthInv' /\ QueuesInv'
  BY <1>1, Quiet DEF queueVars
<1>3. QED
  BY <1>1, <1>2, BetweenSteps DEF queueVars, IInv, TypeOK

-----------------------------------------------------------------------------
(* The invariant                                                           *)

(* Each turn has a lemma above; this puts them together. *)
LEMMA NextKeeps ==
  ASSUME Cache!IInv, Cache!IInv', IInv, [Next]_vars
  PROVE  IInv'
<1>1. SeqFacts /\ SeqFacts'
  BY CacheGives, PTL
<1>2. CASE UNCHANGED vars
  BY <1>1, <1>2, TimePassesKeeps DEF vars, bmVars, seqVars, useVars, poolVars
<1>3. CASE TimePasses
  BY <1>1, <1>3, TimePassesKeeps DEF TimePasses, BM!Expire, BM!seqVars, BM!useVars
<1>4. CASE Scheduling
  BY <1>1, <1>4, ScheduleKeeps, AdmitKeeps, AdmitMatchKeeps, AdmitAllocateKeeps, PrefillInitKeeps,
     PrefillVisitKeeps, PrepareMatchKeeps, PrepareEnsureKeeps, PrepareFailsKeeps,
     PrefillDoneKeeps, DecodeSkipKeeps, DecodeVisitKeeps, DecodeAppendKeeps,
     PreemptVictimKeeps, DecodeDoneKeeps
  DEF Scheduling
<1>5. CASE Run \/ Postprocessing
  BY <1>1, <1>5, RunKeeps, PostCommitKeeps, EmitNothingKeeps, EmitWarmedKeeps, EmitTokenKeeps,
     FinishReleaseKeeps, StepReturnsKeeps
  DEF Postprocessing
<1>6. ASSUME NEW s \in Seqs, Add(s) \/ Abort(s) \/ Resubmit(s)
      PROVE  IInv'
  BY <1>1, <1>6, AddKeeps, AbortKeeps, ResubmitKeeps
<1>7. CASE PurgePrefixCache
  BY <1>1, <1>7, PurgeKeeps
<1>8. QED
  BY <1>2, <1>3, <1>4, <1>5, <1>6, <1>7 DEF Next, Step, Environment

(* The invariant holds at first.                                           *)
LEMMA InitEstablishes == Init => IInv
<1> SUFFICES ASSUME Init PROVE IInv
  OBVIOUS
<1>1. /\ waiting = << >> /\ running = << >> /\ cand = << >> /\ batch = << >> /\ pc = "idle"
      /\ status = [s \in Seqs |-> "new"]
      /\ tokens = Prompt /\ target = [s \in Seqs |-> Len(Prompt[s])]
      /\ computed = [s \in Seqs |-> 0] /\ table = [s \in Seqs |-> << >>]
  BY DEF Init, BM!Init
<1>2. << >> \in Seq(Seqs) /\ Len(<< >>) = 0 /\ IsInjective(<< >>) /\ ToSet(<< >>) = {}
  BY EmptySeq, MembersOf DEF IsInjective
<1>3. TypeOK
  BY <1>2 DEF Init, TypeOK, Statuses, AdmitPhase
<1>4. ASSUME NEW s \in Seqs
      PROVE  Len(Prompt[s]) \in Nat /\ Len(Prompt[s]) > 0 /\ MaxTokens[s] \in Nat
  BY RequestAssumption, LenProperties, EmptySeq
<1>5. StagesInv /\ GrowthInv
  BY <1>1, <1>4 DEF StagesInv, InHand, AtPrefill, GrowthInv
<1>6. QueuesInv /\ BatchInv
  BY <1>1, <1>2, SchedulerAssumption DEF QueuesInv, BatchInv
<1>7. VisitInv /\ PrefillInv /\ DecodeInv /\ RunInv /\ EmitInv
  BY <1>1 DEF VisitInv, PrefillInv, DecodeInv, RunInv, EmitInv, PrefillPhase, DecodePhase, RunPhase
<1>8. QED
  BY <1>3, <1>5, <1>6, <1>7 DEF IInv

(* The two invariants hold together: each step is a call the block manager *)
(* allows because of the scheduler's, and keeps the scheduler's because of *)
(* what the call gives.                                                    *)
LEMMA Invariants == Spec => [](Cache!IInv /\ IInv)
<1>1. Init => Cache!IInv /\ IInv
  <2>1. Init => Cache!Init
    BY SameNext DEF Init
  <2>2. Cache!Init => Cache!IInv
    BY CacheAssumptions, Cache!IInvInit, Zenon
  <2> QED
    BY <2>1, <2>2, InitEstablishes
<1>2. Cache!IInv /\ IInv /\ [Next]_vars => (Cache!IInv /\ IInv)'
  <2> SUFFICES ASSUME Cache!IInv, IInv, [Next]_vars PROVE (Cache!IInv /\ IInv)'
    OBVIOUS
  <2>1. [BM!Next]_BM!vars
    BY CacheGives, EveryCallIsAllowed
  <2>2. Cache!IInv'
    BY <2>1, SameNext, CacheKeeps
  <2> QED
    BY <2>2, NextKeeps
<1>3. QED
  BY <1>1, <1>2, PTL DEF Spec

(* The scheduler's inductive invariant: where every request is, what it    *)
(* has computed, and what the loop in hand has already promised.           *)
THEOREM Invariance == Spec => []IInv
BY Invariants, PTL

(* The variables of the scheduler keep their types.                        *)
THEOREM TypeCorrect == Spec => []TypeOK
<1>1. IInv => TypeOK
  BY DEF IInv
<1>2. QED
  BY <1>1, Invariance, PTL

(* Every call of the scheduler respects the contract of the block manager, *)
(* whatever the policy, the limits and the size of the pool.               *)
THEOREM CallsAreAllowed == Spec => ImplementsBlockManager
<1>1. Init => BM!Init
  BY DEF Init
<1>2. Cache!IInv /\ IInv /\ [Next]_vars => [BM!Next]_BM!vars
  BY CacheGives, EveryCallIsAllowed
<1>3. QED
  BY <1>1, <1>2, Invariants, PTL DEF Spec, ImplementsBlockManager, BM!Spec

(* No prompt token is billed twice by the batches, chunks and preemptions  *)
(* of the scheduler.                                                       *)
THEOREM UsageIsExact == Spec => []UsageAddsUp
<1>1. BM!Spec => Cache!Spec
  <2>1. /\ BM!Init => Cache!Init
        /\ [BM!Next]_BM!vars => [Cache!Next]_Cache!vars
    BY SameNext
  <2> QED
    BY <2>1, PTL DEF BM!Spec, Cache!Spec
<1>2. Cache!Spec => []Cache!UsageAddsUp
  BY CacheAssumptions, Cache!UsageIsExact, PTL
<1>3. Cache!UsageAddsUp => UsageAddsUp
  BY DEF Cache!UsageAddsUp, BM!UsageAddsUp, UsageAddsUp
<1>4. QED
  BY <1>1, <1>2, <1>3, CallsAreAllowed, PTL DEF ImplementsBlockManager

(* Between steps every request is in the queue its status names, once, and *)
(* one that is in no queue holds no block.                                 *)
THEOREM QueuesFollowStatus == Spec => []QueuesMatchStatus
<1>1. IInv => QueuesMatchStatus
  <2> SUFFICES ASSUME IInv, pc = "idle"
               PROVE  /\ Len(waiting) = Cardinality(ToSet(waiting))
                      /\ Len(running) = Cardinality(ToSet(running))
                      /\ ToSet(waiting) = {s \in Seqs : status[s] = "waiting"}
                      /\ ToSet(running) = {s \in Seqs : status[s] = "running"}
                      /\ \A s \in Seqs : table[s] # << >> => s \in ToSet(waiting) \cup ToSet(running)
    BY DEF QueuesMatchStatus
  <2>1. /\ waiting \in Seq(Seqs) /\ IsInjective(waiting)
        /\ running \in Seq(Seqs) /\ IsInjective(running)
    BY DEF IInv, TypeOK, QueuesInv
  <2>2. Len(waiting) = Cardinality(ToSet(waiting)) /\ Len(running) = Cardinality(ToSet(running))
    BY <2>1, LengthOfDistinct
  <2>3. ToSet(waiting) \subseteq Seqs /\ ToSet(running) \subseteq Seqs
    BY <2>1, MembersOf
  <2>4. \A s \in Seqs : table[s] # << >> => status[s] \in {"waiting", "running"}
    BY DEF IInv, StagesInv, InHand
  <2> QED
    BY <2>2, <2>3, <2>4 DEF IInv, QueuesInv
<1>2. QED
  BY <1>1, Invariance, PTL

(* The batch that runs is within the limits, and each of its members still *)
(* runs and has the blocks it needs.                                       *)
THEOREM BatchesRun == Spec => []BatchIsRunnable
<1>1. Cache!IInv /\ IInv => BatchIsRunnable
  <2> SUFFICES ASSUME Cache!IInv, IInv, pc = "run"
               PROVE  /\ Len(batch) = Cardinality(ToSet(batch))
                      /\ Len(batch) <= MaxNumSeqs
                      /\ isPrefill => batched <= MaxBatched
                      /\ \A s \in ToSet(batch) :
                           /\ status[s] = "running"
                           /\ computed[s] < ScheduledEnd(s)
                           /\ ScheduledEnd(s) <= Len(table[s]) * BlockSize
    BY DEF BatchIsRunnable
  <2>1. batch \in Seq(Seqs) /\ IsInjective(batch) /\ Len(batch) <= MaxNumSeqs
    BY DEF IInv, TypeOK, BatchInv
  <2>2. Len(batch) = Cardinality(ToSet(batch)) /\ ToSet(batch) \subseteq Seqs
    BY <2>1, LengthOfDistinct, MembersOf
  <2>3. /\ isPrefill => batched <= MaxBatched
        /\ \A s \in ToSet(batch) : IF isPrefill THEN PrefillReady(s) ELSE DecodeReady(s)
    BY DEF IInv, RunInv, RunPhase, Todo
  <2>4. ASSUME NEW s \in ToSet(batch)
        PROVE  /\ status[s] = "running" /\ computed[s] < ScheduledEnd(s)
               /\ ScheduledEnd(s) <= Len(table[s]) * BlockSize
    <3>1. computed[s] \in Nat /\ Len(tokens[s]) \in Nat
      BY <2>2, CacheGives DEF SeqFacts
    <3> QED
      BY <2>3, <3>1 DEF ScheduledEnd, PrefillReady, DecodeReady, AtDecode
  <2> QED
    BY <2>1, <2>2, <2>3, <2>4
<1>2. QED
  BY <1>1, Invariants, PTL

(* What the model writes in one run is in blocks that belong to one        *)
(* request each and that no other request can find.                        *)
THEOREM WritesStayPrivate == Spec => []WritesArePrivate
<1>1. Cache!IInv /\ IInv /\ BatchIsRunnable => WritesArePrivate
  <2> SUFFICES ASSUME Cache!IInv, IInv, BatchIsRunnable, pc = "run", NEW s \in ToSet(batch),
                      NEW p \in computed[s]+1..ScheduledEnd(s)
               PROVE  /\ ref[table[s][BM!NumBlocksFor(p)]] = 1
                      /\ key[table[s][BM!NumBlocksFor(p)]] = NoKey
    BY DEF WritesArePrivate
  <2>1. s \in Seqs
    BY MembersOf DEF IInv, TypeOK
  <2>2. computed[s] \in Nat /\ Len(table[s]) \in Nat /\ Len(tokens[s]) \in Nat /\ chunkEnd[s] \in Nat
    BY <2>1, CacheGives DEF SeqFacts, IInv, TypeOK
  <2>3. ScheduledEnd(s) \in Nat /\ ScheduledEnd(s) <= Len(table[s]) * BlockSize
    BY <2>2 DEF BatchIsRunnable, ScheduledEnd
  <2>4. p \in Nat /\ computed[s] < p /\ p <= Len(table[s]) * BlockSize
    BY <2>2, <2>3, SizeAssumption
  <2>5. /\ key[table[s][Cache!NumBlocksFor(p)]] = NoKey
        /\ ref[table[s][Cache!NumBlocksFor(p)]] = 1
    BY <2>1, <2>4, CacheAssumptions, Cache!NewTokensArePrivate
  <2> QED
    BY <2>5, SameBlocks
<1>2. QED
  BY <1>1, Invariants, BatchesRun, PTL

(* What fits is in the pool, expired or not.                               *)
LEMMA FittingIsThere ==
  ASSUME Cache!IInv, NEW s \in Seqs, NEW n \in Nat, NEW r \in Nat, Fits(s, n, r)
  PROVE  BM!NumBlocksFor(n) - Len(table[s]) <= Cardinality(free \cup cached)
<1>1. BM!AvailableBlocks = Cardinality(free \cup cached) /\ BM!AvailableBlocks \in Nat
  <2>1. Cache!IdleCounted
    BY CacheAssumptions, Cache!AvailableIsIdle
  <2> QED
    BY <2>1, SameAvailable DEF Cache!IdleCounted, Cache!Cardinality, Cardinality
<1>2. BM!NumBlocksFor(n) \in Int /\ Len(table[s]) \in Nat
  BY CacheGives, SizeAssumption DEF BM!NumBlocksFor, SeqFacts
<1>3. QED
  BY <1>1, <1>2 DEF Fits

(* What can_allocate promised is there when ensure_blocks takes it.        *)
THEOREM PromisesAreKept == Spec => []PromisedBlocksAreThere
<1>1. Cache!IInv /\ IInv => PromisedBlocksAreThere
  <2> SUFFICES ASSUME Cache!IInv, IInv PROVE PromisedBlocksAreThere
    OBVIOUS
  <2>1. ASSUME pc = "ensure"
        PROVE  BM!NumBlocksFor(goal) - Len(table[Head(cand)]) <= Cardinality(free \cup cached)
    <3>1. cand \in Seq(Seqs) /\ IsInjective(cand) /\ cand # << >>
      BY <2>1 DEF IInv, TypeOK, VisitInv, PrefillPhase
    <3>2. goal \in Nat /\ reserve \in Nat /\ Fits(Head(cand), goal, reserve)
      BY <2>1 DEF IInv, TypeOK, PrefillInv, PrefillPhase
    <3> QED
      BY <3>1, <3>2, TailOfDistinct, FittingIsThere
  <2>2. ASSUME pc = "append"
        PROVE  BM!NumBlocksFor(Len(tokens[Head(cand)])) - Len(table[Head(cand)])
                 <= Cardinality(free \cup cached)
    <3>1. Fits(Head(cand), Len(tokens[Head(cand)]), 0)
      BY <2>2 DEF IInv, DecodeInv, DecodePhase
    <3>2. SeqFacts /\ Head(cand) \in Seqs
      BY <2>2, CacheGives, DecodeHead
    <3>3. Len(tokens[Head(cand)]) \in Nat /\ 0 \in Nat
      BY <3>2 DEF SeqFacts
    <3> QED
      BY <3>1, <3>2, <3>3, FittingIsThere
  <2> QED
    BY <2>1, <2>2 DEF PromisedBlocksAreThere
<1>2. QED
  BY <1>1, Invariants, PTL

(* While sequences decode, no prefill takes blocks that bring the pool     *)
(* below the watermark.                                                    *)
THEOREM WatermarkIsKept == Spec => PrefillKeepsWatermark
<1>1. Cache!IInv /\ Cache!IInv' /\ IInv /\ [Next]_vars =>
        [pc = "ensure" /\ table' # table /\ HasDecodeWork => BM!AvailableBlocks' >= Watermark]_vars
  <2> SUFFICES ASSUME Cache!IInv, Cache!IInv', IInv, Next, pc = "ensure", table' # table, HasDecodeWork
               PROVE  BM!AvailableBlocks' >= Watermark
    BY DEF vars
  <2> DEFINE s == Head(cand)
  <2>1. PrepareEnsure
    BY DEF Next, Step, Scheduling, Postprocessing, Environment, Schedule, Admit, AdmitMatch,
       AdmitAllocate, PrefillInit, PrefillVisit, PrepareMatch, PrepareFails, PrefillDone,
       DecodeSkip, DecodeVisit, DecodeAppend, PreemptVictim, DecodeDone, Run, PostCommit,
       EmitNothing, EmitWarmed, EmitToken, FinishRelease, StepReturns, Add, Abort, Resubmit,
       PurgePrefixCache, TimePasses, BM!Expire, BM!useVars, bmVars, useVars
  <2>2. /\ s \in Seqs /\ goal \in Nat /\ Fits(s, goal, Watermark)
    BY TailOfDistinct DEF IInv, TypeOK, VisitInv, PrefillInv, PrefillPhase
  <2>3. /\ BM!NumBlocksFor(goal) > Len(table[s])
        /\ BM!AvailableBlocks' = BM!AvailableBlocks - (BM!NumBlocksFor(goal) - Len(table[s]))
    BY <2>1, <2>2, EnsureCall DEF PrepareEnsure
  <2>4. /\ BM!NumBlocksFor(goal) \in Int /\ Len(table[s]) \in Nat /\ BM!AvailableBlocks \in Nat
        /\ Watermark \in Nat
    BY <2>2, CacheGives, SizeAssumption, SchedulerAssumption DEF BM!NumBlocksFor, SeqFacts
  <2> QED
    BY <2>2, <2>3, <2>4 DEF Fits
<1>2. QED
  BY <1>1, Invariants, PTL DEF Spec, PrefillKeepsWatermark

-----------------------------------------------------------------------------
(***************************************************************************)
(* The engine: the inductive invariant                                     *)
(***************************************************************************)
(* No batch is ever padded: without graphs, or where each possible batch   *)
(* has a graph of its own size or none.                                    *)
NeverPadded ==
  \/ EnforceEager
  \/ \A n \in 1..MaxNumSeqs :
       Large(n) \/ ~Covered(MaxNumSeqs, n) \/ ~(RowsOf(MaxNumSeqs, n) > n)

(* The slots that no row of padding writes: all but the first of Block0,   *)
(* or that one, too.                                                       *)
Spared(b, o) == NeverPadded \/ b # Block0 \/ o # 0

(* The slot of position p of s holds the key and value of its prefix.      *)
Holds(s, p) ==
  Spared(BlockAt(s, p), OffsetAt(p)) => kv[BlockAt(s, p)][OffsetAt(p)] = PrefixAt(s, p)

(* AttendsToOwnPrefix and CacheHoldsItsKey in the slots that are spared.   *)
ComputedHolds == \A s \in Seqs : \A p \in 1..computed[s] : Holds(s, p)
(* A published block holds what its hash says. *)
PublishedHolds ==
  \A b \in Blocks : key[b] # NoKey =>
    \A o \in 0..BlockSize-1 :
      Spared(b, o) =>
        kv[b][o] = SubSeq(key[b][2], 1, Len(key[b][2]) - BlockSize + 1 + o)

(* After the run, what postprocess has still to count as computed is there.*)
WrittenHolds ==
  pc \in {"post", "emit", "release"} => \A s \in ToSet(Todo) : \A p \in Written(s) : Holds(s, p)

(* The lengths that validate_request_limits has checked.                   *)
LengthInv ==
  \A s \in Seqs :
    /\ Len(tokens[s]) <= Len(Prompt[s]) + MaxTokens[s]
    /\ status[s] \in {"waiting", "running"} => Len(Prompt[s]) + MaxTokens[s] <= MaxModelLen

(* What holds of the memory between any two turns of a step. *)
MemoryInv ==
  /\ ComputedHolds
  /\ PublishedHolds
  /\ WrittenHolds
  /\ LengthInv

-----------------------------------------------------------------------------
(* Slots                                                                   *)

(* A place in a block determines its block and its offset.                 *)
LEMMA UniqueSlot ==
  ASSUME NEW i \in Nat, NEW j \in Nat,
         NEW o \in 0..BlockSize-1, NEW q \in 0..BlockSize-1,
         i * BlockSize + o = j * BlockSize + q
  PROVE  i = j /\ o = q
<1>1. BlockSize \in Nat /\ BlockSize >= 1
  BY SizeAssumption
<1>2. ASSUME NEW a \in Nat, NEW b \in Nat, a < b
      PROVE  a * BlockSize + BlockSize <= b * BlockSize
  <2>1. (a + 1) * BlockSize <= b * BlockSize
    BY <1>2, CacheAssumptions, Cache!TimesBlockSize
  <2>2. (a + 1) * BlockSize = a * BlockSize + BlockSize
    BY <1>1
  <2> QED
    BY <2>1, <2>2
<1>3. i * BlockSize \in Nat /\ j * BlockSize \in Nat
  BY <1>1
<1>4. ~(i < j) /\ ~(j < i)
  BY <1>1, <1>2, <1>3
<1>5. QED
  BY <1>3, <1>4

(* The p-th token is in the block and at the offset that prepare_prefill   *)
(* and prepare_decode compute.                                             *)
LEMMA SlotOf ==
  ASSUME NEW p \in Nat, p >= 1
  PROVE  /\ BM!NumBlocksFor(p) \in Nat /\ BM!NumBlocksFor(p) >= 1
         /\ OffsetAt(p) \in 0..BlockSize-1
         /\ p = (BM!NumBlocksFor(p) - 1) * BlockSize + OffsetAt(p) + 1
<1> DEFINE i == BM!NumBlocksFor(p)
           q == (p - 1) \div BlockSize
<1>1. BlockSize \in Nat /\ BlockSize >= 1
  BY SizeAssumption
<1>2. /\ i \in Nat /\ i >= 1
      /\ (i - 1) * BlockSize < p /\ p <= i * BlockSize
  BY SameBlocks, Cache!BlockOfToken, CacheAssumptions
<1>3. /\ q \in Nat /\ OffsetAt(p) \in 0..BlockSize-1
      /\ p - 1 = q * BlockSize + OffsetAt(p)
  BY <1>1 DEF OffsetAt
<1> DEFINE r == p - 1 - (i - 1) * BlockSize
<1>4. /\ (i - 1) * BlockSize \in Nat /\ i * BlockSize = (i - 1) * BlockSize + BlockSize
      /\ i - 1 \in Nat
  BY <1>1, <1>2
<1>5. r \in 0..BlockSize-1 /\ (i - 1) * BlockSize + r = p - 1
  BY <1>1, <1>2, <1>4
<1> HIDE DEF i, q, r
<1>6. q = i - 1 /\ OffsetAt(p) = r
  BY <1>3, <1>4, <1>5, UniqueSlot
<1>7. QED
  BY <1>2, <1>3, <1>6 DEF i

(* Conversely, offset o of block i is the slot of one token.               *)
LEMMA TokenOf ==
  ASSUME NEW i \in Nat, i >= 1, NEW o \in 0..BlockSize-1
  PROVE  \E p \in Nat :
           /\ p >= 1 /\ p = (i - 1) * BlockSize + o + 1 /\ p <= i * BlockSize
           /\ BM!NumBlocksFor(p) = i /\ OffsetAt(p) = o
<1> DEFINE p == (i - 1) * BlockSize + o + 1
<1>1. BlockSize \in Nat /\ BlockSize >= 1
  BY SizeAssumption
<1>2. /\ i - 1 \in Nat /\ (i - 1) * BlockSize \in Nat
      /\ i * BlockSize = (i - 1) * BlockSize + BlockSize
  BY <1>1
<1>3. p \in Nat /\ p >= 1 /\ p <= i * BlockSize
  BY <1>1, <1>2
<1> HIDE DEF p
<1>4. /\ BM!NumBlocksFor(p) \in Nat /\ BM!NumBlocksFor(p) >= 1
      /\ OffsetAt(p) \in 0..BlockSize-1
      /\ p = (BM!NumBlocksFor(p) - 1) * BlockSize + OffsetAt(p) + 1
  BY <1>3, SlotOf
<1>5. /\ BM!NumBlocksFor(p) - 1 \in Nat
      /\ (BM!NumBlocksFor(p) - 1) * BlockSize + OffsetAt(p) = (i - 1) * BlockSize + o
  <2> DEFINE j == BM!NumBlocksFor(p) - 1
  <2>1. j \in Nat
    BY <1>4
  <2>2. j * BlockSize \in Nat
    BY <1>1, <2>1
  <2>3. p = j * BlockSize + OffsetAt(p) + 1 /\ p = (i - 1) * BlockSize + o + 1
    BY <1>4 DEF p
  <2> HIDE DEF j
  <2>4. j * BlockSize + OffsetAt(p) = (i - 1) * BlockSize + o
    BY <1>1, <1>2, <1>4, <2>2, <2>3
  <2> QED
    BY <2>1, <2>4 DEF j
<1>6. BM!NumBlocksFor(p) - 1 = i - 1 /\ OffsetAt(p) = o
  BY <1>2, <1>4, <1>5, UniqueSlot
<1>7. QED
  BY <1>3, <1>4, <1>6 DEF p

-----------------------------------------------------------------------------
(* What a block table points to                                            *)

(* The prefix of a prefix.                                                 *)
LEMMA PrefixOfPrefix ==
  ASSUME NEW S, NEW q \in Seq(S), NEW n \in Nat, NEW p \in Nat, p <= n, n <= Len(q)
  PROVE  /\ SubSeq(SubSeq(q, 1, n), 1, p) = SubSeq(q, 1, p)
         /\ Len(SubSeq(q, 1, n)) = n
<1>1. /\ Len(q) \in Nat
      /\ \A i \in 1..n : SubSeq(q, 1, n)[i] = q[i] /\ q[i] \in S
      /\ Len(SubSeq(q, 1, n)) = n
  BY ElementOfSeq, LenProperties
<1>2. SubSeq(SubSeq(q, 1, n), 1, p) = [i \in 1..p |-> SubSeq(q, 1, n)[i]]
  BY <1>1
<1>3. SubSeq(q, 1, p) = [i \in 1..p |-> q[i]]
  BY <1>1
<1>4. QED
  BY <1>1, <1>2, <1>3

(* The tokens that fit in a block table have their slots in its blocks.    *)
LEMMA InTable ==
  ASSUME Cache!IInv, NEW s \in Seqs, NEW p \in Nat, p >= 1, p <= Len(table[s]) * BlockSize
  PROVE  /\ BM!NumBlocksFor(p) \in 1..Len(table[s])
         /\ BlockAt(s, p) \in Blocks /\ BlockAt(s, p) \in Cache!BlocksOf(s)
<1>1. Len(table[s]) \in Nat /\ Cache!TypeOK
  BY CacheGives DEF SeqFacts, Cache!IInv
<1>2. BM!NumBlocksFor(p) \in Nat /\ BM!NumBlocksFor(p) >= 1
  BY SlotOf
<1>3. BM!NumBlocksFor(p) <= Len(table[s])
  BY <1>1, SameBlocks, CacheAssumptions, Cache!RoomFor
<1>4. QED
  BY <1>1, <1>2, <1>3, CacheAssumptions, Cache!BlocksOfType DEF BlockAt

(* A published block in a block table holds the sequence's own prefix.     *)
LEMMA PublishedIsOwn ==
  ASSUME Cache!IInv, PublishedHolds, NEW s \in Seqs,
         NEW p \in Nat, p >= 1, p <= Len(table[s]) * BlockSize, key[BlockAt(s, p)] # NoKey
  PROVE  Holds(s, p)
<1> DEFINE i == BM!NumBlocksFor(p)
           b == BlockAt(s, p)
           n == i * BlockSize
<1>1. /\ i \in 1..Len(table[s]) /\ b \in Blocks /\ b = table[s][i]
  BY InTable DEF BlockAt
<1>2. /\ OffsetAt(p) \in 0..BlockSize-1
      /\ p = (i - 1) * BlockSize + OffsetAt(p) + 1
  BY SlotOf
<1>3. n <= computed[s] /\ key[b] = Cache!Key(s, i) /\ computed[s] <= Len(tokens[s])
  BY <1>1 DEF Cache!IInv, Cache!PrefixIntegrity
<1>4. tokens[s] \in Seq(Tokens) /\ Len(tokens[s]) \in Nat /\ computed[s] \in Nat /\ Len(table[s]) \in Nat
  BY CacheGives DEF SeqFacts
<1>5. n \in Nat /\ p <= n /\ n - BlockSize + 1 + OffsetAt(p) = p
  <2>1. BlockSize \in Nat /\ BlockSize >= 1 /\ i \in Nat /\ i >= 1
    BY <1>1, <1>4, SizeAssumption
  <2>2. n = (i - 1) * BlockSize + BlockSize /\ (i - 1) * BlockSize \in Nat
    BY <2>1
  <2> HIDE DEF i, n
  <2> QED
    BY <1>2, <2>1, <2>2
<1>6. key[b][2] = SubSeq(tokens[s], 1, n)
  <2>1. key[b] = <<Namespace[s], SubSeq(tokens[s], 1, n)>>
    BY <1>3 DEF Cache!Key
  <2>2. \A x, y : <<x, y>>[2] = y
    OBVIOUS
  <2> HIDE DEF b, n
  <2> QED
    BY <2>1, <2>2, Zenon
<1>7. /\ Len(key[b][2]) = n
      /\ SubSeq(key[b][2], 1, p) = SubSeq(tokens[s], 1, p)
  <2> HIDE DEF n
  <2> QED
    BY <1>3, <1>4, <1>5, <1>6, PrefixOfPrefix
<1>8. Spared(b, OffsetAt(p)) =>
        kv[b][OffsetAt(p)] = SubSeq(key[b][2], 1, Len(key[b][2]) - BlockSize + 1 + OffsetAt(p))
  BY <1>1, <1>2 DEF PublishedHolds
<1>9. QED
  BY <1>5, <1>7, <1>8 DEF Holds, PrefixAt

(* So a sequence needs to look after its unpublished blocks only.          *)
OwnPublished ==
  \A s \in Seqs : \A p \in 1..computed[s] : key[BlockAt(s, p)] # NoKey => Holds(s, p)

(* PublishedIsOwn of every sequence and every token it has computed. *)
LEMMA PublishedAreOwn == Cache!IInv /\ PublishedHolds => OwnPublished
<1> SUFFICES ASSUME Cache!IInv, PublishedHolds, NEW s \in Seqs, NEW p \in 1..computed[s],
                    key[BlockAt(s, p)] # NoKey
             PROVE  Holds(s, p)
  BY DEF OwnPublished
<1>1. /\ computed[s] \in Nat /\ Len(table[s]) \in Nat
      /\ computed[s] <= Len(table[s]) * BlockSize
  BY CacheGives DEF SeqFacts
<1>2. p \in Nat /\ p >= 1 /\ p <= Len(table[s]) * BlockSize
  BY <1>1, SizeAssumption
<1>3. QED
  BY <1>2, PublishedIsOwn

-----------------------------------------------------------------------------
(* Steps that write nothing                                                *)

(* What s has computed stays where it is,                                  *)
StaysPut(s) ==
  \A p \in 1..computed'[s] :
    p <= computed[s] /\ BlockAt(s, p)' = BlockAt(s, p) /\ PrefixAt(s, p)' = PrefixAt(s, p)

(* or s finds it published.                                                *)
FindsPublished(s) == \A p \in 1..computed'[s] : key'[BlockAt(s, p)'] # NoKey

(* A block keeps its hash or loses it.                                     *)
LabelsKept == \A b \in Blocks : key'[b] # NoKey => key'[b] = key[b]

(* Then the memory still holds what it should.                             *)
LEMMA QuietKeeps ==
  ASSUME Cache!IInv, Cache!IInv', ComputedHolds, PublishedHolds, kv' = kv, LabelsKept,
         \A s \in Seqs : StaysPut(s) \/ FindsPublished(s)
  PROVE  ComputedHolds' /\ PublishedHolds'
<1>1. PublishedHolds'
  BY DEF PublishedHolds, LabelsKept
<1>2. OwnPublished'
  BY <1>1, PublishedAreOwn, PTL
<1>3. ASSUME NEW s \in Seqs, NEW p \in 1..computed'[s]
      PROVE  Holds(s, p)'
  <2>1. CASE FindsPublished(s)
    BY <1>2, <1>3, <2>1 DEF OwnPublished, FindsPublished
  <2>2. CASE StaysPut(s)
    <3>1. /\ p <= computed[s] /\ BlockAt(s, p)' = BlockAt(s, p) /\ PrefixAt(s, p)' = PrefixAt(s, p)
      BY <1>3, <2>2 DEF StaysPut
    <3>2. p \in 1..computed[s]
      <4>1. computed[s] \in Nat /\ computed'[s] \in Nat
        <5>1. SeqFacts /\ SeqFacts'
          BY CacheGives, PTL
        <5> QED
          BY <5>1 DEF SeqFacts
      <4> QED
        BY <1>3, <3>1, <4>1
    <3>3. Holds(s, p)
      BY <3>2 DEF ComputedHolds
    <3> QED
      BY <3>1, <3>3 DEF Holds
  <2> QED
    BY <2>1, <2>2
<1>4. QED
  BY <1>1, <1>3 DEF ComputedHolds

(* What InTable says of every token, to be said of the next state.         *)
TableInv ==
  \A s \in Seqs : \A p \in Nat :
    p >= 1 /\ p <= Len(table[s]) * BlockSize => BlockAt(s, p) \in Cache!BlocksOf(s)

(* It is InTable. *)
LEMMA TableHolds == Cache!IInv => TableInv
BY InTable DEF TableInv

(* A sequence whose tokens, blocks and computed tokens stay, stays put; so *)
(* does one that has computed nothing.                                     *)
LEMMA UntouchedStays ==
  ASSUME SeqFacts, NEW s \in Seqs,
         computed'[s] = 0 \/ (UNCHANGED <<tokens[s], computed[s], table[s]>>)
  PROVE  StaysPut(s)
BY DEF StaysPut, BlockAt, PrefixAt, BM!NumBlocksFor, SeqFacts

(* Every call but the commit writes nothing and publishes nothing.         *)
LEMMA OtherCallIsQuiet ==
  ASSUME Cache!IInv, Cache!IInv', OtherCall \/ UNCHANGED bmVars
  PROVE  LabelsKept /\ \A s \in Seqs : StaysPut(s) \/ FindsPublished(s)
<1>1. SeqFacts /\ SeqFacts'
  BY CacheGives, PTL
<1>2. Cache!TypeOK
  BY DEF Cache!IInv
<1>3. ASSUME NEW P, key' = Cache!KeyWithout(P) PROVE LabelsKept
  BY <1>3 DEF Cache!KeyWithout, LabelsKept
<1>4. CASE UNCHANGED bmVars
  BY <1>1, <1>4, UntouchedStays DEF bmVars, seqVars, useVars, poolVars, LabelsKept
<1>5. ASSUME NEW s \in Seqs, BM!Match(s)
      PROVE  LabelsKept /\ \A u \in Seqs : StaysPut(u) \/ FindsPublished(u)
  <2>1. Cache!Match(s)
    BY <1>5, SameMatch
  <2>2. CASE UNCHANGED Cache!vars
    BY <1>1, <2>2, UntouchedStays
    DEF LabelsKept, Cache!vars, Cache!seqVars, Cache!useVars, Cache!poolVars
  <2>3. ASSUME NEW B \in SUBSET Blocks, Cache!Attaches(s, B)
        PROVE  LabelsKept /\ \A u \in Seqs : StaysPut(u) \/ FindsPublished(u)
    <3>1. LabelsKept /\ \A b \in B : key'[b] # NoKey
      BY <1>3, <2>3 DEF Cache!Attaches, Cache!KeyWithout
    <3>2. FindsPublished(s)
      <4> SUFFICES ASSUME NEW p \in 1..computed'[s] PROVE key'[BlockAt(s, p)'] # NoKey
        BY DEF FindsPublished
      <4>1. /\ p \in Nat /\ p >= 1 /\ p <= Len(table'[s]) * BlockSize
        BY <1>1, SizeAssumption DEF SeqFacts
      <4>2. BlockAt(s, p)' \in Cache!BlocksOf(s)'
        <5>1. TableInv'
          BY TableHolds, PTL
        <5> QED
          BY <4>1, <5>1 DEF TableInv
      <4> QED
        BY <2>3, <3>1, <4>2 DEF Cache!Attaches
    <3>3. ASSUME NEW u \in Seqs, u # s
          PROVE  StaysPut(u)
      <4>1. UNCHANGED <<tokens[u], computed[u], table[u]>>
        BY <1>2, <2>1, <3>3 DEF Cache!Match, Cache!MatchCachedPrefix, Cache!seqVars, Cache!TypeOK,
           Cache!bmVars, Cache!useVars
      <4> QED
        BY <1>1, <4>1, UntouchedStays
    <3> QED
      BY <3>1, <3>2, <3>3
  <2> QED
    BY <2>1, <2>2, <2>3, CacheAssumptions, Cache!MatchKeepsIInv
<1>6. ASSUME NEW s \in Seqs, NEW n \in 1..Len(tokens[s]), BM!Ensure(s, n)
      PROVE  LabelsKept /\ \A u \in Seqs : StaysPut(u) \/ FindsPublished(u)
  <2>1. /\ n \in Nat /\ Cache!Ensure(s, n) /\ Cache!EnsureBlocks(s, n)
        /\ tokens' = tokens
    BY <1>1, <1>6, SameEnsure DEF BM!Ensure, Cache!Ensure, BM!seqVars, Cache!seqVars, SeqFacts
  <2>2. LabelsKept
    <3>1. CASE UNCHANGED Cache!vars
      BY <3>1 DEF LabelsKept, Cache!vars, Cache!poolVars
    <3>2. ASSUME NEW B \in SUBSET Blocks, Cache!Takes(s, B)
          PROVE  LabelsKept
      BY <1>3, <3>2 DEF Cache!Takes
    <3> QED
      BY <2>1, <3>1, <3>2, CacheAssumptions, Cache!EnsureKeepsIInv
  <2>3. computed' = computed /\ Others(s)
    BY <1>6, <2>1, EnsureCall DEF BM!Ensure
  <2>4. \A i \in 1..Len(table[s]) : table'[s][i] = table[s][i]
    <3>1. CASE table' = table
      BY <3>1
    <3>2. ASSUME NEW m \in Int, NEW F, NEW C, NEW new \in Cache!Takings(m, F, C), m > 0,
                 table' = [table EXCEPT ![s] = @ \o new]
          PROVE  \A i \in 1..Len(table[s]) : table'[s][i] = table[s][i]
      <4>1. table[s] \in Seq(Blocks) /\ table'[s] = table[s] \o new /\ Len(table[s]) \in Nat
        BY <1>1, <3>2 DEF SeqFacts
      <4>2. new \in Seq(F \cup C)
        <5>1. new \in [1..m -> F \cup C] /\ m \in Nat
          BY <3>2 DEF Cache!Takings
        <5> QED
          BY <5>1
      <4> QED
        BY <4>1, <4>2
    <3> QED
      <4> DEFINE m == Cache!NumBlocksFor(n) - Len(table[s])
      <4>1. m \in Int
        <5>1. Cache!NumBlocksFor(n) \in Int
          BY <2>1, SizeAssumption DEF Cache!NumBlocksFor
        <5> QED
          BY <1>1, <5>1 DEF SeqFacts
      <4>2. CASE m <= 0
        BY <2>1, <3>1, <4>2 DEF Cache!EnsureBlocks, Cache!bmVars, Cache!useVars
      <4>3. CASE m > 0
        <5>1. ~(m <= 0)
          BY <4>1, <4>3
        <5>2. PICK new \in Cache!Takings(m, free \cup Cache!Expired, cached \ Cache!Expired) :
                table' = [table EXCEPT ![s] = @ \o new]
          BY <2>1, <5>1 DEF Cache!EnsureBlocks
        <5> HIDE DEF m
        <5> QED
          BY <3>2, <4>1, <4>3, <5>2
      <4> QED
        BY <4>1, <4>2, <4>3
  <2>5. StaysPut(s)
    <3> SUFFICES ASSUME NEW p \in 1..computed'[s]
                 PROVE  p <= computed[s] /\ BlockAt(s, p)' = BlockAt(s, p) /\ PrefixAt(s, p)' = PrefixAt(s, p)
      BY DEF StaysPut
    <3>1. p \in Nat /\ p >= 1 /\ p <= computed[s] /\ p <= Len(table[s]) * BlockSize
      BY <1>1, <2>3, SizeAssumption DEF SeqFacts
    <3>2. BM!NumBlocksFor(p) \in 1..Len(table[s])
      BY <3>1, InTable
    <3>3. BlockAt(s, p)' = table'[s][BM!NumBlocksFor(p)] /\ PrefixAt(s, p)' = PrefixAt(s, p)
      BY <2>1 DEF BlockAt, PrefixAt, BM!NumBlocksFor
    <3> QED
      BY <2>4, <3>1, <3>2, <3>3 DEF BlockAt
  <2>6. ASSUME NEW u \in Seqs, u # s PROVE StaysPut(u)
    BY <1>1, <2>1, <2>3, <2>6, UntouchedStays DEF Others
  <2> QED
    BY <2>2, <2>5, <2>6
<1>7. ASSUME NEW s \in Seqs, NEW t \in Tokens, BM!AppendToken(s, t)
      PROVE  LabelsKept /\ \A u \in Seqs : StaysPut(u)
  <2>1. /\ tokens' = [tokens EXCEPT ![s] = Append(@, t)]
        /\ UNCHANGED <<computed, table, key>>
    BY <1>7 DEF BM!AppendToken, BM!bmVars, BM!useVars, BM!poolVars
  <2>2. LabelsKept
    BY <2>1 DEF LabelsKept
  <2>3. StaysPut(s)
    <3> SUFFICES ASSUME NEW p \in 1..computed'[s]
                 PROVE  p <= computed[s] /\ BlockAt(s, p)' = BlockAt(s, p) /\ PrefixAt(s, p)' = PrefixAt(s, p)
      BY DEF StaysPut
    <3>1. /\ p \in Nat /\ p <= computed[s] /\ p <= Len(tokens[s])
          /\ tokens[s] \in Seq(Tokens) /\ tokens'[s] = Append(tokens[s], t)
      BY <1>1, <2>1 DEF SeqFacts
    <3>2. SubSeq(tokens'[s], 1, p) = SubSeq(tokens[s], 1, p)
      BY <3>1, Cache!SubSeqOfAppend
    <3>3. BlockAt(s, p)' = BlockAt(s, p)
      BY <2>1 DEF BlockAt, BM!NumBlocksFor
    <3> QED
      BY <3>1, <3>2, <3>3 DEF PrefixAt
  <2>4. ASSUME NEW u \in Seqs, u # s PROVE StaysPut(u)
    BY <1>1, <2>1, <2>4, UntouchedStays DEF SeqFacts
  <2> QED
    BY <2>2, <2>3, <2>4
<1>8. ASSUME NEW s \in Seqs, BM!Retire(s) \/ BM!Preempt(s)
      PROVE  LabelsKept /\ \A u \in Seqs : StaysPut(u)
  <2>1. BM!Deallocate(s) /\ Cache!Deallocate(s) /\ tokens' = tokens
    BY <1>8, SameDeallocate DEF BM!Retire, BM!Preempt, BM!seqVars
  <2>2. Others(s) /\ computed'[s] = 0
    BY <2>1, ReleaseCall
  <2>3. LabelsKept
    <3>1. \E P : key' = Cache!KeyWithout(P)
      BY <2>1 DEF Cache!Deallocate
    <3> QED
      BY <1>3, <3>1
  <2>4. ASSUME NEW u \in Seqs PROVE StaysPut(u)
    BY <1>1, <2>1, <2>2, <2>4, UntouchedStays DEF Others
  <2> QED
    BY <2>3, <2>4
<1>9. ASSUME NEW s \in Seqs, BM!Renew(s)
      PROVE  LabelsKept /\ \A u \in Seqs : StaysPut(u)
  <2>1. /\ computed[s] = 0 /\ UNCHANGED <<computed, table, key>>
        /\ \A u \in Seqs \ {s} : tokens'[u] = tokens[u]
    BY <1>1, <1>9 DEF BM!Renew, BM!bmVars, BM!useVars, BM!poolVars, SeqFacts
  <2>2. ASSUME NEW u \in Seqs PROVE StaysPut(u)
    BY <1>1, <2>1, <2>2, UntouchedStays
  <2> QED
    BY <2>1, <2>2 DEF LabelsKept
<1>10. CASE BM!PurgeAction
  <2>1. PICK P : Cache!Purge(P)
    BY <1>10, SamePurgeAction
    DEF Cache!PurgeAction, Cache!PurgeExpired, Cache!PurgeCachedBlocks, Cache!PurgeExpiredCachedBlocks
  <2>2. UNCHANGED <<tokens, computed, table>> /\ key' = Cache!KeyWithout(P)
    BY <1>10, <2>1 DEF BM!PurgeAction, BM!seqVars, Cache!Purge, Cache!useVars
  <2> QED
    BY <1>1, <1>3, <2>2, UntouchedStays
<1>11. ASSUME NEW b \in Blocks, BM!Expire(b)
       PROVE  LabelsKept /\ \A u \in Seqs : StaysPut(u)
  BY <1>1, <1>11, UntouchedStays DEF BM!Expire, BM!seqVars, BM!useVars, LabelsKept
<1>12. QED
  BY <1>4, <1>5, <1>6, <1>7, <1>8, <1>9, <1>10, <1>11 DEF OtherCall

-----------------------------------------------------------------------------
(* The run of the model                                                    *)

(* The rows of the batch that are written to offset o of block b.          *)
Rows(b, o) ==
  {w \in ToSet(batch) \X (1..MaxModelLen) :
     w[2] \in Written(w[1]) /\ BlockAt(w[1], w[2]) = b /\ OffsetAt(w[2]) = o}

(* Where no row of the batch and no padding is written, a slot keeps what  *)
(* it has; where one is, it gets that.                                     *)
LEMMA RunWrites ==
  ASSUME RunModel, NEW b \in Blocks, NEW o \in 0..BlockSize-1, ~(Padded /\ b = Block0 /\ o = 0)
  PROVE  /\ Rows(b, o) = {} => kv'[b][o] = kv[b][o]
         /\ \A w : Rows(b, o) = {w} => kv'[b][o] = PrefixAt(w[1], w[2])
<1>1. Outcomes(b, o) = IF {PrefixAt(w[1], w[2]) : w \in Rows(b, o)} = {} THEN {kv[b][o]}
                       ELSE {PrefixAt(w[1], w[2]) : w \in Rows(b, o)}
  BY DEF Outcomes, Rows
<1>2. ASSUME NEW v, Outcomes(b, o) = {v}
      PROVE  kv'[b][o] = v
  <2>1. PICK first \in Outcomes(Block0, 0) :
          kv' = [c \in Blocks |-> [q \in 0..BlockSize-1 |->
                   IF c = Block0 /\ q = 0 THEN first ELSE CHOOSE x \in Outcomes(c, q) : TRUE]]
    BY DEF RunModel
  <2>2. kv'[b][o] = IF b = Block0 /\ o = 0 THEN first ELSE CHOOSE x \in Outcomes(b, o) : TRUE
    BY <2>1
  <2>3. (CHOOSE x \in {v} : TRUE) = v
    OBVIOUS
  <2> QED
    BY <1>2, <2>1, <2>2, <2>3
<1>3. CASE Rows(b, o) = {}
  BY <1>1, <1>2, <1>3
<1>4. ASSUME NEW w, Rows(b, o) = {w}
      PROVE  kv'[b][o] = PrefixAt(w[1], w[2])
  <2>1. {PrefixAt(x[1], x[2]) : x \in Rows(b, o)} = {PrefixAt(w[1], w[2])}
    BY <1>4
  <2> QED
    BY <1>1, <1>2, <2>1
<1>5. QED
  BY <1>3, <1>4

(* A spared slot is not one of padding.                                    *)
LEMMA SparedOfPadding ==
  ASSUME IInv, RunModel, NEW b, NEW o, Spared(b, o)
  PROVE  ~(Padded /\ b = Block0 /\ o = 0)
<1>1. Len(batch) \in 1..MaxNumSeqs
  <2>1. /\ batch \in Seq(Seqs) /\ batch # << >> /\ Len(batch) <= MaxNumSeqs
    BY DEF RunModel, Run, IInv, TypeOK, RunInv, RunPhase, BatchInv
  <2>2. Len(batch) \in Nat /\ Len(batch) # 0
    BY <2>1
  <2> QED
    BY <2>1, <2>2, SchedulerAssumption
<1>2. SUFFICES ASSUME NeverPadded, Padded PROVE FALSE
  BY DEF Spared
<1>3. /\ ~EnforceEager /\ ~Large(Len(batch)) /\ Covered(MaxNumSeqs, Len(batch))
      /\ RowsOf(MaxNumSeqs, Len(batch)) > Len(batch)
  BY <1>2 DEF Padded, UsesGraph, RunModel, Runnable
<1>4. QED
  BY <1>1, <1>2, <1>3 DEF NeverPadded

(* Two tokens of a sequence have two slots.                                *)
LEMMA SameSlot ==
  ASSUME Cache!IInv, NEW s \in Seqs,
         NEW p \in Nat, p >= 1, p <= Len(table[s]) * BlockSize,
         NEW q \in Nat, q >= 1, q <= Len(table[s]) * BlockSize,
         BlockAt(s, p) = BlockAt(s, q), OffsetAt(p) = OffsetAt(q)
  PROVE  p = q
<1>1. BM!NumBlocksFor(p) \in 1..Len(table[s]) /\ BM!NumBlocksFor(q) \in 1..Len(table[s])
  BY InTable
<1>2. BM!NumBlocksFor(p) = BM!NumBlocksFor(q)
  BY <1>1 DEF BlockAt, Cache!IInv, Cache!RefCountsExact
<1>3. /\ p = (BM!NumBlocksFor(p) - 1) * BlockSize + OffsetAt(p) + 1
      /\ q = (BM!NumBlocksFor(q) - 1) * BlockSize + OffsetAt(q) + 1
  BY SlotOf
<1>4. QED
  BY <1>2, <1>3

(* What the batch writes lies beyond what is computed, in an unpublished   *)
(* block that no other sequence has.                                       *)
LEMMA WrittenIsPrivate ==
  ASSUME Cache!IInv, IInv, LengthInv, pc = "run", NEW s \in ToSet(batch), NEW p \in Written(s)
  PROVE  /\ s \in Seqs
         /\ p \in 1..MaxModelLen /\ computed[s] < p /\ p <= Len(table[s]) * BlockSize
         /\ BlockAt(s, p) \in Blocks /\ key[BlockAt(s, p)] = NoKey
         /\ BlockAt(s, p) \in Cache!BlocksOf(s)
         /\ \A u \in Seqs : BlockAt(s, p) \in Cache!BlocksOf(u) => u = s
<1>1. s \in Seqs
  BY MembersOf DEF IInv, TypeOK
<1>2. IF isPrefill THEN PrefillReady(s) ELSE DecodeReady(s)
  BY DEF IInv, RunInv, RunPhase, Todo
<1>3. /\ computed[s] \in Nat /\ Len(table[s]) \in Nat /\ Len(tokens[s]) \in Nat
      /\ chunkEnd[s] \in Nat /\ target[s] \in Nat
  BY <1>1, CacheGives DEF SeqFacts, IInv, TypeOK
<1>4. /\ p \in Nat /\ computed[s] < p /\ p <= Len(tokens[s]) /\ p <= Len(table[s]) * BlockSize
  <2>1. CASE isPrefill
    <3>1. p \in computed[s] + 1 .. chunkEnd[s]
      BY <2>1 DEF Written
    <3> QED
      BY <1>2, <1>3, <2>1, <3>1, SizeAssumption DEF PrefillReady, AtPrefill
  <2>2. CASE ~isPrefill
    <3>1. p = Len(tokens[s])
      BY <2>2 DEF Written
    <3> QED
      BY <1>2, <1>3, <2>2, <3>1 DEF DecodeReady, AtDecode
  <2> QED
    BY <2>1, <2>2
<1>5. p <= MaxModelLen
  <2>1. status[s] = "running"
    BY <1>2 DEF PrefillReady, DecodeReady
  <2>2. /\ Len(tokens[s]) <= Len(Prompt[s]) + MaxTokens[s]
        /\ Len(Prompt[s]) + MaxTokens[s] <= MaxModelLen
    BY <1>1, <2>1 DEF LengthInv
  <2>3. Len(Prompt[s]) \in Nat /\ MaxTokens[s] \in Nat /\ MaxModelLen \in Nat
    BY <1>1, RequestAssumption, EngineAssumption
  <2> QED
    BY <1>3, <1>4, <2>2, <2>3
<1>6. /\ BlockAt(s, p) \in Blocks /\ key[BlockAt(s, p)] = NoKey /\ ref[BlockAt(s, p)] = 1
  BY <1>1, <1>4, SameBlocks, CacheAssumptions, Cache!NewTokensArePrivate DEF BlockAt
<1>7. BlockAt(s, p) \in Cache!BlocksOf(s)
  BY <1>1, <1>3, <1>4, InTable
<1>8. \A u \in Seqs : BlockAt(s, p) \in Cache!BlocksOf(u) => u = s
  BY <1>1, <1>6, <1>7, CacheAssumptions, Cache!RefMeaning
<1>9. QED
  BY <1>1, <1>3, <1>4, <1>5, <1>6, <1>7, <1>8, EngineAssumption

(* A row written to a slot of s is a row of s.                             *)
LEMMA RowsOfSlot ==
  ASSUME Cache!IInv, IInv, LengthInv, pc = "run", NEW s \in Seqs,
         NEW p \in Nat, p >= 1, p <= Len(table[s]) * BlockSize,
         NEW w \in Rows(BlockAt(s, p), OffsetAt(p))
  PROVE  w = <<s, p>> /\ s \in ToSet(batch) /\ p \in Written(s)
<1>1. PICK u \in ToSet(batch), q \in 1..MaxModelLen : w = <<u, q>>
  BY DEF Rows
<1>2. q \in Written(u) /\ BlockAt(u, q) = BlockAt(s, p) /\ OffsetAt(q) = OffsetAt(p)
  BY <1>1 DEF Rows
<1>3. u = s
  BY <1>2, InTable, WrittenIsPrivate
<1>4. q \in Nat /\ q >= 1 /\ q <= Len(table[s]) * BlockSize
  BY <1>2, <1>3, WrittenIsPrivate, EngineAssumption
<1>5. q = p
  BY <1>2, <1>3, <1>4, SameSlot
<1>6. QED
  BY <1>1, <1>2, <1>3, <1>5

(* The run writes each row to its slot, and nothing that counts is lost.   *)
LEMMA RunModelKeeps ==
  ASSUME Cache!IInv, IInv, MemoryInv, RunModel
  PROVE  ComputedHolds' /\ PublishedHolds' /\ WrittenHolds'
<1>1. /\ pc = "run" /\ pc' = "post"
      /\ UNCHANGED <<tokens, computed, table, key, chunkEnd, isPrefill, cand>>
      /\ cand = batch
  BY DEF RunModel, Run, bmVars, seqVars, useVars, poolVars, localVars, pathVars, IInv, RunInv, RunPhase
<1>2. /\ \A s, p : BlockAt(s, p)' = BlockAt(s, p) /\ PrefixAt(s, p)' = PrefixAt(s, p)
      /\ \A s : Written(s)' = Written(s)
  BY <1>1 DEF BlockAt, PrefixAt, Written, BM!NumBlocksFor
<1>3. SeqFacts
  BY CacheGives
<1>4. ComputedHolds'
  <2> SUFFICES ASSUME NEW s \in Seqs, NEW p \in 1..computed[s], Spared(BlockAt(s, p), OffsetAt(p))
               PROVE  kv'[BlockAt(s, p)][OffsetAt(p)] = PrefixAt(s, p)
    BY <1>1, <1>2 DEF ComputedHolds, Holds
  <2>1. p \in Nat /\ p >= 1 /\ p <= computed[s] /\ computed[s] \in Nat /\ p <= Len(table[s]) * BlockSize
    BY <1>3, SizeAssumption DEF SeqFacts
  <2>2. BlockAt(s, p) \in Blocks /\ OffsetAt(p) \in 0..BlockSize-1
    BY <2>1, InTable, SlotOf
  <2>3. Rows(BlockAt(s, p), OffsetAt(p)) = {}
    <3> SUFFICES ASSUME NEW w \in Rows(BlockAt(s, p), OffsetAt(p)) PROVE FALSE
      OBVIOUS
    <3>1. s \in ToSet(batch) /\ p \in Written(s)
      BY <1>1, <2>1, RowsOfSlot DEF MemoryInv
    <3>2. computed[s] < p
      BY <1>1, <3>1, WrittenIsPrivate DEF MemoryInv
    <3> QED
      BY <2>1, <3>2
  <2>4. kv'[BlockAt(s, p)][OffsetAt(p)] = kv[BlockAt(s, p)][OffsetAt(p)]
    BY <2>2, <2>3, RunWrites, SparedOfPadding
  <2>5. Holds(s, p)
    BY DEF MemoryInv, ComputedHolds
  <2> QED
    BY <2>4, <2>5 DEF Holds
<1>5. PublishedHolds'
  <2> SUFFICES ASSUME NEW b \in Blocks, key[b] # NoKey, NEW o \in 0..BlockSize-1, Spared(b, o)
               PROVE  kv'[b][o] = kv[b][o]
    BY <1>1 DEF MemoryInv, PublishedHolds
  <2>1. Rows(b, o) = {}
    <3> SUFFICES ASSUME NEW w \in Rows(b, o) PROVE FALSE
      OBVIOUS
    <3>1. PICK u \in ToSet(batch), q \in 1..MaxModelLen : q \in Written(u) /\ BlockAt(u, q) = b
      BY DEF Rows
    <3>2. key[BlockAt(u, q)] = NoKey
      BY <1>1, <3>1, WrittenIsPrivate DEF MemoryInv
    <3> QED
      BY <3>1, <3>2
  <2> QED
    BY <2>1, RunWrites, SparedOfPadding
<1>6. WrittenHolds'
  <2> SUFFICES ASSUME NEW s \in ToSet(batch), NEW p \in Written(s), Spared(BlockAt(s, p), OffsetAt(p))
               PROVE  kv'[BlockAt(s, p)][OffsetAt(p)] = PrefixAt(s, p)
    BY <1>1, <1>2 DEF WrittenHolds, Holds, Todo
  <2>1. /\ s \in Seqs /\ p \in 1..MaxModelLen /\ p <= Len(table[s]) * BlockSize
        /\ p \in Nat /\ p >= 1
    BY <1>1, WrittenIsPrivate, EngineAssumption DEF MemoryInv
  <2>2. BlockAt(s, p) \in Blocks /\ OffsetAt(p) \in 0..BlockSize-1
    BY <2>1, InTable, SlotOf
  <2>3. Rows(BlockAt(s, p), OffsetAt(p)) = {<<s, p>>}
    <3>1. <<s, p>> \in Rows(BlockAt(s, p), OffsetAt(p))
      BY <2>1 DEF Rows
    <3>2. \A w \in Rows(BlockAt(s, p), OffsetAt(p)) : w = <<s, p>>
      BY <1>1, <2>1, RowsOfSlot DEF MemoryInv
    <3> QED
      BY <3>1, <3>2
  <2> DEFINE w == <<s, p>>
  <2>4. w[1] = s /\ w[2] = p
    OBVIOUS
  <2>5. Rows(BlockAt(s, p), OffsetAt(p)) = {w}
    BY <2>3
  <2> HIDE DEF w
  <2>6. kv'[BlockAt(s, p)][OffsetAt(p)] = PrefixAt(w[1], w[2])
    BY <2>2, <2>5, RunWrites, SparedOfPadding
  <2> QED
    BY <2>4, <2>6
<1>7. QED
  BY <1>4, <1>5, <1>6

-----------------------------------------------------------------------------
(* postprocess                                                             *)

(* What is committed has been written, and what is published with it is    *)
(* the block of that very sequence.                                        *)
LEMMA PostCommitKeepsMemory ==
  ASSUME Cache!IInv, Cache!IInv', IInv, MemoryInv, PostCommit, kv' = kv
  PROVE  ComputedHolds' /\ PublishedHolds'
<1>1. PICK s \in Seqs, u \in Nat :
        /\ s = Head(cand) /\ u = CommitTo(s) /\ u \in 1..Len(tokens[s])
        /\ s \in ToSet(cand) /\ BM!Compute(s, u)
        /\ isPrefill => PrefillReady(s)
        /\ ~isPrefill => DecodeReady(s)
  BY CacheGives, CommitIsAllowed
<1>2. SeqFacts /\ SeqFacts' /\ Cache!TypeOK
  BY CacheGives, PTL DEF Cache!IInv
<1>3. /\ pc = "post"
      /\ computed' = [computed EXCEPT ![s] = u]
      /\ UNCHANGED <<tokens, table>>
  BY <1>1 DEF PostCommit, BM!Compute, BM!Commit, BM!seqVars
<1>4. \A t, p : BlockAt(t, p)' = BlockAt(t, p) /\ PrefixAt(t, p)' = PrefixAt(t, p)
  BY <1>3 DEF BlockAt, PrefixAt, BM!NumBlocksFor
<1>5. \A p \in computed[s] + 1 .. u : p \in Written(s)
  <2>1. CASE isPrefill
    BY <1>1, <2>1 DEF CommitTo, Written
  <2>2. CASE ~isPrefill
    BY <1>1, <1>2, <2>2 DEF CommitTo, Written, DecodeReady, AtDecode, MaxOf, SeqFacts
  <2> QED
    BY <2>1, <2>2
<1>6. ComputedHolds'
  <2> SUFFICES ASSUME NEW t \in Seqs, NEW p \in 1..computed'[t] PROVE Holds(t, p)
    BY <1>4 DEF ComputedHolds, Holds
  <2>1. CASE p \in 1..computed[t]
    BY <2>1 DEF MemoryInv, ComputedHolds
  <2>2. CASE p \notin 1..computed[t]
    <3>1. t = s
      BY <1>1, <1>2, <1>3, <2>2 DEF SeqFacts
    <3>2. p \in computed[s] + 1 .. u
      BY <1>1, <1>2, <1>3, <2>2, <3>1 DEF SeqFacts
    <3>3. s \in ToSet(Todo)
      BY <1>1, <1>3 DEF Todo
    <3> QED
      BY <1>3, <1>5, <3>1, <3>2, <3>3 DEF MemoryInv, WrittenHolds
  <2> QED
    BY <2>1, <2>2
<1>7. PublishedHolds'
  <2> SUFFICES ASSUME NEW b \in Blocks, key'[b] # NoKey, NEW o \in 0..BlockSize-1, Spared(b, o)
               PROVE  kv[b][o] = SubSeq(key'[b][2], 1, Len(key'[b][2]) - BlockSize + 1 + o)
    BY DEF PublishedHolds
  <2>1. CASE key'[b] = key[b]
    BY <2>1 DEF MemoryInv, PublishedHolds
  <2>2. CASE key'[b] # key[b]
    <3>1. PICK i \in 1..Len(table[s]) : b = table[s][i]
      BY <1>1, <2>2 DEF BM!Compute, BM!Commit, BM!Fresh, BM!FullBlocks, Cache!TypeOK
    <3>2. /\ i * BlockSize <= computed'[s] /\ computed'[s] <= Len(tokens'[s])
          /\ key'[b] = Cache!Key(s, i)'
      BY <1>1, <1>3, <3>1 DEF Cache!IInv, Cache!PrefixIntegrity
    <3> DEFINE n == i * BlockSize
    <3>3. /\ i \in Nat /\ i >= 1 /\ n \in Nat /\ n <= Len(tokens[s])
          /\ tokens[s] \in Seq(Tokens) /\ Len(tokens[s]) \in Nat
          /\ computed'[s] \in Nat /\ n <= computed'[s]
      BY <1>1, <1>2, <1>3, <3>1, <3>2, SizeAssumption DEF SeqFacts
    <3>4. key'[b][2] = SubSeq(tokens[s], 1, n)
      <4>1. key'[b] = <<Namespace[s], SubSeq(tokens[s], 1, n)>>
        BY <1>3, <3>2 DEF Cache!Key
      <4>2. \A x, y : <<x, y>>[2] = y
        OBVIOUS
      <4> HIDE DEF n
      <4> QED
        BY <4>1, <4>2, Zenon
    <3>5. PICK p \in Nat :
            /\ p >= 1 /\ p = (i - 1) * BlockSize + o + 1 /\ p <= n
            /\ BM!NumBlocksFor(p) = i /\ OffsetAt(p) = o
      BY <3>3, TokenOf
    <3>6. n - BlockSize + 1 + o = p
      <4>1. BlockSize \in Nat /\ n = (i - 1) * BlockSize + BlockSize /\ (i - 1) * BlockSize \in Nat
        BY <3>3, SizeAssumption
      <4> HIDE DEF n
      <4> QED
        BY <3>5, <4>1
    <3>7. Holds(s, p)' /\ BlockAt(s, p) = b
      <4>1. p \in 1..computed'[s]
        <5> HIDE DEF n
        <5> QED
          BY <3>3, <3>5
      <4> QED
        BY <1>1, <1>6, <3>1, <3>5, <4>1 DEF ComputedHolds, BlockAt
    <3>8. kv[b][o] = SubSeq(tokens[s], 1, p)
      BY <1>3, <1>4, <3>5, <3>7 DEF Holds, PrefixAt
    <3>9. /\ Len(key'[b][2]) = n
          /\ SubSeq(key'[b][2], 1, p) = SubSeq(tokens[s], 1, p)
      <4> HIDE DEF n
      <4> QED
        BY <3>3, <3>4, <3>5, PrefixOfPrefix
    <3> QED
      BY <3>6, <3>8, <3>9
  <2> QED
    BY <2>1, <2>2
<1>8. QED
  BY <1>6, <1>7

(* What the others of the batch have written stays as they wrote it.       *)
LEMMA WrittenStays ==
  ASSUME WrittenHolds, pc \in {"post", "emit", "release"}, UNCHANGED <<kv, isPrefill>>,
         ToSet(Todo') \subseteq ToSet(Todo),
         \A s \in ToSet(Todo') : UNCHANGED <<tokens[s], table[s], computed[s], chunkEnd[s]>>
  PROVE  WrittenHolds'
<1> SUFFICES ASSUME NEW s \in ToSet(Todo'), NEW p \in Written(s)'
             PROVE  Holds(s, p)'
  BY DEF WrittenHolds
<1>1. UNCHANGED <<tokens[s], table[s], computed[s], chunkEnd[s]>> /\ s \in ToSet(Todo)
  OBVIOUS
<1>2. Written(s)' = Written(s)
  BY <1>1 DEF Written
<1>3. BlockAt(s, p)' = BlockAt(s, p) /\ PrefixAt(s, p)' = PrefixAt(s, p)
  BY <1>1 DEF BlockAt, PrefixAt, BM!NumBlocksFor
<1>4. Holds(s, p)
  BY <1>1, <1>2 DEF WrittenHolds
<1>5. QED
  BY <1>3, <1>4 DEF Holds

(* What the run has written is there until postprocess has counted it: a   *)
(* turn of postprocess changes only the sequence it has in hand, every     *)
(* other turn between steps or before the run promises nothing.            *)
LEMMA WrittenKeeps ==
  ASSUME Cache!IInv, IInv, WrittenHolds, kv' = kv,
         \/ Scheduling \/ Postprocessing \/ Environment \/ UNCHANGED vars
         \/ \E s \in Seqs : Add(s)
  PROVE  WrittenHolds'
<1> SUFFICES ASSUME pc' \in {"post", "emit", "release"} PROVE WrittenHolds'
  BY DEF WrittenHolds
<1>1. /\ SeqFacts /\ cand \in Seq(Seqs) /\ chunkEnd \in [Seqs -> Nat]
      /\ pc \in {"post", "emit", "release"} => IsInjective(cand)
      /\ pc \in {"emit", "release"} => cand # << >>
  BY CacheGives DEF IInv, TypeOK, RunInv, RunPhase
<1>2. ASSUME pc \in {"post", "emit", "release"},
             UNCHANGED <<isPrefill, tokens, table, computed, chunkEnd>>, Todo' = Todo
      PROVE  WrittenHolds'
  BY <1>2, WrittenStays
<1>3. CASE UNCHANGED vars
  BY <1>2, <1>3
  DEF vars, bmVars, seqVars, useVars, queueVars, localVars, pathVars, Todo
<1>4. CASE TimePasses
  BY <1>2, <1>4
  DEF TimePasses, BM!Expire, BM!seqVars, BM!useVars, queueVars, localVars, pathVars, Todo
<1>5. CASE EmitNothing \/ EmitWarmed
  BY <1>2, <1>5
  DEF EmitNothing, EmitWarmed, bmVars, seqVars, useVars, queueVars, localVars, pathVars, Todo
<1>6. ASSUME pc \in {"post", "emit", "release"}, cand # << >>, isPrefill' = isPrefill,
             Todo' = Tail(cand),
             \A u \in Seqs : u # Head(cand) =>
               UNCHANGED <<tokens[u], table[u], computed[u], chunkEnd[u]>>
      PROVE  WrittenHolds'
  <2>1. /\ ToSet(Tail(cand)) \subseteq ToSet(cand) /\ ToSet(Tail(cand)) \subseteq Seqs
        /\ Head(cand) \notin ToSet(Tail(cand))
    <3>1. ToSet(Tail(cand)) = ToSet(cand) \ {Head(cand)}
      BY <1>1, <1>6, TailOfDistinct
    <3>2. ToSet(cand) \subseteq Seqs
      BY <1>1, MembersOf
    <3> QED
      BY <3>1, <3>2
  <2>2. ToSet(Todo') \subseteq ToSet(Todo)
    BY <1>6, <2>1 DEF Todo
  <2> QED
    BY <1>6, <2>1, <2>2, WrittenStays
<1>7. CASE PostCommit
  <2>1. /\ pc = "post" /\ pc' = "emit" /\ cand # << >> /\ UNCHANGED <<cand, isPrefill, tokens, table>>
        /\ computed' = [computed EXCEPT ![Head(cand)] = CommitTo(Head(cand))]
        /\ chunkEnd' = [chunkEnd EXCEPT ![Head(cand)] = 0]
    BY <1>7 DEF PostCommit, BM!Commit, seqVars, pathVars
  <2>2. Todo' = Tail(cand)
    BY <2>1 DEF Todo
  <2> QED
    BY <1>1, <1>6, <2>1, <2>2 DEF SeqFacts
<1>8. ASSUME NEW t \in Tokens, EmitToken(t) PROVE WrittenHolds'
  <2>1. /\ pc = "emit" /\ UNCHANGED <<isPrefill, table, computed, chunkEnd>>
        /\ tokens' = [tokens EXCEPT ![Head(cand)] = Append(@, t)]
        /\ \/ pc' = "release" /\ cand' = cand
           \/ pc' = "post" /\ cand' = Tail(cand)
    BY <1>8 DEF EmitToken, useVars, pathVars
  <2>2. Todo' = Tail(cand)
    BY <2>1 DEF Todo
  <2> QED
    BY <1>1, <1>6, <2>1, <2>2 DEF SeqFacts
<1>9. CASE FinishRelease
  <2>1. /\ pc = "release" /\ pc' = "post" /\ cand' = Tail(cand) /\ UNCHANGED <<isPrefill, chunkEnd>>
        /\ BM!Deallocate(Head(cand)) /\ tokens' = tokens
    BY <1>9 DEF FinishRelease, BM!Retire, BM!seqVars, pathVars
  <2>2. Todo' = Tail(cand) /\ Head(cand) \in Seqs
    BY <1>1, <2>1, TailOfDistinct DEF Todo
  <2>3. Others(Head(cand))
    BY <2>1, <2>2, ReleaseCall
  <2> QED
    BY <1>1, <1>6, <2>1, <2>2, <2>3 DEF Others
<1>10. QED
  <2>1. CASE Schedule \/ Admit \/ AdmitMatch \/ AdmitAllocate
    BY <2>1 DEF Schedule, StartDecode, StartPrefill, Admit, AdmitMatch, AdmitAllocate
  <2>2. CASE PrefillInit \/ PrefillVisit \/ PrepareMatch \/ PrepareEnsure \/ PrepareFails \/ PrefillDone
    BY <2>2 DEF PrefillInit, PrefillVisit, PrepareMatch, PrepareEnsure, PrepareFails, PrefillDone,
       Dispatch, StartDecode, StartPrefill
  <2>3. CASE DecodeSkip \/ DecodeVisit \/ DecodeAppend \/ PreemptVictim \/ DecodeDone
    BY <2>3 DEF DecodeSkip, DecodeVisit, DecodeAppend, PreemptVictim, DecodeDone, pathVars,
       Dispatch, StartDecode, StartPrefill
  <2>4. CASE StepReturns \/ PurgePrefixCache
    BY <2>4 DEF StepReturns, PurgePrefixCache
  <2>5. ASSUME NEW s \in Seqs, Abort(s) \/ Resubmit(s) \/ Add(s)
        PROVE  WrittenHolds'
    BY <2>5 DEF Abort, Resubmit, Add
  <2> QED
    BY <1>3, <1>4, <1>5, <1>7, <1>8, <1>9, <2>1, <2>2, <2>3, <2>4, <2>5
    DEF Scheduling, Postprocessing, Environment

-----------------------------------------------------------------------------
(* Lengths                                                                 *)

(* No call generates beyond max_tokens.                                    *)
LEMMA TokensBounded ==
  ASSUME SeqFacts, OtherCall \/ PostCommit \/ UNCHANGED bmVars, NEW s \in Seqs,
         Len(tokens[s]) <= Len(Prompt[s]) + MaxTokens[s]
  PROVE  Len(tokens'[s]) <= Len(Prompt[s]) + MaxTokens[s]
<1>1. /\ tokens \in [Seqs -> Seq(Tokens)] /\ \A u \in Seqs : Len(tokens[u]) \in Nat
      /\ \A u \in Seqs : Prompt[u] \in Seq(Tokens) /\ Len(Prompt[u]) \in Nat /\ MaxTokens[u] \in Nat
  BY RequestAssumption DEF SeqFacts
<1>2. CASE tokens' = tokens
  BY <1>2
<1>3. ASSUME NEW u \in Seqs, NEW t \in Tokens, BM!AppendToken(u, t)
      PROVE  Len(tokens'[s]) <= Len(Prompt[s]) + MaxTokens[s]
  <2>1. /\ Len(tokens[u]) < Len(Prompt[u]) + MaxTokens[u]
        /\ tokens' = [tokens EXCEPT ![u] = Append(@, t)]
    BY <1>3 DEF BM!AppendToken
  <2>2. Len(Append(tokens[u], t)) = Len(tokens[u]) + 1
    BY <1>1
  <2>3. u # s => tokens'[s] = tokens[s]
    BY <1>1, <2>1
  <2>4. u = s => tokens'[s] = Append(tokens[u], t)
    BY <1>1, <2>1
  <2> QED
    BY <1>1, <2>1, <2>2, <2>3, <2>4
<1>4. ASSUME NEW u \in Seqs, BM!Renew(u)
      PROVE  Len(tokens'[s]) <= Len(Prompt[s]) + MaxTokens[s]
  BY <1>1, <1>4 DEF BM!Renew
<1>5. QED
  BY <1>2, <1>3, <1>4
  DEF OtherCall, PostCommit, bmVars, seqVars, BM!Match, BM!Ensure, BM!Retire, BM!Preempt,
      BM!PurgeAction, BM!Expire, BM!seqVars

(* A sequence comes to the queues by add_request only.                     *)
LEMMA QueuedStay ==
  ASSUME Cache!IInv, IInv, NEW s \in Seqs, status'[s] \in {"waiting", "running"},
         \/ Scheduling \/ Postprocessing \/ Environment \/ UNCHANGED vars \/ Run
         \/ \E u \in Seqs : AddRequest(u)
  PROVE  \/ status[s] \in {"waiting", "running"}
         \/ AddRequest(s)
<1>1. /\ SeqFacts /\ status \in [Seqs -> Statuses] /\ waiting \in Seq(Seqs) /\ cand \in Seq(Seqs)
  BY CacheGives DEF IInv, TypeOK
<1>2. CASE UNCHANGED status
  BY <1>2
<1>3. ASSUME NEW u \in Seqs, AddRequest(u)
      PROVE  status[s] \in {"waiting", "running"} \/ AddRequest(s)
  <2>1. status' = [status EXCEPT ![u] = "waiting"]
    BY <1>3 DEF AddRequest, Add
  <2> QED
    BY <1>1, <1>3, <2>1
<1>4. CASE AdmitAllocate
  <2>1. CASE status' = [status EXCEPT ![Head(waiting)] = "running"] /\ pc = "allocate"
    <3>1. status[Head(waiting)] = "waiting"
      BY <1>1, <2>1, TailOfDistinct DEF IInv, QueuesInv
    <3> QED
      BY <1>1, <2>1, <3>1
  <2> QED
    BY <1>2, <1>4, <2>1 DEF AdmitAllocate, queueVars
<1>5. CASE PreemptVictim
  <2>1. /\ status' = [status EXCEPT ![Victim(Head(cand))] = "waiting"]
        /\ status[Victim(Head(cand))] = "running"
    BY <1>1, <1>5, VictimFacts DEF PreemptVictim
  <2> QED
    BY <1>1, <2>1
<1>6. ASSUME NEW t \in Tokens, EmitToken(t)
      PROVE  status[s] \in {"waiting", "running"}
  BY <1>1, <1>6 DEF EmitToken, FinishReasons
<1>7. CASE EmitWarmed
  BY <1>1, <1>7 DEF EmitWarmed
<1>8. ASSUME NEW u \in Seqs, Abort(u) \/ Resubmit(u)
      PROVE  status[s] \in {"waiting", "running"}
  BY <1>1, <1>8 DEF Abort, Resubmit
<1>9. CASE UNCHANGED vars
  BY <1>2, <1>9 DEF vars, queueVars
<1>10. CASE Schedule \/ Admit \/ AdmitMatch \/ PrefillInit \/ PrefillVisit \/ PrepareMatch
            \/ PrepareEnsure \/ PrepareFails \/ PrefillDone
  BY <1>2, <1>10
  DEF Schedule, Admit, AdmitMatch, PrefillInit, PrefillVisit, PrepareMatch, PrepareEnsure,
      PrepareFails, PrefillDone, queueVars
<1>11. CASE DecodeSkip \/ DecodeVisit \/ DecodeAppend \/ DecodeDone \/ Run \/ PostCommit
            \/ EmitNothing \/ FinishRelease \/ StepReturns \/ PurgePrefixCache \/ TimePasses
  BY <1>2, <1>11
  DEF DecodeSkip, DecodeVisit, DecodeAppend, DecodeDone, Run, PostCommit, EmitNothing,
      FinishRelease, StepReturns, PurgePrefixCache, TimePasses, queueVars
<1>12. QED
  BY <1>3, <1>4, <1>5, <1>6, <1>7, <1>8, <1>9, <1>10, <1>11
  DEF Scheduling, Postprocessing, Environment

-----------------------------------------------------------------------------
(* The engine                                                              *)

(* The engine is the scheduler with a memory.                              *)
LEMMA EngineIsScheduler == EngineSpec => Spec
<1>1. EngineInit => Init
  BY DEF EngineInit
<1>2. [EngineNext]_engineVars => [Next]_vars
  BY DEF EngineNext, engineVars, AddRequest, RunModel, Next, Step
<1>3. QED
  BY <1>1, <1>2, PTL DEF EngineSpec, Spec

(* At first no token is computed and no block published. *)
LEMMA EngineInitEstablishes == EngineInit => MemoryInv
<1> SUFFICES ASSUME EngineInit PROVE MemoryInv
  OBVIOUS
<1>1. /\ tokens = Prompt /\ computed = [s \in Seqs |-> 0]
      /\ key = [b \in Blocks |-> NoKey] /\ pc = "idle" /\ status = [s \in Seqs |-> "new"]
  BY DEF EngineInit, Init, BM!Init
<1>2. ComputedHolds /\ PublishedHolds /\ WrittenHolds
  BY <1>1 DEF ComputedHolds, PublishedHolds, WrittenHolds
<1>3. LengthInv
  <2>1. \A s \in Seqs : Len(Prompt[s]) \in Nat /\ MaxTokens[s] \in Nat
    BY RequestAssumption
  <2> QED
    BY <1>1, <2>1 DEF LengthInv
<1>4. QED
  BY <1>2, <1>3 DEF MemoryInv

(* One run writes the memory, one commit publishes what it wrote, and      *)
(* every other call of the block manager is quiet.                         *)
LEMMA EngineKeeps ==
  ASSUME Cache!IInv, Cache!IInv', IInv, MemoryInv, [EngineNext]_engineVars
  PROVE  MemoryInv'
<1>1. SeqFacts
  BY CacheGives
<1>2. /\ \/ Scheduling \/ Postprocessing \/ Environment \/ UNCHANGED vars \/ Run
         \/ \E u \in Seqs : AddRequest(u)
      /\ [Next]_vars
  BY DEF EngineNext, engineVars, AddRequest, RunModel, Next, Step
<1>3. LengthInv'
  <2> SUFFICES ASSUME NEW s \in Seqs
               PROVE  /\ Len(tokens'[s]) <= Len(Prompt[s]) + MaxTokens[s]
                      /\ status'[s] \in {"waiting", "running"} =>
                           Len(Prompt[s]) + MaxTokens[s] <= MaxModelLen
    BY DEF LengthInv
  <2>1. Len(tokens[s]) <= Len(Prompt[s]) + MaxTokens[s]
    BY DEF MemoryInv, LengthInv
  <2>2. Len(tokens'[s]) <= Len(Prompt[s]) + MaxTokens[s]
    BY <1>1, <1>2, <2>1, OtherCalls, TokensBounded
  <2>3. ASSUME status'[s] \in {"waiting", "running"}
        PROVE  Len(Prompt[s]) + MaxTokens[s] <= MaxModelLen
    BY <1>2, <2>3, QueuedStay DEF MemoryInv, LengthInv, AddRequest, WithinLimits
  <2> QED
    BY <2>2, <2>3
<1>4. CASE RunModel
  BY <1>3, <1>4, RunModelKeeps DEF MemoryInv
<1>5. CASE ~RunModel
  <2>1. /\ kv' = kv
        /\ \/ Scheduling \/ Postprocessing \/ Environment \/ UNCHANGED vars
           \/ \E s \in Seqs : Add(s)
    BY <1>5 DEF EngineNext, engineVars, AddRequest
  <2>2. WrittenHolds'
    BY <2>1, WrittenKeeps DEF MemoryInv
  <2>3. ComputedHolds' /\ PublishedHolds'
    <3>1. CASE PostCommit
      BY <2>1, <3>1, PostCommitKeepsMemory
    <3>2. CASE ~PostCommit
      <4>1. OtherCall \/ UNCHANGED bmVars
        BY <1>1, <1>2, <3>2, OtherCalls
      <4> QED
        BY <2>1, <4>1, OtherCallIsQuiet, QuietKeeps DEF MemoryInv
    <3> QED
      BY <3>1, <3>2
  <2> QED
    BY <1>3, <2>2, <2>3 DEF MemoryInv
<1>6. QED
  BY <1>4, <1>5

(* The inductive invariant of the engine, with those of the scheduler and  *)
(* of the block manager that it rests on.                                  *)
THEOREM EngineInvariance == EngineSpec => [](Cache!IInv /\ IInv /\ MemoryInv)
<1>1. EngineInit => MemoryInv
  BY EngineInitEstablishes
<1>2. Cache!IInv /\ Cache!IInv' /\ IInv /\ MemoryInv /\ [EngineNext]_engineVars => MemoryInv'
  BY EngineKeeps
<1>3. Spec => [](Cache!IInv /\ IInv)
  BY Invariants
<1>4. QED
  BY <1>1, <1>2, <1>3, EngineIsScheduler, PTL DEF EngineSpec

(* Whatever graph a batch is decoded with: what a request has computed is  *)
(* in the memory, and so is what the prefix cache has published, but for   *)
(* the one slot that rows of padding write.                                *)
THEOREM OnlyOneSlotIsLost == EngineSpec => [](ComputedHolds /\ PublishedHolds)
<1>1. MemoryInv => ComputedHolds /\ PublishedHolds
  BY DEF MemoryInv
<1>2. QED
  BY <1>1, EngineInvariance, PTL

(* Where no batch is padded, with --enforce-eager above all, every request *)
(* attends to the keys and values of its own prefix.                       *)
THEOREM RequestsReadTheirOwn ==
  ASSUME NeverPadded
  PROVE  EngineSpec => []AttendsToOwnPrefix
<1>1. ComputedHolds => AttendsToOwnPrefix
  BY DEF ComputedHolds, Holds, Spared, AttendsToOwnPrefix
<1>2. QED
  BY <1>1, OnlyOneSlotIsLost, PTL

(* There, too, a block that a lookup may find holds what its hash names.   *)
THEOREM CacheIsTrue ==
  ASSUME NeverPadded
  PROVE  EngineSpec => []CacheHoldsItsKey
<1>1. PublishedHolds => CacheHoldsItsKey
  BY DEF PublishedHolds, Spared, CacheHoldsItsKey
<1>2. QED
  BY <1>1, OnlyOneSlotIsLost, PTL

-----------------------------------------------------------------------------
(***************************************************************************)
(* Giving up                                                               *)
(***************************************************************************)

(* The blocks that are in the table of another request.                    *)
HeldByOthers(s) == UNION {BM!BlocksOf(t) : t \in Seqs \ {s}}

(* A request in a queue that is too large for what the others leave.       *)
Crowded(s) ==
  /\ status[s] \in {"waiting", "running"}
  /\ BM!NumBlocksFor(Len(Prompt[s]) + MaxTokens[s])
       > Cardinality(Blocks) - Cardinality(HeldByOthers(s))

(* One request is, and so is everybody who runs.                           *)
SomeCrowded == \E s \in Seqs : Crowded(s)
AllCrowded == SomeCrowded /\ \A s \in ToSet(running) : Crowded(s)

(* No request has more tokens than it asked for.                           *)
Bounded == \A s \in Seqs : Len(tokens[s]) <= Len(Prompt[s]) + MaxTokens[s]

(* There is something to schedule.                                         *)
Queued == waiting # << >> \/ running # << >>

(* What is known while the batch is empty. The second attempt to fill it   *)
(* finds nobody who decodes, or everybody too large for what is left.      *)
TryAdmit ==
  /\ pc \in {"admit", "match", "allocate", "prefill_init"} => (fallback => ~HasDecodeWork)
  /\ pc \in {"admit", "match", "allocate"} => Queued
  /\ pc \in {"match", "allocate"} => (reserve # 0 => HasDecodeWork)
  /\ pc = "prefill_init" => SomeCrowded \/ running # << >>
(* A prefill that has picked nobody: whoever runs is still to be visited   *)
(* or crowded.                                                             *)
TryPrefill ==
  pc = "prefill" /\ batch = << >> =>
    /\ fallback => ~HasDecodeWork
    /\ reserve # 0 => HasDecodeWork
    /\ batched = 0
    /\ \/ HasDecodeWork
       \/ /\ SomeCrowded \/ cand # << >>
          /\ \A s \in ToSet(running) : s \in ToSet(cand) \/ Crowded(s)
(* A decode that has picked nobody: whoever decodes is still to be         *)
(* visited, and the head that is about to preempt was refused.             *)
TryDecode ==
  /\ pc \in {"decode", "preempt"} /\ batch = << >> =>
       /\ Queued
       /\ fallback => AllCrowded \/ HasDecodeWork
       /\ \A s \in ToSet(running) : Ready(s) => s \in ToSet(cand)
  /\ pc = "preempt" => ~BM!CanAllocate(Head(cand), Len(tokens[Head(cand)]), 0)

(* The engine gives up only when nobody decodes, somebody in the queues is *)
(* too large for what the others leave, and so is everybody who runs.      *)
GivesUpWhenCrowded == pc = "RuntimeError" => AllCrowded /\ ~HasDecodeWork

(* None of these is inductive alone.                                       *)
TriesInv == TryAdmit /\ TryPrefill /\ TryDecode /\ GivesUpWhenCrowded

(* A union has no more members than the two sets together.                 *)
LEMMA UnionIsNoLarger ==
  ASSUME NEW S, NEW T, IsFiniteSet(S), IsFiniteSet(T)
  PROVE  /\ IsFiniteSet(S \cup T) /\ Cardinality(S \cup T) \in Nat
         /\ Cardinality(S \cup T) <= Cardinality(S) + Cardinality(T)
<1>1. S \cap T \in SUBSET S
  OBVIOUS
<1>2. Cardinality(S) \in Nat /\ Cardinality(T) \in Nat /\ Cardinality(S \cap T) \in Nat
  BY <1>1, FS_Subset, FS_CardinalityType
<1>3. /\ IsFiniteSet(S \cup T)
      /\ Cardinality(S \cup T) = Cardinality(S) + Cardinality(T) - Cardinality(S \cap T)
  BY FS_Union
<1>4. Cardinality(S \cup T) \in Nat
  BY <1>3, FS_CardinalityType
<1> QED
  BY <1>2, <1>3, <1>4

(* The blocks are the idle, those of s and those of others.                *)
LEMMA BlocksAreSomewhere ==
  ASSUME Cache!IInv, NEW s \in Seqs
  PROVE  /\ IsFiniteSet(HeldByOthers(s)) /\ Cardinality(HeldByOthers(s)) \in Nat
         /\ Cardinality(Blocks) \in Nat
         /\ Cardinality(Blocks) <= BM!AvailableBlocks + Len(table[s]) + Cardinality(HeldByOthers(s))
<1> DEFINE I == free \cup cached
           M == BM!BlocksOf(s)
           O == HeldByOthers(s)
<1>1. /\ IsFiniteSet(I) /\ BM!AvailableBlocks = Cardinality(I) /\ BM!AvailableBlocks \in Nat
      /\ IsFiniteSet(Blocks) /\ Cardinality(Blocks) \in Nat
  <2>1. Cache!IdleCounted
    BY CacheAssumptions, Cache!AvailableIsIdle
  <2>2. IsFiniteSet(Blocks) /\ Cardinality(Blocks) \in Nat
    BY SetAssumption, FS_CardinalityType
  <2> QED
    BY <2>1, <2>2, SameAvailable
    DEF Cache!IdleCounted, Cache!Cardinality, Cardinality, Cache!IsFiniteSet, IsFiniteSet
<1>2. ASSUME NEW t \in Seqs PROVE BM!BlocksOf(t) \subseteq Blocks /\ Len(table[t]) \in Nat
  <2>1. table[t] \in Seq(Blocks)
    BY DEF Cache!IInv, Cache!TypeOK
  <2>2. Len(table[t]) \in Nat /\ \A i \in 1..Len(table[t]) : table[t][i] \in Blocks
    BY <2>1, LenProperties, ElementOfSeq
  <2> QED
    BY <2>2 DEF BM!BlocksOf
<1>3. /\ O \subseteq Blocks /\ IsFiniteSet(O) /\ Cardinality(O) \in Nat
  <2>1. O \subseteq Blocks
    BY <1>2 DEF HeldByOthers
  <2> QED
    BY <1>1, <2>1, FS_Subset, FS_CardinalityType
<1>4. IsFiniteSet(M) /\ Cardinality(M) <= Len(table[s]) /\ Cardinality(M) \in Nat
  <2>1. DOMAIN table[s] = 1..Len(table[s]) /\ Len(table[s]) \in Nat
    <3>1. table[s] \in Seq(Blocks)
      BY DEF Cache!IInv, Cache!TypeOK
    <3> QED
      BY <3>1, LenProperties
  <2>2. /\ Cache!IsFiniteSet({table[s][i] : i \in 1..Len(table[s])})
        /\ Cache!Cardinality({table[s][i] : i \in 1..Len(table[s])}) \in 0..Len(table[s])
    BY <2>1, CacheAssumptions, Cache!AtMostAsMany, Zenon
  <2>3. IsFiniteSet(M) /\ Cardinality(M) \in 0..Len(table[s])
    BY <2>2 DEF BM!BlocksOf, Cache!IsFiniteSet, IsFiniteSet, Cache!Cardinality, Cardinality
  <2> QED
    BY <2>1, <2>3
<1>5. Blocks \subseteq I \cup M \cup O
  <2> SUFFICES ASSUME NEW b \in Blocks, b \notin I PROVE b \in M \cup O
    OBVIOUS
  <2>1. ref[b] # 0
    BY DEF Cache!IInv, Cache!PoolPartition
  <2>2. ref[b] = Cache!Cardinality(Cache!Holders(b))
    BY DEF Cache!IInv, Cache!RefCountsExact
  <2>3. Cache!Holders(b) # {}
    BY <2>1, <2>2, FS_EmptySet DEF Cache!Cardinality, Cardinality
  <2>4. PICK t \in Seqs : b \in BM!BlocksOf(t)
    BY <2>3 DEF Cache!Holders, Cache!BlocksOf, BM!BlocksOf
  <2> QED
    BY <2>4 DEF HeldByOthers
<1> HIDE DEF I, M, O
<1>6. IsFiniteSet(I \cup M) /\ Cardinality(I \cup M) <= Cardinality(I) + Cardinality(M) /\ Cardinality(I \cup M) \in Nat
  BY <1>1, <1>4, UnionIsNoLarger
<1>7. /\ IsFiniteSet(I \cup M \cup O) /\ Cardinality(I \cup M \cup O) \in Nat
      /\ Cardinality(I \cup M \cup O) <= Cardinality(I \cup M) + Cardinality(O)
  BY <1>3, <1>6, UnionIsNoLarger
<1>8. Cardinality(Blocks) <= Cardinality(I \cup M \cup O)
  BY <1>5, <1>7, FS_Subset
<1> QED
  BY <1>1, <1>2, <1>3, <1>4, <1>6, <1>7, <1>8 DEF O

(* More tokens take more blocks.                                           *)
LEMMA MoreBlocks ==
  ASSUME NEW m \in Nat, NEW n \in Nat, m <= n
  PROVE  BM!NumBlocksFor(m) \in Int /\ BM!NumBlocksFor(n) \in Int /\ BM!NumBlocksFor(m) <= BM!NumBlocksFor(n)
BY SizeAssumption DEF BM!NumBlocksFor

(* A request that can_allocate refuses, for no more than its tokens, is    *)
(* too large for what the others leave.                                    *)
LEMMA RefusedIsCrowded ==
  ASSUME Cache!IInv, Bounded, NEW s \in Seqs, status[s] \in {"waiting", "running"},
         NEW n \in Nat, n <= Len(tokens[s]), ~BM!CanAllocate(s, n, 0)
  PROVE  Crowded(s)
<1>1. /\ Len(tokens[s]) \in Nat /\ Len(table[s]) \in Nat
      /\ Len(tokens[s]) <= Len(Prompt[s]) + MaxTokens[s]
      /\ Len(Prompt[s]) \in Nat /\ MaxTokens[s] \in Nat
  BY CacheGives, RequestAssumption, LenProperties DEF SeqFacts, Bounded
<1>2. /\ BM!NumBlocksFor(n) \in Int /\ BM!NumBlocksFor(Len(Prompt[s]) + MaxTokens[s]) \in Int
      /\ BM!NumBlocksFor(n) <= BM!NumBlocksFor(Len(Prompt[s]) + MaxTokens[s])
  <2>1. Len(Prompt[s]) + MaxTokens[s] \in Nat /\ n <= Len(Prompt[s]) + MaxTokens[s]
    BY <1>1
  <2> QED
    BY <2>1, MoreBlocks
<1>3. BM!NumBlocksFor(n) - Len(table[s]) > BM!AvailableBlocks - 0
  <2>1. BM!AvailableBlocks \in Nat
    BY CacheGives DEF SeqFacts
  <2> QED
    BY <1>1, <1>2, <2>1 DEF BM!CanAllocate
<1>4. BM!AvailableBlocks \in Nat
  BY CacheGives DEF SeqFacts
<1>5. /\ Cardinality(HeldByOthers(s)) \in Nat /\ Cardinality(Blocks) \in Nat
      /\ Cardinality(Blocks) <= BM!AvailableBlocks + Len(table[s]) + Cardinality(HeldByOthers(s))
  BY BlocksAreSomewhere
<1> QED
  BY <1>1, <1>2, <1>3, <1>4, <1>5 DEF Crowded

(* What others hold can be counted.                                        *)
OthersAreFew == \A s \in Seqs :
  IsFiniteSet(HeldByOthers(s)) /\ Cardinality(HeldByOthers(s)) \in Nat

(* The same as a formula, to be used of the next state.                    *)
LEMMA OthersCounted == Cache!IInv => OthersAreFew
BY BlocksAreSomewhere DEF OthersAreFew

(* It stays so while nobody else gives blocks back.                        *)
LEMMA CrowdedStays ==
  ASSUME Cache!IInv, Cache!IInv', NEW s \in Seqs, Crowded(s), status'[s] \in {"waiting", "running"},
         \A t \in Seqs \ {s} : BM!BlocksOf(t) \subseteq BM!BlocksOf(t)'
  PROVE  Crowded(s)'
<1>1. HeldByOthers(s) \subseteq HeldByOthers(s)'
  BY DEF HeldByOthers
<1>2. /\ IsFiniteSet(HeldByOthers(s)) /\ Cardinality(HeldByOthers(s)) \in Nat
      /\ Cardinality(Blocks) \in Nat
  BY BlocksAreSomewhere
<1>3. IsFiniteSet(HeldByOthers(s)') /\ Cardinality(HeldByOthers(s)') \in Nat
  <2>1. OthersAreFew'
    BY OthersCounted, PTL
  <2> QED
    BY <2>1 DEF OthersAreFew
<1>4. Cardinality(HeldByOthers(s)) <= Cardinality(HeldByOthers(s)')
  BY <1>1, <1>3, FS_Subset
<1>5. BM!NumBlocksFor(Len(Prompt[s]) + MaxTokens[s]) \in Int
  <2>1. Len(Prompt[s]) + MaxTokens[s] \in Nat
    BY RequestAssumption, LenProperties
  <2> QED
    BY <2>1, SizeAssumption DEF BM!NumBlocksFor
<1> QED
  BY <1>2, <1>3, <1>4, <1>5 DEF Crowded, BM!NumBlocksFor

(* What the invariant asks of a step that is not looking for work.         *)
LEMMA NotTrying ==
  ASSUME \/ pc' \in {"idle", "prepare", "ensure", "append", "run", "post", "emit", "release",
                     "AssertionError"}
         \/ pc' \in {"prefill", "decode"} /\ batch' # << >>
  PROVE  TriesInv'
BY DEF TriesInv, TryAdmit, TryPrefill, TryDecode, GivesUpWhenCrowded

(* Who is crowded depends on the tables and the queues only.               *)
LEMMA SameCrowd ==
  ASSUME UNCHANGED <<table, status>>
  PROVE  /\ \A s : Crowded(s)' <=> Crowded(s)
         /\ SomeCrowded' <=> SomeCrowded
<1>1. \A s : Crowded(s)' <=> Crowded(s)
  BY DEF Crowded, HeldByOthers, BM!BlocksOf, BM!NumBlocksFor
<1> QED
  BY <1>1 DEF SomeCrowded

(* Nothing the invariant speaks of changes.                                *)
LEMMA TimePassesTries ==
  ASSUME TriesInv,
         UNCHANGED <<tokens, target, computed, table, free, cached, queueVars, localVars,
                     pathVars, pc>>
  PROVE  TriesInv'
<1> USE DEF queueVars, localVars, pathVars
<1>1. /\ \A s : Crowded(s)' <=> Crowded(s)
      /\ SomeCrowded' <=> SomeCrowded
  BY SameCrowd
<1>2. /\ HasDecodeWork' <=> HasDecodeWork
      /\ Queued' <=> Queued
      /\ \A s : Ready(s)' <=> Ready(s)
  BY DEF HasDecodeWork, Queued, Ready
<1>3. AllCrowded' <=> AllCrowded
  BY <1>1 DEF AllCrowded
<1>4. TryAdmit'
  BY <1>1, <1>2 DEF TriesInv, TryAdmit
<1>5. TryPrefill'
  BY <1>1, <1>2 DEF TriesInv, TryPrefill
<1>6. TryDecode'
  <2>1. \A s, n, r : BM!CanAllocate(s, n, r)' <=> BM!CanAllocate(s, n, r)
    BY DEF BM!CanAllocate, BM!AvailableBlocks, BM!NumBlocksFor
  <2>2. pc = "preempt" => ~BM!CanAllocate(Head(cand), Len(tokens[Head(cand)]), 0)'
    BY <2>1 DEF TriesInv, TryDecode
  <2>3. pc' = "preempt" => ~BM!CanAllocate(Head(cand), Len(tokens[Head(cand)]), 0)'
    BY <2>2
  <2> QED
    BY <1>1, <1>2, <1>3, <2>3 DEF TriesInv, TryDecode
<1>7. GivesUpWhenCrowded'
  BY <1>2, <1>3 DEF TriesInv, GivesUpWhenCrowded
<1> QED
  BY <1>4, <1>5, <1>6, <1>7 DEF TriesInv

(* A step begins with something to schedule.                               *)
LEMMA ScheduleTries ==
  ASSUME IInv, Schedule
  PROVE  TriesInv'
<1>1. /\ Queued' /\ fallback' = FALSE
      /\ pc' = "admit" \/ (pc' = "decode" /\ cand' = running')
  BY DEF Schedule, StartDecode, StartPrefill, Queued
<1> QED
  BY <1>1 DEF TriesInv, TryAdmit, TryPrefill, TryDecode, GivesUpWhenCrowded

(* Blocks are kept in reserve for those who decode only.                   *)
LEMMA AdmitTries ==
  ASSUME SeqFacts, IInv, TriesInv, Admit
  PROVE  TriesInv'
<1>1. /\ pc = "admit" /\ pc' = "match" /\ waiting' = Reordered /\ reserve' = ReserveBlocks
      /\ UNCHANGED <<target, computed, running, fallback>>
  BY DEF Admit, bmVars, seqVars, useVars, pathVars
<1>2. Queued'
  <2>1. waiting \in Seq(Seqs) /\ waiting' \in Seq(Seqs) /\ ToSet(waiting') = ToSet(waiting)
    BY <1>1, ReorderedFacts DEF IInv, TypeOK
  <2>2. waiting' # << >> <=> waiting # << >>
    BY <2>1, MembersOf
  <2> QED
    BY <1>1, <2>2 DEF TriesInv, TryAdmit, Queued
<1>3. HasDecodeWork' <=> HasDecodeWork
  BY <1>1 DEF HasDecodeWork, Ready
<1>4. reserve' # 0 => HasDecodeWork
  BY <1>1 DEF ReserveBlocks
<1> QED
  BY <1>1, <1>2, <1>3, <1>4 DEF TriesInv, TryAdmit, TryPrefill, TryDecode, GivesUpWhenCrowded

(* The loop ends because nobody waits, or because the limit is reached.    *)
LEMMA AdmitMatchTries ==
  ASSUME Cache!IInv, Cache!IInv', SeqFacts, SeqFacts', IInv, TriesInv, AdmitMatch
  PROVE  TriesInv'
<1>1. /\ pc = "match" /\ pc' \in {"allocate", "prefill_init"}
      /\ UNCHANGED <<queueVars, localVars, pathVars>>
  BY DEF AdmitMatch
<1>2. \A u \in Seqs : Ready(u)' <=> Ready(u)
  <2>1. CASE waiting # << >> /\ Len(running) < MaxNumSeqs
    <3> DEFINE s == Head(waiting)
    <3>1. s \in Seqs /\ s \in ToSet(waiting)
      BY <2>1, TailOfDistinct DEF IInv, TypeOK, QueuesInv
    <3>2. status[s] = "waiting" /\ AtPrefill(s)
      BY <1>1, <3>1 DEF IInv, QueuesInv, StagesInv, InHand
    <3>3. BM!Match(s)
      BY <2>1 DEF AdmitMatch
    <3>4. computed[s] < target[s]
      BY <3>2 DEF AtPrefill
    <3>5. /\ UNCHANGED <<tokens, target>> /\ Others(s)
          /\ computed[s] <= computed'[s] /\ computed'[s] < target[s]
      BY <3>1, <3>3, <3>4, MatchCall
    <3> QED
      BY <1>1, <2>1, <3>1, <3>2, <3>5, LookupKeeps DEF queueVars
  <2>2. CASE ~(waiting # << >> /\ Len(running) < MaxNumSeqs)
    BY <2>2 DEF AdmitMatch, Ready, bmVars, seqVars, useVars
  <2> QED
    BY <2>1, <2>2
<1>3. running \in Seq(Seqs) /\ ToSet(running) \subseteq Seqs /\ Len(running) \in Nat
  BY MembersOf DEF IInv, TypeOK
<1>4. HasDecodeWork' <=> HasDecodeWork
  BY <1>1, <1>2, <1>3 DEF HasDecodeWork, queueVars
<1>5. pc' = "prefill_init" => running # << >>
  <2>1. SUFFICES ASSUME pc' = "prefill_init", waiting # << >> PROVE running # << >>
    BY <1>1 DEF TriesInv, TryAdmit, Queued
  <2>2. ~(Len(running) < MaxNumSeqs) /\ MaxNumSeqs \in Nat \ {0}
    BY <2>1, SchedulerAssumption DEF AdmitMatch
  <2>3. Len(running) > 0
    BY <1>3, <2>2
  <2> QED
    BY <1>3, <2>3, MembersOf
<1> QED
  BY <1>1, <1>4, <1>5
  DEF TriesInv, TryAdmit, TryPrefill, TryDecode, GivesUpWhenCrowded, Queued, queueVars, localVars, pathVars

(* Who is refused although nothing is reserved is crowded.                 *)
LEMMA AdmitAllocateTries ==
  ASSUME Cache!IInv, Cache!IInv', SeqFacts, IInv, Bounded, TriesInv, AdmitAllocate
  PROVE  TriesInv'
<1> DEFINE s == Head(waiting)
<1>1. /\ pc = "allocate" /\ pc' \in {"match", "prefill_init"}
      /\ UNCHANGED <<tokens, target, computed, table, localVars, pathVars>>
  <2>1. UNCHANGED <<computed, table>>
    BY PurgeCall DEF AdmitAllocate
  <2> QED
    BY <2>1 DEF AdmitAllocate, seqVars
<1>2. /\ s \in Seqs /\ status[s] = "waiting" /\ AtPrefill(s)
      /\ running \in Seq(Seqs) /\ ToSet(running) \subseteq Seqs
  <2>1. s \in Seqs /\ s \in ToSet(waiting)
    BY <1>1, TailOfDistinct DEF IInv, TypeOK, QueuesInv
  <2> QED
    BY <1>1, <2>1, MembersOf DEF IInv, TypeOK, QueuesInv, StagesInv, InHand
<1>3. ~Ready(s) /\ \A u : Ready(u)' <=> Ready(u)
  BY <1>1, <1>2 DEF Ready, AtPrefill, SeqFacts
<1>4. CASE BM!CanAllocate(s, AdmitTarget(s), reserve)
  <2>1. pc' = "match" /\ running' = Append(running, s)
    BY <1>4 DEF AdmitAllocate
  <2> HIDE DEF s
  <2>2. ToSet(running') = ToSet(running) \cup {s} /\ running' \in Seq(Seqs)
    <3>1. s \in Seqs /\ running \in Seq(Seqs)
      BY <1>2
    <3>2. /\ Append(running, s) \in Seq(Seqs)
          /\ ToSet(Append(running, s)) = ToSet(running) \cup {s}
          /\ IsInjective(running) /\ s \notin ToSet(running)
               => IsInjective(Append(running, s)) /\ IsInjective(<<s>> \o running)
      BY <3>1, OneMore
    <3> QED
      BY <2>1, <3>2
  <2>3. running' # << >>
    BY <2>2, MembersOf
  <2>4. HasDecodeWork' <=> HasDecodeWork
    BY <1>3, <2>2 DEF HasDecodeWork
  <2> QED
    BY <1>1, <2>1, <2>3, <2>4
    DEF TriesInv, TryAdmit, TryPrefill, TryDecode, GivesUpWhenCrowded, Queued, localVars, pathVars
<1>5. CASE ~BM!CanAllocate(s, AdmitTarget(s), reserve)
  <2>1. pc' = "prefill_init" /\ UNCHANGED queueVars
    BY <1>5 DEF AdmitAllocate
  <2>2. HasDecodeWork' <=> HasDecodeWork
    BY <1>3, <2>1 DEF HasDecodeWork, queueVars
  <2>3. SomeCrowded \/ running # << >>
    <3>1. CASE reserve = 0
      <4>1. AdmitTarget(s) \in Nat /\ AdmitTarget(s) <= Len(tokens[s])
        <5>1. /\ target[s] \in Nat /\ computed[s] \in Nat /\ target[s] <= Len(tokens[s])
              /\ Len(tokens[s]) \in Nat /\ MaxChunk \in Nat
          BY <1>2, SchedulerAssumption DEF SeqFacts, MaxChunk, MinOf
        <5> QED
          BY <5>1 DEF AdmitTarget, MinOf, MaxOf
      <4>2. Crowded(s)
        BY <1>2, <1>5, <3>1, <4>1, RefusedIsCrowded
      <4> QED
        BY <1>2, <4>2 DEF SomeCrowded
    <3>2. CASE reserve # 0
      <4>1. HasDecodeWork
        BY <1>1, <3>2 DEF TriesInv, TryAdmit
      <4> QED
        BY <1>2, <4>1, MembersOf DEF HasDecodeWork
    <3> QED
      BY <3>1, <3>2
  <2>4. SomeCrowded' <=> SomeCrowded
    BY <1>1, <2>1, SameCrowd DEF queueVars
  <2> QED
    BY <1>1, <2>1, <2>2, <2>3, <2>4
    DEF TriesInv, TryAdmit, TryPrefill, TryDecode, GivesUpWhenCrowded, Queued, localVars, pathVars, queueVars
<1> QED
  BY <1>4, <1>5

(* Whoever runs decodes or is a candidate.                                 *)
LEMMA PrefillInitTries ==
  ASSUME SeqFacts, IInv, TriesInv, PrefillInit
  PROVE  TriesInv'
<1> DEFINE S == {s \in Seqs : ~Ready(s)}
<1>1. /\ pc = "prefill_init" /\ pc' = "prefill"
      /\ UNCHANGED <<tokens, target, computed, table, queueVars, pathVars>>
      /\ cand' = Filtered(running, S) /\ reserve' = ReserveBlocks /\ batched' = 0
  BY DEF PrefillInit, bmVars, seqVars, useVars
<1>2. /\ running \in Seq(Seqs) /\ ToSet(running) \subseteq Seqs
      /\ cand' \in Seq(Seqs) /\ ToSet(cand') = ToSet(running) \cap S
  <2>1. running \in Seq(Seqs) /\ ToSet(running) \subseteq Seqs
    BY MembersOf DEF IInv, TypeOK
  <2> HIDE DEF S
  <2> QED
    BY <1>1, <2>1, FilteredFacts
<1>3. HasDecodeWork' <=> HasDecodeWork
  BY <1>1 DEF HasDecodeWork, Ready, queueVars
<1>4. reserve' # 0 => HasDecodeWork
  BY <1>1 DEF ReserveBlocks
<1>5. ASSUME ~HasDecodeWork
      PROVE  /\ \A s \in ToSet(running) : s \in ToSet(cand')
             /\ SomeCrowded \/ cand' # << >>
  <2>1. ToSet(cand') = ToSet(running)
    BY <1>2, <1>5 DEF HasDecodeWork
  <2>2. running # << >> => cand' # << >>
    BY <1>2, <2>1, MembersOf
  <2> QED
    BY <1>1, <2>1, <2>2 DEF TriesInv, TryAdmit
<1>6. SomeCrowded' <=> SomeCrowded
  BY <1>1, SameCrowd DEF queueVars
<1>7. running' = running
  BY <1>1 DEF queueVars
<1>8. TryPrefill'
  BY <1>1, <1>3, <1>4, <1>5, <1>6, <1>7 DEF TriesInv, TryAdmit, TryPrefill, pathVars
<1> QED
  BY <1>1, <1>8 DEF TriesInv, TryAdmit, TryDecode, GivesUpWhenCrowded

(* A candidate that is refused is crowded, unless blocks are reserved for  *)
(* those who decode.                                                       *)
LEMMA PrefillVisitTries ==
  ASSUME Cache!IInv, Cache!IInv', SeqFacts, IInv, Bounded, TriesInv, PrefillVisit
  PROVE  TriesInv'
<1> DEFINE s == Head(cand)
           end == MinOf(target[s], computed[s] + MinOf(chunk, MaxBatched - batched))
<1>1. /\ pc = "prefill" /\ PrefillVisits
      /\ UNCHANGED <<tokens, target, computed, table, queueVars, batch, batched, reserve, pathVars>>
  BY PurgeCall DEF PrefillVisit, seqVars
<1>2. CASE BM!CanAllocate(s, end, reserve)
  BY <1>2, NotTrying DEF PrefillVisit
<1>3. CASE batch # << >>
  BY <1>1, <1>3, NotTrying DEF PrefillVisit
<1>4. CASE ~BM!CanAllocate(s, end, reserve) /\ batch = << >>
  <2>1. pc' = "prefill" /\ cand' = Tail(cand)
    BY <1>1, <1>4 DEF PrefillVisit
  <2>2. s \in Seqs /\ s \in ToSet(cand) /\ ToSet(Tail(cand)) = ToSet(cand) \ {s}
    BY <1>1, TailOfDistinct DEF IInv, TypeOK, VisitInv, PrefillPhase, PrefillVisits
  <2>3. status[s] = "running"
    BY <1>1, <2>2 DEF IInv, PrefillInv, PrefillPhase
  <2>4. end \in Nat /\ end <= Len(tokens[s])
    <3>1. /\ batched \in Nat /\ chunk \in Nat /\ MaxBatched \in Nat /\ computed[s] \in Nat
          /\ target[s] \in Nat /\ batched < MaxBatched /\ target[s] <= Len(tokens[s])
          /\ Len(tokens[s]) \in Nat
      BY <1>1, <2>2, SchedulerAssumption DEF IInv, TypeOK, SeqFacts, PrefillVisits
    <3> QED
      BY <3>1 DEF MinOf
  <2> HIDE DEF end
  <2>5. reserve = 0 => Crowded(s)
    BY <1>4, <2>2, <2>3, <2>4, RefusedIsCrowded
  <2> HIDE DEF s
  <2>6. /\ HasDecodeWork' <=> HasDecodeWork
        /\ \A u : Crowded(u)' <=> Crowded(u)
        /\ SomeCrowded' <=> SomeCrowded
        /\ UNCHANGED <<running, fallback, reserve, batched, batch>>
    BY <1>1, SameCrowd DEF HasDecodeWork, Ready, queueVars, pathVars
  <2>7. ASSUME ~HasDecodeWork
        PROVE  /\ SomeCrowded
               /\ \A u \in ToSet(running) : u \in ToSet(cand') \/ Crowded(u)
    <3>1. Crowded(s)
      BY <1>1, <1>4, <2>5, <2>7 DEF TriesInv, TryPrefill
    <3>2. \A u \in ToSet(running) : u \in ToSet(cand) \/ Crowded(u)
      BY <1>1, <1>4, <2>7 DEF TriesInv, TryPrefill
    <3> QED
      BY <2>1, <2>2, <3>1, <3>2 DEF SomeCrowded
  <2>8. TryPrefill'
    BY <1>1, <1>4, <2>1, <2>6, <2>7 DEF TriesInv, TryPrefill
  <2> QED
    BY <2>1, <2>8 DEF TriesInv, TryAdmit, TryDecode, GivesUpWhenCrowded
<1> QED
  BY <1>2, <1>3, <1>4

(* Whoever is crowded is in a queue.                                       *)
LEMMA CrowdedIsQueued ==
  ASSUME IInv, SomeCrowded
  PROVE  Queued
<1>1. PICK s \in Seqs : status[s] \in {"waiting", "running"}
  BY DEF SomeCrowded, Crowded
<1>2. s \in ToSet(waiting) \/ s \in ToSet(running)
  BY <1>1 DEF IInv, QueuesInv
<1> QED
  BY <1>2, MembersOf DEF IInv, TypeOK, Queued

(* When nobody could be prefilled somebody decodes, or all are crowded.    *)
LEMMA PrefillDoneTries ==
  ASSUME SeqFacts, IInv, TriesInv, PrefillDone
  PROVE  TriesInv'
<1>1. /\ pc = "prefill" /\ ~PrefillVisits /\ Dispatch(TRUE)
      /\ UNCHANGED <<tokens, target, computed, table, queueVars, batch>>
  BY DEF PrefillDone, bmVars, seqVars, useVars
<1>2. CASE batch # << >>
  BY <1>1, <1>2, NotTrying DEF Dispatch
<1>3. CASE batch = << >>
  <2>1. cand = << >>
    <3>1. batched = 0 /\ Len(batch) = 0
      BY <1>1, <1>3, EmptySeq DEF TriesInv, TryPrefill
    <3> QED
      BY <1>1, <3>1, SchedulerAssumption DEF PrefillVisits
  <2>2. ToSet(cand) = {}
    BY <2>1, MembersOf, EmptySeq
  <2>3. /\ HasDecodeWork \/ AllCrowded
        /\ fallback => ~HasDecodeWork
    BY <1>1, <1>3, <2>1, <2>2 DEF TriesInv, TryPrefill, AllCrowded
  <2>4. running \in Seq(Seqs)
    BY DEF IInv, TypeOK
  <2>5. Queued
    <3>1. HasDecodeWork => running # << >>
      BY <2>4, MembersOf DEF HasDecodeWork
    <3> QED
      BY <2>3, <3>1, CrowdedIsQueued DEF AllCrowded, Queued
  <2>6. /\ HasDecodeWork' <=> HasDecodeWork
        /\ AllCrowded' <=> AllCrowded
        /\ Queued' <=> Queued
        /\ running' = running
    BY <1>1, SameCrowd DEF HasDecodeWork, Ready, AllCrowded, Queued, queueVars
  <2>7. CASE fallback /\ pc' = "RuntimeError"
    BY <2>3, <2>6, <2>7 DEF TriesInv, TryAdmit, TryPrefill, TryDecode, GivesUpWhenCrowded
  <2>8. CASE pc' = "decode" /\ cand' = running
    BY <2>3, <2>5, <2>6, <2>8 DEF TriesInv, TryAdmit, TryPrefill, TryDecode, GivesUpWhenCrowded
  <2> QED
    BY <1>1, <1>3, <2>7, <2>8 DEF Dispatch, StartDecode
<1> QED
  BY <1>2, <1>3

(* Whoever decodes is still to be visited.                                 *)
LEMMA DecodeSkipTries ==
  ASSUME IInv, TriesInv, DecodeSkip
  PROVE  TriesInv'
<1>1. /\ pc = "decode" /\ pc' = "decode" /\ cand # << >> /\ cand' = Tail(cand) /\ ~Ready(Head(cand))
      /\ UNCHANGED <<tokens, target, computed, table, queueVars, batch, pathVars>>
  BY DEF DecodeSkip, DecodeVisits, bmVars, seqVars, useVars
<1>2. ToSet(cand') = ToSet(cand) \ {Head(cand)}
  BY <1>1, TailOfDistinct DEF IInv, TypeOK, VisitInv, DecodePhase
<1>3. /\ HasDecodeWork' <=> HasDecodeWork
      /\ AllCrowded' <=> AllCrowded
      /\ Queued' <=> Queued
      /\ UNCHANGED <<running, batch, fallback>>
      /\ \A u : Ready(u)' <=> Ready(u)
  BY <1>1, SameCrowd DEF HasDecodeWork, Ready, AllCrowded, Queued, queueVars, pathVars
<1>4. TryDecode'
  BY <1>1, <1>2, <1>3 DEF TriesInv, TryDecode
<1> QED
  BY <1>1, <1>4 DEF TriesInv, TryAdmit, TryPrefill, GivesUpWhenCrowded

(* It is remembered that the head was refused.                             *)
LEMMA DecodeVisitTries ==
  ASSUME Cache!IInv, Cache!IInv', SeqFacts, IInv, TriesInv, DecodeVisit
  PROVE  TriesInv'
<1>1. /\ pc = "decode"
      /\ pc' = IF BM!CanAllocate(Head(cand), Len(tokens[Head(cand)]), 0) THEN "append" ELSE "preempt"
      /\ UNCHANGED <<tokens, target, computed, table, queueVars, localVars, pathVars>>
      /\ BM!AvailableBlocks' = BM!AvailableBlocks
  BY PurgeCall DEF DecodeVisit, seqVars
<1>2. CASE BM!CanAllocate(Head(cand), Len(tokens[Head(cand)]), 0)
  BY <1>1, <1>2, NotTrying
<1>3. CASE ~BM!CanAllocate(Head(cand), Len(tokens[Head(cand)]), 0)
  <2>1. /\ HasDecodeWork' <=> HasDecodeWork
        /\ AllCrowded' <=> AllCrowded
        /\ Queued' <=> Queued
        /\ UNCHANGED <<running, batch, fallback, cand, tokens, table>>
        /\ \A u : Ready(u)' <=> Ready(u)
    BY <1>1, SameCrowd DEF HasDecodeWork, Ready, AllCrowded, Queued, queueVars, pathVars, localVars
  <2>2. ~BM!CanAllocate(Head(cand), Len(tokens[Head(cand)]), 0)'
    BY <1>1, <1>3, <2>1 DEF BM!CanAllocate, BM!NumBlocksFor
  <2>3. TryDecode'
    BY <1>1, <2>1, <2>2 DEF TriesInv, TryDecode
  <2> QED
    BY <1>1, <1>3, <2>3 DEF TriesInv, TryAdmit, TryPrefill, GivesUpWhenCrowded
<1> QED
  BY <1>2, <1>3

(* A sequence preempts itself when nobody else outside the batch runs.     *)
LEMMA LastVictim ==
  ASSUME IInv, NEW s, Victim(s) = s
  PROVE  ToSet(running) \subseteq ToSet(batch) \cup {s}
<1> DEFINE test(t) == t # s /\ t \notin ToSet(batch)
           I == {i \in 1..Len(running) : test(running[i])}
<1>1. running \in Seq(Seqs) /\ Len(running) \in Nat /\ I \in SUBSET (1..Len(running))
  BY MembersOf DEF IInv, TypeOK
<1>2. I = {}
  <2> SUFFICES ASSUME I # {} PROVE FALSE
    OBVIOUS
  <2>1. Max(I) \in I
    BY <1>1, LastPlace
  <2>2. Victim(s) = running[Max(I)]
    BY <1>1, <2>1 DEF Victim, SelectLastInSeq
  <2> QED
    BY <2>1, <2>2
<1>3. \A x : x \in ToSet(running) <=> \E i \in 1..Len(running) : running[i] = x
  BY <1>1, MembersOf
<1> QED
  BY <1>2, <1>3

(* As long as somebody else can be preempted the head still decodes; when  *)
(* it must go itself, nobody runs and it is crowded.                       *)
LEMMA PreemptVictimTries ==
  ASSUME Cache!IInv, Cache!IInv', SeqFacts, IInv, Bounded, TriesInv, PreemptVictim
  PROVE  TriesInv'
<1>0. PICK s \in Seqs : s = Head(cand) /\ status[s] = "running" /\ AtDecode(s)
  BY DecodeHead DEF PreemptVictim
<1>1. PICK v \in Seqs :
        /\ v = Victim(s) /\ status[v] = "running" /\ v \notin ToSet(batch)
  BY <1>0, VictimFacts DEF PreemptVictim
<1>2. /\ pc = "preempt" /\ pc' = "decode" /\ BM!Preempt(v)
      /\ running' = RemoveFirst(running, v) /\ waiting' = <<v>> \o waiting
      /\ status' = [status EXCEPT ![v] = "waiting"]
      /\ UNCHANGED <<localVars, pathVars>>
  BY <1>0, <1>1 DEF PreemptVictim
<1>3. CASE batch # << >>
  BY <1>2, <1>3, NotTrying DEF localVars
<1>4. CASE batch = << >>
  <2>1. /\ tokens' = tokens /\ target' = [target EXCEPT ![v] = Len(tokens[v])] /\ Others(v)
    BY <1>2, ReleaseCall DEF BM!Preempt
  <2>2. \A u \in Seqs \ {v} : target'[u] = target[u] /\ computed'[u] = computed[u] /\ table'[u] = table[u]
    BY <2>1 DEF Others, SeqFacts
  <2>3. running' \in Seq(Seqs) /\ ToSet(running') = ToSet(running) \ {v} /\ ToSet(running) \subseteq Seqs
    BY <1>2, RemoveFirstFacts, MembersOf DEF IInv, TypeOK, QueuesInv
  <2>4. Queued'
    <3>1. waiting \in Seq(Seqs)
      BY DEF IInv, TypeOK
    <3>2. v \in ToSet(<<v>> \o waiting) /\ <<v>> \o waiting \in Seq(Seqs)
      BY <3>1, OneMore
    <3> QED
      BY <1>2, <3>2, MembersOf DEF Queued
  <2>5. s \in Seqs /\ status[s] = "running" /\ Ready(s) /\ s \in ToSet(running)
    BY <1>0 DEF AtDecode, Ready, IInv, QueuesInv
  <2>6. \A u \in ToSet(running') : Ready(u)' => u \in ToSet(cand')
    BY <1>2, <1>4, <2>2, <2>3 DEF TriesInv, TryDecode, Ready, localVars
  <2>7. AllCrowded' \/ HasDecodeWork'
    <3>1. CASE v # s
      <4>1. s \in ToSet(running') /\ Ready(s)'
        BY <2>2, <2>3, <2>5, <3>1 DEF Ready
      <4> QED
        BY <4>1 DEF HasDecodeWork
    <3>2. CASE v = s
      <4>1. ToSet(running') = {}
        <5>1. ToSet(batch) = {}
          BY <1>4, MembersOf, EmptySeq
        <5> QED
          BY <1>1, <2>3, <3>2, <5>1, LastVictim
      <4>2. Crowded(s)
        <5>1. ~BM!CanAllocate(s, Len(tokens[s]), 0)
          BY <1>0, <1>2 DEF TriesInv, TryDecode
        <5>2. Len(tokens[s]) \in Nat /\ Len(tokens[s]) <= Len(tokens[s])
          BY <2>5 DEF SeqFacts
        <5> QED
          BY <2>5, <5>1, <5>2, RefusedIsCrowded
      <4>3. status'[s] = "waiting"
        BY <1>2, <2>5, <3>2 DEF IInv, TypeOK
      <4>4. \A t \in Seqs \ {s} : BM!BlocksOf(t) \subseteq BM!BlocksOf(t)'
        BY <2>2, <3>2 DEF BM!BlocksOf
      <4>5. Crowded(s)'
        BY <2>5, <4>2, <4>3, <4>4, CrowdedStays
      <4> QED
        BY <2>5, <4>1, <4>5 DEF AllCrowded, SomeCrowded
    <3> QED
      BY <3>1, <3>2
  <2>8. TryDecode'
    BY <1>2, <2>4, <2>6, <2>7 DEF TryDecode
  <2> QED
    BY <1>2, <2>8 DEF TriesInv, TryAdmit, TryPrefill, GivesUpWhenCrowded
<1> QED
  BY <1>3, <1>4

(* Nobody decodes when all have been visited and the batch is empty.       *)
LEMMA DecodeDoneTries ==
  ASSUME SeqFacts, IInv, TriesInv, DecodeDone
  PROVE  TriesInv'
<1>1. /\ pc = "decode" /\ ~DecodeVisits /\ Dispatch(FALSE) /\ running' = RotatedBatch
      /\ UNCHANGED <<tokens, target, computed, table, waiting, status, batch>>
  BY DEF DecodeDone, bmVars, seqVars, useVars
<1>2. CASE batch # << >>
  BY <1>1, <1>2, NotTrying DEF Dispatch
<1>3. CASE batch = << >>
  <2>1. ToSet(batch) = {} /\ Len(batch) = 0
    BY <1>3, MembersOf, EmptySeq
  <2>2. ToSet(cand) = {}
    <3>1. cand = << >>
      BY <1>1, <2>1, SchedulerAssumption DEF DecodeVisits
    <3> QED
      BY <3>1, MembersOf, EmptySeq
  <2>3. ~HasDecodeWork
    BY <1>1, <1>3, <2>2 DEF TriesInv, TryDecode, HasDecodeWork
  <2>4. running \in Seq(Seqs) /\ running' \in Seq(Seqs) /\ ToSet(running') = ToSet(running)
    <3>1. ToSet(batch) \subseteq ToSet(running)
      BY <2>1
    <3> QED
      BY <1>1, <3>1, RotatedBatchFacts DEF IInv, TypeOK
  <2>5. ~HasDecodeWork' /\ (AllCrowded' <=> AllCrowded)
    <3>1. (\A u : Ready(u)' <=> Ready(u)) /\ (\A u : Crowded(u)' <=> Crowded(u)) /\ (SomeCrowded' <=> SomeCrowded)
      BY <1>1, SameCrowd DEF Ready
    <3> QED
      BY <2>3, <2>4, <3>1 DEF HasDecodeWork, AllCrowded
  <2>6. Queued'
    <3>1. running' # << >> <=> running # << >>
      BY <2>4, MembersOf
    <3> QED
      BY <1>1, <1>3, <3>1 DEF TriesInv, TryDecode, Queued
  <2>7. CASE fallback /\ pc' = "RuntimeError"
    BY <1>1, <1>3, <2>3, <2>5, <2>7 DEF TriesInv, TryAdmit, TryPrefill, TryDecode, GivesUpWhenCrowded
  <2>8. CASE pc' = "admit"
    BY <2>5, <2>6, <2>8 DEF TriesInv, TryAdmit, TryPrefill, TryDecode, GivesUpWhenCrowded
  <2> QED
    BY <1>1, <1>3, <2>7, <2>8 DEF Dispatch, StartPrefill
<1> QED
  BY <1>2, <1>3

(* Every step keeps what is known of an empty batch.                       *)
LEMMA TriesKeep ==
  ASSUME Cache!IInv, Cache!IInv', IInv, Bounded, TriesInv, [Next]_vars
  PROVE  TriesInv'
<1>1. SeqFacts /\ SeqFacts'
  BY CacheGives, PTL
<1>2. CASE UNCHANGED vars
  BY <1>2, TimePassesTries DEF vars, bmVars, seqVars, useVars, poolVars
<1>3. CASE TimePasses
  BY <1>3, TimePassesTries DEF TimePasses, BM!Expire, BM!seqVars, BM!useVars
<1>4. CASE PrepareMatch \/ PrepareFails \/ Run \/ Postprocessing
  <2>1. pc' \in {"ensure", "AssertionError", "post", "emit", "release", "idle"}
    BY <1>4 DEF PrepareMatch, PrepareFails, Run, Postprocessing, PostCommit, EmitNothing, EmitWarmed,
                EmitToken, FinishRelease, StepReturns
  <2> QED
    BY <2>1, NotTrying
<1>5. CASE PrepareEnsure \/ DecodeAppend
  <2>1. pc' \in {"prefill", "decode"} /\ batch' = Append(batch, Head(cand))
    BY <1>5 DEF PrepareEnsure, DecodeAppend
  <2>2. batch' # << >>
    <3>1. batch \in Seq(Seqs)
      BY DEF IInv, TypeOK
    <3> QED
      BY <2>1, <3>1, AppendProperties, EmptySeq
  <2> QED
    BY <2>1, <2>2, NotTrying
<1>6. CASE Schedule \/ Admit \/ AdmitMatch \/ AdmitAllocate
  BY <1>1, <1>6, ScheduleTries, AdmitTries, AdmitMatchTries, AdmitAllocateTries
<1>7. CASE PrefillInit \/ PrefillVisit \/ PrefillDone
  BY <1>1, <1>7, PrefillInitTries, PrefillVisitTries, PrefillDoneTries
<1>8. CASE DecodeSkip \/ DecodeVisit \/ PreemptVictim \/ DecodeDone
  BY <1>1, <1>8, DecodeSkipTries, DecodeVisitTries, PreemptVictimTries, DecodeDoneTries
<1>9. ASSUME NEW s \in Seqs, Add(s) \/ Abort(s) \/ Resubmit(s) \/ PurgePrefixCache
      PROVE  TriesInv'
  <2>1. pc' = "idle"
    BY <1>9 DEF Add, Abort, Resubmit, PurgePrefixCache
  <2> QED
    BY <2>1, NotTrying
<1>10. CASE PurgePrefixCache
  <2>1. pc' = "idle"
    BY <1>10 DEF PurgePrefixCache
  <2> QED
    BY <2>1, NotTrying
<1> QED
  BY <1>2, <1>3, <1>4, <1>5, <1>6, <1>7, <1>8, <1>9, <1>10 DEF Next, Step, Scheduling, Environment

(* No step generates beyond what a request asks for.                       *)
LEMMA BoundedKeeps ==
  ASSUME Cache!IInv, IInv, Bounded, [Next]_vars
  PROVE  Bounded'
<1>1. SeqFacts
  BY CacheGives
<1>2. OtherCall \/ PostCommit \/ UNCHANGED bmVars
  BY <1>1, OtherCalls
<1> QED
  BY <1>1, <1>2, TokensBounded DEF Bounded

(* Both hold at every moment.                                              *)
LEMMA Tries == Spec => [](Bounded /\ TriesInv)
<1>1. Init => Bounded /\ TriesInv
  <2> SUFFICES ASSUME Init PROVE Bounded /\ TriesInv
    OBVIOUS
  <2>1. pc = "idle" /\ tokens = Prompt
    BY DEF Init, BM!Init
  <2>2. \A s \in Seqs : Len(Prompt[s]) \in Nat /\ MaxTokens[s] \in Nat
    BY RequestAssumption, LenProperties
  <2> QED
    BY <2>1, <2>2 DEF Bounded, TriesInv, TryAdmit, TryPrefill, TryDecode, GivesUpWhenCrowded
<1>2. Cache!IInv /\ Cache!IInv' /\ IInv /\ Bounded /\ TriesInv /\ [Next]_vars => (Bounded /\ TriesInv)'
  BY TriesKeep, BoundedKeeps
<1> QED
  BY <1>1, <1>2, Invariants, PTL DEF Spec

(* The RuntimeError of schedule means a request in the queues that is too  *)
(* large for the blocks the others leave; nobody decodes then, and who     *)
(* runs is too large as well: the engine never gives up on a request that  *)
(* it had room for.                                                        *)
THEOREM GivingUpIsCrowding == Spec => []GivesUpWhenCrowded
<1>1. TriesInv => GivesUpWhenCrowded
  BY DEF TriesInv
<1> QED
  BY <1>1, Tries, PTL

-----------------------------------------------------------------------------
(* One request at a time                                                   *)

(* A request that waits with blocks of the cached prefix in its table.     *)
Holding(s) == status[s] = "waiting" /\ table[s] # << >>

(* What is known when only one request runs at a time: nobody is admitted  *)
(* beside another, and who holds blocks while it waits is the head that    *)
(* could not be admitted, in a step that will find nothing else to do.     *)
OneAtATime ==
  /\ \A s, t \in ToSet(running) : s = t
  /\ pc = "allocate" => running = << >>

(* The head is stuck: the step can only give up, as the pool is too small  *)
(* for it.                                                                 *)
Stuck(s) ==
  /\ running = << >> /\ batch = << >> /\ s = Head(waiting)
  /\ pc \in {"allocate", "prefill_init", "prefill", "decode", "RuntimeError"}
  /\ pc # "allocate" => Crowded(s)
  /\ pc = "decode" => fallback
  /\ pc \in {"prefill", "decode"} => cand = << >>

(* Who holds while it waits is stuck.                                      *)
AloneInv == OneAtATime /\ \A s \in Seqs : Holding(s) => Stuck(s)

(* Only the lookup at admission gives blocks to a request that waits.      *)
LEMMA HoldingWas ==
  ASSUME Cache!IInv, Cache!IInv', IInv, [Next]_vars, ~AdmitMatch, NEW s \in Seqs, Holding(s)'
  PROVE  Holding(s)
<1>0. SeqFacts /\ SeqFacts' /\ status \in [Seqs -> Statuses]
  BY CacheGives, PTL DEF IInv, TypeOK
<1>1. status'[s] = "waiting" /\ table'[s] # << >>
  BY DEF Holding
<1>2. CASE UNCHANGED <<table, status>>
  BY <1>1, <1>2 DEF Holding
<1>3. ASSUME NEW u \in Seqs, s # u, Others(u), UNCHANGED status
      PROVE  Holding(s)
  BY <1>1, <1>3 DEF Holding, Others
<1>4. ASSUME NEW u, status' = [status EXCEPT ![u] = status'[u]], UNCHANGED table, status'[u] # "waiting"
      PROVE  Holding(s)
  BY <1>0, <1>1, <1>4 DEF Holding
<1>5. CASE PrepareMatch \/ PrepareEnsure
  <2>1. PICK u \in Seqs : u = Head(cand) /\ status[u] = "running" /\ AtPrefill(u)
    <3>1. cand # << >> /\ PrefillInv /\ pc \in PrefillPhase
      BY <1>5 DEF PrepareMatch, PrepareEnsure, IInv, VisitInv, PrefillPhase
    <3>2. Head(cand) \in Seqs /\ Head(cand) \in ToSet(cand)
      BY <3>1, TailOfDistinct DEF IInv, TypeOK, VisitInv
    <3> QED
      BY <3>1, <3>2 DEF PrefillInv
  <2>2. UNCHANGED status
    BY <1>5 DEF PrepareMatch, PrepareEnsure, queueVars
  <2>3. Others(u)
    <3>1. CASE PrepareMatch
      BY <2>1, <3>1, MatchCall DEF PrepareMatch, AtPrefill
    <3>2. CASE PrepareEnsure
      BY <2>1, <3>2, EnsureCall DEF PrepareEnsure, IInv, TypeOK
    <3> QED
      BY <1>5, <3>1, <3>2
  <2> QED
    BY <1>1, <1>3, <2>1, <2>2, <2>3
<1>6. CASE DecodeAppend
  <2>1. PICK u \in Seqs : u = Head(cand) /\ status[u] = "running"
    BY <1>0, <1>6, DecodeHead DEF DecodeAppend
  <2>2. UNCHANGED status /\ Others(u)
    <3>1. Len(tokens[u]) \in Nat
      BY <1>0 DEF SeqFacts
    <3> QED
      BY <1>6, <2>1, <3>1, EnsureCall DEF DecodeAppend, queueVars
  <2> QED
    BY <1>1, <1>3, <2>1, <2>2
<1>7. CASE PreemptVictim
  <2>1. PICK v \in Seqs : v = Victim(Head(cand))
    BY <1>0, <1>7, VictimFacts DEF PreemptVictim
  <2>2. Others(v) /\ table'[v] = << >> /\ status' = [status EXCEPT ![v] = "waiting"]
    BY <1>7, <2>1, ReleaseCall DEF PreemptVictim, BM!Preempt
  <2>3. s # v /\ status'[s] = status[s] /\ table'[s] = table[s]
    BY <1>0, <1>1, <2>2 DEF Others
  <2> QED
    BY <1>1, <2>3 DEF Holding
<1>8. CASE EmitWarmed \/ \E t \in Tokens : EmitToken(t)
  <2>1. pc = "emit" /\ status[Head(cand)] = "running"
    BY <1>8 DEF EmitWarmed, EmitToken, IInv, EmitInv
  <2>2. /\ UNCHANGED table
        /\ \E r \in {"cache_warmed", "stop", "length", "running"} :
             status' = [status EXCEPT ![Head(cand)] = r]
    BY <1>8, <2>1 DEF EmitWarmed, EmitToken, bmVars, useVars
  <2> QED
    BY <1>0, <1>1, <2>2 DEF Holding
<1>9. CASE FinishRelease
  <2>1. PICK u \in Seqs : u = Head(cand)
    BY <1>9, PostHead DEF FinishRelease, IInv, RunInv, RunPhase
  <2>2. UNCHANGED status /\ Others(u) /\ table'[u] = << >>
    BY <1>9, <2>1, ReleaseCall DEF FinishRelease, BM!Retire
  <2> QED
    BY <1>1, <1>3, <2>1, <2>2
<1>10. CASE AdmitAllocate
  <2>1. UNCHANGED table
    BY <1>10, PurgeCall DEF AdmitAllocate
  <2>2. status' = status \/ status' = [status EXCEPT ![Head(waiting)] = "running"]
    BY <1>10 DEF AdmitAllocate, queueVars
  <2> QED
    BY <1>0, <1>1, <2>1, <2>2 DEF Holding
<1>11. ASSUME NEW u \in Seqs, Add(u)
       PROVE  Holding(s)
  <2>1. pc = "idle" /\ status[u] = "new" /\ UNCHANGED table /\ status' = [status EXCEPT ![u] = "waiting"]
    BY <1>11 DEF Add, bmVars, useVars
  <2>2. table[u] = << >>
    BY <2>1 DEF IInv, StagesInv, InHand
  <2> QED
    BY <1>0, <1>1, <2>1, <2>2 DEF Holding
<1>12. ASSUME NEW u \in Seqs, Abort(u)
       PROVE  Holding(s)
  <2>1. status' = [status EXCEPT ![u] = "cancelled"]
    BY <1>12 DEF Abort
  <2>2. Others(u)
    BY <1>12, ReleaseCall DEF Abort, BM!Retire, Others, bmVars, useVars
  <2> QED
    BY <1>0, <1>1, <2>1, <2>2 DEF Holding, Others
<1>13. ASSUME NEW u \in Seqs, Resubmit(u)
       PROVE  Holding(s)
  <2>1. UNCHANGED table /\ status' = [status EXCEPT ![u] = "new"]
    BY <1>13 DEF Resubmit, BM!Renew, BM!bmVars, BM!useVars
  <2> QED
    BY <1>0, <1>1, <2>1 DEF Holding
<1>14. CASE PurgePrefixCache \/ TimePasses
  <2>1. UNCHANGED <<table, status>>
    BY <1>14
    DEF PurgePrefixCache, TimePasses, BM!Expire, BM!PurgeAction, BM!PurgeExpired, BM!PurgeCachedBlocks,
        BM!PurgeExpiredCachedBlocks, BM!Purge, BM!useVars, queueVars
  <2> QED
    BY <1>2, <2>1
<1>15. CASE \/ Schedule \/ Admit \/ PrefillInit \/ PrefillDone \/ PrepareFails
            \/ DecodeSkip \/ DecodeDone \/ Run \/ PostCommit \/ EmitNothing \/ StepReturns
            \/ UNCHANGED vars
  <2>1. UNCHANGED <<table, status>>
    BY <1>15
    DEF Schedule, Admit, PrefillInit, PrefillDone, PrepareFails, DecodeSkip, DecodeDone, Run, PostCommit,
        BM!Commit, EmitNothing, StepReturns, vars, bmVars, useVars, queueVars
  <2> QED
    BY <1>2, <2>1
<1>16. CASE PrefillVisit \/ DecodeVisit
  <2>1. UNCHANGED <<table, status>>
    BY <1>16, PurgeCall DEF PrefillVisit, DecodeVisit, queueVars
  <2> QED
    BY <1>2, <2>1
<1> QED
  BY <1>5, <1>6, <1>7, <1>8, <1>9, <1>10, <1>11, <1>12, <1>13, <1>14, <1>15, <1>16
  DEF Next, Step, Scheduling, Postprocessing, Environment

(* Only admission makes a request run.                                     *)
LEMMA RunningWas ==
  ASSUME SeqFacts, IInv, [Next]_vars, ~AdmitAllocate
  PROVE  ToSet(running') \subseteq ToSet(running)
<1>1. CASE running' = running
  BY <1>1
<1>2. ASSUME NEW u, running' = RemoveFirst(running, u)
      PROVE  ToSet(running') \subseteq ToSet(running)
  BY <1>2, RemoveFirstFacts DEF IInv, TypeOK, QueuesInv
<1>3. CASE DecodeDone
  <2>1. ToSet(batch) \subseteq ToSet(running)
    <3>1. \A u \in ToSet(batch) : status[u] = "running"
      BY <1>3 DEF DecodeDone, IInv, DecodeInv, DecodePhase, DecodeReady
    <3>2. ToSet(batch) \subseteq Seqs
      BY MembersOf DEF IInv, TypeOK
    <3> QED
      BY <3>1, <3>2 DEF IInv, QueuesInv
  <2> QED
    BY <1>3, <2>1, RotatedBatchFacts DEF DecodeDone
<1>4. CASE PreemptVictim \/ FinishRelease \/ \E s \in Seqs : Abort(s)
  BY <1>2, <1>4 DEF PreemptVictim, FinishRelease, Abort
<1> QED
  BY <1>1, <1>3, <1>4
  DEF Next, Step, Scheduling, Postprocessing, Environment, Schedule, Admit, AdmitMatch, PrefillInit,
      PrefillVisit, PrepareMatch, PrepareEnsure, PrepareFails, PrefillDone, DecodeSkip, DecodeVisit,
      DecodeAppend, Run, PostCommit, EmitNothing, EmitWarmed, EmitToken, StepReturns, Add, Resubmit,
      PurgePrefixCache, TimePasses, vars, queueVars

(* Admission beside a request that runs is what MaxNumSeqs = 1 forbids.    *)
LEMMA OneAtATimeKeeps ==
  ASSUME Cache!IInv, Cache!IInv', IInv, IInv', AloneInv, MaxNumSeqs = 1, [Next]_vars
  PROVE  OneAtATime'
<1>0. SeqFacts
  BY CacheGives
<1>1. CASE AdmitAllocate
  <2>1. pc = "allocate" /\ running = << >> /\ waiting # << >> /\ pc' # "allocate"
    BY <1>1 DEF AdmitAllocate, AloneInv, OneAtATime, IInv, QueuesInv
  <2>2. PICK s \in Seqs : s = Head(waiting)
    BY <2>1, TailOfDistinct DEF IInv, TypeOK, QueuesInv
  <2>3. CASE running' = Append(running, s)
    <3>1. running \in Seq(Seqs) /\ ToSet(running) = {}
      BY <2>1, MembersOf, EmptySeq DEF IInv, TypeOK
    <3>2. /\ Append(running, s) \in Seq(Seqs)
          /\ ToSet(Append(running, s)) = ToSet(running) \cup {s}
          /\ IsInjective(running) /\ s \notin ToSet(running)
               => IsInjective(Append(running, s)) /\ IsInjective(<<s>> \o running)
      BY <3>1, OneMore
    <3> QED
      BY <2>1, <2>3, <3>1, <3>2 DEF OneAtATime
  <2>4. CASE running' = running
    BY <2>1, <2>4 DEF AloneInv, OneAtATime
  <2> QED
    BY <1>1, <2>2, <2>3, <2>4 DEF AdmitAllocate, queueVars
<1>2. CASE ~AdmitAllocate
  <2>1. \A s, t \in ToSet(running') : s = t
    BY <1>0, <1>2, RunningWas DEF AloneInv, OneAtATime
  <2>2. pc' = "allocate" => running' = << >>
    <3> SUFFICES ASSUME pc' = "allocate" PROVE running' = << >>
      OBVIOUS
    <3>1. CASE AdmitMatch
      <4>1. Len(running) < 1 /\ UNCHANGED running
        BY <3>1 DEF AdmitMatch, queueVars
      <4>2. Len(running) \in Nat /\ running \in Seq(Seqs)
        BY MembersOf DEF IInv, TypeOK
      <4> QED
        BY <4>1, <4>2, EmptySeq
    <3>2. CASE pc = "allocate" /\ UNCHANGED running
      BY <3>2 DEF AloneInv, OneAtATime
    <3>3. AdmitMatch \/ (pc = "allocate" /\ UNCHANGED running)
      BY <1>2
      DEF Next, Step, Scheduling, Postprocessing, Environment, Schedule, StartDecode, StartPrefill,
          Dispatch, Admit, PrefillInit, PrefillVisit, PrepareMatch, PrepareEnsure, PrepareFails,
          PrefillDone, DecodeSkip, DecodeVisit, DecodeAppend, PreemptVictim, DecodeDone, Run, PostCommit,
          EmitNothing, EmitWarmed, EmitToken, FinishRelease, StepReturns, Add, Abort, Resubmit,
          PurgePrefixCache, TimePasses, vars, queueVars
    <3> QED
      BY <3>1, <3>2, <3>3
  <2> QED
    BY <2>1, <2>2 DEF OneAtATime
<1> QED
  BY <1>1, <1>2

(* The lookup leaves the head of waiting with what it found.               *)
LEMMA MatchSticks ==
  ASSUME Cache!IInv, Cache!IInv', IInv, AloneInv, MaxNumSeqs = 1, AdmitMatch, NEW s \in Seqs, Holding(s)'
  PROVE  Stuck(s)'
<1>1. /\ pc = "match" /\ UNCHANGED <<queueVars, localVars, pathVars>>
      /\ batch = << >> /\ ~Holding(s)
  BY DEF AdmitMatch, AloneInv, Stuck, IInv, BatchInv, AdmitPhase
<1>2. waiting # << >> /\ Len(running) < 1 /\ BM!Match(Head(waiting)) /\ pc' = "allocate"
  BY <1>1 DEF AdmitMatch, Holding, bmVars, useVars, queueVars
<1>3. running = << >>
  <2>1. Len(running) \in Nat /\ running \in Seq(Seqs)
    BY MembersOf DEF IInv, TypeOK
  <2> QED
    BY <1>2, <2>1, EmptySeq
<1>4. PICK u \in Seqs : u = Head(waiting) /\ AtPrefill(u)
  <2>1. Head(waiting) \in Seqs /\ Head(waiting) \in ToSet(waiting)
    BY <1>2, TailOfDistinct DEF IInv, TypeOK, QueuesInv
  <2> QED
    BY <1>1, <2>1 DEF IInv, QueuesInv, StagesInv, InHand
<1>5. s = u
  <2>1. Others(u)
    BY <1>2, <1>4, MatchCall DEF AtPrefill
  <2> QED
    BY <1>1, <2>1 DEF Others, Holding, queueVars
<1> QED
  BY <1>1, <1>2, <1>3, <1>4, <1>5 DEF Stuck, queueVars, localVars

(* Who cannot be admitted although nobody runs is crowded.                 *)
LEMMA AllocateSticks ==
  ASSUME Cache!IInv, Cache!IInv', IInv, Bounded, TriesInv, AdmitAllocate,
         NEW s \in Seqs, Holding(s), Stuck(s), Holding(s)'
  PROVE  Stuck(s)'
<1>0. SeqFacts
  BY CacheGives
<1>1. /\ pc = "allocate" /\ s = Head(waiting) /\ running = << >> /\ batch = << >>
      /\ UNCHANGED <<table, localVars, pathVars>> /\ status[s] = "waiting"
  BY PurgeCall DEF AdmitAllocate, Stuck, Holding
<1>2. ~BM!CanAllocate(s, AdmitTarget(s), reserve)
  <2>1. status \in [Seqs -> Statuses]
    BY DEF IInv, TypeOK
  <2> QED
    BY <1>1, <2>1 DEF AdmitAllocate, Holding
<1>3. pc' = "prefill_init" /\ UNCHANGED queueVars
  BY <1>1, <1>2 DEF AdmitAllocate
<1>4. reserve = 0
  <2>1. ToSet(running) = {}
    BY <1>1, MembersOf, EmptySeq
  <2> QED
    BY <1>1, <2>1 DEF TriesInv, TryAdmit, HasDecodeWork
<1>5. AdmitTarget(s) \in Nat /\ AdmitTarget(s) <= Len(tokens[s])
  <2>1. /\ target[s] \in Nat /\ computed[s] \in Nat /\ target[s] <= Len(tokens[s])
        /\ Len(tokens[s]) \in Nat /\ MaxChunk \in Nat
    BY <1>0, SchedulerAssumption DEF SeqFacts, MaxChunk, MinOf
  <2> QED
    BY <2>1 DEF AdmitTarget, MinOf, MaxOf
<1>6. Crowded(s)
  BY <1>1, <1>2, <1>4, <1>5, RefusedIsCrowded
<1>7. Crowded(s)'
  BY <1>1, <1>3, <1>6, SameCrowd DEF queueVars
<1> QED
  BY <1>1, <1>3, <1>7 DEF Stuck, queueVars, localVars

(* From there the step finds nobody to prefill and nobody who decodes.     *)
LEMMA StuckStays ==
  ASSUME Cache!IInv, Cache!IInv', IInv, IInv', Bounded, TriesInv, AloneInv, [Next]_vars,
         NEW s \in Seqs, Holding(s), Stuck(s), Holding(s)'
  PROVE  Stuck(s)'
<1>1. CASE AdmitAllocate
  BY <1>1, AllocateSticks
<1>2. CASE UNCHANGED vars \/ TimePasses
  <2>1. UNCHANGED <<table, queueVars, localVars, pathVars, pc>>
    BY <1>2 DEF vars, bmVars, useVars, TimePasses, BM!Expire, BM!useVars
  <2>2. Crowded(s)' <=> Crowded(s)
    BY <2>1, SameCrowd DEF queueVars
  <2> QED
    BY <2>1, <2>2 DEF Stuck, queueVars, localVars, pathVars
<1>3. CASE PrefillInit
  <2>1. /\ pc = "prefill_init" /\ pc' = "prefill" /\ UNCHANGED <<table, queueVars, batch>>
        /\ cand' = Filtered(running, {u \in Seqs : ~Ready(u)})
    BY <1>3 DEF PrefillInit, bmVars, useVars
  <2>2. cand' = << >>
    <3>1. running \in Seq(Seqs) /\ ToSet(running) = {} /\ cand' \in Seq(Seqs)
      BY MembersOf, EmptySeq DEF IInv, TypeOK, Stuck
    <3>2. ToSet(cand') \subseteq ToSet(running)
      BY <2>1, <3>1, FilteredFacts
    <3> QED
      BY <3>1, <3>2, MembersOf
  <2>3. Crowded(s)'
    BY <2>1, SameCrowd DEF queueVars, Stuck
  <2> QED
    BY <2>1, <2>2, <2>3 DEF Stuck, queueVars
<1>4. CASE PrefillDone
  <2>1. /\ pc = "prefill" /\ Dispatch(TRUE) /\ UNCHANGED <<table, queueVars, batch>>
    BY <1>4 DEF PrefillDone, bmVars, useVars
  <2>2. Crowded(s)'
    BY <2>1, SameCrowd DEF queueVars, Stuck
  <2>3. /\ pc' = "RuntimeError" \/ (pc' = "decode" /\ cand' = running)
        /\ fallback' = TRUE
    BY <2>1 DEF Dispatch, StartDecode, Stuck
  <2> QED
    BY <2>1, <2>2, <2>3 DEF Stuck, queueVars
<1>5. CASE DecodeDone
  <2>1. /\ pc = "decode" /\ Dispatch(FALSE) /\ UNCHANGED <<table, waiting, status, batch>>
    BY <1>5 DEF DecodeDone, bmVars, useVars
  <2>2. running' = << >>
    <3>1. /\ ~AdmitAllocate /\ running' \in Seq(Seqs) /\ ToSet(running) = {}
      BY <2>1, MembersOf, EmptySeq DEF AdmitAllocate, IInv, TypeOK, Stuck
    <3>2. ToSet(running') = {}
      BY <3>1, CacheGives, RunningWas
    <3> QED
      BY <3>1, <3>2, MembersOf
  <2>3. Crowded(s)'
    BY <2>1, SameCrowd DEF Stuck
  <2>4. pc' = "RuntimeError"
    BY <2>1 DEF Dispatch, Stuck
  <2> QED
    BY <2>1, <2>2, <2>3, <2>4 DEF Stuck
<1>6. AdmitAllocate \/ UNCHANGED vars \/ TimePasses \/ PrefillInit \/ PrefillDone \/ DecodeDone
  BY DEF Stuck, Next, Step, Scheduling, Postprocessing, Environment, Schedule, Admit, AdmitMatch,
         PrefillVisit, PrefillVisits, PrepareMatch, PrepareEnsure, PrepareFails, DecodeSkip, DecodeVisit,
         DecodeVisits, DecodeAppend, PreemptVictim, Run, PostCommit, EmitNothing, EmitWarmed, EmitToken,
         FinishRelease, StepReturns, Add, Abort, Resubmit, PurgePrefixCache
<1> QED
  BY <1>1, <1>2, <1>3, <1>4, <1>5, <1>6

(* Every step keeps what is known when one request runs at a time.         *)
LEMMA AloneKeeps ==
  ASSUME Cache!IInv, Cache!IInv', IInv, IInv', Bounded, TriesInv, AloneInv, MaxNumSeqs = 1, [Next]_vars
  PROVE  AloneInv'
<1>1. ASSUME NEW s \in Seqs, Holding(s)'
      PROVE  Stuck(s)'
  <2>1. CASE AdmitMatch
    BY <1>1, <2>1, MatchSticks
  <2>2. CASE ~AdmitMatch
    <3>1. Holding(s)
      BY <1>1, <2>2, HoldingWas
    <3> QED
      BY <1>1, <3>1, StuckStays DEF AloneInv
  <2> QED
    BY <2>1, <2>2
<1> QED
  BY <1>1, OneAtATimeKeeps DEF AloneInv

(* When the engine gives up on one request at a time, some request is too  *)
(* large and the others hold nothing.                                      *)
LEMMA AloneGivesUp ==
  ASSUME IInv, TriesInv, AloneInv
  PROVE  GivesUpOnlyIfTooSmall
<1> SUFFICES ASSUME pc = "RuntimeError"
             PROVE  \E s \in Seqs : ~Finished(s) /\
                      BM!NumBlocksFor(Len(Prompt[s]) + MaxTokens[s]) > Cardinality(Blocks)
  BY DEF GivesUpOnlyIfTooSmall
<1>1. AllCrowded
  BY DEF TriesInv, GivesUpWhenCrowded
<1>2. ASSUME NEW t \in Seqs, table[t] # << >>
      PROVE  Holding(t) \/ t \in ToSet(running)
  <2>1. status[t] \in {"waiting", "running"}
    BY <1>2 DEF IInv, StagesInv, InHand
  <2> QED
    BY <1>2, <2>1 DEF Holding, IInv, QueuesInv
<1>3. \A s \in ToSet(running) : s \in Seqs /\ Crowded(s)
  BY <1>1, MembersOf DEF AllCrowded, IInv, TypeOK
<1>4. PICK s \in Seqs : Crowded(s) /\ \A t \in Seqs \ {s} : table[t] = << >>
  <2>1. CASE \E s \in Seqs : Holding(s)
    <3>1. PICK s \in Seqs : Holding(s)
      BY <2>1
    <3>2. running = << >> /\ Crowded(s) /\ \A t \in Seqs : Holding(t) => t = s
      BY <3>1 DEF AloneInv, Stuck
    <3>3. ToSet(running) = {}
      BY <3>2, MembersOf, EmptySeq
    <3> QED
      BY <1>2, <3>2, <3>3
  <2>2. CASE \A s \in Seqs : ~Holding(s)
    <3>1. CASE ToSet(running) = {}
      BY <1>1, <1>2, <2>2, <3>1 DEF AllCrowded, SomeCrowded
    <3>2. CASE ToSet(running) # {}
      BY <1>2, <1>3, <2>2, <3>2 DEF AloneInv, OneAtATime
    <3> QED
      BY <3>1, <3>2
  <2> QED
    BY <2>1, <2>2
<1>5. HeldByOthers(s) = {}
  <2>1. ASSUME NEW t \in Seqs \ {s} PROVE BM!BlocksOf(t) = {}
    <3>1. table[t] = << >> /\ Len(table[t]) = 0
      BY <1>4, EmptySeq
    <3> QED
      BY <3>1 DEF BM!BlocksOf
  <2> QED
    BY <2>1 DEF HeldByOthers
<1>6. Cardinality(HeldByOthers(s)) = 0 /\ Cardinality(Blocks) \in Nat
  BY <1>5, FS_EmptySet, SetAssumption, FS_CardinalityType
<1> QED
  BY <1>4, <1>6 DEF Crowded, Finished, FinishReasons

(* With one request at a time (--max-num-seqs 1) the message of the        *)
(* RuntimeError is right: the pool is too small for some request. With     *)
(* more it need not be: two that are half done can be in each other's way. *)
THEOREM AloneGivesUpOnlyIfTooSmall == MaxNumSeqs = 1 => (Spec => []GivesUpOnlyIfTooSmall)
<1> SUFFICES ASSUME MaxNumSeqs = 1 PROVE Spec => []GivesUpOnlyIfTooSmall
  OBVIOUS
<1>1. Init => AloneInv
  <2> SUFFICES ASSUME Init PROVE AloneInv
    OBVIOUS
  <2>1. running = << >> /\ pc = "idle" /\ \A s \in Seqs : table[s] = << >>
    BY DEF Init, BM!Init
  <2>2. ToSet(running) = {}
    BY <2>1, MembersOf, EmptySeq
  <2> QED
    BY <2>1, <2>2 DEF AloneInv, OneAtATime, Holding
<1>2. Cache!IInv /\ Cache!IInv' /\ IInv /\ IInv' /\ Bounded /\ TriesInv /\ AloneInv /\ [Next]_vars
        => AloneInv'
  BY AloneKeeps
<1>3. IInv /\ TriesInv /\ AloneInv => GivesUpOnlyIfTooSmall
  BY AloneGivesUp
<1> QED
  BY <1>1, <1>2, <1>3, Invariants, Tries, PTL DEF Spec

=============================================================================
