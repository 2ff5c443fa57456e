---------------------------- MODULE BlockManager ----------------------------
(***************************************************************************)
(* The paged KV cache with its prefix cache: nanovllm/engine/              *)
(* block_manager.py, with the fields of nanovllm/engine/sequence.py that   *)
(* it reads and writes.                                                    *)
(*                                                                         *)
(* Every action is one whole method of BlockManager (the engine is         *)
(* synchronous, so no method is interrupted), called in any order that the *)
(* contract of its callers allows; Scheduler.tla is shown to respect it.   *)
(*                                                                         *)
(* Abstractions.  A content hash chained over blocks and seeded with the   *)
(* namespace is the pair <<namespace, token prefix>>: hashes do not        *)
(* collide.  Free blocks are interchangeable, so free_block_ids is a set   *)
(* and popleft takes any member.  last_accessed is read only to compare    *)
(* cached blocks, which were all stamped when they were released: `older'  *)
(* keeps that order.  Wall-clock time is in `expiry'; one method sees one  *)
(* time.  The hit, miss and eviction counters are left out.                *)
(***************************************************************************)
EXTENDS Integers, Sequences, FiniteSets

CONSTANTS
  Seqs,              \* Sequence objects
  Blocks,            \* block ids: range(num_blocks)
  Tokens,            \* token ids
  Namespaces,        \* cache_namespace values
  NoKey,             \* the hash of a block with no content hash: -1
  BlockSize,         \* kvcache_block_size
  Prompt,            \* Prompt[s]: the prompt token ids
  MaxTokens,         \* MaxTokens[s]: sampling_params.max_tokens
  Namespace,         \* Namespace[s]: cache_namespace
  CacheEnabled,      \* CacheEnabled[s]: cache_enabled
  Breakpoints,       \* Breakpoints[s]: cache_breakpoint_tokens, {} for none
  HasTTL,            \* HasTTL[s]: cache_ttl_seconds is not None
  EnablePrefixCache, \* enable_prefix_cache
  MinTokens,         \* prefix_cache_min_tokens
  MaxCached,         \* max_cached_blocks, 0 for no quota
  MaxCachedPerNs     \* max_cached_blocks_per_namespace, 0 for no quota

Keys == Namespaces \X Seq(Tokens)

ASSUME SizeAssumption == BlockSize \in Nat \ {0}
ASSUME SetAssumption == IsFiniteSet(Seqs) /\ IsFiniteSet(Blocks)
ASSUME NoKeyAssumption == NoKey \notin Keys
ASSUME RequestAssumption ==
  /\ Prompt \in [Seqs -> Seq(Tokens) \ {<< >>}]
  /\ MaxTokens \in [Seqs -> Nat]
  /\ Namespace \in [Seqs -> Namespaces]
  /\ CacheEnabled \in [Seqs -> BOOLEAN]
  /\ Breakpoints \in [Seqs -> SUBSET Nat]
  /\ HasTTL \in [Seqs -> BOOLEAN]
ASSUME ConfigAssumption ==
  /\ EnablePrefixCache \in BOOLEAN
  /\ MinTokens \in Nat
  /\ MaxCached \in Nat
  /\ MaxCachedPerNs \in Nat

VARIABLES
  tokens,       \* tokens[s]: seq.token_ids, prompt and completion
  target,       \* target[s]: seq.prefill_target_tokens
  computed,     \* computed[s]: seq.num_computed_tokens
  table,        \* table[s]: seq.block_table
  cacheRead,    \* cacheRead[s]: seq.cache_read_input_tokens
  cacheCreate,  \* cacheCreate[s]: seq.cache_creation_input_tokens
  free,         \* free_block_ids
  cached,       \* cached_block_ids
  used,         \* used_block_ids
  older,        \* older: <<b, c>> if cached b has a smaller last_accessed than cached c
  ref,          \* ref[b]: block.ref_count
  key,          \* key[b]: block.hash, token_ids and namespace
  expiry,       \* expiry[b]: block.expires_at is None, in the future, or past
  hashToBlock   \* hash_to_block_id

seqVars == <<tokens, target>>
useVars == <<computed, table, cacheRead, cacheCreate>>
poolVars == <<free, cached, used, older, ref, key, expiry, hashToBlock>>
bmVars == <<useVars, poolVars>>
vars == <<seqVars, useVars, poolVars>>

-----------------------------------------------------------------------------
(* Sequences                                                               *)

BlocksOf(s) == {table[s][i] : i \in 1..Len(table[s])}
Holders(b) == {s \in Seqs : b \in BlocksOf(s)}
NumBlocksFor(n) == (n + BlockSize - 1) \div BlockSize
CacheOn(s) == EnablePrefixCache /\ CacheEnabled[s]

(* The content hash of block i (counted from 1) of s, chained from the     *)
(* namespace through the blocks before it.                                 *)
Key(s, i) == <<Namespace[s], SubSeq(tokens[s], 1, i * BlockSize)>>

(* Mutant: breakpoints are ignored.                                        *)
CacheableAnywhere(s, n, u) == n <= u
(* max_cacheable_tokens(u) >= n.                                           *)
Cacheable(s, n, u) ==
  \/ n = 0
  \/ IF Breakpoints[s] = {} THEN n <= u
                            ELSE \E p \in Breakpoints[s] : n <= p /\ p <= u

(* _prompt_tokens_in_block, summed over the blocks I of s; the mutant      *)
(* counts whole blocks.                                                    *)
BlockTokensIn(s, I) == BlockSize * Cardinality(I)
PromptTokensIn(s, I) ==
  Cardinality({p \in 1..Len(Prompt[s]) : NumBlocksFor(p) \in I})

(* Block i lies in the prefix a lookup may reuse: at most                  *)
(* min(max_cacheable_tokens(target), target - 1) tokens.                   *)
Reusable(s, i) ==
  /\ i * BlockSize < target[s]
  /\ Cacheable(s, i * BlockSize, target[s])
  /\ MinTokens < target[s]
  /\ Cacheable(s, MinTokens, target[s])

-----------------------------------------------------------------------------
(* The pool after the cached blocks P have been purged or evicted          *)

(* Mutants: a purge that finds nothing, and one that takes live blocks.    *)
ExpiredNever == {}
ExpiredAnywhere == {b \in Blocks : expiry[b] = "past"}
Expired == {b \in cached : expiry[b] = "past"}
NamespaceOf(b) == key[b][1]

(* Mutants: the hash table keeps the entry, the block keeps its hash.      *)
HashKept(P) == hashToBlock
HashWithout(P) ==
  [k \in {k \in DOMAIN hashToBlock :
            ~ \E b \in P : key[b] = k /\ hashToBlock[k] = b} |-> hashToBlock[k]]
KeyKept(P) == key
KeyWithout(P) == [b \in Blocks |-> IF b \in P THEN NoKey ELSE key[b]]
ExpiryWithout(P) == [b \in Blocks |-> IF b \in P THEN "none" ELSE expiry[b]]
OlderAmong(C) == older \cap (C \X C)

(* _attach_cached_block: one more reference to the blocks B; the mutant    *)
(* counts a block as attached once.                                        *)
RefOnce(B) == [b \in Blocks |-> IF b \in B THEN 1 ELSE ref[b]]
RefWith(B) == [b \in Blocks |-> IF b \in B THEN ref[b] + 1 ELSE ref[b]]

(* _refresh_expiry.                                                        *)
Deadline(s) == IF HasTTL[s] THEN "future" ELSE "none"

(* _purge_cached_block for every member of P.                              *)
Purge(P) ==
  /\ free' = free \cup P
  /\ cached' = cached \ P
  /\ older' = OlderAmong(cached \ P)
  /\ key' = KeyWithout(P)
  /\ expiry' = ExpiryWithout(P)
  /\ hashToBlock' = HashWithout(P)
  /\ UNCHANGED <<ref, used, useVars>>

PurgeExpired == Purge(Expired)
PurgeCachedBlocks(N) == Purge({b \in cached : NamespaceOf(b) \in N})
PurgeExpiredCachedBlocks(N) == Purge({b \in Expired : NamespaceOf(b) \in N})

(* available_blocks: what is left to take once expired blocks are purged.  *)
AvailableBlocks == Cardinality(free) + Cardinality(cached)

(* can_allocate, beside the purge its available_blocks makes; the mutant   *)
(* rounds a partial block down.                                            *)
CanAllocateFull(s, n, reserve) ==
  (n \div BlockSize) - Len(table[s]) <= AvailableBlocks - reserve
CanAllocate(s, n, reserve) ==
  LET missing == NumBlocksFor(n) - Len(table[s])
  IN  missing <= 0 \/ missing <= AvailableBlocks - reserve

-----------------------------------------------------------------------------
(* The methods                                                             *)

(* match_cached_prefix: the early returns leave everything alone; else     *)
(* purge, then attach the longest run of leading blocks that is cached.    *)
MatchCachedPrefix(s) ==
  IF table[s] # << >> \/ ~CacheOn(s) THEN UNCHANGED bmVars ELSE
  LET h == HashWithout(Expired)
      Hit(i) == Reusable(s, i) /\ Key(s, i) \in DOMAIN h
  IN \E m \in 0..target[s] :
       LET hits == {h[Key(s, i)] : i \in 1..m}
       IN /\ \A i \in 1..m : Hit(i)
          /\ ~Hit(m + 1)
          /\ table' = [table EXCEPT ![s] = [i \in 1..m |-> h[Key(s, i)]]]
          /\ computed' = [computed EXCEPT ![s] = @ + m * BlockSize]
          /\ cacheRead' = [cacheRead EXCEPT ![s] = PromptTokensIn(s, 1..m)]
          /\ cacheCreate' = [cacheCreate EXCEPT ![s] = 0]
          /\ free' = free \cup Expired
          /\ cached' = cached \ (Expired \cup hits)
          /\ used' = used \cup hits
          /\ older' = OlderAmong(cached \ (Expired \cup hits))
          /\ ref' = RefWith(hits)
          /\ key' = KeyWithout(Expired)
          /\ expiry' = [b \in Blocks |-> IF b \in hits THEN Deadline(s)
                                         ELSE ExpiryWithout(Expired)[b]]
          /\ hashToBlock' = h

(* The blocks n calls of _take_free_block_id may return, in order: the     *)
(* free ones first, then the least recently used cached ones.              *)
Takings(n, F, C) ==
  {f \in [1..n -> F \cup C] :
     /\ \A i, j \in 1..n : f[i] = f[j] => i = j
     /\ \A i \in 1..n :
          IF i <= Cardinality(F) THEN f[i] \in F
          ELSE /\ f[i] \in C
               /\ Cardinality({c \in C : <<c, f[i]>> \in older})
                    = i - Cardinality(F) - 1}

(* ensure_blocks: purge and take one block at a time until t tokens fit.   *)
EnsureBlocks(s, t) ==
  LET need == NumBlocksFor(t) - Len(table[s])
      F == free \cup Expired
      C == cached \ Expired
  IN IF need <= 0 THEN UNCHANGED bmVars ELSE
     \E new \in Takings(need, F, C) :
       LET taken == {new[i] : i \in 1..need}
       IN /\ table' = [table EXCEPT ![s] = @ \o new]
          /\ free' = F \ taken
          /\ cached' = C \ taken
          /\ used' = used \cup taken
          /\ older' = OlderAmong(C \ taken)
          /\ ref' = [b \in Blocks |-> IF b \in taken THEN 1 ELSE ref[b]]
          /\ key' = KeyWithout(Expired \cup taken)
          /\ expiry' = ExpiryWithout(Expired \cup taken)
          /\ hashToBlock' = HashWithout(Expired \cup taken)
          /\ UNCHANGED <<computed, cacheRead, cacheCreate>>

(* The blocks that lie in the first u tokens of s and in its cacheable     *)
(* prefix; the mutant includes one that is not computed to its end.        *)
StartedBlocks(s, u) ==
  {i \in 1..Len(table[s]) : /\ (i - 1) * BlockSize < u
                            /\ i * BlockSize <= Len(tokens[s])
                            /\ Cacheable(s, (i - 1) * BlockSize, u)}
FullBlocks(s, u) ==
  {i \in 1..Len(table[s]) : i * BlockSize <= u /\ Cacheable(s, i * BlockSize, u)}

(* The blocks of s that commit_computed_tokens(u) gives a content hash:    *)
(* those of the above that have none, unless another block holds it.       *)
Fresh(s, u) ==
  {i \in FullBlocks(s, u) :
     /\ CacheOn(s)
     /\ Cacheable(s, MinTokens, u)
     /\ key[table[s][i]] = NoKey
     /\ Key(s, i) \notin DOMAIN hashToBlock}

(* The postprocess assignment to num_computed_tokens, then                 *)
(* commit_computed_tokens(u).                                              *)
Commit(s, u) ==
  LET new == Fresh(s, u)
      slot(b) == CHOOSE i \in new : table[s][i] = b
      fresh == {table[s][i] : i \in new}
  IN /\ computed' = [computed EXCEPT ![s] = u]
     /\ key' = [b \in Blocks |-> IF b \in fresh THEN Key(s, slot(b)) ELSE key[b]]
     /\ expiry' = [b \in Blocks |-> IF b \in fresh THEN Deadline(s) ELSE expiry[b]]
     /\ hashToBlock' = [k \in DOMAIN hashToBlock \cup {Key(s, i) : i \in new} |->
          IF k \in DOMAIN hashToBlock THEN hashToBlock[k]
          ELSE table[s][CHOOSE i \in new : Key(s, i) = k]]
     /\ cacheCreate' = [cacheCreate EXCEPT ![s] = @ + PromptTokensIn(s, new)]
     /\ UNCHANGED <<table, cacheRead, free, cached, used, older, ref>>

(* The q youngest of C, all of them if q is 0: what a quota of q leaves    *)
(* when it evicts by age.  The mutant leaves one more.                     *)
YoungestAndOne(q, C, order) ==
  {b \in C : q = 0 \/ Cardinality({c \in C : <<b, c>> \in order}) <= q}
Youngest(q, C, order) ==
  {b \in C : q = 0 \/ Cardinality({c \in C : <<b, c>> \in order}) < q}

(* deallocate: release the blocks of s from the last one of the table to   *)
(* the first; one that nobody else holds is cached if it has a content     *)
(* hash, and freed if not; caching evicts the oldest blocks over quota.    *)
Deallocate(s) ==
  LET gone == {b \in BlocksOf(s) : ref[b] = 1}
      kept == {b \in gone : EnablePrefixCache /\ key[b] # NoKey}
      order == older \cup (cached \X kept)
                 \cup {e \in kept \X kept : \E i, j \in 1..Len(table[s]) :
                         j > i /\ e = <<table[s][j], table[s][i]>>}
      inNs == UNION {Youngest(MaxCachedPerNs,
                              {b \in cached \cup kept : NamespaceOf(b) = n}, order)
                       : n \in Namespaces}
      stay == Youngest(MaxCached, inNs, order)
      lost == (cached \cup gone) \ stay
  IN /\ table' = [table EXCEPT ![s] = << >>]
     /\ computed' = [computed EXCEPT ![s] = 0]
     /\ cacheRead' = [cacheRead EXCEPT ![s] = 0]
     /\ cacheCreate' = [cacheCreate EXCEPT ![s] = 0]
     /\ free' = free \cup lost
     /\ cached' = stay
     /\ used' = used \ gone
     /\ older' = order \cap (stay \X stay)
     /\ ref' = [b \in Blocks |-> IF b \in BlocksOf(s) THEN ref[b] - 1 ELSE ref[b]]
     /\ key' = KeyWithout(lost)
     /\ expiry' = ExpiryWithout(lost)
     /\ hashToBlock' = HashWithout(lost)

-----------------------------------------------------------------------------
(* The behaviours: methods called as their callers call them               *)

Init ==
  /\ tokens = Prompt
  /\ target = [s \in Seqs |-> Len(Prompt[s])]
  /\ computed = [s \in Seqs |-> 0]
  /\ table = [s \in Seqs |-> << >>]
  /\ cacheRead = [s \in Seqs |-> 0]
  /\ cacheCreate = [s \in Seqs |-> 0]
  /\ free = Blocks
  /\ cached = {}
  /\ used = {}
  /\ older = {}
  /\ ref = [b \in Blocks |-> 0]
  /\ key = [b \in Blocks |-> NoKey]
  /\ expiry = [b \in Blocks |-> "none"]
  /\ hashToBlock = [k \in {} |-> NoKey]

Match(s) == MatchCachedPrefix(s) /\ UNCHANGED seqVars

(* prepare_prefill and may_append allocate for at most all tokens of s.    *)
Ensure(s, t) ==
  /\ t <= Len(tokens[s])
  /\ EnsureBlocks(s, t)
  /\ UNCHANGED seqVars

(* postprocess commits tokens that the model has computed, in blocks of s. *)
Compute(s, u) ==
  /\ computed[s] <= u
  /\ u <= Len(tokens[s])
  /\ u <= Len(table[s]) * BlockSize
  /\ Commit(s, u)
  /\ UNCHANGED seqVars

(* append_token: the sampled token, once every earlier one is computed.    *)
AppendToken(s, t) ==
  /\ computed[s] = Len(tokens[s])
  /\ Len(tokens[s]) < Len(Prompt[s]) + MaxTokens[s]
  /\ tokens' = [tokens EXCEPT ![s] = Append(@, t)]
  /\ UNCHANGED <<target, bmVars>>

(* finish or abort: the sequence lets go of its blocks for good.           *)
Retire(s) == Deallocate(s) /\ UNCHANGED seqVars

(* preempt: the same, with all its tokens to be computed again.            *)
Preempt(s) ==
  /\ Deallocate(s)
  /\ target' = [target EXCEPT ![s] = Len(tokens[s])]
  /\ UNCHANGED tokens

(* Sequence.__init__: a client sends the request again, and a new Sequence *)
(* takes the place of one that has given its blocks back.                  *)
Renew(s) ==
  /\ table[s] = << >>
  /\ computed[s] = 0
  /\ tokens' = [tokens EXCEPT ![s] = Prompt[s]]
  /\ target' = [target EXCEPT ![s] = Len(Prompt[s])]
  /\ UNCHANGED bmVars

PurgeAction ==
  /\ \/ PurgeExpired
     \/ \E N \in {Namespaces} \cup {{n} : n \in Namespaces} :
          PurgeCachedBlocks(N) \/ PurgeExpiredCachedBlocks(N)
  /\ UNCHANGED seqVars

(* Time passes the expires_at of a block.                                  *)
Expire(b) ==
  /\ expiry[b] = "future"
  /\ expiry' = [expiry EXCEPT ![b] = "past"]
  /\ UNCHANGED <<seqVars, useVars, free, cached, used, older, ref, key, hashToBlock>>

Next ==
  \/ \E s \in Seqs :
       \/ Match(s)
       \/ \E n \in 1..Len(tokens[s]) : Ensure(s, n) \/ Compute(s, n)
       \/ \E t \in Tokens : AppendToken(s, t)
       \/ Retire(s)
       \/ Preempt(s)
       \/ Renew(s)
  \/ PurgeAction
  \/ \E b \in Blocks : Expire(b)

Spec == Init /\ [][Next]_vars

-----------------------------------------------------------------------------
(* Properties                                                              *)

TypeOK ==
  /\ tokens \in [Seqs -> Seq(Tokens)]
  /\ target \in [Seqs -> Nat]
  /\ computed \in [Seqs -> Nat]
  /\ table \in [Seqs -> Seq(Blocks)]
  /\ cacheRead \in [Seqs -> Nat]
  /\ cacheCreate \in [Seqs -> Nat]
  /\ free \in SUBSET Blocks
  /\ cached \in SUBSET Blocks
  /\ used \in SUBSET Blocks
  /\ older \in SUBSET (Blocks \X Blocks)
  /\ ref \in [Blocks -> Nat]
  /\ key \in [Blocks -> Keys \cup {NoKey}]
  /\ expiry \in [Blocks -> {"none", "future", "past"}]
  /\ DOMAIN hashToBlock \subseteq Keys
  /\ hashToBlock \in [DOMAIN hashToBlock -> Blocks]

(* The free queue, the cached set and the used set always partition the    *)
(* blocks, each block being where its ref_count and its hash say it is:    *)
(* no block leaks and none is handed out twice, through every sharing,     *)
(* eviction, quota and purge.                                              *)
PoolPartition ==
  /\ free = {b \in Blocks : ref[b] = 0 /\ key[b] = NoKey}
  /\ cached = {b \in Blocks : ref[b] = 0 /\ key[b] # NoKey}
  /\ used = {b \in Blocks : ref[b] > 0}

(* A reference count is the number of block tables that hold the block,    *)
(* and no table holds it twice: the count never reaches zero under a       *)
(* reader, nor stays up after the last one.                                *)
RefCountsExact ==
  /\ \A s \in Seqs : \A i, j \in 1..Len(table[s]) :
       table[s][i] = table[s][j] => i = j
  /\ \A b \in Blocks : ref[b] = Cardinality(Holders(b))

(* hash_to_block_id and the hashes in the blocks say the same thing, both  *)
(* ways: a lookup never finds a recycled block, and a published content is *)
(* held by exactly one block, which a lookup finds.                        *)
HashTableExact ==
  /\ \A k \in DOMAIN hashToBlock : key[hashToBlock[k]] = k
  /\ \A b \in Blocks : key[b] # NoKey =>
       key[b] \in DOMAIN hashToBlock /\ hashToBlock[key[b]] = b

(* A published block in position i of a block table holds exactly the      *)
(* first i blocks of that sequence's tokens in its namespace, all of them  *)
(* computed, and every computed token has a block: whatever was shared, a  *)
(* sequence attends to its own prefix and writes only unpublished blocks.  *)
PrefixIntegrity ==
  \A s \in Seqs :
    /\ computed[s] <= Len(tokens[s])
    /\ computed[s] <= Len(table[s]) * BlockSize
    /\ \A i \in 1..Len(table[s]) : key[table[s][i]] # NoKey =>
         /\ i * BlockSize <= computed[s]
         /\ key[table[s][i]] = Key(s, i)

(* Two tables hold the same block only if it was published: the sequence   *)
(* that still fills a block has it for itself, whatever the others match,  *)
(* evict and release.                                                      *)
OneWriter ==
  \A s, t \in Seqs : s # t => \A b \in BlocksOf(s) \cap BlocksOf(t) : key[b] # NoKey

(* Blocks are shared only inside a namespace and only between requests     *)
(* that enabled the cache: a no-store request neither reads nor leaves     *)
(* anything in it.                                                         *)
SharingIsOptIn ==
  \A s \in Seqs : \A b \in BlocksOf(s) :
    /\ ~CacheEnabled[s] => ref[b] = 1 /\ key[b] = NoKey
    /\ \A t \in Seqs : b \in BlocksOf(t) => Namespace[s] = Namespace[t]

(* A request with cache breakpoints neither reads nor publishes a block    *)
(* that reaches beyond the last of them that its tokens have reached.      *)
CachedWithinBreakpoints ==
  \A s \in Seqs : Breakpoints[s] # {} =>
    \A i \in 1..Len(table[s]) : key[table[s][i]] # NoKey =>
      \E p \in Breakpoints[s] : i * BlockSize <= p /\ p <= Len(tokens[s])

(* The idle cache never exceeds the global quota nor, in any namespace,    *)
(* the quota per namespace.                                                *)
QuotasHold ==
  /\ MaxCached > 0 => Cardinality(cached) <= MaxCached
  /\ MaxCachedPerNs > 0 => \A n \in Namespaces :
       Cardinality({b \in cached : NamespaceOf(b) = n}) <= MaxCachedPerNs

(* The usage a request reports never bills a prompt token twice: read from *)
(* the cache and written to it add up to the prompt at most, also after    *)
(* preemption and recomputation.                                           *)
UsageAddsUp ==
  \A s \in Seqs : cacheRead[s] + cacheCreate[s] <= Len(Prompt[s])

(* An idle block whose expires_at has passed is never given new life: a    *)
(* request that finds it purges it instead of attaching it.                *)
ExpiredNeverRevived ==
  [][\A b \in cached : expiry[b] = "past" /\ ref'[b] > 0 => key'[b] = NoKey]_vars

(* Refinement mapping: the owners of a block are the sequences that hold   *)
(* it in their table, its label is its hash.                               *)
Pool == INSTANCE KVPool WITH
  owners <- [b \in Blocks |-> Holders(b)],
  label <- key, Labels <- Keys, NoLabel <- NoKey

(* Every method of the block manager is one step of the abstract pool: a   *)
(* block is written by one owner until it is published, read by many       *)
(* after, and recycled only when nobody holds it.                          *)
ImplementsPool == Pool!Spec

=============================================================================
