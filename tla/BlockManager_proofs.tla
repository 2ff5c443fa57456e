------------------------ MODULE BlockManager_proofs ------------------------
(***************************************************************************)
(* The block manager is safe for any number of requests, blocks, tokens    *)
(* and namespaces, any block size, quota and breakpoints.                  *)
(*                                                                         *)
(* The first part is about the pool, the tables and the content hashes:    *)
(* IInv, an invariant of its own.  The second part, from "What the prefix  *)
(* cache publishes and keeps" on, builds on it.                            *)
(***************************************************************************)
EXTENDS BlockManager, FiniteSetTheorems, SequenceTheorems, TLAPS

(* A request never asks for more prefill than it has tokens.               *)
TargetWithin == \A s \in Seqs : target[s] <= Len(tokens[s])

(* The inductive invariant: the safety properties of BlockManager rest on  *)
(* each other, and on nothing else but the bound on the targets.           *)
IInv ==
  /\ TypeOK
  /\ TargetWithin
  /\ PoolPartition
  /\ HashTableExact
  /\ RefCountsExact
  /\ PrefixIntegrity
  /\ OneWriter

-----------------------------------------------------------------------------
(* Arithmetic and sequences                                                *)

(* Multiples of the block size are ordered as their factors are.           *)
LEMMA TimesBlockSize ==
  ASSUME NEW i \in Nat, NEW j \in Nat
  PROVE  /\ i * BlockSize \in Nat
         /\ i * BlockSize = j * BlockSize => i = j
         /\ i <= j => i * BlockSize <= j * BlockSize
         /\ i >= 1 => i * BlockSize >= 1
<1>1. BlockSize \in Nat /\ BlockSize >= 1
  BY SizeAssumption
<1>2. \A n \in Nat, d \in Nat : d >= 1 => n + d >= n /\ (n + d) * BlockSize = n * BlockSize + d * BlockSize
  BY <1>1
<1>3. \A d \in Nat : d >= 1 => d * BlockSize >= 1
  BY <1>1, Z3
<1>4. \A n \in Nat : n * BlockSize \in Nat
  BY <1>1
<1>5. ASSUME NEW m \in Nat, NEW n \in Nat, m < n PROVE m * BlockSize < n * BlockSize
  <2>1. n = m + (n - m) /\ n - m \in Nat /\ n - m >= 1
    BY <1>5
  <2>2. n * BlockSize = m * BlockSize + (n - m) * BlockSize
    BY <2>1, <1>2
  <2> QED
    BY <2>1, <2>2, <1>3, <1>4
<1>6. QED
  BY <1>3, <1>4, <1>5

(* A number of blocks is an integer.                                       *)
LEMMA NumBlocksInt == ASSUME NEW n \in Nat PROVE NumBlocksFor(n) \in Int
BY SizeAssumption DEF NumBlocksFor

(* The content hash of a block that is full of tokens is one of the keys.  *)
LEMMA KeyType ==
  ASSUME TypeOK, NEW s \in Seqs, NEW i \in Nat, i * BlockSize <= Len(tokens[s])
  PROVE  Key(s, i) \in Keys /\ Len(Key(s, i)[2]) = i * BlockSize
<1> DEFINE n == i * BlockSize
<1>1. n \in Nat
  BY TimesBlockSize
<1>2. tokens[s] \in Seq(Tokens)
  BY DEF TypeOK
<1>3. \A j \in 1..n : tokens[s][j] \in Tokens
  BY <1>1, <1>2, ElementOfSeq
<1>4. SubSeq(tokens[s], 1, n) \in Seq(Tokens) /\ Len(SubSeq(tokens[s], 1, n)) = n
  BY <1>1, <1>3, SubSeqProperties
<1>5. Namespace[s] \in Namespaces
  BY RequestAssumption
<1>6. QED
  BY <1>4, <1>5 DEF Key, Keys

(* Two full blocks of a sequence never have the same content hash.         *)
LEMMA KeyInjective ==
  ASSUME TypeOK, NEW s \in Seqs, NEW i \in Nat, NEW j \in Nat,
         i * BlockSize <= Len(tokens[s]), j * BlockSize <= Len(tokens[s]),
         Key(s, i) = Key(s, j)
  PROVE  i = j
BY KeyType, TimesBlockSize

(* Generating a token does not change the blocks before it.                *)
LEMMA SubSeqOfAppend ==
  ASSUME NEW S, NEW q \in Seq(S), NEW t \in S, NEW n \in Nat, n <= Len(q)
  PROVE  SubSeq(Append(q, t), 1, n) = SubSeq(q, 1, n)
<1>1. \A i \in 1..n : Append(q, t)[i] = q[i] /\ q[i] \in S
  BY AppendProperties, ElementOfSeq, LenProperties
<1>2. QED
  BY <1>1

(* The prompt tokens in a set of blocks can be counted.                    *)
LEMMA PromptTokensInNat ==
  ASSUME NEW s \in Seqs, NEW I PROVE PromptTokensIn(s, I) \in Nat
<1>1. Len(Prompt[s]) \in Nat
  BY RequestAssumption, LenProperties
<1>2. IsFiniteSet(1..Len(Prompt[s]))
  BY <1>1, FS_Interval
<1>3. {p \in 1..Len(Prompt[s]) : NumBlocksFor(p) \in I} \in SUBSET (1..Len(Prompt[s]))
  OBVIOUS
<1>4. QED
  BY <1>2, <1>3, FS_Subset, FS_CardinalityType DEF PromptTokensIn

-----------------------------------------------------------------------------
(* Holders and reference counts                                            *)

(* A block has finitely many holders, all of them sequences.               *)
LEMMA HoldersFinite ==
  ASSUME NEW b
  PROVE  IsFiniteSet(Holders(b)) /\ Holders(b) \subseteq Seqs
BY SetAssumption, FS_Subset DEF Holders

(* A block table is a sequence of blocks.                                  *)
LEMMA BlocksOfType ==
  ASSUME TypeOK, NEW s \in Seqs
  PROVE  /\ BlocksOf(s) \subseteq Blocks
         /\ Len(table[s]) \in Nat
         /\ \A i \in 1..Len(table[s]) : table[s][i] \in Blocks /\ table[s][i] \in BlocksOf(s)
BY ElementOfSeq, LenProperties DEF TypeOK, BlocksOf

(* A block in a table is counted, so it is neither free nor cached; one    *)
(* with a count of zero is in no table, and one with a count of one in no  *)
(* other.                                                                  *)
LEMMA RefMeaning ==
  ASSUME IInv, NEW s \in Seqs, NEW b \in Blocks
  PROVE  /\ ref[b] \in Nat
         /\ b \in BlocksOf(s) => ref[b] > 0 /\ b \notin free /\ b \notin cached
         /\ \A t \in Seqs : b \in BlocksOf(s) /\ ref[b] = 1 /\ b \in BlocksOf(t) => t = s
<1>1. IsFiniteSet(Holders(b)) /\ ref[b] = Cardinality(Holders(b))
  BY HoldersFinite DEF IInv, RefCountsExact
<1>2. ref[b] \in Nat
  BY DEF IInv, TypeOK
<1>3. b \in BlocksOf(s) => ref[b] > 0
  BY <1>1, <1>2, FS_EmptySet DEF Holders
<1>4. b \in BlocksOf(s) => b \notin free /\ b \notin cached
  BY <1>3 DEF IInv, PoolPartition
<1>5. ASSUME NEW t \in Seqs, b \in BlocksOf(s), ref[b] = 1, b \in BlocksOf(t)
      PROVE  t = s
  <2>1. PICK x : Holders(b) = {x}
    BY <1>1, <1>5, FS_Singleton
  <2>2. s \in Holders(b) /\ t \in Holders(b)
    BY <1>5 DEF Holders
  <2> QED
    BY <2>1, <2>2
<1>6. QED
  BY <1>2, <1>3, <1>4, <1>5

-----------------------------------------------------------------------------
(* Withdrawing the content hashes of a set of blocks                       *)

(* What is left of the hash table still points at blocks with that hash.   *)
LEMMA HashTableWithout ==
  ASSUME TypeOK, HashTableExact, NEW P \in SUBSET Blocks
  PROVE  /\ DOMAIN HashWithout(P) \subseteq DOMAIN hashToBlock
         /\ \A k \in DOMAIN HashWithout(P) :
              /\ HashWithout(P)[k] = hashToBlock[k]
              /\ HashWithout(P)[k] \in Blocks \ P
              /\ key[HashWithout(P)[k]] = k
              /\ k # NoKey
         /\ \A b \in Blocks \ P : key[b] # NoKey =>
              key[b] \in DOMAIN HashWithout(P) /\ HashWithout(P)[key[b]] = b
<1>1. \A k \in DOMAIN hashToBlock : hashToBlock[k] \in Blocks /\ key[hashToBlock[k]] = k
  BY DEF TypeOK, HashTableExact
<1>2. NoKey \notin DOMAIN hashToBlock
  BY NoKeyAssumption DEF TypeOK
<1>3. QED
  BY <1>1, <1>2 DEF HashWithout, HashTableExact

(* The hash table stays exact when a set of blocks loses its hashes.       *)
LEMMA WithoutKeepsExact ==
  ASSUME TypeOK, HashTableExact, NEW P \in SUBSET Blocks,
         key' = KeyWithout(P), hashToBlock' = HashWithout(P)
  PROVE  HashTableExact'
<1>1. \A k \in DOMAIN hashToBlock' : key'[hashToBlock'[k]] = k
  BY HashTableWithout DEF KeyWithout
<1>2. ASSUME NEW b \in Blocks, key'[b] # NoKey
      PROVE  key'[b] \in DOMAIN hashToBlock' /\ hashToBlock'[key'[b]] = b
  BY <1>2, HashTableWithout DEF KeyWithout
<1>3. QED
  BY <1>1, <1>2 DEF HashTableExact

(* The types of what a set of blocks leaves behind.                        *)
LEMMA WithoutType ==
  ASSUME TypeOK, HashTableExact, NEW P \in SUBSET Blocks
  PROVE  /\ KeyWithout(P) \in [Blocks -> Keys \cup {NoKey}]
         /\ ExpiryWithout(P) \in [Blocks -> {"none", "future", "past"}]
         /\ DOMAIN HashWithout(P) \subseteq Keys
         /\ HashWithout(P) \in [DOMAIN HashWithout(P) -> Blocks]
<1>1. KeyWithout(P) \in [Blocks -> Keys \cup {NoKey}]
  BY DEF KeyWithout, TypeOK
<1>2. ExpiryWithout(P) \in [Blocks -> {"none", "future", "past"}]
  BY DEF ExpiryWithout, TypeOK
<1>3. DOMAIN HashWithout(P) \subseteq Keys
  BY HashTableWithout DEF TypeOK
<1>4. HashWithout(P) \in [DOMAIN HashWithout(P) -> Blocks]
  BY HashTableWithout DEF HashWithout
<1>5. QED
  BY <1>1, <1>2, <1>3, <1>4

(* While the tables and the reference counts stay, so do their relations.  *)
LEMMA SameTables ==
  ASSUME table' = table
  PROVE  /\ \A s \in Seqs : BlocksOf(s)' = BlocksOf(s)
         /\ \A b \in Blocks : Holders(b)' = Holders(b)
         /\ ref' = ref /\ RefCountsExact => RefCountsExact'
<1>1. \A s \in Seqs : BlocksOf(s)' = BlocksOf(s)
  BY DEF BlocksOf
<1>2. \A b \in Blocks : Holders(b)' = Holders(b)
  BY <1>1 DEF Holders
<1>3. QED
  BY <1>1, <1>2 DEF RefCountsExact

-----------------------------------------------------------------------------
(* What a method does to who holds which block and to the content hashes   *)

(* The other sequences keep their blocks. *)
OthersKeepTheirs(s) == \A u \in Seqs : u # s => BlocksOf(u)' = BlocksOf(u)

(* s attaches the blocks B, all of them published and none expired.        *)
Attaches(s, B) ==
  /\ CacheOn(s)
  /\ BlocksOf(s) = {} /\ BlocksOf(s)' = B /\ OthersKeepTheirs(s)
  /\ \A b \in B : b \notin Expired /\ key[b] # NoKey
  /\ key' = KeyWithout(Expired)

(* s takes the blocks B, which nobody holds.                               *)
Takes(s, B) ==
  /\ BlocksOf(s)' = BlocksOf(s) \cup B /\ OthersKeepTheirs(s)
  /\ \A b \in B : \A u \in Seqs : b \notin BlocksOf(u)
  /\ key' = KeyWithout(Expired \cup B)

(* s publishes the blocks B, which it alone holds.                         *)
Publishes(s, B) ==
  /\ table' = table
  /\ \A b \in B : CacheOn(s) /\ b \in BlocksOf(s) /\ key[b] = NoKey
  /\ \A b \in Blocks \ B : key'[b] = key[b]

-----------------------------------------------------------------------------
(* Each method keeps the invariant                                         *)

(* A purge takes only idle blocks, which no table holds.                   *)
LEMMA PurgeKeepsIInv ==
  ASSUME IInv, NEW P \in SUBSET cached, Purge(P), UNCHANGED seqVars
  PROVE  IInv'
<1> USE DEF IInv
<1>1. P \in SUBSET Blocks
  BY DEF TypeOK
<1>2. TypeOK'
  <2>1. OlderAmong(cached \ P) \in SUBSET (Blocks \X Blocks)
    BY DEF OlderAmong, TypeOK
  <2> QED
    BY <1>1, <2>1, WithoutType DEF TypeOK, Purge, seqVars, useVars
<1>3. TargetWithin'
  BY DEF TargetWithin, seqVars
<1>4. PoolPartition'
  BY <1>1 DEF PoolPartition, Purge, KeyWithout, TypeOK
<1>5. HashTableExact'
  BY <1>1, WithoutKeepsExact DEF Purge
<1>6. RefCountsExact'
  BY SameTables DEF Purge, useVars
<1>7. \A s \in Seqs : \A b \in BlocksOf(s) : b \in Blocks /\ key'[b] = key[b]
  BY <1>1, BlocksOfType, RefMeaning DEF Purge, KeyWithout
<1>8. PrefixIntegrity'
  BY <1>7, BlocksOfType DEF PrefixIntegrity, Purge, useVars, seqVars, Key
<1>9. OneWriter'
  BY <1>7, SameTables DEF OneWriter, Purge, useVars
<1>10. QED
  BY <1>2, <1>3, <1>4, <1>5, <1>6, <1>8, <1>9

(* Time changes nothing but what is expired.                               *)
LEMMA ExpireKeepsIInv ==
  ASSUME IInv, NEW b \in Blocks, Expire(b)
  PROVE  IInv'
<1> USE DEF IInv, Expire, seqVars, useVars
<1>1. TypeOK'
  BY DEF TypeOK
<1>2. TargetWithin' /\ PoolPartition' /\ HashTableExact' /\ RefCountsExact'
  BY SameTables DEF TargetWithin, PoolPartition, HashTableExact
<1>3. PrefixIntegrity'
  BY DEF PrefixIntegrity, Key
<1>4. OneWriter'
  BY SameTables DEF OneWriter
<1>5. QED
  BY <1>1, <1>2, <1>3, <1>4

(* A generated token changes no key of a full computed block.              *)
LEMMA AppendKeepsIInv ==
  ASSUME IInv, NEW s \in Seqs, NEW t \in Tokens, AppendToken(s, t)
  PROVE  IInv'
<1> USE DEF IInv, AppendToken, bmVars, useVars, poolVars
<1>1. /\ \A u \in Seqs : tokens[u] \in Seq(Tokens) /\ Len(tokens[u]) \in Nat
      /\ \A u \in Seqs : tokens'[u] = IF u = s THEN Append(tokens[u], t) ELSE tokens[u]
      /\ \A u \in Seqs : Len(tokens'[u]) >= Len(tokens[u])
      /\ tokens' \in [Seqs -> Seq(Tokens)]
  BY AppendProperties, LenProperties DEF TypeOK
<1>2. TypeOK'
  BY <1>1 DEF TypeOK
<1>3. TargetWithin'
  BY <1>1 DEF TargetWithin, TypeOK
<1>4. PoolPartition' /\ HashTableExact' /\ RefCountsExact'
  BY SameTables DEF PoolPartition, HashTableExact
<1>5. PrefixIntegrity'
  <2> SUFFICES ASSUME NEW u \in Seqs
               PROVE  /\ computed'[u] <= Len(tokens'[u])
                      /\ computed'[u] <= Len(table'[u]) * BlockSize
                      /\ \A i \in 1..Len(table'[u]) : key'[table'[u][i]] # NoKey =>
                           /\ i * BlockSize <= computed'[u]
                           /\ key'[table'[u][i]] = Key(u, i)'
    BY DEF PrefixIntegrity
  <2>1. computed'[u] <= Len(tokens'[u]) /\ computed'[u] <= Len(table'[u]) * BlockSize
    BY <1>1 DEF PrefixIntegrity, TypeOK
  <2>2. ASSUME NEW i \in 1..Len(table'[u]), key'[table'[u][i]] # NoKey
        PROVE  i * BlockSize <= computed'[u] /\ key'[table'[u][i]] = Key(u, i)'
    <3>1. i * BlockSize <= computed[u] /\ key[table[u][i]] = Key(u, i)
      BY <2>2 DEF PrefixIntegrity
    <3>2. i \in Nat /\ i * BlockSize \in Nat
      BY TimesBlockSize, BlocksOfType
    <3>3. i * BlockSize <= Len(tokens[u])
      BY <1>1, <3>1, <3>2 DEF PrefixIntegrity, TypeOK
    <3>4. SubSeq(tokens'[u], 1, i * BlockSize) = SubSeq(tokens[u], 1, i * BlockSize)
      BY <1>1, <3>2, <3>3, SubSeqOfAppend
    <3> QED
      BY <3>1, <3>4 DEF Key
  <2> QED
    BY <2>1, <2>2
<1>6. OneWriter'
  BY SameTables DEF OneWriter
<1>7. QED
  BY <1>2, <1>3, <1>4, <1>5, <1>6

(* A new sequence has no blocks.                                           *)
LEMMA RenewKeepsIInv ==
  ASSUME IInv, NEW s \in Seqs, Renew(s)
  PROVE  IInv'
<1> USE DEF IInv, Renew, bmVars, useVars, poolVars
<1>1. Prompt[s] \in Seq(Tokens) /\ Len(Prompt[s]) \in Nat
  BY RequestAssumption, LenProperties
<1>2. TypeOK'
  BY <1>1 DEF TypeOK
<1>3. TargetWithin'
  BY <1>1 DEF TargetWithin, TypeOK
<1>4. PoolPartition' /\ HashTableExact' /\ RefCountsExact'
  BY SameTables DEF PoolPartition, HashTableExact
<1>5. PrefixIntegrity'
  <2>1. Len(table[s]) = 0 /\ tokens'[s] = Prompt[s]
    BY DEF TypeOK
  <2>2. \A u \in Seqs : u # s => tokens'[u] = tokens[u]
    BY DEF TypeOK
  <2>3. \A u \in Seqs : u # s => \A i : Key(u, i)' = Key(u, i)
    BY <2>2 DEF Key
  <2> QED
    BY <1>1, <2>1, <2>2, <2>3 DEF PrefixIntegrity
<1>6. OneWriter'
  BY SameTables DEF OneWriter
<1>7. QED
  BY <1>2, <1>3, <1>4, <1>5, <1>6

(* An early return changes nothing.                                        *)
LEMMA StutterKeepsIInv == IInv /\ UNCHANGED vars => IInv'
<1> SUFFICES ASSUME IInv, UNCHANGED vars PROVE IInv'
  OBVIOUS
<1> USE DEF IInv, vars, seqVars, useVars, poolVars
<1>1. TypeOK'
  BY DEF TypeOK
<1>2. TargetWithin' /\ PoolPartition' /\ HashTableExact'
  BY DEF TargetWithin, PoolPartition, HashTableExact
<1>3. RefCountsExact' /\ OneWriter'
  BY SameTables DEF OneWriter
<1>4. PrefixIntegrity'
  BY DEF PrefixIntegrity, Key
<1>5. QED
  BY <1>1, <1>2, <1>3, <1>4

(* Blocks taken from the free queue or the cached set are in no table, so  *)
(* they join the table of s alone, without a content hash.                 *)
LEMMA EnsureKeepsIInv ==
  ASSUME IInv, NEW s \in Seqs, NEW t \in Nat, Ensure(s, t)
  PROVE  IInv' /\ (UNCHANGED vars \/ \E B \in SUBSET Blocks : Takes(s, B))
<1> DEFINE n == NumBlocksFor(t) - Len(table[s])
           F == free \cup Expired
           C == cached \ Expired
<1>1. CASE n <= 0
  BY <1>1, StutterKeepsIInv DEF Ensure, EnsureBlocks, vars, bmVars
<1>2. CASE ~(n <= 0)
  <2>1. PICK new \in Takings(n, F, C) :
          LET taken == {new[i] : i \in 1..n}
          IN  /\ table' = [table EXCEPT ![s] = @ \o new]
              /\ free' = F \ taken
              /\ cached' = C \ taken
              /\ used' = used \cup taken
              /\ older' = OlderAmong(C \ taken)
              /\ ref' = [b \in Blocks |-> IF b \in taken THEN 1 ELSE ref[b]]
              /\ key' = KeyWithout(Expired \cup taken)
              /\ expiry' = ExpiryWithout(Expired \cup taken)
              /\ hashToBlock' = HashWithout(Expired \cup taken)
              /\ UNCHANGED <<computed, cacheRead, cacheCreate>>
    BY <1>2 DEF Ensure, EnsureBlocks
  <2> DEFINE taken == {new[i] : i \in 1..n}
             P == Expired \cup taken
             old == Len(table[s])
  <2>2. n \in Nat /\ n >= 1 /\ old \in Nat /\ table[s] \in Seq(Blocks)
    <3>1. TypeOK
      BY DEF IInv
    <3>2. old \in Nat /\ table[s] \in Seq(Blocks)
      BY <3>1, BlocksOfType DEF TypeOK
    <3>3. NumBlocksFor(t) \in Int
      BY NumBlocksInt
    <3> QED
      BY <1>2, <3>2, <3>3
  <2>3. /\ new \in [1..n -> free \cup cached]
        /\ \A i, j \in 1..n : new[i] = new[j] => i = j
    BY DEF Takings, Expired
  <2>4. /\ taken \subseteq free \cup cached
        /\ taken \subseteq Blocks
        /\ Expired \subseteq cached
        /\ P \in SUBSET Blocks
    BY <2>3 DEF Expired, IInv, TypeOK
  <2>5. \A b \in taken : ref[b] = 0
    BY <2>4 DEF IInv, PoolPartition
  <2>6. \A b \in P : \A u \in Seqs : b \notin BlocksOf(u)
    BY <2>4, RefMeaning
  <2>7. new \in Seq(Blocks) /\ Len(new) = n
    BY <2>2, <2>3, <2>4, IsASeq
  <2>8. /\ table'[s] \in Seq(Blocks)
        /\ Len(table'[s]) = old + n
        /\ \A i \in 1..old : table'[s][i] = table[s][i]
        /\ \A i \in old+1..old+n : i - old \in 1..n /\ table'[s][i] = new[i - old]
    <3>1. table'[s] = table[s] \o new
      BY <2>1 DEF IInv, TypeOK
    <3>2. /\ table[s] \o new \in Seq(Blocks)
          /\ Len(table[s] \o new) = old + n
          /\ \A i \in 1..old+n : (table[s] \o new)[i] = IF i <= old THEN table[s][i] ELSE new[i - old]
      BY <2>2, <2>7, ConcatProperties
    <3> QED
      BY <2>2, <3>1, <3>2
  <2>9. \A u \in Seqs : u # s => table'[u] = table[u]
    BY <2>1 DEF IInv, TypeOK
  <2>10. \A b \in Blocks \ P : key'[b] = key[b]
    BY <2>1 DEF KeyWithout
  <2>11. \A b \in P : key'[b] = NoKey
    BY <2>1, <2>4 DEF KeyWithout
  <2>12. BlocksOf(s)' = BlocksOf(s) \cup taken
    <3>1. ASSUME NEW b \in BlocksOf(s)' PROVE b \in BlocksOf(s) \cup taken
      <4>1. PICK i \in 1..Len(table'[s]) : b = table'[s][i]
        BY DEF BlocksOf
      <4>2. i \in 1..old \/ i \in old+1..old+n
        BY <2>2, <2>8
      <4> QED
        BY <2>2, <2>8, <4>1, <4>2 DEF BlocksOf
    <3>2. ASSUME NEW i \in 1..old PROVE table[s][i] \in BlocksOf(s)'
      <4>1. i \in 1..Len(table'[s]) /\ table'[s][i] = table[s][i]
        BY <2>2, <2>8
      <4> QED
        BY <4>1 DEF BlocksOf
    <3>3. ASSUME NEW i \in 1..n PROVE new[i] \in BlocksOf(s)'
      <4>1. old + i \in old+1..old+n /\ (old + i) - old = i /\ old + i \in 1..Len(table'[s])
        BY <2>2, <2>8
      <4>2. table'[s][old + i] = new[i]
        BY <4>1, <2>8
      <4> QED
        BY <4>1, <4>2 DEF BlocksOf
    <3> QED
      BY <3>1, <3>2, <3>3 DEF BlocksOf
  <2>13. \A u \in Seqs : u # s => BlocksOf(u)' = BlocksOf(u)
    BY <2>9 DEF BlocksOf
  <2>14. TypeOK'
    <3>1. table' \in [Seqs -> Seq(Blocks)]
      BY <2>1, <2>8, <2>9 DEF IInv, TypeOK
    <3>2. free' \in SUBSET Blocks /\ cached' \in SUBSET Blocks /\ used' \in SUBSET Blocks
      BY <2>1, <2>4 DEF IInv, TypeOK
    <3>3. older' \in SUBSET (Blocks \X Blocks)
      BY <2>1 DEF IInv, TypeOK, OlderAmong
    <3>4. ref' \in [Blocks -> Nat]
      BY <2>1 DEF IInv, TypeOK
    <3>5. /\ key' \in [Blocks -> Keys \cup {NoKey}]
          /\ expiry' \in [Blocks -> {"none", "future", "past"}]
          /\ DOMAIN hashToBlock' \subseteq Keys
          /\ hashToBlock' \in [DOMAIN hashToBlock' -> Blocks]
      BY <2>1, <2>4, WithoutType DEF IInv
    <3> QED
      BY <2>1, <3>1, <3>2, <3>3, <3>4, <3>5 DEF IInv, TypeOK, Ensure, seqVars
  <2>15. TargetWithin'
    BY DEF IInv, TargetWithin, Ensure, seqVars
  <2>16. PoolPartition'
    <3>1. \A b \in Blocks : ref'[b] = IF b \in taken THEN 1 ELSE ref[b]
      BY <2>1
    <3>2. ASSUME NEW b \in Blocks
          PROVE  /\ b \in free' <=> ref'[b] = 0 /\ key'[b] = NoKey
                 /\ b \in cached' <=> ref'[b] = 0 /\ key'[b] # NoKey
                 /\ b \in used' <=> ref'[b] > 0
      <4>1. /\ b \in free <=> ref[b] = 0 /\ key[b] = NoKey
            /\ b \in cached <=> ref[b] = 0 /\ key[b] # NoKey
            /\ b \in used <=> ref[b] > 0
            /\ ref[b] \in Nat
        BY DEF IInv, PoolPartition, TypeOK
      <4>2. CASE b \in taken
        BY <2>1, <2>11, <3>1, <4>2
      <4>3. CASE b \notin taken /\ b \in Expired
        BY <2>1, <2>4, <2>11, <3>1, <4>1, <4>3
      <4>4. CASE b \notin P
        BY <2>1, <2>10, <3>1, <4>1, <4>4
      <4> QED
        BY <4>2, <4>3, <4>4
    <3>3. free' \subseteq Blocks /\ cached' \subseteq Blocks /\ used' \subseteq Blocks
      BY <2>14 DEF TypeOK
    <3> QED
      BY <3>2, <3>3 DEF PoolPartition
  <2>17. HashTableExact'
    BY <2>1, <2>4, WithoutKeepsExact DEF IInv
  <2>18. RefCountsExact'
    <3>1. ASSUME NEW u \in Seqs, NEW i \in 1..Len(table'[u]), NEW j \in 1..Len(table'[u]),
                 table'[u][i] = table'[u][j]
          PROVE  i = j
      <4>1. CASE u # s
        BY <2>9, <3>1, <4>1 DEF IInv, RefCountsExact
      <4>2. CASE u = s
        <5>1. /\ i \in 1..old \/ i \in old+1..old+n
              /\ j \in 1..old \/ j \in old+1..old+n
          BY <2>2, <2>8, <4>2
        <5>2. CASE i \in 1..old /\ j \in 1..old
          BY <2>8, <3>1, <4>2, <5>2 DEF IInv, RefCountsExact
        <5>3. CASE i \in old+1..old+n /\ j \in old+1..old+n
          <6>1. i - old = j - old
            BY <2>3, <2>8, <3>1, <4>2, <5>3
          <6> QED
            BY <2>2, <5>3, <6>1
        <5>4. \A k \in 1..old : table'[s][k] \in BlocksOf(s)
          BY <2>8 DEF BlocksOf
        <5>5. \A k \in old+1..old+n : table'[s][k] \in taken
          BY <2>8
        <5> QED
          BY <2>6, <3>1, <4>2, <5>1, <5>2, <5>3, <5>4, <5>5
      <4> QED
        BY <4>1, <4>2
    <3>2. ASSUME NEW b \in Blocks PROVE ref'[b] = Cardinality(Holders(b)')
      <4>1. CASE b \in taken
        <5>1. Holders(b)' = {s}
          <6>1. s \in Holders(b)'
            BY <2>12, <4>1 DEF Holders
          <6>2. \A u \in Seqs : u # s => b \notin BlocksOf(u)'
            BY <2>6, <2>13, <4>1
          <6> QED
            BY <6>1, <6>2 DEF Holders
        <5> QED
          BY <2>1, <4>1, <5>1, FS_Singleton
      <4>2. CASE b \notin taken
        <5>1. Holders(b)' = Holders(b)
          BY <2>12, <2>13, <4>2 DEF Holders
        <5> QED
          BY <2>1, <4>2, <5>1 DEF IInv, RefCountsExact
      <4> QED
        BY <4>1, <4>2
    <3> QED
      BY <3>1, <3>2 DEF RefCountsExact
  <2>19. \A u \in Seqs : \A b \in BlocksOf(u) : b \in Blocks /\ key'[b] = key[b]
    BY <2>6, <2>10, BlocksOfType DEF IInv
  <2>20. PrefixIntegrity'
    <3> SUFFICES ASSUME NEW u \in Seqs
                 PROVE  /\ computed'[u] <= Len(tokens'[u])
                        /\ computed'[u] <= Len(table'[u]) * BlockSize
                        /\ \A i \in 1..Len(table'[u]) : key'[table'[u][i]] # NoKey =>
                             /\ i * BlockSize <= computed'[u]
                             /\ key'[table'[u][i]] = Key(u, i)'
      BY DEF PrefixIntegrity
    <3>1. computed' = computed /\ tokens' = tokens /\ \A i : Key(u, i)' = Key(u, i)
      BY <2>1 DEF Ensure, seqVars, Key
    <3>2. Len(table[u]) <= Len(table'[u]) /\ Len(table'[u]) \in Nat /\ Len(table[u]) \in Nat
      BY <2>2, <2>8, <2>9, BlocksOfType DEF IInv
    <3>3. computed'[u] <= Len(tokens'[u]) /\ computed'[u] <= Len(table'[u]) * BlockSize
      <4>1. computed[u] <= Len(table[u]) * BlockSize /\ computed[u] <= Len(tokens[u])
        BY DEF IInv, PrefixIntegrity
      <4>2. Len(table[u]) * BlockSize <= Len(table'[u]) * BlockSize
        BY <3>2, TimesBlockSize
      <4>3. computed[u] \in Nat /\ Len(table[u]) * BlockSize \in Nat /\ Len(table'[u]) * BlockSize \in Nat
        BY <3>2, TimesBlockSize DEF IInv, TypeOK
      <4> QED
        BY <3>1, <4>1, <4>2, <4>3
    <3>4. ASSUME NEW i \in 1..Len(table'[u]), key'[table'[u][i]] # NoKey
          PROVE  i * BlockSize <= computed'[u] /\ key'[table'[u][i]] = Key(u, i)'
      <4>1. table'[u][i] \notin taken
        BY <2>11, <3>4
      <4>2. i \in 1..Len(table[u]) /\ table'[u][i] = table[u][i]
        <5>1. CASE u # s
          BY <2>9, <5>1
        <5>2. CASE u = s
          <6>1. i \in 1..old \/ i \in old+1..old+n
            BY <2>2, <2>8, <5>2
          <6>2. i \in old+1..old+n => table'[s][i] \in taken
            BY <2>8
          <6> QED
            BY <2>8, <4>1, <5>2, <6>1, <6>2
        <5> QED
          BY <5>1, <5>2
      <4>3. key'[table'[u][i]] = key[table[u][i]]
        BY <2>19, <4>2 DEF BlocksOf
      <4> QED
        BY <3>1, <3>4, <4>2, <4>3 DEF IInv, PrefixIntegrity
    <3> QED
      BY <3>3, <3>4
  <2>21. OneWriter'
    BY <2>6, <2>12, <2>13, <2>19 DEF IInv, OneWriter
  <2>22. Takes(s, taken)
    <3>1. key' = KeyWithout(Expired \cup taken)
      BY <2>1
    <3>2. \A b \in taken : \A u \in Seqs : b \notin BlocksOf(u)
      BY <2>6
    <3> HIDE DEF taken
    <3> QED
      BY <2>12, <2>13, <3>1, <3>2 DEF Takes, OthersKeepTheirs
  <2>23. taken \in SUBSET Blocks
    BY <2>4
  <2>24. QED
    <3> HIDE DEF taken
    <3> QED
      BY <2>14, <2>15, <2>16, <2>17, <2>18, <2>20, <2>21, <2>22, <2>23 DEF IInv
<1>3. QED
  BY <1>1, <1>2

(* A lookup attaches blocks that hold the keys of s, in their places, and  *)
(* that are not expired.                                                   *)
LEMMA MatchKeepsIInv ==
  ASSUME IInv, NEW s \in Seqs, Match(s)
  PROVE  IInv' /\ (UNCHANGED vars \/ \E B \in SUBSET Blocks : Attaches(s, B))
<1> DEFINE h == HashWithout(Expired)
           Hit(i) == Reusable(s, i) /\ Key(s, i) \in DOMAIN h
<1>1. CASE table[s] # << >> \/ ~CacheOn(s)
  BY <1>1, StutterKeepsIInv DEF Match, MatchCachedPrefix, vars, bmVars
<1>2. CASE ~(table[s] # << >> \/ ~CacheOn(s))
  <2>1. PICK m \in 0..target[s] :
          LET hits == {h[Key(s, i)] : i \in 1..m}
          IN  /\ \A i \in 1..m : Hit(i)
              /\ ~Hit(m + 1)
              /\ table' = [table EXCEPT ![s] = [i \in 1..m |-> h[Key(s, i)]]]
              /\ computed' = [computed EXCEPT ![s] = @ + m * BlockSize]
              /\ cacheRead' = [cacheRead EXCEPT ![s] = PromptTokensIn(s, 1..m)]
              /\ cacheCreate' = [cacheCreate EXCEPT ![s] = 0]
              /\ free' = free \cup Expired
              /\ cached' = cached \ (Expired \cup hits)
              /\ used' = used \cup hits
              /\ older' = OlderAmong(cached \ (Expired \cup hits))
              /\ ref' = RefWith(hits)
              /\ key' = KeyWithout(Expired)
              /\ expiry' = [b \in Blocks |-> IF b \in hits THEN Deadline(s)
                                             ELSE ExpiryWithout(Expired)[b]]
              /\ hashToBlock' = h
    BY <1>2 DEF Match, MatchCachedPrefix
  <2> DEFINE hits == {h[Key(s, i)] : i \in 1..m}
  <2>2. TypeOK /\ m \in Nat /\ table[s] = << >> /\ Len(table[s]) = 0
    BY <1>2 DEF IInv, TypeOK
  <2>3. Expired \in SUBSET Blocks /\ Expired \subseteq cached
    BY DEF Expired, IInv, TypeOK
  <2>4. ASSUME NEW i \in 1..m
        PROVE  /\ i \in Nat /\ i * BlockSize \in Nat
               /\ i * BlockSize <= Len(tokens[s])
               /\ Key(s, i) # NoKey
               /\ h[Key(s, i)] \in Blocks \ Expired
               /\ key[h[Key(s, i)]] = Key(s, i)
    <3>1. i \in Nat /\ i * BlockSize \in Nat
      BY <2>2, TimesBlockSize
    <3>2. i * BlockSize < target[s] /\ Key(s, i) \in DOMAIN h
      BY <2>1 DEF Reusable
    <3>3. target[s] \in Nat /\ Len(tokens[s]) \in Nat /\ target[s] <= Len(tokens[s])
      BY LenProperties DEF IInv, TypeOK, TargetWithin
    <3>4. /\ h[Key(s, i)] \in Blocks \ Expired
          /\ key[h[Key(s, i)]] = Key(s, i)
          /\ Key(s, i) # NoKey
      BY <2>3, <3>2, HashTableWithout DEF IInv
    <3> QED
      BY <3>1, <3>2, <3>3, <3>4
  <2>5. ASSUME NEW i \in 1..m, NEW j \in 1..m, h[Key(s, i)] = h[Key(s, j)]
        PROVE  i = j
    <3>1. Key(s, i) = Key(s, j)
      BY <2>4, <2>5
    <3> QED
      BY <2>2, <2>4, <3>1, KeyInjective
  <2>6. /\ hits \subseteq Blocks
        /\ \A b \in hits : b \notin Expired /\ key[b] # NoKey /\ b \notin free
    BY <2>4 DEF IInv, PoolPartition
  <2>7. /\ table'[s] = [i \in 1..m |-> h[Key(s, i)]]
        /\ table'[s] \in Seq(Blocks)
        /\ Len(table'[s]) = m
    <3>1. table'[s] = [i \in 1..m |-> h[Key(s, i)]]
      BY <2>1, <2>2 DEF TypeOK
    <3>2. [i \in 1..m |-> h[Key(s, i)]] \in [1..m -> Blocks]
      BY <2>4
    <3> QED
      BY <2>2, <3>1, <3>2, IsASeq
  <2>8. \A u \in Seqs : u # s => table'[u] = table[u] /\ computed'[u] = computed[u]
    BY <2>1, <2>2 DEF TypeOK
  <2>9. BlocksOf(s) = {} /\ BlocksOf(s)' = hits
    BY <2>2, <2>7 DEF BlocksOf
  <2>10. \A u \in Seqs : u # s => BlocksOf(u)' = BlocksOf(u)
    BY <2>8 DEF BlocksOf
  <2>11. computed[s] = 0 /\ computed'[s] = m * BlockSize /\ m * BlockSize \in Nat
    <3>1. computed[s] <= 0 * BlockSize /\ computed[s] \in Nat
      BY <2>2 DEF IInv, PrefixIntegrity, TypeOK
    <3>2. computed[s] = 0
      BY <3>1, SizeAssumption
    <3>3. m * BlockSize \in Nat
      BY <2>2, TimesBlockSize
    <3> QED
      BY <2>1, <2>2, <3>2, <3>3 DEF TypeOK
  <2>12. /\ \A b \in Blocks : key'[b] = IF b \in Expired THEN NoKey ELSE key[b]
         /\ \A b \in Blocks : ref'[b] = IF b \in hits THEN ref[b] + 1 ELSE ref[b]
    BY <2>1 DEF KeyWithout, RefWith
  <2>13. TypeOK'
    <3>1. table' \in [Seqs -> Seq(Blocks)]
      BY <2>1, <2>2, <2>7, <2>8 DEF TypeOK
    <3>2. computed' \in [Seqs -> Nat]
      BY <2>1, <2>2, <2>8, <2>11 DEF TypeOK
    <3>3. cacheRead' \in [Seqs -> Nat] /\ cacheCreate' \in [Seqs -> Nat]
      BY <2>1, <2>2, PromptTokensInNat DEF TypeOK
    <3>4. free' \in SUBSET Blocks /\ cached' \in SUBSET Blocks /\ used' \in SUBSET Blocks
      BY <2>1, <2>2, <2>3, <2>6 DEF TypeOK
    <3>5. older' \in SUBSET (Blocks \X Blocks)
      BY <2>1, <2>2 DEF TypeOK, OlderAmong
    <3>6. ref' \in [Blocks -> Nat]
      BY <2>1, <2>2 DEF TypeOK, RefWith
    <3>7. expiry' \in [Blocks -> {"none", "future", "past"}]
      <4>1. Deadline(s) \in {"none", "future", "past"}
        BY DEF Deadline
      <4>2. ExpiryWithout(Expired) \in [Blocks -> {"none", "future", "past"}]
        BY <2>3, WithoutType DEF IInv
      <4> QED
        BY <2>1, <4>1, <4>2
    <3>8. /\ key' \in [Blocks -> Keys \cup {NoKey}]
          /\ DOMAIN hashToBlock' \subseteq Keys
          /\ hashToBlock' \in [DOMAIN hashToBlock' -> Blocks]
      BY <2>1, <2>3, WithoutType DEF IInv
    <3> QED
      BY <2>2, <3>1, <3>2, <3>3, <3>4, <3>5, <3>6, <3>7, <3>8 DEF TypeOK, Match, seqVars
  <2>14. TargetWithin'
    BY DEF IInv, TargetWithin, Match, seqVars
  <2>15. PoolPartition'
    <3>1. ASSUME NEW b \in Blocks
          PROVE  /\ b \in free' <=> ref'[b] = 0 /\ key'[b] = NoKey
                 /\ b \in cached' <=> ref'[b] = 0 /\ key'[b] # NoKey
                 /\ b \in used' <=> ref'[b] > 0
      <4>1. /\ b \in free <=> ref[b] = 0 /\ key[b] = NoKey
            /\ b \in cached <=> ref[b] = 0 /\ key[b] # NoKey
            /\ b \in used <=> ref[b] > 0
            /\ ref[b] \in Nat
        BY DEF IInv, PoolPartition, TypeOK
      <4>2. CASE b \in hits
        BY <2>1, <2>6, <2>12, <4>1, <4>2
      <4>3. CASE b \in Expired
        BY <2>1, <2>3, <2>6, <2>12, <4>1, <4>3
      <4>4. CASE b \notin hits /\ b \notin Expired
        BY <2>1, <2>12, <4>1, <4>4
      <4> QED
        BY <4>2, <4>3, <4>4
    <3>2. free' \subseteq Blocks /\ cached' \subseteq Blocks /\ used' \subseteq Blocks
      BY <2>13 DEF TypeOK
    <3> QED
      BY <3>1, <3>2 DEF PoolPartition
  <2>16. HashTableExact'
    BY <2>1, <2>3, WithoutKeepsExact DEF IInv
  <2>17. RefCountsExact'
    <3>1. ASSUME NEW u \in Seqs, NEW i \in 1..Len(table'[u]), NEW j \in 1..Len(table'[u]),
                 table'[u][i] = table'[u][j]
          PROVE  i = j
      <4>1. CASE u # s
        BY <2>8, <3>1, <4>1 DEF IInv, RefCountsExact
      <4>2. CASE u = s
        <5>1. i \in 1..m /\ j \in 1..m
          BY <2>7, <4>2
        <5>2. h[Key(s, i)] = h[Key(s, j)]
          BY <2>7, <3>1, <4>2, <5>1
        <5> QED
          BY <2>5, <5>1, <5>2
      <4> QED
        BY <4>1, <4>2
    <3>2. ASSUME NEW b \in Blocks PROVE ref'[b] = Cardinality(Holders(b)')
      <4>1. IsFiniteSet(Holders(b)) /\ ref[b] = Cardinality(Holders(b)) /\ s \notin Holders(b)
        BY <2>9, HoldersFinite DEF IInv, RefCountsExact, Holders
      <4>2. CASE b \in hits
        <5>1. Holders(b)' = Holders(b) \cup {s}
          BY <2>9, <2>10, <4>2 DEF Holders
        <5> QED
          BY <2>12, <4>1, <4>2, <5>1, FS_AddElement
      <4>3. CASE b \notin hits
        <5>1. Holders(b)' = Holders(b)
          BY <2>9, <2>10, <4>3 DEF Holders
        <5> QED
          BY <2>12, <4>1, <4>3, <5>1
      <4> QED
        BY <4>2, <4>3
    <3> QED
      BY <3>1, <3>2 DEF RefCountsExact
  <2>18. \A u \in Seqs : \A b \in BlocksOf(u) : b \in Blocks /\ b \notin Expired /\ key'[b] = key[b]
    BY <2>2, <2>3, <2>12, BlocksOfType, RefMeaning
  <2>19. PrefixIntegrity'
    <3> SUFFICES ASSUME NEW u \in Seqs
                 PROVE  /\ computed'[u] <= Len(tokens'[u])
                        /\ computed'[u] <= Len(table'[u]) * BlockSize
                        /\ \A i \in 1..Len(table'[u]) : key'[table'[u][i]] # NoKey =>
                             /\ i * BlockSize <= computed'[u]
                             /\ key'[table'[u][i]] = Key(u, i)'
      BY DEF PrefixIntegrity
    <3>1. tokens' = tokens /\ \A i : Key(u, i)' = Key(u, i)
      BY DEF Match, seqVars, Key
    <3>2. CASE u # s
      <4>1. \A i \in 1..Len(table[u]) : key'[table[u][i]] = key[table[u][i]]
        BY <2>2, <2>18, BlocksOfType
      <4> QED
        BY <2>8, <3>1, <3>2, <4>1 DEF IInv, PrefixIntegrity
    <3>3. CASE u = s
      <4>1. computed'[u] <= Len(tokens'[u])
        <5>1. CASE m = 0
          <6>1. computed'[s] = 0
            BY <2>11, <5>1, SizeAssumption
          <6>2. Len(tokens[s]) \in Nat
            BY <2>2, LenProperties DEF TypeOK
          <6> QED
            BY <3>1, <3>3, <6>1, <6>2
        <5>2. CASE m # 0
          BY <2>2, <2>4, <2>11, <3>1, <3>3, <5>2
        <5> QED
          BY <5>1, <5>2
      <4>2. computed'[u] <= Len(table'[u]) * BlockSize
        BY <2>7, <2>11, <3>3
      <4>3. ASSUME NEW i \in 1..m
            PROVE  i * BlockSize <= computed'[u] /\ key'[table'[u][i]] = Key(u, i)'
        <5>1. i * BlockSize <= m * BlockSize
          BY <2>2, <2>4, TimesBlockSize
        <5>2. table'[s][i] = h[Key(s, i)]
          BY <2>7
        <5> QED
          BY <2>4, <2>11, <2>12, <3>1, <3>3, <5>1, <5>2
      <4> QED
        BY <2>7, <3>3, <4>1, <4>2, <4>3
    <3> QED
      BY <3>2, <3>3
  <2>20. OneWriter'
    BY <2>6, <2>9, <2>10, <2>12, <2>18 DEF IInv, OneWriter
  <2>21. Attaches(s, hits) /\ hits \in SUBSET Blocks
    <3>1. hits \in SUBSET Blocks /\ \A b \in hits : b \notin Expired /\ key[b] # NoKey
      BY <2>6
    <3>2. key' = KeyWithout(Expired)
      BY <2>1
    <3> HIDE DEF hits
    <3> QED
      BY <1>2, <2>9, <2>10, <3>1, <3>2 DEF Attaches, OthersKeepTheirs
  <2>22. QED
    <3> HIDE DEF hits
    <3> QED
      BY <2>13, <2>14, <2>15, <2>16, <2>17, <2>19, <2>20, <2>21 DEF IInv
<1>3. QED
  BY <1>1, <1>2

(* The blocks that a commit publishes are full, in the table of s only,    *)
(* and get keys that no other block has.                                   *)
LEMMA ComputeKeepsIInv ==
  ASSUME IInv, NEW s \in Seqs, NEW u \in Nat, Compute(s, u)
  PROVE  IInv' /\ \E B \in SUBSET Blocks : Publishes(s, B)
<1> DEFINE new == Fresh(s, u)
           slot(b) == CHOOSE i \in new : table[s][i] = b
           fresh == {table[s][i] : i \in new}
           home(k) == CHOOSE i \in new : Key(s, i) = k
<1>1. /\ TypeOK
      /\ tokens' = tokens /\ target' = target
      /\ computed[s] <= u /\ u <= Len(tokens[s]) /\ u <= Len(table[s]) * BlockSize
      /\ table' = table /\ cacheRead' = cacheRead /\ free' = free /\ cached' = cached
      /\ used' = used /\ older' = older /\ ref' = ref
      /\ computed' = [computed EXCEPT ![s] = u]
      /\ key' = [b \in Blocks |-> IF b \in fresh THEN Key(s, slot(b)) ELSE key[b]]
      /\ expiry' = [b \in Blocks |-> IF b \in fresh THEN Deadline(s) ELSE expiry[b]]
      /\ hashToBlock' = [k \in DOMAIN hashToBlock \cup {Key(s, i) : i \in new} |->
           IF k \in DOMAIN hashToBlock THEN hashToBlock[k] ELSE table[s][home(k)]]
      /\ cacheCreate' = [cacheCreate EXCEPT ![s] = @ + PromptTokensIn(s, new)]
  BY DEF IInv, Compute, Commit, seqVars
<1>2. ASSUME NEW i \in new
      PROVE  /\ i \in Nat /\ i \in 1..Len(table[s])
             /\ i * BlockSize \in Nat /\ i * BlockSize <= u /\ i * BlockSize <= Len(tokens[s])
             /\ table[s][i] \in Blocks /\ table[s][i] \in BlocksOf(s)
             /\ key[table[s][i]] = NoKey
             /\ Key(s, i) \in Keys /\ Key(s, i) # NoKey /\ Key(s, i) \notin DOMAIN hashToBlock
  <2>1. i \in 1..Len(table[s]) /\ i * BlockSize <= u
    BY DEF Fresh, FullBlocks
  <2>2. i \in Nat /\ i * BlockSize \in Nat
    BY <1>1, <2>1, BlocksOfType, TimesBlockSize
  <2>3. i * BlockSize <= Len(tokens[s])
    <3>1. Len(tokens[s]) \in Nat
      BY <1>1, LenProperties DEF TypeOK
    <3> QED
      BY <1>1, <2>1, <2>2, <3>1
  <2>4. TypeOK
    BY <1>1
  <2>5. Key(s, i) \in Keys
    BY <2>2, <2>3, <2>4, KeyType
  <2>6. Key(s, i) # NoKey
    BY <2>5, NoKeyAssumption
  <2>7. table[s][i] \in Blocks /\ table[s][i] \in BlocksOf(s)
    BY <2>1, <2>4, BlocksOfType
  <2>8. key[table[s][i]] = NoKey /\ Key(s, i) \notin DOMAIN hashToBlock
    BY DEF Fresh
  <2> QED
    BY <2>1, <2>2, <2>3, <2>5, <2>6, <2>7, <2>8
<1>3. ASSUME NEW i \in new, NEW j \in new
      PROVE  /\ table[s][i] = table[s][j] => i = j
             /\ Key(s, i) = Key(s, j) => i = j
  BY <1>1, <1>2, KeyInjective DEF IInv, RefCountsExact
<1>4. \A i \in new : slot(table[s][i]) = i /\ home(Key(s, i)) = i
  BY <1>3
<1>5. /\ fresh \subseteq Blocks /\ fresh \subseteq BlocksOf(s)
      /\ \A b \in fresh : key[b] = NoKey
      /\ \A b \in Blocks \ fresh : key'[b] = key[b]
      /\ \A i \in new : key'[table[s][i]] = Key(s, i)
  <2>1. /\ fresh \subseteq Blocks /\ fresh \subseteq BlocksOf(s)
        /\ \A b \in fresh : key[b] = NoKey
    BY <1>2
  <2>2. /\ \A b \in Blocks \ fresh : key'[b] = key[b]
        /\ \A b \in fresh : key'[b] = Key(s, slot(b))
    <3> HIDE DEF slot
    <3> QED
      BY <1>1, <2>1
  <2>3. ASSUME NEW i \in new PROVE key'[table[s][i]] = Key(s, i)
    <3>1. table[s][i] \in fresh /\ slot(table[s][i]) = i
      BY <1>4
    <3> HIDE DEF slot, fresh
    <3> QED
      BY <2>2, <3>1
  <2> QED
    BY <2>1, <2>2, <2>3
<1>6. \A b \in fresh : b \in Blocks /\ b \notin free /\ b \notin cached /\ ref[b] > 0
  BY <1>5, RefMeaning
<1>7. /\ \A k \in DOMAIN hashToBlock : k \in DOMAIN hashToBlock' /\ hashToBlock'[k] = hashToBlock[k]
      /\ \A i \in new : Key(s, i) \in DOMAIN hashToBlock' /\ hashToBlock'[Key(s, i)] = table[s][i]
  <2>1. \A i \in new : home(Key(s, i)) = i
    BY <1>4
  <2> HIDE DEF home
  <2> QED
    BY <1>1, <1>2, <2>1
<1>8. \A k \in DOMAIN hashToBlock' : k \in DOMAIN hashToBlock \/ \E i \in new : k = Key(s, i)
  BY <1>1
<1>9. TypeOK'
  <2>1. computed' \in [Seqs -> Nat] /\ cacheCreate' \in [Seqs -> Nat]
    BY <1>1, PromptTokensInNat DEF TypeOK
  <2>2. key' \in [Blocks -> Keys \cup {NoKey}]
    <3>1. \A b \in Blocks : key'[b] \in Keys \cup {NoKey}
      BY <1>1, <1>2, <1>5 DEF TypeOK
    <3> QED
      BY <1>1, <3>1
  <2>3. expiry' \in [Blocks -> {"none", "future", "past"}]
    BY <1>1 DEF TypeOK, Deadline
  <2>4. \A k \in DOMAIN hashToBlock' : k \in Keys /\ hashToBlock'[k] \in Blocks
    BY <1>1, <1>2, <1>7, <1>8 DEF TypeOK
  <2>5. DOMAIN hashToBlock' \subseteq Keys /\ hashToBlock' \in [DOMAIN hashToBlock' -> Blocks]
    BY <1>1, <2>4
  <2> QED
    BY <1>1, <2>1, <2>2, <2>3, <2>5 DEF TypeOK
<1>10. TargetWithin'
  BY <1>1 DEF IInv, TargetWithin
<1>11. PoolPartition'
  <2>1. \A b \in Blocks : ref[b] = 0 => key'[b] = key[b]
    BY <1>5, <1>6
  <2> QED
    BY <1>1, <2>1 DEF IInv, PoolPartition
<1>12. HashTableExact'
  <2>1. ASSUME NEW k \in DOMAIN hashToBlock' PROVE key'[hashToBlock'[k]] = k
    <3>1. CASE k \in DOMAIN hashToBlock
      <4>1. hashToBlock[k] \in Blocks /\ key[hashToBlock[k]] = k /\ k # NoKey
        BY <1>1, <3>1, NoKeyAssumption DEF IInv, HashTableExact, TypeOK
      <4> QED
        BY <1>5, <1>7, <3>1, <4>1
    <3>2. CASE \E i \in new : k = Key(s, i)
      BY <1>5, <1>7, <3>2
    <3> QED
      BY <1>8, <3>1, <3>2
  <2>2. ASSUME NEW b \in Blocks, key'[b] # NoKey
        PROVE  key'[b] \in DOMAIN hashToBlock' /\ hashToBlock'[key'[b]] = b
    <3>1. CASE b \in fresh
      BY <1>5, <1>7, <3>1
    <3>2. CASE b \notin fresh
      <4>1. key'[b] = key[b]
        BY <1>5, <3>2
      <4>2. key[b] \in DOMAIN hashToBlock /\ hashToBlock[key[b]] = b
        BY <2>2, <4>1 DEF IInv, HashTableExact
      <4> QED
        BY <1>7, <4>1, <4>2
    <3> QED
      BY <3>1, <3>2
  <2> QED
    BY <2>1, <2>2 DEF HashTableExact
<1>13. RefCountsExact'
  BY <1>1, SameTables DEF IInv
<1>14. PrefixIntegrity'
  <2> SUFFICES ASSUME NEW v \in Seqs
               PROVE  /\ computed'[v] <= Len(tokens'[v])
                      /\ computed'[v] <= Len(table'[v]) * BlockSize
                      /\ \A i \in 1..Len(table'[v]) : key'[table'[v][i]] # NoKey =>
                           /\ i * BlockSize <= computed'[v]
                           /\ key'[table'[v][i]] = Key(v, i)'
    BY DEF PrefixIntegrity
  <2>1. \A i : Key(v, i)' = Key(v, i)
    BY <1>1 DEF Key
  <2>2. computed'[v] = IF v = s THEN u ELSE computed[v]
    BY <1>1 DEF TypeOK
  <2>3. computed'[v] <= Len(tokens'[v]) /\ computed'[v] <= Len(table'[v]) * BlockSize
    BY <1>1, <2>2 DEF IInv, PrefixIntegrity
  <2>4. ASSUME NEW i \in 1..Len(table[v]), key'[table[v][i]] # NoKey
        PROVE  i * BlockSize <= computed'[v] /\ key'[table[v][i]] = Key(v, i)
    <3>1. table[v][i] \in Blocks /\ table[v][i] \in BlocksOf(v)
      BY <1>1, BlocksOfType
    <3>2. CASE table[v][i] \in fresh
      <4>1. v = s
        BY <1>5, <3>1, <3>2 DEF IInv, OneWriter
      <4>2. PICK j \in new : table[s][j] = table[v][i]
        BY <3>2
      <4>3. i = j
        BY <1>2, <4>1, <4>2 DEF IInv, RefCountsExact
      <4> QED
        BY <1>2, <1>5, <2>2, <4>1, <4>2, <4>3
    <3>3. CASE table[v][i] \notin fresh
      <4>1. key'[table[v][i]] = key[table[v][i]]
        BY <1>5, <3>1, <3>3
      <4>2. i * BlockSize <= computed[v] /\ key[table[v][i]] = Key(v, i)
        BY <2>4, <4>1 DEF IInv, PrefixIntegrity
      <4>3. computed[v] \in Nat /\ i \in Nat
        BY <1>1, BlocksOfType DEF TypeOK
      <4>4. i * BlockSize \in Nat
        BY <4>3, TimesBlockSize
      <4>5. computed[v] <= computed'[v]
        BY <1>1, <2>2, <4>3
      <4>6. i * BlockSize <= computed'[v]
        BY <2>2, <4>2, <4>3, <4>4, <4>5
      <4> QED
        BY <4>1, <4>2, <4>6
    <3> QED
      BY <3>2, <3>3
  <2> QED
    BY <1>1, <2>1, <2>3, <2>4
<1>15. OneWriter'
  <2>1. \A b \in Blocks : key[b] # NoKey => key'[b] # NoKey
    BY <1>5
  <2>2. \A v \in Seqs : BlocksOf(v)' = BlocksOf(v) /\ BlocksOf(v) \subseteq Blocks
    BY <1>1, SameTables, BlocksOfType
  <2> QED
    BY <2>1, <2>2 DEF IInv, OneWriter
<1>16. Publishes(s, fresh)
  <2>1. \A b \in fresh : CacheOn(s)
    BY DEF Fresh
  <2> HIDE DEF fresh
  <2> QED
    BY <1>1, <1>5, <2>1 DEF Publishes
<1>17. QED
  <2> HIDE DEF fresh
  <2> QED
    BY <1>5, <1>9, <1>10, <1>11, <1>12, <1>13, <1>14, <1>15, <1>16 DEF IInv

(* What deallocate does, without the quotas: of the blocks that were held  *)
(* by s alone and of the cached ones, those in `lost' are freed and the    *)
(* others, which all have a content hash, are cached.                      *)
Released(s, gone, stay, lost) ==
  /\ gone = {b \in BlocksOf(s) : ref[b] = 1}
  /\ stay \subseteq {b \in cached \cup gone : key[b] # NoKey}
  /\ lost = (cached \cup gone) \ stay
  /\ table' = [table EXCEPT ![s] = << >>]
  /\ computed' = [computed EXCEPT ![s] = 0]
  /\ cacheRead' = [cacheRead EXCEPT ![s] = 0]
  /\ cacheCreate' = [cacheCreate EXCEPT ![s] = 0]
  /\ free' = free \cup lost
  /\ cached' = stay
  /\ used' = used \ gone
  /\ older' \subseteq stay \X stay
  /\ ref' = [b \in Blocks |-> IF b \in BlocksOf(s) THEN ref[b] - 1 ELSE ref[b]]
  /\ key' = KeyWithout(lost)
  /\ expiry' = ExpiryWithout(lost)
  /\ hashToBlock' = HashWithout(lost)

(* Whatever the quotas evict, deallocate has the form above.               *)
LEMMA DeallocateReleases ==
  ASSUME IInv, NEW s \in Seqs, Deallocate(s)
  PROVE  \E gone, stay, lost \in SUBSET Blocks : Released(s, gone, stay, lost)
<1> DEFINE gone == {b \in BlocksOf(s) : ref[b] = 1}
           kept == {b \in gone : EnablePrefixCache /\ key[b] # NoKey}
           order == older \cup (cached \X kept)
                      \cup {e \in kept \X kept : \E i, j \in 1..Len(table[s]) :
                              j > i /\ e = <<table[s][j], table[s][i]>>}
           inNs == UNION {Youngest(MaxCachedPerNs,
                                   {b \in cached \cup kept : NamespaceOf(b) = n}, order)
                            : n \in Namespaces}
           stay == Youngest(MaxCached, inNs, order)
           lost == (cached \cup gone) \ stay
<1>1. gone \subseteq Blocks /\ cached \subseteq Blocks
  BY BlocksOfType DEF IInv, TypeOK
<1>2. \A b \in cached : key[b] # NoKey
  BY DEF IInv, PoolPartition
<1>3. inNs \subseteq cached \cup kept
  <2> HIDE DEF kept, order
  <2> QED
    BY DEF Youngest
<1>4. stay \subseteq inNs
  <2> HIDE DEF inNs, order
  <2> QED
    BY DEF Youngest
<1>5. stay \subseteq {b \in cached \cup gone : key[b] # NoKey}
  <2>1. kept \subseteq {b \in gone : key[b] # NoKey}
    OBVIOUS
  <2> HIDE DEF stay, inNs, kept, gone
  <2> QED
    BY <1>2, <1>3, <1>4, <2>1
<1>6. Released(s, gone, stay, lost)
  <2>1. /\ table' = [table EXCEPT ![s] = << >>]
        /\ computed' = [computed EXCEPT ![s] = 0]
        /\ cacheRead' = [cacheRead EXCEPT ![s] = 0]
        /\ cacheCreate' = [cacheCreate EXCEPT ![s] = 0]
        /\ free' = free \cup lost
        /\ cached' = stay
        /\ used' = used \ gone
        /\ older' = order \cap (stay \X stay)
        /\ ref' = [b \in Blocks |-> IF b \in BlocksOf(s) THEN ref[b] - 1 ELSE ref[b]]
        /\ key' = KeyWithout(lost)
        /\ expiry' = ExpiryWithout(lost)
        /\ hashToBlock' = HashWithout(lost)
    BY Zenon DEF Deallocate
  <2>2. older' \subseteq stay \X stay
    <3> HIDE DEF stay, order
    <3> QED
      BY <2>1
  <2>3. gone = {b \in BlocksOf(s) : ref[b] = 1} /\ lost = (cached \cup gone) \ stay
    OBVIOUS
  <2> HIDE DEF lost, stay, gone, order
  <2> QED
    BY <1>5, <2>1, <2>2, <2>3, Zenon DEF Released
<1>7. gone \in SUBSET Blocks /\ stay \in SUBSET Blocks /\ lost \in SUBSET Blocks
  <2> HIDE DEF stay
  <2> QED
    BY <1>1, <1>5
<1>8. QED
  <2> HIDE DEF gone, stay, lost
  <2> QED
    BY <1>6, <1>7

(* Letting go of a table frees or caches just the blocks nobody else       *)
(* holds.                                                                  *)
LEMMA DeallocateKeepsIInv ==
  ASSUME IInv, NEW s \in Seqs, Deallocate(s), tokens' = tokens,
         target' \in [Seqs -> Nat], TargetWithin'
  PROVE  IInv'
<1>1. PICK gone \in SUBSET Blocks, stay \in SUBSET Blocks, lost \in SUBSET Blocks :
        Released(s, gone, stay, lost)
  BY DeallocateReleases
<1>2. TypeOK
  BY DEF IInv
<1>3. /\ table'[s] = << >> /\ Len(table'[s]) = 0 /\ computed'[s] = 0
      /\ \A u \in Seqs : u # s => table'[u] = table[u] /\ computed'[u] = computed[u]
  BY <1>1, <1>2 DEF Released, TypeOK
<1>4. BlocksOf(s)' = {} /\ \A u \in Seqs : u # s => BlocksOf(u)' = BlocksOf(u)
  BY <1>3 DEF BlocksOf
<1>5. \A b \in BlocksOf(s) : b \in Blocks /\ ref[b] \in Nat /\ ref[b] >= 1
  BY <1>2, BlocksOfType, RefMeaning
<1>6. /\ \A b \in Blocks : ref'[b] = IF b \in BlocksOf(s) THEN ref[b] - 1 ELSE ref[b]
      /\ \A b \in Blocks : key'[b] = IF b \in lost THEN NoKey ELSE key[b]
  BY <1>1 DEF Released, KeyWithout
<1>7. \A u \in Seqs : u # s => \A b \in BlocksOf(u) : b \in Blocks /\ b \notin lost /\ key'[b] = key[b]
  <2> SUFFICES ASSUME NEW u \in Seqs, u # s, NEW b \in BlocksOf(u)
               PROVE  b \in Blocks /\ b \notin lost
    BY <1>6
  <2>1. b \in Blocks /\ b \notin cached
    BY <1>2, BlocksOfType, RefMeaning
  <2>2. b \notin gone
    BY <1>1, <2>1, RefMeaning DEF Released
  <2> QED
    BY <1>1, <2>1, <2>2 DEF Released
<1>8. TypeOK'
  <2>1. table' \in [Seqs -> Seq(Blocks)] /\ computed' \in [Seqs -> Nat]
        /\ cacheRead' \in [Seqs -> Nat] /\ cacheCreate' \in [Seqs -> Nat]
    BY <1>1, <1>2 DEF Released, TypeOK
  <2>2. free' \in SUBSET Blocks /\ cached' \in SUBSET Blocks /\ used' \in SUBSET Blocks
        /\ older' \in SUBSET (Blocks \X Blocks)
    BY <1>1, <1>2 DEF Released, TypeOK
  <2>3. ref' \in [Blocks -> Nat]
    <3>1. \A b \in Blocks : ref'[b] \in Nat
      <4>1. \A b \in Blocks : ref[b] \in Nat
        BY <1>2 DEF TypeOK
      <4>2. \A b \in Blocks : b \in BlocksOf(s) => ref[b] - 1 \in Nat
        BY <1>5
      <4> QED
        BY <1>6, <4>1, <4>2
    <3> QED
      BY <1>1, <3>1 DEF Released
  <2>4. /\ key' \in [Blocks -> Keys \cup {NoKey}]
        /\ expiry' \in [Blocks -> {"none", "future", "past"}]
        /\ DOMAIN hashToBlock' \subseteq Keys
        /\ hashToBlock' \in [DOMAIN hashToBlock' -> Blocks]
    BY <1>1, WithoutType DEF Released, IInv
  <2> QED
    BY <1>2, <2>1, <2>2, <2>3, <2>4 DEF TypeOK
<1>9. PoolPartition'
  <2>1. ASSUME NEW b \in Blocks
        PROVE  /\ b \in free' <=> ref'[b] = 0 /\ key'[b] = NoKey
               /\ b \in cached' <=> ref'[b] = 0 /\ key'[b] # NoKey
               /\ b \in used' <=> ref'[b] > 0
    <3>1. /\ b \in free <=> ref[b] = 0 /\ key[b] = NoKey
          /\ b \in cached <=> ref[b] = 0 /\ key[b] # NoKey
          /\ b \in used <=> ref[b] > 0
          /\ ref[b] \in Nat
      BY DEF IInv, PoolPartition, TypeOK
    <3>2. /\ b \in free' <=> b \in free \/ b \in lost
          /\ b \in cached' <=> b \in stay
          /\ b \in used' <=> b \in used /\ b \notin gone
          /\ b \in lost <=> (b \in cached \/ b \in gone) /\ b \notin stay
          /\ b \in stay => (b \in cached \/ b \in gone) /\ key[b] # NoKey
          /\ b \in gone <=> b \in BlocksOf(s) /\ ref[b] = 1
      BY <1>1 DEF Released
    <3>3. CASE b \in gone
      BY <1>5, <1>6, <3>1, <3>2, <3>3
    <3>4. CASE b \in BlocksOf(s) /\ b \notin gone
      BY <1>5, <1>6, <3>1, <3>2, <3>4
    <3>5. CASE b \notin BlocksOf(s)
      BY <1>6, <3>1, <3>2, <3>5
    <3> QED
      BY <3>3, <3>4, <3>5
  <2>2. free' \subseteq Blocks /\ cached' \subseteq Blocks /\ used' \subseteq Blocks
    BY <1>8 DEF TypeOK
  <2> QED
    BY <2>1, <2>2 DEF PoolPartition
<1>10. HashTableExact'
  BY <1>1, WithoutKeepsExact DEF Released, IInv
<1>11. RefCountsExact'
  <2>1. ASSUME NEW u \in Seqs, NEW i \in 1..Len(table'[u]), NEW j \in 1..Len(table'[u]),
               table'[u][i] = table'[u][j]
        PROVE  i = j
    <3>1. CASE u # s
      BY <1>3, <2>1, <3>1 DEF IInv, RefCountsExact
    <3>2. CASE u = s
      BY <1>3, <3>2
    <3> QED
      BY <3>1, <3>2
  <2>2. ASSUME NEW b \in Blocks PROVE ref'[b] = Cardinality(Holders(b)')
    <3>1. Holders(b)' = Holders(b) \ {s}
      BY <1>4 DEF Holders
    <3>2. IsFiniteSet(Holders(b)) /\ ref[b] = Cardinality(Holders(b))
      BY HoldersFinite DEF IInv, RefCountsExact
    <3>3. s \in Holders(b) <=> b \in BlocksOf(s)
      BY DEF Holders
    <3>4. Cardinality(Holders(b) \ {s})
            = IF s \in Holders(b) THEN Cardinality(Holders(b)) - 1 ELSE Cardinality(Holders(b))
      BY <3>2, FS_RemoveElement
    <3>5. ref'[b] = IF b \in BlocksOf(s) THEN ref[b] - 1 ELSE ref[b]
      BY <1>6
    <3> QED
      BY <3>1, <3>2, <3>3, <3>4, <3>5
  <2> QED
    BY <2>1, <2>2 DEF RefCountsExact
<1>12. PrefixIntegrity'
  <2> SUFFICES ASSUME NEW u \in Seqs
               PROVE  /\ computed'[u] <= Len(tokens'[u])
                      /\ computed'[u] <= Len(table'[u]) * BlockSize
                      /\ \A i \in 1..Len(table'[u]) : key'[table'[u][i]] # NoKey =>
                           /\ i * BlockSize <= computed'[u]
                           /\ key'[table'[u][i]] = Key(u, i)'
    BY DEF PrefixIntegrity
  <2>1. CASE u # s
    <3>1. \A i : Key(u, i)' = Key(u, i)
      BY DEF Key
    <3>2. \A i \in 1..Len(table[u]) : key'[table[u][i]] = key[table[u][i]]
      BY <1>2, <1>7, <2>1, BlocksOfType
    <3> QED
      BY <1>3, <2>1, <3>1, <3>2 DEF IInv, PrefixIntegrity
  <2>2. CASE u = s
    <3>1. Len(tokens[s]) \in Nat
      BY <1>2, LenProperties DEF TypeOK
    <3> QED
      BY <1>3, <2>2, <3>1, SizeAssumption
  <2> QED
    BY <2>1, <2>2
<1>13. OneWriter'
  BY <1>4, <1>7 DEF IInv, OneWriter
<1>14. QED
  BY <1>8, <1>9, <1>10, <1>11, <1>12, <1>13 DEF IInv

-----------------------------------------------------------------------------

(* No block is held or published at the start.                             *)
LEMMA IInvInit == Init => IInv
<1> SUFFICES ASSUME Init PROVE IInv
  OBVIOUS
<1>1. \A s \in Seqs : Prompt[s] \in Seq(Tokens) /\ Len(Prompt[s]) \in Nat
  BY RequestAssumption, LenProperties
<1>2. TypeOK
  BY <1>1, RequestAssumption DEF Init, TypeOK
<1>3. TargetWithin
  BY <1>1 DEF Init, TargetWithin
<1>4. \A s \in Seqs : Len(table[s]) = 0 /\ BlocksOf(s) = {}
  BY DEF Init, BlocksOf
<1>5. PoolPartition /\ HashTableExact /\ OneWriter
  BY <1>4 DEF Init, PoolPartition, HashTableExact, OneWriter
<1>6. RefCountsExact
  <2>1. \A b \in Blocks : Holders(b) = {}
    BY <1>4 DEF Holders
  <2> QED
    <3>1. \A b \in Blocks : ref[b] = 0 /\ Cardinality(Holders(b)) = 0
      BY <2>1, FS_EmptySet DEF Init
    <3> QED
      BY <1>4, <3>1 DEF RefCountsExact
<1>7. PrefixIntegrity
  BY <1>1, <1>4, SizeAssumption DEF Init, PrefixIntegrity
<1>8. QED
  BY <1>2, <1>3, <1>5, <1>6, <1>7 DEF IInv

(* Every method, whoever calls it, keeps the invariant.                    *)
LEMMA NextKeepsIInv == IInv /\ [Next]_vars => IInv'
<1> SUFFICES ASSUME IInv, [Next]_vars PROVE IInv'
  OBVIOUS
<1>1. \A s \in Seqs : tokens[s] \in Seq(Tokens) /\ Len(tokens[s]) \in Nat
  BY LenProperties DEF IInv, TypeOK
<1>2. ASSUME NEW s \in Seqs, Match(s) PROVE IInv'
  BY <1>2, MatchKeepsIInv
<1>3. ASSUME NEW s \in Seqs, NEW n \in 1..Len(tokens[s]), Ensure(s, n) \/ Compute(s, n)
      PROVE  IInv'
  <2>1. n \in Nat
    BY <1>1
  <2> QED
    BY <1>3, <2>1, EnsureKeepsIInv, ComputeKeepsIInv
<1>4. ASSUME NEW s \in Seqs, NEW t \in Tokens, AppendToken(s, t) PROVE IInv'
  BY <1>4, AppendKeepsIInv
<1>5. ASSUME NEW s \in Seqs, Retire(s) PROVE IInv'
  <2>1. target' \in [Seqs -> Nat] /\ TargetWithin'
    BY <1>5 DEF Retire, seqVars, IInv, TypeOK, TargetWithin
  <2> QED
    BY <1>5, <2>1, DeallocateKeepsIInv DEF Retire, seqVars
<1>6. ASSUME NEW s \in Seqs, Preempt(s) PROVE IInv'
  <2>1. target' \in [Seqs -> Nat] /\ TargetWithin'
    BY <1>1, <1>6 DEF Preempt, IInv, TypeOK, TargetWithin
  <2> QED
    BY <1>6, <2>1, DeallocateKeepsIInv DEF Preempt
<1>7. ASSUME NEW s \in Seqs, Renew(s) PROVE IInv'
  BY <1>7, RenewKeepsIInv
<1>8. ASSUME PurgeAction PROVE IInv'
  <2>1. PICK P \in SUBSET cached : Purge(P)
    BY <1>8 DEF PurgeAction, PurgeExpired, PurgeCachedBlocks, PurgeExpiredCachedBlocks, Expired
  <2> QED
    BY <1>8, <2>1, PurgeKeepsIInv DEF PurgeAction
<1>9. ASSUME NEW b \in Blocks, Expire(b) PROVE IInv'
  BY <1>9, ExpireKeepsIInv
<1>10. CASE UNCHANGED vars
  BY <1>10, StutterKeepsIInv
<1>11. QED
  BY <1>2, <1>3, <1>4, <1>5, <1>6, <1>7, <1>8, <1>9, <1>10 DEF Next

(* The invariant holds of every reachable state.                           *)
THEOREM Invariance == Spec => []IInv
BY IInvInit, NextKeepsIInv, PTL DEF Spec

(* The variables of the block manager and of the sequences keep their      *)
(* types; above all no reference count falls below zero.                   *)
THEOREM TypeCorrect == Spec => []TypeOK
<1>1. IInv => TypeOK
  BY DEF IInv
<1>2. QED
  BY <1>1, Invariance, PTL

(* No block leaks and none is handed out twice: the free, cached and used  *)
(* sets partition the pool.                                                *)
THEOREM PoolIsExact == Spec => []PoolPartition
<1>1. IInv => PoolPartition
  BY DEF IInv
<1>2. QED
  BY <1>1, Invariance, PTL

(* Every reference count is the number of block tables that hold the       *)
(* block, and no table holds it twice.                                     *)
THEOREM CountsAreExact == Spec => []RefCountsExact
<1>1. IInv => RefCountsExact
  BY DEF IInv
<1>2. QED
  BY <1>1, Invariance, PTL

(* hash_to_block_id always finds the one block that holds a content.       *)
THEOREM LookupIsExact == Spec => []HashTableExact
<1>1. IInv => HashTableExact
  BY DEF IInv
<1>2. QED
  BY <1>1, Invariance, PTL

(* Every sequence reads its own prefix from its table, and a block that is *)
(* still being filled has one writer.                                      *)
THEOREM SharingIsSafe == Spec => [](PrefixIntegrity /\ OneWriter)
<1>1. IInv => PrefixIntegrity /\ OneWriter
  BY DEF IInv
<1>2. QED
  BY <1>1, Invariance, PTL

-----------------------------------------------------------------------------
(* Refinement of the abstract pool                                         *)

(* The abstract owners and labels, and how a method changes them.          *)
LEMMA OwnersAfter ==
  ASSUME NEW s \in Seqs, OthersKeepTheirs(s)
  PROVE  \A b \in Blocks :
           Holders(b)' = IF b \in BlocksOf(s)' THEN (Holders(b) \ {s}) \cup {s} ELSE Holders(b) \ {s}
BY DEF OthersKeepTheirs, Holders

(* The idle blocks of the abstract pool are those that no table holds.     *)
LEMMA IdleBlocks ==
  ASSUME IInv
  PROVE  /\ Pool!Idle = {b \in Blocks : Holders(b) = {}}
         /\ cached \subseteq Pool!Idle /\ Expired \subseteq Pool!Idle
<1>1. Pool!Idle = {b \in Blocks : Holders(b) = {}}
  BY DEF Pool!Idle
<1>2. \A b \in cached : b \in Blocks /\ Holders(b) = {}
  BY RefMeaning DEF IInv, TypeOK, Holders
<1>3. QED
  BY <1>1, <1>2 DEF Expired

(* A lookup that attaches blocks is a Share of the abstract pool.          *)
LEMMA MatchShares ==
  ASSUME IInv, NEW s \in Seqs, NEW B \in SUBSET Blocks, Attaches(s, B)
  PROVE  Pool!Share(s, B)
<1>1. Pool!Owned(s) = {}
  BY DEF Pool!Owned, Holders, Attaches
<1>2. Expired \in SUBSET (Pool!Idle \ B)
  BY IdleBlocks DEF Attaches
<1>3. \A b \in B : key[b] # NoKey
  BY DEF Attaches
<1>4. \A b \in Blocks : Holders(b)' = IF b \in B THEN Holders(b) \cup {s} ELSE Holders(b)
  BY OwnersAfter DEF Attaches, Holders
<1>5. [b \in Blocks |-> Holders(b)]' =
        [b \in Blocks |-> IF b \in B THEN [c \in Blocks |-> Holders(c)][b] \cup {s}
                                       ELSE [c \in Blocks |-> Holders(c)][b]]
  BY <1>4
<1>6. key' = Pool!LabelWithout(Expired)
  BY DEF Attaches, KeyWithout, Pool!LabelWithout
<1>7. QED
  BY <1>1, <1>2, <1>3, <1>5, <1>6 DEF Pool!Share

(* An allocation is an Acquire.                                            *)
LEMMA EnsureAcquires ==
  ASSUME IInv, NEW s \in Seqs, NEW B \in SUBSET Blocks, Takes(s, B)
  PROVE  B \in SUBSET Pool!Idle /\ Pool!Acquire(s, B)
<1>1. B \in SUBSET Pool!Idle /\ Expired \in SUBSET Pool!Idle
  BY IdleBlocks DEF Takes, Holders
<1>2. \A b \in Blocks : Holders(b)' = IF b \in B THEN {s} ELSE Holders(b)
  BY OwnersAfter DEF Takes, Holders
<1>3. [b \in Blocks |-> Holders(b)]' =
        [b \in Blocks |-> IF b \in B THEN {s} ELSE [c \in Blocks |-> Holders(c)][b]]
  BY <1>2
<1>4. key' = Pool!LabelWithout(B \cup Expired)
  BY DEF Takes, KeyWithout, Pool!LabelWithout
<1>5. QED
  BY <1>1, <1>3, <1>4 DEF Pool!Acquire

(* A commit is a Publish: nobody else holds the blocks it publishes, and   *)
(* no other block has their content.                                       *)
LEMMA ComputePublishes ==
  ASSUME IInv, IInv', NEW s \in Seqs, NEW B \in SUBSET Blocks, Publishes(s, B)
  PROVE  Pool!Publish(s)
<1>1. \A b \in Blocks : Holders(b)' = Holders(b)
  BY SameTables DEF Publishes
<1>2. [b \in Blocks |-> Holders(b)]' = [b \in Blocks |-> Holders(b)]
  BY <1>1
<1>3. key' \in [Blocks -> Keys \cup {NoKey}]
  BY DEF IInv, TypeOK
<1>4. ASSUME NEW b \in Blocks, key'[b] # key[b]
      PROVE  Holders(b) = {s} /\ key[b] = NoKey /\ \A c \in Blocks \ {b} : key'[c] # key'[b]
  <2>1. b \in BlocksOf(s) /\ key[b] = NoKey
    BY <1>4 DEF Publishes
  <2>2. Holders(b) = {s}
    BY <2>1 DEF IInv, OneWriter, Holders
  <2>3. key'[b] # NoKey
    BY <1>4, <2>1
  <2>4. \A c \in Blocks \ {b} : key'[c] # key'[b]
    BY <2>3 DEF IInv, HashTableExact
  <2> QED
    BY <2>1, <2>2, <2>4
<1>5. QED
  BY <1>2, <1>3, <1>4 DEF Pool!Publish

(* Giving a table back is a Release.                                       *)
LEMMA DeallocatePoolStep ==
  ASSUME IInv, NEW s \in Seqs, Deallocate(s)
  PROVE  Pool!Release(s)
<1>1. PICK gone \in SUBSET Blocks, stay \in SUBSET Blocks, lost \in SUBSET Blocks :
        Released(s, gone, stay, lost)
  BY DeallocateReleases
<1>2. BlocksOf(s)' = {} /\ OthersKeepTheirs(s)
  BY <1>1 DEF Released, BlocksOf, OthersKeepTheirs, IInv, TypeOK
<1>3. \A b \in Blocks : Holders(b)' = Holders(b) \ {s}
  BY <1>2, OwnersAfter
<1>4. [b \in Blocks |-> Holders(b)]' = [b \in Blocks |-> [c \in Blocks |-> Holders(c)][b] \ {s}]
  BY <1>3
<1>5. ASSUME NEW b \in lost PROVE Holders(b)' = {}
  <2>1. CASE b \in cached
    BY <1>3, <2>1, IdleBlocks
  <2>2. CASE b \in gone
    <3>1. b \in BlocksOf(s) /\ ref[b] = 1
      BY <1>1, <2>2 DEF Released
    <3>2. \A t \in Seqs : b \in BlocksOf(t) => t = s
      BY <3>1, RefMeaning
    <3> QED
      BY <1>3, <3>2 DEF Holders
  <2> QED
    BY <1>1, <2>1, <2>2 DEF Released
<1>6. \A b \in lost : [c \in Blocks |-> Holders(c)]'[b] = {}
  BY <1>5
<1>7. key' = Pool!LabelWithout(lost)
  BY <1>1 DEF Released, KeyWithout, Pool!LabelWithout
<1>8. QED
  BY <1>4, <1>6, <1>7 DEF Pool!Release

(* A purge is a Reclaim.                                                   *)
LEMMA PurgeReclaims ==
  ASSUME IInv, NEW P \in SUBSET cached, Purge(P)
  PROVE  Pool!Reclaim
<1>1. P \in SUBSET Pool!Idle
  BY IdleBlocks DEF IInv, TypeOK
<1>2. \A b \in Blocks : Holders(b)' = Holders(b)
  BY SameTables DEF Purge, useVars
<1>3. [b \in Blocks |-> Holders(b)]' = [b \in Blocks |-> Holders(b)]
  BY <1>2
<1>4. key' = Pool!LabelWithout(P)
  BY DEF Purge, KeyWithout, Pool!LabelWithout
<1>5. QED
  BY <1>1, <1>3, <1>4 DEF Pool!Reclaim

(* The empty cache is the initial abstract pool.                           *)
LEMMA InitRefines == Init => Pool!Init
<1> SUFFICES ASSUME Init PROVE Pool!Init
  OBVIOUS
<1>1. \A b \in Blocks : Holders(b) = {}
  BY DEF Init, Holders, BlocksOf
<1>2. QED
  BY <1>1 DEF Init, Pool!Init

(* Every method is one step of the abstract pool, or none.                 *)
LEMMA NextRefines == IInv /\ IInv' /\ [Next]_vars => [Pool!Next]_Pool!vars
<1> SUFFICES ASSUME IInv, IInv', [Next]_vars PROVE Pool!Next \/ UNCHANGED Pool!vars
  OBVIOUS
<1>1. ASSUME table' = table, key' = key PROVE UNCHANGED Pool!vars
  <2>1. \A b \in Blocks : Holders(b)' = Holders(b)
    BY <1>1, SameTables
  <2> QED
    BY <1>1, <2>1 DEF Pool!vars
<1>2. CASE UNCHANGED vars
  BY <1>1, <1>2 DEF vars, useVars, poolVars
<1>3. ASSUME NEW s \in Seqs, Match(s) PROVE Pool!Next \/ UNCHANGED Pool!vars
  <2>1. UNCHANGED vars \/ \E B \in SUBSET Blocks : Attaches(s, B)
    BY <1>3, MatchKeepsIInv
  <2>2. ASSUME NEW B \in SUBSET Blocks, Attaches(s, B) PROVE Pool!Next
    BY <2>2, MatchShares DEF Pool!Next
  <2> QED
    BY <1>2, <2>1, <2>2
<1>4. ASSUME NEW s \in Seqs, NEW n \in 1..Len(tokens[s]), Ensure(s, n)
      PROVE  Pool!Next \/ UNCHANGED Pool!vars
  <2>1. n \in Nat
    BY LenProperties DEF IInv, TypeOK
  <2>2. UNCHANGED vars \/ \E B \in SUBSET Blocks : Takes(s, B)
    BY <1>4, <2>1, EnsureKeepsIInv
  <2>3. ASSUME NEW B \in SUBSET Blocks, Takes(s, B) PROVE Pool!Next
    BY <2>3, EnsureAcquires DEF Pool!Next
  <2> QED
    BY <1>2, <2>2, <2>3
<1>5. ASSUME NEW s \in Seqs, NEW n \in 1..Len(tokens[s]), Compute(s, n) PROVE Pool!Next
  <2>1. n \in Nat
    BY LenProperties DEF IInv, TypeOK
  <2>2. PICK B \in SUBSET Blocks : Publishes(s, B)
    BY <1>5, <2>1, ComputeKeepsIInv
  <2>3. Pool!Publish(s)
    BY <2>2, ComputePublishes
  <2> QED
    BY <2>3 DEF Pool!Next
<1>6. ASSUME NEW s \in Seqs, Deallocate(s) PROVE Pool!Next
  BY <1>6, DeallocatePoolStep DEF Pool!Next
<1>7. ASSUME NEW s \in Seqs, NEW t \in Tokens, AppendToken(s, t) PROVE UNCHANGED Pool!vars
  BY <1>1, <1>7 DEF AppendToken, bmVars, useVars, poolVars
<1>8. ASSUME NEW s \in Seqs, Renew(s) PROVE UNCHANGED Pool!vars
  BY <1>1, <1>8 DEF Renew, bmVars, useVars, poolVars
<1>9. ASSUME PurgeAction PROVE Pool!Next
  <2>1. PICK P \in SUBSET cached : Purge(P)
    BY <1>9 DEF PurgeAction, PurgeExpired, PurgeCachedBlocks, PurgeExpiredCachedBlocks, Expired
  <2> QED
    BY <2>1, PurgeReclaims DEF Pool!Next
<1>10. ASSUME NEW b \in Blocks, Expire(b) PROVE UNCHANGED Pool!vars
  BY <1>1, <1>10 DEF Expire, useVars
<1>11. QED
  BY <1>2, <1>3, <1>4, <1>5, <1>6, <1>7, <1>8, <1>9, <1>10 DEF Next, Retire, Preempt

(* The block manager implements the abstract pool: a block has one writer  *)
(* until it is published, and is recycled only when nobody holds it.       *)
THEOREM Refinement == Spec => ImplementsPool
<1>1. Spec => Pool!Init /\ [][Pool!Next]_Pool!vars
  BY InitRefines, NextRefines, Invariance, PTL DEF Spec
<1>2. QED
  BY <1>1 DEF ImplementsPool, Pool!Spec

-----------------------------------------------------------------------------

(* An expired idle block is purged by whoever finds it, never attached.    *)
THEOREM ExpiredStaysDead == Spec => ExpiredNeverRevived
<1> DEFINE NotRevived == \A b \in cached : expiry[b] = "past" /\ ref'[b] > 0 => key'[b] = NoKey
<1>1. IInv /\ IInv' /\ [Next]_vars => [NotRevived]_vars
  <2> SUFFICES ASSUME IInv, IInv', Next, NEW b \in cached, expiry[b] = "past", ref'[b] > 0
               PROVE  key'[b] = NoKey
    OBVIOUS
  <2>1. b \in Blocks /\ b \in Expired /\ \A u \in Seqs : b \notin BlocksOf(u)
    BY RefMeaning DEF Expired, IInv, TypeOK
  <2>2. ref[b] = 0
    BY <2>1 DEF IInv, PoolPartition
  <2>3. PICK v \in Seqs : b \in BlocksOf(v)'
    <3>1. ref'[b] = Cardinality(Holders(b)')
      BY <2>1 DEF IInv, RefCountsExact
    <3>2. Holders(b)' # {}
      BY <3>1, FS_EmptySet
    <3> QED
      BY <3>2 DEF Holders
  <2>4. ASSUME ref' = ref PROVE FALSE
    BY <2>2, <2>4
  <2>5. ASSUME NEW s \in Seqs, Match(s) PROVE key'[b] = NoKey
    <3>1. UNCHANGED vars \/ \E B \in SUBSET Blocks : Attaches(s, B)
      BY <2>5, MatchKeepsIInv
    <3>2. UNCHANGED vars => FALSE
      BY <2>4 DEF vars, poolVars
    <3>3. ASSUME NEW B \in SUBSET Blocks, Attaches(s, B) PROVE key'[b] = NoKey
      BY <2>1, <3>3 DEF Attaches, KeyWithout
    <3> QED
      BY <3>1, <3>2, <3>3
  <2>6. ASSUME NEW s \in Seqs, NEW n \in 1..Len(tokens[s]), Ensure(s, n) PROVE key'[b] = NoKey
    <3>1. n \in Nat
      BY LenProperties DEF IInv, TypeOK
    <3>2. UNCHANGED vars \/ \E B \in SUBSET Blocks : Takes(s, B)
      BY <2>6, <3>1, EnsureKeepsIInv
    <3>3. UNCHANGED vars => FALSE
      BY <2>4 DEF vars, poolVars
    <3>4. ASSUME NEW B \in SUBSET Blocks, Takes(s, B) PROVE key'[b] = NoKey
      BY <2>1, <3>4 DEF Takes, KeyWithout
    <3> QED
      BY <3>2, <3>3, <3>4
  <2>7. ASSUME NEW s \in Seqs, Deallocate(s) PROVE FALSE
    <3>1. PICK gone, stay, lost \in SUBSET Blocks : Released(s, gone, stay, lost)
      BY <2>7, DeallocateReleases
    <3>2. ref'[b] = ref[b]
      BY <2>1, <3>1 DEF Released
    <3> QED
      BY <2>2, <3>2
  <2>8. ASSUME NEW s \in Seqs, NEW n, NEW t, Compute(s, n) \/ AppendToken(s, t) \/ Renew(s)
        PROVE  FALSE
    BY <2>4, <2>8 DEF Compute, Commit, AppendToken, Renew, bmVars, poolVars
  <2>9. ASSUME PurgeAction PROVE FALSE
    BY <2>4, <2>9 DEF PurgeAction, PurgeExpired, PurgeCachedBlocks, PurgeExpiredCachedBlocks, Purge
  <2>10. ASSUME NEW c \in Blocks, Expire(c) PROVE FALSE
    BY <2>4, <2>10 DEF Expire
  <2>11. QED
    BY <2>5, <2>6, <2>7, <2>8, <2>9, <2>10 DEF Next, Retire, Preempt
<1>2. QED
  BY <1>1, Invariance, PTL DEF Spec, ExpiredNeverRevived

-----------------------------------------------------------------------------

(* A request with no-store has only blocks without a content hash.         *)
NoStore == \A s \in Seqs : ~CacheEnabled[s] => \A b \in BlocksOf(s) : key[b] = NoKey

(* No method gives a block of a no-store request a content hash.           *)
LEMMA NextKeepsNoStore == IInv /\ NoStore /\ [Next]_vars => NoStore'
<1> SUFFICES ASSUME IInv, NoStore, [Next]_vars,
                    NEW s \in Seqs, ~CacheEnabled[s], NEW b \in BlocksOf(s)'
             PROVE  key'[b] = NoKey
  BY DEF NoStore
<1>1. \A c \in BlocksOf(s) : c \in Blocks /\ key[c] = NoKey
  BY BlocksOfType DEF IInv, NoStore
<1>2. ASSUME table' = table, key' = key PROVE key'[b] = NoKey
  BY <1>1, <1>2, SameTables
<1>3. ASSUME NEW P, key' = KeyWithout(P), b \in BlocksOf(s) PROVE key'[b] = NoKey
  BY <1>1, <1>3 DEF KeyWithout
<1>4. CASE UNCHANGED vars
  BY <1>2, <1>4 DEF vars, useVars, poolVars
<1>5. ASSUME NEW v \in Seqs, Match(v) PROVE key'[b] = NoKey
  <2>1. UNCHANGED vars \/ \E B \in SUBSET Blocks : Attaches(v, B)
    BY <1>5, MatchKeepsIInv
  <2>2. ASSUME NEW B \in SUBSET Blocks, Attaches(v, B) PROVE key'[b] = NoKey
    <3>1. b \in BlocksOf(s) /\ key' = KeyWithout(Expired)
      BY <2>2 DEF Attaches, CacheOn, OthersKeepTheirs
    <3> QED
      BY <1>3, <3>1
  <2> QED
    BY <1>4, <2>1, <2>2
<1>6. ASSUME NEW v \in Seqs, NEW n \in 1..Len(tokens[v]), Ensure(v, n) PROVE key'[b] = NoKey
  <2>1. n \in Nat
    BY LenProperties DEF IInv, TypeOK
  <2>2. UNCHANGED vars \/ \E B \in SUBSET Blocks : Takes(v, B)
    BY <1>6, <2>1, EnsureKeepsIInv
  <2>3. ASSUME NEW B \in SUBSET Blocks, Takes(v, B) PROVE key'[b] = NoKey
    <3>1. CASE b \in B
      BY <2>3, <3>1 DEF Takes, KeyWithout
    <3>2. CASE b \notin B
      <4>1. b \in BlocksOf(s) /\ key' = KeyWithout(Expired \cup B)
        BY <2>3, <3>2 DEF Takes, OthersKeepTheirs
      <4> QED
        BY <1>3, <4>1
    <3> QED
      BY <3>1, <3>2
  <2> QED
    BY <1>4, <2>2, <2>3
<1>7. ASSUME NEW v \in Seqs, NEW n \in 1..Len(tokens[v]), Compute(v, n) PROVE key'[b] = NoKey
  <2>1. n \in Nat
    BY LenProperties DEF IInv, TypeOK
  <2>2. PICK B \in SUBSET Blocks : Publishes(v, B)
    BY <1>7, <2>1, ComputeKeepsIInv
  <2>3. b \in BlocksOf(s)
    BY <2>2, SameTables DEF Publishes
  <2>4. b \notin B
    BY <2>2, <2>3 DEF Publishes, CacheOn, IInv, OneWriter
  <2> QED
    BY <1>1, <2>2, <2>3, <2>4 DEF Publishes
<1>8. ASSUME NEW v \in Seqs, Deallocate(v) PROVE key'[b] = NoKey
  <2>1. PICK gone, stay, lost \in SUBSET Blocks : Released(v, gone, stay, lost)
    BY <1>8, DeallocateReleases
  <2>2. b \in BlocksOf(s)
    BY <2>1 DEF Released, BlocksOf, IInv, TypeOK
  <2> QED
    BY <1>3, <2>1, <2>2 DEF Released
<1>9. ASSUME NEW v \in Seqs, NEW t \in Tokens, AppendToken(v, t) PROVE key'[b] = NoKey
  BY <1>2, <1>9 DEF AppendToken, bmVars, useVars, poolVars
<1>10. ASSUME NEW v \in Seqs, Renew(v) PROVE key'[b] = NoKey
  BY <1>2, <1>10 DEF Renew, bmVars, useVars, poolVars
<1>11. ASSUME PurgeAction PROVE key'[b] = NoKey
  <2>1. PICK P \in SUBSET cached : Purge(P)
    BY <1>11 DEF PurgeAction, PurgeExpired, PurgeCachedBlocks, PurgeExpiredCachedBlocks, Expired
  <2>2. b \in BlocksOf(s)
    BY <2>1, SameTables DEF Purge, useVars
  <2> QED
    BY <1>3, <2>1, <2>2 DEF Purge
<1>12. ASSUME NEW c \in Blocks, Expire(c) PROVE key'[b] = NoKey
  BY <1>2, <1>12 DEF Expire, useVars
<1>13. QED
  BY <1>4, <1>5, <1>6, <1>7, <1>8, <1>9, <1>10, <1>11, <1>12 DEF Next, Retire, Preempt

(* Two requests share a block only inside a namespace, and a request that  *)
(* opted out of the cache shares none.                                     *)
THEOREM OptOutIsRespected == Spec => []SharingIsOptIn
<1>1. Init => NoStore
  BY DEF Init, NoStore, BlocksOf
<1>2. IInv /\ NoStore => SharingIsOptIn
  <2> SUFFICES ASSUME IInv, NoStore, NEW s \in Seqs, NEW b \in BlocksOf(s)
               PROVE  /\ ~CacheEnabled[s] => ref[b] = 1 /\ key[b] = NoKey
                      /\ \A t \in Seqs : b \in BlocksOf(t) => Namespace[s] = Namespace[t]
    BY DEF SharingIsOptIn
  <2>1. ASSUME ~CacheEnabled[s] PROVE ref[b] = 1 /\ key[b] = NoKey
    <3>1. b \in Blocks /\ key[b] = NoKey
      BY <2>1, BlocksOfType DEF IInv, NoStore
    <3>2. Holders(b) = {s}
      BY <3>1 DEF IInv, OneWriter, Holders
    <3> QED
      BY <3>1, <3>2, FS_Singleton DEF IInv, RefCountsExact
  <2>2. ASSUME NEW t \in Seqs, b \in BlocksOf(t), t # s PROVE Namespace[s] = Namespace[t]
    <3>1. key[b] # NoKey
      BY <2>2 DEF IInv, OneWriter
    <3>2. PICK i \in 1..Len(table[s]) : table[s][i] = b
      BY DEF BlocksOf
    <3>3. PICK j \in 1..Len(table[t]) : table[t][j] = b
      BY <2>2 DEF BlocksOf
    <3>4. key[b] = Key(s, i) /\ key[b] = Key(t, j)
      BY <3>1, <3>2, <3>3 DEF IInv, PrefixIntegrity
    <3> QED
      BY <3>4 DEF Key
  <2> QED
    BY <2>1, <2>2
<1>3. QED
  BY <1>1, <1>2, NextKeepsNoStore, Invariance, PTL DEF Spec

-----------------------------------------------------------------------------
(***************************************************************************)
(* What the prefix cache publishes and keeps                               *)
(*                                                                         *)
(* No request publishes a block beyond its cache breakpoints, and the      *)
(* usage it reports counts the prompt tokens in exactly the published      *)
(* blocks of its table, hence none of them twice.  The blocks of a request *)
(* are published in two ways, by a lookup that finds them and by a commit  *)
(* that gives them a content hash; everything else leaves the published    *)
(* ones as they are, because eviction and purges only take blocks that     *)
(* nobody holds, or lets go of the whole table.                            *)
(*                                                                         *)
(* The idle cache stays within both quotas.  Only deallocate adds to it.   *)
(* Evicting by age leaves no more than the quota because the ages are a    *)
(* strict total order of the idle blocks: two of them that are left have   *)
(* different numbers of younger ones beside them, all below the quota.     *)
(* That the order is total is an invariant of its own: deallocate puts the *)
(* blocks of a table, which holds none twice, above all others and in the  *)
(* order of their release.                                                 *)
(*                                                                         *)
(* The last section says what a call of a method gives its caller.         *)
(***************************************************************************)

(* The places in its table where s has a published block.                  *)
Published(s) == {i \in 1..Len(table[s]) : key[table[s][i]] # NoKey}

(* Position i of s lies before a breakpoint that its tokens have reached.  *)
WithinBreakpoints(s, i) ==
  Breakpoints[s] # {} => \E p \in Breakpoints[s] : i * BlockSize <= p /\ p <= Len(tokens[s])

(* What s is charged is the number of its prompt tokens in them.           *)
UsageExact(s) == cacheRead[s] + cacheCreate[s] = PromptTokensIn(s, Published(s))

(* What the theorems rest on, together with IInv.                          *)
PublishedInv ==
  \A s \in Seqs : UsageExact(s) /\ \A i \in Published(s) : WithinBreakpoints(s, i)

-----------------------------------------------------------------------------
(* What one step may do to the published blocks of a request               *)

(* It may keep them,                                                      *)
Keeps(s) ==
  /\ Published(s)' = Published(s)
  /\ cacheRead'[s] = cacheRead[s] /\ cacheCreate'[s] = cacheCreate[s]
  /\ Len(tokens[s]) <= Len(tokens'[s])

(* let go of the table,                                                    *)
LetsGo(s) ==
  /\ Published(s)' = {}
  /\ \/ cacheRead'[s] = 0 /\ cacheCreate'[s] = 0
     \/ /\ Published(s) = {}
        /\ cacheRead'[s] = cacheRead[s] /\ cacheCreate'[s] = cacheCreate[s]

(* find them in a lookup,                                                  *)
Finds(s) ==
  /\ \A i \in Published(s)' : i * BlockSize > 0 /\ Cacheable(s, i * BlockSize, target[s])
  /\ cacheRead'[s] = PromptTokensIn(s, Published(s)') /\ cacheCreate'[s] = 0
  /\ tokens' = tokens

(* or add to them those a commit publishes.                                *)
Commits(s, new) ==
  /\ Published(s)' = Published(s) \cup new
  /\ Published(s) \cap new = {}
  /\ \A i \in new : \E u \in Nat :
       u <= Len(tokens[s]) /\ i * BlockSize > 0 /\ Cacheable(s, i * BlockSize, u)
  /\ cacheRead'[s] = cacheRead[s]
  /\ cacheCreate'[s] = cacheCreate[s] + PromptTokensIn(s, new)
  /\ tokens' = tokens

-----------------------------------------------------------------------------
(* Counting prompt tokens                                                  *)

(* The sizes of disjoint finite sets add up.                               *)
LEMMA CardinalityAddsUp ==
  ASSUME NEW S, NEW T, IsFiniteSet(S), IsFiniteSet(T), S \cap T = {}
  PROVE  Cardinality(S \cup T) = Cardinality(S) + Cardinality(T)
<1>1. Cardinality(S) \in Nat /\ Cardinality(T) \in Nat
  BY FS_CardinalityType
<1>2. Cardinality(S \cup T) = Cardinality(S) + Cardinality(T) - Cardinality(S \cap T)
  BY FS_Union
<1>3. Cardinality(S \cap T) = 0
  BY FS_EmptySet
<1>4. QED
  BY <1>1, <1>2, <1>3

(* The tokens in two disjoint sets of blocks add up, there are none in no  *)
(* block, and never more than the prompt has.                              *)
LEMMA PromptTokensAddUp ==
  ASSUME NEW s \in Seqs, NEW I, NEW J, I \cap J = {}
  PROVE  /\ PromptTokensIn(s, I \cup J) = PromptTokensIn(s, I) + PromptTokensIn(s, J)
         /\ PromptTokensIn(s, {}) = 0
         /\ PromptTokensIn(s, I) <= Len(Prompt[s])
<1> DEFINE In(K) == {p \in 1..Len(Prompt[s]) : NumBlocksFor(p) \in K}
<1>1. Len(Prompt[s]) \in Nat
  BY RequestAssumption, LenProperties
<1>2. IsFiniteSet(1..Len(Prompt[s])) /\ Cardinality(1..Len(Prompt[s])) = Len(Prompt[s])
  BY <1>1, FS_Interval
<1>3. IsFiniteSet(In(I)) /\ IsFiniteSet(In(J)) /\ Cardinality(In(I)) <= Len(Prompt[s])
  <2>1. In(I) \in SUBSET (1..Len(Prompt[s])) /\ In(J) \in SUBSET (1..Len(Prompt[s]))
    OBVIOUS
  <2> HIDE DEF In
  <2> QED
    BY <1>2, <2>1, FS_Subset
<1>4. In(I \cup J) = In(I) \cup In(J) /\ In(I) \cap In(J) = {} /\ In({}) = {}
  OBVIOUS
<1>5. Cardinality(In(I) \cup In(J)) = Cardinality(In(I)) + Cardinality(In(J))
  <2> HIDE DEF In
  <2> QED
    BY <1>3, <1>4, CardinalityAddsUp
<1>6. Cardinality(In({})) = 0
  BY <1>4, FS_EmptySet
<1>7. QED
  BY <1>3, <1>4, <1>5, <1>6 DEF PromptTokensIn

-----------------------------------------------------------------------------
(* Each method does one of the four                                        *)

(* A table that stays keeps what it has published when blocks that are not *)
(* in it lose their hashes.                                                *)
LEMMA UnheldLoseTheirs ==
  ASSUME TypeOK, NEW s \in Seqs, NEW P, table'[s] = table[s], key' = KeyWithout(P),
         \A b \in P : b \notin BlocksOf(s)
  PROVE  Published(s)' = Published(s)
<1>1. \A i \in 1..Len(table[s]) : key'[table[s][i]] = key[table[s][i]]
  BY BlocksOfType DEF KeyWithout
<1>2. QED
  BY <1>1 DEF Published

(* A step that leaves the table and the hashes alone publishes nothing,    *)
(* and withdraws nothing.                                                  *)
LEMMA SameKeepsPublished ==
  ASSUME NEW s \in Seqs, table'[s] = table[s], key' = key
  PROVE  Published(s)' = Published(s)
BY DEF Published

(* Cached blocks are in no table.                                          *)
LEMMA CachedAreUnheld ==
  ASSUME IInv, NEW s \in Seqs, NEW b \in cached
  PROVE  b \in Blocks /\ b \notin BlocksOf(s)
BY RefMeaning DEF IInv, TypeOK

(* A lookup attaches published blocks to an empty table, all of them       *)
(* within the cacheable prefix, and counts their prompt tokens as read.    *)
LEMMA MatchPublished ==
  ASSUME IInv, NEW v \in Seqs, Match(v), NEW s \in Seqs
  PROVE  Keeps(s) \/ Finds(s)
<1> DEFINE h == HashWithout(Expired)
<1>0. TypeOK /\ Len(tokens[s]) \in Nat
  BY LenProperties DEF IInv, TypeOK
<1>1. CASE table[v] # << >> \/ ~CacheOn(v)
  <2>1. UNCHANGED vars
    BY <1>1 DEF Match, MatchCachedPrefix, vars, bmVars
  <2> QED
    BY <1>0, <2>1, SameKeepsPublished DEF Keeps, vars, seqVars, useVars, poolVars
<1>2. CASE ~(table[v] # << >> \/ ~CacheOn(v))
  <2>1. PICK m \in 0..target[v] :
          /\ \A i \in 1..m : Reusable(v, i) /\ Key(v, i) \in DOMAIN h
          /\ table' = [table EXCEPT ![v] = [i \in 1..m |-> h[Key(v, i)]]]
          /\ cacheRead' = [cacheRead EXCEPT ![v] = PromptTokensIn(v, 1..m)]
          /\ cacheCreate' = [cacheCreate EXCEPT ![v] = 0]
          /\ key' = KeyWithout(Expired)
          /\ tokens' = tokens
    BY <1>2 DEF Match, MatchCachedPrefix, seqVars
  <2>2. m \in Nat
    BY <1>0 DEF TypeOK
  <2>3. CASE s # v
    <3>1. table'[s] = table[s] /\ cacheRead'[s] = cacheRead[s] /\ cacheCreate'[s] = cacheCreate[s]
      BY <1>0, <2>1, <2>3 DEF TypeOK
    <3>2. Published(s)' = Published(s)
      BY <1>0, <2>1, <3>1, UnheldLoseTheirs, CachedAreUnheld DEF Expired
    <3> QED
      BY <1>0, <2>1, <3>1, <3>2 DEF Keeps
  <2>4. CASE s = v
    <3>1. /\ table'[s] = [i \in 1..m |-> h[Key(s, i)]]
          /\ cacheRead'[s] = PromptTokensIn(s, 1..m) /\ cacheCreate'[s] = 0
      BY <1>0, <2>1, <2>4 DEF TypeOK
    <3>2. ASSUME NEW i \in 1..m
          PROVE  h[Key(s, i)] \in Blocks /\ key'[h[Key(s, i)]] # NoKey
      <4>1. Expired \in SUBSET Blocks
        BY <1>0 DEF Expired, TypeOK
      <4>2. /\ h[Key(s, i)] \in Blocks \ Expired
            /\ key[h[Key(s, i)]] = Key(s, i) /\ Key(s, i) # NoKey
        BY <1>0, <2>1, <2>4, <4>1, HashTableWithout DEF IInv
      <4> QED
        BY <2>1, <4>2 DEF KeyWithout
    <3>3. Len(table'[s]) = m
      BY <2>2, <3>1, <3>2, IsASeq
    <3>4. Published(s)' = 1..m
      BY <3>1, <3>2, <3>3 DEF Published
    <3>5. \A i \in 1..m : i * BlockSize > 0 /\ Cacheable(s, i * BlockSize, target[s])
      <4>1. \A i \in 1..m : i \in Nat /\ i * BlockSize \in Nat /\ i * BlockSize > 0
        BY <2>2, TimesBlockSize, SizeAssumption
      <4> QED
        BY <2>1, <2>4, <4>1 DEF Reusable
    <3> QED
      BY <2>1, <3>1, <3>4, <3>5 DEF Finds
  <2> QED
    BY <2>3, <2>4
<1>3. QED
  BY <1>1, <1>2

(* An allocation adds unpublished blocks behind those of the table, and    *)
(* evicts none that a table holds.                                         *)
LEMMA EnsurePublished ==
  ASSUME IInv, NEW v \in Seqs, NEW t \in Nat, Ensure(v, t), NEW s \in Seqs
  PROVE  Keeps(s)
<1> DEFINE n == NumBlocksFor(t) - Len(table[v])
           old == Len(table[v])
<1>0. TypeOK /\ Len(tokens[s]) \in Nat
  BY LenProperties DEF IInv, TypeOK
<1>1. CASE n <= 0
  <2>1. UNCHANGED vars
    BY <1>1 DEF Ensure, EnsureBlocks, vars, bmVars
  <2> QED
    BY <1>0, <2>1, SameKeepsPublished DEF Keeps, vars, seqVars, useVars, poolVars
<1>2. CASE ~(n <= 0)
  <2>1. PICK new \in [1..n -> free \cup cached] :
          /\ table' = [table EXCEPT ![v] = @ \o new]
          /\ key' = KeyWithout(Expired \cup {new[i] : i \in 1..n})
          /\ cacheRead' = cacheRead /\ cacheCreate' = cacheCreate
          /\ tokens' = tokens
    BY <1>2 DEF Ensure, EnsureBlocks, Takings, Expired, seqVars
  <2> DEFINE P == Expired \cup {new[i] : i \in 1..n}
  <2>2. \A b \in P : b \in Blocks /\ b \notin BlocksOf(s) /\ b \notin BlocksOf(v)
    <3>1. P \subseteq free \cup cached
      BY <2>1 DEF Expired
    <3> QED
      BY <1>0, <3>1, RefMeaning DEF TypeOK
  <2>3. CASE s # v
    <3>1. table'[s] = table[s]
      BY <1>0, <2>1, <2>3 DEF TypeOK
    <3>2. Published(s)' = Published(s)
      BY <1>0, <2>1, <2>2, <3>1, UnheldLoseTheirs
    <3> QED
      BY <1>0, <2>1, <3>2 DEF Keeps
  <2>4. CASE s = v
    <3>1. n \in Nat /\ n >= 1 /\ old \in Nat /\ table[v] \in Seq(Blocks)
      <4>1. old \in Nat /\ table[v] \in Seq(Blocks)
        BY <1>0, BlocksOfType DEF TypeOK
      <4>2. NumBlocksFor(t) \in Int
        BY NumBlocksInt
      <4> QED
        BY <1>2, <4>1, <4>2
    <3>2. new \in Seq(Blocks) /\ Len(new) = n
      <4>1. new \in [1..n -> Blocks]
        BY <1>0, <2>1 DEF TypeOK
      <4> QED
        BY <3>1, <4>1, IsASeq
    <3>3. table'[s] = table[v] \o new
      BY <1>0, <2>1, <2>4 DEF TypeOK
    <3>4. /\ Len(table[v] \o new) = old + n
          /\ \A i \in 1..old + n : (table[v] \o new)[i] = IF i <= old THEN table[v][i] ELSE new[i - old]
      BY <3>1, <3>2, ConcatProperties
    <3>5. ASSUME NEW i \in 1..old
          PROVE  /\ i \in 1..Len(table'[s]) /\ table'[s][i] = table[s][i]
                 /\ key'[table'[s][i]] = key[table[s][i]]
      <4>1. i \in 1..Len(table'[s]) /\ table'[s][i] = table[s][i]
        BY <2>4, <3>1, <3>3, <3>4
      <4>2. table[s][i] \in Blocks /\ table[s][i] \in BlocksOf(s)
        BY <1>0, <2>4, BlocksOfType
      <4> QED
        BY <2>1, <2>2, <4>1, <4>2 DEF KeyWithout
    <3>6. ASSUME NEW i \in 1..Len(table'[s]), i \notin 1..old
          PROVE  key'[table'[s][i]] = NoKey
      <4>1. i - old \in 1..n /\ table'[s][i] = new[i - old]
        BY <3>1, <3>3, <3>4, <3>6
      <4>2. new[i - old] \in P
        BY <4>1
      <4> QED
        BY <2>1, <2>2, <4>1, <4>2 DEF KeyWithout
    <3>7. Published(s)' = Published(s)
      <4>1. \A i : i \in Published(s)' => i \in Published(s)
        BY <2>4, <3>5, <3>6 DEF Published
      <4>2. \A i : i \in Published(s) => i \in Published(s)'
        BY <2>4, <3>5 DEF Published
      <4> QED
        BY <4>1, <4>2
    <3> QED
      BY <1>0, <2>1, <3>7 DEF Keeps
  <2> QED
    BY <2>3, <2>4
<1>3. QED
  BY <1>1, <1>2

(* A commit publishes the blocks of Fresh, all of which are held by its    *)
(* request alone.                                                          *)
LEMMA ComputePublished ==
  ASSUME IInv, NEW v \in Seqs, NEW u \in Nat, Compute(v, u), NEW s \in Seqs
  PROVE  Keeps(s) \/ Commits(s, Fresh(s, u))
<1> DEFINE new == Fresh(v, u)
           slot(b) == CHOOSE i \in new : table[v][i] = b
           fresh == {table[v][i] : i \in new}
<1>1. /\ TypeOK /\ Len(tokens[s]) \in Nat
      /\ u <= Len(tokens[v]) /\ tokens' = tokens
      /\ table' = table /\ cacheRead' = cacheRead
      /\ key' = [b \in Blocks |-> IF b \in fresh THEN Key(v, slot(b)) ELSE key[b]]
      /\ cacheCreate' = [cacheCreate EXCEPT ![v] = @ + PromptTokensIn(v, new)]
  BY LenProperties DEF IInv, TypeOK, Compute, Commit, seqVars
<1>2. ASSUME NEW i \in new
      PROVE  /\ i \in 1..Len(table[v]) /\ i \in Nat /\ i * BlockSize > 0
             /\ Cacheable(v, i * BlockSize, u) /\ Key(v, i) # NoKey
             /\ key[table[v][i]] = NoKey
             /\ table[v][i] \in Blocks /\ table[v][i] \in BlocksOf(v)
  <2>1. /\ i \in 1..Len(table[v]) /\ i * BlockSize <= u /\ Cacheable(v, i * BlockSize, u)
        /\ key[table[v][i]] = NoKey
    BY DEF Fresh, FullBlocks
  <2>2. i \in Nat /\ i >= 1 /\ i * BlockSize \in Nat /\ i * BlockSize >= 1
    BY <1>1, <2>1, BlocksOfType, TimesBlockSize
  <2>3. i * BlockSize <= Len(tokens[v])
    <3>1. Len(tokens[v]) \in Nat
      BY <1>1, LenProperties DEF TypeOK
    <3> QED
      BY <1>1, <2>1, <2>2, <3>1
  <2>4. Key(v, i) # NoKey
    BY <1>1, <2>2, <2>3, KeyType, NoKeyAssumption
  <2> QED
    BY <1>1, <2>1, <2>2, <2>4, BlocksOfType
<1>3. CASE s # v
  <2>1. ASSUME NEW i \in 1..Len(table[s]) PROVE key'[table[s][i]] = key[table[s][i]]
    <3>1. table[s][i] \in Blocks /\ table[s][i] \in BlocksOf(s)
      BY <1>1, BlocksOfType
    <3>2. table[s][i] \notin fresh
      BY <1>2, <1>3, <3>1 DEF IInv, OneWriter
    <3> HIDE DEF fresh, slot
    <3> QED
      BY <1>1, <3>1, <3>2
  <2>2. Published(s)' = Published(s)
    BY <1>1, <2>1 DEF Published
  <2>3. cacheCreate'[s] = cacheCreate[s]
    BY <1>1, <1>3 DEF TypeOK
  <2> QED
    BY <1>1, <2>2, <2>3 DEF Keeps
<1>4. CASE s = v
  <2>1. ASSUME NEW i \in new PROVE key'[table[v][i]] # NoKey
    <3>1. table[v][i] \in fresh /\ table[v][i] \in Blocks
      BY <1>2
    <3>2. slot(table[v][i]) \in new
      OBVIOUS
    <3>3. Key(v, slot(table[v][i])) # NoKey
      BY <1>2, <3>2
    <3> HIDE DEF fresh, slot
    <3> QED
      BY <1>1, <3>1, <3>3
  <2>2. ASSUME NEW i \in 1..Len(table[v]), i \notin new
        PROVE  key'[table[v][i]] = key[table[v][i]]
    <3>1. table[v][i] \in Blocks
      BY <1>1, BlocksOfType
    <3>2. table[v][i] \notin fresh
      BY <1>2, <2>2 DEF IInv, RefCountsExact
    <3> HIDE DEF fresh, slot
    <3> QED
      BY <1>1, <3>1, <3>2
  <2>3. Published(s)' = Published(s) \cup new /\ Published(s) \cap new = {}
    <3>1. \A i : i \in Published(s)' <=> i \in Published(s) \cup new
      BY <1>1, <1>2, <1>4, <2>1, <2>2 DEF Published
    <3> QED
      BY <1>2, <1>4, <3>1 DEF Published
  <2>4. cacheCreate'[s] = cacheCreate[s] + PromptTokensIn(s, new)
    BY <1>1, <1>4 DEF TypeOK
  <2> QED
    BY <1>1, <1>2, <1>4, <2>3, <2>4 DEF Commits
<1>5. QED
  BY <1>3, <1>4

(* A release empties the table of one request, and the blocks it frees are *)
(* in no other.                                                            *)
LEMMA DeallocatePublished ==
  ASSUME IInv, NEW v \in Seqs, Deallocate(v), tokens' = tokens, NEW s \in Seqs
  PROVE  Keeps(s) \/ LetsGo(s)
<1>0. TypeOK /\ Len(tokens[s]) \in Nat
  BY LenProperties DEF IInv, TypeOK
<1>1. PICK gone, stay, lost \in SUBSET Blocks : Released(v, gone, stay, lost)
  BY DeallocateReleases
<1>2. CASE s = v
  <2>1. table'[s] = << >> /\ cacheRead'[s] = 0 /\ cacheCreate'[s] = 0
    BY <1>0, <1>1, <1>2 DEF Released, TypeOK
  <2>2. Published(s)' = {}
    BY <2>1 DEF Published
  <2> QED
    BY <2>1, <2>2 DEF LetsGo
<1>3. CASE s # v
  <2>1. table'[s] = table[s] /\ cacheRead'[s] = cacheRead[s] /\ cacheCreate'[s] = cacheCreate[s]
    BY <1>0, <1>1, <1>3 DEF Released, TypeOK
  <2>2. ASSUME NEW b \in lost PROVE b \notin BlocksOf(s)
    <3>1. b \in cached \/ (b \in BlocksOf(v) /\ ref[b] = 1)
      BY <1>1 DEF Released
    <3> QED
      BY <1>3, <3>1, CachedAreUnheld, RefMeaning
  <2>3. Published(s)' = Published(s)
    BY <1>0, <1>1, <2>1, <2>2, UnheldLoseTheirs DEF Released
  <2> QED
    BY <1>0, <2>1, <2>3 DEF Keeps
<1>4. QED
  BY <1>2, <1>3

(* Every step does one of the four to every request.                       *)
LEMMA NextPublished ==
  ASSUME IInv, [Next]_vars, NEW s \in Seqs
  PROVE  Keeps(s) \/ LetsGo(s) \/ Finds(s) \/ \E new : Commits(s, new)
<1> DEFINE Goal == Keeps(s) \/ LetsGo(s) \/ Finds(s) \/ \E new : Commits(s, new)
<1>0. TypeOK /\ \A v \in Seqs : tokens[v] \in Seq(Tokens) /\ Len(tokens[v]) \in Nat
  BY LenProperties DEF IInv, TypeOK
<1>1. ASSUME NEW v \in Seqs, Match(v) PROVE Goal
  BY <1>1, MatchPublished
<1>2. ASSUME NEW v \in Seqs, NEW n \in 1..Len(tokens[v]), Ensure(v, n) \/ Compute(v, n)
      PROVE  Goal
  <2>1. n \in Nat
    BY <1>0
  <2> QED
    BY <1>2, <2>1, EnsurePublished, ComputePublished
<1>3. ASSUME NEW v \in Seqs, NEW t \in Tokens, AppendToken(v, t) PROVE Goal
  <2>1. Len(tokens[s]) <= Len(tokens'[s])
    <3>1. tokens'[s] = IF s = v THEN Append(tokens[s], t) ELSE tokens[s]
      BY <1>0, <1>3 DEF AppendToken, TypeOK
    <3>2. Len(Append(tokens[s], t)) = Len(tokens[s]) + 1
      BY <1>0, AppendProperties
    <3> QED
      BY <1>0, <3>1, <3>2
  <2> QED
    BY <1>3, <2>1, SameKeepsPublished DEF AppendToken, bmVars, useVars, poolVars, Keeps
<1>4. ASSUME NEW v \in Seqs, Retire(v) \/ Preempt(v) PROVE Goal
  BY <1>4, DeallocatePublished DEF Retire, Preempt, seqVars
<1>5. ASSUME NEW v \in Seqs, Renew(v) PROVE Goal
  <2>1. /\ Published(s)' = Published(s)
        /\ cacheRead' = cacheRead /\ cacheCreate' = cacheCreate
    BY <1>5, SameKeepsPublished DEF Renew, bmVars, useVars, poolVars
  <2>2. CASE s = v
    <3>1. Published(s) = {}
      BY <1>5, <2>2 DEF Renew, Published
    <3> QED
      BY <2>1, <3>1 DEF LetsGo
  <2>3. CASE s # v
    <3>1. tokens'[s] = tokens[s]
      BY <1>0, <1>5, <2>3 DEF Renew, TypeOK
    <3> QED
      BY <1>0, <2>1, <3>1 DEF Keeps
  <2> QED
    BY <2>2, <2>3
<1>6. ASSUME PurgeAction PROVE Goal
  <2>1. PICK P \in SUBSET cached : Purge(P)
    BY <1>6 DEF PurgeAction, PurgeExpired, PurgeCachedBlocks, PurgeExpiredCachedBlocks, Expired
  <2>2. Published(s)' = Published(s)
    BY <1>0, <2>1, UnheldLoseTheirs, CachedAreUnheld DEF Purge, useVars
  <2> QED
    BY <1>0, <1>6, <2>1, <2>2 DEF Keeps, Purge, useVars, PurgeAction, seqVars
<1>7. ASSUME NEW b \in Blocks, Expire(b) PROVE Goal
  BY <1>0, <1>7, SameKeepsPublished DEF Expire, useVars, seqVars, Keeps
<1>8. CASE UNCHANGED vars
  BY <1>0, <1>8, SameKeepsPublished DEF vars, useVars, poolVars, seqVars, Keeps
<1>9. QED
  BY <1>1, <1>2, <1>3, <1>4, <1>5, <1>6, <1>7, <1>8 DEF Next

-----------------------------------------------------------------------------
(* None of the four breaks the invariant                                   *)

(* A prefix that lies before a breakpoint within u tokens lies before one  *)
(* within any number of tokens from u on.                                  *)
LEMMA CacheableIsWithin ==
  ASSUME NEW s \in Seqs, NEW i \in Nat, NEW u \in Nat, NEW n \in Nat, u <= n,
         i * BlockSize > 0, Cacheable(s, i * BlockSize, u), Breakpoints[s] # {}
  PROVE  \E p \in Breakpoints[s] : i * BlockSize <= p /\ p <= n
<1>1. i * BlockSize \in Nat
  BY TimesBlockSize
<1>2. PICK p \in Breakpoints[s] : i * BlockSize <= p /\ p <= u
  BY <1>1 DEF Cacheable
<1>3. p \in Nat
  BY RequestAssumption
<1>4. QED
  BY <1>2, <1>3

(* Every step keeps the usage exact and the published blocks within the    *)
(* breakpoints.                                                            *)
LEMMA NextKeepsPublishedInv == IInv /\ IInv' /\ PublishedInv /\ [Next]_vars => PublishedInv'
<1> SUFFICES ASSUME IInv, IInv', PublishedInv, [Next]_vars, NEW s \in Seqs
             PROVE  UsageExact(s)' /\ \A i \in Published(s)' : WithinBreakpoints(s, i)'
  BY DEF PublishedInv
<1>1. /\ TypeOK /\ TypeOK'
      /\ Len(tokens[s]) \in Nat /\ Len(tokens'[s]) \in Nat
      /\ Len(table'[s]) \in Nat
  BY LenProperties DEF IInv, TypeOK
<1>2. UsageExact(s) /\ \A i \in Published(s) : WithinBreakpoints(s, i)
  BY DEF PublishedInv
<1>3. \A i \in Published(s)' : i \in Nat /\ i * BlockSize \in Nat
  BY <1>1, TimesBlockSize DEF Published
<1>4. cacheRead[s] \in Nat /\ cacheCreate[s] \in Nat
  BY <1>1 DEF TypeOK
<1>5. ASSUME NEW i \in Published(s)', i \in Published(s), Len(tokens[s]) <= Len(tokens'[s])
      PROVE  WithinBreakpoints(s, i)'
  <2>1. ASSUME Breakpoints[s] # {}
        PROVE  \E p \in Breakpoints[s] : i * BlockSize <= p /\ p <= Len(tokens'[s])
    <3>1. PICK p \in Breakpoints[s] : i * BlockSize <= p /\ p <= Len(tokens[s])
      BY <1>2, <1>5, <2>1 DEF WithinBreakpoints
    <3>2. p \in Nat
      BY RequestAssumption
    <3> QED
      BY <1>1, <1>5, <3>1, <3>2
  <2> QED
    BY <2>1 DEF WithinBreakpoints
<1>6. CASE Keeps(s)
  <2>1. UsageExact(s)'
    BY <1>2, <1>6 DEF Keeps, UsageExact
  <2> QED
    BY <1>5, <1>6, <2>1 DEF Keeps
<1>7. CASE LetsGo(s)
  <2>1. PromptTokensIn(s, {}) = 0
    BY PromptTokensAddUp
  <2> QED
    BY <1>2, <1>4, <1>7, <2>1 DEF LetsGo, UsageExact
<1>8. CASE Finds(s)
  <2>1. UsageExact(s)'
    <3>1. PromptTokensIn(s, Published(s)') \in Nat
      BY PromptTokensInNat
    <3> QED
      BY <1>8, <3>1 DEF Finds, UsageExact
  <2>2. target[s] \in Nat /\ target[s] <= Len(tokens'[s])
    BY <1>1, <1>8 DEF IInv, TargetWithin, TypeOK, Finds
  <2>3. ASSUME NEW i \in Published(s)' PROVE WithinBreakpoints(s, i)'
    BY <1>1, <1>3, <1>8, <2>2, CacheableIsWithin DEF Finds, WithinBreakpoints
  <2> QED
    BY <2>1, <2>3
<1>9. ASSUME NEW new, Commits(s, new)
      PROVE  UsageExact(s)' /\ \A i \in Published(s)' : WithinBreakpoints(s, i)'
  <2>1. UsageExact(s)'
    <3>1. PromptTokensIn(s, Published(s) \cup new)
            = PromptTokensIn(s, Published(s)) + PromptTokensIn(s, new)
      BY <1>9, PromptTokensAddUp DEF Commits
    <3>2. PromptTokensIn(s, Published(s)) \in Nat /\ PromptTokensIn(s, new) \in Nat
      BY PromptTokensInNat
    <3> QED
      BY <1>2, <1>4, <1>9, <3>1, <3>2 DEF Commits, UsageExact
  <2>2. ASSUME NEW i \in new, i \in Published(s)' PROVE WithinBreakpoints(s, i)'
    <3>1. PICK u \in Nat : /\ u <= Len(tokens'[s]) /\ i * BlockSize > 0
                           /\ Cacheable(s, i * BlockSize, u)
      BY <1>9 DEF Commits
    <3> QED
      BY <1>1, <1>3, <2>2, <3>1, CacheableIsWithin DEF WithinBreakpoints
  <2> QED
    BY <1>1, <1>5, <1>9, <2>1, <2>2 DEF Commits
<1>10. QED
  BY <1>6, <1>7, <1>8, <1>9, NextPublished

(* At first nothing is published and nothing is counted.                   *)
LEMMA PublishedInvInit == Init => PublishedInv
<1> SUFFICES ASSUME Init, NEW s \in Seqs
             PROVE  UsageExact(s) /\ \A i \in Published(s) : WithinBreakpoints(s, i)
  BY DEF PublishedInv
<1>1. Published(s) = {} /\ cacheRead[s] = 0 /\ cacheCreate[s] = 0
  BY DEF Init, Published
<1>2. PromptTokensIn(s, {}) = 0
  BY PromptTokensAddUp
<1>3. QED
  BY <1>1, <1>2 DEF UsageExact

-----------------------------------------------------------------------------

(* A request with cache breakpoints neither reads nor publishes a block    *)
(* that reaches beyond the last of them that its tokens have reached.      *)
THEOREM BreakpointsAreRespected == Spec => []CachedWithinBreakpoints
<1>1. PublishedInv => CachedWithinBreakpoints
  BY DEF PublishedInv, Published, WithinBreakpoints, CachedWithinBreakpoints
<1>2. QED
  BY <1>1, PublishedInvInit, NextKeepsPublishedInv, Invariance, PTL DEF Spec

(* The usage of a request counts the prompt tokens in the published blocks *)
(* of its table, each once, and so at most the whole prompt: none is       *)
(* billed twice, also after preemption and recomputation.                  *)
THEOREM UsageIsExact == Spec => [](UsageAddsUp /\ \A s \in Seqs : UsageExact(s))
<1>1. PublishedInv => UsageAddsUp /\ \A s \in Seqs : UsageExact(s)
  <2> SUFFICES ASSUME PublishedInv, NEW s \in Seqs
               PROVE  UsageExact(s) /\ cacheRead[s] + cacheCreate[s] <= Len(Prompt[s])
    BY DEF UsageAddsUp
  <2>1. UsageExact(s)
    BY DEF PublishedInv
  <2>2. PromptTokensIn(s, Published(s)) <= Len(Prompt[s])
    <3>1. Published(s) \cap {} = {}
      OBVIOUS
    <3> QED
      BY <3>1, PromptTokensAddUp
  <2> QED
    BY <2>1, <2>2 DEF UsageExact
<1>2. QED
  BY <1>1, PublishedInvInit, NextKeepsPublishedInv, Invariance, PTL DEF Spec

-----------------------------------------------------------------------------
(* Quotas                                                                  *)

(* R orders C strictly and totally.                                        *)
Orders(R, C) ==
  /\ \A a \in C : <<a, a>> \notin R
  /\ \A a, b, c \in C : <<a, b>> \in R /\ <<b, c>> \in R => <<a, c>> \in R
  /\ \A a, b \in C : a # b => <<a, b>> \in R \/ <<b, a>> \in R

(* The quotas, with the order of release they rest on.                     *)
QuotaInv ==
  /\ Orders(older, cached)
  /\ older \subseteq cached \X cached
  /\ QuotasHold

-----------------------------------------------------------------------------
(* Orders                                                                  *)

(* An order of a set orders its subsets.                                   *)
LEMMA SubsetIsOrdered ==
  ASSUME NEW R, NEW C, NEW D, D \subseteq C, Orders(R, C)
  PROVE  Orders(R, D) /\ Orders(R \cap (D \X D), D)
BY DEF Orders

(* The q youngest are at most q.                                           *)
LEMMA YoungestBounded ==
  ASSUME NEW C, NEW R, NEW q \in Nat, IsFiniteSet(C), Orders(R, C), q > 0
  PROVE  IsFiniteSet(Youngest(q, C, R)) /\ Cardinality(Youngest(q, C, R)) <= q
<1> DEFINE above(b) == {c \in C : <<b, c>> \in R}
           Y == Youngest(q, C, R)
<1>1. Y \subseteq C /\ IsFiniteSet(Y) /\ Cardinality(Y) \in Nat
  <2>1. Y \subseteq C
    BY DEF Youngest
  <2> HIDE DEF Y
  <2> QED
    BY <2>1, FS_Subset, FS_CardinalityType
<1>2. \A b \in C : above(b) \subseteq C /\ IsFiniteSet(above(b)) /\ Cardinality(above(b)) \in Nat
  <2> SUFFICES ASSUME NEW b \in C
               PROVE  above(b) \subseteq C /\ IsFiniteSet(above(b)) /\ Cardinality(above(b)) \in Nat
    OBVIOUS
  <2>1. above(b) \subseteq C
    OBVIOUS
  <2> HIDE DEF above
  <2> QED
    BY <2>1, FS_Subset, FS_CardinalityType
<1>3. \A b \in Y : Cardinality(above(b)) < q
  BY DEF Youngest
<1>4. ASSUME NEW a \in C, NEW b \in C, <<a, b>> \in R
      PROVE  Cardinality(above(a)) # Cardinality(above(b))
  <2>1. above(b) \subseteq above(a)
    BY <1>4 DEF Orders
  <2>2. b \in above(a) /\ b \notin above(b)
    BY <1>4 DEF Orders
  <2> HIDE DEF above
  <2> QED
    BY <1>2, <2>1, <2>2, FS_Subset
<1>5. ASSUME Cardinality(Y) > q PROVE FALSE
  <2> DEFINE f == [b \in Y |-> Cardinality(above(b))]
  <2>1. f \in [Y -> 0..q - 1]
    <3> HIDE DEF above, Y
    <3> QED
      BY <1>1, <1>2, <1>3
  <2>2. IsFiniteSet(0..q - 1) /\ Cardinality(0..q - 1) = q
    BY FS_Interval
  <2>3. PICK a, b \in Y : a # b /\ f[a] = f[b]
    <3> HIDE DEF Y, f
    <3> QED
      BY <1>1, <1>5, <2>1, <2>2, FS_PigeonHole
  <2>4. <<a, b>> \in R \/ <<b, a>> \in R
    BY <1>1, <2>3 DEF Orders
  <2>5. Cardinality(above(a)) # Cardinality(above(b))
    <3> HIDE DEF above, Y
    <3> QED
      BY <1>1, <1>4, <2>4
  <2> QED
    BY <2>3, <2>5
<1>6. Cardinality(Y) <= q
  <2> HIDE DEF Y
  <2> QED
    BY <1>1, <1>5
<1>7. QED
  BY <1>1, <1>6

(* A set cannot be over a bound that a superset keeps.                     *)
LEMMA SmallerFits ==
  ASSUME NEW S, NEW T, NEW q, IsFiniteSet(T), S \subseteq T, q \in Nat, Cardinality(T) <= q
  PROVE  Cardinality(S) <= q
<1>1. IsFiniteSet(S) /\ Cardinality(S) <= Cardinality(T)
  BY FS_Subset
<1>2. Cardinality(S) \in Nat /\ Cardinality(T) \in Nat
  BY <1>1, FS_CardinalityType
<1>3. QED
  BY <1>1, <1>2

(* The blocks that deallocate caches: the order it gives them, after all   *)
(* that are cached already, the last block of the table first.             *)
Later(s, kept) ==
  {e \in kept \X kept : \E i, j \in 1..Len(table[s]) :
     j > i /\ e = <<table[s][j], table[s][i]>>}
(* The order after a release that keeps the blocks kept.                   *)
OrderWith(s, kept) == older \cup (cached \X kept) \cup Later(s, kept)

(* It is again a strict total order.                                       *)
LEMMA ReleaseOrders ==
  ASSUME IInv, NEW s \in Seqs, NEW kept, kept \subseteq BlocksOf(s),
         Orders(older, cached), older \subseteq cached \X cached
  PROVE  Orders(OrderWith(s, kept), cached \cup kept)
<1> DEFINE O == OrderWith(s, kept)
           L == Later(s, kept)
<1>1. Len(table[s]) \in Nat /\ \A i, j \in 1..Len(table[s]) : table[s][i] = table[s][j] => i = j
  BY BlocksOfType DEF IInv, RefCountsExact
<1>2. cached \cap kept = {}
  <2>1. \A b \in kept : b \in Blocks /\ b \in BlocksOf(s)
    BY BlocksOfType DEF IInv
  <2> QED
    BY <2>1, RefMeaning
<1>3. L \subseteq kept \X kept
  BY DEF Later
<1>4. \A a, b \in kept :
        <<a, b>> \in L <=> \E i, j \in 1..Len(table[s]) : j > i /\ a = table[s][j] /\ b = table[s][i]
  BY DEF Later
<1>5. \A a \in kept : <<a, a>> \notin L
  BY <1>1, <1>4
<1>6. ASSUME NEW a \in kept, NEW b \in kept, NEW c \in kept, <<a, b>> \in L, <<b, c>> \in L
      PROVE  <<a, c>> \in L
  <2>1. PICK i, j \in 1..Len(table[s]) : j > i /\ a = table[s][j] /\ b = table[s][i]
    BY <1>4, <1>6
  <2>2. PICK k, l \in 1..Len(table[s]) : l > k /\ b = table[s][l] /\ c = table[s][k]
    BY <1>4, <1>6
  <2>3. i = l
    BY <1>1, <2>1, <2>2
  <2>4. j > k
    BY <1>1, <2>1, <2>2, <2>3
  <2> QED
    BY <1>4, <2>1, <2>2, <2>4
<1>7. ASSUME NEW a \in kept, NEW b \in kept, a # b PROVE <<a, b>> \in L \/ <<b, a>> \in L
  <2>1. PICK i, j \in 1..Len(table[s]) : a = table[s][i] /\ b = table[s][j]
    BY DEF BlocksOf
  <2>2. i < j \/ j < i
    BY <1>1, <1>7, <2>1
  <2> QED
    BY <1>4, <2>1, <2>2
<1>8. ASSUME NEW a \in cached \cup kept, NEW b \in cached \cup kept
      PROVE  <<a, b>> \in O <=> \/ a \in cached /\ b \in cached /\ <<a, b>> \in older
                                \/ a \in cached /\ b \in kept
                                \/ a \in kept /\ b \in kept /\ <<a, b>> \in L
  <2> HIDE DEF L
  <2>1. <<a, b>> \in older => a \in cached /\ b \in cached
    OBVIOUS
  <2>2. <<a, b>> \in L => a \in kept /\ b \in kept
    BY <1>3
  <2>3. <<a, b>> \in cached \X kept <=> a \in cached /\ b \in kept
    OBVIOUS
  <2>4. <<a, b>> \in O <=> <<a, b>> \in older \/ <<a, b>> \in cached \X kept \/ <<a, b>> \in L
    BY DEF OrderWith, L
  <2> QED
    BY <2>1, <2>2, <2>3, <2>4
<1>9. Orders(O, cached \cup kept)
  <2> HIDE DEF O, L
  <2>0. /\ \A a \in cached : <<a, a>> \notin older
        /\ \A a, b, c \in cached : <<a, b>> \in older /\ <<b, c>> \in older => <<a, c>> \in older
        /\ \A a, b \in cached : a # b => <<a, b>> \in older \/ <<b, a>> \in older
    BY DEF Orders
  <2>1. \A a \in cached \cup kept : <<a, a>> \notin O
    BY <1>2, <1>5, <1>8, <2>0
  <2>2. ASSUME NEW a \in cached \cup kept, NEW b \in cached \cup kept, NEW c \in cached \cup kept,
               <<a, b>> \in O, <<b, c>> \in O
        PROVE  <<a, c>> \in O
    <3>1. CASE a \in cached /\ c \in kept
      BY <1>8, <3>1
    <3>2. CASE a \in cached /\ c \in cached
      <4>1. b \in cached /\ <<b, c>> \in older
        BY <1>2, <1>8, <2>2, <3>2
      <4>2. <<a, b>> \in older
        BY <1>2, <1>8, <2>2, <3>2, <4>1
      <4> QED
        BY <1>8, <2>0, <3>2, <4>1, <4>2
    <3>3. CASE a \in kept
      <4>1. b \in kept /\ <<a, b>> \in L
        BY <1>2, <1>8, <2>2, <3>3
      <4>2. c \in kept /\ <<b, c>> \in L
        BY <1>2, <1>8, <2>2, <4>1
      <4> QED
        BY <1>6, <1>8, <3>3, <4>1, <4>2
    <3> QED
      BY <3>1, <3>2, <3>3
  <2>3. ASSUME NEW a \in cached \cup kept, NEW b \in cached \cup kept, a # b
        PROVE  <<a, b>> \in O \/ <<b, a>> \in O
    <3>1. CASE a \in cached /\ b \in cached
      BY <1>8, <2>0, <2>3, <3>1
    <3>2. CASE a \in kept /\ b \in kept
      BY <1>7, <1>8, <2>3, <3>2
    <3>3. CASE (a \in cached /\ b \in kept) \/ (a \in kept /\ b \in cached)
      BY <1>8, <3>3
    <3> QED
      BY <3>1, <3>2, <3>3
  <2> QED
    BY <2>1, <2>2, <2>3 DEF Orders
<1>10. QED
  BY <1>9

-----------------------------------------------------------------------------
(* What a step does to the idle cache                                      *)

(* Every method but deallocate at most takes blocks out of it.             *)
Shrinks ==
  /\ cached' \subseteq cached
  /\ older' = older \cap (cached' \X cached')
  /\ \A b \in cached' : key'[b] = key[b]

(* Taking blocks out of the idle cache keeps the quotas.                   *)
LEMMA ShrinkingKeepsQuotas ==
  ASSUME IInv, QuotaInv, Shrinks
  PROVE  QuotaInv'
<1>1. IsFiniteSet(cached)
  BY SetAssumption, FS_Subset DEF IInv, TypeOK
<1>2. Orders(older', cached')
  BY SubsetIsOrdered DEF Shrinks, QuotaInv
<1>3. Orders(older, cached)' /\ older' \subseteq cached' \X cached'
  BY <1>2 DEF Orders, Shrinks
<1>4. ASSUME MaxCached > 0 PROVE Cardinality(cached') <= MaxCached
  BY <1>1, <1>4, SmallerFits, ConfigAssumption DEF Shrinks, QuotaInv, QuotasHold
<1>5. ASSUME MaxCachedPerNs > 0, NEW n \in Namespaces
      PROVE  Cardinality({b \in cached' : key'[b][1] = n}) <= MaxCachedPerNs
  <2> DEFINE S == {b \in cached' : key'[b][1] = n}
             T == {b \in cached : key[b][1] = n}
  <2>1. S \subseteq T
    BY DEF Shrinks
  <2>2. IsFiniteSet(T)
    <3>1. T \subseteq cached
      OBVIOUS
    <3> HIDE DEF T
    <3> QED
      BY <1>1, <3>1, FS_Subset
  <2>3. Cardinality(T) <= MaxCachedPerNs
    BY <1>5 DEF QuotaInv, QuotasHold, NamespaceOf
  <2> HIDE DEF S, T
  <2>4. Cardinality(S) <= MaxCachedPerNs
    BY <2>1, <2>2, <2>3, SmallerFits, ConfigAssumption
  <2> QED
    BY <2>4 DEF S
<1>6. QED
  BY <1>3, <1>4, <1>5 DEF QuotaInv, QuotasHold, NamespaceOf

(* Deallocate leaves no more than the quotas, in the whole cache and in    *)
(* every namespace, whatever it has to evict.                              *)
LEMMA DeallocateKeepsQuotas ==
  ASSUME IInv, QuotaInv, NEW s \in Seqs, Deallocate(s)
  PROVE  QuotaInv'
<1> DEFINE gone == {b \in BlocksOf(s) : ref[b] = 1}
           kept == {b \in gone : EnablePrefixCache /\ key[b] # NoKey}
           order == OrderWith(s, kept)
           C == cached \cup kept
           of(n) == {b \in C : NamespaceOf(b) = n}
           inNs == UNION {Youngest(MaxCachedPerNs, of(n), order) : n \in Namespaces}
           stay == Youngest(MaxCached, inNs, order)
           lost == (cached \cup gone) \ stay
<1>1. /\ cached' = stay
      /\ older' = order \cap (stay \X stay)
      /\ key' = KeyWithout(lost)
  BY DEF Deallocate, OrderWith, Later
<1>2. /\ kept \subseteq BlocksOf(s) /\ C \subseteq Blocks
      /\ IsFiniteSet(C) /\ MaxCached \in Nat /\ MaxCachedPerNs \in Nat
  <2>1. kept \subseteq BlocksOf(s) /\ C \subseteq Blocks
    BY BlocksOfType DEF IInv, TypeOK
  <2> HIDE DEF C, kept
  <2> QED
    BY <2>1, SetAssumption, ConfigAssumption, FS_Subset
<1>3. Orders(order, C)
  <2> HIDE DEF kept
  <2> QED
    BY <1>2, ReleaseOrders DEF QuotaInv
<1> HIDE DEF kept, order, C
<1>4. \A n \in Namespaces : Youngest(MaxCachedPerNs, of(n), order) \subseteq of(n) /\ of(n) \subseteq C
  BY DEF Youngest
<1>5. inNs \subseteq C /\ IsFiniteSet(inNs)
  <2>1. inNs \subseteq C
    BY <1>4
  <2> HIDE DEF inNs
  <2> QED
    BY <1>2, <2>1, FS_Subset
<1>6. stay \subseteq inNs /\ IsFiniteSet(stay)
  <2> HIDE DEF inNs
  <2>1. stay \subseteq inNs
    BY DEF Youngest
  <2> HIDE DEF stay
  <2> QED
    BY <1>5, <2>1, FS_Subset
<1>7. Orders(older, cached)' /\ older' \subseteq cached' \X cached'
  <2> HIDE DEF stay, inNs
  <2>1. Orders(order \cap (stay \X stay), stay)
    BY <1>3, <1>5, <1>6, SubsetIsOrdered
  <2> QED
    BY <1>1, <2>1 DEF Orders
<1>8. ASSUME MaxCached > 0 PROVE Cardinality(cached') <= MaxCached
  <2> HIDE DEF inNs
  <2>1. Orders(order, inNs)
    BY <1>3, <1>5, SubsetIsOrdered
  <2>2. Cardinality(stay) <= MaxCached
    BY <1>2, <1>5, <1>8, <2>1, YoungestBounded
  <2> QED
    BY <1>1, <2>2
<1>9. \A b \in stay : key'[b] = key[b]
  <2>1. stay \subseteq Blocks
    BY <1>2, <1>5, <1>6
  <2> HIDE DEF stay
  <2> QED
    BY <1>1, <2>1 DEF KeyWithout
<1>10. ASSUME MaxCachedPerNs > 0, NEW n \in Namespaces
       PROVE  Cardinality({b \in cached' : key'[b][1] = n}) <= MaxCachedPerNs
  <2> DEFINE S == {b \in cached' : key'[b][1] = n}
             Y == Youngest(MaxCachedPerNs, of(n), order)
  <2>1. S \subseteq Y
    <3> SUFFICES ASSUME NEW b \in stay, key[b][1] = n PROVE b \in Y
      BY <1>1, <1>9
    <3>1. PICK m \in Namespaces : b \in Youngest(MaxCachedPerNs, of(m), order)
      BY <1>6
    <3>2. NamespaceOf(b) = m
      BY <1>4, <3>1
    <3> QED
      BY <3>1, <3>2 DEF NamespaceOf
  <2>2. Orders(order, of(n)) /\ IsFiniteSet(of(n))
    <3>1. of(n) \subseteq C
      BY <1>4
    <3> HIDE DEF of
    <3> QED
      BY <1>2, <1>3, <3>1, SubsetIsOrdered, FS_Subset
  <2>3. IsFiniteSet(Y) /\ Cardinality(Y) <= MaxCachedPerNs
    <3> HIDE DEF of
    <3> QED
      BY <1>2, <1>10, <2>2, YoungestBounded
  <2> HIDE DEF S, Y
  <2>4. Cardinality(S) <= MaxCachedPerNs
    BY <1>2, <2>1, <2>3, SmallerFits
  <2> QED
    BY <2>4 DEF S
<1>11. QED
  BY <1>7, <1>8, <1>10 DEF QuotaInv, QuotasHold, NamespaceOf

(* Every other step takes blocks out of the idle cache or leaves it alone. *)
LEMMA NextKeepsQuotas == IInv /\ QuotaInv /\ [Next]_vars => QuotaInv'
<1> SUFFICES ASSUME IInv, QuotaInv, [Next]_vars PROVE QuotaInv'
  OBVIOUS
<1>1. /\ older \cap (cached \X cached) = older
      /\ cached \subseteq Blocks
  BY DEF QuotaInv, IInv, TypeOK
<1>2. ASSUME cached' = cached, older' = older, key' = key PROVE QuotaInv'
  BY <1>1, <1>2, ShrinkingKeepsQuotas DEF Shrinks
<1>3. ASSUME NEW P, NEW Q, P \cap (cached \ Q) = {},
             cached' = cached \ Q, older' = OlderAmong(cached \ Q), key' = KeyWithout(P)
      PROVE  QuotaInv'
  <2>1. \A b \in cached' : key'[b] = key[b]
    BY <1>1, <1>3 DEF KeyWithout
  <2> QED
    BY <1>3, <2>1, ShrinkingKeepsQuotas DEF Shrinks, OlderAmong
<1>4. CASE UNCHANGED vars
  BY <1>2, <1>4 DEF vars, poolVars
<1>5. ASSUME NEW s \in Seqs, Match(s) PROVE QuotaInv'
  <2>1. CASE UNCHANGED bmVars
    BY <1>2, <2>1 DEF bmVars, poolVars
  <2>2. CASE ~UNCHANGED bmVars
    <3>1. PICK m \in 0..target[s] :
            LET h == HashWithout(Expired)
                hits == {h[Key(s, i)] : i \in 1..m}
            IN  /\ cached' = cached \ (Expired \cup hits)
                /\ older' = OlderAmong(cached \ (Expired \cup hits))
                /\ key' = KeyWithout(Expired)
      BY <1>5, <2>2 DEF Match, MatchCachedPrefix
    <3> QED
      BY <1>3, <3>1
  <2> QED
    BY <2>1, <2>2
<1>6. ASSUME NEW s \in Seqs, NEW t, Ensure(s, t) PROVE QuotaInv'
  <2>1. CASE UNCHANGED bmVars
    BY <1>2, <2>1 DEF bmVars, poolVars
  <2>2. CASE ~UNCHANGED bmVars
    <3>1. PICK taken :
            /\ cached' = (cached \ Expired) \ taken
            /\ older' = OlderAmong((cached \ Expired) \ taken)
            /\ key' = KeyWithout(Expired \cup taken)
      BY <1>6, <2>2 DEF Ensure, EnsureBlocks
    <3>2. (cached \ Expired) \ taken = cached \ (Expired \cup taken)
      OBVIOUS
    <3> QED
      BY <1>3, <3>1, <3>2
  <2> QED
    BY <2>1, <2>2
<1>7. ASSUME NEW s \in Seqs, NEW u, Compute(s, u) PROVE QuotaInv'
  <2> DEFINE new == Fresh(s, u)
             slot(b) == CHOOSE i \in new : table[s][i] = b
             fresh == {table[s][i] : i \in new}
  <2>1. /\ cached' = cached /\ older' = older
        /\ key' = [b \in Blocks |-> IF b \in fresh THEN Key(s, slot(b)) ELSE key[b]]
    BY <1>7 DEF Compute, Commit
  <2>2. \A b \in cached : b \notin fresh
    <3>1. \A i \in new : table[s][i] \in Blocks /\ table[s][i] \in BlocksOf(s)
      BY BlocksOfType DEF Fresh, FullBlocks, IInv
    <3> QED
      BY <3>1, RefMeaning
  <2> HIDE DEF fresh, slot
  <2> QED
    BY <1>1, <2>1, <2>2, ShrinkingKeepsQuotas DEF Shrinks
<1>8. ASSUME NEW s \in Seqs, Retire(s) \/ Preempt(s) PROVE QuotaInv'
  BY <1>8, DeallocateKeepsQuotas DEF Retire, Preempt
<1>9. ASSUME NEW s \in Seqs, NEW t, AppendToken(s, t) \/ Renew(s) PROVE QuotaInv'
  BY <1>2, <1>9 DEF AppendToken, Renew, bmVars, poolVars
<1>10. ASSUME PurgeAction PROVE QuotaInv'
  <2>1. PICK P \in SUBSET cached : Purge(P)
    BY <1>10 DEF PurgeAction, PurgeExpired, PurgeCachedBlocks, PurgeExpiredCachedBlocks, Expired
  <2> QED
    BY <1>3, <2>1 DEF Purge
<1>11. ASSUME NEW b \in Blocks, Expire(b) PROVE QuotaInv'
  BY <1>2, <1>11 DEF Expire
<1>12. QED
  BY <1>4, <1>5, <1>6, <1>7, <1>8, <1>9, <1>10, <1>11 DEF Next

(* An empty cache is within any quota.                                     *)
LEMMA QuotaInvInit == Init => QuotaInv
<1> SUFFICES ASSUME Init PROVE QuotaInv
  OBVIOUS
<1>1. cached = {} /\ older = {} /\ \A n : {b \in cached : NamespaceOf(b) = n} = {}
  BY DEF Init
<1>2. Cardinality({}) = 0
  BY FS_EmptySet
<1>3. QED
  BY <1>1, <1>2, ConfigAssumption DEF QuotaInv, QuotasHold, Orders

-----------------------------------------------------------------------------

(* The idle cache never exceeds the global quota nor, in any namespace,    *)
(* the quota per namespace.                                                *)
THEOREM QuotasAreKept == Spec => []QuotasHold
<1>1. QuotaInv => QuotasHold
  BY DEF QuotaInv
<1>2. QED
  BY <1>1, QuotaInvInit, NextKeepsQuotas, Invariance, PTL DEF Spec

(* The idle blocks are totally ordered by the time of their release, so    *)
(* that there is always one least recently used block to evict.            *)
THEOREM EvictionIsOrdered == Spec => []Orders(older, cached)
<1>1. QuotaInv => Orders(older, cached)
  BY DEF QuotaInv
<1>2. QED
  BY <1>1, QuotaInvInit, NextKeepsQuotas, Invariance, PTL DEF Spec

-----------------------------------------------------------------------------
(* What a call gives its caller                                            *)

(* n blocks are room for the tokens they can hold, and no more.            *)
LEMMA RoomFor ==
  ASSUME NEW t \in Nat, NEW n \in Nat
  PROVE  NumBlocksFor(t) <= n <=> t <= n * BlockSize
BY SizeAssumption DEF NumBlocksFor

(* A token lies in the block that NumBlocksFor names.                      *)
LEMMA BlockOfToken ==
  ASSUME NEW p \in Nat, p >= 1
  PROVE  /\ NumBlocksFor(p) \in Nat /\ NumBlocksFor(p) >= 1
         /\ (NumBlocksFor(p) - 1) * BlockSize < p /\ p <= NumBlocksFor(p) * BlockSize
BY SizeAssumption DEF NumBlocksFor

(* The available blocks are the idle ones.                                 *)
IdleCounted ==
  /\ IsFiniteSet(free \cup cached)
  /\ AvailableBlocks = Cardinality(free \cup cached) /\ AvailableBlocks \in Nat

(* The invariant makes available_blocks the number of the free and the     *)
(* idle.                                                                   *)
LEMMA AvailableIsIdle == IInv => IdleCounted
<1> SUFFICES ASSUME IInv PROVE IdleCounted
  OBVIOUS
<1>1. free \in SUBSET Blocks /\ cached \in SUBSET Blocks /\ free \cap cached = {}
  BY DEF IInv, TypeOK, PoolPartition
<1>2. IsFiniteSet(free) /\ IsFiniteSet(cached)
  BY <1>1, SetAssumption, FS_Subset
<1>3. Cardinality(free) \in Nat /\ Cardinality(cached) \in Nat
  BY <1>2, FS_CardinalityType
<1>4. /\ IsFiniteSet(free \cup cached)
      /\ Cardinality(free \cup cached) = Cardinality(free) + Cardinality(cached) - Cardinality(free \cap cached)
  BY <1>2, FS_Union
<1>5. Cardinality(free \cap cached) = 0
  BY <1>1, FS_EmptySet
<1>6. QED
  BY <1>3, <1>4, <1>5 DEF AvailableBlocks, IdleCounted

(* The members of a finite list are at most as many as its places.         *)
LEMMA AtMostAsMany ==
  ASSUME NEW n \in Nat, NEW f, DOMAIN f = 1..n
  PROVE  IsFiniteSet({f[i] : i \in 1..n}) /\ Cardinality({f[i] : i \in 1..n}) \in 0..n
<1> DEFINE T == {f[i] : i \in 1..n}
           g == [i \in 1..n |-> f[i]]
<1>1. g \in Surjection(1..n, T)
  BY DEF Surjection
<1>2. IsFiniteSet(1..n) /\ Cardinality(1..n) = n
  BY FS_Interval
<1> HIDE DEF T, g
<1>3. IsFiniteSet(T) /\ Cardinality(T) <= n
  BY <1>1, <1>2, FS_Surjection
<1>4. Cardinality(T) \in Nat
  BY <1>3, FS_CardinalityType
<1>5. QED
  BY <1>3, <1>4 DEF T

(* A purge frees cached blocks: as many are available as before.           *)
LEMMA PurgeGives ==
  ASSUME IInv, IInv', NEW P \in SUBSET cached, Purge(P)
  PROVE  AvailableBlocks' = AvailableBlocks
<1>1. IdleCounted /\ IdleCounted'
  BY AvailableIsIdle, PTL
<1>2. (free \cup cached)' = free \cup cached
  BY DEF Purge
<1>3. QED
  BY <1>1, <1>2 DEF IdleCounted

(* Nobody else's table or progress changes.                                *)
OthersUntouched(s) ==
  \A u \in Seqs : u # s => table'[u] = table[u] /\ computed'[u] = computed[u]

(* A lookup leaves something to compute, and attaches at least as many     *)
(* blocks as it takes from the available ones.                             *)
LEMMA MatchGives ==
  ASSUME IInv, IInv', NEW s \in Seqs, Match(s), computed[s] < target[s]
  PROVE  /\ OthersUntouched(s)
         /\ computed[s] <= computed'[s] /\ computed'[s] < target[s]
         /\ AvailableBlocks' + Len(table'[s]) >= AvailableBlocks + Len(table[s])
<1>0. TypeOK /\ IdleCounted /\ IdleCounted'
  <2>1. TypeOK
    BY DEF IInv
  <2>2. IdleCounted /\ IdleCounted'
    BY AvailableIsIdle, PTL
  <2> QED
    BY <2>1, <2>2
<1>1. /\ Len(table[s]) \in Nat /\ computed[s] \in Nat /\ target[s] \in Nat
      /\ Cardinality(free \cup cached) \in Nat
  BY <1>0, BlocksOfType, FS_CardinalityType DEF TypeOK, IdleCounted
<1>2. CASE table[s] # << >> \/ ~CacheOn(s)
  <2>1. UNCHANGED <<table, computed, free, cached>>
    BY <1>2 DEF Match, MatchCachedPrefix, bmVars, useVars, poolVars
  <2>2. AvailableBlocks' = AvailableBlocks
    BY <2>1 DEF AvailableBlocks
  <2> QED
    BY <1>0, <1>1, <2>1, <2>2 DEF OthersUntouched, IdleCounted
<1>3. CASE ~(table[s] # << >> \/ ~CacheOn(s))
  <2> DEFINE h == HashWithout(Expired)
             found(m) == [i \in 1..m |-> h[Key(s, i)]]
  <2>1. PICK m \in 0..target[s] :
          /\ \A i \in 1..m : Reusable(s, i) /\ Key(s, i) \in DOMAIN h
          /\ table' = [table EXCEPT ![s] = found(m)]
          /\ computed' = [computed EXCEPT ![s] = @ + m * BlockSize]
          /\ free' = free \cup Expired
          /\ cached' = cached \ (Expired \cup {h[Key(s, i)] : i \in 1..m})
    BY <1>3 DEF Match, MatchCachedPrefix
  <2> DEFINE hits == {h[Key(s, i)] : i \in 1..m}
  <2>2. m \in Nat /\ m * BlockSize \in Nat
    BY <1>1, <2>1, TimesBlockSize
  <2>3. table'[s] = found(m) /\ computed'[s] = computed[s] + m * BlockSize
    BY <1>0, <2>1 DEF TypeOK
  <2>4. OthersUntouched(s)
    BY <1>0, <2>1 DEF TypeOK, OthersUntouched
  <2>5. computed[s] = 0
    <3>1. computed[s] <= Len(table[s]) * BlockSize /\ Len(table[s]) = 0
      BY <1>3 DEF IInv, PrefixIntegrity
    <3> QED
      BY <1>1, <3>1, SizeAssumption
  <2>6. m * BlockSize < target[s]
    <3>1. CASE m = 0
      BY <1>1, <2>5, <3>1, SizeAssumption
    <3>2. CASE m # 0
      BY <2>1, <2>2, <3>2 DEF Reusable
    <3> QED
      BY <3>1, <3>2
  <2>7. Len(table'[s]) = m /\ DOMAIN found(m) = 1..m
    <3>1. found(m) \in Seq(Blocks)
      <4>1. table' \in [Seqs -> Seq(Blocks)]
        BY DEF IInv, TypeOK
      <4> QED
        BY <2>3, <4>1
    <3>2. DOMAIN found(m) = 1..m
      OBVIOUS
    <3> HIDE DEF found
    <3> QED
      BY <2>2, <2>3, <3>1, <3>2, LenProperties
  <2>8. IsFiniteSet(hits) /\ Cardinality(hits) \in 0..m
    <3> DEFINE f == found(m)
    <3>1. DOMAIN f = 1..m /\ {f[i] : i \in 1..m} = hits
      OBVIOUS
    <3> HIDE DEF f, hits
    <3> QED
      BY <2>2, <3>1, AtMostAsMany
  <2> HIDE DEF hits
  <2>9. (free \cup cached) \subseteq (free \cup cached)' \cup hits
    BY <2>1 DEF hits
  <2>10. Cardinality(free \cup cached) <= Cardinality((free \cup cached)') + Cardinality(hits)
    <3> DEFINE A == free \cup cached
               B == (free \cup cached)'
    <3>1. IsFiniteSet(B) /\ A \subseteq B \cup hits
      BY <1>0, <2>9 DEF IdleCounted
    <3> HIDE DEF A, B
    <3>2. IsFiniteSet(B \cup hits) /\ Cardinality(B \cup hits) = Cardinality(B) + Cardinality(hits) - Cardinality(B \cap hits)
      BY <2>8, <3>1, FS_Union
    <3>3. Cardinality(A) <= Cardinality(B \cup hits)
      BY <3>1, <3>2, FS_Subset
    <3>4. /\ Cardinality(A) \in Nat /\ Cardinality(B) \in Nat /\ Cardinality(hits) \in Nat
          /\ Cardinality(B \cap hits) \in Nat
      <4>1. IsFiniteSet(B \cap hits) /\ IsFiniteSet(A)
        BY <3>1, <3>2, FS_Subset
      <4> QED
        BY <2>8, <3>1, <4>1, FS_CardinalityType
    <3>5. Cardinality(A) <= Cardinality(B) + Cardinality(hits)
      BY <3>2, <3>3, <3>4
    <3> QED
      BY <3>5 DEF A, B
  <2>11. Cardinality((free \cup cached)') \in Nat
    BY <1>0, FS_CardinalityType DEF IdleCounted
  <2>12. Len(table[s]) = 0
    BY <1>3
  <2> QED
    <3>1. AvailableBlocks' + m >= AvailableBlocks
      BY <1>0, <1>1, <2>2, <2>8, <2>10, <2>11 DEF IdleCounted
    <3> QED
      BY <1>0, <1>1, <2>2, <2>3, <2>4, <2>5, <2>6, <2>7, <2>12, <3>1 DEF IdleCounted
<1>4. QED
  BY <1>2, <1>3

(* An allocation makes room for t tokens and takes what is missing.        *)
LEMMA EnsureGives ==
  ASSUME IInv, IInv', NEW s \in Seqs, NEW t \in Nat, EnsureBlocks(s, t)
  PROVE  /\ OthersUntouched(s) /\ computed' = computed
         /\ NumBlocksFor(t) <= Len(table'[s])
         /\ table' # table =>
              /\ NumBlocksFor(t) > Len(table[s])
              /\ AvailableBlocks' = AvailableBlocks - (NumBlocksFor(t) - Len(table[s]))
<1> DEFINE n == NumBlocksFor(t) - Len(table[s])
<1>0. TypeOK /\ IdleCounted /\ IdleCounted'
  <2>1. TypeOK
    BY DEF IInv
  <2>2. IdleCounted /\ IdleCounted'
    BY AvailableIsIdle, PTL
  <2> QED
    BY <2>1, <2>2
<1>1. Len(table[s]) \in Nat /\ NumBlocksFor(t) \in Int /\ Cardinality(free \cup cached) \in Nat
  BY <1>0, BlocksOfType, NumBlocksInt, FS_CardinalityType DEF IdleCounted
<1>2. CASE n <= 0
  <2>1. UNCHANGED <<table, computed>>
    BY <1>2 DEF EnsureBlocks, bmVars, useVars
  <2> QED
    BY <1>1, <1>2, <2>1 DEF OthersUntouched
<1>3. CASE ~(n <= 0)
  <2> DEFINE taken(f) == {f[i] : i \in 1..n}
  <2>1. PICK new \in Takings(n, free \cup Expired, cached \ Expired) :
          /\ table' = [table EXCEPT ![s] = @ \o new]
          /\ free' = (free \cup Expired) \ taken(new)
          /\ cached' = (cached \ Expired) \ taken(new)
          /\ computed' = computed
    BY <1>3 DEF EnsureBlocks
  <2>2. /\ n \in Nat /\ n >= 1
        /\ new \in [1..n -> free \cup cached]
        /\ \A i, j \in 1..n : new[i] = new[j] => i = j
    BY <1>1, <1>3, <2>1 DEF Takings, Expired
  <2>3. IsFiniteSet(taken(new)) /\ Cardinality(taken(new)) = n
    <3> DEFINE T == taken(new)
    <3>1. new \in Injection(1..n, T) /\ new \in Surjection(1..n, T)
      BY <2>2 DEF Injection, Surjection, IsInjective
    <3>2. ExistsBijection(1..n, T)
      BY <3>1 DEF ExistsBijection, Bijection
    <3> HIDE DEF T, n
    <3>3. IsFiniteSet(T) /\ Cardinality(T) = n
      BY <2>2, <3>2, FS_CountingElements, FS_NatBijection
    <3> QED
      BY <3>3 DEF T
  <2>4. taken(new) \subseteq free \cup cached
    BY <2>2
  <2>5. (free \cup cached)' = (free \cup cached) \ taken(new)
    BY <2>1 DEF Expired
  <2> HIDE DEF taken
  <2>6. Cardinality((free \cup cached)') = Cardinality(free \cup cached) - n
    <3> DEFINE A == free \cup cached
               T == taken(new)
    <3>1. IsFiniteSet(A) /\ A \cap T = T /\ (free \cup cached)' = A \ T
      BY <1>0, <2>4, <2>5 DEF IdleCounted
    <3> HIDE DEF A, T
    <3>2. Cardinality(A \ T) = Cardinality(A) - Cardinality(A \cap T)
      BY <3>1, FS_Difference
    <3> QED
      BY <2>3, <3>1, <3>2 DEF A, T
  <2>7. OthersUntouched(s)
    BY <1>0, <2>1 DEF TypeOK, OthersUntouched
  <2>8. Len(table'[s]) = Len(table[s]) + n
    <3>1. table[s] \in Seq(Blocks) /\ table'[s] = table[s] \o new
      BY <1>0, <2>1 DEF TypeOK
    <3>2. new \in Seq(Blocks) /\ Len(new) = n
      <4>1. new \in [1..n -> Blocks]
        BY <1>0, <2>2 DEF TypeOK
      <4> HIDE DEF n
      <4> QED
        BY <2>2, <4>1, SeqDef, LenProperties
    <3> HIDE DEF n
    <3> QED
      BY <3>1, <3>2, ConcatProperties
  <2>9. AvailableBlocks' = AvailableBlocks - n
    BY <1>0, <2>6 DEF IdleCounted
  <2> QED
    BY <1>1, <1>3, <2>1, <2>7, <2>8, <2>9
<1>4. QED
  BY <1>2, <1>3

(* A release empties the table of one request.                             *)
LEMMA DeallocateGives ==
  ASSUME TypeOK, NEW s \in Seqs, Deallocate(s)
  PROVE  OthersUntouched(s) /\ table'[s] = << >> /\ computed'[s] = 0
BY DEF Deallocate, TypeOK, OthersUntouched

(* The tokens a request has still to write lie in blocks that it has to    *)
(* itself and that are not published.                                      *)
LEMMA NewTokensArePrivate ==
  ASSUME IInv, NEW s \in Seqs, NEW p \in Nat, computed[s] < p, p <= Len(table[s]) * BlockSize
  PROVE  /\ NumBlocksFor(p) \in 1..Len(table[s])
         /\ table[s][NumBlocksFor(p)] \in Blocks
         /\ key[table[s][NumBlocksFor(p)]] = NoKey
         /\ ref[table[s][NumBlocksFor(p)]] = 1
<1> DEFINE i == NumBlocksFor(p)
           b == table[s][i]
<1>1. TypeOK /\ computed[s] \in Nat /\ Len(table[s]) \in Nat
  BY BlocksOfType DEF IInv, TypeOK
<1>2. i \in 1..Len(table[s]) /\ p <= i * BlockSize /\ i * BlockSize \in Nat
  <2>1. i \in Nat /\ i >= 1 /\ p <= i * BlockSize
    BY <1>1, BlockOfToken
  <2>2. i <= Len(table[s])
    BY <1>1, RoomFor
  <2> QED
    BY <1>1, <2>1, <2>2, TimesBlockSize
<1>3. b \in Blocks /\ b \in BlocksOf(s)
  BY <1>1, <1>2, BlocksOfType
<1>4. key[b] = NoKey
  BY <1>1, <1>2 DEF IInv, PrefixIntegrity
<1>5. Holders(b) = {s}
  BY <1>3, <1>4 DEF IInv, OneWriter, Holders
<1>6. ref[b] = 1
  BY <1>3, <1>5, FS_Singleton DEF IInv, RefCountsExact
<1>7. QED
  BY <1>2, <1>3, <1>4, <1>6

=============================================================================
