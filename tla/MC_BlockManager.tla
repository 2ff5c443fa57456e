-------------------------- MODULE MC_BlockManager --------------------------
(***************************************************************************)
(* Instances of BlockManager for TLC, and the loop of deallocate in        *)
(* block_manager.py as a reference for the closed form of Deallocate.      *)
(***************************************************************************)
EXTENDS BlockManager, SequencesExt

CONSTANTS s1, s2, s3, b1, b2, b3, b4, n1, n2

BlockSymmetry == Permutations(Blocks)

AllOn == [s \in Seqs |-> TRUE]
OnlyS1 == [s \in Seqs |-> s = s1]

(* The same tokens are worth three cached blocks in the namespace of s1    *)
(* and s2, over its quota, and two in the other; the four that both quotas *)
(* together leave are over the global one.  s2 caches up to a breakpoint   *)
(* only, s3 generates a token.                                             *)
QuotaPrompt == [s \in Seqs |-> CASE s = s1 -> <<1, 1, 1>> [] s = s2 -> <<1, 1>> [] s = s3 -> <<1>>]
QuotaMax == [s \in Seqs |-> IF s = s3 THEN 1 ELSE 0]
QuotaNs == [s \in Seqs |-> IF s = s3 THEN n2 ELSE n1]
QuotaBreakpoints == [s \in Seqs |-> IF s = s2 THEN {1, 5} ELSE {}]

-----------------------------------------------------------------------------
(* deallocate as the source writes it: one block at a time, each stamped   *)
(* with a new clock, each enforcing both quotas before the next.           *)

Pools == [free |-> free, cached |-> cached, used |-> used, older |-> older, ref |-> ref,
          key |-> key, expiry |-> expiry, hash |-> hashToBlock]

Freed(p, b) ==
  [p EXCEPT !.free = @ \cup {b}, !.cached = @ \ {b},
            !.older = {e \in @ : b \notin {e[1], e[2]}},
            !.key[b] = NoKey, !.expiry[b] = "none",
            !.hash = [k \in {k \in DOMAIN @ : ~(k = p.key[b] /\ @[k] = b)} |-> @[k]]]

Oldest(p, C) == CHOOSE b \in C : \A c \in C : <<c, b>> \notin p.older

RECURSIVE Enforce(_, _, _)
Enforce(p, quota, N) ==
  LET C == {b \in p.cached : p.key[b][1] \in N}
  IN  IF quota = 0 \/ Cardinality(C) <= quota THEN p
      ELSE Enforce(Freed(p, Oldest(p, C)), quota, N)

ReleaseBlock(p, b) ==
  LET q == [p EXCEPT !.ref[b] = @ - 1]
      idle == [q EXCEPT !.used = @ \ {b}]
      aged == [idle EXCEPT !.older = @ \cup (idle.cached \X {b}),
                           !.cached = @ \cup {b}]
  IN  CASE q.ref[b] > 0 -> q
        [] q.ref[b] = 0 /\ EnablePrefixCache /\ q.key[b] # NoKey ->
             Enforce(Enforce(aged, MaxCachedPerNs, {p.key[b][1]}), MaxCached, Namespaces)
        [] OTHER -> Freed(idle, b)

(* The closed form of Deallocate is what the loop computes: evicting per   *)
(* released block, namespace quota first, leaves what evicting once for    *)
(* the whole table leaves.                                                 *)
DeallocateIsTheLoop ==
  [][\A s \in Seqs : Deallocate(s) =>
       Pools' = FoldLeft(ReleaseBlock, Pools, Reverse(table[s]))]_vars
=============================================================================
