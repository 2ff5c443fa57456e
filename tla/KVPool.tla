------------------------------- MODULE KVPool -------------------------------
(***************************************************************************)
(* What the paged KV cache promises to the sequences that use it, without  *)
(* hashes, tables, quotas or an eviction order.                            *)
(*                                                                         *)
(* A block is owned by the sequences that read their keys and values from  *)
(* it.  A block with no label is private: its single owner may still write *)
(* it.  A labelled block is published: it may gain owners, and nobody may  *)
(* write it or take its label away while somebody owns it.                 *)
(*                                                                         *)
(* BlockManager.tla is shown to implement this specification; the labels   *)
(* are the (namespace, token prefix) keys of its prefix cache.             *)
(***************************************************************************)
EXTENDS Integers, FiniteSets

CONSTANTS
  Seqs,      \* the sequences (requests)
  Blocks,    \* the KV cache blocks
  Labels,    \* what a published block may hold
  NoLabel    \* the label of a private block

VARIABLES
  owners,    \* owners[b]: the sequences whose block table holds block b
  label      \* label[b]: what block b was published as, or NoLabel

vars == <<owners, label>>

Idle == {b \in Blocks : owners[b] = {}}
Owned(s) == {b \in Blocks : s \in owners[b]}

Init ==
  /\ owners = [b \in Blocks |-> {}]
  /\ label = [b \in Blocks |-> NoLabel]

(* Every operation may also withdraw the labels of some idle blocks:       *)
(* expired entries are purged on the way into most calls of the cache.     *)
LabelWithout(P) == [b \in Blocks |-> IF b \in P THEN NoLabel ELSE label[b]]

(* s takes idle blocks to write to; what they held before is forgotten.    *)
Acquire(s, B) ==
  /\ B \subseteq Idle
  /\ owners' = [b \in Blocks |-> IF b \in B THEN {s} ELSE owners[b]]
  /\ \E P \in SUBSET Idle : label' = LabelWithout(B \cup P)

(* A sequence that owns nothing yet becomes an owner of published blocks.  *)
Share(s, B) ==
  /\ Owned(s) = {}
  /\ \A b \in B : label[b] # NoLabel
  /\ owners' = [b \in Blocks |-> IF b \in B THEN owners[b] \cup {s} ELSE owners[b]]
  /\ \E P \in SUBSET (Idle \ B) : label' = LabelWithout(P)

(* s publishes some of the blocks that are its own, under unused labels:   *)
(* a content is published once.                                            *)
Publish(s) ==
  /\ UNCHANGED owners
  /\ label' \in [Blocks -> Labels \cup {NoLabel}]
  /\ \A b \in Blocks : label'[b] # label[b] =>
        /\ owners[b] = {s}
        /\ label[b] = NoLabel
        /\ \A c \in Blocks \ {b} : label'[c] # label'[b]

(* s lets go of all its blocks; blocks left idle may lose their label.     *)
Release(s) ==
  /\ owners' = [b \in Blocks |-> owners[b] \ {s}]
  /\ \E P \in SUBSET {b \in Blocks : owners'[b] = {}} : label' = LabelWithout(P)

(* Idle published blocks are forgotten (purge, expiry).                    *)
Reclaim ==
  /\ UNCHANGED owners
  /\ \E P \in SUBSET Idle : label' = LabelWithout(P)

Next ==
  \/ Reclaim
  \/ \E s \in Seqs :
       \/ Publish(s)
       \/ Release(s)
       \/ \E B \in SUBSET Idle : Acquire(s, B)
       \/ \E B \in SUBSET Blocks : Share(s, B)

Spec == Init /\ [][Next]_vars

-----------------------------------------------------------------------------

TypeOK ==
  /\ owners \in [Blocks -> SUBSET Seqs]
  /\ label \in [Blocks -> Labels \cup {NoLabel}]

(* Two sequences read the same block only after it was published: a block  *)
(* that can still be written has at most one owner, so no sequence         *)
(* overwrites another one's keys and values.                               *)
PrivateUntilPublished ==
  \A b \in Blocks : \A s, t \in owners[b] : s # t => label[b] # NoLabel

(* One content is published by one block only, so the hash table of the    *)
(* cache can be a function from content to block.                          *)
LabelsUnique ==
  \A b, c \in Blocks : label[b] = label[c] /\ label[b] # NoLabel => b = c

(* A published block stays what it is for as long as it has an owner: a    *)
(* cached block is never recycled or relabelled while it is referenced.    *)
NoRelabelWhileOwned ==
  [][\A b \in Blocks : label[b] # NoLabel /\ owners[b] # {} /\ owners'[b] # {}
        => label'[b] = label[b]]_vars
=============================================================================
