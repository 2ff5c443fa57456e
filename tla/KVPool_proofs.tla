--------------------------- MODULE KVPool_proofs ---------------------------
(***************************************************************************)
(* The promises of KVPool hold for any sets of sequences, blocks and       *)
(* labels.                                                                 *)
(***************************************************************************)
EXTENDS KVPool, TLAPS

(* What a step other than a publication does to the labels: it takes some  *)
(* from blocks whose owners, before or after the step, are none, and gives *)
(* none; a block taken to write to has no label any more.                  *)
Withdraws == \A b \in Blocks :
  /\ label'[b] = label[b] \/ label'[b] = NoLabel
  /\ owners[b] # {} /\ owners'[b] # {} => label'[b] = label[b]

(* Taking idle blocks gives each of them one owner and no label.           *)
LEMMA AcquireMeans ==
  ASSUME TypeOK, NEW s \in Seqs, NEW B \in SUBSET Blocks, Acquire(s, B)
  PROVE  /\ TypeOK' /\ Withdraws
         /\ \A b \in Blocks : owners'[b] = IF b \in B THEN {s} ELSE owners[b]
<1>1. PICK P \in SUBSET Idle : label' = LabelWithout(B \cup P)
  BY DEF Acquire
<1>2. QED
  BY <1>1 DEF Acquire, Withdraws, Idle, LabelWithout, TypeOK

(* Sharing adds an owner to published blocks, which stay published.        *)
LEMMA ShareMeans ==
  ASSUME TypeOK, NEW s \in Seqs, NEW B \in SUBSET Blocks, Share(s, B)
  PROVE  /\ TypeOK' /\ Withdraws
         /\ \A b \in Blocks :
              /\ b \in B => label'[b] = label[b] /\ label[b] # NoLabel
              /\ b \notin B => owners'[b] = owners[b]
<1>1. PICK P \in SUBSET (Idle \ B) : label' = LabelWithout(P)
  BY DEF Share
<1>2. QED
  BY <1>1 DEF Share, Withdraws, Idle, LabelWithout, TypeOK

(* Letting go takes one owner away.                                        *)
LEMMA ReleaseMeans ==
  ASSUME TypeOK, NEW s \in Seqs, Release(s)
  PROVE  /\ TypeOK' /\ Withdraws
         /\ \A b \in Blocks : owners'[b] = owners[b] \ {s}
<1>1. PICK P \in SUBSET {b \in Blocks : owners'[b] = {}} : label' = LabelWithout(P)
  BY DEF Release
<1>2. QED
  BY <1>1 DEF Release, Withdraws, LabelWithout, TypeOK

(* Forgetting leaves the owners alone.                                     *)
LEMMA ReclaimMeans ==
  ASSUME TypeOK, Reclaim
  PROVE  TypeOK' /\ Withdraws /\ owners' = owners
<1>1. PICK P \in SUBSET Idle : label' = LabelWithout(P)
  BY DEF Reclaim
<1>2. QED
  BY <1>1 DEF Reclaim, Withdraws, Idle, LabelWithout, TypeOK

(* The variables keep their types: every owner is a sequence, every label  *)
(* a known one.                                                            *)
THEOREM TypeCorrect == Spec => []TypeOK
<1>1. Init => TypeOK
  BY DEF Init, TypeOK
<1>2. TypeOK /\ [Next]_vars => TypeOK'
  <2> SUFFICES ASSUME TypeOK, [Next]_vars PROVE TypeOK'
    OBVIOUS
  <2>1. ASSUME NEW s \in Seqs, Publish(s) PROVE TypeOK'
    BY <2>1 DEF Publish, TypeOK
  <2>2. CASE UNCHANGED vars
    BY <2>2 DEF vars, TypeOK
  <2>3. QED
    BY <2>1, <2>2, AcquireMeans, ShareMeans, ReleaseMeans, ReclaimMeans DEF Next, Idle
<1>3. QED
  BY <1>1, <1>2, PTL DEF Spec

(* What the promises need to be inductive together.                        *)
IInv == TypeOK /\ PrivateUntilPublished /\ LabelsUnique

(* No block is owned or labelled at the start.                             *)
LEMMA IInvInit == Init => IInv
BY DEF Init, IInv, TypeOK, PrivateUntilPublished, LabelsUnique

(* Withdrawing labels leaves them unique.                                  *)
LEMMA WithdrawsKeepsLabelsUnique == LabelsUnique /\ Withdraws => LabelsUnique'
BY DEF LabelsUnique, Withdraws

(* A block with two owners after a step had them before it or was          *)
(* published before it; either way it keeps its label.                     *)
LEMMA WithdrawsKeepsPrivate ==
  ASSUME PrivateUntilPublished, Withdraws,
         \A b \in Blocks : \A u, v \in owners'[b] : u # v =>
           (u \in owners[b] /\ v \in owners[b]) \/ (label'[b] = label[b] /\ label[b] # NoLabel)
  PROVE  PrivateUntilPublished'
BY DEF PrivateUntilPublished, Withdraws

(* Publishing gives a label nobody else has to a block with one owner.     *)
LEMMA PublishKeepsIInv ==
  ASSUME IInv, NEW s \in Seqs, Publish(s)
  PROVE  IInv'
<1>1. TypeOK' /\ PrivateUntilPublished'
  BY DEF Publish, IInv, TypeOK, PrivateUntilPublished
<1>2. LabelsUnique'
  <2> SUFFICES ASSUME NEW b \in Blocks, NEW c \in Blocks,
                      label'[b] = label'[c], label'[b] # NoLabel, b # c
               PROVE  FALSE
    BY DEF LabelsUnique
  <2>1. label'[b] = label[b] /\ label'[c] = label[c]
    BY DEF Publish
  <2> QED
    BY <2>1 DEF IInv, LabelsUnique
<1>3. QED
  BY <1>1, <1>2 DEF IInv

(* Two owners of a block only after it was published, and every content    *)
(* published by one block only, however the pool is used.                  *)
THEOREM PoolIsSafe == Spec => [](PrivateUntilPublished /\ LabelsUnique)
<1>1. IInv /\ [Next]_vars => IInv'
  <2> SUFFICES ASSUME IInv, [Next]_vars PROVE IInv'
    OBVIOUS
  <2>1. ASSUME NEW s \in Seqs, NEW B \in SUBSET Blocks, Acquire(s, B) PROVE IInv'
    BY <2>1, AcquireMeans, WithdrawsKeepsLabelsUnique, WithdrawsKeepsPrivate DEF IInv
  <2>2. ASSUME NEW s \in Seqs, NEW B \in SUBSET Blocks, Share(s, B) PROVE IInv'
    BY <2>2, ShareMeans, WithdrawsKeepsLabelsUnique, WithdrawsKeepsPrivate DEF IInv
  <2>3. ASSUME NEW s \in Seqs, Release(s) PROVE IInv'
    BY <2>3, ReleaseMeans, WithdrawsKeepsLabelsUnique, WithdrawsKeepsPrivate DEF IInv
  <2>4. CASE Reclaim
    BY <2>4, ReclaimMeans, WithdrawsKeepsLabelsUnique, WithdrawsKeepsPrivate DEF IInv
  <2>5. CASE UNCHANGED vars
    BY <2>5 DEF vars, IInv, TypeOK, PrivateUntilPublished, LabelsUnique
  <2>6. QED
    BY <2>1, <2>2, <2>3, <2>4, <2>5, PublishKeepsIInv DEF Next, Idle
<1>2. IInv => PrivateUntilPublished /\ LabelsUnique
  BY DEF IInv
<1>3. QED
  BY <1>1, <1>2, IInvInit, PTL DEF Spec

(* A published block that keeps an owner keeps its label: no step of the   *)
(* pool recycles or relabels it under a reader.                            *)
THEOREM PublishedStays == Spec => NoRelabelWhileOwned
<1> DEFINE Stays == \A b \in Blocks : label[b] # NoLabel /\ owners[b] # {} /\ owners'[b] # {}
                      => label'[b] = label[b]
<1>1. TypeOK /\ [Next]_vars => [Stays]_vars
  <2> SUFFICES ASSUME TypeOK, Next PROVE Stays
    OBVIOUS
  <2>1. ASSUME NEW s \in Seqs, Publish(s) PROVE Stays
    BY <2>1 DEF Publish
  <2>2. Withdraws => Stays
    BY DEF Withdraws
  <2>3. QED
    BY <2>1, <2>2, AcquireMeans, ShareMeans, ReleaseMeans, ReclaimMeans DEF Next, Idle
<1>2. QED
  BY <1>1, TypeCorrect, PTL DEF Spec, NoRelabelWhileOwned
=============================================================================
