---------------------------- MODULE Queues_proofs ----------------------------
(***************************************************************************)
(* Facts about queues without repetitions, for any queue: what sorting,    *)
(* filtering, removing, appending and taking the head do to its members.   *)
(***************************************************************************)
EXTENDS Queues, SequencesExt, FiniteSetTheorems, SequenceTheorems, TLAPS

-----------------------------------------------------------------------------
(* Sorting                                                                 *)

(* R orders I strictly and totally. *)
IsStrictOrder(I, R) ==
  /\ \A i \in I : <<i, i>> \notin R
  /\ \A i, j, k \in I : <<i, j>> \in R /\ <<j, k>> \in R => <<i, k>> \in R
  /\ \A i, j \in I : i = j \/ <<i, j>> \in R \/ <<j, i>> \in R

(* The members of I before i.                                              *)
Before(i, I, R) == {j \in I : <<j, i>> \in R}

(* Those before i are finitely many, and fewer than those before a later   *)
(* member.                                                                 *)
LEMMA RankGrows ==
  ASSUME NEW I, NEW R, IsFiniteSet(I), IsStrictOrder(I, R), NEW i \in I
  PROVE  /\ Cardinality(Before(i, I, R)) \in 0..Cardinality(I) - 1
         /\ \A j \in I : <<i, j>> \in R =>
              Cardinality(Before(i, I, R)) < Cardinality(Before(j, I, R))
<1> DEFINE B(j) == Before(j, I, R)
<1>1. \A j \in I : IsFiniteSet(B(j)) /\ Cardinality(B(j)) \in Nat
  BY FS_Subset, FS_CardinalityType DEF Before
<1>2. i \notin B(i) /\ B(i) \subseteq I
  BY DEF Before, IsStrictOrder
<1> HIDE DEF B
<1>3. Cardinality(B(i) \cup {i}) = Cardinality(B(i)) + 1
  BY <1>1, <1>2, FS_AddElement
<1>4. Cardinality(I) \in Nat /\ Cardinality(B(i) \cup {i}) <= Cardinality(I)
  BY <1>2, FS_Subset, FS_CardinalityType
<1>5. ASSUME NEW j \in I, <<i, j>> \in R PROVE Cardinality(B(i)) < Cardinality(B(j))
  <2>1. B(i) \cup {i} \subseteq B(j)
    BY <1>5 DEF B, Before, IsStrictOrder
  <2>2. Cardinality(B(i) \cup {i}) <= Cardinality(B(j))
    BY <1>1, <2>1, FS_Subset
  <2> QED
    BY <1>1, <1>3, <2>2
<1>6. QED
  BY <1>1, <1>3, <1>4, <1>5 DEF B

(* Sorted lists every member of I once, in the order R.                    *)
LEMMA SortedEnumerates ==
  ASSUME NEW I, NEW R, IsFiniteSet(I), IsStrictOrder(I, R)
  PROVE  /\ Cardinality(I) \in Nat
         /\ Sorted(I, R) \in [1..Cardinality(I) -> I]
         /\ \A k, l \in 1..Cardinality(I) :
              /\ Sorted(I, R)[k] = Sorted(I, R)[l] => k = l
              /\ k < l => <<Sorted(I, R)[k], Sorted(I, R)[l]>> \in R
         /\ \A i \in I : \E k \in 1..Cardinality(I) : Sorted(I, R)[k] = i
<1> DEFINE n == Cardinality(I)
           rank == [i \in I |-> Cardinality(Before(i, I, R)) + 1]
           order == Sorted(I, R)
<1>1. n \in Nat
  BY FS_CardinalityType
<1>2. rank \in [I -> 1..n]
  <2>1. \A i \in I : Cardinality(Before(i, I, R)) + 1 \in 1..n
    BY <1>1, RankGrows
  <2> QED
    BY <2>1
<1>3. \A i, j \in I : <<i, j>> \in R => rank[i] < rank[j]
  <2>1. \A i, j \in I :
          <<i, j>> \in R => Cardinality(Before(i, I, R)) < Cardinality(Before(j, I, R))
    BY RankGrows
  <2>2. \A i \in I : Cardinality(Before(i, I, R)) \in Int
    BY <1>1, RankGrows
  <2> QED
    BY <2>1, <2>2
<1>4. \A k \in 1..n : order[k] = CHOOSE i \in I : rank[i] = k
  <2>1. ASSUME NEW k \in 1..n, NEW i \in I
        PROVE  rank[i] = k <=> Cardinality(Before(i, I, R)) = k - 1
    <3>1. Cardinality(Before(i, I, R)) \in Int /\ k \in Int
      BY <1>1, RankGrows
    <3> QED
      BY <3>1
  <2>2. ASSUME NEW k \in 1..n
        PROVE  (CHOOSE i \in I : rank[i] = k) =
               (CHOOSE i \in I : Cardinality({j \in I : <<j, i>> \in R}) = k - 1)
    <3> HIDE DEF rank
    <3> QED
      BY <2>1 DEF Before
  <2> QED
    BY <2>2 DEF Sorted
<1>5. order = [k \in 1..n |-> CHOOSE i \in I : Cardinality({j \in I : <<j, i>> \in R}) = k - 1]
  BY DEF Sorted
<1> HIDE DEF rank, order
<1>6. \A i, j \in I : rank[i] = rank[j] => i = j
  <2>1. \A i \in I : rank[i] \in Int
    BY <1>1, <1>2
  <2> SUFFICES ASSUME NEW i \in I, NEW j \in I, i # j PROVE rank[i] # rank[j]
    OBVIOUS
  <2>2. <<i, j>> \in R \/ <<j, i>> \in R
    BY DEF IsStrictOrder
  <2> QED
    BY <1>3, <2>1, <2>2
<1>7. \A k \in 1..n : \E i \in I : rank[i] = k
  <2>1. rank \in Injection(I, 1..n)
    BY <1>2, <1>6 DEF Injection, IsInjective
  <2>2. IsFiniteSet(1..n) /\ Cardinality(1..n) = n
    BY <1>1, FS_Interval
  <2>3. rank \in Surjection(I, 1..n)
    BY <2>1, <2>2, FS_Injection
  <2> QED
    BY <2>3 DEF Surjection
<1>8. \A k \in 1..n : order[k] \in I /\ rank[order[k]] = k
  BY <1>4, <1>7
<1>9. order \in [1..n -> I]
  <2>1. \A k \in 1..n :
          (CHOOSE i \in I : Cardinality({j \in I : <<j, i>> \in R}) = k - 1) \in I
    BY <1>5, <1>8
  <2> QED
    BY <1>5, <2>1
<1>10. \A k, l \in 1..n : order[k] = order[l] => k = l
  BY <1>8
<1>11. \A i \in I : rank[i] \in 1..n /\ order[rank[i]] = i
  BY <1>2, <1>6, <1>8
<1>12. ASSUME NEW k \in 1..n, NEW l \in 1..n, k < l PROVE <<order[k], order[l]>> \in R
  <2>1. order[k] # order[l] /\ ~(<<order[l], order[k]>> \in R)
    BY <1>1, <1>3, <1>8, <1>12
  <2> QED
    BY <1>8, <2>1 DEF IsStrictOrder
<1>13. QED
  BY <1>1, <1>9, <1>10, <1>11, <1>12 DEF order

(* A nonempty set of places has a last and a first one.                    *)
LEMMA LastPlace ==
  ASSUME NEW n \in Nat, NEW I \in SUBSET (1..n), I # {}
  PROVE  /\ Max(I) \in I /\ \A i \in I : Max(I) >= i
         /\ Min(I) \in I /\ \A i \in I : Min(I) <= i
<1> DEFINE Down == {e \in I \X I : e[1] > e[2]}
           Up == {e \in I \X I : e[1] < e[2]}
<1>1. IsFiniteSet(I) /\ \A i \in I : i \in Int
  <2>1. IsFiniteSet(1..n)
    BY FS_Interval
  <2>2. IsFiniteSet(I)
    BY <2>1, FS_Subset
  <2> QED
    BY <2>2
<1>2. \A i, j \in I : (<<i, j>> \in Down <=> i > j) /\ (<<i, j>> \in Up <=> i < j)
  OBVIOUS
<1> HIDE DEF Down, Up
<1>3. IsStrictOrder(I, Down) /\ IsStrictOrder(I, Up)
  BY <1>1, <1>2 DEF IsStrictOrder
<1>4. ASSUME NEW R, IsStrictOrder(I, R)
      PROVE  \E i \in I : \A j \in I : j = i \/ <<i, j>> \in R
  <2>1. PICK i \in I : TRUE
    OBVIOUS
  <2>2. /\ Cardinality(I) \in Nat
        /\ \A k \in 1..Cardinality(I) : Sorted(I, R)[k] \in I
        /\ \A k, l \in 1..Cardinality(I) :
             k < l => <<Sorted(I, R)[k], Sorted(I, R)[l]>> \in R
        /\ \A j \in I : \E k \in 1..Cardinality(I) : Sorted(I, R)[k] = j
    BY <1>1, <1>4, SortedEnumerates
  <2>3. 1 \in 1..Cardinality(I)
    BY <2>1, <2>2
  <2>4. ASSUME NEW j \in I, j # Sorted(I, R)[1] PROVE <<Sorted(I, R)[1], j>> \in R
    <3>1. PICK k \in 1..Cardinality(I) : Sorted(I, R)[k] = j
      BY <2>2
    <3>2. 1 < k
      BY <2>2, <2>4, <3>1
    <3> QED
      BY <2>2, <2>3, <3>1, <3>2
  <2>5. \A j \in I : j = Sorted(I, R)[1] \/ <<Sorted(I, R)[1], j>> \in R
    BY <2>4
  <2>6. Sorted(I, R)[1] \in I
    BY <2>2, <2>3
  <2> QED
    BY <2>5, <2>6
<1>5. \E i \in I : \A j \in I : i >= j
  <2>1. PICK i \in I : \A j \in I : j = i \/ <<i, j>> \in Down
    BY <1>3, <1>4
  <2>2. ASSUME NEW j \in I PROVE i >= j
    <3>1. i \in Int /\ j \in Int
      BY <1>1
    <3>2. <<i, j>> \in Down <=> i > j
      BY <1>2
    <3> QED
      BY <2>1, <3>1, <3>2
  <2> QED
    BY <2>2
<1>6. \E i \in I : \A j \in I : i <= j
  <2>1. PICK i \in I : \A j \in I : j = i \/ <<i, j>> \in Up
    BY <1>3, <1>4
  <2>2. ASSUME NEW j \in I PROVE i <= j
    <3>1. i \in Int /\ j \in Int
      BY <1>1
    <3>2. <<i, j>> \in Up <=> i < j
      BY <1>2
    <3> QED
      BY <2>1, <3>1, <3>2
  <2> QED
    BY <2>2
<1>7. QED
  BY <1>5, <1>6 DEF Max, Min

-----------------------------------------------------------------------------
(* Queues                                                                  *)

(* The members of a queue.                                                 *)
LEMMA MembersOf ==
  ASSUME NEW S, NEW q \in Seq(S)
  PROVE  /\ Len(q) \in Nat /\ DOMAIN q = 1..Len(q)
         /\ ToSet(q) \subseteq S
         /\ \A x : x \in ToSet(q) <=> \E i \in 1..Len(q) : q[i] = x
         /\ q # << >> <=> Len(q) > 0
         /\ q # << >> <=> ToSet(q) # {}
         /\ q \in Seq(ToSet(q))
<1>1. Len(q) \in Nat /\ DOMAIN q = 1..Len(q) /\ \A i \in 1..Len(q) : q[i] \in S
  BY LenProperties, ElementOfSeq
<1>2. ToSet(q) \subseteq S /\ \A x : x \in ToSet(q) <=> \E i \in 1..Len(q) : q[i] = x
  BY <1>1 DEF ToSet
<1>3. q # << >> <=> Len(q) > 0
  BY <1>1, EmptySeq
<1>4. ToSet(q) # {} <=> Len(q) > 0
  BY <1>1, <1>2
<1>5. q \in Seq(ToSet(q))
  <2>1. ToSet(q) = Range(q)
    BY DEF ToSet, Range
  <2> QED
    BY <2>1, SeqOfRange
<1>6. QED
  BY <1>1, <1>2, <1>3, <1>4, <1>5

(* A queue without repetitions is as long as it has members.               *)
LEMMA LengthOfDistinct ==
  ASSUME NEW S, NEW q \in Seq(S), IsInjective(q)
  PROVE  IsFiniteSet(ToSet(q)) /\ Cardinality(ToSet(q)) = Len(q)
<1>1. Len(q) \in Nat /\ q \in [1..Len(q) -> ToSet(q)]
  <2>1. q \in Seq(ToSet(q))
    BY MembersOf
  <2> QED
    BY <2>1, LenProperties
<1>2. q \in Injection(1..Len(q), ToSet(q)) /\ q \in Surjection(1..Len(q), ToSet(q))
  BY <1>1 DEF Injection, Surjection, ToSet
<1>3. ExistsBijection(1..Len(q), ToSet(q))
  BY <1>2 DEF ExistsBijection, Bijection
<1>4. QED
  BY <1>1, <1>3, FS_CountingElements, FS_NatBijection

(* Taking the head leaves the others.                                      *)
LEMMA TailOfDistinct ==
  ASSUME NEW S, NEW q \in Seq(S), IsInjective(q), q # << >>
  PROVE  /\ Head(q) \in S /\ Head(q) \in ToSet(q) /\ Head(q) = q[1]
         /\ Tail(q) \in Seq(S) /\ IsInjective(Tail(q))
         /\ ToSet(Tail(q)) = ToSet(q) \ {Head(q)}
<1>1. /\ Head(q) \in S /\ Tail(q) \in Seq(S) /\ Len(Tail(q)) = Len(q) - 1
      /\ \A i \in 1..Len(q) - 1 : Tail(q)[i] = q[i + 1]
  BY HeadTailProperties
<1>2. /\ Len(q) \in Nat /\ Len(q) > 0 /\ DOMAIN q = 1..Len(q) /\ Head(q) = q[1]
      /\ DOMAIN Tail(q) = 1..Len(q) - 1
  BY <1>1, MembersOf
<1>3. \A i \in 1..Len(q) - 1 : i + 1 \in 1..Len(q) /\ i + 1 # 1
  BY <1>2
<1>4. IsInjective(Tail(q))
  <2>1. ASSUME NEW i \in 1..Len(q) - 1, NEW j \in 1..Len(q) - 1, q[i + 1] = q[j + 1]
        PROVE  i = j
    <3>1. i + 1 = j + 1
      BY <1>2, <1>3, <2>1 DEF IsInjective
    <3> QED
      BY <1>2, <3>1
  <2> QED
    BY <1>1, <1>2, <2>1 DEF IsInjective
<1>5. \A x : x \in ToSet(Tail(q)) => x \in ToSet(q) /\ x # Head(q)
  BY <1>1, <1>2, <1>3 DEF IsInjective, ToSet
<1>6. ASSUME NEW x \in ToSet(q), x # Head(q) PROVE x \in ToSet(Tail(q))
  <2>1. PICK i \in 1..Len(q) : q[i] = x
    BY MembersOf
  <2>2. i - 1 \in 1..Len(q) - 1 /\ (i - 1) + 1 = i
    BY <1>2, <1>6, <2>1
  <2>3. Tail(q)[i - 1] = x
    BY <1>1, <2>1, <2>2
  <2> QED
    BY <1>2, <2>2, <2>3 DEF ToSet
<1>7. Head(q) \in ToSet(q)
  BY <1>2 DEF ToSet
<1>8. QED
  BY <1>1, <1>2, <1>4, <1>5, <1>6, <1>7

(* Two queues that share no member, one behind the other.                  *)
LEMMA ConcatOfDistinct ==
  ASSUME NEW S, NEW p \in Seq(S), NEW q \in Seq(S)
  PROVE  /\ p \o q \in Seq(S)
         /\ ToSet(p \o q) = ToSet(p) \cup ToSet(q)
         /\ IsInjective(p) /\ IsInjective(q) /\ ToSet(p) \cap ToSet(q) = {}
              => IsInjective(p \o q)
<1>1. /\ p \o q \in Seq(S) /\ Len(p \o q) = Len(p) + Len(q)
      /\ \A i \in 1..Len(p) + Len(q) :
           (p \o q)[i] = IF i <= Len(p) THEN p[i] ELSE q[i - Len(p)]
  BY ConcatProperties
<1>2. /\ Len(p) \in Nat /\ DOMAIN p = 1..Len(p)
      /\ Len(q) \in Nat /\ DOMAIN q = 1..Len(q)
      /\ DOMAIN (p \o q) = 1..Len(p) + Len(q)
  BY <1>1, MembersOf
<1>3. \A i \in 1..Len(p) : i \in 1..Len(p) + Len(q) /\ (p \o q)[i] = p[i]
  BY <1>1, <1>2
<1>4. \A i \in 1..Len(q) : i + Len(p) \in 1..Len(p) + Len(q) /\ (p \o q)[i + Len(p)] = q[i]
  BY <1>1, <1>2
<1>5. \A i \in 1..Len(p) + Len(q) : i \in 1..Len(p) \/ i - Len(p) \in 1..Len(q)
  BY <1>2
<1>6. \A x : x \in ToSet(p) \/ x \in ToSet(q) => x \in ToSet(p \o q)
  BY <1>2, <1>3, <1>4 DEF ToSet
<1>7. \A x : x \in ToSet(p \o q) => x \in ToSet(p) \/ x \in ToSet(q)
  BY <1>1, <1>2, <1>5 DEF ToSet
<1>8. ASSUME IsInjective(p), IsInjective(q), ToSet(p) \cap ToSet(q) = {}
      PROVE  IsInjective(p \o q)
  <2> SUFFICES ASSUME NEW i \in 1..Len(p) + Len(q), NEW j \in 1..Len(p) + Len(q),
                      (p \o q)[i] = (p \o q)[j]
               PROVE  i = j
    BY <1>2 DEF IsInjective
  <2>1. CASE i <= Len(p) /\ j <= Len(p)
    BY <1>1, <1>2, <1>8, <2>1 DEF IsInjective
  <2>2. CASE ~(i <= Len(p)) /\ ~(j <= Len(p))
    <3>1. i - Len(p) \in 1..Len(q) /\ j - Len(p) \in 1..Len(q)
      BY <1>2, <2>2
    <3>2. i - Len(p) = j - Len(p)
      BY <1>1, <1>2, <1>8, <2>2, <3>1 DEF IsInjective
    <3> QED
      BY <1>2, <3>2
  <2>3. CASE i <= Len(p) /\ ~(j <= Len(p))
    <3>1. i \in 1..Len(p) /\ j - Len(p) \in 1..Len(q) /\ p[i] = q[j - Len(p)]
      BY <1>1, <1>2, <2>3
    <3> QED
      BY <1>2, <1>8, <3>1 DEF ToSet
  <2>4. CASE ~(i <= Len(p)) /\ j <= Len(p)
    <3>1. j \in 1..Len(p) /\ i - Len(p) \in 1..Len(q) /\ p[j] = q[i - Len(p)]
      BY <1>1, <1>2, <2>4
    <3> QED
      BY <1>2, <1>8, <3>1 DEF ToSet
  <2> QED
    BY <2>1, <2>2, <2>3, <2>4
<1>9. QED
  BY <1>1, <1>6, <1>7, <1>8

(* One more member, at the back or at the front.                           *)
LEMMA OneMore ==
  ASSUME NEW S, NEW q \in Seq(S), NEW e \in S
  PROVE  /\ Append(q, e) \in Seq(S) /\ <<e>> \o q \in Seq(S)
         /\ ToSet(Append(q, e)) = ToSet(q) \cup {e}
         /\ ToSet(<<e>> \o q) = ToSet(q) \cup {e}
         /\ IsInjective(q) /\ e \notin ToSet(q)
              => IsInjective(Append(q, e)) /\ IsInjective(<<e>> \o q)
<1>1. <<e>> \in Seq(S) /\ ToSet(<<e>>) = {e} /\ IsInjective(<<e>>)
  <2>1. <<e>> \in Seq(S) /\ DOMAIN <<e>> = 1..1 /\ <<e>>[1] = e
    OBVIOUS
  <2> QED
    BY <2>1 DEF ToSet, IsInjective
<1>2. Append(q, e) = q \o <<e>>
  BY AppendIsConcat
<1> DEFINE u == <<e>>
<1>3. u \in Seq(S) /\ ToSet(u) = {e} /\ IsInjective(u)
  BY <1>1
<1> HIDE DEF u
<1>4. /\ u \o q \in Seq(S) /\ q \o u \in Seq(S)
      /\ ToSet(u \o q) = ToSet(q) \cup {e} /\ ToSet(q \o u) = ToSet(q) \cup {e}
      /\ IsInjective(q) /\ e \notin ToSet(q) => IsInjective(u \o q) /\ IsInjective(q \o u)
  BY <1>3, ConcatOfDistinct
<1>5. QED
  BY <1>2, <1>4 DEF u

(* A queue rearranged: the members at the places order names.              *)
Picked(q, order) == {q[order[k]] : k \in DOMAIN order}

(* A rearrangement has the members of the original, each once.             *)
LEMMA Rearranged ==
  ASSUME NEW S, NEW q \in Seq(S), NEW n \in Nat, NEW order \in [1..n -> 1..Len(q)],
         NEW r \in [1..n -> S], \A k \in 1..n : r[k] = q[order[k]]
  PROVE  /\ r \in Seq(S) /\ Len(r) = n
         /\ ToSet(r) = Picked(q, order)
         /\ IsInjective(q) /\ IsInjective(order) => IsInjective(r)
<1>1. \A k \in 1..n : order[k] \in 1..Len(q) /\ q[order[k]] \in S
  BY ElementOfSeq
<1>3. r \in Seq(S) /\ Len(r) = n
  BY SeqDef, LenProperties
<1>4. DOMAIN r = 1..n /\ DOMAIN q = 1..Len(q)
  BY LenProperties
<1>5. ToSet(r) = Picked(q, order)
  BY <1>4 DEF ToSet, Picked
<1>6. ASSUME IsInjective(q), IsInjective(order)
      PROVE  IsInjective(r)
  <2> SUFFICES ASSUME NEW k \in 1..n, NEW l \in 1..n, r[k] = r[l] PROVE k = l
    BY <1>4 DEF IsInjective
  <2>1. order[k] = order[l]
    BY <1>1, <1>4, <1>6 DEF IsInjective
  <2> QED
    BY <1>6, <2>1 DEF IsInjective
<1>7. QED
  BY <1>3, <1>5, <1>6

(* A list comprehension keeps the members it selects.                      *)
LEMMA FilteredFacts ==
  ASSUME NEW T, NEW q \in Seq(T), NEW S
  PROVE  /\ Filtered(q, S) \in Seq(T)
         /\ ToSet(Filtered(q, S)) = ToSet(q) \cap S
         /\ IsInjective(q) => IsInjective(Filtered(q, S))
<1> DEFINE I == {i \in 1..Len(q) : q[i] \in S}
           R == Ascending(Len(q))
           order == Sorted(I, R)
           n == Cardinality(I)
<1>1. Len(q) \in Nat /\ DOMAIN q = 1..Len(q)
  BY MembersOf
<1>2. I \in SUBSET (1..Len(q)) /\ \A i \in I : i \in Int
  BY <1>1
<1>3. IsFiniteSet(I)
  <2>1. IsFiniteSet(1..Len(q))
    BY <1>1, FS_Interval
  <2> HIDE DEF I
  <2> QED
    BY <1>2, <2>1, FS_Subset
<1>4. IsStrictOrder(I, R)
  <2>1. \A i, j \in I : <<i, j>> \in R <=> i < j
    BY <1>2 DEF Ascending
  <2> HIDE DEF I, R
  <2> QED
    BY <1>2, <2>1 DEF IsStrictOrder
<1>5. /\ n \in Nat /\ order \in [1..n -> I]
      /\ \A k, l \in 1..n : order[k] = order[l] => k = l
      /\ \A i \in I : \E k \in 1..n : order[k] = i
  <2> HIDE DEF I, R
  <2>1. /\ Cardinality(I) \in Nat
        /\ Sorted(I, R) \in [1..Cardinality(I) -> I]
        /\ \A k, l \in 1..Cardinality(I) :
             /\ Sorted(I, R)[k] = Sorted(I, R)[l] => k = l
             /\ k < l => <<Sorted(I, R)[k], Sorted(I, R)[l]>> \in R
        /\ \A i \in I : \E k \in 1..Cardinality(I) : Sorted(I, R)[k] = i
    BY <1>3, <1>4, SortedEnumerates
  <2> QED
    BY <2>1
<1>6. order \in [1..n -> 1..Len(q)]
  BY <1>2, <1>5
<1>7. Filtered(q, S) = [k \in 1..n |-> q[order[k]]]
  <2>1. Filtered(q, S) = [k \in DOMAIN order |-> q[order[k]]]
    BY DEF Filtered
  <2> HIDE DEF order, n, I
  <2> QED
    BY <1>5, <2>1
<1>8. Picked(q, order) = ToSet(q) \cap S
  <2>1. \A k \in 1..n : q[order[k]] \in S /\ order[k] \in 1..Len(q)
    BY <1>5
  <2>2. \A x \in ToSet(q) \cap S : \E i \in I : q[i] = x
    BY <1>1 DEF ToSet
  <2> HIDE DEF order, n, I
  <2> QED
    BY <1>1, <1>5, <2>1, <2>2 DEF ToSet, Picked
<1> HIDE DEF order, n, I
<1> DEFINE r == Filtered(q, S)
<1>9. r \in [1..n -> T] /\ \A k \in 1..n : r[k] = q[order[k]]
  <2>1. \A k \in 1..n : q[order[k]] \in T
    BY <1>6, ElementOfSeq
  <2> QED
    BY <1>7, <2>1
<1> HIDE DEF r, R
<1>10. /\ r \in Seq(T) /\ Len(r) = n
       /\ ToSet(r) = Picked(q, order)
       /\ IsInjective(q) /\ IsInjective(order) => IsInjective(r)
  <2>1. n \in Nat
    BY <1>5
  <2>2. ASSUME NEW m \in Nat, NEW o \in [1..m -> 1..Len(q)], NEW x \in [1..m -> T],
               \A k \in 1..m : x[k] = q[o[k]]
        PROVE  /\ x \in Seq(T) /\ Len(x) = m
               /\ ToSet(x) = Picked(q, o)
               /\ IsInjective(q) /\ IsInjective(o) => IsInjective(x)
    BY <2>2, Rearranged, Z3T(40)
  <2> QED
    BY <1>6, <1>9, <2>1, <2>2, Zenon
<1>11. IsInjective(order)
  BY <1>5 DEF IsInjective
<1>12. QED
  BY <1>8, <1>10, <1>11 DEF r

(* deque.remove takes one element away, and nothing if it is not there.    *)
LEMMA RemoveFirstFacts ==
  ASSUME NEW S, NEW q \in Seq(S), NEW e, IsInjective(q)
  PROVE  /\ RemoveFirst(q, e) \in Seq(S)
         /\ ToSet(RemoveFirst(q, e)) = ToSet(q) \ {e}
         /\ IsInjective(RemoveFirst(q, e))
<1> DEFINE n == Len(q)
           I == {i \in 1..n : q[i] = e}
           m == Min(I)
           r == SubSeq(q, 1, m - 1) \o SubSeq(q, m + 1, n)
<1>1. n \in Nat /\ DOMAIN q = 1..n /\ \A i \in 1..n : q[i] \in S
  BY MembersOf, ElementOfSeq
<1>2. CASE I = {}
  <2>1. RemoveFirst(q, e) = q /\ e \notin ToSet(q)
    BY <1>1, <1>2 DEF RemoveFirst, ToSet
  <2> QED
    BY <2>1
<1>3. CASE I # {}
  <2>1. m \in 1..n /\ q[m] = e
    <3>1. I \in SUBSET (1..n)
      OBVIOUS
    <3>2. m \in I
      <4> HIDE DEF I, n
      <4> QED
        BY <1>1, <1>3, <3>1, LastPlace
    <3> QED
      BY <3>2
  <2>2. RemoveFirst(q, e) = r
    <3>1. SelectInSeq(q, LAMBDA v : v = e) = m
      BY <1>3 DEF SelectInSeq
    <3> QED
      BY <1>3, <3>1 DEF RemoveFirst, RemoveAt
  <2>3. /\ SubSeq(q, 1, m - 1) \in Seq(S) /\ Len(SubSeq(q, 1, m - 1)) = m - 1
        /\ \A i \in 1..m - 1 : SubSeq(q, 1, m - 1)[i] = q[i]
    <3> HIDE DEF m, n
    <3>1. m - 1 \in Int /\ 1 \in Int /\ \A i \in 1..m - 1 : q[i] \in S
      BY <1>1, <2>1
    <3>2. /\ SubSeq(q, 1, m - 1) \in Seq(S)
          /\ Len(SubSeq(q, 1, m - 1)) = IF 1 <= m - 1 THEN (m - 1) - 1 + 1 ELSE 0
          /\ \A i \in 1..(m - 1) - 1 + 1 : SubSeq(q, 1, m - 1)[i] = q[1 + i - 1]
      BY <3>1, SubSeqProperties
    <3>3. \A i \in 1..m - 1 : 1 + i - 1 = i /\ i \in 1..(m - 1) - 1 + 1
      BY <1>1, <2>1
    <3> QED
      BY <1>1, <2>1, <3>2, <3>3
  <2>4. /\ SubSeq(q, m + 1, n) \in Seq(S) /\ Len(SubSeq(q, m + 1, n)) = n - m
        /\ \A i \in 1..n - m : SubSeq(q, m + 1, n)[i] = q[m + i]
    <3> HIDE DEF m, n
    <3>1. m + 1 \in Int /\ n \in Int /\ \A i \in m + 1..n : q[i] \in S
      BY <1>1, <2>1
    <3>2. /\ SubSeq(q, m + 1, n) \in Seq(S)
          /\ Len(SubSeq(q, m + 1, n)) = IF m + 1 <= n THEN n - (m + 1) + 1 ELSE 0
          /\ \A i \in 1..n - (m + 1) + 1 : SubSeq(q, m + 1, n)[i] = q[m + 1 + i - 1]
      BY <3>1, SubSeqProperties
    <3>3. \A i \in 1..n - m : m + 1 + i - 1 = m + i /\ i \in 1..n - (m + 1) + 1
      BY <1>1, <2>1
    <3> QED
      BY <1>1, <2>1, <3>2, <3>3
  <2> DEFINE order == [k \in 1..n - 1 |-> IF k < m THEN k ELSE k + 1]
  <2> HIDE DEF m, n
  <2>5. /\ n - 1 \in Nat /\ order \in [1..n - 1 -> 1..n]
        /\ \A k, l \in 1..n - 1 : order[k] = order[l] => k = l
        /\ \A i \in 1..n : i # m => \E k \in 1..n - 1 : order[k] = i
        /\ \A k \in 1..n - 1 : order[k] # m
    <3>1. ASSUME NEW i \in 1..n, i # m PROVE \E k \in 1..n - 1 : order[k] = i
      <4>1. CASE i < m
        BY <1>1, <2>1, <4>1
      <4>2. CASE i > m
        <5>1. i - 1 \in 1..n - 1 /\ order[i - 1] = i
          BY <1>1, <2>1, <4>2
        <5> QED
          BY <5>1
      <4> QED
        BY <1>1, <2>1, <3>1, <4>1, <4>2
    <3>2. /\ n - 1 \in Nat /\ order \in [1..n - 1 -> 1..n]
          /\ \A k, l \in 1..n - 1 : order[k] = order[l] => k = l
          /\ \A k \in 1..n - 1 : order[k] # m
      BY <1>1, <2>1
    <3> QED
      BY <3>1, <3>2
  <2>6. r \in Seq(S) /\ Len(r) = n - 1 /\ \A k \in 1..n - 1 : r[k] = q[order[k]]
    <3> DEFINE a == SubSeq(q, 1, m - 1)
               b == SubSeq(q, m + 1, n)
    <3>1. a \in Seq(S) /\ b \in Seq(S) /\ Len(a) = m - 1 /\ Len(b) = n - m
      BY <2>3, <2>4
    <3>2. /\ a \o b \in Seq(S) /\ Len(a \o b) = (m - 1) + (n - m)
          /\ \A i \in 1..(m - 1) + (n - m) :
               (a \o b)[i] = IF i <= m - 1 THEN a[i] ELSE b[i - (m - 1)]
      <4> HIDE DEF a, b
      <4>1. /\ a \o b \in Seq(S) /\ Len(a \o b) = Len(a) + Len(b)
            /\ \A i \in 1..Len(a) + Len(b) :
                 (a \o b)[i] = IF i <= Len(a) THEN a[i] ELSE b[i - Len(a)]
        BY <3>1, ConcatProperties
      <4> QED
        BY <3>1, <4>1
    <3>3. (m - 1) + (n - m) = n - 1
      BY <1>1, <2>1
    <3>4. ASSUME NEW k \in 1..n - 1 PROVE (a \o b)[k] = q[order[k]]
      <4>1. CASE k < m
        <5>1. k \in 1..m - 1 /\ k <= m - 1 /\ order[k] = k
          BY <1>1, <2>1, <4>1
        <5>2. (a \o b)[k] = a[k] /\ a[k] = q[k]
          BY <2>3, <3>2, <3>3, <5>1
        <5> QED
          BY <5>1, <5>2
      <4>2. CASE ~(k < m)
        <5>1. /\ ~(k <= m - 1) /\ k - (m - 1) \in 1..n - m /\ order[k] = k + 1
              /\ m + (k - (m - 1)) = k + 1
          BY <1>1, <2>1, <4>2
        <5>2. (a \o b)[k] = b[k - (m - 1)] /\ b[k - (m - 1)] = q[m + (k - (m - 1))]
          BY <2>4, <3>2, <3>3, <5>1
        <5> QED
          BY <5>1, <5>2
      <4> QED
        BY <4>1, <4>2
    <3> QED
      BY <3>2, <3>3, <3>4
  <2> HIDE DEF r, order, I
  <2>7. r \in [1..n - 1 -> S]
    BY <2>6, LenProperties
  <2>8. ToSet(r) = Picked(q, order) /\ IsInjective(r)
    <3> DEFINE k0 == n - 1
    <3>1. k0 \in Nat /\ order \in [1..k0 -> 1..Len(q)]
      BY <2>5 DEF n
    <3>2. /\ r \in [1..k0 -> S]
          /\ \A k \in 1..k0 : r[k] = q[order[k]]
          /\ IsInjective(order)
      BY <2>5, <2>6, <2>7 DEF IsInjective
    <3> HIDE DEF k0
    <3>3. /\ r \in Seq(S) /\ Len(r) = k0
          /\ ToSet(r) = Picked(q, order)
          /\ IsInjective(q) /\ IsInjective(order) => IsInjective(r)
      BY <3>1, <3>2, Rearranged
    <3> QED
      BY <3>2, <3>3 DEF k0
  <2>9. Picked(q, order) = ToSet(q) \ {e}
    <3>1. \A k \in 1..n - 1 : order[k] \in 1..n /\ q[order[k]] \in ToSet(q) /\ q[order[k]] # e
      BY <1>1, <2>1, <2>5 DEF IsInjective, ToSet
    <3>2. \A x \in ToSet(q) \ {e} : \E k \in 1..n - 1 : q[order[k]] = x
      BY <1>1, <2>1, <2>5 DEF ToSet
    <3> QED
      BY <2>5, <3>1, <3>2 DEF Picked
  <2> QED
    BY <2>2, <2>6, <2>8, <2>9
<1>4. QED
  BY <1>2, <1>3

(* A list comprehension keeps the order.                                   *)
LEMMA FilteredKeepsOrder ==
  ASSUME NEW T, NEW q \in Seq(T), NEW S,
         NEW k \in DOMAIN Filtered(q, S), NEW l \in DOMAIN Filtered(q, S), k < l
  PROVE  \E i, j \in DOMAIN q : i < j /\ Filtered(q, S)[k] = q[i] /\ Filtered(q, S)[l] = q[j]
<1> DEFINE I == {i \in 1..Len(q) : q[i] \in S}
           R == Ascending(Len(q))
           order == Sorted(I, R)
           n == Cardinality(I)
<1>1. Len(q) \in Nat /\ DOMAIN q = 1..Len(q)
  BY MembersOf
<1>2. I \in SUBSET (1..Len(q)) /\ \A i \in I : i \in Int
  BY <1>1
<1>3. IsFiniteSet(I)
  <2>1. IsFiniteSet(1..Len(q))
    BY <1>1, FS_Interval
  <2> HIDE DEF I
  <2> QED
    BY <1>2, <2>1, FS_Subset
<1>4. \A i, j \in I : <<i, j>> \in R <=> i < j
  BY <1>2 DEF Ascending
<1> HIDE DEF I, R
<1>5. IsStrictOrder(I, R)
  BY <1>2, <1>4 DEF IsStrictOrder
<1>6. /\ order \in [1..n -> I]
      /\ \A x, y \in 1..n : x < y => <<order[x], order[y]>> \in R
  BY <1>3, <1>5, SortedEnumerates
<1>7. Filtered(q, S) = [x \in DOMAIN order |-> q[order[x]]]
  BY DEF Filtered, I, R
<1> HIDE DEF order, n
<1>8. k \in 1..n /\ l \in 1..n
  BY <1>6, <1>7
<1>9. order[k] \in I /\ order[l] \in I /\ order[k] < order[l]
  BY <1>4, <1>6, <1>8
<1>10. QED
  BY <1>1, <1>2, <1>6, <1>7, <1>8, <1>9

-----------------------------------------------------------------------------
(* The first of several places, and a place in between                     *)

(* Numbers have a smallest one.                                            *)
LEMMA SmallestOf ==
  ASSUME NEW I \in SUBSET Nat, I # {}
  PROVE  Min(I) \in I /\ \A i \in I : Min(I) <= i
<1>1. (\E x \in I : TRUE) /\ \A i \in I : i \in Nat
  OBVIOUS
<1> PICK x \in I : TRUE
  BY <1>1
<1> DEFINE J == {i \in I : i <= x} \ {0}
<1>2. CASE 0 \in I
  <2>1. \A i \in I : 0 <= i
    OBVIOUS
  <2> QED
    BY <1>2, <2>1 DEF Min
<1>3. CASE 0 \notin I
  <2>1. x \in Nat /\ x # 0
    BY <1>1, <1>3
  <2>2. x \in J /\ \A i \in J : i \in 1..x
    BY <1>1, <2>1
  <2> DEFINE m == Min(J)
  <2> HIDE DEF J
  <2>3. J \in SUBSET (1..x) /\ J # {}
    BY <2>2
  <2>4. m \in J /\ \A i \in J : m <= i
    BY <2>1, <2>3, LastPlace
  <2> HIDE DEF m
  <2>5. m \in I /\ m \in Nat /\ m <= x
    BY <1>1, <2>2, <2>4 DEF J
  <2>6. ASSUME NEW i \in I PROVE m <= i
    <3>1. i \in Nat /\ i # 0
      BY <1>1, <1>3
    <3>2. CASE i <= x
      BY <2>4, <3>1, <3>2 DEF J
    <3>3. CASE i > x
      BY <2>1, <2>5, <3>1, <3>3
    <3> QED
      BY <2>1, <3>1, <3>2, <3>3
  <2> QED
    BY <2>5, <2>6 DEF Min
<1>4. QED
  BY <1>2, <1>3

(* list.insert before place i.                                             *)
LEMMA InsertAtFacts ==
  ASSUME NEW S, NEW q \in Seq(S), NEW e \in S, NEW i \in 1..Len(q)
  PROVE  /\ InsertAt(q, i, e) \in Seq(S)
         /\ Len(InsertAt(q, i, e)) = Len(q) + 1
         /\ \A k \in 1..Len(q) + 1 : InsertAt(q, i, e)[k] =
              IF k < i THEN q[k] ELSE IF k = i THEN e ELSE q[k - 1]
         /\ ToSet(InsertAt(q, i, e)) = ToSet(q) \cup {e}
         /\ IsInjective(q) /\ e \notin ToSet(q) => IsInjective(InsertAt(q, i, e))
<1> DEFINE n == Len(q)
           r == InsertAt(q, i, e)
<1>1. n \in Nat /\ DOMAIN q = 1..n /\ \A k \in 1..n : q[k] \in S
  BY MembersOf, ElementOfSeq
<1>2. /\ SubSeq(q, 1, i - 1) \in Seq(S) /\ Len(SubSeq(q, 1, i - 1)) = i - 1
      /\ \A k \in 1..i - 1 : SubSeq(q, 1, i - 1)[k] = q[k]
  BY <1>1
<1>3. /\ SubSeq(q, i, n) \in Seq(S) /\ Len(SubSeq(q, i, n)) = n - i + 1
      /\ \A k \in 1..n - i + 1 : SubSeq(q, i, n)[k] = q[i + k - 1]
  BY <1>1
<1>4. <<e>> \in Seq(S) /\ Len(<<e>>) = 1 /\ <<e>>[1] = e
  OBVIOUS
<1> DEFINE u == SubSeq(q, 1, i - 1)
           v == <<e>>
           w == SubSeq(q, i, n)
<1>5. r = u \o v \o w
  BY DEF InsertAt
<1> HIDE DEF u, v, w
<1> DEFINE p == u \o v
<1>6. /\ p \in Seq(S) /\ Len(p) = i
      /\ \A k \in 1..i : p[k] = IF k < i THEN q[k] ELSE e
  BY <1>1, <1>2, <1>4, ConcatProperties DEF u, v
<1>7. /\ r \in Seq(S) /\ Len(r) = n + 1
      /\ \A k \in 1..n + 1 : r[k] = IF k < i THEN q[k] ELSE IF k = i THEN e ELSE q[k - 1]
  <2>1. w \in Seq(S) /\ Len(w) = n - i + 1 /\ \A k \in 1..n - i + 1 : w[k] = q[i + k - 1]
    BY <1>3 DEF w
  <2>2. r = p \o w
    BY <1>5
  <2> HIDE DEF p, r
  <2>3. /\ r \in Seq(S) /\ Len(r) = Len(p) + Len(w)
        /\ \A k \in 1..Len(p) + Len(w) : r[k] = IF k <= Len(p) THEN p[k] ELSE w[k - Len(p)]
    BY <1>6, <2>1, <2>2, ConcatProperties
  <2>4. Len(r) = n + 1 /\ r \in Seq(S)
    BY <1>1, <1>6, <2>1, <2>3
  <2>5. ASSUME NEW k \in 1..n + 1
        PROVE  r[k] = IF k < i THEN q[k] ELSE IF k = i THEN e ELSE q[k - 1]
    <3>1. k \in Nat /\ i \in Nat /\ k \in 1..Len(p) + Len(w)
      BY <1>1, <1>6, <2>1
    <3>2. CASE k <= i
      BY <1>1, <1>6, <2>3, <3>1, <3>2
    <3>3. CASE k > i
      <4>1. k - i \in 1..n - i + 1 /\ i + (k - i) - 1 = k - 1
        BY <1>1, <3>1, <3>3
      <4> QED
        BY <1>6, <2>1, <2>3, <3>1, <3>3, <4>1
    <3> QED
      BY <3>1, <3>2, <3>3
  <2> QED
    BY <2>4, <2>5
<1> HIDE DEF r
<1>8. DOMAIN r = 1..n + 1
  BY <1>7, LenProperties
<1>9. ToSet(r) = ToSet(q) \cup {e}
  <2>1. \A k \in 1..n : IF k < i THEN k \in 1..n + 1 /\ r[k] = q[k]
                                 ELSE k + 1 \in 1..n + 1 /\ r[k + 1] = q[k]
    BY <1>1, <1>7
  <2>2. \A k \in 1..n + 1 : r[k] = e \/ \E l \in 1..n : r[k] = q[l]
    BY <1>1, <1>7
  <2>3. i \in 1..n + 1 /\ r[i] = e
    BY <1>1, <1>7
  <2>4. /\ ToSet(q) = {q[k] : k \in 1..n} /\ ToSet(r) = {r[k] : k \in 1..n + 1}
    BY <1>1, <1>8, Zenon DEF ToSet
  <2>5. ASSUME NEW k \in 1..n + 1 PROVE r[k] \in ToSet(q) \cup {e}
    BY <2>2, <2>4
  <2>6. ASSUME NEW l \in 1..n PROVE q[l] \in ToSet(r)
    BY <2>1, <2>4
  <2>7. e \in ToSet(r)
    BY <2>3, <2>4
  <2> HIDE DEF n
  <2> QED
    BY <2>4, <2>5, <2>6, <2>7, Zenon
<1>10. ASSUME IsInjective(q), e \notin ToSet(q) PROVE IsInjective(r)
  <2> SUFFICES ASSUME NEW k \in 1..n + 1, NEW l \in 1..n + 1, r[k] = r[l], k < l PROVE FALSE
    BY <1>1, <1>8 DEF IsInjective
  <2>1. \A m \in 1..n : q[m] # e
    BY <1>1, <1>10 DEF ToSet
  <2>2. \A m, o \in 1..n : q[m] = q[o] => m = o
    BY <1>1, <1>10 DEF IsInjective
  <2> QED
    BY <1>1, <1>7, <2>1, <2>2
<1>11. QED
  BY <1>7, <1>9, <1>10 DEF r

-----------------------------------------------------------------------------
(* Sums                                                                    *)

(* Sums grow by what is added, and do not grow by what is taken away.      *)
LEMMA TotalFacts ==
  ASSUME NEW S, NEW f \in [S -> Nat], NEW R \in SUBSET S, IsFiniteSet(R)
  PROVE  /\ Total(f, R) \in Nat
         /\ \A Q \in SUBSET R : IsFiniteSet(Q) /\ Total(f, Q) <= Total(f, R)
         /\ \A r \in S \ R : Total(f, R \cup {r}) = Total(f, R) + f[r]

<1> DEFINE U(r) == {r} \X (1..f[r])
           Us(Q) == {U(r) : r \in Q}
           units(Q) == UNION Us(Q)
<1>1. \A r \in S : IsFiniteSet(U(r)) /\ Cardinality(U(r)) = f[r]
  <2> SUFFICES ASSUME NEW r \in S PROVE IsFiniteSet(U(r)) /\ Cardinality(U(r)) = f[r]
    OBVIOUS
  <2>1. f[r] \in Nat
    OBVIOUS
  <2> DEFINE m == f[r]
             g == [k \in 1..m |-> <<r, k>>]
  <2>2. U(r) = {<<r, k>> : k \in 1..m}
    OBVIOUS
  <2> HIDE DEF m, U
  <2>3. g \in Injection(1..m, U(r)) /\ g \in Surjection(1..m, U(r))
    <3>1. g \in [1..m -> U(r)]
      BY <2>2
    <3>2. \A k, l \in 1..m : g[k] = g[l] => k = l
      OBVIOUS
    <3>3. \A x \in U(r) : \E k \in 1..m : g[k] = x
      BY <2>2
    <3> HIDE DEF g
    <3> QED
      BY <3>1, <3>2, <3>3 DEF Injection, Surjection, IsInjective
  <2>4. ExistsBijection(1..m, U(r))
    BY <2>3 DEF ExistsBijection, Bijection
  <2> QED
    BY <2>1, <2>4, FS_CountingElements, FS_NatBijection DEF m
<1>2. \A Q : Total(f, Q) = Cardinality(units(Q))
  BY DEF Total
<1> HIDE DEF U
<1>3. ASSUME NEW Q \in SUBSET S, IsFiniteSet(Q)
      PROVE  IsFiniteSet(units(Q)) /\ Cardinality(units(Q)) \in Nat
  <2> DEFINE h == [r \in Q |-> U(r)]
  <2>1. h \in Surjection(Q, Us(Q))
    BY DEF Surjection
  <2>2. IsFiniteSet(Us(Q))
    BY <1>3, <2>1, FS_Surjection
  <2>3. \A x \in Us(Q) : IsFiniteSet(x)
    BY <1>1
  <2> HIDE DEF Us
  <2>4. IsFiniteSet(units(Q))
    BY <2>2, <2>3, FS_UNION
  <2> QED
    BY <2>4, FS_CardinalityType
<1>4. ASSUME NEW Q \in SUBSET R
      PROVE  IsFiniteSet(Q) /\ Cardinality(units(Q)) <= Cardinality(units(R))
  <2>1. IsFiniteSet(Q)
    BY FS_Subset
  <2>2. units(Q) \in SUBSET units(R)
    OBVIOUS
  <2>3. IsFiniteSet(units(R))
    BY <1>3
  <2> HIDE DEF units
  <2> QED
    BY <2>1, <2>2, <2>3, FS_Subset
<1>5. ASSUME NEW r \in S \ R
      PROVE  Cardinality(units(R \cup {r})) = Cardinality(units(R)) + f[r]
  <2>1. units(R \cup {r}) = units(R) \cup U(r)
    OBVIOUS
  <2>2. units(R) \cap U(r) = {}
    BY DEF U
  <2>3. IsFiniteSet(units(R)) /\ Cardinality(units(R)) \in Nat
    BY <1>3
  <2>4. IsFiniteSet(U(r)) /\ Cardinality(U(r)) = f[r] /\ f[r] \in Nat
    BY <1>1
  <2> HIDE DEF units
  <2>5. Cardinality(units(R) \cup U(r)) =
          Cardinality(units(R)) + Cardinality(U(r)) - Cardinality(units(R) \cap U(r))
    BY <2>3, <2>4, FS_Union
  <2>6. Cardinality(units(R) \cap U(r)) = 0
    BY <2>2, FS_EmptySet
  <2>7. \A a, b, c, d \in Nat : d = 0 /\ b = c => a + b - d = a + c
    OBVIOUS
  <2>8. Cardinality(units(R) \cup U(r)) = Cardinality(units(R)) + f[r]
    BY <2>3, <2>4, <2>5, <2>6, <2>7
  <2> QED
    BY <2>1, <2>8, Zenon
<1> HIDE DEF units
<1>6. QED
  BY <1>2, <1>3, <1>4, <1>5

==============================================================================
