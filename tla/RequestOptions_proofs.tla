----------------------- MODULE RequestOptions_proofs -----------------------
(***************************************************************************)
(* Theorems about RequestOptions, for every request and every number of    *)
(* breakpoints: which marks of a request survive, and who is not cached.   *)
(*                                                                         *)
(* The marks are capped twice, before and after the messages of a chat.    *)
(* That this is the same as capping all of them once is LargestOfLargest;  *)
(* the invariant (OptionsInv) then needs to say no more of the marks than  *)
(* that they are those of the capped options and of the messages visited.  *)
(***************************************************************************)
EXTENDS RequestOptions, Queues_proofs

-----------------------------------------------------------------------------
(* The largest of a set                                                    *)

(* Those above n.                                                          *)
Above(n, S) == {k \in S : k > n}

(* What is larger than one of the largest is one of them too.              *)
LEMMA LargestIsOnTop ==
  ASSUME NEW S \in SUBSET Int, IsFiniteSet(S)
  PROVE  /\ Largest(S) \subseteq S /\ IsFiniteSet(Largest(S))
         /\ \A n \in S : n \in Largest(S) <=> Cardinality(Above(n, S)) < MaxBreakpoints
         /\ \A n \in S \ Largest(S), k \in Largest(S) : n < k
<1>1. Largest(S) \subseteq S /\ IsFiniteSet(Largest(S))
  BY FS_Subset DEF Largest
<1>2. \A n \in S : n \in Largest(S) <=> Cardinality(Above(n, S)) < MaxBreakpoints
  BY DEF Largest, Above
<1>3. ASSUME NEW n \in S \ Largest(S), NEW k \in Largest(S) PROVE n < k
  <2> SUFFICES ASSUME ~(n < k) PROVE FALSE
    OBVIOUS
  <2>0. n \in S /\ k \in S /\ \A i \in S : i \in Int
    BY <1>1
  <2>1. n \in Int /\ k \in Int /\ n >= k
    BY <2>0
  <2>2. Above(n, S) \subseteq Above(k, S)
    <3>1. ASSUME NEW j \in Above(n, S) PROVE j \in S /\ j > k
      <4>1. j \in S /\ j > n /\ j \in Int
        BY <2>0 DEF Above
      <4> QED
        BY <2>1, <4>1
    <3> QED
      BY <3>1 DEF Above
  <2>3. IsFiniteSet(Above(k, S)) /\ Cardinality(Above(n, S)) <= Cardinality(Above(k, S))
    <3>1. IsFiniteSet(Above(k, S))
      BY FS_Subset DEF Above
    <3> QED
      BY <2>2, <3>1, FS_Subset
  <2>4. Cardinality(Above(n, S)) \in Nat /\ Cardinality(Above(k, S)) \in Nat
    BY <2>2, <2>3, FS_Subset, FS_CardinalityType
  <2> QED
    BY <1>2, <2>0, <2>3, <2>4, BreakpointsAssumption
<1> QED
  BY <1>1, <1>2, <1>3

(* There are as many of them as there can be.                              *)
LEMMA LargestCount ==
  ASSUME NEW S \in SUBSET Int, IsFiniteSet(S)
  PROVE  /\ Cardinality(S) \in Nat
         /\ Cardinality(Largest(S)) = IF Cardinality(S) < MaxBreakpoints THEN Cardinality(S) ELSE MaxBreakpoints
<1> DEFINE R == {e \in S \X S : e[1] > e[2]}
           order == Sorted(S, R)
           n == Cardinality(S)
           m == IF n < MaxBreakpoints THEN n ELSE MaxBreakpoints
<1>1. \A i, j \in S : <<i, j>> \in R <=> i > j
  OBVIOUS
<1> HIDE DEF R
<1>2. IsStrictOrder(S, R)
  BY <1>1 DEF IsStrictOrder
<1>3. /\ n \in Nat /\ order \in [1..n -> S]
      /\ \A k, l \in 1..n : (order[k] = order[l] => k = l) /\ (k < l => <<order[k], order[l]>> \in R)
      /\ \A i \in S : \E k \in 1..n : order[k] = i
  BY <1>2, SortedEnumerates
<1> HIDE DEF order, n
<1>4. ASSUME NEW k \in 1..n PROVE Cardinality(Above(order[k], S)) = k - 1
  <2> DEFINE f == [l \in 1..k - 1 |-> order[l]]
  <2>1. \A l \in 1..n : order[l] > order[k] <=> l < k
    <3> SUFFICES ASSUME NEW l \in 1..n PROVE order[l] > order[k] <=> l < k
      OBVIOUS
    <3>1. order[l] \in Int /\ order[k] \in Int /\ order[l] \in S /\ order[k] \in S
      BY <1>3
    <3>2. l < k => order[l] > order[k]
      BY <1>1, <1>3, <3>1
    <3>3. k < l => order[k] > order[l]
      BY <1>1, <1>3, <3>1
    <3> QED
      BY <1>3, <3>1, <3>2, <3>3
  <2>2. 1..k - 1 \subseteq 1..n
    BY <1>3
  <2>3. f \in [1..k - 1 -> Above(order[k], S)]
    <3>1. \A l \in 1..k - 1 : order[l] \in S /\ order[l] > order[k]
      BY <1>3, <2>1, <2>2
    <3> QED
      BY <3>1 DEF Above
  <2>4. f \in Injection(1..k - 1, Above(order[k], S))
    BY <1>3, <2>2, <2>3 DEF Injection, IsInjective
  <2>5. ASSUME NEW x \in Above(order[k], S) PROVE \E l \in 1..k - 1 : f[l] = x
    <3>1. x \in S /\ x > order[k]
      BY DEF Above
    <3>2. PICK l \in 1..n : order[l] = x
      BY <1>3, <3>1
    <3>3. l \in 1..k - 1
      BY <1>3, <2>1, <3>1, <3>2
    <3> QED
      BY <3>2, <3>3
  <2>6. f \in Surjection(1..k - 1, Above(order[k], S))
    BY <2>3, <2>5 DEF Surjection
  <2>7. IsFiniteSet(1..k - 1) /\ Cardinality(1..k - 1) = k - 1
    BY <1>3, FS_Interval
  <2>8. ExistsBijection(1..k - 1, Above(order[k], S))
    BY <2>4, <2>6 DEF ExistsBijection, Bijection
  <2> QED
    BY <2>7, <2>8, FS_Bijection
<1>5. m \in Nat /\ m <= n /\ 1..m \subseteq 1..n /\ \A k \in 1..n : k - 1 < MaxBreakpoints <=> k \in 1..m
  BY <1>3, BreakpointsAssumption
<1> HIDE DEF m
<1>6. \A k \in 1..n : order[k] \in Largest(S) <=> k \in 1..m
  <2> SUFFICES ASSUME NEW k \in 1..n PROVE order[k] \in Largest(S) <=> k \in 1..m
    OBVIOUS
  <2>1. order[k] \in S
    BY <1>3
  <2>2. order[k] \in Largest(S) <=> Cardinality(Above(order[k], S)) < MaxBreakpoints
    BY <2>1, LargestIsOnTop
  <2> QED
    BY <1>4, <1>5, <2>2
<1> DEFINE g == [k \in 1..m |-> order[k]]
<1>7. g \in [1..m -> Largest(S)]
  BY <1>5, <1>6
<1>8. g \in Injection(1..m, Largest(S))
  BY <1>3, <1>5, <1>7 DEF Injection, IsInjective
<1>9. ASSUME NEW x \in Largest(S) PROVE \E k \in 1..m : g[k] = x
  <2>1. x \in S
    BY DEF Largest
  <2>2. PICK k \in 1..n : order[k] = x
    BY <1>3, <2>1
  <2> QED
    BY <1>6, <2>2
<1>10. ExistsBijection(1..m, Largest(S))
  BY <1>7, <1>8, <1>9 DEF ExistsBijection, Bijection, Surjection
<1>11. IsFiniteSet(1..m) /\ Cardinality(1..m) = m
  BY <1>5, FS_Interval
<1>12. Cardinality(Largest(S)) = m
  BY <1>10, <1>11, FS_Bijection
<1> QED
  BY <1>3, <1>12 DEF n, m

(* Capping some of the marks first makes no difference.                    *)
LEMMA LargestOfLargest ==
  ASSUME NEW A \in SUBSET Int, NEW B \in SUBSET Int, IsFiniteSet(A), IsFiniteSet(B)
  PROVE  Largest(Largest(A) \cup B) = Largest(A \cup B)
<1> DEFINE C == A \cup B
           D == Largest(A) \cup B
<1>1. IsFiniteSet(C) /\ IsFiniteSet(D) /\ D \subseteq C /\ C \subseteq Int /\ D \subseteq Int
  BY LargestIsOnTop, FS_Union
<1>2. \A n, S : S \in {A, C, D} =>
        /\ IsFiniteSet(Above(n, S)) /\ Cardinality(Above(n, S)) \in Nat
        /\ \A T \in SUBSET Above(n, S) : Cardinality(T) \in Nat /\ Cardinality(T) <= Cardinality(Above(n, S))
  <2> SUFFICES ASSUME NEW n, NEW S \in {A, C, D}
               PROVE  /\ IsFiniteSet(Above(n, S)) /\ Cardinality(Above(n, S)) \in Nat
                      /\ \A T \in SUBSET Above(n, S) :
                           Cardinality(T) \in Nat /\ Cardinality(T) <= Cardinality(Above(n, S))
    OBVIOUS
  <2>1. IsFiniteSet(S) /\ Above(n, S) \subseteq S
    BY <1>1 DEF Above
  <2>2. IsFiniteSet(Above(n, S))
    BY <2>1, FS_Subset
  <2> QED
    BY <2>2, FS_Subset, FS_CardinalityType
<1>3. \A n : Above(n, D) \subseteq Above(n, C) /\ Above(n, A) \subseteq Above(n, C)
  BY <1>1 DEF Above
<1>4. /\ \A n \in A : n \in Largest(A) <=> Cardinality(Above(n, A)) < MaxBreakpoints
      /\ \A n \in C : n \in Largest(C) <=> Cardinality(Above(n, C)) < MaxBreakpoints
      /\ \A n \in D : n \in Largest(D) <=> Cardinality(Above(n, D)) < MaxBreakpoints
      /\ Largest(C) \subseteq C /\ Largest(D) \subseteq D
      /\ \A n \in A \ Largest(A), k \in Largest(A) : n < k
  <2> HIDE DEF C, D
  <2> QED
    BY <1>1, LargestIsOnTop
<1> HIDE DEF C, D
<1>5. ASSUME NEW n \in Largest(C) PROVE n \in Largest(D)
  <2>1. n \in C /\ Cardinality(Above(n, C)) < MaxBreakpoints
    BY <1>4
  <2>2. Cardinality(Above(n, D)) < MaxBreakpoints /\ Cardinality(Above(n, A)) < MaxBreakpoints
    BY <1>2, <1>3, <2>1, BreakpointsAssumption
  <2>3. n \in D
    BY <1>4, <2>1, <2>2 DEF C, D
  <2> QED
    BY <1>4, <2>2, <2>3
<1>6. ASSUME NEW n \in Largest(D) PROVE n \in Largest(C)
  <2>1. n \in D /\ n \in C /\ Cardinality(Above(n, D)) < MaxBreakpoints
    BY <1>1, <1>4
  <2>2. CASE Above(n, C) \subseteq D
    <3>1. Above(n, C) \subseteq Above(n, D)
      BY <2>2 DEF Above
    <3> QED
      BY <1>2, <1>4, <2>1, <3>1, BreakpointsAssumption
  <2>3. CASE ~(Above(n, C) \subseteq D)
    <3>1. PICK k \in Above(n, C) : k \notin D
      BY <2>3
    <3>2. k \in A \ Largest(A) /\ k \in Int /\ n \in Int /\ k > n
      BY <1>1, <2>1, <3>1 DEF Above, C, D
    <3>3. Largest(A) \subseteq Above(n, D)
      <4>1. ASSUME NEW j \in Largest(A) PROVE j \in D /\ j > n
        <5>1. j \in D /\ j \in Int
          BY <1>1 DEF D
        <5>2. k < j
          BY <1>4, <3>2
        <5> QED
          BY <3>2, <5>1, <5>2
      <4> QED
        BY <4>1 DEF Above
    <3>4. Cardinality(Largest(A)) = MaxBreakpoints
      <4>1. Cardinality(Above(k, A)) \in Nat /\ ~(Cardinality(Above(k, A)) < MaxBreakpoints)
        BY <1>2, <1>4, <3>2
      <4>2. Cardinality(Above(k, A)) <= Cardinality(A) /\ Cardinality(A) \in Nat
        <5>1. Above(k, A) \subseteq A
          BY DEF Above
        <5> QED
          BY <5>1, FS_Subset, FS_CardinalityType
      <4> QED
        BY <4>1, <4>2, LargestCount, BreakpointsAssumption
    <3> QED
      BY <1>2, <2>1, <3>3, <3>4, BreakpointsAssumption
  <2> QED
    BY <2>2, <2>3
<1> QED
  BY <1>5, <1>6 DEF C, D

-----------------------------------------------------------------------------
(* The marks of a request                                                  *)

(* A list has finitely many positive members, and two have theirs.         *)
LEMMA PositiveMembers ==
  ASSUME NEW q \in Seq(Int)
  PROVE  /\ Positive(q) \in SUBSET Nat /\ Positive(q) \in SUBSET Int /\ IsFiniteSet(Positive(q))
         /\ \A r \in Seq(Int) : q \o r \in Seq(Int) /\ Positive(q \o r) = Positive(q) \cup Positive(r)
<1>1. /\ ToSet(q) \subseteq Int /\ Len(q) \in Nat /\ DOMAIN q = 1..Len(q)
      /\ \A x : x \in ToSet(q) <=> \E i \in 1..Len(q) : q[i] = x
  BY MembersOf
<1>2. IsFiniteSet(ToSet(q))
  <2>1. q \in Surjection(1..Len(q), ToSet(q))
    <3>1. q \in [1..Len(q) -> ToSet(q)]
      <4>1. q \in Seq(ToSet(q))
        BY MembersOf
      <4> QED
        BY <4>1, LenProperties
    <3> QED
      BY <1>1, <3>1 DEF Surjection
  <2>2. IsFiniteSet(1..Len(q))
    BY <1>1, FS_Interval
  <2> QED
    BY <2>1, <2>2, FS_Surjection
<1>3. Positive(q) \subseteq ToSet(q)
  BY DEF Positive
<1>4. IsFiniteSet(Positive(q))
  BY <1>2, <1>3, FS_Subset
<1>5. ASSUME NEW r \in Seq(Int)
      PROVE  q \o r \in Seq(Int) /\ Positive(q \o r) = Positive(q) \cup Positive(r)
  <2>1. q \o r \in Seq(Int) /\ ToSet(q \o r) = ToSet(q) \cup ToSet(r)
    BY ConcatOfDistinct
  <2> QED
    BY <2>1 DEF Positive
<1>6. \A n \in Positive(q) : n \in Nat
  BY <1>1 DEF Positive
<1> QED
  BY <1>4, <1>5, <1>6

(* Sorted marks are the same marks.                                        *)
LEMMA OrderedMembers ==
  ASSUME NEW S \in SUBSET Int, IsFiniteSet(S)
  PROVE  Ordered(S) \in Seq(Int) /\ ToSet(Ordered(S)) = S
<1> DEFINE R == {e \in S \X S : e[1] < e[2]}
<1>1. \A i, j \in S : (<<i, j>> \in R <=> i < j) /\ i \in Int /\ j \in Int
  OBVIOUS
<1> HIDE DEF R
<1>2. IsStrictOrder(S, R)
  BY <1>1 DEF IsStrictOrder
<1> DEFINE order == Sorted(S, R)
           n == Cardinality(S)
<1>3. /\ n \in Nat /\ order \in [1..n -> S]
      /\ \A i \in S : \E k \in 1..n : order[k] = i
  BY <1>2, SortedEnumerates
<1>4. Ordered(S) = order
  BY DEF Ordered, R
<1> HIDE DEF order, n
<1>5. order \in Seq(Int)
  <2>1. order \in [1..n -> Int]
    BY <1>1, <1>3
  <2> QED
    BY <1>3, <2>1, SeqDef
<1>6. ToSet(order) = S
  BY <1>3 DEF ToSet
<1> QED
  BY <1>4, <1>5, <1>6

(* What int() makes of a request.                                          *)
LEMMA BreakpointsOf ==
  ASSUME NEW p \in Payloads
  PROVE  Breakpoints(p) \in Seq(Int) /\ p.messages \in Seq(Seq(Int))
<1>1. /\ p.breakpoints \in Seq(Int) /\ p.control.breakpoints \in Seq(Int)
      /\ p.prefix \in Seq(Int) /\ p.control.prefix \in Seq(Int)
      /\ p.promptTokens \in Int /\ p.messages \in Seq(Seq(Int))
  BY PayloadsAssumption
<1>2. <<p.promptTokens>> \in Seq(Int) /\ << >> \in Seq(Int)
  BY <1>1
<1>3. GivenPrefix(p) \in Seq(Int)
  BY <1>1 DEF GivenPrefix
<1>4. Explicit(p) \in Seq(Int)
  BY <1>1, ConcatOfDistinct DEF Explicit
<1> DEFINE rest == CASE GivenPrefix(p) # << >> -> GivenPrefix(p)
                     [] GivenPrefix(p) = << >> /\ Explicit(p) = << >> /\ p.control # NoControl ->
                          <<p.promptTokens>>
                     [] OTHER -> << >>
<1>5. rest \in Seq(Int)
  BY <1>2, <1>3
<1>6. Breakpoints(p) = Explicit(p) \o rest
  BY DEF Breakpoints
<1> HIDE DEF rest
<1> QED
  BY <1>1, <1>4, <1>5, <1>6, ConcatOfDistinct

(* The marks of the first n messages.                                      *)
MarksOf(p, n) == UNION {Positive(p.messages[i]) : i \in 1..n}

(* Flags are decided at once; marks are collected, capped and capped again.*)
OptionsInv ==
  /\ payload \in Payloads
  /\ pc = "received" => visited = 0
  /\ pc \in {"marking", "ready"} =>
       ~Malformed(payload) /\ DOMAIN options = {"enabled", "ttl", "breakpoints"} /\ options.enabled = Enabled(payload)
  /\ pc = "marking" =>
       /\ payload.chat
       /\ visited \in 0..Len(payload.messages)
       /\ marks \in Seq(Int)
       /\ Positive(marks) = Largest(Positive(Breakpoints(payload))) \cup MarksOf(payload, visited)
  /\ pc = "ready" => options.breakpoints = Largest(Marked(payload))

(* The marks of a whole chat are those of all its messages.                *)
LEMMA AllMarks ==
  ASSUME NEW p \in Payloads
  PROVE  /\ IsFiniteSet(Marked(p)) /\ Marked(p) \in SUBSET Nat
         /\ Marked(p) = Positive(Breakpoints(p))
                          \cup (IF p.chat THEN MarksOf(p, Len(p.messages)) ELSE {})
         /\ \A n \in 0..Len(p.messages) : IsFiniteSet(MarksOf(p, n)) /\ MarksOf(p, n) \in SUBSET Int
<1> DEFINE last == Len(p.messages)
<1>1. /\ Breakpoints(p) \in Seq(Int) /\ last \in Nat /\ DOMAIN p.messages = 1..last
      /\ \A i \in 1..last : p.messages[i] \in Seq(Int)
  BY BreakpointsOf, LenProperties, ElementOfSeq
<1>2. \A i \in 1..last : IsFiniteSet(Positive(p.messages[i])) /\ Positive(p.messages[i]) \in SUBSET Nat
  BY <1>1, PositiveMembers
<1>3. ASSUME NEW n \in 0..last
      PROVE  IsFiniteSet(MarksOf(p, n)) /\ MarksOf(p, n) \in SUBSET Nat
  <2>1. IsFiniteSet({Positive(p.messages[i]) : i \in 1..n})
    <3> DEFINE f == [i \in 1..n |-> Positive(p.messages[i])]
               T == {Positive(p.messages[i]) : i \in 1..n}
    <3>1. f \in Surjection(1..n, T)
      BY DEF Surjection
    <3>2. IsFiniteSet(1..n)
      BY <1>1, FS_Interval
    <3> QED
      BY <3>1, <3>2, FS_Surjection
  <2>2. \A x \in {Positive(p.messages[i]) : i \in 1..n} : IsFiniteSet(x)
    BY <1>1, <1>2
  <2>3. IsFiniteSet(UNION {Positive(p.messages[i]) : i \in 1..n})
    BY <2>1, <2>2, FS_UNION
  <2>4. UNION {Positive(p.messages[i]) : i \in 1..n} \subseteq Nat
    BY <1>1, <1>2
  <2> QED
    BY <2>3, <2>4 DEF MarksOf
<1>4. Marked(p) = Positive(Breakpoints(p)) \cup (IF p.chat THEN MarksOf(p, last) ELSE {})
  BY <1>1 DEF Marked, MarksOf
<1>5. IsFiniteSet(Positive(Breakpoints(p))) /\ Positive(Breakpoints(p)) \in SUBSET Nat
  BY <1>1, PositiveMembers
<1>6. IsFiniteSet({}) /\ last \in 0..last
  BY <1>1, FS_EmptySet
<1> HIDE DEF last
<1>7. IsFiniteSet(Marked(p)) /\ Marked(p) \in SUBSET Nat
  BY <1>3, <1>4, <1>5, <1>6, FS_Union
<1>8. \A n \in 0..last : IsFiniteSet(MarksOf(p, n)) /\ MarksOf(p, n) \in SUBSET Int
  BY <1>3
<1> QED
  BY <1>4, <1>7, <1>8 DEF last

-----------------------------------------------------------------------------
(* The steps                                                               *)

(* A payload that has just come satisfies the invariant. *)
LEMMA OptionsInit == Init => OptionsInv
BY DEF Init, OptionsInv

(* Every step keeps the invariant. *)
LEMMA OptionsNext ==
  ASSUME OptionsInv, [Next]_vars
  PROVE  OptionsInv'
<1>0. /\ payload \in Payloads
      /\ Breakpoints(payload) \in Seq(Int) /\ Len(payload.messages) \in Nat
      /\ \A i \in 1..Len(payload.messages) : payload.messages[i] \in Seq(Int)
  <2>1. payload \in Payloads
    BY DEF OptionsInv
  <2> QED
    BY <2>1, BreakpointsOf, LenProperties, ElementOfSeq
<1> DEFINE given == Positive(Breakpoints(payload))
<1>1. given \in SUBSET Int /\ IsFiniteSet(given)
  BY <1>0, PositiveMembers
<1>2. Largest(given) \in SUBSET Int /\ IsFiniteSet(Largest(given)) /\ Largest(given) \subseteq given
  BY <1>1, LargestIsOnTop
<1>3. CASE Refuse
  BY <1>3 DEF Refuse, OptionsInv
<1>4. CASE ParseOptions
  <2>1. /\ payload' = payload /\ visited' = visited
        /\ options' = [enabled |-> Enabled(payload), ttl |-> Ttl(payload), breakpoints |-> Largest(given)]
        /\ marks' = IF payload.chat THEN Ordered(options'.breakpoints) ELSE << >>
        /\ pc' = IF payload.chat THEN "marking" ELSE "ready"
        /\ ~Malformed(payload)
    BY <1>4 DEF ParseOptions, Normalized
  <2>2. CASE payload.chat
    <3>1. pc' = "marking" /\ marks' = Ordered(Largest(given)) /\ visited' = 0
      BY <1>4, <2>1, <2>2 DEF ParseOptions, OptionsInv
    <3>2. marks' \in Seq(Int) /\ ToSet(marks') = Largest(given)
      BY <1>2, <3>1, OrderedMembers
    <3>3. Positive(marks') = Largest(given)
      <4>1. \A n \in Largest(given) : n > 0
        BY <1>2 DEF Positive
      <4> QED
        BY <3>2, <4>1 DEF Positive
    <3>4. MarksOf(payload, 0) = {}
      BY DEF MarksOf
    <3> QED
      BY <1>0, <2>1, <2>2, <3>1, <3>2, <3>3, <3>4 DEF OptionsInv, MarksOf
  <2>3. CASE ~payload.chat
    <3>1. Marked(payload) = given
      BY <1>0, <2>3, AllMarks
    <3>2. pc' = "ready" /\ options'.breakpoints = Largest(Marked(payload)) /\ options'.enabled = Enabled(payload)
      BY <2>1, <2>3, <3>1
    <3> QED
      BY <1>0, <2>1, <3>2 DEF OptionsInv
  <2> QED
    BY <2>2, <2>3
<1>5. CASE MarkMessage
  <2>1. /\ pc = "marking" /\ payload' = payload /\ options' = options /\ pc' = pc
        /\ visited < Len(payload.messages) /\ visited' = visited + 1
        /\ marks' = marks \o payload.messages[visited + 1]
    BY <1>5 DEF MarkMessage
  <2>2. /\ payload.chat /\ visited \in 0..Len(payload.messages) /\ marks \in Seq(Int)
        /\ Positive(marks) = Largest(given) \cup MarksOf(payload, visited)
    BY <2>1 DEF OptionsInv
  <2>3. visited + 1 \in 1..Len(payload.messages)
    BY <1>0, <2>1, <2>2
  <2>4. /\ marks' \in Seq(Int)
        /\ Positive(marks') = Positive(marks) \cup Positive(payload.messages[visited + 1])
    BY <1>0, <2>1, <2>2, <2>3, PositiveMembers
  <2>5. MarksOf(payload, visited + 1) = MarksOf(payload, visited) \cup Positive(payload.messages[visited + 1])
    <3>1. 1..visited + 1 = (1..visited) \cup {visited + 1}
      BY <2>2
    <3> QED
      BY <3>1 DEF MarksOf
  <2>6. Positive(marks') = Largest(given) \cup MarksOf(payload, visited')
    BY <2>1, <2>2, <2>4, <2>5
  <2>7. visited' \in 0..Len(payload.messages)
    BY <2>1, <2>3
  <2>8. ~Malformed(payload) /\ DOMAIN options' = {"enabled", "ttl", "breakpoints"} /\ options'.enabled = Enabled(payload)
    BY <2>1 DEF OptionsInv
  <2> HIDE DEF given
  <2> QED
    BY <1>0, <2>1, <2>2, <2>4, <2>6, <2>7, <2>8 DEF OptionsInv, given, MarksOf
<1>6. CASE MarkingDone
  <2>1. /\ pc = "marking" /\ payload' = payload /\ pc' = "ready"
        /\ visited = Len(payload.messages)
        /\ options' = [options EXCEPT !.breakpoints = Largest(Positive(marks))]
    BY <1>6 DEF MarkingDone, Normalized
  <2>2. /\ payload.chat /\ DOMAIN options = {"enabled", "ttl", "breakpoints"}
        /\ options.enabled = Enabled(payload) /\ ~Malformed(payload)
        /\ Positive(marks) = Largest(given) \cup MarksOf(payload, visited)
    BY <2>1 DEF OptionsInv
  <2>3. /\ DOMAIN options' = {"enabled", "ttl", "breakpoints"} /\ options'.enabled = Enabled(payload)
        /\ options'.breakpoints = Largest(Positive(marks)) /\ ~Malformed(payload)
    BY <2>1, <2>2
  <2>4. Marked(payload) = given \cup MarksOf(payload, visited)
    BY <1>0, <2>1, <2>2, AllMarks
  <2>5. IsFiniteSet(MarksOf(payload, visited)) /\ MarksOf(payload, visited) \in SUBSET Int
    BY <1>0, <2>1, AllMarks
  <2>6. Largest(Positive(marks)) = Largest(Marked(payload))
    <3> HIDE DEF given
    <3> QED
      BY <1>1, <2>2, <2>4, <2>5, LargestOfLargest
  <2> QED
    BY <1>0, <2>1, <2>3, <2>6 DEF OptionsInv
<1>7. CASE UNCHANGED vars
  BY <1>7 DEF vars, OptionsInv
<1> QED
  BY <1>3, <1>4, <1>5, <1>6, <1>7 DEF Next

(* The invariant holds. *)
LEMMA OptionsInvariance == Spec => []OptionsInv
BY OptionsInit, OptionsNext, PTL DEF Spec

(* The largest of finitely many numbers.                                   *)
LEMMA LargestNumber ==
  ASSUME NEW S \in SUBSET Nat, IsFiniteSet(S), S # {}
  PROVE  Max(S) \in S /\ Max(S) \in Nat /\ \A n \in S : n <= Max(S)
<1> DEFINE R == {e \in S \X S : e[1] > e[2]}
           order == Sorted(S, R)
           n == Cardinality(S)
<1>1. \A i, j \in S : (<<i, j>> \in R <=> i > j) /\ i \in Int /\ j \in Int
  OBVIOUS
<1> HIDE DEF R
<1>2. IsStrictOrder(S, R)
  BY <1>1 DEF IsStrictOrder
<1>3. /\ n \in Nat /\ order \in [1..n -> S]
      /\ \A k, l \in 1..n : k < l => <<order[k], order[l]>> \in R
      /\ \A i \in S : \E k \in 1..n : order[k] = i
  BY <1>2, SortedEnumerates
<1> HIDE DEF order, n
<1>4. 1 \in 1..n
  <2>1. PICK i \in S : TRUE
    OBVIOUS
  <2> QED
    BY <1>3, <2>1
<1>5. ASSUME NEW i \in S PROVE order[1] >= i
  <2>1. PICK k \in 1..n : order[k] = i
    BY <1>3
  <2>2. order[1] \in S /\ order[1] \in Int /\ i \in Int
    BY <1>1, <1>3, <1>4
  <2>3. CASE k = 1
    BY <2>1, <2>2, <2>3
  <2>4. CASE k # 1
    <3>1. <<order[1], order[k]>> \in R
      BY <1>3, <1>4, <2>4
    <3>2. order[1] > i
      BY <1>1, <2>1, <2>2, <3>1
    <3> QED
      BY <2>2, <3>2
  <2> QED
    BY <2>3, <2>4
<1>6. order[1] \in S
  BY <1>3, <1>4
<1>7. Max(S) \in S /\ \A i \in S : Max(S) >= i
  BY <1>5, <1>6 DEF Max
<1>8. \A i \in S : i \in Nat
  OBVIOUS
<1> QED
  BY <1>7, <1>8

(* What the invariant says of a request whose options are final. *)
LEMMA InvariantKeepsMarks == OptionsInv => LongestMarksSurvive
<1> SUFFICES ASSUME OptionsInv, pc = "ready" PROVE LongestMarksSurvive
  BY DEF LongestMarksSurvive
<1> DEFINE all == Marked(payload)
           kept == options.breakpoints
<1>1. kept = Largest(all) /\ IsFiniteSet(all) /\ all \in SUBSET Nat
  BY AllMarks DEF OptionsInv
<1>2. all \in SUBSET Int
  BY <1>1
<1> HIDE DEF all, kept
<1>3. /\ kept \subseteq all /\ IsFiniteSet(kept)
      /\ \A n \in all \ kept, k \in kept : n < k
      /\ \A n \in all : n \in kept <=> Cardinality(Above(n, all)) < MaxBreakpoints
  BY <1>1, <1>2, LargestIsOnTop
<1>4. Cardinality(kept) = Min({Cardinality(all), MaxBreakpoints})
  <2>1. /\ Cardinality(all) \in Nat
        /\ Cardinality(kept) = IF Cardinality(all) < MaxBreakpoints THEN Cardinality(all) ELSE MaxBreakpoints
    BY <1>1, <1>2, LargestCount
  <2> DEFINE S == {Cardinality(all), MaxBreakpoints}
  <2>2. S \in SUBSET Nat /\ S # {}
    BY <2>1, BreakpointsAssumption
  <2>3. Min(S) \in S /\ \A i \in S : Min(S) <= i
    <3> HIDE DEF S
    <3> QED
      BY <2>2, SmallestOf
  <2>4. (Min(S) = Cardinality(all) \/ Min(S) = MaxBreakpoints) /\ Min(S) <= Cardinality(all) /\ Min(S) <= MaxBreakpoints
    BY <2>3
  <2> QED
    BY <2>1, <2>4, BreakpointsAssumption
<1>5. ASSUME all # {}
      PROVE  /\ MaxCacheable(Max(all)) = Max(all)
             /\ \A n \in 0..Max(all) : MaxCacheable(n) \in all \cup {0} /\ MaxCacheable(n) <= n
  <2>1. Max(all) \in all /\ Max(all) \in Nat /\ \A n \in all : n <= Max(all)
    BY <1>1, <1>5, LargestNumber
  <2>2. Max(all) \in kept
    <3>1. Above(Max(all), all) = {}
      <4>1. ASSUME NEW k \in Above(Max(all), all) PROVE FALSE
        <5>1. k \in all /\ k > Max(all) /\ k \in Int
          BY <1>2 DEF Above
        <5> QED
          BY <2>1, <5>1
      <4> QED
        BY <4>1
    <3>2. Cardinality({}) = 0
      BY FS_EmptySet
    <3> QED
      BY <1>3, <2>1, <3>1, <3>2, BreakpointsAssumption
  <2> DEFINE eligible(n) == {k \in kept : k <= n}
  <2>3. kept # {} /\ kept \in SUBSET Nat
    BY <1>1, <1>3, <2>2
  <2>4. ASSUME NEW n, eligible(n) # {}
        PROVE  MaxCacheable(n) = Max(eligible(n)) /\ Max(eligible(n)) \in eligible(n)
               /\ \A k \in eligible(n) : k <= Max(eligible(n))
    <3>1. MaxCacheable(n) = Max(eligible(n))
      BY <2>3, <2>4 DEF MaxCacheable, kept
    <3>2. IsFiniteSet(eligible(n)) /\ eligible(n) \in SUBSET Nat
      BY <1>3, <2>3, FS_Subset
    <3> HIDE DEF eligible
    <3> QED
      BY <2>4, <3>1, <3>2, LargestNumber
  <2>5. ASSUME NEW n \in 0..Max(all) PROVE MaxCacheable(n) \in all \cup {0} /\ MaxCacheable(n) <= n
    <3>1. CASE eligible(n) = {}
      <4>1. MaxCacheable(n) = 0
        BY <2>3, <3>1 DEF MaxCacheable, kept
      <4> QED
        BY <2>1, <4>1
    <3>2. CASE eligible(n) # {}
      BY <1>3, <2>4, <3>2
    <3> QED
      BY <3>1, <3>2
  <2>6. MaxCacheable(Max(all)) = Max(all)
    <3> DEFINE m == Max(all)
    <3>1. m \in eligible(m)
      BY <2>1, <2>2
    <3>2. MaxCacheable(m) = Max(eligible(m)) /\ Max(eligible(m)) \in eligible(m) /\ m <= Max(eligible(m))
      BY <2>4, <3>1
    <3>3. Max(eligible(m)) <= m /\ Max(eligible(m)) \in Nat /\ m \in Nat
      BY <2>1, <2>3, <3>2
    <3> HIDE DEF m, eligible
    <3> QED
      BY <3>2, <3>3 DEF m
  <2> QED
    BY <2>5, <2>6
<1> QED
  BY <1>3, <1>4, <1>5 DEF LongestMarksSurvive, all, kept

(* However a request spreads its marks over its lists and messages, its    *)
(* longest survive, as many as there may be, and the sequence never caches *)
(* past one of them (protocol.py:128, 249, sequence.py:116).               *)
THEOREM MarksSurvive == Spec => []LongestMarksSurvive
BY OptionsInvariance, InvariantKeepsMarks, PTL

(* Nothing that is read later gives the cache back to a request that has   *)
(* refused it, and nothing takes it from another (protocol.py:150).        *)
THEOREM NoMeansNo == Spec => []NoStoreIsRespected
<1>1. ASSUME OptionsInv, pc = "ready" PROVE NoStoreIsRespected
  <2>1. options.enabled = Enabled(payload) /\ ~Malformed(payload) /\ payload \in Payloads
    BY <1>1 DEF OptionsInv
  <2>2. payload.enabled \in {"absent", "true", "false"}
    BY <2>1, PayloadsAssumption DEF Malformed
  <2> QED
    BY <2>1, <2>2 DEF NoStoreIsRespected, Enabled, EnabledAtTop
<1>2. OptionsInv => NoStoreIsRespected
  BY <1>1 DEF NoStoreIsRespected
<1> QED
  BY <1>2, OptionsInvariance, PTL

==============================================================================
