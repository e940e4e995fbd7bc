------------------------------- MODULE MmProof -------------------------------
(***************************************************************************)
(* Proofs about the allocator: after any sequence of calls the chunks tile *)
(* the heap, the tags and the free lists are true, and no block of the     *)
(* client has been touched.                                                *)
(***************************************************************************)
EXTENDS Mm, Lemmas

-----------------------------------------------------------------------------
(***************************************************************************)
(* Circular lists, whatever they are for.                                  *)
(***************************************************************************)

\* From h on the links in one direction meet all of L.
Meets(link, L, h) == \A S \in SUBSET L : h \in S /\ (\A a \in S : link[a] \in S) => S = L

\* L is a list through header h, linked in both directions.
Ring(prev, next, L, h) ==
  /\ h \in L
  /\ \A a \in L : /\ prev[a] \in L /\ next[a] \in L
                  /\ next[prev[a]] = a /\ prev[next[a]] = a
  /\ Meets(next, L, h) /\ Meets(prev, L, h)

\* Links that agree on a list make the same list.
LEMMA RingFrame ==
  ASSUME NEW L, NEW h, NEW prev, NEW next, NEW prev2, NEW next2,
         Ring(prev, next, L, h), \A a \in L : prev2[a] = prev[a] /\ next2[a] = next[a]
  PROVE  Ring(prev2, next2, L, h)
<1>1. \A a \in L : /\ prev2[a] \in L /\ next2[a] \in L
                   /\ next2[prev2[a]] = a /\ prev2[next2[a]] = a
  BY DEF Ring
<1>2. Meets(next2, L, h)
  BY DEF Ring, Meets
<1>3. Meets(prev2, L, h)
  BY DEF Ring, Meets
<1> QED
  BY <1>1, <1>2, <1>3 DEF Ring

\* Behind the header a chunk more makes a list again.
LEMMA RingInsert ==
  ASSUME NEW L, NEW h, NEW a, NEW prev, NEW next, NEW prev2, NEW next2,
         Ring(prev, next, L, h), a \notin L,
         \A b \in L \cup {a} :
           /\ next2[b] = (IF b = h THEN a ELSE IF b = a THEN next[h] ELSE next[b])
           /\ prev2[b] = (IF b = next[h] THEN a ELSE IF b = a THEN h ELSE prev[b])
  PROVE  Ring(prev2, next2, L \cup {a}, h)
<1> DEFINE s == next[h]
           K == L \cup {a}
<1>1. /\ h \in L /\ s \in L /\ prev[s] = h
      /\ \A b \in L : /\ prev[b] \in L /\ next[b] \in L
                      /\ next[prev[b]] = b /\ prev[next[b]] = b
  BY DEF Ring
<1>2. \A b \in K : /\ prev2[b] \in K /\ next2[b] \in K
  BY <1>1
<1>3. ASSUME NEW b \in K
      PROVE  next2[prev2[b]] = b
  <2>1. CASE b = s
    BY <1>1, <2>1
  <2>2. CASE b = a
    BY <1>1, <2>2
  <2>3. CASE b # s /\ b # a
    <3>1. prev[b] \in L /\ next[prev[b]] = b /\ prev[b] # h
      BY <1>1, <2>3
    <3> QED
      BY <3>1, <2>3
  <2> QED
    BY <2>1, <2>2, <2>3
<1>4. ASSUME NEW b \in K
      PROVE  prev2[next2[b]] = b
  <2>1. CASE b = h
    BY <1>1, <2>1
  <2>2. CASE b = a
    BY <1>1, <2>2
  <2>3. CASE b # h /\ b # a
    <3>1. next[b] \in L /\ prev[next[b]] = b /\ next[b] # s
      BY <1>1, <2>3
    <3> QED
      BY <3>1, <2>3
  <2> QED
    BY <2>1, <2>2, <2>3
<1>5. Meets(next2, K, h)
  <2> SUFFICES ASSUME NEW S \in SUBSET K, h \in S, \A b \in S : next2[b] \in S
               PROVE  S = K
    BY DEF Meets
  <2> DEFINE R == S \ {a}
  <2>1. a \in S /\ s \in S
    <3>1. next2[h] = a
      BY <1>1
    <3>2. a \in S
      BY <3>1
    <3>3. next2[a] = s
      BY <1>1
    <3> QED
      BY <3>2, <3>3
  <2>2. R \in SUBSET L /\ h \in R
    BY <1>1
  <2>3. ASSUME NEW b \in R PROVE next[b] \in R
    <3>1. CASE b = h
      BY <1>1, <2>1, <3>1
    <3>2. CASE b # h
      <4>1. next2[b] = next[b] /\ next2[b] \in S
        BY <2>2, <3>2
      <4> QED
        BY <1>1, <2>2, <4>1
    <3> QED
      BY <3>1, <3>2
  <2>4. R = L
    BY <2>2, <2>3 DEF Ring, Meets
  <2> QED
    BY <2>1, <2>4
<1>6. Meets(prev2, K, h)
  <2> SUFFICES ASSUME NEW S \in SUBSET K, h \in S, \A b \in S : prev2[b] \in S
               PROVE  S = K
    BY DEF Meets
  <2> DEFINE R == S \ {a}
  <2>1. R \in SUBSET L /\ h \in R
    BY <1>1
  <2>2. ASSUME NEW b \in R PROVE prev[b] \in R
    <3>1. CASE b = s
      BY <1>1, <2>1, <3>1
    <3>2. CASE b # s
      <4>1. prev2[b] = prev[b] /\ prev2[b] \in S
        BY <2>1, <3>2
      <4> QED
        BY <1>1, <2>1, <4>1
    <3> QED
      BY <3>1, <3>2
  <2>3. R = L
    BY <2>1, <2>2 DEF Ring, Meets
  <2>4. s \in S /\ prev2[s] = a
    BY <1>1, <2>3
  <2>5. a \in S
    BY <2>4
  <2> QED
    BY <2>3, <2>5
<1> QED
  BY <1>1, <1>2, <1>3, <1>4, <1>5, <1>6 DEF Ring

\* Without one of its chunks a list is still a list.
LEMMA RingRemove ==
  ASSUME NEW L, NEW h, NEW a \in L, NEW prev, NEW next, NEW prev2, NEW next2,
         Ring(prev, next, L, h), a # h,
         \A b \in L : /\ next2[b] = (IF b = prev[a] THEN next[a] ELSE next[b])
                      /\ prev2[b] = (IF b = next[a] THEN prev[a] ELSE prev[b])
  PROVE  Ring(prev2, next2, L \ {a}, h) /\ prev[a] # a /\ next[a] # a
<1> DEFINE K == L \ {a}
           p == prev[a]
           s == next[a]
<1>1. /\ h \in K /\ p \in L /\ s \in L /\ next[p] = a /\ prev[s] = a
      /\ \A b \in L : /\ prev[b] \in L /\ next[b] \in L
                      /\ next[prev[b]] = b /\ prev[next[b]] = b
  BY DEF Ring
<1>2. p # a /\ s # a
  <2> SUFFICES ASSUME next[a] = a \/ prev[a] = a PROVE FALSE
    OBVIOUS
  <2>1. \A b \in K : next[b] \in K
    BY <1>1
  <2>2. K \in SUBSET L /\ h \in K
    BY <1>1
  <2>3. K = L
    BY <2>1, <2>2 DEF Ring, Meets
  <2> QED
    BY <2>3
<1>3. ASSUME NEW b \in K
      PROVE  /\ next2[b] \in K /\ prev2[b] \in K
             /\ next2[prev2[b]] = b /\ prev2[next2[b]] = b
  <2>1. next2[b] \in K
    BY <1>1, <1>2
  <2>2. prev2[b] \in K
    BY <1>1, <1>2
  <2>3. next2[prev2[b]] = b
    <3>1. CASE b = s
      BY <1>1, <1>2, <3>1
    <3>2. CASE b # s
      <4>1. prev2[b] = prev[b] /\ next[prev[b]] = b /\ prev[b] \in L
        BY <1>1, <3>2
      <4>2. prev[b] # p
        BY <1>1, <4>1
      <4> QED
        BY <4>1, <4>2
    <3> QED
      BY <3>1, <3>2
  <2>4. prev2[next2[b]] = b
    <3>1. CASE b = p
      BY <1>1, <1>2, <3>1
    <3>2. CASE b # p
      <4>1. next2[b] = next[b] /\ prev[next[b]] = b /\ next[b] \in L
        BY <1>1, <3>2
      <4>2. next[b] # s
        BY <1>1, <4>1
      <4> QED
        BY <4>1, <4>2
    <3> QED
      BY <3>1, <3>2
  <2> QED
    BY <2>1, <2>2, <2>3, <2>4
<1>4. Meets(next2, K, h)
  <2> SUFFICES ASSUME NEW S \in SUBSET K, h \in S, \A b \in S : next2[b] \in S
               PROVE  S = K
    BY DEF Meets
  <2> DEFINE R == IF p \in S THEN S \cup {a} ELSE S
  <2>1. R \in SUBSET L /\ h \in R
    OBVIOUS
  <2>2. ASSUME NEW b \in R PROVE next[b] \in R
    <3>1. CASE b = a
      <4>1. p \in S /\ next2[p] = s
        BY <1>1, <3>1
      <4> QED
        BY <4>1, <3>1
    <3>2. CASE b = p
      BY <1>1, <1>2, <3>2
    <3>3. CASE b # a /\ b # p
      <4>1. b \in S /\ next2[b] = next[b]
        BY <3>3
      <4> QED
        BY <4>1
    <3> QED
      BY <3>1, <3>2, <3>3
  <2>3. R = L
    BY <2>1, <2>2 DEF Ring, Meets
  <2> QED
    BY <2>3
<1>5. Meets(prev2, K, h)
  <2> SUFFICES ASSUME NEW S \in SUBSET K, h \in S, \A b \in S : prev2[b] \in S
               PROVE  S = K
    BY DEF Meets
  <2> DEFINE R == IF s \in S THEN S \cup {a} ELSE S
  <2>1. R \in SUBSET L /\ h \in R
    OBVIOUS
  <2>2. ASSUME NEW b \in R PROVE prev[b] \in R
    <3>1. CASE b = a
      <4>1. s \in S /\ prev2[s] = p
        BY <1>1, <3>1
      <4> QED
        BY <4>1, <3>1
    <3>2. CASE b = s
      BY <1>1, <1>2, <3>2
    <3>3. CASE b # a /\ b # s
      <4>1. b \in S /\ prev2[b] = prev[b]
        BY <3>3
      <4> QED
        BY <4>1
    <3> QED
      BY <3>1, <3>2, <3>3
  <2>3. R = L
    BY <2>1, <2>2 DEF Ring, Meets
  <2> QED
    BY <2>3
<1> QED
  BY <1>1, <1>2, <1>3, <1>4, <1>5 DEF Ring

\* The same list the other way round.
LEMMA RingTurned ==
  ASSUME NEW L, NEW h, NEW prev, NEW next, Ring(prev, next, L, h)
  PROVE  Ring(next, prev, L, h)
BY DEF Ring

\* What holds the chunk behind the header and all that follow is the whole list.
LEMMA RingClosed ==
  ASSUME NEW L, NEW h, NEW prev, NEW next, Ring(prev, next, L, h),
         NEW S \in SUBSET L, next[h] \in S, \A a \in S : next[a] \in S
  PROVE  S = L
<1>1. S \cup {h} = L
  <2>1. S \cup {h} \in SUBSET L /\ h \in S \cup {h}
    BY DEF Ring
  <2>2. \A a \in S \cup {h} : next[a] \in S \cup {h}
    OBVIOUS
  <2> QED
    BY <2>1, <2>2 DEF Ring, Meets
<1>2. prev[h] \in L /\ next[prev[h]] = h
  BY DEF Ring
<1>3. h \in S
  BY <1>1, <1>2
<1> QED
  BY <1>1, <1>3

-----------------------------------------------------------------------------
(***************************************************************************)
(* The recursive functions of Mm.                                          *)
(***************************************************************************)

\* f begins with a0 and goes on by step.
Iterates(f, A, step, a0, n) == /\ f \in [0 .. n -> A] /\ f[0] = a0
                               /\ \A k \in 1 .. n : f[k] = step[f[k - 1]]

\* There is such a function.
LEMMA Iteration ==
  ASSUME NEW A, NEW step \in [A -> A], NEW a0 \in A, NEW n \in Nat
  PROVE  \E f : Iterates(f, A, step, a0, n)
<1> DEFINE Is(f, k) == /\ f \in [0 .. k -> A] /\ f[0] = a0
                       /\ \A j \in 1 .. k : f[j] = step[f[j - 1]]
           S == {k \in Nat : \E f : Is(f, k)}
<1>1. 0 \in S
  <2>1. Is([j \in 0 .. 0 |-> a0], 0)
    OBVIOUS
  <2> QED
    BY <2>1
<1>2. ASSUME NEW k \in Nat, k \in S
      PROVE  k + 1 \in S
  <2>1. PICK f : Is(f, k)
    BY <1>2
  <2> DEFINE g == [j \in 0 .. k + 1 |-> IF j = k + 1 THEN step[f[k]] ELSE f[j]]
  <2>2. g \in [0 .. k + 1 -> A] /\ g[0] = a0
    BY <2>1
  <2>3. ASSUME NEW j \in 1 .. k + 1
        PROVE  g[j] = step[g[j - 1]]
    <3>1. j - 1 \in 0 .. k /\ g[j - 1] = f[j - 1]
      OBVIOUS
    <3>2. CASE j = k + 1
      BY <3>1, <3>2
    <3>3. CASE j # k + 1
      BY <2>1, <3>1, <3>3
    <3> QED
      BY <3>2, <3>3
  <2>4. Is(g, k + 1)
    BY <2>2, <2>3
  <2> HIDE DEF Is, g
  <2> QED
    BY <2>4
<1>3. Nat \subseteq S
  <2> HIDE DEF S
  <2> QED
    BY <1>1, <1>2, NatSetInduction
<1> QED
  BY <1>3 DEF Iterates

\* What is met from header h is the list of h, if the steps suffice for its length.
LEMMA ReachedIsRing ==
  ASSUME NEW m, NEW h, NEW L, Ring(m.prev, m.next, L, h), MAX_HEAP \in Nat,
         IsFiniteSet(L), Cardinality(L) <= MAX_HEAP + 1
  PROVE  Reached(m, h) = L
<1> DEFINE next == m.next
           Rec(f) == f = [k \in 0 .. MAX_HEAP |->
                            IF k = 0 THEN {next[h]}
                            ELSE LET b == f[k - 1] IN b \cup {next[a] : a \in b}]
           met == CHOOSE f : Rec(f)
           step == [b \in SUBSET L |-> b \cup {next[a] : a \in b}]
<1>1. \A a \in L : next[a] \in L
  BY DEF Ring
<1>2. h \in L /\ {next[h]} \in SUBSET L
  BY DEF Ring
<1>3. step \in [SUBSET L -> SUBSET L]
  BY <1>1
<1>4. PICK f \in [0 .. MAX_HEAP -> SUBSET L] :
        f[0] = {next[h]} /\ \A k \in 1 .. MAX_HEAP : f[k] = step[f[k - 1]]
  <2> DEFINE A == SUBSET L
             a0 == {next[h]}
  <2>1. step \in [A -> A] /\ a0 \in A
    BY <1>2, <1>3
  <2> HIDE DEF step, A, a0
  <2>2. PICK g : Iterates(g, A, step, a0, MAX_HEAP)
    BY <2>1, Iteration
  <2> QED
    BY <2>2 DEF Iterates, A, a0
<1>5. ASSUME NEW k \in 1 .. MAX_HEAP
      PROVE  f[k] = f[k - 1] \cup {next[a] : a \in f[k - 1]}
  <2>1. k - 1 \in 0 .. MAX_HEAP
    OBVIOUS
  <2>2. f[k - 1] \in SUBSET L
    BY <1>4, <2>1
  <2> QED
    BY <1>4, <2>2
<1>6. Rec(f)
  <2>1. f = [k \in 0 .. MAX_HEAP |-> f[k]]
    BY <1>4
  <2>2. ASSUME NEW k \in 0 .. MAX_HEAP
        PROVE  f[k] = IF k = 0 THEN {next[h]}
                      ELSE LET b == f[k - 1] IN b \cup {next[a] : a \in b}
    <3>1. CASE k = 0
      BY <1>4, <3>1
    <3>2. CASE k # 0
      BY <1>5, <3>2
    <3> QED
      BY <3>1, <3>2
  <2> QED
    BY <2>1, <2>2
<1>7. Rec(met)
  BY <1>6
<1>8. Reached(m, h) = met[MAX_HEAP]
  BY DEF Reached
<1> HIDE DEF met
<1>9. /\ met[0] = {next[h]}
      /\ \A k \in 1 .. MAX_HEAP : met[k] = met[k - 1] \cup {next[a] : a \in met[k - 1]}
  BY <1>7
<1> HIDE DEF Rec
<1> DEFINE P(k) == /\ met[k] \in SUBSET L /\ next[h] \in met[k]
                   /\ met[k] = L \/ Cardinality(met[k]) >= k + 1
           S == {k \in Nat : k <= MAX_HEAP => P(k)}
<1>10. \A T \in SUBSET L : IsFiniteSet(T) /\ Cardinality(T) \in Nat
  BY FS_Subset, FS_CardinalityType
<1>11. 0 \in S
  <2>1. Cardinality({next[h]}) = 1
    BY FS_Singleton
  <2>2. P(0)
    BY <1>2, <1>9, <2>1
  <2> QED
    BY <2>2
<1>12. ASSUME NEW k \in Nat, k \in S
       PROVE  k + 1 \in S
  <2> SUFFICES ASSUME k + 1 <= MAX_HEAP PROVE P(k + 1)
    OBVIOUS
  <2>1. P(k)
    BY <1>12
  <2>2. met[k + 1] = met[k] \cup {next[a] : a \in met[k]}
    <3>1. k + 1 \in 1 .. MAX_HEAP /\ (k + 1) - 1 = k
      OBVIOUS
    <3> QED
      BY <1>9, <3>1
  <2>3. met[k + 1] \in SUBSET L /\ next[h] \in met[k + 1] /\ met[k] \subseteq met[k + 1]
    BY <1>1, <2>1, <2>2
  <2>4. CASE met[k + 1] = met[k]
    <3>1. \A a \in met[k] : next[a] \in met[k]
      BY <2>2, <2>4
    <3>2. met[k] = L
      BY <2>1, <3>1, RingClosed
    <3> QED
      BY <2>3, <2>4, <3>2
  <2>5. CASE met[k + 1] # met[k]
    <3>1. PICK x \in met[k + 1] : x \notin met[k]
      BY <2>3, <2>5
    <3>2. Cardinality(met[k] \cup {x}) = Cardinality(met[k]) + 1
      BY <1>10, <2>1, <3>1, FS_AddElement
    <3>3. Cardinality(met[k] \cup {x}) <= Cardinality(met[k + 1])
      BY <1>10, <2>3, <3>1, FS_Subset
    <3>4. Cardinality(met[k]) >= k + 1
      BY <2>1, <2>3, <2>5
    <3>5. Cardinality(met[k]) \in Nat /\ Cardinality(met[k + 1]) \in Nat
      BY <1>10, <2>1, <2>3
    <3>6. Cardinality(met[k + 1]) >= k + 1 + 1
      BY <3>2, <3>3, <3>4, <3>5
    <3> QED
      BY <2>3, <3>6
  <2> QED
    BY <2>4, <2>5
<1>13. P(MAX_HEAP)
  <2>1. Nat \subseteq S
    <3> HIDE DEF S
    <3> QED
      BY <1>11, <1>12, NatSetInduction
  <2> QED
    BY <2>1
<1>14. met[MAX_HEAP] = L
  <2> SUFFICES ASSUME Cardinality(met[MAX_HEAP]) >= MAX_HEAP + 1
               PROVE  met[MAX_HEAP] = L
    BY <1>13
  <2>1. Cardinality(met[MAX_HEAP]) = Cardinality(L)
    <3>1. Cardinality(met[MAX_HEAP]) <= Cardinality(L)
      BY <1>13, FS_Subset
    <3>2. Cardinality(L) \in Nat /\ Cardinality(met[MAX_HEAP]) \in Nat
      BY <1>10, <1>13
    <3> QED
      BY <3>1, <3>2
  <2> QED
    BY <1>13, <2>1, FS_Subset
<1> QED
  BY <1>8, <1>14

\* The walk through the list of h ends at a chunk that is large enough, or at h.
LEMMA FirstFitFits ==
  ASSUME NEW m, NEW h, NEW L, NEW size, Ring(m.prev, m.next, L, h), MAX_HEAP \in Nat,
         IsFiniteSet(L), Cardinality(L) <= MAX_HEAP + 1
  PROVE  LET p == FirstFit(m, h, size)
         IN  p \in L /\ (p = h \/ m.tag[p].size >= size)
<1> DEFINE prev == m.prev
           N == 2 * MAX_HEAP
           Fits(a) == a = h \/ m.tag[a].size >= size
           Rec(f) == f = [k \in Unit |->
                            IF k = 0 THEN prev[h]
                            ELSE LET a == f[k - 1] IN IF Fits(a) THEN a ELSE prev[a]]
           walk == CHOOSE f : Rec(f)
           step == [a \in L |-> IF Fits(a) THEN a ELSE prev[a]]
<1>0. Unit = 0 .. N /\ N \in Nat
  BY DEF Unit
<1>1. h \in L /\ \A a \in L : prev[a] \in L
  BY DEF Ring
<1> HIDE DEF Fits
<1>2. step \in [L -> L] /\ prev[h] \in L
  BY <1>1
<1>3. PICK f \in [0 .. N -> L] :
        f[0] = prev[h] /\ \A k \in 1 .. N : f[k] = step[f[k - 1]]
  <2> DEFINE a0 == prev[h]
  <2>1. step \in [L -> L] /\ a0 \in L
    BY <1>2
  <2> HIDE DEF step, a0, N
  <2>2. PICK g : Iterates(g, L, step, a0, N)
    BY <1>0, <2>1, Iteration
  <2> QED
    BY <2>2 DEF Iterates, a0
<1>4. ASSUME NEW k \in 1 .. N
      PROVE  f[k] = IF Fits(f[k - 1]) THEN f[k - 1] ELSE prev[f[k - 1]]
  <2>1. k - 1 \in 0 .. N
    OBVIOUS
  <2>2. f[k - 1] \in L
    BY <1>3, <2>1
  <2> QED
    BY <1>3, <2>2
<1>5. Rec(f)
  <2> HIDE DEF N
  <2>1. f = [k \in Unit |-> f[k]]
    BY <1>0, <1>3
  <2>2. ASSUME NEW k \in Unit
        PROVE  f[k] = IF k = 0 THEN prev[h]
                      ELSE LET a == f[k - 1] IN IF Fits(a) THEN a ELSE prev[a]
    <3>1. CASE k = 0
      BY <1>3, <3>1
    <3>2. CASE k # 0
      BY <1>0, <1>4, <3>2
    <3> QED
      BY <3>1, <3>2
  <2> QED
    BY <2>1, <2>2
<1>6. Rec(walk)
  BY <1>5
<1>7. FirstFit(m, h, size) = walk[N]
  BY DEF FirstFit, Fits
<1> HIDE DEF walk
<1>8. /\ walk[0] = prev[h]
      /\ \A k \in 1 .. N : walk[k] = IF Fits(walk[k - 1]) THEN walk[k - 1]
                                                          ELSE prev[walk[k - 1]]
  BY <1>0, <1>6
<1> HIDE DEF Rec, N
<1> DEFINE Seen(k) == {walk[j] : j \in 0 .. k}
           P(k) == /\ walk[k] \in L
                   /\ \/ Fits(walk[k])
                      \/ /\ Seen(k) \subseteq L /\ (\A a \in Seen(k) : ~Fits(a))
                         /\ \A a \in Seen(k) \ {walk[k]} : prev[a] \in Seen(k)
                         /\ Cardinality(Seen(k)) >= k + 1
           S == {k \in Nat : k <= N => P(k)}
<1>9. \A T \in SUBSET L : IsFiniteSet(T) /\ Cardinality(T) \in Nat
  BY FS_Subset, FS_CardinalityType
<1>10. 0 \in S
  <2>1. Seen(0) = {walk[0]}
    OBVIOUS
  <2>2. Cardinality({walk[0]}) = 1
    BY FS_Singleton
  <2>3. walk[0] \in L
    BY <1>1, <1>8
  <2>4. P(0)
    <3>1. CASE Fits(walk[0])
      BY <2>3, <3>1
    <3>2. CASE ~Fits(walk[0])
      BY <2>1, <2>2, <2>3, <3>2
    <3> QED
      BY <3>1, <3>2
  <2> HIDE DEF P
  <2> QED
    BY <2>4
<1>11. ASSUME NEW k \in Nat, k \in S
       PROVE  k + 1 \in S
  <2> SUFFICES ASSUME k + 1 <= N PROVE P(k + 1)
    OBVIOUS
  <2>1. P(k)
    BY <1>0, <1>11
  <2>2. walk[k + 1] = IF Fits(walk[k]) THEN walk[k] ELSE prev[walk[k]]
    <3>1. k + 1 \in 1 .. N /\ (k + 1) - 1 = k
      BY <1>0
    <3> QED
      BY <1>8, <3>1
  <2>3. walk[k + 1] \in L
    BY <1>1, <2>1, <2>2
  <2>4. CASE Fits(walk[k]) \/ Fits(walk[k + 1])
    BY <2>2, <2>3, <2>4
  <2>5. CASE ~Fits(walk[k]) /\ ~Fits(walk[k + 1])
    <3>1. /\ Seen(k) \subseteq L /\ (\A a \in Seen(k) : ~Fits(a))
          /\ \A a \in Seen(k) \ {walk[k]} : prev[a] \in Seen(k)
          /\ Cardinality(Seen(k)) >= k + 1
      BY <2>1, <2>5
    <3>2. Seen(k + 1) = Seen(k) \cup {walk[k + 1]}
      <4>1. 0 .. k + 1 = (0 .. k) \cup {k + 1}
        OBVIOUS
      <4> QED
        BY <4>1
    <3>3. walk[k + 1] = prev[walk[k]]
      BY <2>2, <2>5
    <3>4. walk[k + 1] \notin Seen(k)
      <4> SUFFICES ASSUME walk[k + 1] \in Seen(k) PROVE FALSE
        OBVIOUS
      <4>1. \A a \in Seen(k) : prev[a] \in Seen(k)
        BY <3>1, <3>3
      <4>2. prev[h] \in Seen(k)
        <5>1. walk[0] \in Seen(k)
          OBVIOUS
        <5> QED
          BY <1>8, <5>1
      <4>3. Ring(m.next, m.prev, L, h)
        BY RingTurned
      <4>4. Seen(k) = L
        <5> HIDE DEF Seen
        <5> QED
          BY <3>1, <4>1, <4>2, <4>3, RingClosed
      <4> QED
        BY <1>1, <3>1, <4>4 DEF Fits
    <3>5. Cardinality(Seen(k + 1)) >= k + 1 + 1
      <4> HIDE DEF Seen
      <4>1. Cardinality(Seen(k) \cup {walk[k + 1]}) = Cardinality(Seen(k)) + 1
        BY <1>9, <3>1, <3>4, FS_AddElement
      <4> DEFINE c == Cardinality(Seen(k))
      <4>2. c \in Nat /\ c >= k + 1
        BY <1>9, <3>1
      <4>3. Cardinality(Seen(k + 1)) = c + 1
        BY <3>2, <4>1
      <4> HIDE DEF c
      <4> QED
        BY <4>2, <4>3
    <3>6. \A a \in Seen(k + 1) \ {walk[k + 1]} : prev[a] \in Seen(k + 1)
      <4> HIDE DEF Seen
      <4> QED
        BY <3>1, <3>2, <3>3
    <3>7. Seen(k + 1) \subseteq L /\ (\A a \in Seen(k + 1) : ~Fits(a))
      <4> HIDE DEF Seen
      <4> QED
        BY <2>3, <2>5, <3>1, <3>2
    <3> QED
      BY <2>3, <3>5, <3>6, <3>7
  <2> QED
    BY <2>4, <2>5
<1>12. P(N)
  <2>1. Nat \subseteq S
    <3> HIDE DEF S
    <3> QED
      BY <1>10, <1>11, NatSetInduction
  <2> HIDE DEF P
  <2> QED
    BY <1>0, <2>1
<1>13. Fits(walk[N])
  <2> SUFFICES ASSUME ~Fits(walk[N]) PROVE FALSE
    OBVIOUS
  <2>1. /\ Seen(N) \subseteq L /\ (\A a \in Seen(N) : ~Fits(a))
        /\ Cardinality(Seen(N)) >= N + 1
    BY <1>12
  <2> HIDE DEF Seen
  <2>2. h \notin Seen(N)
    BY <2>1 DEF Fits
  <2>3. Cardinality(L \ {h}) = Cardinality(L) - 1
    BY <1>1, FS_RemoveElement
  <2>4. Cardinality(Seen(N)) <= Cardinality(L \ {h})
    <3>1. IsFiniteSet(L \ {h}) /\ Seen(N) \subseteq L \ {h}
      BY <1>9, <2>1, <2>2
    <3> QED
      BY <3>1, FS_Subset
  <2>5. Cardinality(L) \in Nat /\ Cardinality(Seen(N)) \in Nat
    BY <1>9, <2>1
  <2> QED
    BY <1>0, <2>1, <2>3, <2>4, <2>5 DEF N
<1> QED
  BY <1>7, <1>12, <1>13 DEF Fits

-----------------------------------------------------------------------------
(***************************************************************************)
(* The chunks.                                                             *)
(***************************************************************************)

\* The chunks begin at the addresses of T but the last one, each where the chunk before
\* it ends.
Tiling(m, T) ==
  /\ T \subseteq 0 .. m.top /\ 0 \in T /\ m.top \in T
  /\ \A c \in T \ {m.top} : /\ m.tag[c] \in Tag /\ m.tag[c].size >= 1
                            /\ c + m.tag[c].size \in T
                            /\ \A d \in T : d <= c \/ c + m.tag[c].size <= d

\* The ends of the heap for mm.c and for memlib.c.
Extent(m) == m \in Heap /\ m.top <= m.brk /\ m.brk <= MAX_HEAP

\* What the words of a heap can be.
LEMMA HeapTypes ==
  ASSUME NEW m, m \in Heap
  PROVE  /\ m.tag \in [Node -> Tag \cup Data] /\ m.prev \in [Node -> Node \cup Data]
         /\ m.next \in [Node -> Node \cup Data] /\ m.foot \in [Unit -> Unit \cup Data]
         /\ m.top \in Nat /\ m.brk \in Nat /\ m.top \in Unit /\ m.brk \in Unit
BY MAX_HEAPAssumption DEF Heap, Unit

\* Addresses and sizes are numbers.
LEMMA TilingTypes ==
  ASSUME NEW m, NEW T, m.top \in Nat, Tiling(m, T)
  PROVE  /\ T \subseteq Nat /\ \A c \in T : c <= m.top
         /\ \A c \in T \ {m.top} :
              /\ c \in Nat /\ c < m.top
              /\ m.tag[c].size \in Nat \ {0} /\ m.tag[c].used \in BOOLEAN
              /\ m.tag[c].pused \in BOOLEAN
              /\ c + m.tag[c].size \in T /\ c + m.tag[c].size <= m.top
<1>1. T \subseteq Nat /\ \A c \in T : c <= m.top
  <2> DEFINE top == m.top
  <2>1. T \subseteq 0 .. top /\ top \in Nat
    BY DEF Tiling
  <2> HIDE DEF top
  <2>2. T \subseteq Nat /\ \A c \in T : c <= top
    BY <2>1
  <2> QED
    BY <2>2 DEF top
<1>2. ASSUME NEW c \in T \ {m.top}
      PROVE  /\ c \in Nat /\ c < m.top
             /\ m.tag[c].size \in Nat \ {0} /\ m.tag[c].used \in BOOLEAN
             /\ m.tag[c].pused \in BOOLEAN
             /\ c + m.tag[c].size \in T /\ c + m.tag[c].size <= m.top
  <2>1. m.tag[c] \in Tag /\ m.tag[c].size >= 1 /\ c + m.tag[c].size \in T
    BY DEF Tiling
  <2>2. /\ m.tag[c].size \in Unit /\ m.tag[c].used \in BOOLEAN
        /\ m.tag[c].pused \in BOOLEAN
    BY <2>1 DEF Tag
  <2>3. c \in Nat /\ c < m.top
    BY <1>1
  <2> QED
    BY <1>1, <2>1, <2>2, <2>3, MAX_HEAPAssumption DEF Unit
<1> QED
  BY <1>1, <1>2

\* Each chunk but the first begins where another one ends.
LEMMA ChunkBefore ==
  ASSUME NEW m, NEW T, m.top \in Nat, Tiling(m, T), NEW d \in T, d # 0
  PROVE  \E c \in T \ {m.top} : c < d /\ c + m.tag[c].size = d
<1> DEFINE S == {c \in T : c < d}
<1>1. T \subseteq Nat /\ d \in Nat /\ d <= m.top
  BY TilingTypes
<1>2. S \subseteq Nat /\ S # {}
  BY <1>1 DEF Tiling
<1>3. IsFiniteSet(S)
  <2>1. IsFiniteSet(0 .. m.top) /\ S \subseteq 0 .. m.top
    <3>1. IsFiniteSet(0 .. m.top)
      BY FS_Interval
    <3> QED
      BY <3>1 DEF Tiling
  <2> QED
    BY <2>1, FS_Subset
<1>4. PICK c \in S : \A b \in S : c >= b
  BY <1>2, <1>3, GreatestExists
<1>5. c \in T \ {m.top} /\ c < d
  BY <1>1
<1>6. /\ c + m.tag[c].size \in T /\ m.tag[c].size \in Nat \ {0} /\ c \in Nat
      /\ c + m.tag[c].size <= d
  <2>1. c \in Nat /\ m.tag[c].size \in Nat \ {0}
    BY <1>5, TilingTypes
  <2>2. c + m.tag[c].size \in T /\ (d <= c \/ c + m.tag[c].size <= d)
    BY <1>5 DEF Tiling
  <2> QED
    BY <1>1, <1>5, <2>1, <2>2
<1>7. c + m.tag[c].size \notin S
  BY <1>4, <1>6
<1>8. c + m.tag[c].size = d
  BY <1>1, <1>6, <1>7
<1> QED
  BY <1>5, <1>8

\* What mm_check meets from the start of the heap on is the tiling.
LEMMA BoundariesAreTiling ==
  ASSUME NEW m, NEW T, m.top \in Nat, m.top <= MAX_HEAP, Tiling(m, T)
  PROVE  Boundaries(m) = T
<1> DEFINE More(b) == b \cup {c + m.tag[c].size : c \in {c \in b : c < m.top}}
           Rec(f) == f = [k \in 0 .. MAX_HEAP |->
                            IF k = 0 THEN {0} ELSE LET b == f[k - 1] IN More(b)]
           met == CHOOSE f : Rec(f)
           A == SUBSET T
           step == [b \in A |-> More(b)]
           a0 == {0}
<1>0. MAX_HEAP \in Nat
  BY MAX_HEAPAssumption
<1>1. step \in [A -> A] /\ a0 \in A
  <2>1. ASSUME NEW b \in A PROVE More(b) \in A
    BY TilingTypes
  <2> HIDE DEF More
  <2> QED
    BY <2>1 DEF Tiling
<1>2. PICK f : Iterates(f, A, step, a0, MAX_HEAP)
  <2> HIDE DEF step, A, a0
  <2> QED
    BY <1>0, <1>1, Iteration
<1>3. ASSUME NEW k \in 1 .. MAX_HEAP
      PROVE  f[k] = More(f[k - 1])
  <2>1. f[k - 1] \in A
    BY <1>0, <1>2, k - 1 \in 0 .. MAX_HEAP DEF Iterates
  <2>2. f[k] = step[f[k - 1]]
    BY <1>2 DEF Iterates
  <2> HIDE DEF A, More
  <2> QED
    BY <2>1, <2>2
<1>4. Rec(f)
  <2> HIDE DEF More
  <2>1. f = [k \in 0 .. MAX_HEAP |-> f[k]]
    BY <1>2 DEF Iterates
  <2>2. ASSUME NEW k \in 0 .. MAX_HEAP
        PROVE  f[k] = IF k = 0 THEN {0} ELSE LET b == f[k - 1] IN More(b)
    <3>1. CASE k = 0
      BY <1>2, <3>1 DEF Iterates
    <3>2. CASE k # 0
      BY <1>3, <3>2
    <3> QED
      BY <3>1, <3>2
  <2> QED
    BY <2>1, <2>2
<1>5. Rec(met)
  <2> HIDE DEF Rec
  <2> QED
    BY <1>4
<1>6. Boundaries(m) = met[MAX_HEAP]
  BY DEF Boundaries
<1> HIDE DEF met
<1>7. met[0] = {0} /\ \A k \in 1 .. MAX_HEAP : met[k] = More(met[k - 1])
  <2> HIDE DEF More
  <2>1. \A k \in 0 .. MAX_HEAP : met[k] = IF k = 0 THEN {0} ELSE More(met[k - 1])
    BY <1>5
  <2> QED
    BY <1>0, <2>1
<1> HIDE DEF Rec, More
<1> DEFINE P(k) == met[k] \subseteq T /\ \A d \in T : d <= k => d \in met[k]
           S == {k \in Nat : k <= MAX_HEAP => P(k)}
<1>8. 0 \in S
  <2>1. P(0)
    BY <1>7, TilingTypes DEF Tiling
  <2> QED
    BY <2>1
<1>9. ASSUME NEW k \in Nat, k \in S
      PROVE  k + 1 \in S
  <2> SUFFICES ASSUME k + 1 <= MAX_HEAP PROVE P(k + 1)
    OBVIOUS
  <2>1. P(k)
    BY <1>0, <1>9
  <2>2. met[k + 1] = More(met[k])
    <3>1. k + 1 \in 1 .. MAX_HEAP /\ (k + 1) - 1 = k
      BY <1>0
    <3> QED
      BY <1>7, <3>1
  <2>3. met[k + 1] \subseteq T
    BY <2>1, <2>2, TilingTypes DEF More
  <2>4. ASSUME NEW d \in T, d <= k + 1
        PROVE  d \in met[k + 1]
    <3>1. CASE d <= k
      BY <2>1, <2>2, <3>1 DEF More
    <3>2. CASE ~(d <= k)
      <4>1. d \in Nat /\ d # 0
        BY <3>2, TilingTypes
      <4>2. PICK c \in T \ {m.top} : c < d /\ c + m.tag[c].size = d
        BY <4>1, ChunkBefore
      <4>3. c \in Nat /\ c < m.top
        BY TilingTypes
      <4>4. c \in met[k]
        BY <2>1, <2>4, <4>1, <4>2, <4>3
      <4> QED
        BY <2>2, <4>2, <4>3, <4>4 DEF More
    <3> QED
      BY <3>1, <3>2
  <2> QED
    BY <2>3, <2>4
<1>10. P(MAX_HEAP)
  <2>1. Nat \subseteq S
    <3> HIDE DEF S
    <3> QED
      BY <1>8, <1>9, NatSetInduction
  <2> HIDE DEF P
  <2> QED
    BY <1>0, <2>1
<1>11. \A d \in T : d <= MAX_HEAP
  BY <1>0, TilingTypes
<1> QED
  BY <1>6, <1>10, <1>11

-----------------------------------------------------------------------------
(***************************************************************************)
(* The inductive invariant.                                                *)
(***************************************************************************)

\* No chunk that is in use, and no word within a chunk, belongs to a list.
NoList == 0

\* The list, named by its header, that an address belongs to.
Class(m, T) ==
  [b \in Node |-> IF b \in Header THEN b
                  ELSE IF b \in T \ {m.top} /\ ~m.tag[b].used
                       THEN get_header(m.tag[b].size) ELSE NoList]

Members(class, h) == {b \in Node : class[b] = h}

\* The lists are those that class says.
Rings(m, class) == \A h \in Header : Ring(m.prev, m.next, Members(class, h), h)

\* The two tags of a free chunk agree.
Footed(m, T) ==
  \A c \in T \ {m.top} :
    ~m.tag[c].used => m.foot[c + m.tag[c].size - 1] = m.tag[c].size

\* A cleared PUSED bit is true: a free chunk ends there.
Marked(m, T) ==
  \A c \in T \ {m.top} :
    ~m.tag[c].pused => \E b \in T \ {m.top} : ~m.tag[b].used /\ b + m.tag[b].size = c

Good(m, T) == /\ Extent(m) /\ Tiling(m, T) /\ Footed(m, T) /\ Marked(m, T)
              /\ Rings(m, Class(m, T))

Used(m, T) == {c \in T \ {m.top} : m.tag[c].used}

\* The blocks f begin at the addresses of S, each fits in its chunk and is as the client
\* has left it.
Owned(m, S, f) ==
  /\ f \in [S -> [size : Requests, word : Data]]
  /\ \A p \in S : /\ m.tag[p].size >= f[p].size
                  /\ Holds(m, p, f[p].size, f[p].word)

\* The blocks of the client are the chunks in use.
IInv == \E T \in SUBSET Unit : Good(heap, T) /\ Owned(heap, Used(heap, T), live)

-----------------------------------------------------------------------------
(***************************************************************************)
(* What the helpers do to a heap.                                          *)
(***************************************************************************)

\* Headers and units are nodes, and each size has its header.
LEMMA HeaderFacts ==
  /\ Header \subseteq Node /\ Unit \subseteq Node /\ NoList \notin Header /\ -1 \in Header
  /\ Header \cap Unit = {} /\ Unit \subseteq Nat
  /\ \A n \in Nat : get_header(n) \in Header
BY HEADERSAssumption, MAX_HEAPAssumption
   DEF Header, Node, Unit, NoList, get_header, MIN_CHUNK_SIZE

\* The links of an address that is taken out of its list.
LEMMA UnlinkLinks ==
  ASSUME NEW m, m \in Heap, NEW a \in Node, m.prev[a] \in Node, m.next[a] \in Node,
         m.prev[a] # a
  PROVE  LET u == Unlink(m, a)
         IN  /\ u \in Heap /\ u.tag = m.tag /\ u.foot = m.foot
             /\ u.top = m.top /\ u.brk = m.brk
             /\ u.next = [m.next EXCEPT ![m.prev[a]] = m.next[a]]
             /\ u.prev = [m.prev EXCEPT ![m.next[a]] = m.prev[a]]
<1> DEFINE m1 == [m EXCEPT !.next[m.prev[a]] = m.next[a]]
           u == [m1 EXCEPT !.prev[m1.next[a]] = m1.prev[a]]
<1>1. /\ m1 \in Heap /\ m1.tag = m.tag /\ m1.foot = m.foot /\ m1.prev = m.prev
      /\ m1.top = m.top /\ m1.brk = m.brk
      /\ m1.next = [m.next EXCEPT ![m.prev[a]] = m.next[a]]
  BY DEF Heap
<1>2. m1.next[a] = m.next[a] /\ m1.prev[a] = m.prev[a]
  BY <1>1, HeapTypes
<1> HIDE DEF m1
<1>3. /\ u \in Heap /\ u.tag = m1.tag /\ u.foot = m1.foot /\ u.next = m1.next
      /\ u.top = m1.top /\ u.brk = m1.brk
      /\ u.prev = [m1.prev EXCEPT ![m1.next[a]] = m1.prev[a]]
  BY <1>1, <1>2 DEF Heap
<1>4. Unlink(m, a) = u
  BY DEF Unlink, m1
<1> QED
  BY <1>1, <1>2, <1>3, <1>4

\* u is m with other links: address a has moved to the list h (or to none), and the
\* links of the addresses in no list are as they were.
Relinked(m, class, a, h, u) ==
  /\ u \in Heap /\ u.tag = m.tag /\ u.foot = m.foot /\ u.top = m.top /\ u.brk = m.brk
  /\ Rings(u, [class EXCEPT ![a] = h])
  /\ \A b \in Node \ {a} : class[b] = NoList =>
       u.prev[b] = m.prev[b] /\ u.next[b] = m.next[b]

\* Unlink takes a chunk out of the list of its class.
LEMMA UnlinkRings ==
  ASSUME NEW m, m \in Heap, NEW class \in [Node -> Header \cup {NoList}], Rings(m, class),
         NEW a \in Node, class[a] \in Header, class[a] # a
  PROVE  Relinked(m, class, a, NoList, Unlink(m, a))
<1> DEFINE u == Unlink(m, a)
           h == class[a]
           L == Members(class, h)
           class2 == [class EXCEPT ![a] = NoList]
<1>1. h \in Header /\ h # NoList /\ Ring(m.prev, m.next, L, h)
  BY HeaderFacts DEF Rings
<1>2. a \in L /\ a # h
  BY DEF Members
<1>3. m.prev[a] \in L /\ m.next[a] \in L
  BY <1>1, <1>2 DEF Ring
<1>4. L \subseteq Node
  BY DEF Members
<1>5. /\ m.prev \in [Node -> Node \cup Data] /\ m.next \in [Node -> Node \cup Data]
  BY HeapTypes
<1>6. m.prev[a] # a /\ m.next[a] # a
  <2> DEFINE n2 == [m.next EXCEPT ![m.prev[a]] = m.next[a]]
             p2 == [m.prev EXCEPT ![m.next[a]] = m.prev[a]]
  <2>1. \A b \in L : /\ n2[b] = (IF b = m.prev[a] THEN m.next[a] ELSE m.next[b])
                     /\ p2[b] = (IF b = m.next[a] THEN m.prev[a] ELSE m.prev[b])
    BY <1>3, <1>4, <1>5
  <2> DEFINE pl == m.prev
             nl == m.next
  <2>2. Ring(pl, nl, L, h) /\ a \in L /\ a # h
    BY <1>1, <1>2
  <2>3. \A b \in L : /\ n2[b] = (IF b = pl[a] THEN nl[a] ELSE nl[b])
                     /\ p2[b] = (IF b = nl[a] THEN pl[a] ELSE pl[b])
    BY <2>1
  <2> HIDE DEF n2, p2, L, h, pl, nl
  <2>4. Ring(p2, n2, L \ {a}, h) /\ pl[a] # a /\ nl[a] # a
    BY <2>2, <2>3, RingRemove
  <2> QED
    BY <2>4 DEF pl, nl
<1>7. /\ u \in Heap /\ u.tag = m.tag /\ u.foot = m.foot
      /\ u.top = m.top /\ u.brk = m.brk
      /\ u.next = [m.next EXCEPT ![m.prev[a]] = m.next[a]]
      /\ u.prev = [m.prev EXCEPT ![m.next[a]] = m.prev[a]]
  BY <1>3, <1>4, <1>6, UnlinkLinks
<1>8. \A b \in Node : b \notin L => u.prev[b] = m.prev[b] /\ u.next[b] = m.next[b]
  BY <1>3, <1>4, <1>5, <1>7
<1>9. \A b \in L : /\ u.next[b] = (IF b = m.prev[a] THEN m.next[a] ELSE m.next[b])
                   /\ u.prev[b] = (IF b = m.next[a] THEN m.prev[a] ELSE m.prev[b])
  BY <1>3, <1>4, <1>5, <1>7
<1>10. ASSUME NEW g \in Header
       PROVE  Ring(u.prev, u.next, Members(class2, g), g)
  <2>1. CASE g = h
    <3>1. Members(class2, g) = L \ {a}
      BY <1>1, <2>1 DEF Members
    <3> HIDE DEF L, h, u, class2
    <3>2. Ring(u.prev, u.next, L \ {a}, h)
      BY <1>1, <1>2, <1>9, RingRemove
    <3> QED
      BY <2>1, <3>1, <3>2
  <2>2. CASE g # h
    <3>1. Members(class2, g) = Members(class, g)
      BY <2>2, HeaderFacts DEF Members
    <3>2. \A b \in Members(class, g) : b \in Node /\ b \notin L
      BY <2>2 DEF Members
    <3>3. Ring(m.prev, m.next, Members(class, g), g)
      BY DEF Rings
    <3> HIDE DEF L, h, u, class2
    <3> QED
      BY <1>8, <3>1, <3>2, <3>3, RingFrame
  <2> QED
    BY <2>1, <2>2
<1>11. Rings(u, class2)
  BY <1>10 DEF Rings
<1>12. \A b \in Node : class[b] = NoList => u.prev[b] = m.prev[b] /\ u.next[b] = m.next[b]
  <2>1. \A b \in Node : class[b] = NoList => b \notin L
    BY <1>1 DEF Members
  <2> QED
    BY <1>8, <2>1
<1> QED
  BY <1>7, <1>11, <1>12 DEF Relinked

\* Insert puts an address that is in no list into the list of its size.
LEMMA InsertRings ==
  ASSUME NEW m, m \in Heap, NEW class \in [Node -> Header \cup {NoList}], Rings(m, class),
         NEW a \in Node, class[a] = NoList, NEW size \in Nat
  PROVE  Relinked(m, class, a, get_header(size), Insert(m, a, size))
<1> DEFINE i == Insert(m, a, size)
           h == get_header(size)
           s == m.next[h]
           m1 == [m EXCEPT !.prev[a] = h, !.next[a] = s]
           L == Members(class, h)
           class2 == [class EXCEPT ![a] = h]
<1>1. h \in Header /\ h # NoList /\ h \in Node /\ Ring(m.prev, m.next, L, h)
  BY HeaderFacts DEF Rings
<1>2. L \subseteq Node /\ a \notin L /\ h \in L /\ s \in L /\ s # a /\ h # a /\ s \in Node
  <2>1. L \subseteq Node /\ a \notin L
    BY <1>1 DEF Members
  <2>2. h \in L /\ s \in L
    BY <1>1 DEF Ring
  <2> QED
    BY <2>1, <2>2
<1>3. m.prev \in [Node -> Node \cup Data] /\ m.next \in [Node -> Node \cup Data]
  BY HeapTypes
<1>4. /\ m1 \in Heap /\ m1.tag = m.tag /\ m1.foot = m.foot /\ m1.top = m.top
      /\ m1.brk = m.brk /\ m1.prev = [m.prev EXCEPT ![a] = h]
      /\ m1.next = [m.next EXCEPT ![a] = s]
  <2> HIDE DEF h, s
  <2> QED
    BY <1>1, <1>2 DEF Heap
<1>5. i = [m1 EXCEPT !.prev[s] = a, !.next[h] = a]
  BY DEF Insert
<1>6. /\ i \in Heap /\ i.tag = m.tag /\ i.foot = m.foot /\ i.top = m.top
      /\ i.brk = m.brk /\ i.prev = [m1.prev EXCEPT ![s] = a]
      /\ i.next = [m1.next EXCEPT ![h] = a]
  <2> HIDE DEF h, s, m1, i
  <2> QED
    BY <1>1, <1>2, <1>4, <1>5 DEF Heap
<1>7. \A b \in Node : /\ i.next[b] = (IF b = h THEN a ELSE IF b = a THEN s ELSE m.next[b])
                      /\ i.prev[b] = (IF b = s THEN a ELSE IF b = a THEN h ELSE m.prev[b])
  <2> HIDE DEF h, s, m1, i
  <2> QED
    BY <1>1, <1>2, <1>3, <1>4, <1>6
<1>8. ASSUME NEW g \in Header
      PROVE  Ring(i.prev, i.next, Members(class2, g), g)
  <2>1. CASE g = h
    <3>1. Members(class2, g) = L \cup {a}
      BY <1>1, <2>1 DEF Members
    <3>2. \A b \in L \cup {a} :
            /\ i.next[b] = (IF b = h THEN a ELSE IF b = a THEN m.next[h] ELSE m.next[b])
            /\ i.prev[b] = (IF b = m.next[h] THEN a ELSE IF b = a THEN h ELSE m.prev[b])
      BY <1>2, <1>7
    <3> HIDE DEF L, h, i, class2
    <3>3. Ring(i.prev, i.next, L \cup {a}, h)
      BY <1>1, <1>2, <3>2, RingInsert
    <3> QED
      BY <2>1, <3>1, <3>3
  <2>2. CASE g # h
    <3>1. Members(class2, g) = Members(class, g)
      BY <1>1, <2>2, HeaderFacts DEF Members
    <3>2. \A b \in Members(class, g) : b \in Node /\ b \notin L /\ b # a
      BY <2>2, HeaderFacts DEF Members
    <3>3. Ring(m.prev, m.next, Members(class, g), g)
      BY DEF Rings
    <3>4. \A b \in Members(class, g) : i.prev[b] = m.prev[b] /\ i.next[b] = m.next[b]
      <4> HIDE DEF L, h, s, i
      <4> QED
        BY <1>2, <1>7, <3>2
    <3> HIDE DEF L, h, i, class2
    <3> QED
      BY <3>1, <3>3, <3>4, RingFrame
  <2> QED
    BY <2>1, <2>2
<1>9. Rings(i, class2)
  BY <1>8 DEF Rings
<1>10. ASSUME NEW b \in Node \ {a}, class[b] = NoList
       PROVE  i.prev[b] = m.prev[b] /\ i.next[b] = m.next[b]
  <2>1. b \notin L
    BY <1>1, <1>10 DEF Members
  <2> HIDE DEF L, h, s, i
  <2> QED
    BY <1>2, <1>7, <2>1
<1> QED
  BY <1>6, <1>9, <1>10 DEF Relinked

-----------------------------------------------------------------------------
(***************************************************************************)
(* A part of the heap is divided anew.                                     *)
(***************************************************************************)

\* Where chunk c begins and where it ends is not what any other chunk contains.
LEMMA Apart ==
  ASSUME NEW m, NEW T, m.top \in Nat, Tiling(m, T), NEW c \in T \ {m.top}, NEW d \in T
  PROVE  d <= c \/ c + m.tag[c].size <= d
BY DEF Tiling

\* No address within a chunk in use belongs to a list.
LEMMA UsedNoList ==
  ASSUME NEW m, NEW T, m \in Heap, Tiling(m, T), NEW c \in Used(m, T),
         NEW a \in c .. c + m.tag[c].size - 1
  PROVE  a \in Node /\ a \in Unit /\ Class(m, T)[a] = NoList
<1>1. c \in T \ {m.top} /\ m.tag[c].used
  BY DEF Used
<1> DEFINE s == m.tag[c].size
           top == m.top
<1>2. c \in Nat /\ s \in Nat /\ c + s <= top /\ top \in Unit /\ top \in Nat
  BY <1>1, HeapTypes, TilingTypes
<1>3. \A d \in T : d <= c \/ c + s <= d
  BY <1>1, HeapTypes, Apart
<1>4. T \subseteq Nat
  BY HeapTypes, TilingTypes
<1> HIDE DEF s, top
<1>5. a \in c .. c + s - 1
  BY DEF s
<1>6. a \in Unit
  BY <1>2, <1>5, MAX_HEAPAssumption DEF Unit
<1>7. a \in T => a = c
  BY <1>2, <1>3, <1>4, <1>5
<1> QED
  BY <1>1, <1>6, <1>7, HeaderFacts DEF Class

\* The chunks outside of lo .. hi stay, those between are new: each is well-formed, and
\* a cleared PUSED bit in or behind them is true.
Retiles(m, T, m2, T2, lo, hi) ==
  /\ lo \in T /\ lo \in T2 /\ hi \in Nat /\ lo <= hi /\ (hi \in T \/ hi > m.top)
  /\ T2 \subseteq 0 .. m2.top /\ m2.top \in T2 /\ (hi < m.top => m2.top = m.top)
  /\ \A c \in Nat : c < lo \/ hi <= c => (c \in T2 \ {m2.top} <=> c \in T \ {m.top})
  /\ \A a \in Node : a < lo \/ hi < a => m2.tag[a] = m.tag[a]
  /\ \A a \in Unit : a < lo \/ hi <= a => m2.foot[a] = m.foot[a]
  /\ hi \in T2 \ {m2.top} =>
       /\ m2.tag[hi] \in Tag /\ m2.tag[hi].size = m.tag[hi].size
       /\ m2.tag[hi].used = m.tag[hi].used
       /\ \/ m2.tag[hi].pused
          \/ \E b \in T2 \ {m2.top} : ~m2.tag[b].used /\ b + m2.tag[b].size = hi
  /\ \A c \in T2 \ {m2.top} : lo <= c /\ c < hi =>
       /\ m2.tag[c] \in Tag /\ m2.tag[c].size >= 1
       /\ c + m2.tag[c].size \in T2 /\ c + m2.tag[c].size <= hi
       /\ \A d \in T2 : d <= c \/ c + m2.tag[c].size <= d
       /\ ~m2.tag[c].used => m2.foot[c + m2.tag[c].size - 1] = m2.tag[c].size
       /\ m2.tag[c].pused \/ (c = lo /\ lo # m.top /\ ~m.tag[lo].pused)

\* The words of chunk c, but for its first one.
SameWords(m, m2, c) ==
  /\ \A a \in c .. c + m.tag[c].size - 1 :
       m2.prev[a] = m.prev[a] /\ m2.next[a] = m.next[a] /\ m2.foot[a] = m.foot[a]
  /\ \A a \in c + 1 .. c + m.tag[c].size - 1 : m2.tag[a] = m.tag[a]

Undisturbed(m, m2, S) == \A c \in S : m2.tag[c].size = m.tag[c].size /\ SameWords(m, m2, c)

\* After such a change the chunks tile the heap and their tags are true.
LEMMA Retiled ==
  ASSUME NEW m, NEW T, m \in Heap, Tiling(m, T), Footed(m, T), Marked(m, T),
         NEW m2, m2 \in Heap, NEW T2, NEW lo, NEW hi, Retiles(m, T, m2, T2, lo, hi)
  PROVE  /\ Tiling(m2, T2) /\ Footed(m2, T2) /\ Marked(m2, T2)
         /\ \A b \in Node : Class(m2, T2)[b] =
              IF b >= lo /\ b < hi
              THEN IF b \in T2 \ {m2.top} /\ ~m2.tag[b].used
                   THEN get_header(m2.tag[b].size) ELSE NoList
              ELSE Class(m, T)[b]
         /\ Used(m2, T2) = {c \in Used(m, T) : c < lo \/ hi <= c} \cup
                           {c \in T2 \ {m2.top} : lo <= c /\ c < hi /\ m2.tag[c].used}
<1> DEFINE top == m.top
           top2 == m2.top
           Kept(c) == c \in T \ {top} /\ (c < lo \/ hi <= c)
           New(c) == c \in T2 \ {top2} /\ lo <= c /\ c < hi
<1>1. /\ top \in Nat /\ top2 \in Nat /\ T \subseteq Nat /\ T2 \subseteq Nat /\ T \subseteq Node
      /\ T \subseteq Unit /\ T2 \subseteq Unit
      /\ \A c \in T : c <= top
  <2>1. top \in Nat /\ top2 \in Nat /\ top \in Unit /\ top2 \in Unit
    BY HeapTypes
  <2>2. T \subseteq 0 .. top /\ T2 \subseteq 0 .. top2
    BY DEF Tiling, Retiles
  <2> HIDE DEF top, top2
  <2> QED
    BY <2>1, <2>2, MAX_HEAPAssumption DEF Unit, Node
<1>2. /\ lo \in T /\ lo \in T2 /\ lo \in Nat /\ hi \in Nat /\ lo <= hi
      /\ hi \in T \/ hi > top
      /\ top2 \in T2 /\ (hi < top => top2 = top)
      /\ \A c \in T2 : c <= top2
  <2>1. T2 \subseteq 0 .. top2
    BY DEF Retiles
  <2>2. \A c \in T2 : c <= top2
    <3> HIDE DEF top2
    <3> QED
      BY <1>1, <2>1
  <2> QED
    BY <1>1, <2>2 DEF Retiles
<1>3. \A c : Kept(c) => /\ c \in T2 \ {top2} /\ c \in Nat
                        /\ m2.tag[c] \in Tag /\ m2.tag[c].size = m.tag[c].size
                        /\ m2.tag[c].used = m.tag[c].used /\ m2.tag[c].size >= 1
                        /\ c # hi => m2.tag[c] = m.tag[c]
  <2> SUFFICES ASSUME NEW c, Kept(c)
               PROVE  /\ c \in T2 \ {top2} /\ c \in Nat
                      /\ m2.tag[c] \in Tag /\ m2.tag[c].size = m.tag[c].size
                      /\ m2.tag[c].used = m.tag[c].used /\ m2.tag[c].size >= 1
                      /\ c # hi => m2.tag[c] = m.tag[c]
    OBVIOUS
  <2>1. c \in T2 \ {top2} /\ c \in Nat /\ c \in Node
    BY <1>1 DEF Retiles
  <2>2. m.tag[c] \in Tag /\ m.tag[c].size >= 1
    BY DEF Tiling
  <2>3. CASE c = hi
    BY <2>1, <2>2, <2>3 DEF Retiles
  <2>4. CASE c # hi
    <3>1. c < lo \/ hi < c
      BY <1>2, <2>1, <2>4
    <3> QED
      BY <2>1, <2>2, <2>4, <3>1 DEF Retiles
  <2> QED
    BY <2>3, <2>4
<1>4. \A c \in T2 \ {top2} : Kept(c) \/ New(c)
  <2>1. \A c \in Nat : c < lo \/ hi <= c => (c \in T2 \ {top2} <=> c \in T \ {top})
    BY DEF Retiles
  <2> HIDE DEF top, top2
  <2> QED
    BY <1>1, <1>2, <2>1
<1>5. \A c : Kept(c) => /\ c + m.tag[c].size \in T2 /\ c + m.tag[c].size \in T
                        /\ m.tag[c].size \in Nat \ {0}
                        /\ c + m.tag[c].size <= lo \/ hi <= c
                        /\ \A d \in T2 : d <= c \/ c + m.tag[c].size <= d
  <2> SUFFICES ASSUME NEW c, Kept(c)
               PROVE  /\ c + m.tag[c].size \in T2 /\ c + m.tag[c].size \in T
                      /\ m.tag[c].size \in Nat \ {0}
                      /\ c + m.tag[c].size <= lo \/ hi <= c
                      /\ \A d \in T2 : d <= c \/ c + m.tag[c].size <= d
    OBVIOUS
  <2> DEFINE e == c + m.tag[c].size
  <2>1. /\ e \in T /\ e \in Nat /\ e > c /\ e <= top /\ c \in Nat
        /\ m.tag[c].size \in Nat \ {0}
    BY <1>1, TilingTypes
  <2>2. \A d \in T : d <= c \/ e <= d
    BY <1>1, Apart
  <2> HIDE DEF e
  <2>3. e <= lo \/ hi <= c
    BY <1>2, <2>1, <2>2
  <2>4. \A d \in Nat : d < lo \/ hi <= d => (d \in T2 \ {top2} <=> d \in T \ {top})
    BY DEF Retiles
  <2>5. e \in T2
    <3> HIDE DEF top, top2
    <3> QED
      BY <1>1, <1>2, <2>1, <2>3, <2>4
  <2>6. ASSUME NEW d \in T2
        PROVE  d <= c \/ e <= d
    <3>1. d \in Nat /\ d <= top2
      BY <1>1, <1>2
    <3> HIDE DEF top, top2
    <3> QED
      BY <1>1, <1>2, <2>1, <2>2, <2>3, <2>4, <3>1
  <2> QED
    BY <2>1, <2>3, <2>5, <2>6 DEF e
<1>6. \A c : New(c) =>
        /\ m2.tag[c] \in Tag /\ m2.tag[c].size >= 1
        /\ c + m2.tag[c].size \in T2 /\ c + m2.tag[c].size <= hi
        /\ \A d \in T2 : d <= c \/ c + m2.tag[c].size <= d
        /\ ~m2.tag[c].used => m2.foot[c + m2.tag[c].size - 1] = m2.tag[c].size
        /\ m2.tag[c].pused \/ (c = lo /\ lo # top /\ ~m.tag[lo].pused)
  BY DEF Retiles
<1>7. Tiling(m2, T2)
  <2>1. 0 \in T2
    <3>1. 0 \in T
      BY DEF Tiling
    <3>2. lo = 0 \/ Kept(0)
      BY <1>1, <1>2, <3>1
    <3> QED
      BY <1>2, <1>3, <3>2
  <2>2. ASSUME NEW c \in T2 \ {top2}
        PROVE  /\ m2.tag[c] \in Tag /\ m2.tag[c].size >= 1
               /\ c + m2.tag[c].size \in T2
               /\ \A d \in T2 : d <= c \/ c + m2.tag[c].size <= d
    <3>1. CASE Kept(c)
      <4>1. m2.tag[c] \in Tag /\ m2.tag[c].size >= 1 /\ m2.tag[c].size = m.tag[c].size
        BY <1>3, <3>1
      <4>2. c + m.tag[c].size \in T2 /\ \A d \in T2 : d <= c \/ c + m.tag[c].size <= d
        BY <1>5, <3>1
      <4> QED
        BY <4>1, <4>2
    <3>2. CASE New(c)
      BY <1>6, <3>2
    <3> QED
      BY <1>4, <3>1, <3>2
  <2>3. T2 \subseteq 0 .. top2
    BY DEF Retiles
  <2> QED
    BY <1>2, <2>1, <2>2, <2>3 DEF Tiling
<1>8. Footed(m2, T2)
  <2> SUFFICES ASSUME NEW c \in T2 \ {top2}, ~m2.tag[c].used
               PROVE  m2.foot[c + m2.tag[c].size - 1] = m2.tag[c].size
    BY DEF Footed
  <2>1. CASE New(c)
    BY <1>6, <2>1
  <2>2. CASE Kept(c)
    <3> DEFINE s == m.tag[c].size
               f == c + s - 1
    <3>1. ~m.tag[c].used /\ m2.tag[c].size = s /\ c \in T \ {m.top}
      BY <1>3, <2>2
    <3>2. m.foot[f] = s
      BY <3>1 DEF Footed
    <3>3. s \in Nat \ {0} /\ c + s \in T /\ (c + s <= lo \/ hi <= c) /\ c \in Nat
      BY <1>1, <1>5, <2>2
    <3>4. f \in Unit /\ (f < lo \/ hi <= f)
      <4>1. c + s \in Unit
        BY <1>1, <3>3
      <4> HIDE DEF s
      <4> QED
        BY <1>2, <3>3, <4>1, MAX_HEAPAssumption DEF Unit
    <3>5. m2.foot[f] = m.foot[f]
      BY <3>4 DEF Retiles
    <3> QED
      BY <3>1, <3>2, <3>5
  <2> QED
    BY <1>4, <2>1, <2>2
<1>9. \A c : c \in T \ {top} /\ ~m.tag[c].pused =>
        \E b \in T \ {top} : ~m.tag[b].used /\ b + m.tag[b].size = c
  BY DEF Marked
<1>10. Marked(m2, T2)
  <2> SUFFICES ASSUME NEW c \in T2 \ {top2}, ~m2.tag[c].pused
               PROVE  \E b \in T2 \ {top2} : ~m2.tag[b].used /\ b + m2.tag[b].size = c
    BY DEF Marked
  <2>1. CASE c = hi
    BY <2>1 DEF Retiles
  <2>2. CASE c # hi
    <3>1. c \in T \ {top} /\ ~m.tag[c].pused /\ (c <= lo \/ hi < c)
      <4>1. CASE Kept(c)
        <5>1. m2.tag[c] = m.tag[c] /\ c \in Nat
          BY <1>3, <2>2, <4>1
        <5> QED
          BY <1>2, <2>2, <4>1, <5>1
      <4>2. CASE New(c)
        BY <1>2, <1>6, <4>2
      <4> QED
        BY <1>4, <4>1, <4>2
    <3>2. PICK b \in T \ {top} : ~m.tag[b].used /\ b + m.tag[b].size = c
      BY <1>9, <3>1
    <3>3. b \in Nat /\ b < c /\ c \in Nat
      <4>1. m.tag[b].size \in Nat \ {0} /\ b \in Nat
        BY <1>1, TilingTypes
      <4> QED
        BY <3>2, <4>1
    <3>4. Kept(b)
      <4>1. \A d \in T : d <= b \/ c <= d
        BY <1>1, <3>2, Apart
      <4>2. hi \in T \/ hi > top
        BY <1>2
      <4>3. c <= top
        BY <1>1, <3>1
      <4> HIDE DEF top
      <4> QED
        BY <1>1, <1>2, <3>1, <3>3, <4>1, <4>2, <4>3
    <3> QED
      BY <1>3, <3>2, <3>4
  <2> QED
    BY <2>1, <2>2
<1>11. ASSUME NEW b \in Node
       PROVE  Class(m2, T2)[b] =
              IF b >= lo /\ b < hi
              THEN IF b \in T2 \ {m2.top} /\ ~m2.tag[b].used
                   THEN get_header(m2.tag[b].size) ELSE NoList
              ELSE Class(m, T)[b]
  <2>1. CASE b \in Header
    <3>1. ~(b >= lo)
      BY <1>2, <2>1 DEF Header
    <3> QED
      BY <2>1, <3>1 DEF Class
  <2>2. CASE b \notin Header
    <3>0. b \in Nat
      BY <2>2, HeaderFacts DEF Node
    <3>1. CASE b >= lo /\ b < hi
      BY <2>2, <3>1 DEF Class
    <3>2. CASE ~(b >= lo /\ b < hi)
      <4>1. b < lo \/ hi <= b
        BY <1>2, <3>0, <3>2
      <4>2. b \in T2 \ {top2} <=> b \in T \ {top}
        BY <3>0, <4>1 DEF Retiles
      <4>3. b \in T \ {top} => m2.tag[b].size = m.tag[b].size /\ m2.tag[b].used = m.tag[b].used
        BY <1>3, <4>1
      <4> QED
        BY <2>2, <3>2, <4>2, <4>3 DEF Class
    <3> QED
      BY <3>1, <3>2
  <2> QED
    BY <2>1, <2>2
<1>12. Used(m2, T2) = {c \in Used(m, T) : c < lo \/ hi <= c} \cup
                      {c \in T2 \ {m2.top} : lo <= c /\ c < hi /\ m2.tag[c].used}
  <2>1. \A c : c \in Used(m2, T2) <=> c \in T2 \ {top2} /\ m2.tag[c].used
    BY DEF Used
  <2>2. \A c : c \in Used(m, T) <=> c \in T \ {top} /\ m.tag[c].used
    BY DEF Used
  <2> HIDE DEF top, top2
  <2>3. \A c : c \in Used(m2, T2) => \/ c \in Used(m, T) /\ (c < lo \/ hi <= c)
                                     \/ New(c) /\ m2.tag[c].used
    BY <1>3, <1>4, <2>1, <2>2
  <2>4. \A c : c \in Used(m, T) /\ (c < lo \/ hi <= c) => c \in Used(m2, T2)
    BY <1>3, <2>1, <2>2
  <2> QED
    BY <2>1, <2>3, <2>4 DEF top2
<1> QED
  BY <1>7, <1>8, <1>10, <1>11, <1>12

\* A chunk outside of lo .. hi keeps its words, if only links outside of the chunks in
\* use change.
LEMMA RetiledUndisturbed ==
  ASSUME NEW m, NEW T, m \in Heap, Tiling(m, T),
         NEW m2, m2 \in Heap, NEW T2, NEW lo, NEW hi, Retiles(m, T, m2, T2, lo, hi),
         \A b \in Node : (b < lo \/ hi <= b) /\ Class(m, T)[b] = NoList =>
           m2.prev[b] = m.prev[b] /\ m2.next[b] = m.next[b]
  PROVE  Undisturbed(m, m2, {c \in Used(m, T) : c < lo \/ hi <= c})
<1> SUFFICES ASSUME NEW c \in Used(m, T), c < lo \/ hi <= c
             PROVE  m2.tag[c].size = m.tag[c].size /\ SameWords(m, m2, c)
  BY DEF Undisturbed
<1> DEFINE s == m.tag[c].size
<1>1. /\ c \in T \ {m.top} /\ c \in Nat /\ s \in Nat \ {0} /\ c \in Node
      /\ c + s <= lo \/ hi <= c
  <2>1. c \in T \ {m.top}
    BY DEF Used
  <2>2. c \in Nat /\ s \in Nat \ {0} /\ c \in Node
    BY <2>1, HeapTypes, TilingTypes, UsedNoList
  <2>3. lo \in T /\ lo \in Nat /\ hi \in Nat
    BY HeapTypes, TilingTypes DEF Retiles
  <2>4. lo <= c \/ c + s <= lo
    BY <2>1, <2>3, HeapTypes, Apart
  <2> HIDE DEF s
  <2> QED
    BY <2>1, <2>2, <2>3, <2>4
<1>2. lo \in Nat /\ hi \in Nat /\ lo <= hi
  BY HeapTypes, TilingTypes DEF Retiles
<1>3. \A a \in c .. c + s - 1 : /\ a \in Node /\ a \in Unit /\ Class(m, T)[a] = NoList
                                /\ a < lo \/ hi <= a
  <2>1. \A a \in c .. c + s - 1 : a < lo \/ hi <= a
    <3> HIDE DEF s
    <3> QED
      BY <1>1, <1>2
  <2> QED
    BY <2>1, UsedNoList
<1>4. \A a \in c + 1 .. c + s - 1 : a < lo \/ hi < a
  <2> HIDE DEF s
  <2> QED
    BY <1>1, <1>2
<1>5. m2.tag[c].size = s
  <2>1. CASE c = hi
    <3>1. c \in T2 \ {m2.top}
      BY <1>1, <1>2, <2>1 DEF Retiles
    <3> QED
      BY <2>1, <3>1 DEF Retiles
  <2>2. CASE c # hi
    BY <1>1, <1>2, <2>2 DEF Retiles
  <2> QED
    BY <2>1, <2>2
<1>6. \A a \in c .. c + s - 1 :
        m2.prev[a] = m.prev[a] /\ m2.next[a] = m.next[a] /\ m2.foot[a] = m.foot[a]
  BY <1>3 DEF Retiles
<1>7. \A a \in c + 1 .. c + s - 1 : m2.tag[a] = m.tag[a]
  <2> SUFFICES ASSUME NEW a \in c + 1 .. c + s - 1 PROVE m2.tag[a] = m.tag[a]
    OBVIOUS
  <2>1. a \in c .. c + s - 1
    BY <1>1
  <2>2. a \in Node /\ (a < lo \/ hi < a)
    BY <1>3, <1>4, <2>1
  <2> QED
    BY <2>2 DEF Retiles
<1> QED
  BY <1>5, <1>6, <1>7 DEF SameWords

-----------------------------------------------------------------------------
(***************************************************************************)
(* The writes to single words and registers.                               *)
(***************************************************************************)

\* SetTag writes one tag.
LEMMA SetTagIs ==
  ASSUME NEW m, m \in Heap, NEW a \in Node, NEW size \in Unit, NEW used \in BOOLEAN,
         NEW pused \in BOOLEAN
  PROVE  LET u == SetTag(m, a, size, used, pused)
         IN  /\ u \in Heap /\ u.prev = m.prev /\ u.next = m.next /\ u.foot = m.foot
             /\ u.top = m.top /\ u.brk = m.brk
             /\ u.tag[a] \in Tag /\ u.tag[a].size = size /\ u.tag[a].used = used
             /\ u.tag[a].pused = pused
             /\ \A b \in Node : b # a => u.tag[b] = m.tag[b]
<1> DEFINE t == [size |-> size, used |-> used, pused |-> pused]
<1>1. t \in Tag /\ t.size = size /\ t.used = used /\ t.pused = pused
  BY DEF Tag
<1>2. SetTag(m, a, size, used, pused) = [m EXCEPT !.tag[a] = t]
  BY DEF SetTag
<1> HIDE DEF t
<1> QED
  BY <1>1, <1>2 DEF Heap

\* SetPused writes one bit of a tag, and nothing where a word of the client is.
LEMMA SetPusedIs ==
  ASSUME NEW m, m \in Heap, NEW a \in Node, NEW pused \in BOOLEAN
  PROVE  LET u == SetPused(m, a, pused)
         IN  /\ u \in Heap /\ u.prev = m.prev /\ u.next = m.next /\ u.foot = m.foot
             /\ u.top = m.top /\ u.brk = m.brk
             /\ m.tag[a] \in Tag =>
                  /\ u.tag[a] \in Tag /\ u.tag[a].size = m.tag[a].size
                  /\ u.tag[a].used = m.tag[a].used /\ u.tag[a].pused = pused
             /\ \A b \in Node : b # a => u.tag[b] = m.tag[b]
<1>1. CASE m.tag[a] \in Data
  <2>1. m.tag[a] \notin Tag
    BY <1>1, DataAssumption
  <2> QED
    BY <1>1, <2>1 DEF SetPused
<1>2. CASE m.tag[a] \notin Data
  <2> DEFINE t == [m.tag[a] EXCEPT !.pused = pused]
  <2>1. m.tag[a] \in Tag
    BY <1>2, HeapTypes
  <2>2. t \in Tag /\ t.size = m.tag[a].size /\ t.used = m.tag[a].used /\ t.pused = pused
    BY <2>1 DEF Tag
  <2>3. SetPused(m, a, pused) = [m EXCEPT !.tag[a] = t]
    BY <1>2 DEF SetPused
  <2> HIDE DEF t
  <2> QED
    BY <2>2, <2>3 DEF Heap
<1> QED
  BY <1>1, <1>2

\* The write to the last word of a chunk.
LEMMA SetFootIs ==
  ASSUME NEW m, m \in Heap, NEW a \in Unit, NEW size \in Unit
  PROVE  LET u == [m EXCEPT !.foot[a] = size]
         IN  /\ u \in Heap /\ u.prev = m.prev /\ u.next = m.next /\ u.tag = m.tag
             /\ u.top = m.top /\ u.brk = m.brk /\ u.foot[a] = size
             /\ \A b \in Unit : b # a => u.foot[b] = m.foot[b]
BY DEF Heap

\* mm_sbrk moves the end of the chunks, and the break if it has to.
LEMMA SbrkIs ==
  ASSUME NEW m, Extent(m), NEW size \in Int, 0 <= m.top + size, m.top + size <= MAX_HEAP
  PROVE  LET u == mm_sbrk(m, size)
         IN  /\ Extent(u) /\ u.prev = m.prev /\ u.next = m.next /\ u.tag = m.tag
             /\ u.foot = m.foot /\ u.top = m.top + size /\ m.brk <= u.brk
<1> DEFINE moved == [m EXCEPT !.top = m.top + size]
           u == mm_sbrk(m, size)
<1>1. /\ m \in Heap /\ m.top \in Nat /\ m.brk \in Nat /\ m.top <= m.brk
      /\ m.brk <= MAX_HEAP
  BY HeapTypes DEF Extent
<1>2. m.top + size \in Unit
  BY <1>1, MAX_HEAPAssumption DEF Unit
<1>3. /\ moved \in Heap /\ moved.top = m.top + size /\ moved.brk = m.brk
      /\ moved.prev = m.prev /\ moved.next = m.next /\ moved.tag = m.tag
      /\ moved.foot = m.foot
  BY <1>1, <1>2 DEF Heap
<1>4. CASE moved.top > moved.brk
  <2> DEFINE new == moved.brk + (moved.top - m.brk)
  <2>1. new = m.top + size /\ new <= MAX_HEAP /\ new \in Unit
    BY <1>1, <1>2, <1>3
  <2>2. u = mem_sbrk(moved, moved.top - m.brk)
    BY <1>3, <1>4 DEF mm_sbrk
  <2>3. u = [moved EXCEPT !.brk = new]
    BY <2>1, <2>2, <1>1, <1>3, MAX_HEAPAssumption DEF mem_sbrk
  <2> HIDE DEF new, moved, u
  <2>4. /\ u \in Heap /\ u.brk = new /\ u.top = moved.top /\ u.prev = moved.prev
        /\ u.next = moved.next /\ u.tag = moved.tag /\ u.foot = moved.foot
    BY <1>3, <2>1, <2>3 DEF Heap
  <2> QED
    BY <1>1, <1>3, <1>4, <2>1, <2>4 DEF Extent, u
<1>5. CASE ~(moved.top > moved.brk)
  <2>1. u = moved
    BY <1>3, <1>5 DEF mm_sbrk
  <2> HIDE DEF moved
  <2> QED
    BY <1>1, <1>3, <1>5, <2>1 DEF Extent
<1> QED
  BY <1>4, <1>5

\* Lists of which no link has changed.
LEMMA RingsFrame ==
  ASSUME NEW m, NEW m2, NEW class, Rings(m, class), m2.prev = m.prev, m2.next = m.next
  PROVE  Rings(m2, class)
BY DEF Rings

\* Whatever a heap holds, no write to it but mm_sbrk moves the end of the chunks.
HasTop(m, top) == "top" \in DOMAIN m /\ m.top = top

\* SetTag leaves the end of the chunks alone.
LEMMA SetTagTop ==
  ASSUME NEW m, NEW top, HasTop(m, top), NEW a, NEW s, NEW u, NEW v
  PROVE  HasTop(SetTag(m, a, s, u, v), top)
BY DEF SetTag, HasTop

\* So does SetPused.
LEMMA SetPusedTop ==
  ASSUME NEW m, NEW top, HasTop(m, top), NEW a, NEW v
  PROVE  HasTop(SetPused(m, a, v), top)
BY DEF SetPused, HasTop

\* So does a write to the last word of a chunk.
LEMMA SetFootTop ==
  ASSUME NEW m, NEW top, HasTop(m, top), NEW a, NEW s
  PROVE  HasTop([m EXCEPT !.foot[a] = s], top)
BY DEF HasTop

\* So does Insert.
LEMMA InsertTop ==
  ASSUME NEW m, NEW top, HasTop(m, top), NEW a, NEW s
  PROVE  HasTop(Insert(m, a, s), top)
<1> DEFINE h == get_header(s)
           m1 == [m EXCEPT !.prev[a] = h, !.next[a] = m.next[h]]
<1>1. HasTop(m1, top)
  BY DEF HasTop
<1>2. Insert(m, a, s) = [m1 EXCEPT !.prev[m.next[h]] = a, !.next[h] = a]
  BY DEF Insert
<1> HIDE DEF m1, h
<1> QED
  BY <1>1, <1>2 DEF HasTop

\* So does Unlink.
LEMMA UnlinkTop ==
  ASSUME NEW m, NEW top, HasTop(m, top), NEW a
  PROVE  HasTop(Unlink(m, a), top)
<1> DEFINE m1 == [m EXCEPT !.next[m.prev[a]] = m.next[a]]
<1>1. HasTop(m1, top)
  BY DEF HasTop
<1>2. Unlink(m, a) = [m1 EXCEPT !.prev[m1.next[a]] = m1.prev[a]]
  BY DEF Unlink
<1> HIDE DEF m1
<1> QED
  BY <1>1, <1>2 DEF HasTop

\* mm_sbrk moves it by what is asked for, whether or not mem_sbrk fails.
LEMMA SbrkTop ==
  ASSUME NEW m, NEW top, HasTop(m, top), NEW s
  PROVE  HasTop(mm_sbrk(m, s), top + s)
<1> DEFINE m1 == [m EXCEPT !.top = m.top + s]
<1>1. HasTop(m1, top + s)
  BY DEF HasTop
<1>2. mm_sbrk(m, s) = IF m1.top > m.brk THEN mem_sbrk(m1, m1.top - m.brk) ELSE m1
  BY DEF mm_sbrk
<1> HIDE DEF m1
<1>3. \A d : HasTop(mem_sbrk(m1, d), top + s)
  BY <1>1 DEF HasTop, mem_sbrk
<1> QED
  BY <1>1, <1>2, <1>3

-----------------------------------------------------------------------------
(***************************************************************************)
(* mm_malloc.                                                              *)
(***************************************************************************)

\* Class gives each node a list or none.
LEMMA ClassTypes ==
  ASSUME NEW m, NEW T, m \in Heap, Tiling(m, T)
  PROVE  Class(m, T) \in [Node -> Header \cup {NoList}]
<1> SUFFICES ASSUME NEW b \in Node PROVE Class(m, T)[b] \in Header \cup {NoList}
  BY DEF Class
<1>1. b \in T \ {m.top} => get_header(m.tag[b].size) \in Header
  BY HeapTypes, TilingTypes, HeaderFacts
<1> QED
  BY <1>1 DEF Class

\* No address within a chunk, but for its first one, belongs to a list.
LEMMA InnerNoList ==
  ASSUME NEW m, NEW T, m \in Heap, Tiling(m, T), NEW c \in T \ {m.top},
         NEW a \in Nat, c < a, a < c + m.tag[c].size
  PROVE  a \in Node /\ a \notin T /\ Class(m, T)[a] = NoList
<1> DEFINE s == m.tag[c].size
           top == m.top
<1>1. /\ c \in Nat /\ s \in Nat /\ c + s <= top /\ top \in Unit /\ top \in Nat
      /\ T \subseteq Nat
  BY HeapTypes, TilingTypes
<1>2. \A d \in T : d <= c \/ c + s <= d
  BY HeapTypes, Apart
<1>3. c < a /\ a < c + s
  OBVIOUS
<1> HIDE DEF s, top
<1>4. a \in Unit /\ a \notin T
  BY <1>1, <1>2, <1>3, MAX_HEAPAssumption DEF Unit
<1> QED
  BY <1>4, HeaderFacts DEF Class

\* A chunk, free or not, in numbers.
LEMMA ChunkFacts ==
  ASSUME NEW m, NEW T, Good(m, T), NEW p \in T \ {m.top}
  PROVE  /\ p \in Nat /\ p \in Unit /\ p \in Node /\ p \notin Header
         /\ m.tag[p] \in Tag /\ m.tag[p].size \in Nat \ {0} /\ m.tag[p].size \in Unit
         /\ p + m.tag[p].size \in T /\ p + m.tag[p].size \in Nat
         /\ p + m.tag[p].size <= m.top
         /\ p + m.tag[p].size \in Unit /\ p + m.tag[p].size \in Node
         /\ p + m.tag[p].size - 1 \in Unit
<1> DEFINE s == m.tag[p].size
           top == m.top
<1>1. m \in Heap /\ Tiling(m, T)
  BY DEF Good, Extent
<1>2. /\ p \in Nat /\ s \in Nat \ {0} /\ p + s \in T /\ p + s <= top /\ top \in Unit
      /\ top \in Nat
  BY <1>1, HeapTypes, TilingTypes
<1>3. m.tag[p] \in Tag
  BY <1>1 DEF Tiling
<1> HIDE DEF s, top
<1>4. p \in Unit /\ s \in Unit /\ p + s \in Unit /\ p + s - 1 \in Unit /\ p + s \in Nat
  BY <1>2, MAX_HEAPAssumption DEF Unit
<1> QED
  BY <1>2, <1>3, <1>4, HeaderFacts DEF s, top

\* What a free chunk's list is.
LEMMA FreeClass ==
  ASSUME NEW m, NEW T, Good(m, T), NEW p \in T \ {m.top}, ~m.tag[p].used
  PROVE  Class(m, T)[p] = get_header(m.tag[p].size) /\ Class(m, T)[p] \in Header
<1>1. p \in Node /\ p \notin Header /\ m.tag[p].size \in Nat
  BY ChunkFacts
<1> QED
  BY <1>1, HeaderFacts DEF Class

\* The bounds of the heap.
LEMMA GoodTypes ==
  ASSUME NEW m, NEW T, Good(m, T)
  PROVE  /\ m \in Heap /\ Tiling(m, T) /\ Extent(m) /\ Footed(m, T) /\ Marked(m, T)
         /\ Rings(m, Class(m, T)) /\ m.top \in Nat /\ m.brk \in Nat
         /\ m.top <= MAX_HEAP /\ MAX_HEAP \in Nat /\ m.top \in T /\ m.top \in Node
         /\ m.top \in Unit
         /\ T \subseteq Nat /\ (\A c \in T : c <= m.top) /\ T \subseteq 0 .. m.top
<1>1. m \in Heap /\ Tiling(m, T) /\ m.top <= m.brk /\ m.brk <= MAX_HEAP
  BY DEF Good, Extent
<1>2. m.top \in Nat /\ m.brk \in Nat /\ m.top \in Unit
  BY <1>1, HeapTypes
<1>3. m.top <= MAX_HEAP
  BY <1>1, <1>2, MAX_HEAPAssumption
<1> QED
  BY <1>1, <1>2, <1>3, MAX_HEAPAssumption, TilingTypes, HeaderFacts DEF Good, Tiling

\* The heap m2 has one chunk in use more than m, the one at p of at least n units, and no
\* chunk in use has been touched.
Allocated(m, T, m2, T2, p, n) ==
  /\ T2 \in SUBSET Unit /\ Good(m2, T2)
  /\ p \notin Used(m, T) /\ Used(m2, T2) = Used(m, T) \cup {p}
  /\ m2.tag[p].size >= n /\ Undisturbed(m, m2, Used(m, T))
  /\ m.top <= m2.top /\ m.brk <= m2.brk

\* TakeAll makes a chunk in use of a free one.
LEMMA TakeAllAllocates ==
  ASSUME NEW m, NEW T, T \in SUBSET Unit, Good(m, T),
         NEW p \in T \ {m.top}, ~m.tag[p].used, NEW n, m.tag[p].size >= n
  PROVE  Allocated(m, T, TakeAll(m, p).heap, T, p, n)
<1> DEFINE s == m.tag[p].size
           q == p + s
           c0 == Class(m, T)
           c2 == [c0 EXCEPT ![p] = NoList]
           u == Unlink(m, p)
           yes == TRUE
           m1 == SetTag(u, p, s, yes, yes)
           m2 == SetPused(m1, q, yes)
<1>0. yes \in BOOLEAN
  OBVIOUS
<1>00. yes = TRUE
  OBVIOUS
<1>1. TakeAll(m, p).heap = m2
  BY DEF TakeAll
<1> HIDE DEF yes
<1>2. /\ m \in Heap /\ Tiling(m, T) /\ Extent(m) /\ Footed(m, T) /\ Marked(m, T)
      /\ Rings(m, c0) /\ m.top \in Nat /\ m.top \in T /\ T \subseteq 0 .. m.top
      /\ T \subseteq Nat /\ \A c \in T : c <= m.top
  BY GoodTypes
<1>3. /\ p \in Nat /\ p \in Unit /\ p \in Node /\ p \notin Header
      /\ s \in Nat \ {0} /\ s \in Unit /\ q \in T /\ q \in Nat /\ q <= m.top /\ q \in Node
  BY ChunkFacts
<1>4. c0 \in [Node -> Header \cup {NoList}] /\ c0[p] \in Header /\ c0[p] # p
  BY <1>2, <1>3, ClassTypes, FreeClass
<1> HIDE DEF c0
<1>5. /\ u \in Heap /\ u.tag = m.tag /\ u.foot = m.foot /\ u.top = m.top /\ u.brk = m.brk
      /\ Rings(u, c2)
      /\ \A b \in Node : c0[b] = NoList =>
           u.prev[b] = m.prev[b] /\ u.next[b] = m.next[b]
  <2>1. Relinked(m, c0, p, NoList, u)
    BY <1>2, <1>3, <1>4, UnlinkRings
  <2> QED
    BY <1>4, <2>1, HeaderFacts DEF Relinked
<1> HIDE DEF s, u
<1>6. /\ m1 \in Heap /\ m1.prev = u.prev /\ m1.next = u.next /\ m1.foot = u.foot
      /\ m1.top = u.top /\ m1.brk = u.brk
      /\ m1.tag[p] \in Tag /\ m1.tag[p].size = s
      /\ m1.tag[p].used = yes /\ m1.tag[p].pused = yes
      /\ \A b \in Node : b # p => m1.tag[b] = u.tag[b]
  BY <1>0, <1>3, <1>5, SetTagIs
<1> HIDE DEF m1
<1>7. /\ m2 \in Heap /\ m2.prev = m1.prev /\ m2.next = m1.next /\ m2.foot = m1.foot
      /\ m2.top = m1.top /\ m2.brk = m1.brk
      /\ m1.tag[q] \in Tag =>
           /\ m2.tag[q] \in Tag /\ m2.tag[q].size = m1.tag[q].size
           /\ m2.tag[q].used = m1.tag[q].used /\ m2.tag[q].pused = yes
      /\ \A b \in Node : b # q => m2.tag[b] = m1.tag[b]
  <2>1. m1 \in Heap /\ q \in Node
    BY <1>3, <1>6
  <2> HIDE DEF q
  <2> QED
    BY <1>0, <2>1, SetPusedIs
<1> HIDE DEF m2
<1>8. /\ m2.top = m.top /\ m2.brk = m.brk /\ m2.foot = m.foot
      /\ m2.tag[p] \in Tag /\ m2.tag[p].size = s /\ m2.tag[p].used /\ m2.tag[p].pused
      /\ \A b \in Node : b # p /\ b # q => m2.tag[b] = m.tag[b]
      /\ q # m.top => /\ m2.tag[q] \in Tag /\ m2.tag[q].size = m.tag[q].size
                      /\ m2.tag[q].used = m.tag[q].used /\ m2.tag[q].pused
  <2>1. q # p
    BY <1>3
  <2>2. q # m.top => m.tag[q] \in Tag
    BY <1>2, <1>3 DEF Tiling
  <2> HIDE DEF q
  <2>3. m2.top = m.top /\ m2.brk = m.brk /\ m2.foot = m.foot
    BY <1>5, <1>6, <1>7
  <2>4. m2.tag[p] = m1.tag[p]
    BY <1>3, <1>7, <2>1
  <2>5. ASSUME NEW b \in Node, b # p, b # q
        PROVE  m2.tag[b] = m.tag[b]
    BY <1>5, <1>6, <1>7, <2>5
  <2>6. m1.tag[q] = m.tag[q]
    BY <1>3, <1>5, <1>6, <2>1
  <2>7. ASSUME q # m.top
        PROVE  /\ m2.tag[q] \in Tag /\ m2.tag[q].size = m.tag[q].size
               /\ m2.tag[q].used = m.tag[q].used /\ m2.tag[q].pused
    BY <1>00, <1>7, <2>2, <2>6, <2>7
  <2> QED
    BY <1>00, <1>6, <2>3, <2>4, <2>5, <2>7
<1>9. \A d \in T : d <= p \/ q <= d
  BY <1>2, Apart DEF s
<1>10. Retiles(m, T, m2, T, p, q)
  <2>1. p <= q /\ \A c \in T : p <= c /\ c < q => c = p
    BY <1>2, <1>3, <1>9
  <2>2. \A a \in Node : a < p \/ q < a => a # p /\ a # q
    BY <1>3
  <2> HIDE DEF q
  <2>3. \A a \in Node : a < p \/ q < a => m2.tag[a] = m.tag[a]
    BY <1>8, <2>2
  <2>4. \A c \in T \ {m.top} : p <= c /\ c < q =>
          /\ m2.tag[c] \in Tag /\ m2.tag[c].size >= 1
          /\ c + m2.tag[c].size \in T /\ c + m2.tag[c].size <= q
          /\ \A d \in T : d <= c \/ c + m2.tag[c].size <= d
          /\ m2.tag[c].used /\ m2.tag[c].pused
    <3>1. /\ m2.tag[p] \in Tag /\ m2.tag[p].size >= 1 /\ m2.tag[p].size = s
          /\ p + m2.tag[p].size = q
      BY <1>3, <1>8 DEF q
    <3>2. m2.tag[p].used /\ m2.tag[p].pused
      BY <1>8
    <3>3. q \in T /\ q <= q
      BY <1>3
    <3> SUFFICES ASSUME NEW c \in T \ {m.top}, p <= c, c < q
                 PROVE  /\ m2.tag[c] \in Tag /\ m2.tag[c].size >= 1
                        /\ c + m2.tag[c].size \in T /\ c + m2.tag[c].size <= q
                        /\ \A d \in T : d <= c \/ c + m2.tag[c].size <= d
                        /\ m2.tag[c].used /\ m2.tag[c].pused
      OBVIOUS
    <3>4. c = p
      BY <2>1
    <3> QED
      BY <1>9, <3>1, <3>2, <3>3, <3>4
  <2> QED
    BY <1>2, <1>3, <1>8, <2>1, <2>3, <2>4 DEF Retiles
<1>11. /\ Tiling(m2, T) /\ Footed(m2, T) /\ Marked(m2, T)
       /\ \A b \in Node : Class(m2, T)[b] =
            IF b >= p /\ b < q
            THEN IF b \in T \ {m2.top} /\ ~m2.tag[b].used
                 THEN get_header(m2.tag[b].size) ELSE NoList
            ELSE c0[b]
       /\ Used(m2, T) = {c \in Used(m, T) : c < p \/ q <= c} \cup
                        {c \in T \ {m2.top} : p <= c /\ c < q /\ m2.tag[c].used}
  BY <1>2, <1>7, <1>10, Retiled DEF c0
<1>12. Class(m2, T) = c2
  <2>1. \A b \in Node : b >= p /\ b < q => b = p \/ (c0[b] = NoList /\ b \notin T)
    <3> SUFFICES ASSUME NEW b \in Node, b > p, b < q
                 PROVE  c0[b] = NoList /\ b \notin T
      BY <1>3 DEF Node, Header, Unit
    <3>1. b \in Nat
      BY <1>3 DEF Node, Header, Unit
    <3> QED
      BY <1>2, <3>1, InnerNoList DEF c0, s
  <2>2. Class(m2, T) \in [Node -> Header \cup {NoList}] /\ c2 \in [Node -> Header \cup {NoList}]
    BY <1>4, <1>7, <1>11, ClassTypes
  <2>3. \A b \in Node : Class(m2, T)[b] = c2[b]
    BY <1>3, <1>4, <1>8, <1>11, <2>1
  <2> QED
    BY <2>2, <2>3
<1>13. Good(m2, T)
  <2>1. Rings(m2, c2)
    BY <1>5, <1>6, <1>7, RingsFrame
  <2> QED
    BY <1>2, <1>7, <1>8, <1>11, <1>12, <2>1 DEF Good, Extent
<1>14. p \notin Used(m, T) /\ Used(m2, T) = Used(m, T) \cup {p}
  <2>1. Used(m, T) \subseteq T /\ p \notin Used(m, T)
    BY DEF Used
  <2>2. \A c \in T : c = p \/ c < p \/ q <= c
    BY <1>2, <1>3, <1>9
  <2>3. {c \in Used(m, T) : c < p \/ q <= c} = Used(m, T)
    BY <2>1, <2>2
  <2>4. p < q /\ p \in T \ {m2.top} /\ p \in Nat
    BY <1>3, <1>8
  <2> HIDE DEF q
  <2>5. \A c \in T : p <= c /\ c < q => c = p
    BY <1>2, <1>3, <2>2
  <2>6. {c \in T \ {m2.top} : p <= c /\ c < q /\ m2.tag[c].used} = {p}
    BY <1>8, <2>4, <2>5
  <2> QED
    BY <1>11, <2>1, <2>3, <2>6
<1>15. Undisturbed(m, m2, Used(m, T))
  <2>1. Undisturbed(m, m2, {c \in Used(m, T) : c < p \/ q <= c})
    BY <1>2, <1>5, <1>6, <1>7, <1>10, RetiledUndisturbed DEF c0
  <2>2. \A c \in Used(m, T) : c < p \/ q <= c
    BY <1>2, <1>3, <1>9 DEF Used
  <2> QED
    BY <2>1, <2>2 DEF Undisturbed
<1> QED
  BY <1>1, <1>2, <1>8, <1>13, <1>14, <1>15, GoodTypes DEF Allocated, s

\* The s units at p, a free chunk or new ones behind the last chunk.
Room(m, T, p, s, top2) ==
  \/ p \in T \ {m.top} /\ ~m.tag[p].used /\ s = m.tag[p].size /\ top2 = m.top
  \/ p = m.top /\ s \in Nat \ {0} /\ p + s <= MAX_HEAP /\ top2 = p + s

\* Nothing begins within the room.
LEMMA RoomFacts ==
  ASSUME NEW m, NEW T, Good(m, T), NEW p, NEW s, NEW top2, Room(m, T, p, s, top2)
  PROVE  /\ p \in T /\ p \in Nat /\ p \in Unit /\ p \in Node /\ p \notin Header
         /\ p \notin Used(m, T)
         /\ s \in Nat \ {0} /\ p + s \in Nat /\ p + s <= MAX_HEAP
         /\ s \in Unit /\ p + s \in Unit /\ p + s \in Node
         /\ p + s \in T \/ p + s > m.top
         /\ top2 \in Nat /\ p + s <= top2 /\ m.top <= top2 /\ top2 <= MAX_HEAP
         /\ p + s < m.top => top2 = m.top
         /\ top2 = m.top \/ top2 = p + s
         /\ \A d \in T : d <= p \/ p + s <= d
         /\ \A b \in Nat : p < b /\ b < p + s =>
              b \in Node /\ b \in Unit /\ b \notin T /\ Class(m, T)[b] = NoList
<1>1. /\ m \in Heap /\ Tiling(m, T) /\ m.top \in Nat /\ m.top \in T /\ m.top <= MAX_HEAP
      /\ m.top \in Unit /\ m.top \in Node /\ MAX_HEAP \in Nat
      /\ T \subseteq Nat /\ \A c \in T : c <= m.top
  BY GoodTypes
<1>2. CASE p \in T \ {m.top} /\ ~m.tag[p].used /\ s = m.tag[p].size /\ top2 = m.top
  <2>1. /\ p \in Nat /\ p \in Unit /\ p \in Node /\ p \notin Header
        /\ s \in Nat \ {0} /\ p + s \in T /\ p + s <= m.top /\ s \in Unit
        /\ p + s \in Unit /\ p + s \in Node /\ p + s \in Nat
    BY <1>2, ChunkFacts
  <2>2. \A d \in T : d <= p \/ p + s <= d
    BY <1>1, <1>2, Apart
  <2>3. ASSUME NEW b \in Nat, p < b, b < p + s
        PROVE  b \in Node /\ b \in Unit /\ b \notin T /\ Class(m, T)[b] = NoList
    <3>1. b \in Node /\ b \notin T /\ Class(m, T)[b] = NoList
      BY <1>1, <1>2, <2>3, InnerNoList
    <3>2. b \notin Header
      BY <2>3 DEF Header
    <3> QED
      BY <3>1, <3>2 DEF Node
  <2>4. p \notin Used(m, T)
    BY <1>2 DEF Used
  <2> QED
    BY <1>1, <1>2, <2>1, <2>2, <2>3, <2>4
<1>3. CASE p = m.top /\ s \in Nat \ {0} /\ p + s <= MAX_HEAP /\ top2 = p + s
  <2>1. /\ p \in Nat /\ p \in T /\ p \in Unit /\ p \in Node /\ p \notin Used(m, T)
        /\ \A d \in T : d <= p
    BY <1>1, <1>3 DEF Used
  <2>2. s \in Nat \ {0} /\ p + s <= MAX_HEAP /\ top2 = p + s
    BY <1>3
  <2>3. s \in Unit /\ p + s \in Unit /\ p + s \in Node /\ p + s \in Nat /\ p \notin Header
    BY <1>1, <2>1, <2>2 DEF Unit, Node, Header
  <2>4. ASSUME NEW b \in Nat, p < b, b < p + s
        PROVE  b \in Node /\ b \in Unit /\ b \notin T /\ Class(m, T)[b] = NoList
    <3>1. b \in Unit /\ b \notin T
      BY <1>1, <2>1, <2>2, <2>4 DEF Unit
    <3>2. b \notin Header /\ b \in Node
      BY <3>1, HeaderFacts
    <3> QED
      BY <3>1, <3>2 DEF Class
  <2> QED
    BY <1>1, <1>3, <2>1, <2>2, <2>3, <2>4
<1> QED
  BY <1>2, <1>3 DEF Room

\* The room is divided: its first n units are in use, the rest is a free chunk.
LEMMA CarvedAllocates ==
  ASSUME NEW m, NEW T, T \in SUBSET Unit, Good(m, T),
         NEW m2, Extent(m2), m.brk <= m2.brk, NEW p, NEW s, Room(m, T, p, s, m2.top),
         NEW n \in Nat \ {0}, n < s,
         m2.tag[p] \in Tag, m2.tag[p].size = n, m2.tag[p].used, m2.tag[p].pused,
         m2.tag[p + n] \in Tag, m2.tag[p + n].size = s - n, ~m2.tag[p + n].used,
         m2.tag[p + n].pused,
         \A a \in Node : a # p /\ a # p + n => m2.tag[a] = m.tag[a],
         m2.foot[p + s - 1] = s - n,
         \A a \in Unit : a # p + s - 1 => m2.foot[a] = m.foot[a],
         Rings(m2, [[Class(m, T) EXCEPT ![p] = NoList] EXCEPT ![p + n] = get_header(s - n)]),
         \A b \in Node \ {p + n} : Class(m, T)[b] = NoList =>
           m2.prev[b] = m.prev[b] /\ m2.next[b] = m.next[b]
  PROVE  Allocated(m, T, m2, T \cup {p + n, p + s}, p, n)
<1> DEFINE r == p + n
           q == p + s
           T2 == T \cup {r, q}
           c0 == Class(m, T)
           c2 == [[c0 EXCEPT ![p] = NoList] EXCEPT ![r] = get_header(s - n)]
<1>1. /\ m \in Heap /\ Tiling(m, T) /\ Extent(m) /\ Footed(m, T) /\ Marked(m, T)
      /\ m.top \in Nat /\ m.top \in T /\ T \subseteq Nat /\ \A c \in T : c <= m.top
  BY GoodTypes
<1>2. /\ p \in T /\ p \in Nat /\ p \in Unit /\ p \in Node /\ p \notin Header
      /\ p \notin Used(m, T)
      /\ s \in Nat \ {0} /\ q \in Nat /\ q <= MAX_HEAP
      /\ s \in Unit /\ q \in Unit /\ q \in Node
      /\ q \in T \/ q > m.top
      /\ m2.top \in Nat /\ q <= m2.top /\ m.top <= m2.top /\ m2.top <= MAX_HEAP
      /\ q < m.top => m2.top = m.top
      /\ m2.top = m.top \/ m2.top = q
  BY RoomFacts
<1>3. /\ \A d \in T : d <= p \/ q <= d
      /\ \A b \in Nat : p < b /\ b < q =>
           b \in Node /\ b \in Unit /\ b \notin T /\ c0[b] = NoList
  BY RoomFacts
<1> HIDE DEF c0
<1>4. /\ r \in Nat /\ p < r /\ r < q /\ r \in Node /\ r \in Unit /\ r \notin T
      /\ c0[r] = NoList
  <2>1. r \in Nat /\ p < r /\ r < q
    BY <1>2
  <2> HIDE DEF r, q
  <2> QED
    BY <1>3, <2>1
<1>5. m2 \in Heap /\ T2 \subseteq Unit /\ m2.top \in T2
  <2>1. m2.top \in T2
    BY <1>1, <1>2
  <2> QED
    BY <1>2, <1>4, <2>1 DEF Extent
<1>6. \A d \in T2 : d \in Nat /\ (d <= p \/ d = r \/ q <= d) /\ d <= m2.top
  BY <1>1, <1>2, <1>3, <1>4
<1>7. /\ r + m2.tag[r].size = q /\ r + m2.tag[r].size - 1 = q - 1
      /\ m2.tag[r].size >= 1 /\ p + m2.tag[p].size = r /\ r # p
  BY <1>2
<1>8. /\ m2.tag[p] \in Tag /\ m2.tag[p].size >= 1 /\ m2.tag[p].used /\ m2.tag[p].pused
      /\ m2.tag[r] \in Tag /\ ~m2.tag[r].used /\ m2.tag[r].pused
      /\ m2.tag[r].size = s - n
      /\ m2.foot[q - 1] = m2.tag[r].size
      /\ \A a \in Node : a # p /\ a # r => m2.tag[a] = m.tag[a]
      /\ \A a \in Unit : a # q - 1 => m2.foot[a] = m.foot[a]
  <2>1. m2.tag[p].size >= 1
    BY <1>2
  <2>0. q - 1 = p + s - 1
    BY <1>2
  <2>2. m2.foot[q - 1] = s - n
    BY <2>0
  <2>3. m2.tag[r].size = s - n
    OBVIOUS
  <2>4. m2.foot[q - 1] = m2.tag[r].size
    BY <2>2, <2>3
  <2>5. m2.tag[p] \in Tag /\ m2.tag[p].used /\ m2.tag[p].pused
    OBVIOUS
  <2>6. m2.tag[r] \in Tag /\ ~m2.tag[r].used /\ m2.tag[r].pused
    OBVIOUS
  <2>7. \A a \in Node : a # p /\ a # r => m2.tag[a] = m.tag[a]
    OBVIOUS
  <2>8. \A a \in Unit : a # q - 1 => m2.foot[a] = m.foot[a]
    BY <2>0
  <2> QED
    BY <2>1, <2>3, <2>4, <2>5, <2>6, <2>7, <2>8
<1>9. q \in T2 \ {m2.top} => /\ q \in T \ {m.top} /\ m.tag[q] \in Tag
                             /\ m2.tag[q] = m.tag[q]
  <2> SUFFICES ASSUME q \in T2 \ {m2.top}
               PROVE  q \in T \ {m.top} /\ m.tag[q] \in Tag /\ m2.tag[q] = m.tag[q]
    OBVIOUS
  <2>1. q \in T \ {m.top}
    BY <1>2
  <2>2. m.tag[q] \in Tag
    BY <1>1, <2>1 DEF Tiling
  <2> HIDE DEF q, r
  <2> QED
    BY <1>2, <1>4, <1>8, <2>1, <2>2
<1> HIDE DEF q, r
<1>10. Retiles(m, T, m2, T2, p, q)
  <2>1. p \in T /\ p \in T2 /\ q \in Nat /\ p <= q /\ (q \in T \/ q > m.top)
    BY <1>2, <1>4
  <2>2. T2 \subseteq 0 .. m2.top /\ m2.top \in T2 /\ (q < m.top => m2.top = m.top)
    <3> DEFINE top2 == m2.top
    <3>1. top2 \in Nat /\ \A d \in T2 : d \in Nat /\ d <= top2
      BY <1>2, <1>6
    <3> HIDE DEF top2, T2
    <3>2. T2 \subseteq 0 .. top2
      BY <3>1
    <3> QED
      BY <1>2, <1>5, <3>2 DEF top2
  <2>3. \A c \in Nat : c < p \/ q <= c => (c \in T2 \ {m2.top} <=> c \in T \ {m.top})
    BY <1>1, <1>2, <1>4
  <2>4. \A a \in Node : a < p \/ q < a => m2.tag[a] = m.tag[a]
    BY <1>2, <1>4, <1>8 DEF Node, Header, Unit
  <2>5. \A a \in Unit : a < p \/ q <= a => m2.foot[a] = m.foot[a]
    BY <1>2, <1>4, <1>8 DEF Unit
  <2>6. q \in T2 \ {m2.top} =>
       /\ m2.tag[q] \in Tag /\ m2.tag[q].size = m.tag[q].size
       /\ m2.tag[q].used = m.tag[q].used
       /\ \/ m2.tag[q].pused
          \/ \E b \in T2 \ {m2.top} : ~m2.tag[b].used /\ b + m2.tag[b].size = q
    <3>1. r \in T2 \ {m2.top}
      BY <1>2, <1>4
    <3> QED
      BY <1>7, <1>8, <1>9, <3>1
  <2>7. ASSUME NEW c \in T2 \ {m2.top}, p <= c, c < q
        PROVE  /\ m2.tag[c] \in Tag /\ m2.tag[c].size >= 1
               /\ c + m2.tag[c].size \in T2 /\ c + m2.tag[c].size <= q
               /\ \A d \in T2 : d <= c \/ c + m2.tag[c].size <= d
               /\ ~m2.tag[c].used => m2.foot[c + m2.tag[c].size - 1] = m2.tag[c].size
               /\ m2.tag[c].pused
    <3>1. c = p \/ c = r
      BY <1>2, <1>6, <2>7
    <3>2. CASE c = p
      BY <1>2, <1>4, <1>6, <1>7, <1>8, <3>2
    <3>3. CASE c = r
      BY <1>2, <1>4, <1>6, <1>7, <1>8, <3>3
    <3> QED
      BY <3>1, <3>2, <3>3
  <2> HIDE DEF T2
  <2> QED
    BY <2>1, <2>2, <2>3, <2>4, <2>5, <2>6, <2>7 DEF Retiles
<1> HIDE DEF T2
<1>11. /\ Tiling(m2, T2) /\ Footed(m2, T2) /\ Marked(m2, T2)
       /\ \A b \in Node : Class(m2, T2)[b] =
            IF b >= p /\ b < q
            THEN IF b \in T2 \ {m2.top} /\ ~m2.tag[b].used
                 THEN get_header(m2.tag[b].size) ELSE NoList
            ELSE c0[b]
       /\ Used(m2, T2) = {c \in Used(m, T) : c < p \/ q <= c} \cup
                         {c \in T2 \ {m2.top} : p <= c /\ c < q /\ m2.tag[c].used}
  BY <1>1, <1>5, <1>10, Retiled DEF c0
<1>12. Class(m2, T2) = c2
  <2>1. c0 \in [Node -> Header \cup {NoList}]
    BY <1>1, ClassTypes DEF c0
  <2>2. get_header(s - n) \in Header
    <3>1. s - n \in Nat
      BY <1>2
    <3> QED
      BY <3>1, HeaderFacts
  <2>3. Class(m2, T2) \in [Node -> Header \cup {NoList}] /\ c2 \in [Node -> Header \cup {NoList}]
    BY <1>5, <1>11, <2>1, <2>2, ClassTypes
  <2>4. ASSUME NEW b \in Node
        PROVE  Class(m2, T2)[b] = c2[b]
    <3>1. CASE b = p
      BY <1>2, <1>4, <1>7, <1>8, <1>11, <2>1, <3>1
    <3>2. CASE b = r
      <4>1. r \in T2 \ {m2.top}
        BY <1>2, <1>4 DEF T2
      <4>2. r >= p /\ r < q
        BY <1>2, <1>4
      <4> QED
        BY <1>4, <1>8, <1>11, <2>1, <3>2, <4>1, <4>2
    <3>3. CASE b # p /\ b # r /\ b >= p /\ b < q
      <4>1. b \in Nat /\ p < b
        BY <1>2, <3>3 DEF Node, Header, Unit
      <4>2. c0[b] = NoList /\ b \notin T2
        BY <1>3, <1>2, <3>3, <4>1 DEF T2
      <4> QED
        BY <1>11, <2>1, <3>3, <4>2
    <3>4. CASE b # p /\ b # r /\ ~(b >= p /\ b < q)
      BY <1>11, <2>1, <3>4
    <3> QED
      BY <3>1, <3>2, <3>3, <3>4
  <2> QED
    BY <2>3, <2>4
<1>13. Good(m2, T2)
  <2>1. Rings(m2, c2)
    BY DEF c0, r
  <2> QED
    BY <1>11, <1>12, <2>1 DEF Good
<1>14. p \notin Used(m, T) /\ Used(m2, T2) = Used(m, T) \cup {p}
  <2>1. \A c \in Used(m, T) : c < p \/ q <= c
    <3>1. Used(m, T) \subseteq T /\ p \notin Used(m, T)
      BY <1>2 DEF Used
    <3> QED
      BY <1>1, <1>2, <1>3, <3>1
  <2>2. {c \in Used(m, T) : c < p \/ q <= c} = Used(m, T)
    BY <2>1
  <2>3. p < q /\ p \in T2 \ {m2.top}
    BY <1>2, <1>4 DEF T2
  <2>4. \A c \in T2 \ {m2.top} : p <= c /\ c < q /\ m2.tag[c].used => c = p
    BY <1>2, <1>6, <1>8 DEF T2
  <2>5. {c \in T2 \ {m2.top} : p <= c /\ c < q /\ m2.tag[c].used} = {p}
    <3> DEFINE U == {c \in T2 \ {m2.top} : p <= c /\ c < q /\ m2.tag[c].used}
    <3>1. p \in U
      <4>1. m2.tag[p].used /\ p <= p
        BY <1>2, <1>8
      <4> QED
        BY <2>3, <4>1
    <3>2. \A c \in U : c = p
      BY <2>4
    <3> QED
      BY <3>1, <3>2
  <2> QED
    BY <1>2, <1>11, <2>2, <2>5
<1>15. Undisturbed(m, m2, Used(m, T))
  <2>1. \A b \in Node : (b < p \/ q <= b) /\ Class(m, T)[b] = NoList =>
          m2.prev[b] = m.prev[b] /\ m2.next[b] = m.next[b]
    <3>1. \A b \in Node : b < p \/ q <= b => b # r
      BY <1>2, <1>4
    <3> QED
      BY <3>1 DEF r
  <2>2. Undisturbed(m, m2, {c \in Used(m, T) : c < p \/ q <= c})
    BY <1>1, <1>5, <1>10, <2>1, RetiledUndisturbed
  <2>3. \A c \in Used(m, T) : c < p \/ q <= c
    <3>1. Used(m, T) \subseteq T /\ p \notin Used(m, T)
      BY <1>2 DEF Used
    <3> QED
      BY <1>1, <1>2, <1>3, <3>1
  <2> QED
    BY <2>2, <2>3 DEF Undisturbed
<1>16. m2.tag[p].size >= n
  OBVIOUS
<1> QED
  BY <1>2, <1>5, <1>13, <1>14, <1>15, <1>16 DEF Allocated, T2, r, q

\* Split puts the front of a free chunk into use.
LEMMA SplitAllocates ==
  ASSUME NEW m, NEW T, T \in SUBSET Unit, Good(m, T),
         NEW p \in T \ {m.top}, ~m.tag[p].used, NEW n \in Nat \ {0}, n < m.tag[p].size
  PROVE  Allocated(m, T, Split(m, p, n).heap, T \cup {p + n, p + m.tag[p].size}, p, n)
<1> DEFINE s == m.tag[p].size
           r == p + n
           q == p + s
           rest == s - n
           yes == TRUE
           no == FALSE
           c0 == Class(m, T)
           c1 == [c0 EXCEPT ![p] = NoList]
           c2 == [c1 EXCEPT ![r] = get_header(rest)]
           m1 == SetTag(m, p, n, yes, yes)
           m2 == SetTag(m1, r, rest, no, yes)
           f == p + n + rest - 1
           m3 == [m2 EXCEPT !.foot[f] = rest]
           u == Unlink(m3, p)
           i == Insert(u, r, rest)
<1>1. Split(m, p, n).heap = i
  BY DEF Split
<1>2. yes \in BOOLEAN /\ no \in BOOLEAN
  OBVIOUS
<1>3. yes = TRUE /\ no = FALSE
  OBVIOUS
<1> HIDE DEF yes, no
<1>4. m \in Heap /\ Tiling(m, T) /\ Extent(m) /\ Rings(m, c0)
  BY GoodTypes
<1>5. Room(m, T, p, s, m.top)
  BY DEF Room
<1>6. /\ p \in Nat /\ p \in Node /\ p \in Unit /\ p \notin Header
      /\ s \in Nat \ {0} /\ q \in Unit /\ s \in Unit
      /\ \A b \in Nat : p < b /\ b < q => b \in Node /\ c0[b] = NoList
  BY <1>5, RoomFacts
<1>7. c0 \in [Node -> Header \cup {NoList}] /\ c0[p] \in Header /\ c0[p] # p
  BY <1>4, <1>6, ClassTypes, FreeClass
<1> HIDE DEF c0
<1>8. n < s /\ n \in Nat
  OBVIOUS
<1> HIDE DEF s
<1>9. /\ r \in Nat /\ p < r /\ r < q /\ r # p /\ rest \in Nat /\ rest \in Unit /\ n \in Unit
      /\ f = q - 1 /\ f = p + s - 1 /\ f \in Unit
  BY <1>6, <1>8, MAX_HEAPAssumption DEF Unit
<1>10. r \in Node /\ c0[r] = NoList
  <2> HIDE DEF r, q
  <2> QED
    BY <1>6, <1>9
<1> HIDE DEF r, rest, f
<1>11. /\ m1 \in Heap /\ m1.prev = m.prev /\ m1.next = m.next /\ m1.foot = m.foot
       /\ m1.top = m.top /\ m1.brk = m.brk
       /\ m1.tag[p] \in Tag /\ m1.tag[p].size = n
       /\ m1.tag[p].used = yes /\ m1.tag[p].pused = yes
       /\ \A b \in Node : b # p => m1.tag[b] = m.tag[b]
  BY <1>2, <1>4, <1>6, <1>9, SetTagIs
<1> HIDE DEF m1
<1>12. /\ m2 \in Heap /\ m2.prev = m1.prev /\ m2.next = m1.next /\ m2.foot = m1.foot
       /\ m2.top = m1.top /\ m2.brk = m1.brk
       /\ m2.tag[r] \in Tag /\ m2.tag[r].size = rest
       /\ m2.tag[r].used = no /\ m2.tag[r].pused = yes
       /\ \A b \in Node : b # r => m2.tag[b] = m1.tag[b]
  <2>1. m1 \in Heap /\ r \in Node /\ rest \in Unit
    BY <1>9, <1>10, <1>11
  <2> QED
    BY <1>2, <2>1, SetTagIs
<1> HIDE DEF m2
<1>13. /\ m3 \in Heap /\ m3.prev = m2.prev /\ m3.next = m2.next /\ m3.tag = m2.tag
       /\ m3.top = m2.top /\ m3.brk = m2.brk /\ m3.foot[f] = rest
       /\ \A b \in Unit : b # f => m3.foot[b] = m2.foot[b]
  <2>1. m2 \in Heap /\ f \in Unit /\ rest \in Unit
    BY <1>9, <1>12
  <2> QED
    BY <2>1, SetFootIs
<1> HIDE DEF m3
<1>14. Rings(m3, c0)
  BY <1>4, <1>11, <1>12, <1>13, RingsFrame
<1>15. /\ u \in Heap /\ u.tag = m3.tag /\ u.foot = m3.foot /\ u.top = m3.top
       /\ u.brk = m3.brk /\ Rings(u, c1)
       /\ \A b \in Node : c0[b] = NoList =>
            u.prev[b] = m3.prev[b] /\ u.next[b] = m3.next[b]
  <2>1. m3 \in Heap /\ p \in Node /\ c0[p] \in Header /\ c0[p] # p /\ Rings(m3, c0)
        /\ c0 \in [Node -> Header \cup {NoList}]
    BY <1>6, <1>7, <1>13, <1>14
  <2>2. Relinked(m3, c0, p, NoList, u)
    BY <2>1, UnlinkRings
  <2> QED
    BY <2>1, <2>2, HeaderFacts DEF Relinked
<1> HIDE DEF u
<1>16. c1 \in [Node -> Header \cup {NoList}] /\ c1[r] = NoList
       /\ \A b \in Node : c0[b] = NoList => c1[b] = NoList
  BY <1>7, <1>9, <1>10
<1> HIDE DEF c1
<1>17. /\ i \in Heap /\ i.tag = u.tag /\ i.foot = u.foot /\ i.top = u.top
       /\ i.brk = u.brk /\ Rings(i, c2)
       /\ \A b \in Node \ {r} : c1[b] = NoList =>
            i.prev[b] = u.prev[b] /\ i.next[b] = u.next[b]
  <2>1. u \in Heap /\ r \in Node /\ c1[r] = NoList /\ Rings(u, c1) /\ rest \in Nat
        /\ c1 \in [Node -> Header \cup {NoList}]
    BY <1>9, <1>10, <1>15, <1>16
  <2>2. Relinked(u, c1, r, get_header(rest), i)
    BY <2>1, InsertRings
  <2> QED
    BY <2>2 DEF Relinked
<1> HIDE DEF i
<1>18. i.top = m.top /\ i.brk = m.brk /\ i.tag = m2.tag /\ i.foot = m3.foot
  BY <1>11, <1>12, <1>13, <1>15, <1>17
<1>19. Extent(i) /\ m.brk <= i.brk
  <2>1. m.brk \in Nat
    BY GoodTypes
  <2> QED
    BY <1>4, <1>17, <1>18, <2>1 DEF Extent
<1>20. /\ i.tag[p] \in Tag /\ i.tag[p].size = n /\ i.tag[p].used /\ i.tag[p].pused
  <2>1. i.tag[p] = m1.tag[p]
    BY <1>6, <1>9, <1>12, <1>18
  <2> QED
    BY <1>3, <1>11, <2>1
<1>21. /\ i.tag[r] \in Tag /\ i.tag[r].size = rest /\ ~i.tag[r].used /\ i.tag[r].pused
  BY <1>3, <1>12, <1>18
<1>22. \A a \in Node : a # p /\ a # r => i.tag[a] = m.tag[a]
  BY <1>11, <1>12, <1>18
<1>23. i.foot[f] = rest /\ \A a \in Unit : a # f => i.foot[a] = m.foot[a]
  BY <1>11, <1>12, <1>13, <1>18
<1>24. \A b \in Node \ {r} : c0[b] = NoList =>
         i.prev[b] = m.prev[b] /\ i.next[b] = m.next[b]
  BY <1>11, <1>12, <1>13, <1>15, <1>16, <1>17
<1>25. Room(m, T, p, s, i.top)
  BY <1>5, <1>18
<1>26. Allocated(m, T, i, T \cup {p + n, p + s}, p, n)
  <2>1. i.foot[p + s - 1] = s - n /\ \A a \in Unit : a # p + s - 1 => i.foot[a] = m.foot[a]
    BY <1>9, <1>23 DEF rest
  <2>2. /\ i.tag[p + n] \in Tag /\ i.tag[p + n].size = s - n /\ ~i.tag[p + n].used
        /\ i.tag[p + n].pused
    BY <1>21 DEF r, rest
  <2>3. \A a \in Node : a # p /\ a # p + n => i.tag[a] = m.tag[a]
    BY <1>22 DEF r
  <2>4. Rings(i, [[Class(m, T) EXCEPT ![p] = NoList] EXCEPT ![p + n] = get_header(s - n)])
    BY <1>17 DEF c0, c1, r, rest
  <2>5. \A b \in Node \ {p + n} : Class(m, T)[b] = NoList =>
           i.prev[b] = m.prev[b] /\ i.next[b] = m.next[b]
    BY <1>24 DEF r, c0
  <2> QED
    BY <1>8, <1>19, <1>20, <1>25, <2>1, <2>2, <2>3, <2>4, <2>5, CarvedAllocates
<1> QED
  BY <1>1, <1>26 DEF s

\* ExtendSmall gets a chunk and a free rest from sbrk.
LEMMA ExtendSmallAllocates ==
  ASSUME NEW m, NEW T, T \in SUBSET Unit, Good(m, T), NEW n \in Nat \ {0},
         n < MIN_CHUNK_SIZE, ExtendSmall(m, n).heap.top <= MAX_HEAP
  PROVE  \E T2 : Allocated(m, T, ExtendSmall(m, n).heap, T2, m.top, n)
<1> DEFINE s == IF n = 1 THEN SMALL ELSE MIN_CHUNK_SIZE
           p == m.top
           r == p + n
           rest == s - n
           yes == TRUE
           no == FALSE
           c0 == Class(m, T)
           c2 == [c0 EXCEPT ![r] = get_header(rest)]
           m0 == mm_sbrk(m, s)
           m1 == SetTag(m0, p, n, yes, yes)
           m2 == SetTag(m1, r, rest, no, yes)
           f == p + s - 1
           m3 == [m2 EXCEPT !.foot[f] = rest]
           i == Insert(m3, r, rest)
<1>1. ExtendSmall(m, n).heap = i
  BY DEF ExtendSmall
<1>2. yes \in BOOLEAN /\ no \in BOOLEAN
  OBVIOUS
<1>3. yes = TRUE /\ no = FALSE
  OBVIOUS
<1> HIDE DEF yes, no
<1>4. /\ m \in Heap /\ Tiling(m, T) /\ Extent(m) /\ Rings(m, c0) /\ p \in Nat /\ p \in Node
      /\ p <= MAX_HEAP /\ m.brk \in Nat /\ MAX_HEAP \in Nat /\ p \in Unit
  BY GoodTypes
<1>5. s \in Nat \ {0} /\ n < s /\ n \in Nat
  BY SMALLAssumption, HEADERSAssumption DEF MIN_CHUNK_SIZE
<1> HIDE DEF s
<1>6. p + s <= MAX_HEAP
  <2> DEFINE top == p + s
  <2>1. HasTop(m, p)
    BY <1>4 DEF HasTop, Heap
  <2>2. HasTop(m0, top)
    BY <2>1, SbrkTop
  <2> HIDE DEF m0, top
  <2>3. HasTop(m1, top)
    BY <2>2, SetTagTop
  <2> HIDE DEF m1
  <2>4. HasTop(m2, top)
    BY <2>3, SetTagTop
  <2> HIDE DEF m2
  <2>5. HasTop(m3, top)
    BY <2>4, SetFootTop
  <2> HIDE DEF m3
  <2>6. HasTop(i, top)
    BY <2>5, InsertTop
  <2> HIDE DEF i
  <2> QED
    BY <1>1, <2>6 DEF HasTop, top
<1>7. Room(m, T, p, s, p + s)
  BY <1>5, <1>6 DEF Room
<1>8. /\ p \notin Header /\ p + s \in Unit /\ s \in Unit
      /\ \A b \in Nat : p < b /\ b < p + s => b \in Node /\ c0[b] = NoList
  BY <1>7, RoomFacts
<1>9. c0 \in [Node -> Header \cup {NoList}] /\ c0[p] = NoList
  <2>1. c0[p] = NoList
    BY <1>4, <1>8 DEF Class
  <2> QED
    BY <1>4, <2>1, ClassTypes
<1> HIDE DEF c0
<1>10. /\ r \in Nat /\ p < r /\ r < p + s /\ r # p /\ rest \in Nat /\ rest \in Unit
       /\ n \in Unit /\ f \in Unit
  BY <1>4, <1>5, <1>8 DEF Unit
<1>11. r \in Node /\ c0[r] = NoList
  <2> HIDE DEF r
  <2> QED
    BY <1>8, <1>10
<1> HIDE DEF r, rest, f
<1>12. /\ m0 \in Heap /\ Extent(m0) /\ m0.prev = m.prev /\ m0.next = m.next
       /\ m0.tag = m.tag /\ m0.foot = m.foot /\ m0.top = p + s /\ m.brk <= m0.brk
  <2>1. Extent(m) /\ s \in Int /\ 0 <= p + s /\ p + s <= MAX_HEAP
    BY <1>4, <1>5, <1>6
  <2> QED
    BY <2>1, SbrkIs DEF Extent
<1> HIDE DEF m0, p
<1>13. /\ m1 \in Heap /\ m1.prev = m0.prev /\ m1.next = m0.next /\ m1.foot = m0.foot
       /\ m1.top = m0.top /\ m1.brk = m0.brk
       /\ m1.tag[p] \in Tag /\ m1.tag[p].size = n
       /\ m1.tag[p].used = yes /\ m1.tag[p].pused = yes
       /\ \A b \in Node : b # p => m1.tag[b] = m0.tag[b]
  <2>1. m0 \in Heap /\ p \in Node /\ n \in Unit
    BY <1>4, <1>10, <1>12
  <2> QED
    BY <1>2, <2>1, SetTagIs
<1> HIDE DEF m1
<1>14. /\ m2 \in Heap /\ m2.prev = m1.prev /\ m2.next = m1.next /\ m2.foot = m1.foot
       /\ m2.top = m1.top /\ m2.brk = m1.brk
       /\ m2.tag[r] \in Tag /\ m2.tag[r].size = rest
       /\ m2.tag[r].used = no /\ m2.tag[r].pused = yes
       /\ \A b \in Node : b # r => m2.tag[b] = m1.tag[b]
  <2>1. m1 \in Heap /\ r \in Node /\ rest \in Unit
    BY <1>10, <1>11, <1>13
  <2> QED
    BY <1>2, <2>1, SetTagIs
<1> HIDE DEF m2
<1>15. /\ m3 \in Heap /\ m3.prev = m2.prev /\ m3.next = m2.next /\ m3.tag = m2.tag
       /\ m3.top = m2.top /\ m3.brk = m2.brk /\ m3.foot[f] = rest
       /\ \A b \in Unit : b # f => m3.foot[b] = m2.foot[b]
  <2>1. m2 \in Heap /\ f \in Unit /\ rest \in Unit
    BY <1>10, <1>14
  <2> QED
    BY <2>1, SetFootIs
<1> HIDE DEF m3
<1>16. Rings(m3, c0)
  BY <1>4, <1>12, <1>13, <1>14, <1>15, RingsFrame
<1>17. /\ i \in Heap /\ i.tag = m3.tag /\ i.foot = m3.foot /\ i.top = m3.top
       /\ i.brk = m3.brk /\ Rings(i, c2)
       /\ \A b \in Node \ {r} : c0[b] = NoList =>
            i.prev[b] = m3.prev[b] /\ i.next[b] = m3.next[b]
  <2>1. m3 \in Heap /\ r \in Node /\ c0[r] = NoList /\ Rings(m3, c0) /\ rest \in Nat
        /\ c0 \in [Node -> Header \cup {NoList}]
    BY <1>9, <1>10, <1>11, <1>15, <1>16
  <2>2. Relinked(m3, c0, r, get_header(rest), i)
    BY <2>1, InsertRings
  <2> QED
    BY <2>2 DEF Relinked
<1> HIDE DEF i
<1>18. i.top = p + s /\ i.brk = m0.brk /\ i.tag = m2.tag /\ i.foot = m3.foot
  BY <1>12, <1>13, <1>14, <1>15, <1>17
<1>19. Extent(i) /\ m.brk <= i.brk
  BY <1>12, <1>17, <1>18 DEF Extent
<1>20. /\ i.tag[p] \in Tag /\ i.tag[p].size = n /\ i.tag[p].used /\ i.tag[p].pused
  <2>1. i.tag[p] = m1.tag[p]
    BY <1>4, <1>10, <1>14, <1>18
  <2> QED
    BY <1>3, <1>13, <2>1
<1>21. /\ i.tag[r] \in Tag /\ i.tag[r].size = rest /\ ~i.tag[r].used /\ i.tag[r].pused
  BY <1>3, <1>14, <1>18
<1>22. \A a \in Node : a # p /\ a # r => i.tag[a] = m.tag[a]
  BY <1>12, <1>13, <1>14, <1>18
<1>23. i.foot[f] = rest /\ \A a \in Unit : a # f => i.foot[a] = m.foot[a]
  BY <1>12, <1>13, <1>14, <1>15, <1>18
<1>24. \A b \in Node \ {r} : c0[b] = NoList =>
         i.prev[b] = m.prev[b] /\ i.next[b] = m.next[b]
  BY <1>12, <1>13, <1>14, <1>15, <1>17
<1>25. Room(m, T, p, s, i.top)
  BY <1>7, <1>18
<1>26. Allocated(m, T, i, T \cup {p + n, p + s}, p, n)
  <2>1. i.foot[p + s - 1] = s - n /\ \A a \in Unit : a # p + s - 1 => i.foot[a] = m.foot[a]
    BY <1>23 DEF rest, f
  <2>2. /\ i.tag[p + n] \in Tag /\ i.tag[p + n].size = s - n /\ ~i.tag[p + n].used
        /\ i.tag[p + n].pused
    BY <1>21 DEF r, rest
  <2>3. \A a \in Node : a # p /\ a # p + n => i.tag[a] = m.tag[a]
    BY <1>22 DEF r
  <2>4. Rings(i, [[Class(m, T) EXCEPT ![p] = NoList] EXCEPT ![p + n] = get_header(s - n)])
    <3>1. [c0 EXCEPT ![p] = NoList] = c0
      BY <1>9
    <3> QED
      BY <1>17, <3>1 DEF c0, r, rest
  <2>5. \A b \in Node \ {p + n} : Class(m, T)[b] = NoList =>
           i.prev[b] = m.prev[b] /\ i.next[b] = m.next[b]
    BY <1>24 DEF r, c0
  <2> QED
    BY <1>5, <1>19, <1>20, <1>25, <2>1, <2>2, <2>3, <2>4, <2>5, CarvedAllocates
<1> QED
  BY <1>1, <1>26 DEF p

\* ExtendBig gets a chunk from sbrk.
LEMMA ExtendBigAllocates ==
  ASSUME NEW m, NEW T, T \in SUBSET Unit, Good(m, T), NEW n \in Nat \ {0},
         ExtendBig(m, n).heap.top <= MAX_HEAP
  PROVE  \E T2 : Allocated(m, T, ExtendBig(m, n).heap, T2, m.top, n)
<1> DEFINE p == m.top
           q == p + n
           T2 == T \cup {q}
           yes == TRUE
           c0 == Class(m, T)
           m0 == mm_sbrk(m, n)
           i == SetTag(m0, p, n, yes, yes)
<1>1. ExtendBig(m, n).heap = i
  BY DEF ExtendBig
<1>2. yes \in BOOLEAN
  OBVIOUS
<1>3. yes = TRUE
  OBVIOUS
<1> HIDE DEF yes
<1>4. /\ m \in Heap /\ Tiling(m, T) /\ Extent(m) /\ Rings(m, c0) /\ p \in Nat /\ p \in Node
      /\ Footed(m, T) /\ Marked(m, T)
      /\ p <= MAX_HEAP /\ m.brk \in Nat /\ MAX_HEAP \in Nat /\ p \in Unit /\ p \in T
      /\ T \subseteq Nat /\ \A c \in T : c <= p
  BY GoodTypes
<1>5. p + n <= MAX_HEAP
  <2> DEFINE top == p + n
  <2>1. HasTop(m, p)
    BY <1>4 DEF HasTop, Heap
  <2>2. HasTop(m0, top)
    BY <2>1, SbrkTop
  <2> HIDE DEF m0, top
  <2>3. HasTop(i, top)
    BY <2>2, SetTagTop
  <2> HIDE DEF i
  <2> QED
    BY <1>1, <2>3 DEF HasTop, top
<1>6. Room(m, T, p, n, q)
  BY <1>5 DEF Room
<1>7. /\ p \notin Header /\ q \in Unit /\ n \in Unit /\ q \in Nat /\ p < q
      /\ \A b \in Nat : p < b /\ b < q => b \in Node /\ c0[b] = NoList /\ b \notin T
  BY <1>4, <1>6, RoomFacts
<1>8. c0 \in [Node -> Header \cup {NoList}] /\ c0[p] = NoList
  <2>1. c0[p] = NoList
    BY <1>4, <1>7 DEF Class
  <2> QED
    BY <1>4, <2>1, ClassTypes
<1> HIDE DEF c0
<1>9. /\ m0 \in Heap /\ Extent(m0) /\ m0.prev = m.prev /\ m0.next = m.next
      /\ m0.tag = m.tag /\ m0.foot = m.foot /\ m0.top = q /\ m.brk <= m0.brk
  <2>1. Extent(m) /\ n \in Int /\ 0 <= p + n /\ p + n <= MAX_HEAP
    BY <1>4, <1>5
  <2> QED
    BY <2>1, SbrkIs DEF Extent
<1> HIDE DEF m0, p, q
<1>10. /\ i \in Heap /\ i.prev = m0.prev /\ i.next = m0.next /\ i.foot = m0.foot
       /\ i.top = m0.top /\ i.brk = m0.brk
       /\ i.tag[p] \in Tag /\ i.tag[p].size = n
       /\ i.tag[p].used = yes /\ i.tag[p].pused = yes
       /\ \A b \in Node : b # p => i.tag[b] = m0.tag[b]
  <2>1. m0 \in Heap /\ p \in Node /\ n \in Unit
    BY <1>4, <1>7, <1>9
  <2> QED
    BY <1>2, <2>1, SetTagIs
<1> HIDE DEF i
<1>11. Extent(i) /\ m.brk <= i.brk /\ i.top = q /\ m.top = p
  BY <1>9, <1>10 DEF Extent, p
<1>12. i.tag[p].used /\ i.tag[p].pused
  BY <1>3, <1>10
<1>13. Retiles(m, T, i, T2, p, q)
  <2>1. p \in T /\ p \in T2 /\ q \in Nat /\ p <= q /\ q > p
    BY <1>4, <1>7
  <2>2. T2 \subseteq 0 .. q /\ q \in T2
    BY <1>4, <1>7
  <2>3. \A c \in Nat : c < p \/ q <= c => (c \in T2 \ {q} <=> c \in T \ {p})
    BY <1>4, <1>7
  <2>4. \A a \in Node : a < p \/ q < a => i.tag[a] = m.tag[a]
    BY <1>4, <1>7, <1>9, <1>10 DEF Node, Header, Unit
  <2>5. \A a \in Unit : i.foot[a] = m.foot[a]
    BY <1>9, <1>10
  <2>6. ASSUME NEW c \in T2 \ {q}, p <= c, c < q
        PROVE  /\ i.tag[c] \in Tag /\ i.tag[c].size >= 1
               /\ c + i.tag[c].size \in T2 /\ c + i.tag[c].size <= q
               /\ \A d \in T2 : d <= c \/ c + i.tag[c].size <= d
               /\ i.tag[c].used /\ i.tag[c].pused
    <3>1. c = p
      <4>1. c \in T
        BY <2>6
      <4>2. c \in Nat /\ c <= p /\ p \in Nat
        BY <1>4, <4>1
      <4> HIDE DEF T2
      <4> QED
        BY <2>6, <4>2
    <3>2. p + i.tag[p].size = q /\ i.tag[p].size >= 1
      BY <1>10 DEF q
    <3> QED
      BY <1>4, <1>7, <1>10, <1>12, <3>1, <3>2
  <2> HIDE DEF T2
  <2> QED
    BY <1>11, <2>1, <2>2, <2>3, <2>4, <2>5, <2>6 DEF Retiles
<1>14. /\ Tiling(i, T2) /\ Footed(i, T2) /\ Marked(i, T2)
       /\ \A b \in Node : Class(i, T2)[b] =
            IF b >= p /\ b < q
            THEN IF b \in T2 \ {i.top} /\ ~i.tag[b].used
                 THEN get_header(i.tag[b].size) ELSE NoList
            ELSE c0[b]
       /\ Used(i, T2) = {c \in Used(m, T) : c < p \/ q <= c} \cup
                        {c \in T2 \ {i.top} : p <= c /\ c < q /\ i.tag[c].used}
  <2> HIDE DEF T2
  <2> QED
    BY <1>4, <1>10, <1>13, Retiled DEF c0
<1>15. Class(i, T2) = c0
  <2>1. Class(i, T2) \in [Node -> Header \cup {NoList}]
    BY <1>10, <1>14, ClassTypes
  <2>2. ASSUME NEW b \in Node
        PROVE  Class(i, T2)[b] = c0[b]
    <3>1. CASE b = p
      BY <1>4, <1>7, <1>8, <1>12, <1>14, <3>1
    <3>2. CASE b # p /\ b >= p /\ b < q
      <4>1. b \in Nat /\ p < b
        BY <1>4, <3>2 DEF Node, Header, Unit
      <4>2. c0[b] = NoList /\ b \notin T2
        BY <1>7, <3>2, <4>1
      <4> QED
        BY <1>14, <3>2, <4>2
    <3>3. CASE ~(b >= p /\ b < q)
      BY <1>14, <3>3
    <3> QED
      BY <3>1, <3>2, <3>3
  <2> QED
    BY <1>8, <2>1, <2>2
<1>16. Good(i, T2)
  <2>1. Rings(i, c0)
    BY <1>4, <1>9, <1>10, RingsFrame
  <2> QED
    BY <1>11, <1>14, <1>15, <2>1 DEF Good
<1>17. p \notin Used(m, T) /\ Used(i, T2) = Used(m, T) \cup {p}
  <2>1. Used(m, T) \subseteq T /\ p \notin Used(m, T)
    BY <1>11 DEF Used
  <2>2. {c \in Used(m, T) : c < p \/ q <= c} = Used(m, T)
    BY <1>4, <2>1
  <2> DEFINE U == {c \in T2 \ {i.top} : p <= c /\ c < q /\ i.tag[c].used}
  <2>3. p \in U
    BY <1>4, <1>7, <1>11, <1>12
  <2>4. \A c \in U : c = p
    BY <1>4, <1>7, <1>11
  <2>5. U = {p}
    BY <2>3, <2>4
  <2> QED
    BY <1>14, <2>1, <2>2, <2>5
<1>18. Undisturbed(m, i, Used(m, T))
  <2>1. \A b \in Node : i.prev[b] = m.prev[b] /\ i.next[b] = m.next[b]
    BY <1>9, <1>10
  <2>2. Undisturbed(m, i, {c \in Used(m, T) : c < p \/ q <= c})
    <3> HIDE DEF T2
    <3> QED
      BY <1>4, <1>10, <1>13, <2>1, RetiledUndisturbed
  <2>3. \A c \in Used(m, T) : c < p
    BY <1>4, <1>17 DEF Used
  <2> QED
    BY <2>2, <2>3 DEF Undisturbed
<1>19. Allocated(m, T, i, T2, p, n)
  <2>1. i.tag[p].size >= n /\ m.top <= i.top /\ T2 \in SUBSET Unit
    BY <1>4, <1>7, <1>10, <1>11
  <2> QED
    BY <1>11, <1>16, <1>17, <1>18, <2>1 DEF Allocated
<1> QED
  BY <1>1, <1>19 DEF p

\* No list is longer than the heap has units, and its header.
LEMMA ListLengths ==
  ASSUME NEW m, NEW T, Good(m, T), NEW h \in Header
  PROVE  LET L == Members(Class(m, T), h)
         IN  /\ Ring(m.prev, m.next, L, h) /\ IsFiniteSet(L)
             /\ Cardinality(L) <= MAX_HEAP + 1
             /\ \A a \in L : a # h => /\ a \in T \ {m.top} /\ ~m.tag[a].used
                                      /\ get_header(m.tag[a].size) = h
<1> DEFINE L == Members(Class(m, T), h)
           top == m.top
           I == 0 .. top - 1
<1>1. /\ top \in Nat /\ top <= MAX_HEAP /\ MAX_HEAP \in Nat /\ Rings(m, Class(m, T))
      /\ \A c \in T : c \in Nat /\ c <= top
  BY GoodTypes
<1>2. \A a \in L : a # h => /\ a \in T \ {top} /\ ~m.tag[a].used
                            /\ get_header(m.tag[a].size) = h
  BY HeaderFacts DEF Members, Class
<1>3. L \subseteq I \cup {h}
  <2>1. \A a \in T \ {top} : a \in I
    <3> HIDE DEF top
    <3> QED
      BY <1>1
  <2> HIDE DEF L, I, top
  <2> QED
    BY <1>2, <2>1
<1> HIDE DEF L, top
<1>4. IsFiniteSet(I) /\ Cardinality(I) = top
  <2>1. 0 \in Int /\ top - 1 \in Int
    BY <1>1
  <2>2. IsFiniteSet(0 .. top - 1)
        /\ Cardinality(0 .. top - 1) = IF 0 > top - 1 THEN 0 ELSE top - 1 - 0 + 1
    BY <2>1, FS_Interval
  <2> QED
    BY <1>1, <2>2
<1> HIDE DEF I
<1>5. IsFiniteSet(I \cup {h}) /\ Cardinality(I \cup {h}) <= top + 1
      /\ Cardinality(I \cup {h}) \in Nat
  <2>1. IsFiniteSet(I \cup {h})
    BY <1>4, FS_AddElement
  <2> QED
    BY <1>4, <2>1, OneMore
<1>6. IsFiniteSet(L) /\ Cardinality(L) <= Cardinality(I \cup {h}) /\ Cardinality(L) \in Nat
  BY <1>3, <1>5, FS_Subset, FS_CardinalityType
<1>7. Cardinality(L) <= MAX_HEAP + 1
  BY <1>1, <1>5, <1>6
<1>8. Ring(m.prev, m.next, L, h)
  BY <1>1 DEF Rings, L
<1> QED
  BY <1>2, <1>6, <1>7, <1>8 DEF L, top

\* The search ends at a header or at a free chunk that is large enough.
LEMMA SearchFinds ==
  ASSUME NEW m, NEW T, Good(m, T), NEW n \in Nat
  PROVE  LET p == Search(m, n)
         IN  p \in Header \/ (p \in T \ {m.top} /\ ~m.tag[p].used /\ m.tag[p].size >= n)
<1> DEFINE fits == {h \in get_header(n) .. -1 : FirstFit(m, h, n) # h}
           p == Search(m, n)
<1>1. get_header(n) \in Header
  BY HeaderFacts
<1>2. fits \subseteq Header /\ \A h \in fits : FirstFit(m, h, n) # h
  BY <1>1, HEADERSAssumption DEF Header
<1>3. p = IF fits = {} THEN -1 ELSE FirstFit(m, Min(fits), n)
  BY DEF Search
<1> HIDE DEF fits, p
<1>4. CASE fits = {}
  BY <1>3, <1>4, HeaderFacts DEF p
<1>5. CASE fits # {}
  <2> DEFINE S == {HEADERS + h : h \in fits}
             least == Min(fits)
  <2>0. \A h \in fits : h \in Int /\ HEADERS + h \in Nat
    <3>1. \A h \in Header : h \in Int /\ HEADERS + h \in Nat
      BY HEADERSAssumption DEF Header
    <3> QED
      BY <1>2, <3>1
  <2>1. S \subseteq Nat /\ S # {}
    BY <1>5, <2>0
  <2>2. PICK x \in S : \A y \in S : x <= y
    BY <2>1, LeastExists
  <2>3. PICK g \in fits : x = HEADERS + g
    BY <2>2
  <2>4. \A h \in fits : g <= h
    <3> SUFFICES ASSUME NEW h \in fits PROVE g <= h
      OBVIOUS
    <3>1. HEADERS + g <= HEADERS + h
      BY <2>2, <2>3
    <3> QED
      BY <2>0, <3>1, HEADERSAssumption
  <2>5. least \in fits
    BY <2>3, <2>4 DEF Min
  <2> HIDE DEF least
  <2> DEFINE L == Members(Class(m, T), least)
             q == FirstFit(m, least, n)
  <2>6. least \in Header /\ q # least /\ p = q
    BY <1>2, <1>3, <1>5, <2>5 DEF least
  <2>7. /\ Ring(m.prev, m.next, L, least) /\ IsFiniteSet(L)
        /\ Cardinality(L) <= MAX_HEAP + 1
        /\ \A a \in L : a # least => a \in T \ {m.top} /\ ~m.tag[a].used
    BY <2>6, ListLengths
  <2> HIDE DEF L
  <2>8. q \in L /\ (q = least \/ m.tag[q].size >= n)
    BY <2>7, FirstFitFits, MAX_HEAPAssumption
  <2> HIDE DEF q
  <2> QED
    BY <2>6, <2>7, <2>8 DEF p
<1> QED
  BY <1>4, <1>5 DEF p

\* mm_malloc returns a chunk in use of at least the requested size, if the heap does not
\* run out and the request is not the one for a chunk of MIN_CHUNK_SIZE units.
LEMMA MallocAllocates ==
  ASSUME NEW m, NEW T, T \in SUBSET Unit, Good(m, T), NEW n \in Nat \ {0},
         n # MIN_CHUNK_SIZE, mm_malloc(m, n).heap.top <= MAX_HEAP
  PROVE  \E T2 : Allocated(m, T, mm_malloc(m, n).heap, T2, mm_malloc(m, n).ptr, n)
<1> DEFINE p == Search(m, n)
<1>1. \/ p \in Header
      \/ p \in T \ {m.top} /\ ~m.tag[p].used /\ m.tag[p].size >= n
  BY SearchFinds
<1>2. mm_malloc(m, n) =
        IF p \in Header
        THEN IF n <= MIN_CHUNK_SIZE THEN ExtendSmall(m, n) ELSE ExtendBig(m, n)
        ELSE IF m.tag[p].size <= n + 1 THEN TakeAll(m, p) ELSE Split(m, p, n)
  BY DEF mm_malloc
<1> HIDE DEF p
<1>3. CASE p \in Header /\ n <= MIN_CHUNK_SIZE
  <2>1. n < MIN_CHUNK_SIZE /\ mm_malloc(m, n) = ExtendSmall(m, n)
    BY <1>2, <1>3, HEADERSAssumption DEF MIN_CHUNK_SIZE
  <2>2. \E T2 : Allocated(m, T, ExtendSmall(m, n).heap, T2, m.top, n)
    BY <2>1, ExtendSmallAllocates
  <2>3. ExtendSmall(m, n).ptr = m.top
    BY DEF ExtendSmall
  <2> QED
    BY <2>1, <2>2, <2>3
<1>4. CASE p \in Header /\ ~(n <= MIN_CHUNK_SIZE)
  <2>1. mm_malloc(m, n) = ExtendBig(m, n)
    BY <1>2, <1>4
  <2>2. \E T2 : Allocated(m, T, ExtendBig(m, n).heap, T2, m.top, n)
    BY <2>1, ExtendBigAllocates
  <2>3. ExtendBig(m, n).ptr = m.top
    BY DEF ExtendBig
  <2> QED
    BY <2>1, <2>2, <2>3
<1>5. CASE p \notin Header
  <2>1. /\ p \in T \ {m.top} /\ ~m.tag[p].used /\ m.tag[p].size >= n
        /\ m.tag[p].size \in Nat
    BY <1>1, <1>5, ChunkFacts
  <2>2. CASE m.tag[p].size <= n + 1
    <3>1. mm_malloc(m, n) = TakeAll(m, p) /\ TakeAll(m, p).ptr = p
      BY <1>2, <1>5, <2>2 DEF TakeAll
    <3>2. Allocated(m, T, TakeAll(m, p).heap, T, p, n)
      BY <2>1, TakeAllAllocates
    <3> QED
      BY <3>1, <3>2
  <2>3. CASE ~(m.tag[p].size <= n + 1)
    <3>1. mm_malloc(m, n) = Split(m, p, n) /\ Split(m, p, n).ptr = p
      BY <1>2, <1>5, <2>3 DEF Split
    <3>2. n < m.tag[p].size
      BY <2>1, <2>3
    <3>3. Allocated(m, T, Split(m, p, n).heap, T \cup {p + n, p + m.tag[p].size}, p, n)
      BY <2>1, <3>2, SplitAllocates
    <3> QED
      BY <3>1, <3>3
  <2> QED
    BY <2>2, <2>3
<1> QED
  BY <1>3, <1>4, <1>5

-----------------------------------------------------------------------------
(***************************************************************************)
(* mm_free.                                                                *)
(***************************************************************************)

\* The heap m2 has one chunk in use less than m, the one at p, and no other chunk in use
\* has been touched.
Released(m, T, m2, T2, p) ==
  /\ T2 \in SUBSET Unit /\ Good(m2, T2) /\ Used(m2, T2) = Used(m, T) \ {p}
  /\ Undisturbed(m, m2, Used(m, T) \ {p}) /\ m.brk <= m2.brk

\* begin .. end - 1 is a row of chunks of which the one at p alone is in use.
Row(m, T, p, begin, end) ==
  /\ begin \in T \ {m.top} /\ begin \in Nat /\ end \in T /\ end \in Nat /\ begin < end
  /\ p \in Used(m, T) /\ begin <= p /\ p < end
  /\ \A c \in Used(m, T) : c = p \/ c < begin \/ end <= c

\* The row becomes one free chunk.
LEMMA MergedReleases ==
  ASSUME NEW m, NEW T, T \in SUBSET Unit, Good(m, T), NEW p, NEW begin, NEW end,
         Row(m, T, p, begin, end),
         NEW m2, Extent(m2), m.brk <= m2.brk, m2.top = m.top,
         m2.tag[begin] \in Tag, m2.tag[begin].size = end - begin, ~m2.tag[begin].used,
         m2.tag[begin].pused = m.tag[begin].pused,
         end # m.top => /\ m2.tag[end] \in Tag /\ m2.tag[end].size = m.tag[end].size
                        /\ m2.tag[end].used = m.tag[end].used,
         \A a \in Node : a # begin /\ a # end => m2.tag[a] = m.tag[a],
         m2.foot[end - 1] = end - begin,
         \A a \in Unit : a # end - 1 => m2.foot[a] = m.foot[a],
         NEW c2 \in [Node -> Header \cup {NoList}], Rings(m2, c2),
         \A b \in Node : c2[b] = IF b = begin THEN get_header(end - begin)
                                 ELSE IF begin < b /\ b < end THEN NoList
                                 ELSE Class(m, T)[b],
         \A b \in Node : (b < begin \/ end <= b) /\ Class(m, T)[b] = NoList =>
           m2.prev[b] = m.prev[b] /\ m2.next[b] = m.next[b]
  PROVE  Released(m, T, m2, {d \in T : d <= begin \/ end <= d}, p)
<1> DEFINE T2 == {d \in T : d <= begin \/ end <= d}
           top == m.top
<1>1. /\ m \in Heap /\ Tiling(m, T) /\ Extent(m) /\ Footed(m, T) /\ Marked(m, T)
      /\ top \in Nat /\ top \in T /\ T \subseteq Nat /\ \A c \in T : c <= top
  BY GoodTypes
<1>2. /\ begin \in T \ {top} /\ begin \in Nat /\ end \in T /\ end \in Nat /\ begin < end
      /\ p \in Used(m, T) /\ begin <= p /\ p < end
      /\ \A c \in Used(m, T) : c = p \/ c < begin \/ end <= c
  BY DEF Row
<1>3. m2 \in Heap /\ m2.top = top /\ begin < top /\ end <= top
  <2>1. begin <= top /\ end <= top
    BY <1>1, <1>2
  <2> QED
    BY <1>1, <1>2, <2>1 DEF Extent
<1> HIDE DEF top
<1>4. T2 \subseteq T /\ begin \in T2 /\ end \in T2 /\ top \in T2
  BY <1>1, <1>2, <1>3
<1>5. \A d \in T2 : d \in Nat /\ (d <= begin \/ end <= d) /\ d <= top
  BY <1>1
<1>6. begin + m2.tag[begin].size = end /\ m2.tag[begin].size >= 1
  BY <1>2
<1>7. Retiles(m, T, m2, T2, begin, end)
  <2>1. begin \in T /\ begin \in T2 /\ end \in Nat /\ begin <= end /\ end \in T
    BY <1>2, <1>4
  <2>2. T2 \subseteq 0 .. top /\ top \in T2
    <3> HIDE DEF T2
    <3> QED
      BY <1>1, <1>4, <1>5
  <2>3. \A c \in Nat : c < begin \/ end <= c => (c \in T2 \ {top} <=> c \in T \ {top})
    BY <1>2
  <2>4. \A a \in Node : a < begin \/ end < a => m2.tag[a] = m.tag[a]
    <3>1. \A a \in Node : a < begin \/ end < a => a # begin /\ a # end
      BY <1>2 DEF Node, Header, Unit
    <3> QED
      BY <3>1
  <2>5. \A a \in Unit : a < begin \/ end <= a => m2.foot[a] = m.foot[a]
    <3>1. \A a \in Unit : a < begin \/ end <= a => a # end - 1
      BY <1>2 DEF Unit
    <3> QED
      BY <3>1
  <2>6. end \in T2 \ {top} =>
          /\ m2.tag[end] \in Tag /\ m2.tag[end].size = m.tag[end].size
          /\ m2.tag[end].used = m.tag[end].used
          /\ \E b \in T2 \ {top} : ~m2.tag[b].used /\ b + m2.tag[b].size = end
    <3>1. begin \in T2 \ {top}
      BY <1>2, <1>4
    <3> QED
      BY <1>6, <3>1 DEF top
  <2>7. ASSUME NEW c \in T2 \ {top}, begin <= c, c < end
        PROVE  /\ m2.tag[c] \in Tag /\ m2.tag[c].size >= 1
               /\ c + m2.tag[c].size \in T2 /\ c + m2.tag[c].size <= end
               /\ \A d \in T2 : d <= c \/ c + m2.tag[c].size <= d
               /\ ~m2.tag[c].used => m2.foot[c + m2.tag[c].size - 1] = m2.tag[c].size
               /\ m2.tag[c].pused \/ (c = begin /\ begin # top /\ ~m.tag[begin].pused)
    <3>1. c = begin
      BY <1>2, <1>5, <2>7
    <3>2. begin + m2.tag[begin].size - 1 = end - 1
      BY <1>2
    <3>3. m2.foot[begin + m2.tag[begin].size - 1] = m2.tag[begin].size
      BY <3>2
    <3>4. m2.tag[begin].pused \/ ~m.tag[begin].pused
      OBVIOUS
    <3> HIDE DEF T2
    <3> DEFINE s == m2.tag[begin].size
    <3>5. /\ s >= 1 /\ begin + s \in T2 /\ begin + s <= end
          /\ \A d \in T2 : d <= begin \/ begin + s <= d
      <4> DEFINE e == begin + s
      <4>1. e = end /\ s >= 1
        BY <1>6
      <4> HIDE DEF s, e
      <4>2. e \in T2 /\ e <= end /\ \A d \in T2 : d <= begin \/ e <= d
        BY <1>2, <1>4, <1>5, <4>1
      <4> QED
        BY <4>1, <4>2 DEF e
    <3>6. begin # top
      BY <1>2
    <3> QED
      BY <3>1, <3>3, <3>4, <3>5, <3>6
  <2> HIDE DEF T2
  <2> QED
    BY <1>3, <2>1, <2>2, <2>3, <2>4, <2>5, <2>6, <2>7 DEF Retiles, top
<1> HIDE DEF T2
<1>8. /\ Tiling(m2, T2) /\ Footed(m2, T2) /\ Marked(m2, T2)
      /\ \A b \in Node : Class(m2, T2)[b] =
           IF b >= begin /\ b < end
           THEN IF b \in T2 \ {m2.top} /\ ~m2.tag[b].used
                THEN get_header(m2.tag[b].size) ELSE NoList
           ELSE Class(m, T)[b]
      /\ Used(m2, T2) = {c \in Used(m, T) : c < begin \/ end <= c} \cup
                        {c \in T2 \ {m2.top} : begin <= c /\ c < end /\ m2.tag[c].used}
  BY <1>1, <1>3, <1>7, Retiled
<1>9. Class(m2, T2) = c2
  <2>1. Class(m2, T2) \in [Node -> Header \cup {NoList}]
    BY <1>3, <1>8, ClassTypes
  <2>2. ASSUME NEW b \in Node
        PROVE  Class(m2, T2)[b] = c2[b]
    <3>0. b \in Int
      BY HEADERSAssumption, MAX_HEAPAssumption DEF Node, Header, Unit
    <3>1. CASE b = begin
      <4>1. begin \in T2 \ {m2.top} /\ begin >= begin
        BY <1>2, <1>3, <1>4
      <4> QED
        BY <1>2, <1>8, <3>1, <4>1
    <3>2. CASE b # begin /\ b >= begin /\ b < end
      <4>1. b \notin T2
        BY <1>2, <1>5, <3>2
      <4>2. begin < b /\ b < end
        BY <1>2, <3>0, <3>2
      <4> QED
        BY <1>8, <3>2, <4>1, <4>2
    <3>3. CASE b # begin /\ ~(b >= begin /\ b < end)
      <4>1. ~(begin < b /\ b < end)
        BY <1>2, <3>0, <3>3
      <4> QED
        BY <1>8, <3>3, <4>1
    <3> QED
      BY <3>1, <3>2, <3>3
  <2> QED
    BY <2>1, <2>2
<1>10. Good(m2, T2)
  BY <1>8, <1>9 DEF Good
<1>11. {c \in Used(m, T) : c < begin \/ end <= c} = Used(m, T) \ {p}
  <2>1. ~(p < begin) /\ ~(end <= p)
    BY <1>1, <1>2 DEF Used
  <2> QED
    BY <1>2, <2>1
<1>12. {c \in T2 \ {m2.top} : begin <= c /\ c < end /\ m2.tag[c].used} = {}
  <2> SUFFICES ASSUME NEW c \in T2, begin <= c, c < end, m2.tag[c].used PROVE FALSE
    OBVIOUS
  <2>1. c = begin
    BY <1>2, <1>5
  <2> QED
    BY <2>1
<1>13. Undisturbed(m, m2, Used(m, T) \ {p})
  BY <1>1, <1>3, <1>7, <1>11, RetiledUndisturbed
<1> QED
  BY <1>4, <1>8, <1>10, <1>11, <1>12, <1>13 DEF Released, T2

\* The row from begin on is out of its lists and out of the heap.
Shrunk(m, T, begin, m2, class) ==
  /\ Extent(m2) /\ m.brk <= m2.brk /\ m2.top = begin /\ m2.tag = m.tag /\ m2.foot = m.foot
  /\ Rings(m2, class)
  /\ \A b \in Node : class[b] = IF begin <= b /\ b < m.top THEN NoList
                               ELSE Class(m, T)[b]
  /\ \A b \in Node : Class(m, T)[b] = NoList =>
       m2.prev[b] = m.prev[b] /\ m2.next[b] = m.next[b]

\* The row at the end of the heap goes back to sbrk.
LEMMA ShrunkReleases ==
  ASSUME NEW m, NEW T, T \in SUBSET Unit, Good(m, T), NEW p, NEW begin,
         Row(m, T, p, begin, m.top),
         NEW m2, NEW c2 \in [Node -> Header \cup {NoList}],
         Shrunk(m, T, begin, m2, c2)
  PROVE  Released(m, T, m2, {d \in T : d <= begin}, p)
<1> DEFINE T2 == {d \in T : d <= begin}
           top == m.top
<1> SUFFICES ASSUME Extent(m2), m.brk <= m2.brk, m2.top = begin, m2.tag = m.tag,
                    m2.foot = m.foot, Rings(m2, c2),
                    \A b \in Node : c2[b] = IF begin <= b /\ b < m.top THEN NoList
                                            ELSE Class(m, T)[b],
                    \A b \in Node : Class(m, T)[b] = NoList =>
                      m2.prev[b] = m.prev[b] /\ m2.next[b] = m.next[b]
             PROVE  Released(m, T, m2, {d \in T : d <= begin}, p)
  BY DEF Shrunk
<1>1. /\ m \in Heap /\ Tiling(m, T) /\ Extent(m) /\ Footed(m, T) /\ Marked(m, T)
      /\ top \in Nat /\ top \in T /\ T \subseteq Nat /\ \A c \in T : c <= top
  BY GoodTypes
<1>2. /\ begin \in T \ {top} /\ begin \in Nat /\ begin < top
      /\ p \in Used(m, T) /\ begin <= p /\ p < top
      /\ \A c \in Used(m, T) : c = p \/ c < begin \/ top <= c
  BY DEF Row
<1>3. m2 \in Heap
  BY DEF Extent
<1> HIDE DEF top
<1>4. T2 \subseteq T /\ begin \in T2 /\ top \notin T2
  BY <1>1, <1>2
<1>5. \A d \in T2 : d \in Nat /\ d <= begin
  BY <1>1
<1>6. Retiles(m, T, m2, T2, begin, top)
  <2>1. begin \in T /\ begin \in T2 /\ top \in Nat /\ begin <= top /\ top \in T /\ ~(top < top)
    BY <1>1, <1>2, <1>4
  <2>2. T2 \subseteq 0 .. begin
    <3> HIDE DEF T2
    <3> QED
      BY <1>2, <1>5
  <2>3. \A c \in Nat : c < begin \/ top <= c => (c \in T2 \ {begin} <=> c \in T \ {top})
    BY <1>1, <1>2
  <2>4. \A c \in T2 \ {begin} : ~(begin <= c) /\ c # top
    BY <1>2, <1>4, <1>5
  <2> HIDE DEF T2
  <2> QED
    BY <2>1, <2>2, <2>3, <2>4 DEF Retiles, top
<1> HIDE DEF T2
<1>7. /\ Tiling(m2, T2) /\ Footed(m2, T2) /\ Marked(m2, T2)
      /\ \A b \in Node : Class(m2, T2)[b] =
           IF b >= begin /\ b < top
           THEN IF b \in T2 \ {m2.top} /\ ~m2.tag[b].used
                THEN get_header(m2.tag[b].size) ELSE NoList
           ELSE Class(m, T)[b]
      /\ Used(m2, T2) = {c \in Used(m, T) : c < begin \/ top <= c} \cup
                        {c \in T2 \ {m2.top} : begin <= c /\ c < top /\ m2.tag[c].used}
  BY <1>1, <1>3, <1>6, Retiled
<1>8. \A c \in T2 \ {m2.top} : ~(begin <= c)
  BY <1>2, <1>5
<1>9. Class(m2, T2) = c2
  <2>1. Class(m2, T2) \in [Node -> Header \cup {NoList}]
    BY <1>3, <1>7, ClassTypes
  <2>2. ASSUME NEW b \in Node
        PROVE  Class(m2, T2)[b] = c2[b]
    <3>0. b \in Int
      BY HEADERSAssumption, MAX_HEAPAssumption DEF Node, Header, Unit
    <3>1. CASE b >= begin /\ b < top
      <4>1. b \notin T2 \ {m2.top} /\ begin <= b
        BY <1>2, <1>8, <3>0, <3>1
      <4> QED
        BY <1>7, <3>1, <4>1 DEF top
    <3>2. CASE ~(b >= begin /\ b < top)
      <4>1. ~(begin <= b /\ b < top)
        BY <1>2, <3>0, <3>2
      <4> QED
        BY <1>7, <3>2, <4>1 DEF top
    <3> QED
      BY <3>1, <3>2
  <2> QED
    BY <2>1, <2>2
<1>10. Good(m2, T2)
  BY <1>7, <1>9 DEF Good
<1>11. {c \in Used(m, T) : c < begin \/ top <= c} = Used(m, T) \ {p}
  <2>1. ~(p < begin) /\ ~(top <= p)
    BY <1>1, <1>2 DEF Used
  <2> QED
    BY <1>2, <2>1
<1>12. Used(m2, T2) = Used(m, T) \ {p}
  BY <1>7, <1>8, <1>11
<1>13. Undisturbed(m, m2, Used(m, T) \ {p})
  <2>1. Undisturbed(m, m2, {c \in Used(m, T) : c < begin \/ top <= c})
    BY <1>1, <1>3, <1>6, RetiledUndisturbed
  <2> QED
    BY <1>11, <2>1
<1> QED
  BY <1>4, <1>10, <1>12, <1>13 DEF Released, T2

\* A cleared PUSED bit leads to the chunk before.
LEMMA BeforeIs ==
  ASSUME NEW m, NEW T, Good(m, T), NEW p \in T \ {m.top}, ~m.tag[p].pused
  PROVE  LET b == Before(m, p)
         IN  b \in T \ {m.top} /\ ~m.tag[b].used /\ b + m.tag[b].size = p
<1>1. Footed(m, T) /\ Marked(m, T)
  BY GoodTypes
<1>2. PICK b \in T \ {m.top} : ~m.tag[b].used /\ b + m.tag[b].size = p
  BY <1>1 DEF Marked
<1> DEFINE s == m.tag[b].size
<1>3. b \in Nat /\ s \in Nat \ {0} /\ p \in Nat
  BY <1>2, ChunkFacts
<1>4. m.foot[b + s - 1] = s
  BY <1>1, <1>2 DEF Footed
<1>5. b + s = p
  BY <1>2
<1> HIDE DEF s
<1>6. b + s - 1 = p - 1 /\ p - s = b
  BY <1>3, <1>5
<1>7. Before(m, p) = b
  BY <1>4, <1>6 DEF Before
<1> QED
  BY <1>2, <1>7

\* From begin up to the end of the chunk at p there is that chunk, and before it one
\* that was free and has left its list in m1, if the tag of p tells of it.
Front(m, T, p, begin, size1, m1) ==
  LET after == p + m.tag[p].size
  IN  /\ begin \in T \ {m.top} /\ begin \in Nat /\ begin <= p
      /\ size1 \in Nat \ {0} /\ begin + size1 = after
      /\ begin # p => ~m.tag[begin].used
      /\ \A d \in T : d <= begin \/ d = p \/ after <= d
      /\ m1 \in Heap /\ m1.tag = m.tag /\ m1.foot = m.foot /\ m1.top = m.top
      /\ m1.brk = m.brk /\ Rings(m1, [Class(m, T) EXCEPT ![begin] = NoList])
      /\ \A b \in Node : Class(m, T)[b] = NoList =>
           m1.prev[b] = m.prev[b] /\ m1.next[b] = m.next[b]

\* mm_free begins with that.
LEMMA FreeFront ==
  ASSUME NEW m, NEW T, Good(m, T), NEW p \in Used(m, T)
  PROVE  LET t == m.tag[p]
             begin == IF t.pused THEN p ELSE Before(m, p)
             m1 == IF t.pused THEN m ELSE Unlink(m, begin)
             size1 == IF t.pused THEN t.size ELSE t.size + m.tag[begin].size
         IN  Front(m, T, p, begin, size1, m1)
<1> DEFINE t == m.tag[p]
           s == t.size
           begin == IF t.pused THEN p ELSE Before(m, p)
           m1 == IF t.pused THEN m ELSE Unlink(m, begin)
           size1 == IF t.pused THEN t.size ELSE t.size + m.tag[begin].size
           c0 == Class(m, T)
<1>1. /\ m \in Heap /\ Tiling(m, T) /\ Rings(m, c0) /\ T \subseteq Nat
      /\ c0 \in [Node -> Header \cup {NoList}]
  BY GoodTypes, ClassTypes
<1>2. p \in T \ {m.top} /\ t.used
  BY DEF Used
<1>3. p \in Nat /\ p \in Node /\ s \in Nat \ {0} /\ p \notin Header
  BY <1>2, ChunkFacts
<1>4. \A d \in T : d <= p \/ p + s <= d
  BY <1>1, <1>2, HeapTypes, Apart
<1>5. CASE t.pused
  <2>1. begin = p /\ m1 = m /\ size1 = s
    BY <1>5
  <2>2. c0[p] = NoList
    BY <1>2, <1>3 DEF Class
  <2> HIDE DEF c0
  <2>3. [c0 EXCEPT ![p] = NoList] = c0
    BY <1>1, <1>3, <2>2
  <2> HIDE DEF s
  <2>4. \A d \in T : d <= p \/ d = p \/ p + s <= d
    BY <1>4
  <2> HIDE DEF begin, m1, size1, t
  <2>5. Front(m, T, p, p, s, m)
    <3>1. /\ p + s = p + m.tag[p].size /\ p <= p
      BY <1>3 DEF s, t
    <3>2. Rings(m, [Class(m, T) EXCEPT ![p] = NoList])
      BY <1>1, <2>3 DEF c0
    <3> QED
      BY <1>1, <1>2, <1>3, <2>4, <3>1, <3>2 DEF Front, s, t
  <2>6. Front(m, T, p, begin, size1, m1)
    BY <2>1, <2>5
  <2> QED
    BY <2>6 DEF begin, m1, size1, t
<1>6. CASE ~t.pused
  <2> DEFINE z == m.tag[begin].size
  <2>1. begin = Before(m, p) /\ m1 = Unlink(m, begin) /\ size1 = s + z
    BY <1>6
  <2>2. begin \in T \ {m.top} /\ ~m.tag[begin].used /\ begin + z = p
    BY <1>2, <1>6, <2>1, BeforeIs
  <2> HIDE DEF begin, m1, size1
  <2>3. begin \in Nat /\ begin \in Node /\ begin \notin Header /\ z \in Nat \ {0}
    BY <2>2, ChunkFacts
  <2>4. \A d \in T : d <= begin \/ p <= d
    BY <1>1, <2>2, HeapTypes, Apart
  <2>5. c0[begin] \in Header /\ c0[begin] # begin
    BY <2>2, <2>3, FreeClass
  <2>6. Relinked(m, c0, begin, NoList, m1)
    <3> HIDE DEF c0
    <3> QED
      BY <1>1, <2>1, <2>3, <2>5, UnlinkRings
  <2>7. \A b \in Node : c0[b] = NoList => m1.prev[b] = m.prev[b] /\ m1.next[b] = m.next[b]
    <3> HIDE DEF c0
    <3> QED
      BY <2>5, <2>6, HeaderFacts DEF Relinked
  <2> HIDE DEF z, s, c0
  <2>8. size1 \in Nat \ {0} /\ begin + size1 = p + s /\ begin <= p
    BY <1>3, <2>1, <2>2, <2>3
  <2>9. \A d \in T : d <= begin \/ d = p \/ p + s <= d
    BY <1>1, <1>3, <1>4, <2>3, <2>4
  <2> HIDE DEF t
  <2>10. Front(m, T, p, begin, size1, m1)
    BY <2>2, <2>3, <2>6, <2>7, <2>8, <2>9 DEF Front, Relinked, c0, s, t
  <2> QED
    BY <2>10 DEF begin, m1, size1, t
<1> QED
  BY <1>5, <1>6

\* The row begin .. end - 1 around p is out of all lists in m2, and the tag behind it may
\* have been told so.
Cleared(m, T, p, begin, end, m2) ==
  /\ Row(m, T, p, begin, end)
  /\ m2 \in Heap /\ m2.foot = m.foot /\ m2.top = m.top /\ m2.brk = m.brk
  /\ \A a \in Node : a # end => m2.tag[a] = m.tag[a]
  /\ end # m.top => /\ m2.tag[end] \in Tag /\ m2.tag[end].size = m.tag[end].size
                    /\ m2.tag[end].used = m.tag[end].used
  /\ \E class \in [Node -> Header \cup {NoList}] :
       /\ Rings(m2, class)
       /\ \A b \in Node : class[b] = IF begin <= b /\ b < end THEN NoList
                                     ELSE Class(m, T)[b]
  /\ \A b \in Node : Class(m, T)[b] = NoList =>
       m2.prev[b] = m.prev[b] /\ m2.next[b] = m.next[b]

\* Addresses of the row but its first one, and the start of a free chunk in it, are in no
\* list.
LEMMA FrontNoList ==
  ASSUME NEW m, NEW T, Good(m, T), NEW p \in Used(m, T), NEW begin, NEW size1, NEW m1,
         Front(m, T, p, begin, size1, m1), NEW b \in Node, begin < b, b < begin + size1
  PROVE  Class(m, T)[b] = NoList
<1> DEFINE after == p + m.tag[p].size
<1>1. /\ begin \in Nat /\ begin + size1 = after /\ size1 \in Nat
      /\ \A d \in T : d <= begin \/ d = p \/ after <= d
  BY DEF Front
<1>2. T \subseteq Nat
  BY GoodTypes
<1> HIDE DEF after
<1>3. b \notin Header /\ b \in Int
  BY <1>1, HEADERSAssumption, MAX_HEAPAssumption DEF Header, Node, Unit
<1>4. b \in T => b = p
  BY <1>1, <1>2, <1>3
<1>5. m.tag[p].used
  BY DEF Used
<1> QED
  BY <1>3, <1>4, <1>5 DEF Class

\* mm_free looks at the chunk behind.
LEMMA FreeBack ==
  ASSUME NEW m, NEW T, Good(m, T), NEW p \in Used(m, T), NEW begin, NEW size1, NEW m1,
         Front(m, T, p, begin, size1, m1), p + m.tag[p].size < m.top
  PROVE  LET after == p + m.tag[p].size
             joined == ~m.tag[after].used
             m2 == IF joined THEN Unlink(m1, after) ELSE SetPused(m1, after, FALSE)
             size2 == IF joined THEN size1 + m.tag[after].size ELSE size1
         IN  size2 \in Nat \ {0} /\ Cleared(m, T, p, begin, begin + size2, m2)
<1> DEFINE after == p + m.tag[p].size
           z == m.tag[after].size
           m2 == IF ~m.tag[after].used THEN Unlink(m1, after)
                                       ELSE SetPused(m1, after, FALSE)
           size2 == IF ~m.tag[after].used THEN size1 + z ELSE size1
           c0 == Class(m, T)
           c1 == [c0 EXCEPT ![begin] = NoList]
<1>1. /\ m \in Heap /\ Tiling(m, T) /\ T \subseteq Nat /\ m.top \in Nat /\ m.top \in T
      /\ c0 \in [Node -> Header \cup {NoList}]
  BY GoodTypes, ClassTypes
<1>2. /\ begin \in T \ {m.top} /\ begin \in Nat /\ begin <= p
      /\ size1 \in Nat \ {0} /\ begin + size1 = after
      /\ begin # p => ~m.tag[begin].used
      /\ \A d \in T : d <= begin \/ d = p \/ after <= d
      /\ m1 \in Heap /\ m1.tag = m.tag /\ m1.foot = m.foot /\ m1.top = m.top
      /\ m1.brk = m.brk /\ Rings(m1, c1)
      /\ \A b \in Node : c0[b] = NoList => m1.prev[b] = m.prev[b] /\ m1.next[b] = m.next[b]
  BY DEF Front
<1>3. p \in T \ {m.top} /\ p \in Nat /\ m.tag[p].used /\ after \in T /\ p < after /\ after \in Nat
  <2>1. p \in T \ {m.top} /\ m.tag[p].used
    BY DEF Used
  <2> DEFINE s == m.tag[p].size
  <2>2. p \in Nat /\ s \in Nat \ {0} /\ p + s \in T
    BY <2>1, ChunkFacts
  <2> HIDE DEF s
  <2> QED
    BY <2>1, <2>2 DEF s
<1>4. after < m.top /\ after \in T \ {m.top}
  BY <1>1, <1>3
<1>5. /\ after \in Node /\ after \notin Header /\ z \in Nat \ {0} /\ after + z \in T
      /\ after + z \in Nat /\ m.tag[after] \in Tag
  BY <1>4, ChunkFacts
<1>6. \A d \in T : d <= after \/ after + z <= d
  BY <1>1, <1>4, HeapTypes, Apart
<1>7. \A b \in Node : begin < b /\ b < after => c0[b] = NoList
  BY <1>2, FrontNoList
<1>8. begin \in Node
  BY <1>2, ChunkFacts
<1>9. c1 \in [Node -> Header \cup {NoList}]
  BY <1>1, <1>8
<1>10. \A b \in Node : b \in Int
  BY HEADERSAssumption, MAX_HEAPAssumption DEF Header, Node, Unit
<1>11. Used(m, T) \subseteq T /\ \A c \in Used(m, T) : m.tag[c].used
  BY DEF Used
<1>12. CASE ~m.tag[after].used
  <2> DEFINE end == after + z
             c2 == [c1 EXCEPT ![after] = NoList]
  <2>1. m2 = Unlink(m1, after) /\ size2 = size1 + z
    BY <1>12
  <2>2. c0[after] \in Header
    BY <1>4, <1>12, FreeClass
  <2> HIDE DEF c0, m2, size2, z
  <2>3. c1[after] \in Header /\ c1[after] # after
    BY <1>2, <1>3, <1>5, <1>1, <2>2
  <2>4. Relinked(m1, c1, after, NoList, m2)
    <3> HIDE DEF c1
    <3> QED
      BY <1>2, <1>5, <1>9, <2>1, <2>3, UnlinkRings
  <2>5. /\ m2 \in Heap /\ m2.tag = m.tag /\ m2.foot = m.foot /\ m2.top = m.top
        /\ m2.brk = m.brk /\ Rings(m2, c2)
        /\ \A b \in Node \ {after} : c1[b] = NoList =>
             m2.prev[b] = m1.prev[b] /\ m2.next[b] = m1.next[b]
    BY <1>2, <2>4 DEF Relinked
  <2>6. \A b \in Node : c0[b] = NoList => m2.prev[b] = m.prev[b] /\ m2.next[b] = m.next[b]
    <3> SUFFICES ASSUME NEW b \in Node, c0[b] = NoList
                 PROVE  m2.prev[b] = m.prev[b] /\ m2.next[b] = m.next[b]
      OBVIOUS
    <3>1. b # after
      BY <2>2, HeaderFacts
    <3>2. c1[b] = NoList
      BY <1>1, <1>9
    <3> QED
      BY <1>2, <2>5, <3>1, <3>2
  <2>7. size2 \in Nat \ {0} /\ begin + size2 = end
    <3> HIDE DEF after
    <3> QED
      BY <1>2, <1>3, <1>5, <2>1
  <2>8. \A b \in Node : begin < b /\ b < end /\ b # after => c0[b] = NoList
    <3> SUFFICES ASSUME NEW b \in Node, begin < b, b < end, b # after
                 PROVE  c0[b] = NoList
      OBVIOUS
    <3> HIDE DEF after
    <3>1. b \in Nat
      BY <1>2, <1>10
    <3>2. CASE b < after
      BY <1>7, <3>2
    <3>3. CASE ~(b < after)
      <4>1. after < b
        BY <1>3, <3>1, <3>3
      <4> QED
        BY <1>1, <1>4, <3>1, <4>1, InnerNoList DEF c0, z
    <3> QED
      BY <3>2, <3>3
  <2>9. begin <= begin /\ begin < end /\ begin <= after /\ after < end /\ p < end
    <3> HIDE DEF after
    <3> QED
      BY <1>2, <1>3, <1>5
  <2>10. c2 \in [Node -> Header \cup {NoList}]
         /\ \A b \in Node : c2[b] = IF begin <= b /\ b < end THEN NoList ELSE c0[b]
    <3>1. c2 \in [Node -> Header \cup {NoList}]
      BY <1>5, <1>9
    <3> SUFFICES ASSUME NEW b \in Node
                 PROVE  c2[b] = IF begin <= b /\ b < end THEN NoList ELSE c0[b]
      BY <3>1
    <3> HIDE DEF end, after
    <3>2. CASE b = begin
      BY <1>1, <1>8, <1>9, <2>9, <3>2
    <3>3. CASE b = after
      BY <1>5, <1>9, <2>9, <3>3
    <3>4. CASE b # begin /\ b # after
      <4>1. c2[b] = c0[b]
        BY <1>1, <1>9, <3>4
      <4>2. begin <= b /\ b < end => begin < b
        BY <1>2, <1>10, <3>4
      <4> QED
        BY <2>8, <3>4, <4>1, <4>2
    <3> QED
      BY <3>2, <3>3, <3>4
  <2>11. Row(m, T, p, begin, end)
    <3>1. \A c \in Used(m, T) : c = p \/ c < begin \/ end <= c
      <4> SUFFICES ASSUME NEW c \in Used(m, T), c # p
                   PROVE  c < begin \/ end <= c
        OBVIOUS
      <4>1. c \in T /\ c \in Nat /\ m.tag[c].used
        BY <1>1, <1>11
      <4>2. c # begin /\ c # after
        BY <1>2, <1>12, <4>1
      <4> HIDE DEF after
      <4> QED
        BY <1>2, <1>3, <1>5, <1>6, <4>1, <4>2
    <3> HIDE DEF after
    <3> QED
      BY <1>2, <1>5, <2>9, <3>1 DEF Row
  <2>12. end # m.top => m2.tag[end] \in Tag
    BY <1>1, <1>5, <2>5 DEF Tiling
  <2> HIDE DEF after, c2, end
  <2>13. Cleared(m, T, p, begin, end, m2)
    BY <2>5, <2>6, <2>10, <2>11, <2>12 DEF Cleared, c0
  <2> QED
    BY <2>7, <2>13 DEF m2, size2, after, end, z
<1>13. CASE m.tag[after].used
  <2> DEFINE no == FALSE
  <2>1. m2 = SetPused(m1, after, no) /\ size2 = size1 /\ begin + size2 = after
    BY <1>2, <1>13
  <2>2. no \in BOOLEAN
    OBVIOUS
  <2> HIDE DEF no, m2, size2, after, c0
  <2>3. /\ m2 \in Heap /\ m2.prev = m1.prev /\ m2.next = m1.next /\ m2.foot = m1.foot
        /\ m2.top = m1.top /\ m2.brk = m1.brk
        /\ m1.tag[after] \in Tag =>
             /\ m2.tag[after] \in Tag /\ m2.tag[after].size = m1.tag[after].size
             /\ m2.tag[after].used = m1.tag[after].used
        /\ \A b \in Node : b # after => m2.tag[b] = m1.tag[b]
    <3>1. m1 \in Heap /\ after \in Node
      BY <1>2, <1>5
    <3> QED
      BY <2>1, <2>2, <3>1, SetPusedIs
  <2>4. Rings(m2, c1)
    BY <1>2, <2>3, RingsFrame
  <2>5. \A b \in Node : c1[b] = IF begin <= b /\ b < after THEN NoList ELSE c0[b]
    <3> SUFFICES ASSUME NEW b \in Node
                 PROVE  c1[b] = IF begin <= b /\ b < after THEN NoList ELSE c0[b]
      OBVIOUS
    <3>1. CASE b = begin
      BY <1>1, <1>2, <1>3, <3>1
    <3>2. CASE b # begin
      <4>1. begin <= b /\ b < after => begin < b
        BY <1>2, <1>10, <3>2
      <4> QED
        BY <1>1, <1>7, <3>2, <4>1
    <3> QED
      BY <3>1, <3>2
  <2>6. Row(m, T, p, begin, after)
    <3>1. \A c \in Used(m, T) : c = p \/ c < begin \/ after <= c
      <4> SUFFICES ASSUME NEW c \in Used(m, T), c # p
                   PROVE  c < begin \/ after <= c
        OBVIOUS
      <4>1. c \in T /\ c \in Nat /\ m.tag[c].used
        BY <1>1, <1>11
      <4>2. c # begin
        BY <1>2, <4>1
      <4> QED
        BY <1>2, <1>3, <4>1, <4>2
    <3> QED
      BY <1>2, <1>3, <3>1 DEF Row
  <2>7. \A b \in Node : c0[b] = NoList => m2.prev[b] = m.prev[b] /\ m2.next[b] = m.next[b]
    BY <1>2, <2>3
  <2>8. Cleared(m, T, p, begin, after, m2)
    <3>1. /\ m2 \in Heap /\ m2.foot = m.foot /\ m2.top = m.top /\ m2.brk = m.brk
          /\ \A a \in Node : a # after => m2.tag[a] = m.tag[a]
          /\ m2.tag[after] \in Tag /\ m2.tag[after].size = m.tag[after].size
          /\ m2.tag[after].used = m.tag[after].used
      BY <1>2, <1>5, <2>3
    <3> HIDE DEF c1
    <3> QED
      BY <1>9, <2>4, <2>5, <2>6, <2>7, <3>1 DEF Cleared, c0
  <2> QED
    BY <1>2, <2>1, <2>8 DEF m2, size2, after, z
<1> QED
  BY <1>12, <1>13

\* mm_free of a chunk in use.
LEMMA FreeReleases ==
  ASSUME NEW m, NEW T, T \in SUBSET Unit, Good(m, T), NEW p \in Used(m, T)
  PROVE  \E T2 : Released(m, T, mm_free(m, p), T2, p)
<1> DEFINE t == m.tag[p]
           begin == IF t.pused THEN p ELSE Before(m, p)
           m1 == IF t.pused THEN m ELSE Unlink(m, begin)
           size1 == IF t.pused THEN t.size ELSE t.size + m.tag[begin].size
           after == p + t.size
           joined == after < m.top /\ ~m.tag[after].used
           m2 == IF joined THEN Unlink(m1, after) ELSE SetPused(m1, after, FALSE)
           size2 == IF joined THEN size1 + m.tag[after].size ELSE size1
           no == FALSE
           pused == m.tag[begin].pused
           m3 == SetTag(m2, begin, size2, no, pused)
           f == begin + size2 - 1
           m4 == [m3 EXCEPT !.foot[f] = size2]
           i == Insert(m4, begin, size2)
           c0 == Class(m, T)
<1>1. mm_free(m, p) = IF after >= m.top THEN mm_sbrk(m1, -size1) ELSE i
  BY DEF mm_free
<1>2. Front(m, T, p, begin, size1, m1)
  BY FreeFront
<1>3. after < m.top => size2 \in Nat \ {0} /\ Cleared(m, T, p, begin, begin + size2, m2)
  <2> SUFFICES ASSUME after < m.top
               PROVE  size2 \in Nat \ {0} /\ Cleared(m, T, p, begin, begin + size2, m2)
    OBVIOUS
  <2> DEFINE back == ~m.tag[after].used
             n2 == IF back THEN Unlink(m1, after) ELSE SetPused(m1, after, FALSE)
             s2 == IF back THEN size1 + m.tag[after].size ELSE size1
  <2>1. m2 = n2 /\ size2 = s2
    OBVIOUS
  <2> HIDE DEF begin, m1, size1, m2, size2
  <2>2. s2 \in Nat \ {0} /\ Cleared(m, T, p, begin, begin + s2, n2)
    BY <1>2, FreeBack
  <2> HIDE DEF n2, s2
  <2> QED
    BY <2>1, <2>2
<1>4. /\ m \in Heap /\ Tiling(m, T) /\ Extent(m) /\ Rings(m, c0) /\ T \subseteq Nat
      /\ m.top \in Nat /\ m.top <= MAX_HEAP /\ m.brk \in Nat /\ MAX_HEAP \in Nat
      /\ c0 \in [Node -> Header \cup {NoList}] /\ \A c \in T : c <= m.top
  BY GoodTypes, ClassTypes
<1>5. no \in BOOLEAN
  OBVIOUS
<1>6. no = FALSE
  OBVIOUS
<1> HIDE DEF m1, size1, begin, m2, size2, no
<1>7. /\ p \in T \ {m.top} /\ p \in Nat /\ after \in T /\ after \in Nat /\ p < after
      /\ after <= m.top
  <2>1. p \in T \ {m.top}
    BY DEF Used
  <2> DEFINE s == m.tag[p].size
  <2>2. p \in Nat /\ s \in Nat \ {0} /\ p + s \in T /\ p + s <= m.top
    BY <2>1, ChunkFacts
  <2> HIDE DEF s
  <2> QED
    BY <2>1, <2>2 DEF s
<1>8. /\ begin \in T \ {m.top} /\ begin \in Nat /\ begin <= p
      /\ size1 \in Nat \ {0} /\ begin + size1 = after
      /\ begin # p => ~m.tag[begin].used
      /\ \A d \in T : d <= begin \/ d = p \/ after <= d
      /\ m1 \in Heap /\ m1.tag = m.tag /\ m1.foot = m.foot /\ m1.top = m.top
      /\ m1.brk = m.brk /\ Rings(m1, [c0 EXCEPT ![begin] = NoList])
      /\ \A b \in Node : c0[b] = NoList => m1.prev[b] = m.prev[b] /\ m1.next[b] = m.next[b]
  BY <1>2 DEF Front
<1>9. begin \in Node /\ begin \in Unit /\ m.tag[begin] \in Tag
  BY <1>8, ChunkFacts
<1>10. CASE after >= m.top
  <2> DEFINE top == m.top
             c1 == [c0 EXCEPT ![begin] = NoList]
             u == mm_sbrk(m1, -size1)
  <2>1. after = top
    BY <1>4, <1>7, <1>10
  <2>2. Extent(m1)
    BY <1>4, <1>8 DEF Extent
  <2>3. -size1 \in Int /\ m1.top + (-size1) = begin /\ begin <= MAX_HEAP
    <3> HIDE DEF after
    <3> QED
      BY <1>4, <1>7, <1>8, <2>1
  <2>4. /\ Extent(u) /\ u.prev = m1.prev /\ u.next = m1.next /\ u.tag = m1.tag
        /\ u.foot = m1.foot /\ u.top = begin /\ m1.brk <= u.brk
    BY <1>8, <2>2, <2>3, SbrkIs
  <2> HIDE DEF u, after, c0
  <2>5. Row(m, T, p, begin, m.top)
    <3>1. \A c \in Used(m, T) : c = p \/ c < begin \/ m.top <= c
      <4> SUFFICES ASSUME NEW c \in Used(m, T), c # p
                   PROVE  c < begin \/ m.top <= c
        OBVIOUS
      <4>1. c \in T /\ m.tag[c].used
        BY DEF Used
      <4>2. c # begin /\ c \in Nat
        BY <1>4, <1>8, <4>1
      <4> QED
        BY <1>4, <1>8, <2>1, <4>1, <4>2
    <3> QED
      BY <1>4, <1>7, <1>8, <2>1, <3>1 DEF Row
  <2>6. \A b \in Node : c1[b] = IF begin <= b /\ b < m.top THEN NoList ELSE c0[b]
    <3> SUFFICES ASSUME NEW b \in Node
                 PROVE  c1[b] = IF begin <= b /\ b < m.top THEN NoList ELSE c0[b]
      OBVIOUS
    <3>1. CASE b = begin
      BY <1>4, <1>7, <1>8, <2>1, <3>1
    <3>2. CASE b # begin
      <4>1. b \in Int
        BY HEADERSAssumption, MAX_HEAPAssumption DEF Header, Node, Unit
      <4>2. begin <= b /\ b < m.top => begin < b /\ b < begin + size1
        BY <1>8, <2>1, <3>2, <4>1
      <4>3. begin <= b /\ b < m.top => c0[b] = NoList
        BY <1>2, <4>2, FrontNoList DEF c0
      <4> QED
        BY <1>4, <3>2, <4>3
    <3> QED
      BY <3>1, <3>2
  <2>7. c1 \in [Node -> Header \cup {NoList}] /\ Rings(u, c1)
    <3>1. c1 \in [Node -> Header \cup {NoList}] /\ Rings(m1, c1)
      BY <1>4, <1>8
    <3> HIDE DEF c1
    <3> QED
      BY <2>4, <3>1, RingsFrame
  <2>8. Released(m, T, u, {d \in T : d <= begin}, p)
    <3>1. /\ Extent(u) /\ m.brk <= u.brk /\ u.top = begin /\ u.tag = m.tag /\ u.foot = m.foot
          /\ \A b \in Node : Class(m, T)[b] = NoList =>
               u.prev[b] = m.prev[b] /\ u.next[b] = m.next[b]
      BY <1>8, <2>4 DEF c0
    <3>2. \A b \in Node : c1[b] = IF begin <= b /\ b < m.top THEN NoList
                                  ELSE Class(m, T)[b]
      BY <2>6 DEF c0
    <3> HIDE DEF c1, top
    <3>3. Shrunk(m, T, begin, u, c1)
      BY <2>7, <3>1, <3>2 DEF Shrunk
    <3> QED
      BY <2>5, <2>7, <3>3, ShrunkReleases
  <2> QED
    BY <1>1, <1>10, <2>8 DEF u
<1>11. CASE ~(after >= m.top)
  <2> DEFINE end == begin + size2
  <2>1. after < m.top
    BY <1>4, <1>7, <1>11
  <2>2. size2 \in Nat \ {0} /\ Cleared(m, T, p, begin, end, m2)
    BY <1>3, <2>1
  <2>3. mm_free(m, p) = i
    BY <1>1, <1>11
  <2> HIDE DEF c0, after, joined
  <2>4. /\ Row(m, T, p, begin, end)
        /\ m2 \in Heap /\ m2.foot = m.foot /\ m2.top = m.top /\ m2.brk = m.brk
        /\ \A a \in Node : a # end => m2.tag[a] = m.tag[a]
        /\ end # m.top => /\ m2.tag[end] \in Tag /\ m2.tag[end].size = m.tag[end].size
                          /\ m2.tag[end].used = m.tag[end].used
        /\ \A b \in Node : c0[b] = NoList =>
             m2.prev[b] = m.prev[b] /\ m2.next[b] = m.next[b]
    <3> HIDE DEF end
    <3> QED
      BY <2>2 DEF Cleared, c0
  <2>5. PICK class \in [Node -> Header \cup {NoList}] :
          /\ Rings(m2, class)
          /\ \A b \in Node : class[b] = IF begin <= b /\ b < end THEN NoList ELSE c0[b]
    <3> HIDE DEF end
    <3> QED
      BY <2>2 DEF Cleared, c0
  <2>6. /\ end \in T /\ end \in Nat /\ begin < end /\ end <= m.top
        /\ f = end - 1 /\ f \in Unit /\ size2 \in Unit /\ size2 = end - begin
        /\ end # begin
    <3> DEFINE top == m.top
    <3>1. end \in T /\ top \in Nat /\ top <= MAX_HEAP /\ end <= top
      BY <1>4, <2>4 DEF Row
    <3> HIDE DEF top
    <3>2. /\ end \in Nat /\ begin < end /\ f = end - 1 /\ f \in Unit /\ size2 \in Unit
          /\ size2 = end - begin /\ end # begin
      BY <1>4, <1>8, <2>2, <3>1 DEF Unit
    <3> QED
      BY <3>1, <3>2 DEF top
  <2> DEFINE c2 == [class EXCEPT ![begin] = get_header(size2)]
  <2>7. pused \in BOOLEAN
    BY <1>9 DEF Tag
  <2> HIDE DEF f, end, pused
  <2>8. /\ m3 \in Heap /\ m3.prev = m2.prev /\ m3.next = m2.next /\ m3.foot = m2.foot
        /\ m3.top = m2.top /\ m3.brk = m2.brk
        /\ m3.tag[begin] \in Tag /\ m3.tag[begin].size = size2
        /\ m3.tag[begin].used = no /\ m3.tag[begin].pused = pused
        /\ \A b \in Node : b # begin => m3.tag[b] = m2.tag[b]
    <3>1. m2 \in Heap /\ begin \in Node /\ size2 \in Unit
      BY <1>9, <2>4, <2>6
    <3> QED
      BY <1>5, <2>7, <3>1, SetTagIs
  <2> HIDE DEF m3
  <2>9. /\ m4 \in Heap /\ m4.prev = m3.prev /\ m4.next = m3.next /\ m4.tag = m3.tag
        /\ m4.top = m3.top /\ m4.brk = m3.brk /\ m4.foot[f] = size2
        /\ \A b \in Unit : b # f => m4.foot[b] = m3.foot[b]
    <3>1. m3 \in Heap /\ f \in Unit /\ size2 \in Unit
      BY <2>6, <2>8
    <3> QED
      BY <3>1, SetFootIs
  <2> HIDE DEF m4
  <2>10. Rings(m4, class) /\ class[begin] = NoList
    <3>1. begin <= begin /\ begin < end
      BY <1>8, <2>6
    <3> QED
      BY <1>9, <2>5, <2>8, <2>9, <3>1, RingsFrame
  <2>11. /\ i \in Heap /\ i.tag = m4.tag /\ i.foot = m4.foot /\ i.top = m4.top
         /\ i.brk = m4.brk /\ Rings(i, c2)
         /\ \A b \in Node \ {begin} : class[b] = NoList =>
              i.prev[b] = m4.prev[b] /\ i.next[b] = m4.next[b]
    <3>1. Relinked(m4, class, begin, get_header(size2), i)
      <4>1. m4 \in Heap /\ begin \in Node /\ size2 \in Nat /\ Rings(m4, class)
            /\ class[begin] = NoList /\ class \in [Node -> Header \cup {NoList}]
        BY <1>9, <2>2, <2>5, <2>9, <2>10
      <4> QED
        BY <4>1, InsertRings
    <3> QED
      BY <3>1 DEF Relinked
  <2> HIDE DEF i
  <2>12. Extent(i) /\ m.brk <= i.brk /\ i.top = m.top
    BY <1>4, <2>4, <2>8, <2>9, <2>11 DEF Extent
  <2>13. /\ i.tag[begin] \in Tag /\ i.tag[begin].size = end - begin
         /\ ~i.tag[begin].used
    <3>1. i.tag = m3.tag /\ ~no
      BY <1>6, <2>9, <2>11
    <3> QED
      BY <2>6, <2>8, <3>1
  <2>14. i.tag[begin].pused = m.tag[begin].pused
    BY <2>8, <2>9, <2>11 DEF pused
  <2>15. end # m.top => /\ i.tag[end] \in Tag /\ i.tag[end].size = m.tag[end].size
                        /\ i.tag[end].used = m.tag[end].used
    <3>1. end \in Node
      BY <1>4, <2>6, HeaderFacts, MAX_HEAPAssumption DEF Unit
    <3>2. i.tag[end] = m2.tag[end]
      BY <2>6, <2>8, <2>9, <2>11, <3>1
    <3> QED
      BY <2>4, <3>2
  <2>16. \A a \in Node : a # begin /\ a # end => i.tag[a] = m.tag[a]
    BY <2>4, <2>8, <2>9, <2>11
  <2>17. i.foot[end - 1] = end - begin /\ \A a \in Unit : a # end - 1 => i.foot[a] = m.foot[a]
    BY <2>4, <2>6, <2>8, <2>9, <2>11
  <2>18. c2 \in [Node -> Header \cup {NoList}]
         /\ \A b \in Node : c2[b] = IF b = begin THEN get_header(end - begin)
                                    ELSE IF begin < b /\ b < end THEN NoList
                                    ELSE c0[b]
    <3>1. c2 \in [Node -> Header \cup {NoList}]
      <4>1. get_header(size2) \in Header
        BY <2>2, HeaderFacts
      <4> QED
        BY <4>1
    <3> SUFFICES ASSUME NEW b \in Node
                 PROVE  c2[b] = IF b = begin THEN get_header(end - begin)
                                ELSE IF begin < b /\ b < end THEN NoList
                                ELSE c0[b]
      BY <3>1
    <3>2. CASE b = begin
      BY <1>9, <2>5, <2>6, <3>2
    <3>3. CASE b # begin
      <4>1. b \in Int
        BY HEADERSAssumption, MAX_HEAPAssumption DEF Header, Node, Unit
      <4>2. begin <= b <=> begin < b
        BY <1>8, <3>3, <4>1
      <4>3. c2[b] = class[b]
        BY <3>3
      <4> QED
        BY <2>5, <3>3, <4>2, <4>3
    <3> QED
      BY <3>2, <3>3
  <2>19. \A b \in Node : (b < begin \/ end <= b) /\ c0[b] = NoList =>
           i.prev[b] = m.prev[b] /\ i.next[b] = m.next[b]
    <3> SUFFICES ASSUME NEW b \in Node, b < begin \/ end <= b, c0[b] = NoList
                 PROVE  i.prev[b] = m.prev[b] /\ i.next[b] = m.next[b]
      OBVIOUS
    <3>1. b # begin
      BY <1>8, <2>6
    <3>2. class[b] = NoList
      BY <2>5
    <3> QED
      BY <2>4, <2>8, <2>9, <2>11, <3>1, <3>2
  <2>20. Released(m, T, i, {d \in T : d <= begin \/ end <= d}, p)
    <3> HIDE DEF c2
    <3> QED
      BY <2>4, <2>11, <2>12, <2>13, <2>14, <2>15, <2>16, <2>17, <2>18, <2>19,
         MergedReleases DEF c0
  <2> QED
    BY <2>3, <2>20
<1> QED
  BY <1>10, <1>11

-----------------------------------------------------------------------------
(***************************************************************************)
(* The words of a block.                                                   *)
(***************************************************************************)

\* The heaps m and m2 differ in n units of payload at p at most.
Rewritten(m, m2, p, n) ==
  /\ m2 \in Heap /\ m2.top = m.top /\ m2.brk = m.brk
  /\ \A a \in Node : a \notin p + 1 .. p + n - 1 => m2.tag[a] = m.tag[a]
  /\ \A a \in Node : a \notin p .. p + n - 1 =>
       m2.prev[a] = m.prev[a] /\ m2.next[a] = m.next[a]
  /\ \A a \in Unit : a \notin p .. p + n - 1 => m2.foot[a] = m.foot[a]

\* What is written in a chunk in use changes neither the chunks nor the lists.
LEMMA RewrittenIsGood ==
  ASSUME NEW m, NEW T, Good(m, T), NEW p \in Used(m, T), NEW n \in Nat,
         n <= m.tag[p].size, NEW m2, Rewritten(m, m2, p, n)
  PROVE  /\ Good(m2, T) /\ Used(m2, T) = Used(m, T)
         /\ Undisturbed(m, m2, Used(m, T) \ {p}) /\ m2.tag[p] = m.tag[p]
<1> DEFINE s == m.tag[p].size
           top == m.top
           c0 == Class(m, T)
<1>1. /\ m \in Heap /\ Tiling(m, T) /\ Extent(m) /\ Footed(m, T) /\ Marked(m, T)
      /\ Rings(m, c0) /\ top \in Nat /\ T \subseteq Nat
  BY GoodTypes
<1>2. p \in T \ {top} /\ m.tag[p].used
  BY DEF Used
<1>3. p \in Nat /\ s \in Nat \ {0} /\ p + s \in T
  BY <1>2, ChunkFacts
<1>4. \A d \in T : d <= p \/ p + s <= d
  BY <1>1, <1>2, Apart
<1>5. n <= s
  OBVIOUS
<1>6. /\ m2 \in Heap /\ m2.top = top /\ m2.brk = m.brk
      /\ \A a \in Node : a \notin p + 1 .. p + n - 1 => m2.tag[a] = m.tag[a]
      /\ \A a \in Node : a \notin p .. p + n - 1 =>
           m2.prev[a] = m.prev[a] /\ m2.next[a] = m.next[a]
      /\ \A a \in Unit : a \notin p .. p + n - 1 => m2.foot[a] = m.foot[a]
  BY DEF Rewritten
<1> HIDE DEF s
<1>7. \A d \in T : m2.tag[d] = m.tag[d]
  <2> SUFFICES ASSUME NEW d \in T PROVE m2.tag[d] = m.tag[d]
    OBVIOUS
  <2>1. d \in Nat /\ (d <= p \/ p + s <= d)
    BY <1>1, <1>4
  <2>2. d \notin p + 1 .. p + n - 1
    BY <1>3, <1>5, <2>1
  <2>3. d \in Node
    BY GoodTypes, ChunkFacts
  <2> QED
    BY <1>6, <2>2, <2>3
<1>8. ASSUME NEW c \in T \ {top}, c # p, NEW a \in c .. c + m.tag[c].size - 1
      PROVE  a \in Unit /\ a \in Node /\ a \notin p .. p + n - 1
  <2> DEFINE s2 == m.tag[c].size
  <2>1. /\ c \in Nat /\ s2 \in Nat /\ c + s2 - 1 \in Unit /\ a \in c .. c + s2 - 1
    BY <1>8, ChunkFacts
  <2>2. p <= c \/ c + s2 <= p
    BY <1>1, <1>2, <1>8, Apart
  <2>3. c <= p \/ p + s <= c
    BY <1>4
  <2> HIDE DEF s2, top
  <2>4. a \in Unit
    BY <2>1, MAX_HEAPAssumption DEF Unit
  <2>5. a \notin p .. p + n - 1
    BY <1>3, <1>5, <1>8, <2>1, <2>2, <2>3
  <2> QED
    BY <2>4, <2>5, HeaderFacts
<1>9. Class(m2, T) = c0
  <2>1. ASSUME NEW b \in Node PROVE Class(m2, T)[b] = c0[b]
    BY <1>6, <1>7 DEF Class
  <2> QED
    BY <2>1 DEF Class
<1>10. Rings(m2, c0)
  <2> SUFFICES ASSUME NEW h \in Header
               PROVE  Ring(m2.prev, m2.next, Members(c0, h), h)
    BY DEF Rings
  <2>1. Ring(m.prev, m.next, Members(c0, h), h)
    BY <1>1 DEF Rings
  <2>2. ASSUME NEW a \in Members(c0, h)
        PROVE  m2.prev[a] = m.prev[a] /\ m2.next[a] = m.next[a]
    <3>1. a \in Node /\ c0[a] = h /\ c0[a] # NoList
      BY HeaderFacts DEF Members
    <3>2. a \notin p .. p + n - 1
      <4> SUFFICES ASSUME a \in p .. p + n - 1 PROVE FALSE
        OBVIOUS
      <4>1. a \in p .. p + s - 1
        BY <1>3, <1>5
      <4>2. c0[a] = NoList
        BY <1>1, <4>1, UsedNoList DEF s
      <4> QED
        BY <3>1, <4>2
    <3> QED
      BY <1>6, <3>1, <3>2
  <2> HIDE DEF c0
  <2> QED
    BY <2>1, <2>2, RingFrame
<1>11. Tiling(m2, T)
  BY <1>1, <1>6, <1>7 DEF Tiling
<1>12. Footed(m2, T)
  <2> SUFFICES ASSUME NEW c \in T \ {top}, ~m.tag[c].used
               PROVE  m2.foot[c + m.tag[c].size - 1] = m.tag[c].size
    BY <1>6, <1>7 DEF Footed
  <2> DEFINE s2 == m.tag[c].size
             a == c + s2 - 1
  <2>1. m.foot[a] = s2
    BY <1>1 DEF Footed
  <2>2. c \in Nat /\ s2 \in Nat \ {0}
    BY ChunkFacts
  <2> HIDE DEF s2
  <2>3. a \in c .. c + s2 - 1
    BY <2>2
  <2> HIDE DEF a, top
  <2>4. a \in Unit /\ a \notin p .. p + n - 1
    BY <1>2, <1>8, <2>3 DEF s2
  <2> QED
    BY <1>6, <2>1, <2>4 DEF a, s2
<1>13. Marked(m2, T)
  BY <1>1, <1>6, <1>7 DEF Marked
<1>14. Good(m2, T)
  <2>1. Extent(m2)
    BY <1>1, <1>6 DEF Extent
  <2> QED
    BY <1>9, <1>10, <1>11, <1>12, <1>13, <2>1 DEF Good
<1>15. Used(m2, T) = Used(m, T)
  BY <1>6, <1>7 DEF Used
<1>16. Undisturbed(m, m2, Used(m, T) \ {p})
  <2> SUFFICES ASSUME NEW c \in Used(m, T), c # p
               PROVE  m2.tag[c].size = m.tag[c].size /\ SameWords(m, m2, c)
    BY DEF Undisturbed
  <2>1. c \in T \ {top}
    BY DEF Used
  <2> DEFINE s2 == m.tag[c].size
  <2>2. \A a \in c .. c + s2 - 1 : a \in Unit /\ a \in Node /\ a \notin p .. p + n - 1
    BY <1>8, <2>1
  <2>3. \A a \in c + 1 .. c + s2 - 1 :
          a \in c .. c + s2 - 1 /\ a \notin p + 1 .. p + n - 1
    <3>1. c \in Nat /\ s2 \in Nat
      BY <2>1, ChunkFacts
    <3> HIDE DEF s2
    <3>2. \A a \in c + 1 .. c + s2 - 1 : a \in c .. c + s2 - 1
      BY <3>1
    <3>3. \A a \in Nat : a \notin p .. p + n - 1 => a \notin p + 1 .. p + n - 1
      BY <1>3
    <3> QED
      BY <2>2, <3>2, <3>3, HeaderFacts
  <2>4. m2.tag[c].size = m.tag[c].size
    BY <1>7, <2>1
  <2> QED
    BY <1>6, <2>2, <2>3, <2>4 DEF SameWords
<1> QED
  BY <1>2, <1>7, <1>14, <1>15, <1>16

\* Write fills a block with the client's word.
LEMMA WriteIs ==
  ASSUME NEW m, m \in Heap, NEW p \in Nat, NEW n \in Nat, NEW word \in Data
  PROVE  /\ Rewritten(m, Write(m, p, n, word), p, n)
         /\ p + n - 1 \in Unit => Holds(Write(m, p, n, word), p, n, word)
<1> DEFINE u == Write(m, p, n, word)
           tag2 == [a \in Node |-> IF a \in p + 1 .. p + n - 1 THEN word ELSE m.tag[a]]
           prev2 == [a \in Node |-> IF a \in p .. p + n - 1 THEN word ELSE m.prev[a]]
           next2 == [a \in Node |-> IF a \in p .. p + n - 1 THEN word ELSE m.next[a]]
           foot2 == [a \in Unit |-> IF a \in p .. p + n - 1 THEN word ELSE m.foot[a]]
<1>1. u = [m EXCEPT !.tag = tag2, !.prev = prev2, !.next = next2, !.foot = foot2]
  BY DEF Write, Heap
<1>2. /\ tag2 \in [Node -> Tag \cup Data] /\ prev2 \in [Node -> Node \cup Data]
      /\ next2 \in [Node -> Node \cup Data] /\ foot2 \in [Unit -> Unit \cup Data]
  BY HeapTypes
<1> HIDE DEF u
<1>3. /\ u \in Heap /\ u.tag = tag2 /\ u.prev = prev2 /\ u.next = next2 /\ u.foot = foot2
      /\ u.top = m.top /\ u.brk = m.brk
  <2> HIDE DEF tag2, prev2, next2, foot2
  <2> QED
    BY <1>1, <1>2 DEF Heap
<1>4. Rewritten(m, u, p, n)
  BY <1>3 DEF Rewritten
<1>5. ASSUME p + n - 1 \in Unit
      PROVE  Holds(u, p, n, word)
  <2>1. p .. p + n - 1 \subseteq Unit /\ p + 1 .. p + n - 1 \subseteq p .. p + n - 1
    BY <1>5, MAX_HEAPAssumption DEF Unit
  <2>2. \A a \in p .. p + n - 1 : u.prev[a] = word /\ u.next[a] = word /\ u.foot[a] = word
    BY <1>3, <2>1, HeaderFacts
  <2>3. \A a \in p + 1 .. p + n - 1 : u.tag[a] = word
    BY <1>3, <2>1, HeaderFacts
  <2> QED
    BY <2>2, <2>3 DEF Holds
<1> QED
  BY <1>4, <1>5 DEF u

\* Copied writes n units at q, and nothing but what is in the heap.
LEMMA CopiedIs ==
  ASSUME NEW m, m \in Heap, NEW p \in Nat, NEW q \in Nat, NEW n \in Nat
  PROVE  Rewritten(m, Copied(m, p, q, n), q, n)
<1> DEFINE from(a) == IF a - q + p \in Unit THEN a - q + p ELSE a
           u == Copied(m, p, q, n)
           tag2 == [a \in Node |-> IF a \in q + 1 .. q + n - 1 THEN m.tag[from(a)]
                                   ELSE m.tag[a]]
           prev2 == [a \in Node |-> IF a \in q .. q + n - 1 THEN m.prev[from(a)]
                                    ELSE m.prev[a]]
           next2 == [a \in Node |-> IF a \in q .. q + n - 1 THEN m.next[from(a)]
                                    ELSE m.next[a]]
           foot2 == [a \in Unit |-> IF a \in q .. q + n - 1 THEN m.foot[from(a)]
                                    ELSE m.foot[a]]
<1>1. u = [m EXCEPT !.tag = tag2, !.prev = prev2, !.next = next2, !.foot = foot2]
  BY DEF Copied, Heap
<1>2. /\ \A a \in Node : from(a) \in Node
      /\ \A a \in Unit : from(a) \in Unit
  BY HeaderFacts
<1>3. /\ tag2 \in [Node -> Tag \cup Data] /\ prev2 \in [Node -> Node \cup Data]
      /\ next2 \in [Node -> Node \cup Data] /\ foot2 \in [Unit -> Unit \cup Data]
  <2> HIDE DEF from
  <2> QED
    BY <1>2, HeapTypes
<1> HIDE DEF u, from
<1>4. /\ u \in Heap /\ u.tag = tag2 /\ u.prev = prev2 /\ u.next = next2 /\ u.foot = foot2
      /\ u.top = m.top /\ u.brk = m.brk
  <2> HIDE DEF tag2, prev2, next2, foot2
  <2> QED
    BY <1>1, <1>3 DEF Heap
<1>5. Rewritten(m, u, q, n)
  BY <1>4 DEF Rewritten
<1> QED
  BY <1>5 DEF u

\* What is held at p is held at q after it has been copied there.
LEMMA CopiedHolds ==
  ASSUME NEW m, m \in Heap, NEW p \in Nat, NEW q \in Nat, NEW n \in Nat, NEW k \in Nat \ {0}, k <= n,
         p + k - 1 \in Unit, q + n - 1 \in Unit, NEW word, Holds(m, p, k, word)
  PROVE  Holds(Copied(m, p, q, n), q, k, word)
<1> DEFINE from(a) == IF a - q + p \in Unit THEN a - q + p ELSE a
           u == Copied(m, p, q, n)
<1>1. /\ \A a \in Node : u.tag[a] = IF a \in q + 1 .. q + n - 1 THEN m.tag[from(a)]
                                                                 ELSE m.tag[a]
      /\ \A a \in Node : u.prev[a] = IF a \in q .. q + n - 1 THEN m.prev[from(a)]
                                                              ELSE m.prev[a]
      /\ \A a \in Node : u.next[a] = IF a \in q .. q + n - 1 THEN m.next[from(a)]
                                                              ELSE m.next[a]
      /\ \A a \in Unit : u.foot[a] = IF a \in q .. q + n - 1 THEN m.foot[from(a)]
                                                              ELSE m.foot[a]
  BY DEF Copied, Heap
<1> HIDE DEF u
<1>2. ASSUME NEW a \in q .. q + k - 1
      PROVE  /\ a \in Unit /\ a \in Node /\ a \in q .. q + n - 1
             /\ from(a) \in p .. p + k - 1
             /\ a # q => a \in q + 1 .. q + n - 1 /\ from(a) \in p + 1 .. p + k - 1
  <2> DEFINE b == a - q + p
  <2>1. /\ a \in Unit /\ a \in q .. q + n - 1 /\ b \in p .. p + k - 1 /\ b \in Unit
        /\ a # q => a \in q + 1 .. q + n - 1 /\ b \in p + 1 .. p + k - 1
    BY <1>2, MAX_HEAPAssumption DEF Unit
  <2> HIDE DEF b
  <2>2. from(a) = b
    BY <2>1 DEF b
  <2> QED
    BY <2>1, <2>2, HeaderFacts
<1> HIDE DEF from
<1>3. ASSUME NEW a \in q .. q + k - 1
      PROVE  u.prev[a] = word /\ u.next[a] = word /\ u.foot[a] = word
  <2> DEFINE b == from(a)
  <2>1. {m.prev[b], m.next[b], m.foot[b]} = {word}
    BY <1>2 DEF Holds
  <2>2. /\ a \in Unit /\ a \in Node /\ a \in q .. q + n - 1
    BY <1>2
  <2>3. u.prev[a] = m.prev[b] /\ u.next[a] = m.next[b] /\ u.foot[a] = m.foot[b]
    BY <1>1, <2>2
  <2> QED
    BY <2>1, <2>3
<1>4. \A a \in q + 1 .. q + k - 1 : u.tag[a] = word
  <2>1. \A a \in q + 1 .. q + k - 1 : a \in q .. q + k - 1 /\ a # q
    OBVIOUS
  <2> QED
    BY <1>1, <1>2, <2>1 DEF Holds
<1>5. Holds(u, q, k, word)
  BY <1>3, <1>4 DEF Holds
<1> QED
  BY <1>5 DEF u

\* The client's writes complete a block that holds its word in k units.
LEMMA WriteEndIs ==
  ASSUME NEW m, m \in Heap, NEW p \in Nat, NEW n \in Nat \ {0}, NEW k \in Nat \ {0},
         NEW word \in Data, p + n - 1 \in Unit,
         \A j \in Nat \ {0} : j <= n /\ j <= k => Holds(m, p, j, word)
  PROVE  /\ Rewritten(m, WriteEnd(m, p, k, n, word), p, n)
         /\ Holds(WriteEnd(m, p, k, n, word), p, n, word)
<1> DEFINE u == WriteEnd(m, p, k, n, word)
           end == p + k .. p + n - 1
           tag2 == [a \in Node |-> IF a \in end THEN word ELSE m.tag[a]]
           prev2 == [a \in Node |-> IF a \in end THEN word ELSE m.prev[a]]
           next2 == [a \in Node |-> IF a \in end THEN word ELSE m.next[a]]
           foot2 == [a \in Unit |-> IF a \in end THEN word ELSE m.foot[a]]
<1>1. u = [m EXCEPT !.tag = tag2, !.prev = prev2, !.next = next2, !.foot = foot2]
  BY DEF WriteEnd, Heap
<1>2. /\ tag2 \in [Node -> Tag \cup Data] /\ prev2 \in [Node -> Node \cup Data]
      /\ next2 \in [Node -> Node \cup Data] /\ foot2 \in [Unit -> Unit \cup Data]
  <2> HIDE DEF end
  <2> QED
    BY HeapTypes
<1>3. end \subseteq p + 1 .. p + n - 1 /\ end \subseteq p .. p + n - 1
  OBVIOUS
<1> HIDE DEF u
<1>4. /\ u \in Heap /\ u.tag = tag2 /\ u.prev = prev2 /\ u.next = next2 /\ u.foot = foot2
      /\ u.top = m.top /\ u.brk = m.brk
  <2> HIDE DEF tag2, prev2, next2, foot2
  <2> QED
    BY <1>1, <1>2 DEF Heap
<1>5. Rewritten(m, u, p, n)
  <2> HIDE DEF end
  <2> QED
    BY <1>3, <1>4 DEF Rewritten
<1>6. Holds(u, p, n, word)
  <2> DEFINE j == IF k <= n THEN k ELSE n
  <2>1. j \in Nat \ {0} /\ j <= n /\ j <= k
    OBVIOUS
  <2>2. Holds(m, p, j, word)
    BY <2>1
  <2>3. /\ p .. p + n - 1 \subseteq Unit /\ p .. p + n - 1 \subseteq Node
        /\ p + 1 .. p + n - 1 \subseteq p .. p + n - 1
    BY MAX_HEAPAssumption, HeaderFacts DEF Unit
  <2>4. /\ \A a \in p .. p + n - 1 : a \in end \/ a \in p .. p + j - 1
        /\ \A a \in p + 1 .. p + n - 1 : a \in end \/ a \in p + 1 .. p + j - 1
    OBVIOUS
  <2> HIDE DEF j, end
  <2>5. ASSUME NEW a \in p .. p + n - 1
        PROVE  u.prev[a] = word /\ u.next[a] = word /\ u.foot[a] = word
    <3>1. CASE a \in end
      BY <1>4, <2>3, <3>1
    <3>2. CASE a \in p .. p + j - 1 /\ a \notin end
      <4>1. {m.prev[a], m.next[a], m.foot[a]} = {word}
        BY <2>2, <3>2 DEF Holds
      <4> QED
        BY <1>4, <2>3, <3>2, <4>1
    <3> QED
      BY <2>4, <3>1, <3>2
  <2>6. \A a \in p + 1 .. p + n - 1 : u.tag[a] = word
    BY <1>4, <2>2, <2>3, <2>4 DEF Holds
  <2> QED
    BY <2>5, <2>6 DEF Holds
<1> QED
  BY <1>5, <1>6 DEF u

\* What n units hold fewer of them hold.
LEMMA HoldsLess ==
  ASSUME NEW m, NEW p \in Nat, NEW k \in Nat, NEW word, Holds(m, p, k, word),
         NEW j \in Nat, j <= k
  PROVE  Holds(m, p, j, word)
<1>1. /\ p .. p + j - 1 \subseteq p .. p + k - 1
      /\ p + 1 .. p + j - 1 \subseteq p + 1 .. p + k - 1
  OBVIOUS
<1> QED
  BY <1>1 DEF Holds

\* A block whose chunk is undisturbed still holds its word.
LEMMA HoldsStill ==
  ASSUME NEW m, NEW m2, NEW S, Undisturbed(m, m2, S), NEW c \in S, c \in Nat,
         m.tag[c].size \in Nat, NEW n \in Nat, n <= m.tag[c].size, NEW word,
         Holds(m, c, n, word)
  PROVE  Holds(m2, c, n, word) /\ m2.tag[c].size >= n
<1> DEFINE s == m.tag[c].size
<1>1. s \in Nat /\ n <= s
  OBVIOUS
<1>2. m2.tag[c].size = s /\ SameWords(m, m2, c)
  BY DEF Undisturbed
<1>3. /\ \A a \in c .. c + s - 1 :
           m2.prev[a] = m.prev[a] /\ m2.next[a] = m.next[a] /\ m2.foot[a] = m.foot[a]
      /\ \A a \in c + 1 .. c + s - 1 : m2.tag[a] = m.tag[a]
  BY <1>2 DEF SameWords
<1> HIDE DEF s
<1>4. \A a \in c .. c + n - 1 : a \in c .. c + s - 1
  BY <1>1
<1>5. \A a \in c + 1 .. c + n - 1 : a \in c + 1 .. c + s - 1
  BY <1>1
<1> QED
  BY <1>1, <1>2, <1>3, <1>4, <1>5 DEF Holds

-----------------------------------------------------------------------------
(***************************************************************************)
(* What a heap that has run out still has.                                 *)
(***************************************************************************)

\* Whatever else a heap holds, t is the tag at p.
HasTag(m, p, t) == "tag" \in DOMAIN m /\ p \in DOMAIN m.tag /\ m.tag[p] = t

\* SetTag of another chunk leaves the tag alone.
LEMMA SetTagTag ==
  ASSUME NEW m, NEW p, NEW t, HasTag(m, p, t), NEW a, a # p, NEW s, NEW u, NEW v
  PROVE  HasTag(SetTag(m, a, s, u, v), p, t)
BY DEF SetTag, HasTag

\* So does a write to the last word of a chunk.
LEMMA SetFootTag ==
  ASSUME NEW m, NEW p, NEW t, HasTag(m, p, t), NEW a, NEW s
  PROVE  HasTag([m EXCEPT !.foot[a] = s], p, t)
BY DEF HasTag

\* So does Insert.
LEMMA InsertTag ==
  ASSUME NEW m, NEW p, NEW t, HasTag(m, p, t), NEW a, NEW s
  PROVE  HasTag(Insert(m, a, s), p, t)
<1> DEFINE h == get_header(s)
           m1 == [m EXCEPT !.prev[a] = h, !.next[a] = m.next[h]]
<1>1. HasTag(m1, p, t)
  BY DEF HasTag
<1>2. Insert(m, a, s) = [m1 EXCEPT !.prev[m.next[h]] = a, !.next[h] = a]
  BY DEF Insert
<1> HIDE DEF m1, h
<1> QED
  BY <1>1, <1>2 DEF HasTag

\* So does mm_sbrk.
LEMMA SbrkTag ==
  ASSUME NEW m, NEW p, NEW t, HasTag(m, p, t), NEW s
  PROVE  HasTag(mm_sbrk(m, s), p, t)
<1> DEFINE m1 == [m EXCEPT !.top = m.top + s]
<1>1. HasTag(m1, p, t)
  BY DEF HasTag
<1>2. mm_sbrk(m, s) = IF m1.top > m.brk THEN mem_sbrk(m1, m1.top - m.brk) ELSE m1
  BY DEF mm_sbrk
<1> HIDE DEF m1
<1>3. \A d : HasTag(mem_sbrk(m1, d), p, t)
  BY <1>1 DEF HasTag, mem_sbrk
<1> QED
  BY <1>1, <1>2, <1>3

\* When no chunk fits, the heap grows, and no tag below its old end changes.
LEMMA ExtendKeeps ==
  ASSUME NEW m, NEW top \in Nat, HasTop(m, top), NEW p \in Nat, p < top, NEW t,
         HasTag(m, p, t), NEW n \in Nat \ {0}
  PROVE  \E d \in Nat :
           /\ HasTop(ExtendSmall(m, n).heap, top + d)
           /\ HasTop(ExtendBig(m, n).heap, top + n)
           /\ HasTag(ExtendSmall(m, n).heap, p, t) /\ HasTag(ExtendBig(m, n).heap, p, t)
<1> DEFINE chunk_size == IF n = 1 THEN SMALL ELSE MIN_CHUNK_SIZE
           free_size == chunk_size - n
           q == m.top
           m0 == mm_sbrk(m, chunk_size)
           m1 == SetTag(m0, q, n, TRUE, TRUE)
           m2 == SetTag(m1, q + n, free_size, FALSE, TRUE)
           m3 == [m2 EXCEPT !.foot[q + chunk_size - 1] = free_size]
           i == Insert(m3, q + n, free_size)
           b0 == mm_sbrk(m, n)
           b == SetTag(b0, q, n, TRUE, TRUE)
<1>1. ExtendSmall(m, n).heap = i /\ ExtendBig(m, n).heap = b
  BY DEF ExtendSmall, ExtendBig
<1>2. chunk_size \in Nat
  BY HEADERSAssumption, SMALLAssumption DEF MIN_CHUNK_SIZE
<1>3. q = top /\ q # p /\ q + n # p
  <2>1. q = top
    BY DEF HasTop
  <2> QED
    BY <2>1
<1> DEFINE end == top + chunk_size
           end2 == top + n
<1>4. HasTop(m0, end) /\ HasTag(m0, p, t) /\ HasTop(b0, end2) /\ HasTag(b0, p, t)
  BY SbrkTop, SbrkTag
<1> HIDE DEF m0, b0, end, end2, q, free_size
<1>5. HasTop(m1, end) /\ HasTag(m1, p, t) /\ HasTop(b, end2) /\ HasTag(b, p, t)
  BY <1>3, <1>4, SetTagTop, SetTagTag
<1> HIDE DEF m1, b
<1>6. HasTop(m2, end) /\ HasTag(m2, p, t)
  BY <1>3, <1>5, SetTagTop, SetTagTag
<1> HIDE DEF m2
<1>7. HasTop(m3, end) /\ HasTag(m3, p, t)
  BY <1>6, SetFootTop, SetFootTag
<1> HIDE DEF m3
<1>8. HasTop(i, end) /\ HasTag(i, p, t)
  BY <1>7, InsertTop, InsertTag
<1> HIDE DEF i
<1>9. /\ HasTop(ExtendSmall(m, n).heap, top + chunk_size)
      /\ HasTop(ExtendBig(m, n).heap, top + n)
      /\ HasTag(ExtendSmall(m, n).heap, p, t) /\ HasTag(ExtendBig(m, n).heap, p, t)
  BY <1>1, <1>5, <1>8 DEF end, end2
<1> HIDE DEF chunk_size
<1> QED
  BY <1>2, <1>9

\* mm_free of a chunk that is not the last one leaves the end where it is.
LEMMA FreeTop ==
  ASSUME NEW m, NEW top, HasTop(m, top), NEW p, ~(p + m.tag[p].size >= top)
  PROVE  HasTop(mm_free(m, p), top)
<1> DEFINE t == m.tag[p]
           begin == IF t.pused THEN p ELSE Before(m, p)
           m1 == IF t.pused THEN m ELSE Unlink(m, begin)
           size1 == IF t.pused THEN t.size ELSE t.size + m.tag[begin].size
           after == p + t.size
           joined == after < m.top /\ ~m.tag[after].used
           m2 == IF joined THEN Unlink(m1, after) ELSE SetPused(m1, after, FALSE)
           size2 == IF joined THEN size1 + m.tag[after].size ELSE size1
           m3 == SetTag(m2, begin, size2, FALSE, m.tag[begin].pused)
           m4 == [m3 EXCEPT !.foot[begin + size2 - 1] = size2]
<1>1. mm_free(m, p) = IF after >= m.top THEN mm_sbrk(m1, -size1)
                      ELSE Insert(m4, begin, size2)
  BY DEF mm_free
<1>2. mm_free(m, p) = Insert(m4, begin, size2)
  <2>1. ~(after >= m.top)
    BY DEF HasTop
  <2> HIDE DEF m1, m4, size1, size2, begin, after
  <2> QED
    BY <1>1, <2>1
<1>3. HasTop(m1, top)
  <2> HIDE DEF begin
  <2> QED
    BY UnlinkTop
<1> HIDE DEF m1
<1>4. HasTop(m2, top)
  <2> HIDE DEF joined, after
  <2> QED
    BY <1>3, UnlinkTop, SetPusedTop
<1> HIDE DEF m2, size2, begin
<1>5. HasTop(m3, top)
  BY <1>4, SetTagTop
<1> HIDE DEF m3
<1>6. HasTop(m4, top)
  BY <1>5, SetFootTop
<1> HIDE DEF m4
<1> QED
  BY <1>2, <1>6, InsertTop

-----------------------------------------------------------------------------
(***************************************************************************)
(* mm_realloc.                                                             *)
(***************************************************************************)

\* What p holds in m the block at q holds in m2, as far as n units hold it.
Copies(m, p, m2, q, n) ==
  \A k \in Nat \ {0}, word \in Data :
    k <= n /\ k <= m.tag[p].size /\ Holds(m, p, k, word) => Holds(m2, q, k, word)

\* The heap m2 has the chunk at q of at least n units in use instead of the one at p of
\* m, with what that held, and no other chunk in use has been touched.
Moved(m, T, m2, T2, p, q, n) ==
  /\ Copies(m, p, m2, q, n)
  /\ T2 \in SUBSET Unit /\ Good(m2, T2)
  /\ q \notin Used(m, T) \ {p} /\ Used(m2, T2) = (Used(m, T) \ {p}) \cup {q}
  /\ m2.tag[q].size >= n /\ Undisturbed(m, m2, Used(m, T) \ {p}) /\ m.brk <= m2.brk

\* The last chunk takes what sbrk gives.
Grown(m, p, n) == [mm_sbrk(m, n - m.tag[p].size) EXCEPT !.tag[p].size = n]

\* It stays in use where it is, and the heap ends where it ends.
LEMMA GrownMoves ==
  ASSUME NEW m, NEW T, T \in SUBSET Unit, Good(m, T), NEW p \in Used(m, T),
         p + m.tag[p].size = m.top, NEW n \in Nat, ~(m.tag[p].size >= n),
         Grown(m, p, n).top <= MAX_HEAP
  PROVE  \E T2 : Moved(m, T, Grown(m, p, n), T2, p, p, n)
<1> DEFINE s == m.tag[p].size
           top == m.top
           q == p + n
           T2 == (T \ {top}) \cup {q}
           c0 == Class(m, T)
           m0 == mm_sbrk(m, n - s)
           t == [m0.tag[p] EXCEPT !.size = n]
           i == [m0 EXCEPT !.tag[p] = t]
<1>1. Grown(m, p, n) = i
  BY DEF Grown
<1>2. /\ m \in Heap /\ Tiling(m, T) /\ Extent(m) /\ Rings(m, c0)
      /\ Footed(m, T) /\ Marked(m, T)
      /\ top \in Nat /\ top <= MAX_HEAP /\ m.brk \in Nat /\ MAX_HEAP \in Nat
      /\ T \subseteq Nat /\ \A c \in T : c <= top
  BY GoodTypes
<1>3. p \in T \ {top} /\ m.tag[p].used
  BY DEF Used
<1>4. /\ p \in Nat /\ p \in Unit /\ p \in Node /\ p \notin Header /\ m.tag[p] \in Tag
      /\ s \in Nat \ {0} /\ p + s = top
  BY <1>3, ChunkFacts
<1>5. s < n /\ top < q /\ q \in Nat /\ top + (n - s) = q /\ n - s \in Nat
  <2> HIDE DEF s, top
  <2>1. ~(s >= n) /\ n \in Nat
    BY DEF s
  <2> QED
    BY <1>2, <1>4, <2>1
<1>6. HasTop(i, q)
  <2>1. HasTop(m, top)
    BY <1>2 DEF HasTop, Heap
  <2>2. HasTop(m0, top + (n - s))
    BY <2>1, SbrkTop
  <2> HIDE DEF m0, t, s, top, q
  <2>3. HasTop(m0, q)
    BY <1>5, <2>2
  <2> QED
    BY <2>3 DEF HasTop
<1>7. q <= MAX_HEAP
  <2> HIDE DEF i, q
  <2> QED
    BY <1>1, <1>6 DEF HasTop
<1>8. n \in Unit /\ q \in Unit
  BY <1>2, <1>4, <1>5, <1>7 DEF Unit
<1>9. /\ m0 \in Heap /\ Extent(m0) /\ m0.prev = m.prev /\ m0.next = m.next
      /\ m0.tag = m.tag /\ m0.foot = m.foot /\ m0.top = q /\ m.brk <= m0.brk
  <2> DEFINE d == n - s
  <2> HIDE DEF s
  <2>1. Extent(m) /\ d \in Int /\ 0 <= m.top + d /\ m.top + d <= MAX_HEAP /\ m.top + d = q
    BY <1>2, <1>5, <1>7
  <2> HIDE DEF d, q
  <2>2. /\ Extent(mm_sbrk(m, d)) /\ mm_sbrk(m, d).prev = m.prev
        /\ mm_sbrk(m, d).next = m.next /\ mm_sbrk(m, d).tag = m.tag
        /\ mm_sbrk(m, d).foot = m.foot /\ mm_sbrk(m, d).top = m.top + d
        /\ m.brk <= mm_sbrk(m, d).brk
    BY <2>1, SbrkIs
  <2> QED
    BY <2>1, <2>2 DEF Extent, d
<1> HIDE DEF m0
<1>10. /\ t \in Tag /\ t.size = n /\ t.used = m.tag[p].used /\ t.pused = m.tag[p].pused
  BY <1>4, <1>8, <1>9 DEF Tag
<1> HIDE DEF t
<1>11. /\ i \in Heap /\ i.prev = m.prev /\ i.next = m.next /\ i.foot = m.foot
       /\ i.top = q /\ i.brk = m0.brk /\ i.tag[p] = t
       /\ \A b \in Node : b # p => i.tag[b] = m.tag[b]
  BY <1>4, <1>9, <1>10 DEF Heap
<1> HIDE DEF i
<1>12. i.tag[p] \in Tag /\ i.tag[p].size = n /\ i.tag[p].used
       /\ i.tag[p].pused = m.tag[p].pused
  BY <1>3, <1>10, <1>11
<1>13. \A d \in T : d <= p \/ top <= d
  BY <1>2, <1>3, <1>4, Apart
<1>14. Retiles(m, T, i, T2, p, q)
  <2>1. p \in T /\ p \in T2 /\ q \in Nat /\ p <= q /\ q > m.top
    BY <1>3, <1>4, <1>5
  <2>2. T2 \subseteq 0 .. q /\ q \in T2
    <3>1. \A d \in T : d \in Nat /\ d <= top
      BY <1>2
    <3> HIDE DEF top, q
    <3> QED
      BY <1>5, <1>2, <3>1
  <2>3. \A c \in Nat : c < p \/ q <= c => (c \in T2 \ {q} <=> c \in T \ {m.top})
    <3>1. \A d \in T : d \in Nat /\ d <= top
      BY <1>2
    <3> HIDE DEF q
    <3>2. \A c \in Nat : q <= c => c \notin T2 \ {q} /\ c \notin T
      BY <1>2, <1>5, <3>1
    <3>3. \A c \in Nat : c < p => c # q /\ c # top
      BY <1>2, <1>4, <1>5
    <3> QED
      BY <3>2, <3>3
  <2>4. \A a \in Node : a < p \/ q < a => i.tag[a] = m.tag[a]
    BY <1>4, <1>5, <1>11 DEF Node, Header, Unit
  <2>5. ASSUME NEW c \in T2 \ {q}, p <= c, c < q
        PROVE  c = p
    <3>1. c \in T /\ c # top /\ c \in Nat /\ c <= top
      BY <1>2, <2>5
    <3>2. c <= p
      BY <1>2, <1>13, <3>1
    <3> QED
      BY <1>4, <2>5, <3>1, <3>2
  <2>6. p + i.tag[p].size = q /\ i.tag[p].size >= 1
    BY <1>4, <1>5, <1>12
  <2>7. \A d \in T2 : d <= p \/ q <= d
    <3>1. \A d \in T : d \in Nat /\ d <= top
      BY <1>2
    <3> HIDE DEF q
    <3> QED
      BY <1>2, <1>5, <1>13, <3>1
  <2>8. \/ i.tag[p].pused
        \/ p # m.top /\ ~m.tag[p].pused
    BY <1>3, <1>12
  <2> HIDE DEF T2, q
  <2>9. ASSUME NEW c \in T2 \ {i.top}, p <= c, c < q
        PROVE  /\ i.tag[c] \in Tag /\ i.tag[c].size >= 1
               /\ c + i.tag[c].size \in T2 /\ c + i.tag[c].size <= q
               /\ \A d \in T2 : d <= c \/ c + i.tag[c].size <= d
               /\ i.tag[c].used
               /\ i.tag[c].pused \/ (c = p /\ p # m.top /\ ~m.tag[p].pused)
    <3>1. c = p
      BY <1>11, <2>5, <2>9
    <3>2. q <= q
      BY <1>5
    <3> QED
      BY <1>12, <2>2, <2>6, <2>7, <2>8, <3>1, <3>2
  <2>10. i.top = q /\ ~(q < m.top)
    BY <1>2, <1>5, <1>11
  <2> QED
    BY <1>11, <2>1, <2>2, <2>3, <2>4, <2>9, <2>10 DEF Retiles
<1>15. /\ Tiling(i, T2) /\ Footed(i, T2) /\ Marked(i, T2)
       /\ \A b \in Node : Class(i, T2)[b] =
            IF b >= p /\ b < q
            THEN IF b \in T2 \ {i.top} /\ ~i.tag[b].used
                 THEN get_header(i.tag[b].size) ELSE NoList
            ELSE c0[b]
       /\ Used(i, T2) = {c \in Used(m, T) : c < p \/ q <= c} \cup
                        {c \in T2 \ {i.top} : p <= c /\ c < q /\ i.tag[c].used}
  <2> HIDE DEF T2, q
  <2> QED
    BY <1>2, <1>11, <1>14, Retiled DEF c0
<1>16. \A c \in T2 : p <= c /\ c < q => c = p
  <2> SUFFICES ASSUME NEW c \in T2, p <= c, c < q PROVE c = p
    OBVIOUS
  <2>1. c \in T /\ c # top /\ c \in Nat /\ c <= top
    <3>1. c # q
      BY <1>5
    <3> QED
      BY <1>2, <3>1
  <2>2. c <= p
    BY <1>2, <1>13, <2>1
  <2> QED
    BY <1>4, <2>1, <2>2
<1>17. Class(i, T2) = c0
  <2>1. Class(i, T2) \in [Node -> Header \cup {NoList}]
        /\ c0 \in [Node -> Header \cup {NoList}]
    BY <1>2, <1>11, <1>15, ClassTypes
  <2>2. ASSUME NEW b \in Node
        PROVE  Class(i, T2)[b] = c0[b]
    <3>1. CASE b >= p /\ b < q
      <4>1. b \in Nat /\ b \in Unit /\ b \notin Header /\ p <= b
        BY <1>4, <3>1 DEF Node, Header, Unit
      <4>2. b # p => b \notin T2
        BY <1>16, <3>1, <4>1
      <4>3. c0[b] = NoList
        <5>1. b # p => b \notin T \/ b = top
          BY <1>5, <4>2
        <5> QED
          BY <1>3, <4>1, <5>1 DEF Class
      <4>4. Class(i, T2)[b] = NoList
        BY <1>12, <1>15, <3>1, <4>2
      <4> QED
        BY <4>3, <4>4
    <3>2. CASE ~(b >= p /\ b < q)
      BY <1>15, <3>2
    <3> QED
      BY <3>1, <3>2
  <2> HIDE DEF c0, T2
  <2> QED
    BY <2>1, <2>2
<1>18. Good(i, T2)
  <2>1. Rings(i, c0)
    BY <1>2, <1>11, RingsFrame
  <2>2. Extent(i)
    BY <1>9, <1>11 DEF Extent
  <2> QED
    BY <1>15, <1>17, <2>1, <2>2 DEF Good
<1>19. {c \in Used(m, T) : c < p \/ q <= c} = Used(m, T) \ {p}
  <2>1. ASSUME NEW c \in Used(m, T)
        PROVE  c < p \/ q <= c <=> c # p
    <3>1. c \in T /\ c # top /\ c \in Nat /\ c <= top /\ (c <= p \/ top <= c)
      BY <1>2, <1>13 DEF Used
    <3> HIDE DEF q, top
    <3> QED
      BY <1>2, <1>4, <1>5, <3>1
  <2> QED
    BY <2>1
<1>20. Used(i, T2) = (Used(m, T) \ {p}) \cup {p}
  <2> DEFINE U == {c \in T2 \ {i.top} : p <= c /\ c < q /\ i.tag[c].used}
  <2>1. p \in U
    BY <1>3, <1>4, <1>5, <1>11, <1>12
  <2>2. \A c \in U : c = p
    BY <1>16
  <2>3. U = {p}
    BY <2>1, <2>2
  <2> QED
    BY <1>15, <1>19, <2>3
<1>21. Undisturbed(m, i, Used(m, T) \ {p})
  <2>1. \A b \in Node : i.prev[b] = m.prev[b] /\ i.next[b] = m.next[b]
    BY <1>11
  <2>2. Undisturbed(m, i, {c \in Used(m, T) : c < p \/ q <= c})
    <3> HIDE DEF T2, q
    <3> QED
      BY <1>2, <1>11, <1>14, <2>1, RetiledUndisturbed
  <2> QED
    BY <1>19, <2>2
<1>22. T2 \in SUBSET Unit /\ p \notin Used(m, T) \ {p} /\ i.tag[p].size >= n
       /\ m.brk <= i.brk
  BY <1>8, <1>9, <1>11, <1>12
<1>23. Copies(m, p, i, p, n)
  <2> SUFFICES ASSUME NEW k \in Nat \ {0}, NEW word \in Data, k <= n, k <= s,
                      Holds(m, p, k, word)
               PROVE  Holds(i, p, k, word)
    BY DEF Copies
  <2>1. \A a \in p + 1 .. p + k - 1 : a \in Node /\ a # p
    <3> HIDE DEF s
    <3>1. \A a \in p + 1 .. p + k - 1 : a \in Nat /\ a # p /\ a <= p + s
      BY <1>4
    <3> HIDE DEF top
    <3> QED
      BY <1>2, <1>4, <3>1 DEF Node, Unit
  <2> QED
    BY <1>11, <2>1 DEF Holds
<1> HIDE DEF T2
<1> QED
  BY <1>1, <1>18, <1>20, <1>21, <1>22, <1>23 DEF Moved

\* Copying leaves the end of the chunks and the tags before the new block alone.
LEMMA CopiedKeeps ==
  ASSUME NEW m, NEW top, HasTop(m, top), NEW p \in Nat, p \in Node, NEW t, HasTag(m, p, t),
         NEW q \in Nat, p < q, NEW n \in Nat
  PROVE  HasTop(Copied(m, p, q, n), top) /\ HasTag(Copied(m, p, q, n), p, t)
<1>1. p \notin q + 1 .. q + n - 1
  OBVIOUS
<1> QED
  BY <1>1 DEF Copied, HasTop, HasTag

\* The heap does not run out in mm_malloc when mm_realloc that moves a block does not end
\* beyond the heap.
LEMMA MoveHasRoom ==
  ASSUME NEW m, NEW T, Good(m, T), NEW p \in Used(m, T), NEW n \in Nat \ {0},
         p + m.tag[p].size # m.top, NEW u,
         u = mm_free(Copied(mm_malloc(m, n).heap, p, mm_malloc(m, n).ptr, n), p),
         u.top <= MAX_HEAP
  PROVE  mm_malloc(m, n).heap.top <= MAX_HEAP
<1> DEFINE r == mm_malloc(m, n)
           top == m.top
           s == m.tag[p].size
           x == Search(m, n)
<1>1. /\ m \in Heap /\ Tiling(m, T) /\ top \in Nat /\ top <= MAX_HEAP /\ MAX_HEAP \in Nat
      /\ T \subseteq Nat
  BY GoodTypes
<1>2. p \in T \ {m.top}
  BY DEF Used
<1>3. /\ p \in Nat /\ p \in Unit /\ p \in Node /\ s \in Nat \ {0} /\ p + s \in Nat
      /\ p + s <= top
  BY <1>2, ChunkFacts
<1>4. p + s < top /\ p < top
  <2>1. p + s # top
    OBVIOUS
  <2> HIDE DEF top, s
  <2> QED
    BY <1>1, <1>3, <2>1
<1>5. HasTop(m, top) /\ HasTag(m, p, m.tag[p])
  BY <1>1, <1>3 DEF HasTop, HasTag, Heap
<1>6. mm_malloc(m, n) =
        IF x \in Header
        THEN IF n <= MIN_CHUNK_SIZE THEN ExtendSmall(m, n) ELSE ExtendBig(m, n)
        ELSE IF m.tag[x].size <= n + 1 THEN TakeAll(m, x) ELSE Split(m, x, n)
  BY DEF mm_malloc
<1> HIDE DEF x, r
<1>7. CASE x \in Header
  <2> DEFINE t == m.tag[p]
  <2>1. PICK d \in Nat : /\ HasTop(ExtendSmall(m, n).heap, top + d)
                         /\ HasTop(ExtendBig(m, n).heap, top + n)
                         /\ HasTag(ExtendSmall(m, n).heap, p, t)
                         /\ HasTag(ExtendBig(m, n).heap, p, t)
    <3> HIDE DEF top, t
    <3> QED
      BY <1>1, <1>3, <1>4, <1>5, ExtendKeeps DEF t
  <2>2. r = ExtendSmall(m, n) \/ r = ExtendBig(m, n)
    BY <1>6, <1>7 DEF r
  <2>3. ExtendSmall(m, n).ptr = top /\ ExtendBig(m, n).ptr = top
    BY DEF ExtendSmall, ExtendBig
  <2>4. PICK e \in Nat : HasTop(r.heap, top + e) /\ HasTag(r.heap, p, t) /\ r.ptr = top
    BY <2>1, <2>2, <2>3
  <2> DEFINE c == Copied(r.heap, p, r.ptr, n)
             end == top + e
  <2>5. u = mm_free(c, p)
    BY DEF r
  <2>6. HasTop(c, end) /\ HasTag(c, p, t)
    <3> HIDE DEF top, t, end
    <3>1. HasTop(r.heap, end)
      BY <2>4 DEF end
    <3> QED
      BY <1>1, <1>3, <1>4, <2>4, <3>1, CopiedKeeps
  <2> HIDE DEF c
  <2>7. ~(p + c.tag[p].size >= end)
    <3>1. c.tag[p].size = s
      BY <2>6 DEF HasTag
    <3> HIDE DEF s, top
    <3> QED
      BY <1>1, <1>3, <1>4, <3>1
  <2> HIDE DEF end
  <2>8. HasTop(u, end)
    BY <2>5, <2>6, <2>7, FreeTop
  <2>9. r.heap.top = end
    BY <2>4 DEF HasTop, end
  <2> QED
    BY <2>8, <2>9 DEF HasTop, r
<1>8. CASE x \notin Header
  <2>1. r = TakeAll(m, x) \/ r = Split(m, x, n)
    BY <1>6, <1>8 DEF r
  <2>2. HasTop(TakeAll(m, x).heap, top)
    <3> DEFINE v == Unlink(m, x)
               m1 == SetTag(v, x, m.tag[x].size, TRUE, TRUE)
    <3>1. TakeAll(m, x).heap = SetPused(m1, x + m.tag[x].size, TRUE)
      BY DEF TakeAll
    <3> HIDE DEF top
    <3>2. HasTop(v, top)
      BY <1>5, UnlinkTop
    <3> HIDE DEF v
    <3>3. HasTop(m1, top)
      BY <3>2, SetTagTop
    <3> HIDE DEF m1
    <3> QED
      BY <3>1, <3>3, SetPusedTop
  <2>3. HasTop(Split(m, x, n).heap, top)
    <3> DEFINE rest == m.tag[x].size - n
               m1 == SetTag(m, x, n, TRUE, TRUE)
               m2 == SetTag(m1, x + n, rest, FALSE, TRUE)
               m3 == [m2 EXCEPT !.foot[x + n + rest - 1] = rest]
               m4 == Unlink(m3, x)
    <3>1. Split(m, x, n).heap = Insert(m4, x + n, rest)
      BY DEF Split
    <3> HIDE DEF top, rest
    <3>2. HasTop(m1, top)
      BY <1>5, SetTagTop
    <3> HIDE DEF m1
    <3>3. HasTop(m2, top)
      BY <3>2, SetTagTop
    <3> HIDE DEF m2
    <3>4. HasTop(m3, top)
      BY <3>3, SetFootTop
    <3> HIDE DEF m3
    <3>5. HasTop(m4, top)
      BY <3>4, UnlinkTop
    <3> HIDE DEF m4
    <3> QED
      BY <3>1, <3>5, InsertTop
  <2>4. HasTop(r.heap, top)
    BY <2>1, <2>2, <2>3
  <2>5. r.heap.top = top
    BY <2>4 DEF HasTop
  <2> QED
    BY <1>1, <2>5 DEF r
<1> QED
  BY <1>7, <1>8

\* What is undisturbed by two steps, one after the other.
LEMMA UndisturbedTwice ==
  ASSUME NEW m, NEW m1, NEW m2, NEW S, Undisturbed(m, m1, S), Undisturbed(m1, m2, S)
  PROVE  Undisturbed(m, m2, S)
BY DEF Undisturbed, SameWords

\* mm_realloc returns a chunk in use of at least the requested size, and frees the old one
\* unless it is the same.
LEMMA ReallocMoves ==
  ASSUME NEW m, NEW T, T \in SUBSET Unit, Good(m, T), NEW p \in Used(m, T),
         NEW n \in Nat \ {0}, n # MIN_CHUNK_SIZE,
         mm_realloc(m, p, n).heap.top <= MAX_HEAP
  PROVE  \E T2 : Moved(m, T, mm_realloc(m, p, n).heap, T2, p, mm_realloc(m, p, n).ptr, n)
<1> DEFINE s == m.tag[p].size
           new == mm_malloc(m, n)
           c == Copied(new.heap, p, new.ptr, n)
           u == mm_free(c, p)
<1>1. mm_realloc(m, p, n) =
        IF s >= n THEN [heap |-> m, ptr |-> p]
        ELSE IF p + s = m.top THEN [heap |-> Grown(m, p, n), ptr |-> p]
             ELSE [heap |-> u, ptr |-> new.ptr]
  BY DEF mm_realloc, Grown
<1>2. p \in T \ {m.top} /\ m.brk \in Nat
  BY GoodTypes DEF Used
<1>3. p \in Nat /\ s \in Nat \ {0}
  BY <1>2, ChunkFacts
<1> HIDE DEF new, u
<1>4. CASE s >= n
  <2>1. Undisturbed(m, m, Used(m, T) \ {p})
    BY DEF Undisturbed, SameWords
  <2>2. Moved(m, T, m, T, p, p, n)
    BY <1>2, <1>4, <2>1 DEF Moved, Copies
  <2> QED
    BY <1>1, <1>4, <2>2
<1>5. CASE ~(s >= n) /\ p + s = m.top
  <2>1. mm_realloc(m, p, n).heap = Grown(m, p, n) /\ mm_realloc(m, p, n).ptr = p
    BY <1>1, <1>5
  <2>2. \E T2 : Moved(m, T, Grown(m, p, n), T2, p, p, n)
    BY <1>5, <2>1, GrownMoves
  <2> QED
    BY <2>1, <2>2
<1>6. CASE ~(s >= n) /\ p + s # m.top
  <2> DEFINE q == new.ptr
             h == new.heap
  <2>1. mm_realloc(m, p, n).heap = u /\ mm_realloc(m, p, n).ptr = q
    BY <1>1, <1>6
  <2>2. h.top <= MAX_HEAP
    <3>1. u = mm_free(Copied(mm_malloc(m, n).heap, p, mm_malloc(m, n).ptr, n), p)
      BY DEF u, new
    <3> QED
      BY <1>6, <2>1, <3>1, MoveHasRoom DEF new
  <2>3. PICK T1 : Allocated(m, T, h, T1, q, n)
    BY <2>2, MallocAllocates DEF new
  <2>4. /\ T1 \in SUBSET Unit /\ Good(h, T1) /\ q \notin Used(m, T)
        /\ Used(h, T1) = Used(m, T) \cup {q} /\ h.tag[q].size >= n
        /\ Undisturbed(m, h, Used(m, T)) /\ m.brk <= h.brk
    BY <2>3 DEF Allocated
  <2> HIDE DEF q, h
  <2>5. q \in Used(h, T1) /\ q \in T1 \ {h.top} /\ h \in Heap
    BY <2>4, GoodTypes DEF Used
  <2>6. q \in Nat /\ h.tag[q].size \in Nat
    BY <2>4, <2>5, ChunkFacts
  <2>7. c = Copied(h, p, q, n)
    BY DEF h, q
  <2>8. Rewritten(h, c, q, n)
    BY <1>3, <2>5, <2>6, <2>7, CopiedIs
  <2> HIDE DEF c
  <2>9. /\ Good(c, T1) /\ Used(c, T1) = Used(m, T) \cup {q}
        /\ Undisturbed(h, c, Used(m, T)) /\ c.tag[q] = h.tag[q] /\ c.brk = h.brk
    <3>1. n \in Nat /\ n <= h.tag[q].size
      BY <2>4, <2>6
    <3>2. Used(h, T1) \ {q} = Used(m, T)
      BY <2>4
    <3>3. /\ Good(c, T1) /\ Used(c, T1) = Used(h, T1)
          /\ Undisturbed(h, c, Used(h, T1) \ {q}) /\ c.tag[q] = h.tag[q]
      <4>1. /\ Good(h, T1) /\ q \in Used(h, T1) /\ n \in Nat /\ n <= h.tag[q].size
            /\ Rewritten(h, c, q, n)
        BY <2>4, <2>5, <2>8, <3>1
      <4> QED
        BY ONLY <4>1, RewrittenIsGood
    <3> QED
      BY <2>4, <2>8, <3>2, <3>3 DEF Rewritten
  <2>10. p \in Used(c, T1)
    BY <2>9
  <2>11. PICK T2 : Released(c, T1, u, T2, p)
    BY <2>4, <2>9, <2>10, FreeReleases DEF u
  <2>12. /\ T2 \in SUBSET Unit /\ Good(u, T2)
         /\ Used(u, T2) = (Used(m, T) \cup {q}) \ {p}
         /\ Undisturbed(c, u, (Used(m, T) \cup {q}) \ {p}) /\ c.brk <= u.brk
    BY <2>9, <2>11 DEF Released
  <2>13. /\ q \notin Used(m, T) \ {p}
         /\ Used(u, T2) = (Used(m, T) \ {p}) \cup {q}
    <3>1. q # p
      BY <2>4
    <3> QED
      BY <2>4, <2>12, <3>1
  <2>14. u.tag[q].size >= n
    <3>1. q \in (Used(m, T) \cup {q}) \ {p}
      BY <2>4
    <3>2. u.tag[q].size = c.tag[q].size
      BY <2>12, <3>1 DEF Undisturbed
    <3> QED
      BY <2>4, <2>9, <3>2
  <2>15. Undisturbed(m, u, Used(m, T) \ {p})
    <3> DEFINE S == Used(m, T) \ {p}
    <3>1. Undisturbed(m, h, S) /\ Undisturbed(h, c, S) /\ Undisturbed(c, u, S)
      BY <2>4, <2>9, <2>12 DEF Undisturbed
    <3> HIDE DEF S
    <3> QED
      BY <3>1, UndisturbedTwice DEF S
  <2>16. m.brk <= u.brk
    <3>1. h.brk \in Nat /\ c.brk \in Nat /\ u.brk \in Nat
      BY <2>4, <2>9, <2>12, GoodTypes
    <3> QED
      BY <1>2, <2>4, <2>9, <2>12, <3>1
  <2>17. Copies(m, p, u, q, n)
    <3> SUFFICES ASSUME NEW k \in Nat \ {0}, NEW word \in Data, k <= n, k <= s,
                      Holds(m, p, k, word)
                 PROVE  Holds(u, q, k, word)
      BY DEF Copies
    <3>1. Holds(h, p, k, word)
      BY <1>3, <2>4, HoldsStill
    <3>2. q + n - 1 \in Unit /\ p + k - 1 \in Unit
      <4>1. q + h.tag[q].size - 1 \in Unit /\ p + s - 1 \in Unit
        BY <1>2, <2>4, <2>5, ChunkFacts
      <4> DEFINE s2 == h.tag[q].size
      <4>2. s2 \in Nat /\ n <= s2 /\ q + s2 - 1 \in Unit
        BY <2>4, <2>6, <4>1
      <4> HIDE DEF s, s2
      <4> QED
        BY <1>3, <2>6, <4>1, <4>2, MAX_HEAPAssumption DEF Unit
    <3>3. Holds(c, q, k, word)
      BY <1>3, <2>5, <2>6, <2>7, <3>1, <3>2, CopiedHolds
    <3>4. q \in (Used(m, T) \cup {q}) \ {p} /\ k <= c.tag[q].size /\ c.tag[q].size \in Nat
      BY <2>4, <2>6, <2>9
    <3> QED
      BY <2>6, <2>12, <3>3, <3>4, HoldsStill
  <2>18. Moved(m, T, u, T2, p, q, n)
    BY <2>12, <2>13, <2>14, <2>15, <2>16, <2>17 DEF Moved
  <2> QED
    BY <2>1, <2>18
<1> QED
  BY <1>4, <1>5, <1>6

-----------------------------------------------------------------------------
(***************************************************************************)
(* The invariant.                                                          *)
(***************************************************************************)

\* The client asks neither for more than the heap has left nor for the size that leaves
\* mm_malloc a rest of no units (mm.c:180-199).
ClientKeepsOff == ~MayRunOut /\ MIN_CHUNK_SIZE \notin Requests

\* The units of a block are in the heap.
LEMMA BlockHasUnits ==
  ASSUME NEW m, NEW T, Good(m, T), NEW q \in Used(m, T), NEW n \in Requests,
         m.tag[q].size >= n
  PROVE  /\ m \in Heap /\ q \in Nat /\ n \in Nat \ {0} /\ q + n - 1 \in Unit
         /\ m.tag[q].size \in Nat /\ n <= m.tag[q].size
<1>1. n \in Nat \ {0} /\ m \in Heap /\ q \in T \ {m.top}
  BY RequestsAssumption, GoodTypes DEF Used
<1> DEFINE s == m.tag[q].size
<1>2. q \in Nat /\ s \in Nat /\ q + s - 1 \in Unit /\ s >= n
  BY <1>1, ChunkFacts
<1> HIDE DEF s
<1>3. q + n - 1 \in Unit /\ n <= s
  BY <1>1, <1>2, MAX_HEAPAssumption DEF Unit
<1> QED
  BY <1>1, <1>2, <1>3 DEF s

\* A new block is written next to the blocks that stay.
LEMMA WrittenIsOwned ==
  ASSUME NEW m, NEW T, Good(m, T), NEW S, S \subseteq Used(m, T), NEW f, Owned(m, S, f),
         NEW h, NEW T2, Good(h, T2), NEW q, q \notin S, Used(h, T2) = S \cup {q},
         Undisturbed(m, h, S), NEW n \in Requests, h.tag[q].size >= n, NEW word \in Data,
         NEW w, Rewritten(h, w, q, n), Holds(w, q, n, word)
  PROVE  /\ Good(w, T2) /\ w.brk = h.brk
         /\ Owned(w, Used(w, T2), With(f, q, [size |-> n, word |-> word]))
<1> DEFINE block == [size |-> n, word |-> word]
           g == With(f, q, block)
           R == [size : Requests, word : Data]
<1>1. n \in Nat \ {0} /\ Requests \subseteq Nat
  BY RequestsAssumption
<1>2. q \in Used(h, T2)
  OBVIOUS
<1>4. n <= h.tag[q].size
  BY <1>2, BlockHasUnits
<1>5. Rewritten(h, w, q, n) /\ Holds(w, q, n, word)
  OBVIOUS
<1>6. /\ Good(w, T2) /\ Used(w, T2) = S \cup {q} /\ Undisturbed(h, w, S)
      /\ w.tag[q] = h.tag[q] /\ w.brk = h.brk
  <2>1. Good(h, T2) /\ q \in Used(h, T2) /\ n \in Nat /\ n <= h.tag[q].size
        /\ Rewritten(h, w, q, n)
    BY <1>1, <1>2, <1>4, <1>5
  <2>2. /\ Good(w, T2) /\ Used(w, T2) = Used(h, T2)
        /\ Undisturbed(h, w, Used(h, T2) \ {q}) /\ w.tag[q] = h.tag[q]
    BY ONLY <2>1, RewrittenIsGood
  <2>3. Used(h, T2) \ {q} = S
    OBVIOUS
  <2>4. w.brk = h.brk
    BY <1>5 DEF Rewritten
  <2> QED
    BY <2>2, <2>3, <2>4
<1>7. Undisturbed(m, w, S)
  BY <1>6, UndisturbedTwice
<1>8. block \in R /\ block.size = n /\ block.word = word
  OBVIOUS
<1>9. f \in [S -> R] /\ \A c \in S : m.tag[c].size >= f[c].size
                                     /\ Holds(m, c, f[c].size, f[c].word)
  BY DEF Owned
<1> HIDE DEF block
<1>10. /\ g \in [S \cup {q} -> R] /\ g[q] = block
       /\ \A c \in S : g[c] = f[c]
  <2> HIDE DEF R
  <2> QED
    BY <1>8, <1>9 DEF With
<1> HIDE DEF g
<1>11. ASSUME NEW c \in S \cup {q}
       PROVE  w.tag[c].size >= g[c].size /\ Holds(w, c, g[c].size, g[c].word)
  <2>1. CASE c = q
    BY <1>5, <1>6, <1>8, <1>10, <2>1
  <2>2. CASE c \in S
    <3>1. c \in T \ {m.top}
      BY <2>2 DEF Used
    <3>2. c \in Nat /\ m.tag[c].size \in Nat
      BY <3>1, ChunkFacts
    <3> DEFINE k == f[c].size
    <3>3. f[c] \in R /\ m.tag[c].size >= k /\ Holds(m, c, k, f[c].word) /\ g[c] = f[c]
      BY <1>9, <1>10, <2>2
    <3>4. k \in Nat
      BY <1>1, <3>3
    <3> HIDE DEF k
    <3>5. Holds(w, c, k, f[c].word) /\ w.tag[c].size >= k
      <4>1. k <= m.tag[c].size
        BY <3>2, <3>3, <3>4
      <4> QED
        BY <1>7, <2>2, <3>2, <3>3, <3>4, <4>1, HoldsStill
    <3> QED
      BY <3>3, <3>5 DEF k
  <2> QED
    BY <2>1, <2>2
<1>12. Owned(w, Used(w, T2), g)
  BY <1>6, <1>10, <1>11 DEF Owned
<1> QED
  BY <1>6, <1>12 DEF g, block

\* Initially the heap has no chunk and each list is empty.
LEMMA InitInv ==
  ASSUME Init
  PROVE  IInv
<1> DEFINE T == {0}
           tag0 == [a \in Node |-> zerotag]
           link0 == [a \in Node |-> a]
           foot0 == [a \in Unit |-> 0]
<1>1. /\ heap.tag = tag0 /\ heap.prev = link0 /\ heap.next = link0 /\ heap.foot = foot0
      /\ heap.top = 0 /\ heap.brk = 0 /\ live = << >>
      /\ heap = [tag |-> tag0, prev |-> link0, next |-> link0, foot |-> foot0,
                 top |-> 0, brk |-> 0]
  BY DEF Init, mm_init, fresh
<1>2. heap \in Heap /\ 0 \in Unit
  <2>1. 0 \in Unit /\ zerotag \in Tag
    BY MAX_HEAPAssumption DEF Unit, zerotag, Tag
  <2> QED
    BY <1>1, <2>1 DEF Heap
<1>3. Extent(heap)
  BY <1>1, <1>2, MAX_HEAPAssumption DEF Extent
<1>4. T \ {heap.top} = {}
  BY <1>1
<1>5. Tiling(heap, T) /\ Footed(heap, T) /\ Marked(heap, T)
  BY <1>1, <1>4 DEF Tiling, Footed, Marked
<1>6. Rings(heap, Class(heap, T))
  <2> SUFFICES ASSUME NEW h \in Header
               PROVE  Ring(heap.prev, heap.next, Members(Class(heap, T), h), h)
    BY DEF Rings
  <2>1. Members(Class(heap, T), h) = {h}
    BY <1>4, HeaderFacts DEF Members, Class
  <2>2. heap.prev[h] = h /\ heap.next[h] = h
    BY <1>1, HeaderFacts
  <2> QED
    BY <2>1, <2>2 DEF Ring, Meets
<1>7. Used(heap, T) = {}
  BY <1>4 DEF Used
<1>8. Owned(heap, {}, live)
  BY <1>1 DEF Owned
<1>9. Good(heap, T)
  BY <1>3, <1>5, <1>6 DEF Good
<1>10. T \in SUBSET Unit
  BY <1>2
<1> QED
  BY <1>7, <1>8, <1>9, <1>10 DEF IInv

\* mm_malloc keeps the invariant.
LEMMA MallocInv ==
  ASSUME ClientKeepsOff, IInv, NEW n \in Requests, NEW word \in Data, Malloc(n, word)
  PROVE  IInv' /\ heap.brk <= heap'.brk /\ mm_malloc(heap, n).ptr \notin DOMAIN live
<1> DEFINE r == mm_malloc(heap, n)
           h == r.heap
           q == r.ptr
           w == Write(h, q, n, word)
           f == With(live, q, [size |-> n, word |-> word])
<1>1. PICK T \in SUBSET Unit : Good(heap, T) /\ Owned(heap, Used(heap, T), live)
  BY DEF IInv
<1>2. heap' = w /\ live' = f /\ h.top <= MAX_HEAP
  BY DEF Malloc, HasRoom, ClientKeepsOff
<1>3. n \in Nat \ {0} /\ n # MIN_CHUNK_SIZE
  BY RequestsAssumption DEF ClientKeepsOff
<1>4. PICK T2 : Allocated(heap, T, h, T2, q, n)
  BY <1>1, <1>2, <1>3, MallocAllocates
<1> HIDE DEF h, q
<1>5. /\ T2 \in SUBSET Unit /\ Good(h, T2) /\ q \notin Used(heap, T)
      /\ Used(h, T2) = Used(heap, T) \cup {q} /\ h.tag[q].size >= n
      /\ Undisturbed(heap, h, Used(heap, T)) /\ heap.brk <= h.brk
  BY <1>4 DEF Allocated
<1>6. /\ Good(w, T2) /\ w.brk = h.brk
      /\ Owned(w, Used(w, T2), f)
  <2>1. Rewritten(h, w, q, n) /\ Holds(w, q, n, word)
    BY <1>5, BlockHasUnits, WriteIs
  <2> HIDE DEF w
  <2> QED
    BY <1>1, <1>5, <2>1, WrittenIsOwned
<1>7. IInv'
  BY <1>2, <1>5, <1>6 DEF IInv
<1>8. q \notin DOMAIN live
  BY <1>1, <1>5 DEF Owned
<1> QED
  BY <1>2, <1>5, <1>6, <1>7, <1>8 DEF q

\* The other blocks, when one is given back.
LEMMA OthersAreOwned ==
  ASSUME NEW m, NEW S, NEW f, Owned(m, S, f), NEW p
  PROVE  DOMAIN f = S /\ Owned(m, S \ {p}, Restrict(f, DOMAIN f \ {p}))
BY DEF Owned, Restrict

\* mm_free keeps the invariant.
LEMMA FreeInv ==
  ASSUME IInv, NEW p \in DOMAIN live, Free(p)
  PROVE  IInv' /\ heap.brk <= heap'.brk
<1> DEFINE h == mm_free(heap, p)
           f == Without(p)
<1>1. PICK T \in SUBSET Unit : Good(heap, T) /\ Owned(heap, Used(heap, T), live)
  BY DEF IInv
<1> DEFINE S == Used(heap, T) \ {p}
<1>2. heap' = h /\ live' = f
  BY DEF Free
<1>3. p \in Used(heap, T)
  BY <1>1, OthersAreOwned
<1>4. Owned(heap, S, f)
  BY <1>1, OthersAreOwned DEF Without
<1>5. PICK T2 : Released(heap, T, h, T2, p)
  BY <1>1, <1>3, FreeReleases
<1> HIDE DEF h, f
<1>6. /\ T2 \in SUBSET Unit /\ Good(h, T2) /\ Used(h, T2) = S /\ Undisturbed(heap, h, S)
      /\ heap.brk <= h.brk
  BY <1>5 DEF Released
<1>7. ASSUME NEW c \in S
      PROVE  h.tag[c].size >= f[c].size /\ Holds(h, c, f[c].size, f[c].word)
  <2> DEFINE k == f[c].size
  <2>1. c \in T \ {heap.top}
    BY <1>7 DEF Used
  <2>2. c \in Nat /\ heap.tag[c].size \in Nat
    BY <1>1, <2>1, ChunkFacts
  <2>3. /\ f[c] \in [size : Requests, word : Data] /\ heap.tag[c].size >= k
        /\ Holds(heap, c, k, f[c].word)
    BY <1>4, <1>7 DEF Owned
  <2>4. k \in Nat
    BY <2>3, RequestsAssumption
  <2> HIDE DEF k, S
  <2>5. k <= heap.tag[c].size
    BY <2>2, <2>3, <2>4
  <2>6. Holds(h, c, k, f[c].word) /\ h.tag[c].size >= k
    BY <1>6, <1>7, <2>2, <2>3, <2>4, <2>5, HoldsStill
  <2> QED
    BY <2>6 DEF k
<1>8. Owned(h, S, f)
  BY <1>4, <1>7 DEF Owned
<1> HIDE DEF S
<1>9. IInv'
  BY <1>2, <1>6, <1>8 DEF IInv
<1> QED
  BY <1>2, <1>6, <1>9

\* mm_realloc keeps the invariant.
LEMMA ReallocInv ==
  ASSUME ClientKeepsOff, IInv, NEW p \in DOMAIN live, NEW n \in Requests,
         Realloc(p, n)
  PROVE  /\ IInv' /\ heap.brk <= heap'.brk
         /\ mm_realloc(heap, p, n).ptr \notin DOMAIN live \ {p}
<1> DEFINE r == mm_realloc(heap, p, n)
           h == r.heap
           q == r.ptr
           k == live[p].size
           word == live[p].word
           w == WriteEnd(h, q, k, n, word)
           g == Without(p)
           f == With(g, q, [size |-> n, word |-> word])
<1>1. PICK T \in SUBSET Unit : Good(heap, T) /\ Owned(heap, Used(heap, T), live)
  BY DEF IInv
<1> DEFINE S == Used(heap, T) \ {p}
<1>2. heap' = w /\ live' = f /\ h.top <= MAX_HEAP
  BY DEF Realloc, HasRoom, ClientKeepsOff
<1>3. n \in Nat \ {0} /\ n # MIN_CHUNK_SIZE
  BY RequestsAssumption DEF ClientKeepsOff
<1>4. p \in Used(heap, T)
  BY <1>1, OthersAreOwned
<1>5. Owned(heap, S, g)
  BY <1>1, OthersAreOwned DEF Without
<1>6. PICK T2 : Moved(heap, T, h, T2, p, q, n)
  BY <1>1, <1>2, <1>3, <1>4, ReallocMoves
<1> HIDE DEF h, q, g
<1>7. /\ T2 \in SUBSET Unit /\ Good(h, T2) /\ q \notin S
      /\ Used(h, T2) = S \cup {q} /\ h.tag[q].size >= n
      /\ Undisturbed(heap, h, S) /\ heap.brk <= h.brk
  BY <1>6 DEF Moved
<1>8. S \subseteq Used(heap, T)
  OBVIOUS
<1>9. DOMAIN live \ {p} = S
  BY <1>1 DEF Owned
<1> HIDE DEF S
<1>10. /\ p \in Nat /\ k \in Nat \ {0} /\ word \in Data /\ heap.tag[p].size \in Nat
       /\ k <= heap.tag[p].size /\ Holds(heap, p, k, word)
  <2>1. /\ live[p] \in [size : Requests, word : Data] /\ heap.tag[p].size >= k
        /\ Holds(heap, p, k, word)
    BY <1>1, <1>4 DEF Owned
  <2> QED
    BY <1>1, <1>4, <2>1, BlockHasUnits
<1> HIDE DEF k, word
<1>11. Good(w, T2) /\ w.brk = h.brk /\ Owned(w, Used(w, T2), f)
  <2>1. \A j \in Nat \ {0} : j <= n /\ j <= k => Holds(h, q, j, word)
    <3> SUFFICES ASSUME NEW j \in Nat \ {0}, j <= n, j <= k PROVE Holds(h, q, j, word)
      OBVIOUS
    <3>1. Holds(heap, p, j, word)
      BY <1>10, HoldsLess
    <3> DEFINE s == heap.tag[p].size
    <3>2. s \in Nat /\ k <= s
      BY <1>10
    <3> HIDE DEF s
    <3>3. j <= s
      BY <1>10, <3>2
    <3> QED
      BY <1>6, <1>10, <3>1, <3>3 DEF Moved, Copies, s
  <2>2. Rewritten(h, w, q, n) /\ Holds(w, q, n, word)
    BY <1>7, <1>10, <2>1, BlockHasUnits, WriteEndIs
  <2> HIDE DEF w
  <2> QED
    BY <1>1, <1>5, <1>7, <1>8, <1>10, <2>2, WrittenIsOwned
<1>12. IInv'
  BY <1>2, <1>7, <1>11 DEF IInv
<1> QED
  BY <1>2, <1>7, <1>9, <1>11, <1>12 DEF q

\* Every step keeps the invariant, and the break only moves up.
LEMMA NextInv ==
  ASSUME ClientKeepsOff, IInv, [Next]_vars
  PROVE  IInv' /\ heap.brk <= heap'.brk
<1>1. ASSUME NEW n \in Requests, NEW word \in Data, Malloc(n, word)
      PROVE  IInv' /\ heap.brk <= heap'.brk
  BY <1>1, MallocInv
<1>2. ASSUME NEW p \in DOMAIN live, Free(p)
      PROVE  IInv' /\ heap.brk <= heap'.brk
  BY <1>2, FreeInv
<1>3. ASSUME NEW p \in DOMAIN live, NEW n \in Requests, Realloc(p, n)
      PROVE  IInv' /\ heap.brk <= heap'.brk
  BY <1>3, ReallocInv
<1>4. CASE UNCHANGED vars
  <2>1. IInv'
    BY <1>4 DEF IInv, vars
  <2>2. heap.brk <= heap.brk
    BY GoodTypes DEF IInv
  <2> QED
    BY <1>4, <2>1, <2>2 DEF vars
<1> QED
  BY <1>1, <1>2, <1>3, <1>4 DEF Next

\* The inductive invariant holds in every state.
LEMMA AlwaysInv ==
  ASSUME ClientKeepsOff
  PROVE  Spec => []IInv
<1>1. Init => IInv
  BY InitInv
<1>2. IInv /\ [Next]_vars => IInv'
  BY NextInv
<1> QED
  BY <1>1, <1>2, PTL DEF Spec

-----------------------------------------------------------------------------
(***************************************************************************)
(* The properties.                                                         *)
(***************************************************************************)

\* What mm_check meets are the chunks and the lists.
LEMMA MetIsThere ==
  ASSUME NEW m, NEW T, Good(m, T)
  PROVE  /\ Boundaries(m) = T /\ Chunks(m) = T \ {m.top}
         /\ FreeChunks(m) = {c \in T \ {m.top} : ~m.tag[c].used}
         /\ Chunks(m) \ FreeChunks(m) = Used(m, T)
         /\ \A h \in Header : Reached(m, h) = Members(Class(m, T), h)
<1>1. /\ Tiling(m, T) /\ m.top \in Nat /\ m.top <= MAX_HEAP /\ MAX_HEAP \in Nat
  BY GoodTypes
<1>2. Boundaries(m) = T
  BY <1>1, BoundariesAreTiling
<1>3. ASSUME NEW h \in Header
      PROVE  Reached(m, h) = Members(Class(m, T), h)
  <2> DEFINE L == Members(Class(m, T), h)
  <2>1. Ring(m.prev, m.next, L, h) /\ IsFiniteSet(L) /\ Cardinality(L) <= MAX_HEAP + 1
    BY ListLengths
  <2> HIDE DEF L
  <2>2. Reached(m, h) = L
    BY <1>1, <2>1, ReachedIsRing
  <2> QED
    BY <2>2 DEF L
<1> QED
  BY <1>2, <1>3 DEF Chunks, FreeChunks, Used

\* The invariant says that the checker finds no fault.
LEMMA InvTiled ==
  ASSUME IInv
  PROVE  HeapIsTiled
<1>1. PICK T \in SUBSET Unit : Good(heap, T) /\ Owned(heap, Used(heap, T), live)
  BY DEF IInv
<1>2. /\ Boundaries(heap) = T /\ Chunks(heap) \ FreeChunks(heap) = Used(heap, T)
      /\ FreeChunks(heap) = {c \in T \ {heap.top} : ~heap.tag[c].used}
      /\ \A h \in Header : Reached(heap, h) = Members(Class(heap, T), h)
  BY <1>1, MetIsThere
<1>3. /\ heap \in Heap /\ heap.top \in T /\ T \subseteq 0 .. heap.top
      /\ Footed(heap, T)
  BY <1>1, GoodTypes
<1>4. \A h \in Header : h \in Members(Class(heap, T), h)
  BY HeaderFacts DEF Members, Class
<1>5. mm_check(heap)
  BY <1>2, <1>3, <1>4 DEF mm_check, Footed
<1>6. DOMAIN live = Used(heap, T)
      /\ \A p \in Used(heap, T) : heap.tag[p].size >= live[p].size
  BY <1>1 DEF Owned
<1> QED
  BY <1>2, <1>3, <1>5, <1>6 DEF HeapIsTiled

\* The invariant says that each cleared PUSED bit leads to a free chunk.
LEMMA InvPused ==
  ASSUME IInv
  PROVE  PusedIsTrue
<1>1. PICK T \in SUBSET Unit : Good(heap, T)
  BY DEF IInv
<1>2. /\ Chunks(heap) = T \ {heap.top}
      /\ FreeChunks(heap) = {c \in T \ {heap.top} : ~heap.tag[c].used}
  BY <1>1, MetIsThere
<1> SUFFICES ASSUME NEW c \in T \ {heap.top}, ~heap.tag[c].pused
             PROVE  /\ heap.foot[c - 1] \notin Data
                    /\ Before(heap, c) \in FreeChunks(heap)
  BY <1>2 DEF PusedIsTrue
<1>3. PICK b \in T \ {heap.top} : ~heap.tag[b].used /\ b + heap.tag[b].size = c
  BY <1>1, GoodTypes DEF Marked
<1> DEFINE s == heap.tag[b].size
<1>4. b \in Nat /\ s \in Nat /\ s \in Unit
  BY <1>1, ChunkFacts
<1>5. heap.foot[b + s - 1] = s
  BY <1>1, <1>3, GoodTypes DEF Footed
<1>6. s \notin Data
  BY <1>4, DataAssumption DEF Node
<1>7. b + s = c
  BY <1>3
<1> HIDE DEF s
<1>8. b + s - 1 = c - 1 /\ c - s = b
  BY <1>4, <1>7
<1>9. heap.foot[c - 1] = s
  BY <1>5, <1>8
<1> QED
  BY <1>2, <1>3, <1>6, <1>8, <1>9 DEF Before

\* The invariant says what the lists hold.
LEMMA InvLists ==
  ASSUME IInv
  PROVE  FreeListsAreExact
<1>1. PICK T \in SUBSET Unit : Good(heap, T)
  BY DEF IInv
<1> SUFFICES ASSUME NEW h \in Header
             PROVE  /\ Reached(heap, h) \ {h} =
                         {c \in FreeChunks(heap) : get_header(heap.tag[c].size) = h}
                    /\ \A a \in Reached(heap, h) \cup {h} : /\ heap.next[heap.prev[a]] = a
                                                            /\ heap.prev[heap.next[a]] = a
  BY DEF FreeListsAreExact
<1> DEFINE L == Members(Class(heap, T), h)
<1>2. /\ FreeChunks(heap) = {c \in T \ {heap.top} : ~heap.tag[c].used}
      /\ Reached(heap, h) = L
  BY <1>1, MetIsThere
<1>3. /\ Ring(heap.prev, heap.next, L, h)
      /\ \A a \in L : a # h => /\ a \in T \ {heap.top} /\ ~heap.tag[a].used
                               /\ get_header(heap.tag[a].size) = h
  BY <1>1, ListLengths
<1>4. ASSUME NEW c \in T \ {heap.top}, ~heap.tag[c].used, get_header(heap.tag[c].size) = h
      PROVE  c \in L \ {h}
  <2>1. c \in Node /\ c \notin Header
    BY <1>1, <1>4, ChunkFacts
  <2>2. Class(heap, T)[c] = h
    BY <1>1, <1>4, FreeClass
  <2> QED
    BY <2>1, <2>2 DEF Members
<1> HIDE DEF L
<1>5. \A a \in L \cup {h} : heap.next[heap.prev[a]] = a /\ heap.prev[heap.next[a]] = a
  BY <1>3 DEF Ring
<1> QED
  BY <1>2, <1>3, <1>4, <1>5

\* The invariant says that the blocks are as the client has left them.
LEMMA InvPayload ==
  ASSUME IInv
  PROVE  PayloadIntact
BY DEF IInv, Owned, PayloadIntact

\* After any sequence of calls mm_check would find no fault, and it would meet exactly the
\* blocks of the client as chunks in use, each of them large enough (mm.c:142-168).
THEOREM HeapStaysTiled ==
  ASSUME ClientKeepsOff
  PROVE  Spec => []HeapIsTiled
<1>1. IInv => HeapIsTiled
  BY InvTiled
<1> QED
  BY <1>1, AlwaysInv, PTL

\* Where a PUSED bit is cleared the chunk before is free and its size is in the word before
\* the tag, so mm_free reads no word of the client as a size (mm.c:280-287).  Of a bit that
\* is set nothing is said: a free chunk may lie before it, and stays apart (mm.c:228).
THEOREM ClearedPusedIsTrue ==
  ASSUME ClientKeepsOff
  PROVE  Spec => []PusedIsTrue
<1>1. IInv => PusedIsTrue
  BY InvPused
<1> QED
  BY <1>1, AlwaysInv, PTL

\* The free lists hold the free chunks, each in the list of its size, and their links agree
\* in both directions (mm.c:18-29, 114-128).
THEOREM FreeListsStayExact ==
  ASSUME ClientKeepsOff
  PROVE  Spec => []FreeListsAreExact
<1>1. IInv => FreeListsAreExact
  BY InvLists
<1> QED
  BY <1>1, AlwaysInv, PTL

\* No call changes a word of a block that the client still holds, and realloc moves the
\* words with the block (mm.c:341-344, mdriver.c:615-633).
THEOREM PayloadStaysIntact ==
  ASSUME ClientKeepsOff
  PROVE  Spec => []PayloadIntact
<1>1. IInv => PayloadIntact
  BY InvPayload
<1> QED
  BY <1>1, AlwaysInv, PTL

-----------------------------------------------------------------------------
(***************************************************************************)
(* The allocator implements AbstractHeap.                                  *)
(***************************************************************************)

Sizes == [p \in DOMAIN live |-> live[p].size]

\* The blocks lie in the heap and apart.
LEMMA BlocksLieApart ==
  ASSUME NEW m, NEW T, T \in SUBSET Unit, Good(m, T), NEW f, Owned(m, Used(m, T), f),
         NEW p \in DOMAIN f
  PROVE  /\ p \in Unit /\ p \in Nat /\ f[p].size \in Requests /\ f[p].size \in Nat
         /\ p + f[p].size <= m.brk
         /\ \A c \in DOMAIN f \ {p} :
              p + f[p].size <= c \/ c + f[c].size <= p
<1>1. /\ DOMAIN f = Used(m, T)
      /\ \A c \in DOMAIN f : /\ f[c] \in [size : Requests, word : Data]
                             /\ m.tag[c].size >= f[c].size
  BY DEF Owned
<1>2. ASSUME NEW c \in DOMAIN f
      PROVE  /\ c \in T \ {m.top} /\ c \in Nat /\ c \in Unit
             /\ f[c].size \in Requests /\ f[c].size \in Nat
             /\ c + f[c].size <= c + m.tag[c].size
             /\ c + m.tag[c].size <= m.top /\ m.tag[c].size \in Nat
  <2>1. c \in T \ {m.top}
    BY <1>1 DEF Used
  <2> DEFINE s == m.tag[c].size
             k == f[c].size
  <2>2. c \in Nat /\ c \in Unit /\ s \in Nat /\ c + s <= m.top
    BY <2>1, ChunkFacts
  <2>3. k \in Requests /\ k \in Nat /\ s >= k
    BY <1>1, RequestsAssumption
  <2> HIDE DEF s, k
  <2>4. c + k <= c + s
    BY <2>2, <2>3
  <2> QED
    BY <2>1, <2>2, <2>3, <2>4 DEF s, k
<1>3. m.top \in Nat /\ m.brk \in Nat /\ m.top <= m.brk /\ Tiling(m, T)
  BY GoodTypes DEF Extent
<1>4. p + f[p].size <= m.brk
  BY <1>2, <1>3
<1>5. ASSUME NEW c \in DOMAIN f \ {p}
      PROVE  p + f[p].size <= c \/ c + f[c].size <= p
  <2>1. c <= p \/ p + m.tag[p].size <= c
    BY <1>2, <1>3, Apart
  <2>2. p <= c \/ c + m.tag[c].size <= p
    BY <1>2, <1>3, Apart
  <2> QED
    BY <1>2, <1>5, <2>1, <2>2
<1> QED
  BY <1>2, <1>4, <1>5

\* A block that the client holds next to others f after a step is one that AbstractHeap
\* hands out.
LEMMA BlockFits ==
  ASSUME IInv', NEW f, NEW q, NEW n, q \notin DOMAIN f, NEW word,
         live' = With(f, q, [size |-> n, word |-> word])
  PROVE  LET B == [c \in DOMAIN f |-> f[c].size]
         IN  /\ Abstract!Fits(B, q, n) /\ Sizes' = Abstract!Hold(B, q, n) /\ q \in Unit
<1> DEFINE B == [c \in DOMAIN f |-> f[c].size]
<1>1. /\ DOMAIN live' = DOMAIN f \cup {q} /\ live'[q].size = n
      /\ \A c \in DOMAIN f : live'[c] = f[c]
  BY DEF With
<1>2. Sizes' = Abstract!Hold(B, q, n)
  BY <1>1 DEF Sizes, Abstract!Hold
<1>3. /\ q \in Unit /\ q \in Nat /\ n \in Nat /\ q + n <= heap'.brk
      /\ \A c \in DOMAIN f : q + n <= c \/ c + f[c].size <= q
      /\ \A c \in DOMAIN f : c \in Nat /\ f[c].size \in Nat
  <2>1. PICK T \in SUBSET Unit : Good(heap', T) /\ Owned(heap', Used(heap', T), live')
    BY DEF IInv
  <2> DEFINE g == live'
  <2>2. \A p \in DOMAIN g :
          /\ p \in Unit /\ p \in Nat /\ g[p].size \in Nat
          /\ p + g[p].size <= heap'.brk
          /\ \A c \in DOMAIN g \ {p} : p + g[p].size <= c \/ c + g[c].size <= p
    BY <2>1, BlocksLieApart
  <2> QED
    BY <1>1, <2>2
<1>4. Abstract!Disjoint(B, q, n)
  <2> SUFFICES ASSUME NEW c \in DOMAIN f
               PROVE  (q .. q + n - 1) \cap (c .. c + f[c].size - 1) = {}
    BY DEF Abstract!Disjoint, Abstract!Span
  <2> DEFINE k == f[c].size
  <2>1. q \in Nat /\ n \in Nat /\ c \in Nat /\ k \in Nat /\ (q + n <= c \/ c + k <= q)
    BY <1>3
  <2> HIDE DEF k
  <2>2. (q .. q + n - 1) \cap (c .. c + k - 1) = {}
    BY <2>1
  <2> QED
    BY <2>2 DEF k
<1> QED
  BY <1>2, <1>3, <1>4 DEF Abstract!Fits

\* Giving a block back is what AbstractHeap calls Release and begins Resize with.
LEMMA OthersSizes ==
  ASSUME NEW p \in DOMAIN live
  PROVE  LET f == Without(p)
         IN  /\ DOMAIN f = DOMAIN live \ {p}
             /\ [c \in DOMAIN f |-> f[c].size] = Restrict(Sizes, DOMAIN Sizes \ {p})
BY DEF Without, Restrict, Sizes

\* Each step of the allocator is one of AbstractHeap, or changes nothing that AbstractHeap
\* sees.
LEMMA StepRefines ==
  ASSUME ClientKeepsOff, IInv, [Next]_vars
  PROVE  [Abstract!AbsNext]_<<Sizes, heap.brk>>
<1>1. IInv' /\ heap.brk <= heap'.brk
  BY NextInv
<1>2. heap'.brk >= heap.brk
  <2>1. heap.brk \in Nat /\ heap'.brk \in Nat
    BY <1>1, GoodTypes DEF IInv
  <2> QED
    BY <1>1, <2>1
<1>3. ASSUME NEW n \in Requests, NEW word \in Data, Malloc(n, word)
      PROVE  Abstract!AbsNext
  <2> DEFINE q == mm_malloc(heap, n).ptr
  <2>1. q \notin DOMAIN live /\ live' = With(live, q, [size |-> n, word |-> word])
    BY <1>3, MallocInv DEF Malloc
  <2> HIDE DEF q
  <2>2. /\ Abstract!Fits(Sizes, q, n) /\ Sizes' = Abstract!Hold(Sizes, q, n) /\ q \in Unit
    BY <1>1, <2>1, BlockFits DEF Sizes
  <2>3. Abstract!Alloc(q, n)
    BY <2>2 DEF Abstract!Alloc, Sizes
  <2> QED
    BY <1>2, <2>2, <2>3 DEF Abstract!AbsNext
<1>4. ASSUME NEW p \in DOMAIN live, Free(p)
      PROVE  Abstract!AbsNext
  <2>1. live' = Without(p)
    BY <1>4 DEF Free
  <2>2. Abstract!Release(p)
    <3>1. Sizes' = Restrict(Sizes, DOMAIN Sizes \ {p})
      BY <2>1, OthersSizes DEF Sizes
    <3> QED
      BY <3>1 DEF Abstract!Release, Abstract!Restrict, Restrict, Sizes
  <2>3. p \in DOMAIN Sizes /\ p \in Unit /\ Requests # {}
    BY BlocksLieApart DEF Sizes, IInv
  <2> QED
    BY <1>2, <2>2, <2>3 DEF Abstract!AbsNext, Sizes
<1>5. ASSUME NEW p \in DOMAIN live, NEW n \in Requests, Realloc(p, n)
      PROVE  Abstract!AbsNext
  <2> DEFINE q == mm_realloc(heap, p, n).ptr
             word == live[p].word
             f == Without(p)
             B == [c \in DOMAIN f |-> f[c].size]
  <2>1. /\ q \notin DOMAIN live \ {p} /\ live' = With(f, q, [size |-> n, word |-> word])
    BY <1>5, ReallocInv DEF Realloc
  <2>2. DOMAIN f = DOMAIN live \ {p} /\ B = Restrict(Sizes, DOMAIN Sizes \ {p})
    BY OthersSizes
  <2> HIDE DEF q, f
  <2>3. /\ Abstract!Fits(B, q, n) /\ Sizes' = Abstract!Hold(B, q, n) /\ q \in Unit
    BY <1>1, <2>1, <2>2, BlockFits
  <2> HIDE DEF B
  <2>4. Abstract!Resize(p, q, n)
    <3>1. B = Abstract!Restrict(Sizes, DOMAIN Sizes \ {p})
      BY <2>2 DEF Restrict, Abstract!Restrict
    <3> QED
      BY <2>3, <3>1 DEF Abstract!Resize, Abstract!Fits, Sizes
  <2>5. p \in DOMAIN Sizes
    BY DEF Sizes
  <2> QED
    BY <1>2, <2>3, <2>4, <2>5 DEF Abstract!AbsNext, Sizes
<1>6. CASE UNCHANGED vars
  BY <1>6 DEF vars, Sizes
<1> QED
  BY <1>3, <1>4, <1>5, <1>6 DEF Next

\* The allocator implements AbstractHeap (mdriver.c:341-399, 570-640).
THEOREM AllocatorRefines ==
  ASSUME ClientKeepsOff
  PROVE  Spec => ImplementsAbstractHeap
<1>1. Init => Abstract!AbsInit
  <2> SUFFICES ASSUME Init PROVE Sizes = << >> /\ heap.brk = 0
    BY DEF Abstract!AbsInit, Sizes
  <2>1. live = << >> /\ heap.brk = 0
    BY DEF Init, mm_init, fresh
  <2> QED
    BY <2>1 DEF Sizes
<1>2. IInv /\ [Next]_vars => [Abstract!AbsNext]_<<Sizes, heap.brk>>
  BY StepRefines
<1> QED
  BY <1>1, <1>2, AlwaysInv, PTL
  DEF Spec, ImplementsAbstractHeap, Abstract!AbsSpec, Abstract!absVars, Sizes

=============================================================================
