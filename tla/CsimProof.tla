----------------------------- MODULE CsimProof ------------------------------
(***************************************************************************)
(* The cache simulator replaces the least recently used line, for every    *)
(* number of sets, of lines and of bytes in a block, and every trace.      *)
(*                                                                         *)
(* A trace line makes one visit or two, so the invariant is stated of any  *)
(* cache and any sequence of visits, and is kept by one visit.             *)
(***************************************************************************)
EXTENDS Csim, SequenceTheorems, Lemmas

-----------------------------------------------------------------------------
(***************************************************************************)
(* The parts of an address.                                                *)
(***************************************************************************)
BlockOf(a) == a \div 2 ^ blockBit

\* A set and a tag make a block.
LEMMA BlockIsSetAndTag ==
  /\ \A a \in Nat : SetIndex(a) \in SetIndexes /\ BlockOf(a) \in Nat
  /\ \A a, b \in Nat :
       BlockOf(a) = BlockOf(b) <=> SetIndex(a) = SetIndex(b) /\ TagOf(a) = TagOf(b)
<1> DEFINE x == 2 ^ blockBit
           y == 2 ^ setIndexBit
<1>1. x \in Nat \ {0} /\ y \in Nat \ {0} /\ 2 ^ (blockBit + setIndexBit) = x * y
  BY ShapeAssumption, PowerIsPositive, PowerOfSum
<1>2. \A a \in Nat : /\ BlockOf(a) = a \div x
                     /\ SetIndex(a) = (a \div x) % y /\ TagOf(a) = a \div (x * y)
  BY <1>1 DEF BlockOf, SetIndex, TagOf
<1>3. SetIndexes = 0 .. y - 1
  BY DEF SetIndexes
<1> HIDE DEF x, y
<1>4. \A a \in Nat : a \div x \in Nat
  BY <1>1, DivMod
<1>5. \A a \in Nat : a \div (x * y) = (a \div x) \div y
  BY <1>1, DivOfDiv
<1>6. \A n \in Nat : n % y \in 0 .. y - 1 /\ n = y * (n \div y) + (n % y)
  BY <1>1, DivMod
<1>7. ASSUME NEW a \in Nat, NEW b \in Nat
      PROVE  BlockOf(a) = BlockOf(b) <=> SetIndex(a) = SetIndex(b) /\ TagOf(a) = TagOf(b)
  <2> DEFINE m == a \div x
             n == b \div x
  <2>1. m \in Nat /\ n \in Nat
    BY <1>4
  <2>2. /\ BlockOf(a) = m /\ SetIndex(a) = m % y /\ TagOf(a) = m \div y
        /\ BlockOf(b) = n /\ SetIndex(b) = n % y /\ TagOf(b) = n \div y
    BY <1>2, <1>5
  <2>3. m % y = n % y /\ m \div y = n \div y => m = n
    BY <1>1, <2>1, SameDivMod
  <2> HIDE DEF m, n
  <2> QED
    BY <2>2, <2>3
<1>8. \A a \in Nat : SetIndex(a) \in SetIndexes /\ BlockOf(a) \in Nat
  BY <1>2, <1>3, <1>4, <1>6
<1> QED
  BY <1>7, <1>8

-----------------------------------------------------------------------------
(***************************************************************************)
(* The specification by the visits, of any sequence of them.               *)
(***************************************************************************)

\* The blocks of set s among the visits in K.
BlocksIn(vs, K, s) == {BlockOf(vs[j]) : j \in {i \in K : SetIndex(vs[i]) = s}}

\* The blocks of its set that were visited after visit k.
Newer(vs, k) == BlocksIn(vs, k + 1 .. Len(vs), SetIndex(vs[k]))

\* Visit k is the last one to its block.
IsLast(vs, k) == BlockOf(vs[k]) \notin Newer(vs, k)

\* The last visits to the e latest blocks of set s.
Kept(vs, s) == {k \in 1 .. Len(vs) : /\ SetIndex(vs[k]) = s
                                     /\ IsLast(vs, k) /\ Cardinality(Newer(vs, k)) < e}

HitsOf(vs) ==
  {k \in 1 .. Len(vs) :
     \E j \in 1 .. k - 1 :
       /\ BlockOf(vs[j]) = BlockOf(vs[k])
       /\ Cardinality(BlocksIn(vs, j + 1 .. k - 1, SetIndex(vs[k]))) < e}

EvictsOf(vs) ==
  {k \in 1 .. Len(vs) \ HitsOf(vs) :
     Cardinality(BlocksIn(vs, 1 .. k - 1, SetIndex(vs[k]))) >= e}

Visits == Seq(Addresses)

\* What a visit is to.
LEMMA VisitParts ==
  ASSUME NEW vs \in Visits
  PROVE  /\ Len(vs) \in Nat
         /\ \A k \in 1 .. Len(vs) : /\ vs[k] \in Nat /\ vs[k] \in Addresses
                                    /\ SetIndex(vs[k]) \in SetIndexes
                                    /\ BlockOf(vs[k]) \in Nat
         /\ \A j, k \in 1 .. Len(vs) :
              BlockOf(vs[j]) = BlockOf(vs[k])
                <=> SetIndex(vs[j]) = SetIndex(vs[k]) /\ TagOf(vs[j]) = TagOf(vs[k])
<1>1. Len(vs) \in Nat /\ \A k \in 1 .. Len(vs) : vs[k] \in Addresses
  BY LenProperties, ElementOfSeq DEF Visits
<1>2. \A k \in 1 .. Len(vs) : vs[k] \in Nat
  BY <1>1, AddressesAssumption
<1> QED
  BY <1>1, <1>2, BlockIsSetAndTag

\* The blocks among visits are finitely many, and more among more visits.
LEMMA BlocksInFinite ==
  ASSUME NEW vs, NEW a \in Int, NEW b \in Int, NEW s
  PROVE  /\ IsFiniteSet(BlocksIn(vs, a .. b, s))
         /\ Cardinality(BlocksIn(vs, a .. b, s)) \in Nat
<1> DEFINE K == {i \in a .. b : SetIndex(vs[i]) = s}
           B == BlocksIn(vs, a .. b, s)
           f == [j \in K |-> BlockOf(vs[j])]
<1>1. IsFiniteSet(a .. b)
  BY FS_Interval
<1>2. IsFiniteSet(K)
  <2>1. K \in SUBSET (a .. b)
    OBVIOUS
  <2> QED
    BY <1>1, <2>1, FS_Subset
<1>3. f \in Surjection(K, B)
  BY DEF Surjection, BlocksIn
<1>4. IsFiniteSet(B)
  <2> HIDE DEF f, K, B
  <2> QED
    BY <1>2, <1>3, FS_Surjection
<1> QED
  BY <1>4, FS_CardinalityType

\* The blocks newer than a visit contain those newer than a later visit to the same
\* set, and the block of that visit.
LEMMA NewerGrows ==
  ASSUME NEW vs \in Visits, NEW j \in 1 .. Len(vs), NEW k \in 1 .. Len(vs), j < k,
         SetIndex(vs[j]) = SetIndex(vs[k])
  PROVE  Newer(vs, k) \subseteq Newer(vs, j) /\ BlockOf(vs[k]) \in Newer(vs, j)
<1>1. Len(vs) \in Nat
  BY VisitParts
<1>2. k + 1 .. Len(vs) \subseteq j + 1 .. Len(vs) /\ k \in j + 1 .. Len(vs)
  BY <1>1
<1> QED
  BY <1>2 DEF Newer, BlocksIn

\* There are finitely many newer blocks.
LEMMA NewerFinite ==
  ASSUME NEW vs \in Visits, NEW k \in 1 .. Len(vs)
  PROVE  IsFiniteSet(Newer(vs, k)) /\ Cardinality(Newer(vs, k)) \in Nat
BY VisitParts, BlocksInFinite DEF Newer

\* A block has one last visit.
LEMMA LastIsUnique ==
  ASSUME NEW vs \in Visits, NEW j \in 1 .. Len(vs), NEW k \in 1 .. Len(vs),
         IsLast(vs, j), IsLast(vs, k), BlockOf(vs[j]) = BlockOf(vs[k])
  PROVE  j = k
<1>1. SetIndex(vs[j]) = SetIndex(vs[k]) /\ Len(vs) \in Nat
  BY VisitParts
<1>2. ~(j < k) /\ ~(k < j)
  BY <1>1, NewerGrows DEF IsLast
<1> QED
  BY <1>1, <1>2

\* A block that was visited has a last visit, no earlier than the one there is.
LEMMA LastExists ==
  ASSUME NEW vs \in Visits, NEW j \in 1 .. Len(vs)
  PROVE  \E k \in 1 .. Len(vs) : j <= k /\ BlockOf(vs[k]) = BlockOf(vs[j]) /\ IsLast(vs, k)
<1> DEFINE K == {k \in 1 .. Len(vs) : BlockOf(vs[k]) = BlockOf(vs[j])}
<1>1. Len(vs) \in Nat
  BY VisitParts
<1>2. IsFiniteSet(K) /\ K \subseteq Nat /\ j \in K
  <2>1. IsFiniteSet(1 .. Len(vs)) /\ K \in SUBSET (1 .. Len(vs))
    BY <1>1, FS_Interval
  <2> QED
    BY <2>1, FS_Subset
<1>3. PICK k \in K : \A i \in K : k >= i
  <2> HIDE DEF K
  <2> QED
    BY <1>2, GreatestExists
<1>4. \A i \in k + 1 .. Len(vs) : BlockOf(vs[i]) # BlockOf(vs[k])
  BY <1>1, <1>3
<1>5. IsLast(vs, k)
  BY <1>4 DEF IsLast, Newer, BlocksIn
<1> QED
  BY <1>2, <1>3, <1>5

-----------------------------------------------------------------------------
(***************************************************************************)
(* What one more visit, to address a, changes.                             *)
(***************************************************************************)

\* The visits before it stay, and the block of a becomes newer than all of its set.
LEMMA OneMoreVisit ==
  ASSUME NEW vs \in Visits, NEW a \in Addresses
  PROVE  /\ Append(vs, a) \in Visits
         /\ Len(Append(vs, a)) = Len(vs) + 1 /\ Len(vs) \in Nat
         /\ \A k \in 1 .. Len(vs) : Append(vs, a)[k] = vs[k]
         /\ Append(vs, a)[Len(vs) + 1] = a
         /\ Newer(Append(vs, a), Len(vs) + 1) = {}
         /\ \A k \in 1 .. Len(vs) :
              Newer(Append(vs, a), k) = IF SetIndex(vs[k]) = SetIndex(a)
                                        THEN Newer(vs, k) \cup {BlockOf(a)}
                                        ELSE Newer(vs, k)
<1> DEFINE ws == Append(vs, a)
           n == Len(vs)
<1>1. /\ ws \in Visits /\ Len(ws) = n + 1 /\ n \in Nat
      /\ \A k \in 1 .. n : ws[k] = vs[k]
      /\ ws[n + 1] = a
  BY AppendProperties, LenProperties DEF Visits
<1> HIDE DEF ws, n
<1>2. Newer(ws, n + 1) = {}
  BY <1>1 DEF Newer, BlocksIn
<1>3. ASSUME NEW k \in 1 .. n
      PROVE  Newer(ws, k) = IF SetIndex(vs[k]) = SetIndex(a)
                            THEN Newer(vs, k) \cup {BlockOf(a)} ELSE Newer(vs, k)
  <2> DEFINE s == SetIndex(vs[k])
             I == {i \in k + 1 .. n + 1 : SetIndex(ws[i]) = s}
             J == {i \in k + 1 .. n : SetIndex(vs[i]) = s}
  <2>1. k + 1 .. n + 1 = (k + 1 .. n) \cup {n + 1}
    BY <1>1
  <2>2. I = IF s = SetIndex(a) THEN J \cup {n + 1} ELSE J
    BY <1>1, <2>1
  <2>3. \A i \in J : ws[i] = vs[i]
    BY <1>1
  <2>4. Newer(ws, k) = {BlockOf(ws[i]) : i \in I}
    BY <1>1 DEF Newer, BlocksIn
  <2>5. Newer(vs, k) = {BlockOf(vs[i]) : i \in J}
    BY DEF Newer, BlocksIn, n
  <2> HIDE DEF I, J, s
  <2>6. {BlockOf(ws[i]) : i \in J} = {BlockOf(vs[i]) : i \in J}
    BY <2>3
  <2>7. CASE s = SetIndex(a)
    <3>1. {BlockOf(ws[i]) : i \in J \cup {n + 1}} =
          {BlockOf(ws[i]) : i \in J} \cup {BlockOf(ws[n + 1])}
      OBVIOUS
    <3> QED
      BY <1>1, <2>2, <2>4, <2>5, <2>6, <2>7, <3>1 DEF s
  <2>8. CASE s # SetIndex(a)
    BY <2>2, <2>4, <2>5, <2>6, <2>8 DEF s
  <2> QED
    BY <2>7, <2>8
<1> QED
  BY <1>1, <1>2, <1>3 DEF ws, n

\* A visit that is kept stays so if its block is another one and has not become one too
\* old; the new visit is kept.
LEMMA KeptAfter ==
  ASSUME NEW vs \in Visits, NEW a \in Addresses
  PROVE  /\ Kept(Append(vs, a), SetIndex(a)) =
              {k \in Kept(vs, SetIndex(a)) :
                 /\ BlockOf(vs[k]) # BlockOf(a)
                 /\ Cardinality(Newer(vs, k) \cup {BlockOf(a)}) < e} \cup {Len(vs) + 1}
         /\ \A s : s # SetIndex(a) => Kept(Append(vs, a), s) = Kept(vs, s)
<1> DEFINE ws == Append(vs, a)
           n == Len(vs)
<1>0. /\ ws \in Visits /\ Len(ws) = n + 1 /\ n \in Nat
      /\ \A k \in 1 .. n : ws[k] = vs[k]
      /\ ws[n + 1] = a /\ Newer(ws, n + 1) = {}
      /\ \A k \in 1 .. n :
           Newer(ws, k) = IF SetIndex(vs[k]) = SetIndex(a)
                          THEN Newer(vs, k) \cup {BlockOf(a)} ELSE Newer(vs, k)
  BY OneMoreVisit
<1> HIDE DEF ws, n
<1>1. 1 .. n + 1 = (1 .. n) \cup {n + 1}
  BY <1>0
<1>2. \A s : n + 1 \in Kept(ws, s) <=> s = SetIndex(a)
  <2>1. IsLast(ws, n + 1) /\ Cardinality(Newer(ws, n + 1)) < e
    <3>1. IsLast(ws, n + 1)
      BY <1>0 DEF IsLast
    <3>2. Cardinality(Newer(ws, n + 1)) = 0
      BY <1>0, FS_EmptySet
    <3> QED
      BY <3>1, <3>2, ShapeAssumption
  <2>2. n + 1 \in 1 .. Len(ws) /\ ws[n + 1] = a
    BY <1>0
  <2> QED
    BY <2>1, <2>2 DEF Kept
<1>3. ASSUME NEW k \in 1 .. n, NEW s, s # SetIndex(a)
      PROVE  k \in Kept(ws, s) <=> k \in Kept(vs, s)
  <2>1. CASE SetIndex(vs[k]) = s
    <3>1. Newer(ws, k) = Newer(vs, k) /\ ws[k] = vs[k] /\ k \in 1 .. Len(ws)
      BY <1>0, <1>3, <2>1
    <3> QED
      BY <3>1 DEF Kept, IsLast, n
  <2>2. CASE SetIndex(vs[k]) # s
    BY <1>0, <2>2 DEF Kept
  <2> QED
    BY <2>1, <2>2
<1>4. ASSUME NEW k \in 1 .. n
      PROVE  k \in Kept(ws, SetIndex(a))
               <=> /\ k \in Kept(vs, SetIndex(a)) /\ BlockOf(vs[k]) # BlockOf(a)
                   /\ Cardinality(Newer(vs, k) \cup {BlockOf(a)}) < e
  <2>1. CASE SetIndex(vs[k]) # SetIndex(a)
    BY <1>0, <2>1 DEF Kept
  <2>2. CASE SetIndex(vs[k]) = SetIndex(a)
    <3>1. Newer(ws, k) = Newer(vs, k) \cup {BlockOf(a)} /\ ws[k] = vs[k] /\ k \in 1 .. Len(ws)
      BY <1>0, <2>2
    <3>2. IsFiniteSet(Newer(vs, k)) /\ Cardinality(Newer(vs, k)) \in Nat
      BY NewerFinite DEF n
    <3>3. /\ Cardinality(Newer(vs, k) \cup {BlockOf(a)}) \in Nat
          /\ Cardinality(Newer(vs, k)) <= Cardinality(Newer(vs, k) \cup {BlockOf(a)})
      BY <3>2, OneMore
    <3>4. Cardinality(Newer(vs, k) \cup {BlockOf(a)}) < e => Cardinality(Newer(vs, k)) < e
      BY <3>2, <3>3, ShapeAssumption
    <3>5. IsLast(ws, k) <=> IsLast(vs, k) /\ BlockOf(vs[k]) # BlockOf(a)
      BY <3>1 DEF IsLast
    <3>6. k \in Kept(ws, SetIndex(a)) <=> /\ IsLast(ws, k)
                                          /\ Cardinality(Newer(vs, k) \cup {BlockOf(a)}) < e
      BY <2>2, <3>1 DEF Kept
    <3>7. k \in Kept(vs, SetIndex(a)) <=> /\ IsLast(vs, k) /\ Cardinality(Newer(vs, k)) < e
      BY <2>2 DEF Kept, n
    <3> QED
      BY <3>4, <3>5, <3>6, <3>7
  <2> QED
    BY <2>1, <2>2
<1>5. \A s : Kept(ws, s) \subseteq 1 .. n + 1 /\ Kept(vs, s) \subseteq 1 .. n
  BY <1>0 DEF Kept, n
<1>6. \A s : n + 1 \notin Kept(vs, s)
  BY <1>0, <1>5
<1>7. \A s : s # SetIndex(a) => Kept(ws, s) = Kept(vs, s)
  BY <1>1, <1>2, <1>3, <1>5, <1>6
<1>8. Kept(ws, SetIndex(a)) =
        {k \in Kept(vs, SetIndex(a)) :
           /\ BlockOf(vs[k]) # BlockOf(a)
           /\ Cardinality(Newer(vs, k) \cup {BlockOf(a)}) < e} \cup {n + 1}
  BY <1>1, <1>2, <1>4, <1>5
<1> QED
  BY <1>7, <1>8 DEF ws, n

-----------------------------------------------------------------------------
(***************************************************************************)
(* A visit to the lines of a set.                                          *)
(***************************************************************************)
Lines == [1 .. e -> Line]

\* The time given to the visited line is later than that of all others.
LEMMA LatestTimeIsLatest ==
  ASSUME NEW L \in Lines
  PROVE  /\ latestVisitTime(L) \in Nat
         /\ \A i \in Valid(L) : L[i].lastVisitTime < latestVisitTime(L)
<1> DEFINE V == Valid(L)
           f == [i \in V |-> L[i].lastVisitTime]
           U == {L[i].lastVisitTime : i \in V}
           T == {0} \cup U
<1>1. V \subseteq 1 .. e /\ \A i \in V : L[i].lastVisitTime \in Nat
  BY DEF Valid, Lines, Line
<1>2. IsFiniteSet(V)
  <2>1. IsFiniteSet(1 .. e)
    BY FS_Interval, ShapeAssumption
  <2> QED
    BY <1>1, <2>1, FS_Subset
<1>3. f \in Surjection(V, U)
  BY DEF Surjection
<1>4. IsFiniteSet(T)
  <2>1. IsFiniteSet(U)
    <3> HIDE DEF V, f, U
    <3> QED
      BY <1>2, <1>3, FS_Surjection
  <2> QED
    BY <2>1, FS_EmptySet, FS_AddElement, FS_Singleton, FS_Union
<1>5. T \subseteq Nat
  BY <1>1
<1>6. Max(T) \in Nat /\ \A t \in T : Max(T) >= t
  <2> HIDE DEF T
  <2>1. T # {}
    BY DEF T
  <2> QED
    BY <1>4, <1>5, <2>1, MaxIsGreatest
<1>7. latestVisitTime(L) = Max(T) + 1
  BY DEF latestVisitTime
<1>8. \A i \in V : L[i].lastVisitTime \in T
  OBVIOUS
<1> HIDE DEF T, U, f
<1> QED
  BY <1>1, <1>6, <1>7, <1>8

\* The line that is evicted is a valid one and no younger than any other.
LEMMA OldestIsOldest ==
  ASSUME NEW L \in Lines, Valid(L) # {}
  PROVE  /\ OldestLine(L) \in Valid(L)
         /\ \A k \in Valid(L) : L[OldestLine(L)].lastVisitTime <= L[k].lastVisitTime
<1> DEFINE V == Valid(L)
           U == {L[i].lastVisitTime : i \in V}
           O == {i \in V : \A k \in V : L[i].lastVisitTime <= L[k].lastVisitTime}
<1>1. V \subseteq 1 .. e /\ \A i \in V : L[i].lastVisitTime \in Nat
  BY DEF Valid, Lines, Line
<1>2. U \subseteq Nat /\ U # {}
  BY <1>1
<1>3. PICK t \in U : \A u \in U : t <= u
  <2> HIDE DEF U
  <2> QED
    BY <1>2, LeastExists
<1>4. O # {}
  BY <1>3
<1>5. O \subseteq Nat
  BY <1>1
<1>6. Min(O) \in O
  <2> HIDE DEF O
  <2> QED
    BY <1>4, <1>5, MinIsLeast
<1>7. OldestLine(L) = Min(O)
  BY DEF OldestLine
<1> QED
  BY <1>6, <1>7

\* Line i of L is given to tag, as the line visited last.
Placed(L, i, tag) ==
  [L EXCEPT ![i] = [tag |-> tag, valid |-> TRUE, lastVisitTime |-> latestVisitTime(L)]]

Found(L, tag) == {i \in Valid(L) : L[i].tag = tag}

\* A visit places the tag: where it is, else in a line not in use, else in the oldest.
LEMMA VisitPlaces ==
  ASSUME NEW L \in Lines, NEW tag
  PROVE  LET v == setVisitAddress(L, tag)
         IN  \E i \in 1 .. e :
               /\ v.lines = Placed(L, i, tag)
               /\ \/ v.result = "hit" /\ i \in Found(L, tag)
                  \/ v.result = "miss" /\ Found(L, tag) = {} /\ i \notin Valid(L)
                  \/ /\ v.result = "eviction" /\ Found(L, tag) = {} /\ Valid(L) = 1 .. e
                     /\ \A k \in Valid(L) : L[i].lastVisitTime <= L[k].lastVisitTime
<1> DEFINE v == setVisitAddress(L, tag)
           found == Found(L, tag)
           empty == (1 .. e) \ Valid(L)
           Visit(i, result) == [lines |-> Placed(L, i, tag), result |-> result]
<1>1. DOMAIN L = 1 .. e /\ Valid(L) \subseteq 1 .. e /\ 1 .. e \subseteq Nat
  BY ShapeAssumption DEF Lines, Valid
<1>2. v = CASE found # {} -> Visit(Min(found), "hit")
            [] found = {} /\ empty # {} -> Visit(Min(empty), "miss")
            [] OTHER -> Visit(OldestLine(L), "eviction")
  BY <1>1 DEF setVisitAddress, Found, Placed
<1>3. CASE found # {}
  <2>1. Min(found) \in found
    <3>1. found \subseteq Nat
      BY <1>1 DEF Found
    <3> QED
      BY <1>3, <3>1, MinIsLeast
  <2>2. v = Visit(Min(found), "hit")
    BY <1>2, <1>3
  <2>3. v.lines = Placed(L, Min(found), tag) /\ v.result = "hit" /\ Min(found) \in 1 .. e
    BY <1>1, <2>1, <2>2 DEF Found
  <2> QED
    BY <2>1, <2>3
<1>4. CASE found = {} /\ empty # {}
  <2>1. Min(empty) \in empty
    <3>1. empty \subseteq Nat
      BY <1>1
    <3> QED
      BY <1>4, <3>1, MinIsLeast
  <2>2. v = Visit(Min(empty), "miss")
    BY <1>2, <1>4
  <2>3. v.lines = Placed(L, Min(empty), tag) /\ v.result = "miss" /\ Min(empty) \in 1 .. e
    BY <2>1, <2>2
  <2> QED
    BY <1>4, <2>1, <2>3
<1>5. CASE found = {} /\ empty = {}
  <2>1. Valid(L) = 1 .. e /\ Valid(L) # {}
    <3>1. 1 \in 1 .. e
      BY ShapeAssumption
    <3> QED
      BY <1>1, <1>5, <3>1
  <2>2. v = Visit(OldestLine(L), "eviction")
    BY <1>2, <1>5
  <2>3. v.lines = Placed(L, OldestLine(L), tag) /\ v.result = "eviction"
    BY <2>2
  <2> QED
    BY <1>5, <2>1, <2>3, OldestIsOldest
<1> QED
  BY <1>3, <1>4, <1>5

-----------------------------------------------------------------------------
(***************************************************************************)
(* The lines of a set against the visits.                                  *)
(***************************************************************************)

\* Line i of L holds the block of visit k.
Holds(L, i, vs, k) == i \in Valid(L) /\ L[i].tag = TagOf(vs[k])

\* A valid line holds one of the e latest blocks of set s, each of which is held, by one
\* line, and the lines were used in the order of the last visits.
HoldsKept(L, vs, s) ==
  /\ L \in Lines
  /\ \A i \in Valid(L) : \E k \in Kept(vs, s) : Holds(L, i, vs, k)
  /\ \A k \in Kept(vs, s) : \E i \in Valid(L) : Holds(L, i, vs, k)
  /\ \A i, j \in Valid(L) : L[i].tag = L[j].tag => i = j
  /\ \A j, k \in Kept(vs, s) : \A a, b \in Valid(L) :
       j < k /\ Holds(L, a, vs, j) /\ Holds(L, b, vs, k)
         => L[a].lastVisitTime < L[b].lastVisitTime

\* As long as there is a line that is not in use, all blocks of the set are held.
RoomHoldsAll(L, vs, s) ==
  Valid(L) # 1 .. e =>
    \A k \in 1 .. Len(vs) : SetIndex(vs[k]) = s => \E i \in Valid(L) : Holds(L, i, vs, k)

\* What is valid once a tag has been placed.
LEMMA PlacedLine ==
  ASSUME NEW L \in Lines, NEW i \in 1 .. e, NEW tag \in Tags
  PROVE  /\ Placed(L, i, tag) \in Lines
         /\ Valid(Placed(L, i, tag)) = Valid(L) \cup {i}
         /\ Placed(L, i, tag)[i].tag = tag
         /\ Placed(L, i, tag)[i].lastVisitTime = latestVisitTime(L)
         /\ \A j \in 1 .. e : j # i => Placed(L, i, tag)[j] = L[j]
         /\ Valid(L) \subseteq 1 .. e
<1> DEFINE new == [tag |-> tag, valid |-> TRUE, lastVisitTime |-> latestVisitTime(L)]
           M == [L EXCEPT ![i] = new]
<1>1. new \in Line
  BY LatestTimeIsLatest DEF Line
<1>2. /\ M \in Lines /\ M[i] = new
      /\ \A j \in 1 .. e : j # i => M[j] = L[j]
  BY <1>1 DEF Lines
<1>3. M[i].valid /\ M[i].tag = tag /\ M[i].lastVisitTime = latestVisitTime(L)
  BY <1>2
<1>4. Placed(L, i, tag) = M
  BY DEF Placed
<1> HIDE DEF M, new
<1>5. DOMAIN L = 1 .. e /\ DOMAIN M = 1 .. e
  BY <1>2 DEF Lines
<1>6. Valid(M) = Valid(L) \cup {i} /\ Valid(L) \subseteq 1 .. e
  BY <1>2, <1>3, <1>5 DEF Valid
<1> QED
  BY <1>2, <1>3, <1>4, <1>6

\* A visit to a that is placed in line i keeps HoldsKept, when what remains of the kept
\* visits are those that line i did not hold, and no other line holds the block of a.
LEMMA PlaceKeeps ==
  ASSUME NEW vs \in Visits, NEW a \in Addresses, NEW L, NEW i \in 1 .. e,
         HoldsKept(L, vs, SetIndex(a)),
         Kept(Append(vs, a), SetIndex(a)) =
           {k \in Kept(vs, SetIndex(a)) : ~Holds(L, i, vs, k)} \cup {Len(vs) + 1},
         \A j \in Valid(L) : L[j].tag = TagOf(a) => j = i
  PROVE  HoldsKept(Placed(L, i, TagOf(a)), Append(vs, a), SetIndex(a))
<1> DEFINE ws == Append(vs, a)
           n == Len(vs)
           s == SetIndex(a)
           M == Placed(L, i, TagOf(a))
           K == Kept(vs, s)
           Rest == {k \in K : ~Holds(L, i, vs, k)}
<1>0. L \in Lines /\ TagOf(a) \in Tags
  BY DEF HoldsKept, Tags
<1>1. /\ n \in Nat /\ ws[n + 1] = a /\ \A k \in 1 .. n : ws[k] = vs[k]
      /\ K \subseteq 1 .. n
  BY OneMoreVisit DEF Kept
<1>2. /\ M \in Lines /\ Valid(M) = Valid(L) \cup {i} /\ M[i].tag = TagOf(a)
      /\ M[i].lastVisitTime = latestVisitTime(L)
      /\ \A j \in 1 .. e : j # i => M[j] = L[j]
      /\ Valid(L) \subseteq 1 .. e
  BY <1>0, PlacedLine
<1>3. Kept(ws, s) = Rest \cup {n + 1} /\ n + 1 \notin Rest
  BY <1>1
<1>4. /\ \A j \in Valid(L) : \E k \in K : Holds(L, j, vs, k)
      /\ \A k \in K : \E j \in Valid(L) : Holds(L, j, vs, k)
      /\ \A j, k \in Valid(L) : L[j].tag = L[k].tag => j = k
      /\ \A j, k \in K : \A x, y \in Valid(L) :
           j < k /\ Holds(L, x, vs, j) /\ Holds(L, y, vs, k)
             => L[x].lastVisitTime < L[y].lastVisitTime
  BY DEF HoldsKept
<1>5. \A j \in Valid(L) : L[j].tag = TagOf(a) => j = i
  OBVIOUS
<1>6. \A j \in Valid(L) : L[j].lastVisitTime < latestVisitTime(L)
  BY <1>0, LatestTimeIsLatest
<1> HIDE DEF ws, n, s, M, K
\* What the other lines hold is what they held.
<1>7. ASSUME NEW j \in Valid(M), j # i, NEW k \in K
      PROVE  Holds(M, j, ws, k) <=> Holds(L, j, vs, k)
  BY <1>1, <1>2, <1>7 DEF Holds
<1>8. Holds(M, i, ws, n + 1)
  BY <1>1, <1>2 DEF Holds
\* Line i holds no visit that remains, and no other line the new one.
<1>9. ASSUME NEW k \in Rest
      PROVE  ~Holds(M, i, ws, k)
  <2>1. PICK j \in Valid(L) : Holds(L, j, vs, k)
    BY <1>4
  <2>2. j # i
    BY <2>1
  <2>3. L[j].tag = TagOf(vs[k]) /\ L[j].tag # TagOf(a)
    BY <1>5, <2>1, <2>2 DEF Holds
  <2> QED
    BY <1>1, <1>2, <2>3 DEF Holds
<1>10. \A j \in Valid(M) : Holds(M, j, ws, n + 1) => j = i
  BY <1>1, <1>2, <1>5 DEF Holds
<1>11. \A j \in Valid(M) : \E k \in Kept(ws, s) : Holds(M, j, ws, k)
  <2> TAKE j \in Valid(M)
  <2>1. CASE j = i
    BY <1>3, <1>8, <2>1
  <2>2. CASE j # i
    <3>1. j \in Valid(L)
      BY <1>2, <2>2
    <3>2. PICK k \in K : Holds(L, j, vs, k)
      BY <1>4, <3>1
    <3>3. ~Holds(L, i, vs, k)
      BY <1>4, <2>2, <3>1, <3>2 DEF Holds
    <3> QED
      BY <1>3, <1>7, <2>2, <3>2, <3>3
  <2> QED
    BY <2>1, <2>2
<1>12. \A k \in Kept(ws, s) : \E j \in Valid(M) : Holds(M, j, ws, k)
  <2> TAKE k \in Kept(ws, s)
  <2>1. CASE k = n + 1
    BY <1>2, <1>8, <2>1
  <2>2. CASE k \in Rest
    <3>1. PICK j \in Valid(L) : Holds(L, j, vs, k)
      BY <1>4, <2>2
    <3>2. j # i /\ j \in Valid(M)
      BY <1>2, <2>2, <3>1
    <3> QED
      BY <1>7, <2>2, <3>1, <3>2
  <2> QED
    BY <1>3, <2>1, <2>2
<1>13. \A j, k \in Valid(M) : M[j].tag = M[k].tag => j = k
  BY <1>2, <1>4, <1>5
<1>14. ASSUME NEW j \in Kept(ws, s), NEW k \in Kept(ws, s), NEW x \in Valid(M),
              NEW y \in Valid(M), j < k, Holds(M, x, ws, j), Holds(M, y, ws, k)
       PROVE  M[x].lastVisitTime < M[y].lastVisitTime
  <2>1. j \in Rest
    <3>1. \A m \in Rest \cup {n + 1} : m \in Nat /\ m <= n + 1
      BY <1>1
    <3>2. j # n + 1
      <4>1. /\ j \in Rest \cup {n + 1} /\ k \in Rest \cup {n + 1}
        BY <1>3, <1>14
      <4>2. k \in Nat /\ k <= n + 1 /\ j < k /\ n \in Nat
        BY <1>1, <1>14, <3>1, <4>1
      <4> QED
        BY <4>2
    <3> QED
      BY <1>3, <1>14, <3>2
  <2>2. x # i /\ x \in Valid(L) /\ Holds(L, x, vs, j) /\ M[x] = L[x]
    <3>1. x # i
      BY <1>9, <1>14, <2>1
    <3>2. x \in Valid(L) /\ M[x] = L[x]
      BY <1>2, <3>1
    <3> QED
      BY <1>7, <1>14, <2>1, <3>1, <3>2
  <2>3. CASE k = n + 1
    <3>1. y = i
      <4>1. Holds(M, y, ws, n + 1)
        BY <1>14, <2>3
      <4> QED
        BY <1>10, <4>1
    <3>2. L[x].lastVisitTime < latestVisitTime(L)
      BY <1>6, <2>2
    <3> QED
      BY <1>2, <2>2, <3>1, <3>2
  <2>4. CASE k \in Rest
    <3>1. y # i
      BY <1>9, <1>14, <2>4
    <3>2. y \in Valid(L) /\ M[y] = L[y]
      BY <1>2, <3>1
    <3>3. Holds(L, y, vs, k)
      BY <1>7, <1>14, <2>4, <3>1, <3>2
    <3> QED
      BY <1>4, <1>14, <2>1, <2>2, <2>4, <3>2, <3>3
  <2> QED
    BY <1>3, <2>3, <2>4
<1> HIDE DEF Rest
<1>15. HoldsKept(M, ws, s)
  BY <1>2, <1>11, <1>12, <1>13, <1>14 DEF HoldsKept
<1> QED
  BY <1>15 DEF M, ws, s

-----------------------------------------------------------------------------
(***************************************************************************)
(* The visits that are kept, after a hit, a miss and an eviction.          *)
(***************************************************************************)

\* Of the visits to one set, those with one tag are to one block, and one of them is kept.
LEMMA TagIsBlock ==
  ASSUME NEW vs \in Visits
  PROVE  /\ \A a \in Addresses : \A k \in 1 .. Len(vs) :
              SetIndex(vs[k]) = SetIndex(a)
                => (TagOf(vs[k]) = TagOf(a) <=> BlockOf(vs[k]) = BlockOf(a))
         /\ \A s : \A k \in Kept(vs, s) :
              /\ k \in 1 .. Len(vs) /\ k \in Nat
              /\ SetIndex(vs[k]) = s /\ IsLast(vs, k) /\ Cardinality(Newer(vs, k)) < e
         /\ \A s : \A j, k \in Kept(vs, s) :
              /\ TagOf(vs[j]) = TagOf(vs[k]) <=> j = k
              /\ BlockOf(vs[j]) = BlockOf(vs[k]) <=> j = k
<1>1. \A a \in Addresses : a \in Nat
  BY AddressesAssumption
<1>2. \A k \in 1 .. Len(vs) : vs[k] \in Nat
  BY VisitParts
<1>3. \A a \in Addresses : \A k \in 1 .. Len(vs) :
        SetIndex(vs[k]) = SetIndex(a)
          => (TagOf(vs[k]) = TagOf(a) <=> BlockOf(vs[k]) = BlockOf(a))
  BY <1>1, <1>2, BlockIsSetAndTag
<1>4. \A s : \A k \in Kept(vs, s) :
        /\ k \in 1 .. Len(vs) /\ k \in Nat
        /\ SetIndex(vs[k]) = s /\ IsLast(vs, k) /\ Cardinality(Newer(vs, k)) < e
  BY DEF Kept
<1>5. ASSUME NEW s, NEW j \in Kept(vs, s), NEW k \in Kept(vs, s)
      PROVE  /\ TagOf(vs[j]) = TagOf(vs[k]) <=> j = k
             /\ BlockOf(vs[j]) = BlockOf(vs[k]) <=> j = k
  <2>1. BlockOf(vs[j]) = BlockOf(vs[k]) => j = k
    BY <1>4, LastIsUnique
  <2>2. BlockOf(vs[j]) = BlockOf(vs[k]) <=> TagOf(vs[j]) = TagOf(vs[k])
    BY <1>4, VisitParts
  <2> QED
    BY <2>1, <2>2
<1> QED
  BY <1>3, <1>4, <1>5

\* Fewer blocks are newer than a later last visit, by one at least.
LEMMA LaterHasFewerNewer ==
  ASSUME NEW vs \in Visits, NEW s, NEW j \in Kept(vs, s), NEW k \in Kept(vs, s), j < k
  PROVE  /\ Cardinality(Newer(vs, k)) + 1 <= Cardinality(Newer(vs, j))
         /\ BlockOf(vs[k]) \in Newer(vs, j)
<1> DEFINE N == Newer(vs, k)
           O == Newer(vs, j)
           b == BlockOf(vs[k])
<1>1. /\ j \in 1 .. Len(vs) /\ k \in 1 .. Len(vs)
      /\ SetIndex(vs[j]) = SetIndex(vs[k]) /\ b \notin N
  BY DEF Kept, IsLast
<1>2. N \subseteq O /\ b \in O
  BY <1>1, NewerGrows
<1>3. IsFiniteSet(N) /\ IsFiniteSet(O) /\ Cardinality(N) \in Nat /\ Cardinality(O) \in Nat
  BY <1>1, NewerFinite
<1> HIDE DEF N, O, b
<1>4. Cardinality(N \cup {b}) = Cardinality(N) + 1
  BY <1>1, <1>3, FS_AddElement
<1>5. N \cup {b} \in SUBSET O
  BY <1>2
<1>6. Cardinality(N \cup {b}) <= Cardinality(O)
  BY <1>3, <1>5, FS_Subset
<1>7. Cardinality(N) + 1 <= Cardinality(O) /\ b \in O
  BY <1>2, <1>3, <1>4, <1>6
<1> QED
  BY <1>7 DEF N, O, b

\* A kept visit with enough newer blocks to spare survives.
LEMMA Survives ==
  ASSUME NEW vs \in Visits, NEW k \in 1 .. Len(vs), NEW b,
         Cardinality(Newer(vs, k)) + 1 < e
  PROVE  Cardinality(Newer(vs, k) \cup {b}) < e
<1>1. IsFiniteSet(Newer(vs, k))
  BY NewerFinite
<1>2. /\ Cardinality(Newer(vs, k)) \in Nat /\ Cardinality(Newer(vs, k) \cup {b}) \in Nat
      /\ Cardinality(Newer(vs, k) \cup {b}) <= Cardinality(Newer(vs, k)) + 1
  BY <1>1, OneMore
<1> QED
  BY <1>2, ShapeAssumption

\* A hit in line i: the visit that the line held makes room for the new one.
LEMMA HitKeeps ==
  ASSUME NEW vs \in Visits, NEW a \in Addresses, NEW L, HoldsKept(L, vs, SetIndex(a)),
         NEW i \in Found(L, TagOf(a))
  PROVE  Kept(Append(vs, a), SetIndex(a)) =
           {k \in Kept(vs, SetIndex(a)) : ~Holds(L, i, vs, k)} \cup {Len(vs) + 1}
<1> DEFINE K == Kept(vs, SetIndex(a))
<1>1. i \in Valid(L) /\ L[i].tag = TagOf(a)
  BY DEF Found
<1>2. PICK m \in K : Holds(L, i, vs, m)
  BY <1>1 DEF HoldsKept
<1>3. \A k \in K : Holds(L, i, vs, k) <=> BlockOf(vs[k]) = BlockOf(a)
  BY <1>1, TagIsBlock DEF Holds
<1>4. ASSUME NEW k \in K, BlockOf(vs[k]) # BlockOf(a)
      PROVE  Cardinality(Newer(vs, k) \cup {BlockOf(a)}) < e
  <2>1. BlockOf(vs[m]) = BlockOf(a)
    BY <1>2, <1>3
  <2>2. /\ k \in 1 .. Len(vs) /\ k \in Nat /\ m \in 1 .. Len(vs) /\ m \in Nat
        /\ Cardinality(Newer(vs, k)) < e /\ Cardinality(Newer(vs, m)) < e
    BY TagIsBlock
  <2>3. CASE k < m
    <3>1. BlockOf(a) \in Newer(vs, k)
      BY <2>1, <2>3, LaterHasFewerNewer
    <3>2. Newer(vs, k) \cup {BlockOf(a)} = Newer(vs, k)
      BY <3>1
    <3> QED
      BY <2>2, <3>2
  <2>4. CASE m < k
    <3>1. Cardinality(Newer(vs, k)) + 1 <= Cardinality(Newer(vs, m))
      BY <2>4, LaterHasFewerNewer
    <3>2. Cardinality(Newer(vs, k)) \in Nat /\ Cardinality(Newer(vs, m)) \in Nat
      BY <2>2, NewerFinite
    <3>3. Cardinality(Newer(vs, k)) + 1 < e
      BY <2>2, <3>1, <3>2, ShapeAssumption
    <3> QED
      BY <2>2, <3>3, Survives
  <2>5. k # m
    BY <1>4, <2>1
  <2> QED
    BY <2>2, <2>3, <2>4, <2>5
<1>5. \A k \in K : /\ BlockOf(vs[k]) # BlockOf(a)
                   /\ Cardinality(Newer(vs, k) \cup {BlockOf(a)}) < e
                   <=> ~Holds(L, i, vs, k)
  BY <1>3, <1>4
<1>6. Kept(Append(vs, a), SetIndex(a)) =
        {k \in K : /\ BlockOf(vs[k]) # BlockOf(a)
                   /\ Cardinality(Newer(vs, k) \cup {BlockOf(a)}) < e} \cup {Len(vs) + 1}
  BY KeptAfter
<1> HIDE DEF K
<1>7. Kept(Append(vs, a), SetIndex(a)) =
        {k \in K : ~Holds(L, i, vs, k)} \cup {Len(vs) + 1}
  BY <1>5, <1>6
<1> QED
  BY <1>7 DEF K

\* While a line is not in use, the blocks of the set are fewer than the lines.
LEMMA BlocksFit ==
  ASSUME NEW vs \in Visits, NEW L, NEW s, HoldsKept(L, vs, s), RoomHoldsAll(L, vs, s),
         Valid(L) # 1 .. e
  PROVE  Cardinality(BlocksIn(vs, 1 .. Len(vs), s)) < e
<1> DEFINE D == BlocksIn(vs, 1 .. Len(vs), s)
           V == Valid(L)
           Of(b, j) == \E k \in 1 .. Len(vs) : /\ SetIndex(vs[k]) = s /\ BlockOf(vs[k]) = b
                                               /\ L[j].tag = TagOf(vs[k])
           f == [b \in D |-> CHOOSE j \in V : Of(b, j)]
<1>1. V \subseteq 1 .. e /\ V # 1 .. e
  BY DEF HoldsKept, Lines, Valid
<1>2. \A b \in D : \E j \in V : Of(b, j)
  <2> TAKE b \in D
  <2>1. PICK k \in 1 .. Len(vs) : SetIndex(vs[k]) = s /\ BlockOf(vs[k]) = b
    BY DEF BlocksIn
  <2>2. PICK j \in V : Holds(L, j, vs, k)
    BY <2>1 DEF RoomHoldsAll
  <2> QED
    BY <2>1, <2>2 DEF Holds
<1>3. \A b, c \in D : \A j \in V : Of(b, j) /\ Of(c, j) => b = c
  <2> TAKE b, c \in D
  <2> TAKE j \in V
  <2> HAVE Of(b, j) /\ Of(c, j)
  <2>1. PICK k \in 1 .. Len(vs) : /\ SetIndex(vs[k]) = s /\ BlockOf(vs[k]) = b
                                  /\ L[j].tag = TagOf(vs[k])
    OBVIOUS
  <2>2. PICK m \in 1 .. Len(vs) : /\ SetIndex(vs[m]) = s /\ BlockOf(vs[m]) = c
                                  /\ L[j].tag = TagOf(vs[m])
    OBVIOUS
  <2> HIDE DEF D, V, Of, f
  <2>3. BlockOf(vs[k]) = BlockOf(vs[m])
    BY <2>1, <2>2, VisitParts
  <2> QED
    BY <2>1, <2>2, <2>3
<1> HIDE DEF D, V, Of
<1>4. \A b \in D : f[b] \in V /\ Of(b, f[b])
  BY <1>2
<1>5. f \in Injection(D, V)
  <2>1. f \in [D -> V]
    BY <1>4
  <2>2. \A b, c \in D : f[b] = f[c] => b = c
    <3> HIDE DEF f
    <3> QED
      BY <1>3, <1>4
  <2> HIDE DEF f
  <2> QED
    BY <2>1, <2>2 DEF Injection, IsInjective
<1>6. IsFiniteSet(1 .. e) /\ Cardinality(1 .. e) = e
  BY FS_Interval, ShapeAssumption
<1>7. IsFiniteSet(V) /\ Cardinality(V) < e
  <2>1. V \in SUBSET (1 .. e)
    BY <1>1
  <2>2. /\ IsFiniteSet(V) /\ Cardinality(V) <= Cardinality(1 .. e)
        /\ (Cardinality(1 .. e) = Cardinality(V) => 1 .. e = V)
    BY <1>6, <2>1, FS_Subset
  <2>3. Cardinality(V) \in Nat
    BY <2>2, FS_CardinalityType
  <2> QED
    BY <1>1, <1>6, <2>2, <2>3, ShapeAssumption
<1>8. IsFiniteSet(D) /\ Cardinality(D) <= Cardinality(V)
  <2> HIDE DEF f
  <2> QED
    BY <1>5, <1>7, FS_Injection
<1>9. Cardinality(D) < e
  BY <1>7, <1>8, FS_CardinalityType, ShapeAssumption
<1> QED
  BY <1>9 DEF D

\* When all lines are in use, the blocks of the set are no fewer than the lines.
LEMMA BlocksFill ==
  ASSUME NEW vs \in Visits, NEW L, NEW s, HoldsKept(L, vs, s), Valid(L) = 1 .. e
  PROVE  Cardinality(BlocksIn(vs, 1 .. Len(vs), s)) >= e
<1> DEFINE D == BlocksIn(vs, 1 .. Len(vs), s)
           K == Kept(vs, s)
           held == [j \in 1 .. e |-> CHOOSE k \in K : Holds(L, j, vs, k)]
           f == [j \in 1 .. e |-> BlockOf(vs[held[j]])]
<1>1. \A j \in 1 .. e : held[j] \in K /\ Holds(L, j, vs, held[j])
  BY DEF HoldsKept
<1>2. \A k \in K : BlockOf(vs[k]) \in D
  BY DEF BlocksIn, Kept
<1>3. \A j, k \in K : BlockOf(vs[j]) = BlockOf(vs[k]) => j = k
  BY TagIsBlock
<1>4. \A i, j \in 1 .. e : L[i].tag = L[j].tag => i = j
  BY DEF HoldsKept
<1> HIDE DEF D, K, held
<1>5. f \in [1 .. e -> D]
  BY <1>1, <1>2
<1>6. \A i, j \in 1 .. e : f[i] = f[j] => i = j
  <2> TAKE i, j \in 1 .. e
  <2> HAVE f[i] = f[j]
  <2>1. held[i] = held[j]
    BY <1>1, <1>3
  <2>2. L[i].tag = L[j].tag
    BY <1>1, <2>1 DEF Holds
  <2> QED
    BY <1>4, <2>2
<1> HIDE DEF f
<1>7. f \in Injection(1 .. e, D)
  BY <1>5, <1>6 DEF Injection, IsInjective
<1>8. IsFiniteSet(D) /\ Cardinality(D) \in Nat
  <2>1. Len(vs) \in Int
    BY VisitParts
  <2> QED
    BY <2>1, BlocksInFinite DEF D
<1>9. Cardinality(1 .. e) = e
  BY FS_Interval, ShapeAssumption
<1>10. Cardinality(1 .. e) <= Cardinality(D)
  BY <1>7, <1>8, FS_Injection
<1>11. Cardinality(D) >= e
  BY <1>8, <1>9, <1>10, ShapeAssumption
<1> QED
  BY <1>11 DEF D

\* A miss: all visits that were kept stay.
LEMMA MissKeeps ==
  ASSUME NEW vs \in Visits, NEW a \in Addresses, NEW L, HoldsKept(L, vs, SetIndex(a)),
         RoomHoldsAll(L, vs, SetIndex(a)), Found(L, TagOf(a)) = {},
         NEW i \in 1 .. e, i \notin Valid(L)
  PROVE  Kept(Append(vs, a), SetIndex(a)) =
           {k \in Kept(vs, SetIndex(a)) : ~Holds(L, i, vs, k)} \cup {Len(vs) + 1}
<1> DEFINE s == SetIndex(a)
           K == Kept(vs, s)
           D == BlocksIn(vs, 1 .. Len(vs), s)
<1>1. \A k \in K : BlockOf(vs[k]) # BlockOf(a)
  <2> TAKE k \in K
  <2>1. PICK j \in Valid(L) : Holds(L, j, vs, k)
    BY DEF HoldsKept
  <2>2. TagOf(vs[k]) # TagOf(a)
    BY <2>1 DEF Holds, Found
  <2> QED
    BY <2>2, TagIsBlock
<1>2. Cardinality(D) < e
  BY BlocksFit
<1>3. IsFiniteSet(D) /\ Cardinality(D) \in Nat
  BY VisitParts, BlocksInFinite
<1>4. ASSUME NEW k \in K
      PROVE  Cardinality(Newer(vs, k) \cup {BlockOf(a)}) < e
  <2> DEFINE N == Newer(vs, k)
             b == BlockOf(vs[k])
  <2>1. k \in 1 .. Len(vs) /\ SetIndex(vs[k]) = s /\ b \notin N
    BY TagIsBlock DEF IsLast
  <2>2. b \in D /\ N \subseteq D
    <3>1. Len(vs) \in Nat
      BY VisitParts
    <3>2. k + 1 .. Len(vs) \subseteq 1 .. Len(vs)
      BY <2>1, <3>1
    <3> QED
      BY <2>1, <3>2 DEF Newer, BlocksIn
  <2>3. IsFiniteSet(N) /\ Cardinality(N) \in Nat
    BY <2>1, NewerFinite
  <2> HIDE DEF N, b, D
  <2>4. Cardinality(N \cup {b}) = Cardinality(N) + 1
    BY <2>1, <2>3, FS_AddElement
  <2>5. Cardinality(N \cup {b}) <= Cardinality(D)
    <3>1. N \cup {b} \in SUBSET D
      BY <2>2
    <3> QED
      BY <1>3, <3>1, FS_Subset
  <2>6. Cardinality(N) + 1 < e
    BY <1>2, <1>3, <2>3, <2>4, <2>5, ShapeAssumption
  <2> QED
    BY <2>1, <2>6, Survives DEF N
<1>5. \A k : ~Holds(L, i, vs, k)
  BY DEF Holds
<1>6. Kept(Append(vs, a), s) =
        {k \in K : /\ BlockOf(vs[k]) # BlockOf(a)
                   /\ Cardinality(Newer(vs, k) \cup {BlockOf(a)}) < e} \cup {Len(vs) + 1}
  BY KeptAfter
<1> HIDE DEF K
<1>7. Kept(Append(vs, a), s) = {k \in K : ~Holds(L, i, vs, k)} \cup {Len(vs) + 1}
  BY <1>1, <1>4, <1>5, <1>6
<1> QED
  BY <1>7 DEF K

\* An eviction from line i, the one used longest ago: of the visits that were kept only
\* the one that the line held has become too old.
LEMMA EvictionKeeps ==
  ASSUME NEW vs \in Visits, NEW a \in Addresses, NEW L, HoldsKept(L, vs, SetIndex(a)),
         Found(L, TagOf(a)) = {}, Valid(L) = 1 .. e, NEW i \in 1 .. e,
         \A k \in Valid(L) : L[i].lastVisitTime <= L[k].lastVisitTime
  PROVE  Kept(Append(vs, a), SetIndex(a)) =
           {k \in Kept(vs, SetIndex(a)) : ~Holds(L, i, vs, k)} \cup {Len(vs) + 1}
<1> DEFINE s == SetIndex(a)
           K == Kept(vs, s)
           b == BlockOf(a)
<1>1. /\ \A j \in 1 .. e : \E k \in K : Holds(L, j, vs, k)
      /\ \A k \in K : \E j \in 1 .. e : Holds(L, j, vs, k)
      /\ \A j, k \in 1 .. e : L[j].tag = L[k].tag => j = k
      /\ \A j, k \in K : \A x, y \in 1 .. e :
           j < k /\ Holds(L, x, vs, j) /\ Holds(L, y, vs, k)
             => L[x].lastVisitTime < L[y].lastVisitTime
      /\ \A k \in 1 .. e : L[k].lastVisitTime \in Nat
  BY DEF HoldsKept, Lines, Line
<1>2. /\ \A k \in K : k \in 1 .. Len(vs) /\ k \in Nat /\ Cardinality(Newer(vs, k)) < e
      /\ \A j, k \in K : TagOf(vs[j]) = TagOf(vs[k]) <=> j = k
      /\ \A j, k \in K : BlockOf(vs[j]) = BlockOf(vs[k]) <=> j = k
      /\ \A k \in K : TagOf(vs[k]) = TagOf(a) <=> BlockOf(vs[k]) = b
  BY TagIsBlock
<1>3. \A k \in K : BlockOf(vs[k]) # b
  <2> TAKE k \in K
  <2>1. PICK j \in 1 .. e : Holds(L, j, vs, k)
    BY <1>1
  <2>2. TagOf(vs[k]) # TagOf(a)
    BY <2>1 DEF Holds, Found
  <2> QED
    BY <1>2, <2>2
<1>4. PICK m \in K : Holds(L, i, vs, m)
  BY <1>1
<1>5. \A k \in K : Holds(L, i, vs, k) <=> k = m
  BY <1>2, <1>4 DEF Holds
<1>6. \A k \in K : k # m => m < k
  <2> SUFFICES ASSUME NEW k \in K, k < m
               PROVE  FALSE
    BY <1>2
  <2>1. PICK j \in 1 .. e : Holds(L, j, vs, k)
    BY <1>1
  <2>2. L[j].lastVisitTime < L[i].lastVisitTime
    BY <1>1, <1>4, <2>1
  <2>3. L[i].lastVisitTime <= L[j].lastVisitTime
    OBVIOUS
  <2>4. L[j].lastVisitTime \in Nat /\ L[i].lastVisitTime \in Nat
    BY <1>1
  <2> QED
    BY <2>2, <2>3, <2>4
<1>7. \A k \in K : m < k => /\ Cardinality(Newer(vs, k)) + 1 <= Cardinality(Newer(vs, m))
                            /\ BlockOf(vs[k]) \in Newer(vs, m)
  BY LaterHasFewerNewer
<1>8. ASSUME NEW k \in K, k # m
      PROVE  Cardinality(Newer(vs, k) \cup {b}) < e
  <2>1. Cardinality(Newer(vs, k)) + 1 <= Cardinality(Newer(vs, m))
    BY <1>6, <1>7, <1>8
  <2>2. /\ Cardinality(Newer(vs, k)) \in Nat /\ Cardinality(Newer(vs, m)) \in Nat
        /\ Cardinality(Newer(vs, m)) < e
    BY <1>2, NewerFinite
  <2>3. Cardinality(Newer(vs, k)) + 1 < e
    BY <2>1, <2>2, ShapeAssumption
  <2> QED
    BY <1>2, <2>3, Survives
\* The other lines hold blocks newer than that of line i.
<1>9. ~(Cardinality(Newer(vs, m) \cup {b}) < e)
  <2> DEFINE T == Newer(vs, m) \cup {b}
             held == [j \in 1 .. e |-> CHOOSE k \in K : Holds(L, j, vs, k)]
             f == [j \in 1 .. e |-> IF j = i THEN b ELSE BlockOf(vs[held[j]])]
  <2>1. \A j \in 1 .. e : held[j] \in K /\ Holds(L, j, vs, held[j])
    BY <1>1
  <2> HIDE DEF held
  <2>2. \A j \in 1 .. e : j # i => held[j] # m
    BY <1>1, <1>4, <2>1 DEF Holds
  <2>3. \A j \in 1 .. e : j # i => BlockOf(vs[held[j]]) \in Newer(vs, m)
    BY <1>6, <1>7, <2>1, <2>2
  <2>4. f \in [1 .. e -> T]
    BY <2>3
  <2>5. \A j, k \in 1 .. e : f[j] = f[k] => j = k
    <3> TAKE j, k \in 1 .. e
    <3> HAVE f[j] = f[k]
    <3>1. CASE j = i \/ k = i
      BY <1>3, <2>1, <3>1
    <3>2. CASE j # i /\ k # i
      <4>1. held[j] = held[k]
        BY <1>2, <2>1, <3>2
      <4>2. L[j].tag = L[k].tag
        BY <2>1, <4>1 DEF Holds
      <4> QED
        BY <1>1, <4>2
    <3> QED
      BY <3>1, <3>2
  <2> HIDE DEF f, T
  <2>6. f \in Injection(1 .. e, T)
    BY <2>4, <2>5 DEF Injection, IsInjective
  <2>7. IsFiniteSet(T) /\ Cardinality(T) \in Nat
    <3>1. IsFiniteSet(Newer(vs, m))
      BY <1>2, NewerFinite
    <3> QED
      BY <3>1, FS_AddElement, OneMore DEF T
  <2>8. Cardinality(1 .. e) = e
    BY FS_Interval, ShapeAssumption
  <2>9. Cardinality(1 .. e) <= Cardinality(T)
    BY <2>6, <2>7, FS_Injection
  <2>10. ~(Cardinality(T) < e)
    BY <2>7, <2>8, <2>9, ShapeAssumption
  <2> QED
    BY <2>10 DEF T
<1>10. Kept(Append(vs, a), s) =
        {k \in K : BlockOf(vs[k]) # b /\ Cardinality(Newer(vs, k) \cup {b}) < e}
          \cup {Len(vs) + 1}
  BY KeptAfter
<1> HIDE DEF K, b
<1>11. Kept(Append(vs, a), s) = {k \in K : ~Holds(L, i, vs, k)} \cup {Len(vs) + 1}
  BY <1>3, <1>5, <1>8, <1>9, <1>10
<1> QED
  BY <1>11 DEF K

\* A visit keeps a set with room from losing a block.
LEMMA RoomStays ==
  ASSUME NEW vs \in Visits, NEW a \in Addresses, NEW L \in Lines, NEW i \in 1 .. e,
         RoomHoldsAll(L, vs, SetIndex(a)),
         i \in Found(L, TagOf(a)) \/ i \notin Valid(L) \/ Valid(L) = 1 .. e
  PROVE  RoomHoldsAll(Placed(L, i, TagOf(a)), Append(vs, a), SetIndex(a))
<1> DEFINE ws == Append(vs, a)
           n == Len(vs)
           s == SetIndex(a)
           M == Placed(L, i, TagOf(a))
<1>1. /\ Len(ws) = n + 1 /\ n \in Nat /\ ws[n + 1] = a
      /\ \A k \in 1 .. n : ws[k] = vs[k]
  BY OneMoreVisit
<1>2. TagOf(a) \in Tags
  BY DEF Tags
<1>3. /\ Valid(M) = Valid(L) \cup {i} /\ M[i].tag = TagOf(a)
      /\ \A j \in 1 .. e : j # i => M[j] = L[j]
      /\ Valid(L) \subseteq 1 .. e
  BY <1>2, PlacedLine
<1> HIDE DEF ws, n, M
<1>4. SUFFICES ASSUME Valid(M) # 1 .. e, NEW k \in 1 .. Len(ws), SetIndex(ws[k]) = s
               PROVE  \E j \in Valid(M) : Holds(M, j, ws, k)
  BY DEF RoomHoldsAll, ws, M
<1>5. CASE k = n + 1
  BY <1>1, <1>3, <1>5 DEF Holds
<1>6. CASE k \in 1 .. n
  <2>1. Valid(L) # 1 .. e
    BY <1>3, <1>4
  <2>2. PICK j \in Valid(L) : Holds(L, j, vs, k)
    BY <1>1, <1>4, <1>6, <2>1 DEF RoomHoldsAll, n
  <2>3. M[j].tag = L[j].tag
    <3>1. CASE j = i
      BY <1>3, <2>1, <3>1 DEF Found
    <3>2. CASE j # i
      BY <1>3, <3>2
    <3> QED
      BY <3>1, <3>2
  <2> QED
    BY <1>1, <1>3, <1>6, <2>2, <2>3 DEF Holds
<1> QED
  BY <1>1, <1>4, <1>5, <1>6

-----------------------------------------------------------------------------
(***************************************************************************)
(* The counts.                                                             *)
(***************************************************************************)

\* The blocks among visits that two sequences share.
LEMMA SameBlocks ==
  ASSUME NEW vs, NEW ws, NEW K, NEW s, \A k \in K : ws[k] = vs[k]
  PROVE  BlocksIn(ws, K, s) = BlocksIn(vs, K, s)
<1> DEFINE I == {i \in K : SetIndex(ws[i]) = s}
           J == {i \in K : SetIndex(vs[i]) = s}
<1>1. I = J /\ \A i \in J : ws[i] = vs[i]
  OBVIOUS
<1>2. BlocksIn(ws, K, s) = {BlockOf(ws[i]) : i \in I}
  BY DEF BlocksIn
<1>3. BlocksIn(vs, K, s) = {BlockOf(vs[i]) : i \in J}
  BY DEF BlocksIn
<1> HIDE DEF I, J
<1> QED
  BY <1>1, <1>2, <1>3

\* The block of a is one of the e latest of its set.
IsKept(vs, a) == \E k \in Kept(vs, SetIndex(a)) : BlockOf(vs[k]) = BlockOf(a)

\* The new visit is a hit if its block is kept.
LEMMA HitIfKept ==
  ASSUME NEW vs \in Visits, NEW a \in Addresses
  PROVE  IsKept(vs, a) <=> \E j \in 1 .. Len(vs) :
                             /\ BlockOf(vs[j]) = BlockOf(a)
                             /\ Cardinality(Newer(vs, j)) < e
<1>1. \A j \in 1 .. Len(vs) : BlockOf(vs[j]) = BlockOf(a) => SetIndex(vs[j]) = SetIndex(a)
  BY VisitParts, BlockIsSetAndTag, AddressesAssumption
<1>2. ASSUME NEW j \in 1 .. Len(vs), BlockOf(vs[j]) = BlockOf(a),
             Cardinality(Newer(vs, j)) < e
      PROVE  IsKept(vs, a)
  <2>1. PICK k \in 1 .. Len(vs) : /\ j <= k /\ BlockOf(vs[k]) = BlockOf(vs[j])
                                  /\ IsLast(vs, k)
    BY LastExists
  <2>2. SetIndex(vs[k]) = SetIndex(a) /\ SetIndex(vs[j]) = SetIndex(a)
    BY <1>1, <1>2, <2>1
  <2>3. Newer(vs, k) \subseteq Newer(vs, j)
    <3>1. CASE j = k
      BY <3>1
    <3>2. CASE j < k
      BY <2>2, <3>2, NewerGrows
    <3>3. Len(vs) \in Nat
      BY VisitParts
    <3> QED
      BY <2>1, <3>1, <3>2, <3>3
  <2>4. Cardinality(Newer(vs, k)) < e
    <3>1. /\ IsFiniteSet(Newer(vs, j)) /\ Cardinality(Newer(vs, j)) \in Nat
          /\ Cardinality(Newer(vs, k)) \in Nat
      BY NewerFinite
    <3>2. Cardinality(Newer(vs, k)) <= Cardinality(Newer(vs, j))
      BY <2>3, <3>1, FS_Subset
    <3> QED
      BY <1>2, <3>1, <3>2, ShapeAssumption
  <2>5. k \in Kept(vs, SetIndex(a))
    BY <2>1, <2>2, <2>4 DEF Kept
  <2> QED
    BY <1>2, <2>1, <2>5 DEF IsKept
<1> QED
  BY <1>2 DEF IsKept, Kept

\* One more visit leaves the earlier hits and evictions what they were.
LEMMA OneMoreCount ==
  ASSUME NEW vs \in Visits, NEW a \in Addresses
  PROVE  /\ HitsOf(vs) \subseteq 1 .. Len(vs) /\ EvictsOf(vs) \subseteq 1 .. Len(vs)
         /\ HitsOf(Append(vs, a)) =
              IF IsKept(vs, a) THEN HitsOf(vs) \cup {Len(vs) + 1} ELSE HitsOf(vs)
         /\ EvictsOf(Append(vs, a)) =
              IF ~IsKept(vs, a) /\ Cardinality(BlocksIn(vs, 1 .. Len(vs), SetIndex(a))) >= e
              THEN EvictsOf(vs) \cup {Len(vs) + 1} ELSE EvictsOf(vs)
<1> DEFINE ws == Append(vs, a)
           n == Len(vs)
           Hit(v, k) == \E j \in 1 .. k - 1 :
                          /\ BlockOf(v[j]) = BlockOf(v[k])
                          /\ Cardinality(BlocksIn(v, j + 1 .. k - 1, SetIndex(v[k]))) < e
           Full(v, k) == Cardinality(BlocksIn(v, 1 .. k - 1, SetIndex(v[k]))) >= e
<1>1. /\ ws \in Visits /\ Len(ws) = n + 1 /\ n \in Nat
      /\ \A k \in 1 .. n : ws[k] = vs[k]
      /\ ws[n + 1] = a
  BY OneMoreVisit
<1>2. /\ HitsOf(vs) = {k \in 1 .. n : Hit(vs, k)}
      /\ EvictsOf(vs) = {k \in 1 .. n : ~Hit(vs, k) /\ Full(vs, k)}
  BY DEF HitsOf, EvictsOf
<1>3. /\ HitsOf(ws) = {k \in 1 .. n + 1 : Hit(ws, k)}
      /\ EvictsOf(ws) = {k \in 1 .. n + 1 : ~Hit(ws, k) /\ Full(ws, k)}
  BY <1>1 DEF HitsOf, EvictsOf
<1> HIDE DEF ws, n
<1>4. ASSUME NEW x \in Nat \ {0}, NEW y \in Nat, y <= n, NEW s
      PROVE  BlocksIn(ws, x .. y, s) = BlocksIn(vs, x .. y, s)
  <2>1. \A i \in x .. y : ws[i] = vs[i]
    BY <1>1, <1>4
  <2> QED
    BY <2>1, SameBlocks
<1>5. ASSUME NEW k \in 1 .. n
      PROVE  (Hit(ws, k) <=> Hit(vs, k)) /\ (Full(ws, k) <=> Full(vs, k))
  <2>1. ws[k] = vs[k] /\ k - 1 \in Nat /\ k - 1 <= n /\ 1 \in Nat \ {0}
    BY <1>1
  <2>2. ASSUME NEW j \in 1 .. k - 1
        PROVE  /\ ws[j] = vs[j]
               /\ BlocksIn(ws, j + 1 .. k - 1, SetIndex(ws[k])) =
                  BlocksIn(vs, j + 1 .. k - 1, SetIndex(vs[k]))
    <3>1. j + 1 \in Nat \ {0} /\ ws[j] = vs[j]
      BY <1>1
    <3> QED
      BY <1>4, <2>1, <3>1
  <2>3. BlocksIn(ws, 1 .. k - 1, SetIndex(ws[k])) = BlocksIn(vs, 1 .. k - 1, SetIndex(vs[k]))
    BY <1>4, <2>1
  <2> QED
    BY <2>1, <2>2, <2>3
<1>6. Hit(ws, n + 1) <=> IsKept(vs, a)
  <2>1. n + 1 - 1 = n
    BY <1>1
  <2>2. Hit(ws, n + 1) <=>
          \E j \in 1 .. n : /\ BlockOf(vs[j]) = BlockOf(a)
                            /\ Cardinality(BlocksIn(vs, j + 1 .. n, SetIndex(a))) < e
    <3>1. ASSUME NEW j \in 1 .. n
          PROVE  BlocksIn(ws, j + 1 .. n, SetIndex(a)) = BlocksIn(vs, j + 1 .. n, SetIndex(a))
      <4>1. j + 1 \in Nat \ {0} /\ n \in Nat /\ n <= n
        BY <1>1
      <4> QED
        BY <1>4, <4>1
    <3> QED
      BY <1>1, <2>1, <3>1
  <2>3. \A j \in 1 .. n : BlockOf(vs[j]) = BlockOf(a) =>
          BlocksIn(vs, j + 1 .. n, SetIndex(a)) = Newer(vs, j)
    <3>1. \A j \in 1 .. n : BlockOf(vs[j]) = BlockOf(a) => SetIndex(vs[j]) = SetIndex(a)
      BY VisitParts, BlockIsSetAndTag, AddressesAssumption DEF n
    <3> QED
      BY <3>1 DEF Newer, n
  <2>4. IsKept(vs, a) <=> \E j \in 1 .. n : /\ BlockOf(vs[j]) = BlockOf(a)
                                            /\ Cardinality(Newer(vs, j)) < e
    BY HitIfKept DEF n
  <2> HIDE DEF Hit
  <2> QED
    BY <2>2, <2>3, <2>4
<1>7. Full(ws, n + 1) <=> Cardinality(BlocksIn(vs, 1 .. n, SetIndex(a))) >= e
  <2>1. n + 1 - 1 = n /\ n <= n /\ 1 \in Nat \ {0}
    BY <1>1
  <2> QED
    BY <1>1, <1>4, <2>1
<1>8. 1 .. n + 1 = (1 .. n) \cup {n + 1}
  BY <1>1
<1> HIDE DEF Hit, Full
<1>9. HitsOf(ws) = IF IsKept(vs, a) THEN HitsOf(vs) \cup {n + 1} ELSE HitsOf(vs)
  BY <1>2, <1>3, <1>5, <1>6, <1>8
<1>10. EvictsOf(ws) =
         IF ~IsKept(vs, a) /\ Cardinality(BlocksIn(vs, 1 .. n, SetIndex(a))) >= e
         THEN EvictsOf(vs) \cup {n + 1} ELSE EvictsOf(vs)
  BY <1>2, <1>3, <1>5, <1>6, <1>7, <1>8
<1>11. HitsOf(vs) \subseteq 1 .. n /\ EvictsOf(vs) \subseteq 1 .. n
  BY <1>2
<1> QED
  BY <1>9, <1>10, <1>11 DEF ws, n

-----------------------------------------------------------------------------
(***************************************************************************)
(* The invariant: the cache c after the visits vs.                         *)
(***************************************************************************)
LinesLru(c, vs) ==
  /\ c.sets \in [SetIndexes -> Lines]
  /\ \A s \in SetIndexes : HoldsKept(c.sets[s], vs, s) /\ RoomHoldsAll(c.sets[s], vs, s)

CountsLru(c, vs) ==
  /\ c.hitTimes = Cardinality(HitsOf(vs))
  /\ c.missTimes = Len(vs) - Cardinality(HitsOf(vs))
  /\ c.evictionTimes = Cardinality(EvictsOf(vs))

Lru(c, vs) == LinesLru(c, vs) /\ CountsLru(c, vs)

\* The visited set holds what it should.
LEMMA SetKeeps ==
  ASSUME NEW vs \in Visits, NEW a \in Addresses, NEW L, HoldsKept(L, vs, SetIndex(a)),
         RoomHoldsAll(L, vs, SetIndex(a))
  PROVE  LET v == setVisitAddress(L, TagOf(a))
         IN  /\ HoldsKept(v.lines, Append(vs, a), SetIndex(a))
             /\ RoomHoldsAll(v.lines, Append(vs, a), SetIndex(a))
<1> DEFINE v == setVisitAddress(L, TagOf(a))
           s == SetIndex(a)
           ws == Append(vs, a)
<1>1. L \in Lines
  BY DEF HoldsKept
<1>2. PICK i \in 1 .. e :
        /\ v.lines = Placed(L, i, TagOf(a))
        /\ \/ v.result = "hit" /\ i \in Found(L, TagOf(a))
           \/ v.result = "miss" /\ Found(L, TagOf(a)) = {} /\ i \notin Valid(L)
           \/ /\ v.result = "eviction" /\ Found(L, TagOf(a)) = {} /\ Valid(L) = 1 .. e
              /\ \A k \in Valid(L) : L[i].lastVisitTime <= L[k].lastVisitTime
  BY <1>1, VisitPlaces
<1> HIDE DEF v
<1>3. Kept(ws, s) = {k \in Kept(vs, s) : ~Holds(L, i, vs, k)} \cup {Len(vs) + 1}
  <2>1. CASE i \in Found(L, TagOf(a))
    BY <2>1, HitKeeps
  <2>2. CASE Found(L, TagOf(a)) = {} /\ i \notin Valid(L)
    BY <2>2, MissKeeps
  <2>3. CASE /\ Found(L, TagOf(a)) = {} /\ Valid(L) = 1 .. e
             /\ \A k \in Valid(L) : L[i].lastVisitTime <= L[k].lastVisitTime
    BY <2>3, EvictionKeeps
  <2> QED
    BY <1>2, <2>1, <2>2, <2>3
<1>4. \A j \in Valid(L) : L[j].tag = TagOf(a) => j = i
  <2>1. CASE i \in Found(L, TagOf(a))
    BY <2>1 DEF Found, HoldsKept
  <2>2. CASE Found(L, TagOf(a)) = {}
    BY <2>2 DEF Found
  <2> QED
    BY <1>2, <2>1, <2>2
<1>5. HoldsKept(Placed(L, i, TagOf(a)), ws, s)
  BY <1>3, <1>4, PlaceKeeps
<1>6. RoomHoldsAll(Placed(L, i, TagOf(a)), ws, s)
  BY <1>1, <1>2, RoomStays
<1> QED
  BY <1>2, <1>5, <1>6 DEF v

\* A set that is not visited goes on holding what it should.
LEMMA OtherSetKeeps ==
  ASSUME NEW vs \in Visits, NEW a \in Addresses, NEW L, NEW s, s # SetIndex(a),
         HoldsKept(L, vs, s), RoomHoldsAll(L, vs, s)
  PROVE  HoldsKept(L, Append(vs, a), s) /\ RoomHoldsAll(L, Append(vs, a), s)
<1> DEFINE ws == Append(vs, a)
           n == Len(vs)
<1>1. /\ Len(ws) = n + 1 /\ n \in Nat /\ ws[n + 1] = a
      /\ \A k \in 1 .. n : ws[k] = vs[k]
  BY OneMoreVisit
<1>2. Kept(ws, s) = Kept(vs, s) /\ Kept(vs, s) \subseteq 1 .. n
  BY KeptAfter DEF Kept
<1>3. \A i : \A k \in Kept(vs, s) : Holds(L, i, ws, k) <=> Holds(L, i, vs, k)
  BY <1>1, <1>2 DEF Holds
<1> HIDE DEF ws
<1>4. HoldsKept(L, ws, s)
  BY <1>2, <1>3 DEF HoldsKept
<1>5. RoomHoldsAll(L, ws, s)
  <2>1. \A k \in 1 .. Len(ws) : SetIndex(ws[k]) = s => k \in 1 .. n /\ SetIndex(vs[k]) = s
    BY <1>1
  <2>2. \A i : \A k \in 1 .. n : Holds(L, i, vs, k) => Holds(L, i, ws, k)
    BY <1>1 DEF Holds
  <2> QED
    BY <2>1, <2>2 DEF RoomHoldsAll
<1> QED
  BY <1>4, <1>5 DEF ws

\* The result of a visit is a hit if its block is kept, and an eviction if it is not and
\* the set had e blocks.
LEMMA ResultIsLru ==
  ASSUME NEW vs \in Visits, NEW a \in Addresses, NEW L, HoldsKept(L, vs, SetIndex(a)),
         RoomHoldsAll(L, vs, SetIndex(a))
  PROVE  LET v == setVisitAddress(L, TagOf(a))
         IN  /\ v.result = "hit" <=> IsKept(vs, a)
             /\ v.result = "eviction"
                  <=> /\ ~IsKept(vs, a)
                      /\ Cardinality(BlocksIn(vs, 1 .. Len(vs), SetIndex(a))) >= e
<1> DEFINE v == setVisitAddress(L, TagOf(a))
           D == Cardinality(BlocksIn(vs, 1 .. Len(vs), SetIndex(a)))
<1>1. L \in Lines
  BY DEF HoldsKept
<1>2. PICK i \in 1 .. e :
           \/ v.result = "hit" /\ i \in Found(L, TagOf(a))
           \/ v.result = "miss" /\ Found(L, TagOf(a)) = {} /\ i \notin Valid(L)
           \/ v.result = "eviction" /\ Found(L, TagOf(a)) = {} /\ Valid(L) = 1 .. e
  BY <1>1, VisitPlaces
<1>3. IsKept(vs, a) <=> Found(L, TagOf(a)) # {}
  <2>1. \A k \in Kept(vs, SetIndex(a)) :
          BlockOf(vs[k]) = BlockOf(a) <=> TagOf(vs[k]) = TagOf(a)
    BY TagIsBlock
  <2> QED
    BY <2>1 DEF IsKept, HoldsKept, Holds, Found
<1>4. Valid(L) # 1 .. e => D < e
  BY BlocksFit
<1>5. Valid(L) = 1 .. e => D >= e
  BY BlocksFill
<1>6. D \in Nat
  BY VisitParts, BlocksInFinite
<1> HIDE DEF v, D
<1>7. ~(D < e /\ D >= e)
  BY <1>6, ShapeAssumption
<1>8. /\ v.result = "hit" <=> IsKept(vs, a)
      /\ v.result = "eviction" <=> ~IsKept(vs, a) /\ D >= e
  BY <1>2, <1>3, <1>4, <1>5, <1>7
<1> QED
  BY <1>8 DEF v, D

\* A visit leaves the cache as it should be after one visit more.
LEMMA VisitKeeps ==
  ASSUME NEW vs \in Visits, NEW a \in Addresses, NEW c, Lru(c, vs)
  PROVE  Lru(cacheVisitAddress(c, a), Append(vs, a))
<1> DEFINE s == SetIndex(a)
           L == c.sets[s]
           v == setVisitAddress(L, TagOf(a))
           d == cacheVisitAddress(c, a)
           ws == Append(vs, a)
           H == HitsOf(vs)
           E == EvictsOf(vs)
<1>1. s \in SetIndexes
  BY BlockIsSetAndTag, AddressesAssumption
<1>2. HoldsKept(L, vs, s) /\ RoomHoldsAll(L, vs, s)
  BY <1>1 DEF Lru, LinesLru
<1>3. /\ d.sets = [c.sets EXCEPT ![s] = v.lines]
      /\ d.hitTimes = Count(c.hitTimes, v.result = "hit")
      /\ d.missTimes = Count(c.missTimes, v.result # "hit")
      /\ d.evictionTimes = Count(c.evictionTimes, v.result = "eviction")
  BY DEF cacheVisitAddress
<1>4. HoldsKept(v.lines, ws, s) /\ RoomHoldsAll(v.lines, ws, s)
  BY <1>2, SetKeeps
<1>5. /\ v.result = "hit" <=> IsKept(vs, a)
      /\ v.result = "eviction"
           <=> ~IsKept(vs, a) /\ Cardinality(BlocksIn(vs, 1 .. Len(vs), s)) >= e
  BY <1>2, ResultIsLru
<1>6. /\ Len(vs) \in Nat /\ Len(ws) = Len(vs) + 1
      /\ H \subseteq 1 .. Len(vs) /\ E \subseteq 1 .. Len(vs)
      /\ HitsOf(ws) = IF IsKept(vs, a) THEN H \cup {Len(vs) + 1} ELSE H
      /\ EvictsOf(ws) =
           IF ~IsKept(vs, a) /\ Cardinality(BlocksIn(vs, 1 .. Len(vs), s)) >= e
           THEN E \cup {Len(vs) + 1} ELSE E
  BY OneMoreVisit, OneMoreCount
<1> HIDE DEF s, L, v, d, ws, H, E
<1>7. LinesLru(d, ws)
  <2>1. v.lines \in Lines
    BY <1>4 DEF HoldsKept
  <2>2. c.sets \in [SetIndexes -> Lines]
    BY DEF Lru, LinesLru
  <2>3. /\ d.sets \in [SetIndexes -> Lines] /\ d.sets[s] = v.lines
        /\ \A t \in SetIndexes : t # s => d.sets[t] = c.sets[t]
    BY <1>1, <1>3, <2>1, <2>2
  <2>4. ASSUME NEW t \in SetIndexes
        PROVE  HoldsKept(d.sets[t], ws, t) /\ RoomHoldsAll(d.sets[t], ws, t)
    <3>1. CASE t = s
      BY <1>4, <2>3, <3>1
    <3>2. CASE t # s
      <4>1. HoldsKept(c.sets[t], vs, t) /\ RoomHoldsAll(c.sets[t], vs, t)
        BY DEF Lru, LinesLru
      <4>2. HoldsKept(c.sets[t], ws, t) /\ RoomHoldsAll(c.sets[t], ws, t)
        BY <3>2, <4>1, OtherSetKeeps DEF s, ws
      <4> QED
        BY <2>3, <3>2, <4>2
    <3> QED
      BY <3>1, <3>2
  <2> QED
    BY <2>3, <2>4 DEF LinesLru
<1>8. CountsLru(d, ws)
  <2>1. /\ IsFiniteSet(H) /\ IsFiniteSet(E)
        /\ Cardinality(H) \in Nat /\ Cardinality(E) \in Nat
    <3>1. IsFiniteSet(1 .. Len(vs))
      BY <1>6, FS_Interval
    <3>2. IsFiniteSet(H) /\ IsFiniteSet(E)
      BY <1>6, <3>1, FS_Subset
    <3> QED
      BY <3>2, FS_CardinalityType
  <2>2. Len(vs) + 1 \notin H /\ Len(vs) + 1 \notin E
    BY <1>6
  <2>3. /\ Cardinality(H \cup {Len(vs) + 1}) = Cardinality(H) + 1
        /\ Cardinality(E \cup {Len(vs) + 1}) = Cardinality(E) + 1
    BY <2>1, <2>2, FS_AddElement
  <2>4. /\ c.hitTimes = Cardinality(H) /\ c.missTimes = Len(vs) - Cardinality(H)
        /\ c.evictionTimes = Cardinality(E)
    BY DEF Lru, CountsLru, H, E
  <2>5. d.hitTimes = Cardinality(HitsOf(ws))
    BY <1>3, <1>5, <1>6, <2>3, <2>4 DEF Count
  <2>6. d.missTimes = Len(ws) - Cardinality(HitsOf(ws))
    <3>1. CASE v.result = "hit"
      BY <1>3, <1>5, <1>6, <2>1, <2>3, <2>4, <3>1 DEF Count
    <3>2. CASE v.result # "hit"
      BY <1>3, <1>5, <1>6, <2>1, <2>4, <3>2 DEF Count
    <3> QED
      BY <3>1, <3>2
  <2>7. d.evictionTimes = Cardinality(EvictsOf(ws))
    BY <1>3, <1>5, <1>6, <2>3, <2>4 DEF Count
  <2> QED
    BY <2>5, <2>6, <2>7 DEF CountsLru
<1> QED
  BY <1>7, <1>8 DEF Lru, d, ws

\* The empty cache is as it should be before the first visit.
LEMMA NothingVisited == Lru(cacheInit, << >>) /\ << >> \in Visits
<1> DEFINE none == [i \in 1 .. e |-> [tag |-> 0, valid |-> FALSE, lastVisitTime |-> 0]]
           vs == << >>
<1>1. vs \in Visits /\ Len(vs) = 0 /\ 1 .. Len(vs) = {}
  BY EmptySeq DEF Visits
<1> HIDE DEF vs
<1>2. none \in Lines /\ Valid(none) = {}
  BY DEF Lines, Line, Tags, Valid
<1>3. /\ cacheInit.sets = [s \in SetIndexes |-> none]
      /\ cacheInit.hitTimes = 0 /\ cacheInit.missTimes = 0 /\ cacheInit.evictionTimes = 0
  BY DEF cacheInit
<1> HIDE DEF none
<1>4. \A s : Kept(vs, s) = {}
  BY <1>1 DEF Kept
<1>5. \A s : HoldsKept(none, vs, s) /\ RoomHoldsAll(none, vs, s)
  BY <1>1, <1>2, <1>4 DEF HoldsKept, RoomHoldsAll
<1>6. LinesLru(cacheInit, vs)
  BY <1>2, <1>3, <1>5 DEF LinesLru
<1>7. HitsOf(vs) = {} /\ EvictsOf(vs) = {}
  BY <1>1 DEF HitsOf, EvictsOf
<1>8. CountsLru(cacheInit, vs)
  BY <1>1, <1>3, <1>7, FS_EmptySet DEF CountsLru
<1> QED
  BY <1>1, <1>6, <1>8 DEF Lru, vs

-----------------------------------------------------------------------------
(***************************************************************************)
(* The theorems.                                                           *)
(***************************************************************************)
IInv == visits \in Visits /\ Lru(cache, visits)

\* Every trace line, of one visit or of two, keeps the cache as it should be.
LEMMA SpecKeepsIInv == Spec => []IInv
<1>1. Init => IInv
  BY NothingVisited DEF Init, IInv
<1>2. IInv /\ [Next]_vars => IInv'
  <2> SUFFICES ASSUME IInv, [Next]_vars
               PROVE  IInv'
    OBVIOUS
  <2>1. CASE UNCHANGED vars
    BY <2>1 DEF IInv, vars
  <2>2. ASSUME NEW a \in Addresses, Access(a)
        PROVE  IInv'
    <3>1. Append(visits, a) \in Visits /\ Lru(cacheVisitAddress(cache, a), Append(visits, a))
      BY OneMoreVisit, VisitKeeps DEF IInv
    <3> QED
      BY <2>2, <3>1 DEF Access, IInv
  <2>3. ASSUME NEW a \in Addresses, Modify(a)
        PROVE  IInv'
    <3> DEFINE c == cacheVisitAddress(cache, a)
               vs == Append(visits, a)
    <3>1. vs \in Visits /\ Lru(c, vs)
      BY OneMoreVisit, VisitKeeps DEF IInv
    <3>2. visits \o <<a, a>> = Append(vs, a)
      <4>1. visits \in Seq(Addresses)
        BY DEF IInv, Visits
      <4> QED
        BY <4>1
    <3> HIDE DEF c, vs
    <3>3. Append(vs, a) \in Visits /\ Lru(cacheVisitAddress(c, a), Append(vs, a))
      BY <3>1, OneMoreVisit, VisitKeeps
    <3>4. cache' = cacheVisitAddress(c, a) /\ visits' = Append(vs, a)
      BY <2>3, <3>2 DEF Modify, c
    <3> QED
      BY <3>3, <3>4 DEF IInv
  <2> QED
    BY <2>1, <2>2, <2>3 DEF Next
<1> QED
  BY <1>1, <1>2, PTL DEF Spec

\* The hits, the evictions and the latest visits that the properties speak of are those
\* of the invariant.
LEMMA SameVisits ==
  ASSUME visits \in Visits
  PROVE  /\ \A s : Kept(visits, s) = {k \in Latest : SetIndex(visits[k]) = s}
         /\ Hits = HitsOf(visits) /\ Evicts = EvictsOf(visits)
<1>1. DOMAIN visits = 1 .. Len(visits)
  BY LenProperties DEF Visits
<1>2. \A K, k : BlocksAmong(K, k) = BlocksIn(visits, K, SetIndex(visits[k]))
  BY DEF BlocksAmong, BlocksIn, Block, BlockOf, SameSet
<1>3. \A k : Block(k) = BlockOf(visits[k])
  BY DEF Block, BlockOf
<1>4. Latest = {k \in 1 .. Len(visits) :
                  IsLast(visits, k) /\ Cardinality(Newer(visits, k)) < e}
  BY <1>1, <1>2, <1>3 DEF Latest, IsLast, Newer
<1>5. \A s : Kept(visits, s) = {k \in Latest : SetIndex(visits[k]) = s}
  BY <1>4 DEF Kept
<1>6. Hits = HitsOf(visits)
  BY <1>1, <1>2, <1>3 DEF Hits, HitsOf
<1>7. Evicts = EvictsOf(visits)
  BY <1>1, <1>2, <1>6 DEF Evicts, EvictsOf
<1> QED
  BY <1>5, <1>6, <1>7

\* The lines that hold what is kept are as many as the kept visits.
LEMMA AsManyAsKept ==
  ASSUME NEW vs \in Visits, NEW L, NEW s, HoldsKept(L, vs, s)
  PROVE  Cardinality(Valid(L)) = Cardinality(Kept(vs, s))
<1> DEFINE V == Valid(L)
           K == Kept(vs, s)
           f == [i \in V |-> CHOOSE k \in K : Holds(L, i, vs, k)]
<1>1. V \subseteq 1 .. e
  BY DEF HoldsKept, Lines, Valid
<1>2. IsFiniteSet(V)
  <2>1. IsFiniteSet(1 .. e) /\ V \in SUBSET (1 .. e)
    BY <1>1, FS_Interval, ShapeAssumption
  <2> QED
    BY <2>1, FS_Subset
<1>3. /\ \A i \in V : \E k \in K : Holds(L, i, vs, k)
      /\ \A k \in K : \E i \in V : Holds(L, i, vs, k)
      /\ \A i, j \in V : L[i].tag = L[j].tag => i = j
  BY DEF HoldsKept
<1>4. \A j, k \in K : TagOf(vs[j]) = TagOf(vs[k]) => j = k
  BY TagIsBlock
<1> HIDE DEF V, K
<1>5. \A i \in V : f[i] \in K /\ Holds(L, i, vs, f[i])
  BY <1>3
<1>6. f \in [V -> K]
  BY <1>5
<1> HIDE DEF f
<1>7. \A i, j \in V : f[i] = f[j] => i = j
  BY <1>3, <1>5 DEF Holds
<1>8. \A k \in K : \E i \in V : f[i] = k
  <2> TAKE k \in K
  <2>1. PICK i \in V : Holds(L, i, vs, k)
    BY <1>3
  <2>2. f[i] = k
    BY <1>4, <1>5, <2>1 DEF Holds
  <2> QED
    BY <2>2
<1>9. f \in Injection(V, K) /\ f \in Surjection(V, K)
  BY <1>6, <1>7, <1>8 DEF Injection, IsInjective, Surjection
<1>10. Cardinality(K) = Cardinality(V)
  <2>1. /\ Cardinality(K) <= Cardinality(V)
        /\ Cardinality(K) = Cardinality(V) <=> f \in Injection(V, K)
    BY <1>2, <1>9, FS_Surjection
  <2> QED
    BY <1>9, <2>1
<1> QED
  BY <1>10 DEF V, K

\* The simulator replaces the least recently used line: for every number of sets, lines
\* and bytes in a block and every trace, each of the e blocks of a set that were visited
\* last has exactly one valid line there, used in the order of these visits, and no other
\* line is valid (setVisitAddress, csim.c:139-181).
THEOREM LeastRecentlyUsed == Spec => []HoldsTheLatest
<1>1. IInv => HoldsTheLatest
  <2> SUFFICES ASSUME IInv, NEW s \in SetIndexes
               PROVE  LET lines == cache.sets[s]
                          kept == {k \in Latest : SetIndex(visits[k]) = s}
                          holder == [k \in kept |->
                                      {i \in Valid(lines) : lines[i].tag = TagOf(visits[k])}]
                      IN  /\ lines \in [1 .. e -> Line]
                          /\ \A k \in kept : Cardinality(holder[k]) = 1
                          /\ Cardinality(Valid(lines)) = Cardinality(kept)
                          /\ \A j, k \in kept : \A a \in holder[j], b \in holder[k] :
                               j < k => lines[a].lastVisitTime < lines[b].lastVisitTime
    BY DEF HoldsTheLatest
  <2> DEFINE L == cache.sets[s]
             K == Kept(visits, s)
             H == [k \in K |-> {i \in Valid(L) : L[i].tag = TagOf(visits[k])}]
  <2>1. visits \in Visits /\ HoldsKept(L, visits, s)
    BY DEF IInv, Lru, LinesLru
  <2>2. K = {k \in Latest : SetIndex(visits[k]) = s}
    BY <2>1, SameVisits
  <2>3. L \in [1 .. e -> Line]
    BY <2>1 DEF HoldsKept, Lines
  <2>4. Cardinality(Valid(L)) = Cardinality(K)
    BY <2>1, AsManyAsKept
  <2>5. \A k \in K : H[k] = {i \in Valid(L) : Holds(L, i, visits, k)}
    BY DEF Holds
  <2>6. ASSUME NEW k \in K
        PROVE  Cardinality(H[k]) = 1
    <3>1. PICK i \in Valid(L) : Holds(L, i, visits, k)
      BY <2>1 DEF HoldsKept
    <3>2. H[k] = {i}
      BY <2>1, <2>5, <3>1 DEF HoldsKept, Holds
    <3> QED
      BY <3>2, FS_Singleton
  <2>7. \A j, k \in K : \A a \in H[j], b \in H[k] :
          j < k => L[a].lastVisitTime < L[b].lastVisitTime
    BY <2>1, <2>5 DEF HoldsKept
  <2> HIDE DEF K
  <2> QED
    BY <2>2, <2>3, <2>4, <2>6, <2>7
<1> QED
  BY <1>1, SpecKeepsIInv, PTL

\* The hits, misses and evictions that it prints are those of least recently used
\* replacement, as the visits alone define them (csim.c:120-137, 183-208).
THEOREM LruCounts == Spec => []CountsAreLru
<1>1. IInv => CountsAreLru
  BY SameVisits DEF IInv, Lru, CountsLru, CountsAreLru
<1> QED
  BY <1>1, SpecKeepsIInv, PTL

=============================================================================
