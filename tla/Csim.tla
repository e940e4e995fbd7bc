-------------------------------- MODULE Csim --------------------------------
(***************************************************************************)
(* The cache simulator of lab8 (csim.c): 2^setIndexBit sets of e lines,    *)
(* run on the data accesses of a trace.  The properties compare it with    *)
(* the definition of least recently used replacement by the visits alone.  *)
(*                                                                         *)
(* A trace line is one step, and modify makes two visits in its step.      *)
(* Lines of the trace that load instructions change nothing.               *)
(***************************************************************************)
EXTENDS Integers, Sequences, FiniteSetsExt

CONSTANTS setIndexBit, blockBit, \* the address bits of the set and of the byte
          e,                     \* lines in a set
          Addresses,             \* addresses in the trace
          MaxVisits              \* bound of the model on the visits

ASSUME ShapeAssumption == setIndexBit \in Nat /\ blockBit \in Nat /\ e \in Nat \ {0}
ASSUME AddressesAssumption == Addresses \subseteq Nat
ASSUME MaxVisitsAssumption == MaxVisits \in Nat

VARIABLES cache,  \* cache_t
          visits  \* history: the addresses visited

vars == <<cache, visits>>

SetIndex(address) == (address \div 2 ^ blockBit) % 2 ^ setIndexBit
TagOf(address) == address \div 2 ^ (blockBit + setIndexBit)

SetIndexes == 0 .. 2 ^ setIndexBit - 1
Tags == {TagOf(a) : a \in Addresses} \cup {0}
Line == [tag : Tags, valid : BOOLEAN, lastVisitTime : Nat]

cacheInit ==
  [sets |-> [s \in SetIndexes |->
              [i \in 1 .. e |-> [tag |-> 0, valid |-> FALSE, lastVisitTime |-> 0]]],
   hitTimes |-> 0, missTimes |-> 0, evictionTimes |-> 0]

-----------------------------------------------------------------------------
(***************************************************************************)
(* A visit to one set of lines.                                            *)
(***************************************************************************)
Valid(lines) == {i \in DOMAIN lines : lines[i].valid}

latestVisitTime(lines) == Max({0} \cup {lines[i].lastVisitTime : i \in Valid(lines)}) + 1

\* The first of the valid lines visited longest ago.
OldestLine(lines) ==
  Min({i \in Valid(lines) :
         \A k \in Valid(lines) : lines[i].lastVisitTime <= lines[k].lastVisitTime})

\* Mutant: a hit does not count as a visit, which makes it first in, first out.
setVisitAddress_fifo(lines, tag) ==
  LET found == {i \in Valid(lines) : lines[i].tag = tag}
      empty == DOMAIN lines \ Valid(lines)
      Put(i) == [lines EXCEPT ![i] = [tag |-> tag, valid |-> TRUE,
                                      lastVisitTime |-> latestVisitTime(lines)]]
  IN  CASE found # {} -> [lines |-> lines, result |-> "hit"]
        [] found = {} /\ empty # {} -> [lines |-> Put(Min(empty)), result |-> "miss"]
        [] OTHER -> [lines |-> Put(OldestLine(lines)), result |-> "eviction"]

setVisitAddress(lines, tag) ==
  LET found == {i \in Valid(lines) : lines[i].tag = tag}
      empty == DOMAIN lines \ Valid(lines)
      Visit(i, result) ==
        [lines |-> [lines EXCEPT ![i] = [tag |-> tag, valid |-> TRUE,
                                         lastVisitTime |-> latestVisitTime(lines)]],
         result |-> result]
  IN  CASE found # {} -> Visit(Min(found), "hit")
        [] found = {} /\ empty # {} -> Visit(Min(empty), "miss")
        [] OTHER -> Visit(OldestLine(lines), "eviction")

Count(n, b) == IF b THEN n + 1 ELSE n

\* Mutant: an eviction is not also a miss.
cacheVisitAddress_uncounted(c, address) ==
  LET s == SetIndex(address)
      v == setVisitAddress(c.sets[s], TagOf(address))
  IN  [sets |-> [c.sets EXCEPT ![s] = v.lines],
       hitTimes |-> Count(c.hitTimes, v.result = "hit"),
       missTimes |-> Count(c.missTimes, v.result = "miss"),
       evictionTimes |-> Count(c.evictionTimes, v.result = "eviction")]

cacheVisitAddress(c, address) ==
  LET s == SetIndex(address)
      v == setVisitAddress(c.sets[s], TagOf(address))
  IN  [sets |-> [c.sets EXCEPT ![s] = v.lines],
       hitTimes |-> Count(c.hitTimes, v.result = "hit"),
       missTimes |-> Count(c.missTimes, v.result # "hit"),
       evictionTimes |-> Count(c.evictionTimes, v.result = "eviction")]

-----------------------------------------------------------------------------
Init == cache = cacheInit /\ visits = << >>

\* Trace lines L and S.
Access(address) == /\ Len(visits) < MaxVisits
                   /\ cache' = cacheVisitAddress(cache, address)
                   /\ visits' = Append(visits, address)

\* Trace line M: a load and a store.
Modify(address) == /\ Len(visits) + 1 < MaxVisits
                   /\ cache' = cacheVisitAddress(cacheVisitAddress(cache, address), address)
                   /\ visits' = visits \o <<address, address>>

Next == \E address \in Addresses : Access(address) \/ Modify(address)

Spec == Init /\ [][Next]_vars

-----------------------------------------------------------------------------
(***************************************************************************)
(* Least recently used replacement, from the visits alone.                 *)
(***************************************************************************)
Block(k) == visits[k] \div 2 ^ blockBit
SameSet(j, k) == SetIndex(visits[j]) = SetIndex(visits[k])

\* The blocks of the set of visit k among the visits in K.
BlocksAmong(K, k) == {Block(j) : j \in {i \in K : SameSet(i, k)}}

\* Visit k hits if fewer than e other blocks of its set were visited since the last
\* visit to its block, and evicts if it misses and e blocks had been there.
Hits == {k \in DOMAIN visits :
           \E j \in 1 .. k - 1 : /\ Block(j) = Block(k)
                                 /\ Cardinality(BlocksAmong(j + 1 .. k - 1, k)) < e}

Evicts == {k \in DOMAIN visits \ Hits : Cardinality(BlocksAmong(1 .. k - 1, k)) >= e}

\* The last visits to the blocks that are among the e latest of their set.
Latest == {k \in DOMAIN visits :
             LET newer == BlocksAmong(k + 1 .. Len(visits), k)
             IN  Block(k) \notin newer /\ Cardinality(newer) < e}

-----------------------------------------------------------------------------
\* Each of the e blocks that were visited last in a set has exactly one valid line
\* there, the lines are used in the order of these visits, and no other line is valid
\* (setVisitAddress, csim.c:139-181).
HoldsTheLatest ==
  \A s \in SetIndexes :
    LET lines == cache.sets[s]
        kept == {k \in Latest : SetIndex(visits[k]) = s}
        holder == [k \in kept |-> {i \in Valid(lines) : lines[i].tag = TagOf(visits[k])}]
    IN  /\ lines \in [1 .. e -> Line]
        /\ \A k \in kept : Cardinality(holder[k]) = 1
        /\ Cardinality(Valid(lines)) = Cardinality(kept)
        /\ \A j, k \in kept : \A a \in holder[j], b \in holder[k] :
             j < k => lines[a].lastVisitTime < lines[b].lastVisitTime

\* The counts that the simulator prints are those of least recently used replacement
\* (csim.c:120-137, 183-208).
CountsAreLru ==
  /\ cache.hitTimes = Cardinality(Hits)
  /\ cache.missTimes = Len(visits) - Cardinality(Hits)
  /\ cache.evictionTimes = Cardinality(Evicts)

=============================================================================
