---------------------------- MODULE DataStructure ----------------------------
(***************************************************************************)
(* src/src/datastructure.cpp: the doubly linked list with a sentinel, cell *)
(* by cell, and the chained hash table of list nodes.  Calls come one at a *)
(* time; those that an assertion of the code would end are not made.       *)
(***************************************************************************)
EXTENDS Integers, Sequences, FiniteSets, SequencesExt

CONSTANTS
  Nodes,        \* bound: the memory for list nodes
  Data,         \* DataType
  Null, head,   \* nullptr, the sentinel
  tablesize, Keys

ASSUME DataStructureAssumption ==
  /\ IsFiniteSet(Nodes) /\ Null \notin Nodes \cup {head} /\ head \notin Nodes
  /\ tablesize \in Nat \ {0} /\ Keys \subseteq Nat

VARIABLES
  alloc,            \* the nodes that are not free
  next, prev, data, \* their fields; the sentinel has no use for prev and data
  tail, listsize,
  hashtable,        \* the chain of each index: its first item is never freed
  elems, map        \* history: the sequence and the map meant by the calls

listVars  == <<alloc, next, prev, data, tail, listsize, elems>>
tableVars == <<hashtable, map>>
vars == <<listVars, tableVars>>

Cells == Nodes \cup {head}
NoKey == -1
EmptyItem == [key |-> NoKey, value |-> Null]

Init ==
  /\ alloc = {}
  /\ next = [c \in Cells |-> Null] /\ prev = [c \in Cells |-> Null]
  /\ data = [n \in Nodes |-> Null]
  /\ tail = head /\ listsize = 0
  /\ hashtable = [i \in 0 .. tablesize - 1 |-> <<EmptyItem>>]
  /\ elems = << >> /\ map = [k \in Keys |-> Null]

(* The cell i steps behind c, and the number of steps from c to d.         *)
L_advance(c, i) ==
  LET after[j \in 0 .. i] ==
        IF j = 0 THEN c ELSE IF after[j - 1] = Null THEN Null ELSE next[after[j - 1]]
  IN  after[i]

L_begin == next[head]

Reaches(c, d) == {i \in 0 .. Cardinality(Nodes) : L_advance(c, i) = d}
L_distance(c, d) == CHOOSE i \in Reaches(c, d) : \A j \in Reaches(c, d) : i <= j

------------------------------------------------------------------------------
(* A new node n behind the last one, or behind the pos-th.                 *)
L_push(n, d, pos) ==
  LET p == L_advance(head, pos)
  IN  /\ pos \in 0 .. listsize
      /\ alloc' = alloc \cup {n}
      /\ data' = [data EXCEPT ![n] = d]
      /\ listsize' = listsize + 1
      /\ \/ /\ pos = listsize
            /\ next' = [next EXCEPT ![tail] = n, ![n] = Null]
            /\ prev' = [prev EXCEPT ![n] = tail]
            /\ tail' = n
         \/ /\ pos # listsize
            /\ next' = [next EXCEPT ![p] = n, ![n] = next[p]]
            /\ prev' = [prev EXCEPT ![next[p]] = n, ![n] = p]
            /\ UNCHANGED tail
      /\ elems' = InsertAt(elems, pos + 1, d)
      /\ UNCHANGED tableVars

L_push_front(n, d) == L_push(n, d, 0)
L_push_back(n, d)  == L_push(n, d, listsize)

Freed(n) ==
  /\ alloc' = alloc \ {n}
  /\ data' = [data EXCEPT ![n] = Null]
  /\ listsize' = listsize - 1
  /\ UNCHANGED tableVars

L_pop_front ==
  LET p == L_begin
  IN  /\ p # Null
      /\ next' = [next EXCEPT ![head] = next[p], ![p] = Null]
      /\ prev' = [c \in Cells |-> IF c = next[p] THEN head
                                  ELSE IF c = p THEN Null ELSE prev[c]]
      /\ tail' = IF p = tail THEN head ELSE tail
      /\ Freed(p)
      /\ elems' = Tail(elems)

L_pop_back ==
  LET p == prev[tail]
  IN  /\ tail # head
      /\ next' = [next EXCEPT ![p] = Null]
      /\ prev' = [prev EXCEPT ![tail] = Null]
      /\ tail' = p
      /\ Freed(tail)
      /\ elems' = Front(elems)

(* Mutant: the next node keeps pointing back to the one that is erased.    *)
L_erase_OneWay(n) ==
  LET p == prev[n]
  IN  /\ tail' = IF n = tail THEN p ELSE tail
      /\ next' = [next EXCEPT ![p] = next[n], ![n] = Null]
      /\ UNCHANGED prev
      /\ elems' = RemoveAt(elems, L_distance(head, n))
      /\ Freed(n)

L_erase(n) ==
  LET p == prev[n]
  IN  /\ tail' = IF n = tail THEN p ELSE tail
      /\ next' = [next EXCEPT ![p] = next[n], ![n] = Null]
      /\ prev' = [c \in Cells |-> IF c = next[n] THEN p
                                  ELSE IF c = n THEN Null ELSE prev[c]]
      /\ elems' = RemoveAt(elems, L_distance(head, n))
      /\ Freed(n)

(* What the destructor frees: in its loop every cell but the last, then    *)
(* the tail.                                                               *)
FreedInLoop ==
  {L_advance(head, i) : i \in {j \in 0 .. Cardinality(Nodes) : L_advance(head, j + 1) # Null}}

------------------------------------------------------------------------------
HashFuction(k) == k % tablesize

Chain(k) == hashtable[HashFuction(k)]
Found(k) == {i \in 1 .. Len(Chain(k)) : Chain(k)[i].key = k}

(* The item's place in its chain, 0 for nullptr: a chain whose first item  *)
(* has no value is taken for empty.                                        *)
H_find(k) ==
  IF Chain(k)[1].value = Null \/ Found(k) = {} THEN 0
  ELSE CHOOSE i \in Found(k) : \A j \in Found(k) : i <= j

ChainBecomes(k, c) == hashtable' = [hashtable EXCEPT ![HashFuction(k)] = c]

H_insert(k, v) ==
  LET c == Chain(k)
  IN  /\ ChainBecomes(k, IF H_find(k) # 0 THEN [c EXCEPT ![H_find(k)].value = v]
                         ELSE IF c[1].key = NoKey THEN <<[key |-> k, value |-> v]>>
                         ELSE Append(c, [key |-> k, value |-> v]))
      /\ map' = [map EXCEPT ![k] = v]
      /\ UNCHANGED listVars

(* Mutant: the lone item of a chain is taken out as well.                  *)
H_erase_Unlink(k) ==
  /\ Found(k) # {}
  /\ ChainBecomes(k, RemoveAt(Chain(k), CHOOSE i \in Found(k) : \A j \in Found(k) : i <= j))
  /\ map' = [map EXCEPT ![k] = Null]
  /\ UNCHANGED listVars

(* Mutant: an item at the head of a longer chain is only marked.           *)
H_erase_Mark(k) ==
  LET c == Chain(k)
      i == H_find(k)
  IN  /\ Found(k) # {}
      /\ ChainBecomes(k, IF i = 1 THEN [c EXCEPT ![1].key = NoKey] ELSE RemoveAt(c, i))
      /\ map' = [map EXCEPT ![k] = Null]
      /\ UNCHANGED listVars

(* The lone item of a chain is marked, and keeps its value; any other is   *)
(* taken out.  An absent key fails an assertion.                           *)
H_erase(k) ==
  LET c == Chain(k)
      i == CHOOSE i \in Found(k) : \A j \in Found(k) : i <= j
  IN  /\ Found(k) # {}
      /\ ChainBecomes(k, IF i = 1 /\ Len(c) = 1 THEN [c EXCEPT ![1].key = NoKey]
                         ELSE RemoveAt(c, i))
      /\ map' = [map EXCEPT ![k] = Null]
      /\ UNCHANGED listVars

------------------------------------------------------------------------------
ListNext ==
  \/ \E n \in Nodes \ alloc, d \in Data :
       \/ L_push_front(n, d) \/ L_push_back(n, d)
       \/ \E pos \in 1 .. listsize - 1 : L_push(n, d, pos)
  \/ L_pop_front \/ L_pop_back
  \/ \E n \in alloc : L_erase(n)

(* The values inserted are nodes, never nullptr.                           *)
TableNext == \E k \in Keys : H_erase(k) \/ \E v \in Nodes : H_insert(k, v)

Next == ListNext \/ TableNext

Spec == Init /\ [][Next]_vars

------------------------------------------------------------------------------
TypeOK ==
  /\ alloc \subseteq Nodes /\ tail \in Cells /\ listsize \in Nat
  /\ next \in [Cells -> Nodes \cup {Null}] /\ prev \in [Cells -> Cells \cup {Null}]
  /\ data \in [Nodes -> Data \cup {Null}]
  /\ \A i \in 0 .. tablesize - 1 :
       /\ hashtable[i] # << >>
       /\ \A j \in 1 .. Len(hashtable[i]) :
            hashtable[i][j] \in [key : Keys \cup {NoKey}, value : Nodes \cup {Null}]

(* The cells read the same from both ends, and are the sequence the calls  *)
(* mean: after every insertion or erasure at either end or in the middle   *)
(* next, prev, tail and listsize agree, no cell points to a free one, and  *)
(* the destructor would free every cell once.                              *)
ListIsSequence ==
  /\ listsize = Len(elems) /\ Cardinality(alloc) = listsize
  /\ tail = L_advance(head, listsize) /\ next[tail] = Null
  /\ \A i \in 1 .. listsize :
       LET n == L_advance(head, i)
       IN  /\ n \in alloc /\ data[n] = elems[i]
           /\ prev[n] = L_advance(head, i - 1)
  /\ tail \notin FreedInLoop /\ FreedInLoop \cup {tail} = alloc \cup {head}

(* A key is found exactly when it was inserted and not erased since, with  *)
(* its last value: the first item of a chain, which is reused, marked or   *)
(* replaced, hides no other.                                               *)
TableIsMap ==
  \A k \in Keys :
    /\ H_find(k) = 0 <=> map[k] = Null
    /\ map[k] # Null => Chain(k)[H_find(k)].value = map[k]
=============================================================================
