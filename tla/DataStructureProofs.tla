-------------------------- MODULE DataStructureProofs --------------------------
(***************************************************************************)
(* Theorems about DataStructure, for any memory, values and table size: a  *)
(* list is the sequence its calls mean, read forwards, backwards and by    *)
(* the destructor, and a table is the map its calls mean.                  *)
(*                                                                         *)
(* A list is seen through its path g: g[0] is the sentinel, g[i] the i-th  *)
(* node, and Null what follows the last.                                   *)
(***************************************************************************)
EXTENDS DataStructure, Least, FiniteSetTheorems

------------------------------------------------------------------------------
(***************************************************************************)
(* Lemmas about the operators.                                             *)
(***************************************************************************)
LEMMA InsertedAt ==
  ASSUME NEW S, NEW s \in Seq(S), NEW e \in S, NEW i \in 1 .. Len(s) + 1
  PROVE  /\ InsertAt(s, i, e) \in Seq(S) /\ Len(InsertAt(s, i, e)) = Len(s) + 1
         /\ \A j \in 1 .. i - 1 : InsertAt(s, i, e)[j] = s[j]
         /\ InsertAt(s, i, e)[i] = e
         /\ \A j \in i + 1 .. Len(s) + 1 : InsertAt(s, i, e)[j] = s[j - 1]
<1> DEFINE f == SubSeq(s, 1, i - 1)
           b == SubSeq(s, i, Len(s))
<1>1. /\ f \in Seq(S) /\ Len(f) = i - 1 /\ \A j \in 1 .. i - 1 : f[j] = s[j]
      /\ b \in Seq(S) /\ Len(b) = Len(s) - i + 1 /\ \A j \in 1 .. Len(s) - i + 1 : b[j] = s[j + i - 1]
  OBVIOUS
<1>2. InsertAt(s, i, e) = f \o <<e>> \o b
  BY DEF InsertAt
<1> HIDE DEF f, b
<1> DEFINE fe == f \o <<e>>
<1>3. /\ fe \in Seq(S) /\ Len(fe) = i /\ fe[i] = e /\ \A j \in 1 .. i - 1 : fe[j] = s[j]
  BY <1>1
<1>4. InsertAt(s, i, e) = fe \o b
  BY <1>2
<1> HIDE DEF fe
<1> QED BY <1>1, <1>3, <1>4

LEMMA RemovedAt ==
  ASSUME NEW S, NEW s \in Seq(S), NEW i \in 1 .. Len(s)
  PROVE  /\ RemoveAt(s, i) \in Seq(S) /\ Len(RemoveAt(s, i)) = Len(s) - 1
         /\ \A j \in 1 .. i - 1 : RemoveAt(s, i)[j] = s[j]
         /\ \A j \in i .. Len(s) - 1 : RemoveAt(s, i)[j] = s[j + 1]
<1> DEFINE f == SubSeq(s, 1, i - 1)
           b == SubSeq(s, i + 1, Len(s))
<1>1. /\ f \in Seq(S) /\ Len(f) = i - 1 /\ \A j \in 1 .. i - 1 : f[j] = s[j]
      /\ b \in Seq(S) /\ Len(b) = Len(s) - i /\ \A j \in 1 .. Len(s) - i : b[j] = s[j + i]
  OBVIOUS
<1>2. RemoveAt(s, i) = f \o b
  BY DEF RemoveAt
<1> HIDE DEF f, b
<1> DEFINE r == f \o b
<1>3. r \in Seq(S) /\ Len(r) = Len(f) + Len(b)
  <2>1. f \in Seq(S) /\ b \in Seq(S)
    BY <1>1
  <2> QED BY <2>1
<1>5. Len(f) + Len(b) = Len(s) - 1
  <2> HIDE DEF f, b
  <2>1. Len(s) \in Nat
    OBVIOUS
  <2> QED BY <1>1, <2>1
<1>6. \A j \in 1 .. i - 1 : r[j] = s[j]
  BY <1>1
<1>4. \A j \in i .. Len(s) - 1 : r[j] = s[j + 1]
  <2> SUFFICES ASSUME NEW j \in i .. Len(s) - 1 PROVE r[j] = s[j + 1]
    OBVIOUS
  <2>1. r[j] = b[j - (i - 1)] /\ j - (i - 1) \in 1 .. Len(s) - i
    BY <1>1
  <2> QED BY <1>1, <2>1
<1> HIDE DEF r
<1> QED BY <1>2, <1>3, <1>4, <1>5, <1>6 DEF r

LEMMA ReplacedAt ==
  ASSUME NEW S, NEW s \in Seq(S), NEW i \in 1 .. Len(s), NEW e \in S
  PROVE  /\ [s EXCEPT ![i] = e] \in Seq(S) /\ Len([s EXCEPT ![i] = e]) = Len(s)
         /\ [s EXCEPT ![i] = e][i] = e
         /\ \A j \in 1 .. Len(s) : j # i => [s EXCEPT ![i] = e][j] = s[j]
OBVIOUS

(* L_advance, with the next pointers as an argument.                       *)
Walk(nx, c, i) ==
  LET after[j \in 0 .. i] ==
        IF j = 0 THEN c ELSE IF after[j - 1] = Null THEN Null ELSE nx[after[j - 1]]
  IN  after[i]

LEMMA AdvanceWalks == \A c, i : L_advance(c, i) = Walk(next, c, i)
  BY DEF L_advance, Walk

(* What goes from cell to cell as the pointers do is the walk.             *)
LEMMA WalkAlong ==
  ASSUME NEW nx, NEW c, NEW g, NEW i \in Nat, g[0] = c,
         \A j \in 1 .. i : g[j] = IF g[j - 1] = Null THEN Null ELSE nx[g[j - 1]]
  PROVE  Walk(nx, c, i) = g[i]
<1> DEFINE E(f) == f = [j \in 0 .. i |-> IF j = 0 THEN c
                                         ELSE IF f[j - 1] = Null THEN Null ELSE nx[f[j - 1]]]
           after == CHOOSE f : E(f)
           h == [j \in 0 .. i |-> g[j]]
<1>1. Walk(nx, c, i) = after[i]
  BY DEF Walk
<1>2. E(h)
  <2> DEFINE r == [j \in 0 .. i |-> IF j = 0 THEN c
                                    ELSE IF h[j - 1] = Null THEN Null ELSE nx[h[j - 1]]]
  <2>1. \A j \in 0 .. i : h[j] = r[j]
    OBVIOUS
  <2> QED BY <2>1
<1>3. E(after)
  <2> HIDE DEF E
  <2> QED BY <1>2
<1> HIDE DEF after, h
<1>4. \A j \in 0 .. i : after[j] = IF j = 0 THEN c
                                   ELSE IF after[j - 1] = Null THEN Null ELSE nx[after[j - 1]]
  BY <1>3
<1> DEFINE B == {j \in 0 .. i : after[j] # g[j]}
<1>5. B = {}
  <2> SUFFICES ASSUME B # {} PROVE FALSE
    OBVIOUS
  <2>1. PICK x \in B : \A y \in B : x <= y
    <3>1. B \in SUBSET Nat
      OBVIOUS
    <3> HIDE DEF B
    <3> QED BY <3>1, LeastElement
  <2>2. x \in 1 .. i /\ after[x - 1] = g[x - 1]
    BY <1>4, <2>1
  <2> QED BY <1>4, <2>1, <2>2
<1> QED BY <1>1, <1>5

------------------------------------------------------------------------------
(***************************************************************************)
(* The list.                                                               *)
(***************************************************************************)
ListTypes ==
  /\ alloc \subseteq Nodes /\ tail \in Cells /\ listsize \in Nat
  /\ next \in [Cells -> Nodes \cup {Null}] /\ prev \in [Cells -> Cells \cup {Null}]
  /\ data \in [Nodes -> Data \cup {Null}] /\ elems \in Seq(Data)
  /\ listsize = Len(elems) /\ IsFiniteSet(alloc) /\ Cardinality(alloc) = listsize

(* g[i] is the cell i steps behind the sentinel.                           *)
OnPath(g) ==
  /\ g \in [Nat -> Cells \cup {Null}]
  /\ g[0] = head /\ \A i \in Nat : i > listsize => g[i] = Null
  /\ \A i \in 1 .. listsize : g[i] \in alloc
  /\ \A i, j \in 1 .. listsize : g[i] = g[j] => i = j
  /\ \A n \in alloc : \E i \in 1 .. listsize : g[i] = n
  /\ \A i \in 0 .. listsize : next[g[i]] = g[i + 1]
  /\ \A i \in 1 .. listsize : prev[g[i]] = g[i - 1] /\ data[g[i]] = elems[i]
  /\ tail = g[listsize]

ListInv == ListTypes /\ \E g : OnPath(g)

LEMMA Advances ==
  ASSUME ListTypes, NEW g, OnPath(g), NEW i \in Nat
  PROVE  L_advance(head, i) = g[i]
<1>1. ASSUME NEW j \in 1 .. i
      PROVE  g[j] = IF g[j - 1] = Null THEN Null ELSE next[g[j - 1]]
  <2>1. CASE j - 1 <= listsize
    <3>1. g[j - 1] \in alloc \cup {head} /\ next[g[j - 1]] = g[j]
      BY <2>1 DEF OnPath, ListTypes
    <3> QED BY <3>1, DataStructureAssumption DEF ListTypes
  <2>2. CASE j - 1 > listsize
    BY <2>2 DEF OnPath, ListTypes
  <2> QED BY <2>1, <2>2 DEF ListTypes
<1>2. g[0] = head
  BY DEF OnPath
<1> QED BY <1>1, <1>2, WalkAlong, AdvanceWalks

LEMMA InsertStep ==
  ASSUME ListInv, NEW n \in Nodes \ alloc, NEW d \in Data, NEW pos \in 0 .. listsize,
         L_push(n, d, pos)
  PROVE  ListInv'
<1>0. ListTypes
  BY DEF ListInv
<1>1. PICK g : OnPath(g)
  BY DEF ListInv
<1> DEFINE p == L_advance(head, pos)
           h == [i \in Nat |-> IF i <= pos THEN g[i] ELSE IF i = pos + 1 THEN n ELSE g[i - 1]]
<1>2. p = g[pos] /\ p \in alloc \cup {head} /\ next[p] = g[pos + 1] /\ p # n
  <2>1. pos \in Nat /\ pos \in 0 .. listsize
    BY <1>0 DEF ListTypes
  <2>2. p = g[pos]
    BY <1>0, <1>1, <2>1, Advances
  <2>3. g[pos] \in alloc \cup {head} /\ next[g[pos]] = g[pos + 1]
    BY <1>1, <2>1 DEF OnPath
  <2> QED BY <2>2, <2>3, DataStructureAssumption
<1> HIDE DEF p
<1>3. /\ n \in Nodes /\ n \notin alloc /\ n # head /\ n # Null /\ head # Null /\ Null \notin alloc
      /\ Cells = Nodes \cup {head}
  BY <1>0, DataStructureAssumption DEF ListTypes, Cells
<1>4. /\ alloc' = alloc \cup {n} /\ data' = [data EXCEPT ![n] = d] /\ listsize' = listsize + 1
      /\ elems' = InsertAt(elems, pos + 1, d)
  BY DEF L_push
<1>5. /\ next' \in [Cells -> Nodes \cup {Null}] /\ prev' \in [Cells -> Cells \cup {Null}]
      /\ next'[p] = n /\ next'[n] = g[pos + 1] /\ prev'[n] = p
      /\ \A c \in Cells \ {p, n} : next'[c] = next[c]
      /\ \A c \in Cells \ {n, g[pos + 1]} : prev'[c] = prev[c]
      /\ pos # listsize => prev'[g[pos + 1]] = n
      /\ tail' = IF pos = listsize THEN n ELSE tail
  <2>1. CASE pos = listsize
    <3>1. /\ tail = p /\ g[pos + 1] = Null
      BY <1>0, <1>1, <1>2, <2>1 DEF OnPath, ListTypes
    <3>2. /\ next' = [next EXCEPT ![tail] = n, ![n] = Null]
          /\ prev' = [prev EXCEPT ![n] = tail] /\ tail' = n
      BY <2>1 DEF L_push
    <3> QED BY <1>0, <1>2, <1>3, <2>1, <3>1, <3>2 DEF ListTypes
  <2>2. CASE pos # listsize
    <3>1. g[pos + 1] \in alloc /\ g[pos + 1] # n
      <4>1. pos + 1 \in 1 .. listsize
        BY <1>0, <2>2 DEF ListTypes
      <4> QED BY <1>1, <1>3, <4>1 DEF OnPath
    <3>2. /\ next' = [next EXCEPT ![p] = n, ![n] = next[p]]
          /\ prev' = [prev EXCEPT ![next[p]] = n, ![n] = p] /\ tail' = tail
      BY <2>2 DEF L_push, p
    <3> QED BY <1>0, <1>2, <1>3, <2>2, <3>1, <3>2 DEF ListTypes
  <2> QED BY <2>1, <2>2
<1>6. /\ elems' \in Seq(Data) /\ Len(elems') = listsize + 1
      /\ \A j \in 1 .. pos : elems'[j] = elems[j]
      /\ elems'[pos + 1] = d
      /\ \A j \in pos + 2 .. listsize + 1 : elems'[j] = elems[j - 1]
  <2>1. pos + 1 \in 1 .. Len(elems) + 1 /\ elems \in Seq(Data) /\ Len(elems) = listsize
        /\ (pos + 1) - 1 = pos /\ (pos + 1) + 1 = pos + 2
    BY <1>0 DEF ListTypes
  <2> QED BY <1>4, <2>1, InsertedAt
<1>7. ListTypes'
  <2>1. alloc' \subseteq Nodes /\ data' \in [Nodes -> Data \cup {Null}] /\ tail' \in Cells
    BY <1>0, <1>3, <1>4, <1>5 DEF ListTypes
  <2>2. IsFiniteSet(alloc') /\ Cardinality(alloc') = listsize + 1
    BY <1>0, <1>3, <1>4, FS_AddElement DEF ListTypes
  <2>3. listsize' \in Nat /\ listsize' = Len(elems')
    BY <1>0, <1>4, <1>6 DEF ListTypes
  <2> QED BY <1>4, <1>5, <1>6, <2>1, <2>2, <2>3 DEF ListTypes, Cells
<1>8. OnPath(h)'
  <2>0. /\ listsize \in Nat /\ pos \in 0 .. listsize /\ listsize' = listsize + 1
        /\ \A i \in Nat : i <= pos => h[i] = g[i]
        /\ h[pos + 1] = n
        /\ \A i \in Nat : i > pos + 1 => h[i] = g[i - 1]
    BY <1>0, <1>4 DEF ListTypes
  <2>1. /\ g \in [Nat -> Cells \cup {Null}]
        /\ g[0] = head /\ \A i \in Nat : i > listsize => g[i] = Null
        /\ \A i \in 1 .. listsize : g[i] \in alloc
        /\ \A i, j \in 1 .. listsize : g[i] = g[j] => i = j
        /\ \A c \in alloc : \E i \in 1 .. listsize : g[i] = c
        /\ \A i \in 0 .. listsize : next[g[i]] = g[i + 1]
        /\ \A i \in 1 .. listsize : prev[g[i]] = g[i - 1] /\ data[g[i]] = elems[i]
        /\ tail = g[listsize]
    BY <1>1 DEF OnPath
  <2>2. h \in [Nat -> Cells \cup {Null}]
    BY <1>3, <2>0, <2>1
  <2> HIDE DEF h
  <2>3. h[0] = head /\ \A i \in Nat : i > listsize + 1 => h[i] = Null
    BY <2>0, <2>1
  <2>4. \A i \in 1 .. listsize + 1 : h[i] \in alloc \cup {n}
    BY <2>0, <2>1
  <2>5. \A i, j \in 1 .. listsize + 1 : h[i] = h[j] => i = j
    <3> SUFFICES ASSUME NEW i \in 1 .. listsize + 1, NEW j \in 1 .. listsize + 1, h[i] = h[j],
                        i < j
                 PROVE  FALSE
      BY <2>0
    <3>1. CASE i = pos + 1
      <4>1. h[j] = g[j - 1] /\ j - 1 \in 1 .. listsize
        BY <2>0, <3>1
      <4> QED BY <1>3, <2>0, <2>1, <3>1, <4>1
    <3>2. CASE i # pos + 1
      <4>1. PICK k \in 1 .. listsize : h[i] = g[k] /\ k = IF i <= pos THEN i ELSE i - 1
        BY <2>0, <3>2
      <4>2. CASE j = pos + 1
        BY <1>3, <2>0, <2>1, <4>1, <4>2
      <4>3. CASE j # pos + 1
        <5>1. PICK m \in 1 .. listsize : h[j] = g[m] /\ m = IF j <= pos THEN j ELSE j - 1
          BY <2>0, <4>3
        <5>2. k = m
          <6>1. g[k] = g[m] /\ k \in 1 .. listsize /\ m \in 1 .. listsize
            BY <4>1, <5>1
          <6> QED BY <2>1, <6>1
        <5> QED BY <2>0, <3>2, <4>1, <4>3, <5>1, <5>2
      <4> QED BY <4>2, <4>3
    <3> QED BY <3>1, <3>2
  <2>6. \A c \in alloc \cup {n} : \E i \in 1 .. listsize + 1 : h[i] = c
    <3>1. \E i \in 1 .. listsize + 1 : h[i] = n
      BY <2>0
    <3>2. ASSUME NEW c \in alloc PROVE \E i \in 1 .. listsize + 1 : h[i] = c
      <4>1. PICK k \in 1 .. listsize : g[k] = c
        BY <2>1
      <4>2. CASE k <= pos
        BY <2>0, <4>1, <4>2
      <4>3. CASE k > pos
        <5>1. k + 1 \in 1 .. listsize + 1 /\ h[k + 1] = g[k]
          BY <2>0, <4>1, <4>3
        <5> QED BY <4>1, <5>1
      <4> QED BY <2>0, <4>2, <4>3
    <3> QED BY <3>1, <3>2
  <2>7. ASSUME NEW i \in 0 .. listsize + 1 PROVE next'[h[i]] = h[i + 1]
    <3>1. CASE i < pos
      <4>1. h[i] = g[i] /\ h[i + 1] = g[i + 1] /\ g[i] \in Cells /\ g[i] # n
        BY <1>0, <1>3, <2>0, <2>1, <3>1 DEF ListTypes
      <4>2. g[i] # p
        <5>1. pos \in 1 .. listsize /\ g[pos] \in alloc /\ head \notin alloc
          BY <1>0, <2>0, <2>1, <3>1, DataStructureAssumption DEF ListTypes
        <5>2. CASE i = 0
          BY <1>2, <2>1, <5>1, <5>2
        <5>3. CASE i # 0
          <6>1. i \in 1 .. listsize /\ i # pos
            BY <2>0, <3>1, <5>3
          <6> QED BY <1>2, <2>1, <5>1, <6>1
        <5> QED BY <5>2, <5>3
      <4> QED BY <1>5, <2>0, <2>1, <3>1, <4>1, <4>2
    <3>2. CASE i = pos
      BY <1>2, <1>5, <2>0, <3>2
    <3>3. CASE i = pos + 1
      BY <1>5, <2>0, <3>3
    <3>4. CASE i > pos + 1
      <4>1. /\ h[i] = g[i - 1] /\ h[i + 1] = g[i] /\ i - 1 \in 1 .. listsize
            /\ (i - 1) + 1 = i /\ (i + 1) - 1 = i
        BY <2>0, <3>4
      <4>2. g[i - 1] \in alloc /\ g[i - 1] \in Cells /\ g[i - 1] # n
        BY <1>0, <1>3, <2>1, <4>1 DEF ListTypes
      <4>3. g[i - 1] # p
        <5>1. CASE pos = 0
          BY <1>0, <1>2, <2>1, <4>2, <5>1, DataStructureAssumption DEF ListTypes
        <5>2. CASE pos # 0
          BY <1>2, <2>0, <2>1, <3>4, <4>1, <5>2
        <5> QED BY <5>1, <5>2
      <4> QED BY <1>5, <2>1, <4>1, <4>2, <4>3
    <3> QED BY <2>0, <3>1, <3>2, <3>3, <3>4
  <2>8. ASSUME NEW i \in 1 .. listsize + 1 PROVE prev'[h[i]] = h[i - 1] /\ data'[h[i]] = elems'[i]
    <3>1. CASE i <= pos
      <4>1. h[i] = g[i] /\ h[i - 1] = g[i - 1] /\ g[i] \in alloc /\ i \in 1 .. listsize
        BY <2>0, <2>1, <3>1
      <4>2. g[i] # g[pos + 1]
        BY <1>3, <2>0, <2>1, <3>1, <4>1
      <4>3. g[i] \in Cells \ {n, g[pos + 1]} /\ g[i] \in Nodes \ {n}
        BY <1>0, <1>3, <4>1, <4>2 DEF ListTypes
      <4>4. data'[g[i]] = data[g[i]]
        BY <1>0, <1>4, <4>3 DEF ListTypes
      <4>5. prev'[g[i]] = prev[g[i]]
        BY <1>5, <4>3
      <4>6. elems'[i] = elems[i]
        BY <1>6, <2>0, <3>1
      <4> QED BY <2>1, <4>1, <4>4, <4>5, <4>6
    <3>2. CASE i = pos + 1
      <4>1. data'[n] = d
        BY <1>0, <1>3, <1>4 DEF ListTypes
      <4> QED BY <1>2, <1>5, <1>6, <2>0, <3>2, <4>1
    <3>3. CASE i = pos + 2
      <4>1. h[i] = g[pos + 1] /\ h[i - 1] = n /\ pos + 1 \in 1 .. listsize /\ pos # listsize
            /\ i - 1 = pos + 1
        BY <2>0, <3>3
      <4>2. g[pos + 1] \in Nodes \ {n}
        BY <1>0, <1>3, <2>1, <4>1 DEF ListTypes
      <4>3. data'[g[pos + 1]] = data[g[pos + 1]]
        BY <1>0, <1>4, <4>2 DEF ListTypes
      <4>4. elems'[i] = elems[i - 1]
        BY <1>6, <2>0, <3>3
      <4> QED BY <1>5, <2>1, <4>1, <4>3, <4>4
    <3>4. CASE i > pos + 2
      <4>1. /\ h[i] = g[i - 1] /\ h[i - 1] = g[i - 2] /\ i - 1 \in 1 .. listsize
            /\ (i - 1) - 1 = i - 2 /\ pos + 1 \in 1 .. listsize /\ i - 1 # pos + 1
        BY <2>0, <3>4
      <4>2. g[i - 1] \in alloc /\ g[i - 1] # g[pos + 1]
        BY <2>1, <4>1
      <4>3. g[i - 1] \in Cells \ {n, g[pos + 1]} /\ g[i - 1] \in Nodes \ {n}
        BY <1>0, <1>3, <4>2 DEF ListTypes
      <4>4. data'[g[i - 1]] = data[g[i - 1]]
        BY <1>0, <1>4, <4>3 DEF ListTypes
      <4>5. elems'[i] = elems[i - 1]
        BY <1>6, <2>0, <3>4
      <4> QED BY <1>5, <2>1, <4>1, <4>3, <4>4, <4>5
    <3> QED BY <2>0, <3>1, <3>2, <3>3, <3>4
  <2>9. tail' = h[listsize + 1]
    <3>1. CASE pos = listsize
      BY <1>5, <2>0, <3>1
    <3>2. CASE pos # listsize
      BY <1>5, <2>0, <2>1, <3>2
    <3> QED BY <3>1, <3>2
  <2> QED BY <1>4, <2>0, <2>2, <2>3, <2>4, <2>5, <2>6, <2>7, <2>8, <2>9 DEF OnPath, Cells
<1> QED BY <1>7, <1>8 DEF ListInv


(* The k-th node is taken out of the path.                                 *)
Unlinked(g, k) ==
  /\ alloc' = alloc \ {g[k]} /\ data' = [data EXCEPT ![g[k]] = Null]
  /\ listsize' = listsize - 1
  /\ next' \in [Cells -> Nodes \cup {Null}] /\ next'[g[k - 1]] = g[k + 1]
  /\ \A c \in Cells \ {g[k - 1], g[k]} : next'[c] = next[c]
  /\ prev' \in [Cells -> Cells \cup {Null}]
  /\ k < listsize => prev'[g[k + 1]] = g[k - 1]
  /\ \A c \in Cells \ {g[k], g[k + 1]} : prev'[c] = prev[c]
  /\ tail' = IF k = listsize THEN g[k - 1] ELSE tail
  /\ elems' \in Seq(Data) /\ Len(elems') = listsize - 1
  /\ \A j \in 1 .. k - 1 : elems'[j] = elems[j]
  /\ \A j \in k .. listsize - 1 : elems'[j] = elems[j + 1]

LEMMA RemoveStep ==
  ASSUME ListTypes, NEW g, OnPath(g), NEW k \in 1 .. listsize, Unlinked(g, k)
  PROVE  ListInv'
<1> DEFINE h == [i \in Nat |-> IF i < k THEN g[i] ELSE g[i + 1]]
<1>1. /\ head # Null /\ Null \notin alloc /\ head \notin alloc /\ Cells = Nodes \cup {head}
      /\ alloc \subseteq Nodes /\ listsize \in Nat /\ k \in 1 .. listsize
      /\ IsFiniteSet(alloc) /\ Cardinality(alloc) = listsize
      /\ data \in [Nodes -> Data \cup {Null}] /\ tail \in Cells
  BY DataStructureAssumption DEF ListTypes, Cells
<1>2. /\ g \in [Nat -> Cells \cup {Null}]
      /\ g[0] = head /\ \A i \in Nat : i > listsize => g[i] = Null
      /\ \A i \in 1 .. listsize : g[i] \in alloc
      /\ \A i, j \in 1 .. listsize : g[i] = g[j] => i = j
      /\ \A c \in alloc : \E i \in 1 .. listsize : g[i] = c
      /\ \A i \in 0 .. listsize : next[g[i]] = g[i + 1]
      /\ \A i \in 1 .. listsize : prev[g[i]] = g[i - 1] /\ data[g[i]] = elems[i]
      /\ tail = g[listsize]
  BY DEF OnPath
<1>3. /\ alloc' = alloc \ {g[k]} /\ data' = [data EXCEPT ![g[k]] = Null]
      /\ listsize' = listsize - 1
      /\ next' \in [Cells -> Nodes \cup {Null}] /\ next'[g[k - 1]] = g[k + 1]
      /\ \A c \in Cells \ {g[k - 1], g[k]} : next'[c] = next[c]
      /\ prev' \in [Cells -> Cells \cup {Null}]
      /\ k < listsize => prev'[g[k + 1]] = g[k - 1]
      /\ \A c \in Cells \ {g[k], g[k + 1]} : prev'[c] = prev[c]
      /\ tail' = IF k = listsize THEN g[k - 1] ELSE tail
      /\ elems' \in Seq(Data) /\ Len(elems') = listsize - 1
      /\ \A j \in 1 .. k - 1 : elems'[j] = elems[j]
      /\ \A j \in k .. listsize - 1 : elems'[j] = elems[j + 1]
  BY DEF Unlinked
(* The cells of the path are distinct, the sentinel among them.            *)
<1>4. \A i, j \in 0 .. listsize : g[i] = g[j] => i = j
  <2> SUFFICES ASSUME NEW i \in 0 .. listsize, NEW j \in 0 .. listsize, g[i] = g[j], i # j
               PROVE  FALSE
    OBVIOUS
  <2>1. CASE i = 0
    <3>1. j \in 1 .. listsize
      BY <1>1, <2>1
    <3> QED BY <1>1, <1>2, <2>1, <3>1
  <2>2. CASE j = 0
    <3>1. i \in 1 .. listsize
      BY <1>1, <2>2
    <3> QED BY <1>1, <1>2, <2>2, <3>1
  <2>3. CASE i # 0 /\ j # 0
    <3>1. i \in 1 .. listsize /\ j \in 1 .. listsize
      BY <1>1, <2>3
    <3> QED BY <1>2, <3>1
  <2> QED BY <2>1, <2>2, <2>3
<1>5. ListTypes'
  <2>1. alloc' \subseteq Nodes /\ data' \in [Nodes -> Data \cup {Null}]
    BY <1>1, <1>2, <1>3
  <2>2. IsFiniteSet(alloc') /\ Cardinality(alloc') = listsize - 1
    BY <1>1, <1>2, <1>3, FS_RemoveElement
  <2>3. tail' \in Cells
    <3>1. g[k - 1] \in alloc \cup {head}
      <4>1. CASE k = 1
        BY <1>2, <4>1
      <4>2. CASE k # 1
        <5>1. k - 1 \in 1 .. listsize
          BY <1>1, <4>2
        <5> QED BY <1>2, <5>1
      <4> QED BY <4>1, <4>2
    <3> QED BY <1>1, <1>3, <3>1
  <2>4. listsize' \in Nat /\ listsize' = Len(elems')
    BY <1>1, <1>3
  <2> QED BY <1>3, <2>1, <2>2, <2>3, <2>4 DEF ListTypes, Cells
<1>6. OnPath(h)'
  <2>0. /\ h[0] = g[0] /\ listsize' = listsize - 1
        /\ \A i \in Nat : i < k => h[i] = g[i]
        /\ \A i \in Nat : i >= k => h[i] = g[i + 1]
    BY <1>1, <1>3
  <2>1. h \in [Nat -> Cells \cup {Null}]
    BY <1>2
  <2> HIDE DEF h
  <2> DEFINE s(i) == IF i < k THEN i ELSE i + 1
  (* The cell i steps behind the sentinel was s(i) steps behind it.        *)
  <2>2. \A i \in 0 .. listsize - 1 : /\ h[i] = g[s(i)] /\ s(i) \in 0 .. listsize /\ s(i) # k
                                     /\ i # 0 => s(i) \in 1 .. listsize
                                     /\ i \in Nat
    BY <1>1, <2>0
  <2>3. h[0] = head /\ \A i \in Nat : i > listsize - 1 => h[i] = Null
    <3>1. ASSUME NEW i \in Nat, i > listsize - 1 PROVE h[i] = Null
      <4>1. i + 1 \in Nat /\ i + 1 > listsize /\ i >= k
        BY <1>1, <3>1
      <4> QED BY <1>2, <2>0, <4>1
    <3> QED BY <1>2, <2>0, <3>1
  <2>4. ASSUME NEW i \in 1 .. listsize - 1 PROVE h[i] \in alloc \ {g[k]}
    <3>1. i \in 0 .. listsize - 1 /\ i # 0 /\ k \in 0 .. listsize
      BY <1>1
    <3>2. h[i] = g[s(i)] /\ s(i) \in 1 .. listsize /\ s(i) \in 0 .. listsize /\ s(i) # k
      BY <2>2, <3>1
    <3> HIDE DEF s
    <3> QED BY <1>2, <1>4, <3>1, <3>2
  <2>5. ASSUME NEW i \in 1 .. listsize - 1, NEW j \in 1 .. listsize - 1, h[i] = h[j]
        PROVE  i = j
    <3>1. i \in 0 .. listsize - 1 /\ j \in 0 .. listsize - 1
      BY <1>1
    <3>2. g[s(i)] = g[s(j)] /\ s(i) \in 0 .. listsize /\ s(j) \in 0 .. listsize
      BY <2>2, <2>5, <3>1
    <3>3. s(i) = s(j)
      <4> HIDE DEF s
      <4> QED BY <1>4, <3>2
    <3> QED BY <1>1, <3>3
  <2>6. ASSUME NEW c \in alloc \ {g[k]} PROVE \E i \in 1 .. listsize - 1 : h[i] = c
    <3>1. PICK j \in 1 .. listsize : g[j] = c
      BY <1>2
    <3>2. j # k
      BY <2>6, <3>1
    <3>3. CASE j < k
      <4>1. j \in 1 .. listsize - 1 /\ h[j] = g[j]
        BY <1>1, <2>0, <3>3
      <4> QED BY <3>1, <4>1
    <3>4. CASE j > k
      <4>1. j - 1 \in 1 .. listsize - 1 /\ j - 1 \in Nat /\ j - 1 >= k /\ (j - 1) + 1 = j
        BY <1>1, <3>4
      <4>2. h[j - 1] = g[j]
        BY <2>0, <4>1
      <4> QED BY <3>1, <4>1, <4>2
    <3> QED BY <1>1, <3>2, <3>3, <3>4
  <2>7. ASSUME NEW i \in 0 .. listsize - 1 PROVE next'[h[i]] = h[i + 1]
    <3>1. CASE i = k - 1
      <4>1. h[i] = g[k - 1] /\ h[i + 1] = g[k + 1]
        BY <1>1, <2>0, <3>1
      <4> QED BY <1>3, <4>1
    <3>2. CASE i # k - 1
      <4>1. /\ h[i] = g[s(i)] /\ s(i) \in 0 .. listsize /\ s(i) # k /\ s(i) # k - 1
            /\ k \in 0 .. listsize /\ k - 1 \in 0 .. listsize
        BY <1>1, <2>2, <3>2
      <4>2. h[i + 1] = g[s(i) + 1]
        BY <1>1, <2>0, <3>2
      <4> HIDE DEF s
      <4>3. g[s(i)] # g[k] /\ g[s(i)] # g[k - 1]
        BY <1>4, <4>1
      <4>4. g[s(i)] \in Cells
        <5>1. CASE s(i) = 0
          BY <1>1, <1>2, <5>1
        <5>2. CASE s(i) # 0
          <6>1. s(i) \in 1 .. listsize
            BY <4>1, <5>2
          <6> QED BY <1>1, <1>2, <6>1
        <5> QED BY <5>1, <5>2
      <4>5. next'[g[s(i)]] = next[g[s(i)]]
        BY <1>3, <4>3, <4>4
      <4> QED BY <1>2, <4>1, <4>2, <4>5
    <3> QED BY <3>1, <3>2
  <2>8. ASSUME NEW i \in 1 .. listsize - 1
        PROVE  prev'[h[i]] = h[i - 1] /\ data'[h[i]] = elems'[i]
    <3>1. /\ h[i] = g[s(i)] /\ s(i) \in 1 .. listsize /\ s(i) # k
          /\ s(i) \in 0 .. listsize /\ k \in 0 .. listsize /\ k + 1 \in Nat
      <4>1. i \in 0 .. listsize - 1 /\ i # 0
        BY <1>1
      <4> QED BY <1>1, <2>2, <4>1
    <3>2. g[s(i)] \in alloc /\ g[s(i)] # g[k] /\ g[s(i)] \in Nodes /\ g[s(i)] \in Cells
      <4> HIDE DEF s
      <4> QED BY <1>1, <1>2, <1>4, <3>1
    <3>3. data'[g[s(i)]] = elems[s(i)]
      <4> HIDE DEF s
      <4>1. data'[g[s(i)]] = data[g[s(i)]]
        BY <1>1, <1>3, <3>2
      <4> QED BY <1>2, <3>1, <4>1
    <3>4. elems'[i] = elems[s(i)]
      <4>1. CASE i < k
        <5>1. i \in 1 .. k - 1
          BY <1>1, <4>1
        <5> QED BY <1>3, <4>1, <5>1
      <4>2. CASE i >= k
        <5>1. i \in k .. listsize - 1
          BY <1>1, <4>2
        <5>2. elems'[i] = elems[i + 1] /\ s(i) = i + 1
          BY <1>1, <1>3, <4>2, <5>1
        <5> QED BY <5>2
      <4> QED BY <1>1, <4>1, <4>2
    <3>5. CASE i = k
      <4>1. /\ s(i) = k + 1 /\ h[i - 1] = g[k - 1] /\ k < listsize
        BY <1>1, <2>0, <3>5
      <4> QED BY <1>3, <3>1, <3>3, <3>4, <4>1
    <3>6. CASE i # k
      <4>1. h[i - 1] = g[s(i) - 1] /\ s(i) # k + 1
        BY <1>1, <2>0, <3>6
      <4> HIDE DEF s
      <4>2. g[s(i)] # g[k + 1]
        <5>1. CASE k < listsize
          <6>1. k + 1 \in 0 .. listsize
            BY <1>1, <5>1
          <6> QED BY <1>4, <3>1, <4>1, <6>1
        <5>2. CASE k = listsize
          <6>1. g[k + 1] = Null
            BY <1>1, <1>2, <5>2
          <6> QED BY <1>1, <3>2, <6>1
        <5> QED BY <1>1, <5>1, <5>2
      <4>3. prev'[g[s(i)]] = prev[g[s(i)]]
        BY <1>3, <3>2, <4>2
      <4> QED BY <1>2, <3>1, <3>3, <3>4, <4>1, <4>3
    <3> QED BY <3>5, <3>6
  <2>9. tail' = h[listsize - 1]
    <3>1. CASE k = listsize
      BY <1>1, <1>3, <2>0, <3>1
    <3>2. CASE k # listsize
      <4>1. listsize - 1 \in Nat /\ listsize - 1 >= k /\ (listsize - 1) + 1 = listsize
        BY <1>1, <3>2
      <4>2. h[listsize - 1] = g[listsize]
        <5>1. h[listsize - 1] = g[(listsize - 1) + 1]
          BY <2>0, <4>1
        <5> QED BY <4>1, <5>1
      <4> QED BY <1>2, <1>3, <3>2, <4>2
    <3> QED BY <3>1, <3>2
  <2> HIDE DEF s
  <2> QED BY <1>2, <1>3, <2>0, <2>1, <2>3, <2>4, <2>5, <2>6, <2>7, <2>8, <2>9 DEF OnPath, Cells
<1> QED BY <1>5, <1>6 DEF ListInv

LEMMA PopFrontStep ==
  ASSUME ListInv, L_pop_front
  PROVE  ListInv'
<1>0. ListTypes
  BY DEF ListInv
<1>1. PICK g : OnPath(g)
  BY DEF ListInv
<1>2. /\ head # Null /\ Null \notin alloc /\ head \notin alloc /\ Cells = Nodes \cup {head}
      /\ alloc \subseteq Nodes /\ listsize \in Nat /\ elems \in Seq(Data) /\ Len(elems) = listsize
      /\ next \in [Cells -> Nodes \cup {Null}] /\ prev \in [Cells -> Cells \cup {Null}]
  BY <1>0, DataStructureAssumption DEF ListTypes, Cells
<1>3. L_begin = g[1] /\ g[0] = head
  <2>1. 0 \in 0 .. listsize /\ 0 + 1 = 1
    BY <1>2
  <2>2. next[g[0]] = g[0 + 1] /\ g[0] = head
    BY <1>1, <2>1 DEF OnPath
  <2> QED BY <2>1, <2>2 DEF L_begin
<1>4. 1 \in 1 .. listsize /\ listsize # 0
  <2>1. g[1] # Null
    BY <1>3 DEF L_pop_front
  <2>2. CASE listsize = 0
    BY <1>1, <2>1, <2>2 DEF OnPath
  <2> QED BY <1>2, <2>2
<1>5. /\ g[1] \in alloc /\ next[g[1]] = g[2] /\ tail = g[listsize]
      /\ \A i \in 1 .. listsize : g[i] = g[1] => i = 1
      /\ g[2] # head /\ g[2] # g[1]
  <2>1. /\ g[1] \in alloc /\ next[g[1]] = g[1 + 1] /\ tail = g[listsize]
        /\ \A i \in 1 .. listsize : g[i] = g[1] => i = 1
    <3>1. 1 \in 0 .. listsize
      BY <1>4, <1>2
    <3> QED BY <1>1, <1>4, <3>1 DEF OnPath
  <2>2. CASE listsize = 1
    <3>1. g[2] = Null
      BY <1>1, <2>2 DEF OnPath
    <3> QED BY <1>2, <2>1, <3>1
  <2>3. CASE listsize # 1
    <3>1. 2 \in 1 .. listsize
      BY <1>2, <1>4, <2>3
    <3>2. g[2] \in alloc
      BY <1>1, <3>1 DEF OnPath
    <3> QED BY <1>2, <2>1, <3>1, <3>2
  <2> QED BY <2>2, <2>3
<1>6. /\ next' = [next EXCEPT ![head] = g[2], ![g[1]] = Null]
      /\ prev' = [c \in Cells |-> IF c = g[2] THEN head
                                  ELSE IF c = g[1] THEN Null ELSE prev[c]]
      /\ tail' = IF g[1] = tail THEN head ELSE tail
      /\ alloc' = alloc \ {g[1]} /\ data' = [data EXCEPT ![g[1]] = Null]
      /\ listsize' = listsize - 1 /\ elems' = Tail(elems)
  BY <1>3, <1>5 DEF L_pop_front, Freed
<1>7. Unlinked(g, 1)
  <2>1. g[1] \in Cells /\ head \in Cells /\ g[1] # head
    BY <1>2, <1>5
  <2>2. g[2] \in Nodes \cup {Null}
    BY <1>2, <1>5, <2>1
  <2>3. /\ next' \in [Cells -> Nodes \cup {Null}] /\ next'[head] = g[2]
        /\ \A c \in Cells \ {head, g[1]} : next'[c] = next[c]
    BY <1>2, <1>6, <2>1, <2>2
  <2>4. /\ prev' \in [Cells -> Cells \cup {Null}]
        /\ \A c \in Cells \ {g[1], g[2]} : prev'[c] = prev[c]
    BY <1>2, <1>6
  <2>5. 1 < listsize => prev'[g[2]] = head
    <3>1. ASSUME 1 < listsize PROVE g[2] \in Cells
      <4>1. 2 \in 1 .. listsize
        BY <1>2, <3>1
      <4>2. g[2] \in alloc
        BY <1>1, <4>1 DEF OnPath
      <4> QED BY <1>2, <4>2
    <3> QED BY <1>6, <3>1
  <2>6. tail' = IF 1 = listsize THEN head ELSE tail
    <3>1. g[1] = tail <=> 1 = listsize
      <4>1. listsize \in 1 .. listsize
        BY <1>2, <1>4
      <4> QED BY <1>5, <4>1
    <3> QED BY <1>6, <3>1
  <2>7. /\ elems' \in Seq(Data) /\ Len(elems') = listsize - 1
        /\ \A j \in 1 .. listsize - 1 : elems'[j] = elems[j + 1]
    <3>1. elems # << >>
      BY <1>2, <1>4
    <3> QED BY <1>2, <1>6, <3>1
  <2>8. \A j \in 1 .. 1 - 1 : elems'[j] = elems[j]
    OBVIOUS
  <2>9. 1 - 1 = 0 /\ 1 + 1 = 2
    OBVIOUS
  <2> QED BY <1>3, <1>6, <2>3, <2>4, <2>5, <2>6, <2>7, <2>8, <2>9 DEF Unlinked
<1> QED BY <1>0, <1>1, <1>4, <1>7, RemoveStep

LEMMA PopBackStep ==
  ASSUME ListInv, L_pop_back
  PROVE  ListInv'
<1>0. ListTypes
  BY DEF ListInv
<1>1. PICK g : OnPath(g)
  BY DEF ListInv
<1>2. /\ head # Null /\ Null \notin alloc /\ head \notin alloc /\ Cells = Nodes \cup {head}
      /\ alloc \subseteq Nodes /\ listsize \in Nat /\ elems \in Seq(Data) /\ Len(elems) = listsize
      /\ next \in [Cells -> Nodes \cup {Null}] /\ prev \in [Cells -> Cells \cup {Null}]
  BY <1>0, DataStructureAssumption DEF ListTypes, Cells
<1> DEFINE k == listsize
<1>3. k \in 1 .. listsize /\ tail = g[k]
  <2>1. tail = g[listsize] /\ g[0] = head
    BY <1>1 DEF OnPath
  <2>2. tail # head
    BY DEF L_pop_back
  <2> QED BY <1>2, <2>1, <2>2
<1>4. g[k] \in alloc /\ prev[g[k]] = g[k - 1] /\ g[k + 1] = Null /\ next[g[k]] = g[k + 1]
  BY <1>1, <1>2, <1>3 DEF OnPath
<1>5. g[k - 1] \in Cells
  <2>1. CASE k = 1
    BY <1>1, <1>2, <2>1 DEF OnPath
  <2>2. CASE k # 1
    <3>1. k - 1 \in 1 .. listsize
      BY <1>2, <1>3, <2>2
    <3>2. g[k - 1] \in alloc
      BY <1>1, <3>1 DEF OnPath
    <3> QED BY <1>2, <3>2
  <2> QED BY <2>1, <2>2
<1>6. /\ next' = [next EXCEPT ![g[k - 1]] = Null] /\ prev' = [prev EXCEPT ![g[k]] = Null]
      /\ tail' = g[k - 1] /\ alloc' = alloc \ {g[k]} /\ data' = [data EXCEPT ![g[k]] = Null]
      /\ listsize' = listsize - 1 /\ elems' = Front(elems)
  BY <1>3, <1>4 DEF L_pop_back, Freed
<1>7. Unlinked(g, k)
  <2>1. /\ next' \in [Cells -> Nodes \cup {Null}] /\ next'[g[k - 1]] = g[k + 1]
        /\ \A c \in Cells \ {g[k - 1], g[k]} : next'[c] = next[c]
    BY <1>2, <1>4, <1>5, <1>6
  <2>2. /\ prev' \in [Cells -> Cells \cup {Null}]
        /\ \A c \in Cells \ {g[k], g[k + 1]} : prev'[c] = prev[c]
    BY <1>2, <1>4, <1>6
  <2>3. /\ elems' \in Seq(Data) /\ Len(elems') = listsize - 1
        /\ \A j \in 1 .. k - 1 : elems'[j] = elems[j]
        /\ \A j \in k .. listsize - 1 : elems'[j] = elems[j + 1]
    <3>1. elems' = SubSeq(elems, 1, Len(elems) - 1)
      BY <1>6 DEF Front
    <3> QED BY <1>2, <1>3, <3>1
  <2> QED BY <1>2, <1>6, <2>1, <2>2, <2>3 DEF Unlinked
<1> QED BY <1>0, <1>1, <1>3, <1>7, RemoveStep

(* A node's distance from the sentinel is its place.                       *)
LEMMA Distance ==
  ASSUME ListTypes, NEW g, OnPath(g), NEW k \in 1 .. listsize
  PROVE  L_distance(head, g[k]) = k
<1>1. /\ head # Null /\ Null \notin alloc /\ head \notin alloc
      /\ alloc \subseteq Nodes /\ listsize \in Nat /\ listsize <= Cardinality(Nodes)
      /\ Cardinality(Nodes) \in Nat
  <2>1. Cardinality(alloc) <= Cardinality(Nodes)
    BY DataStructureAssumption, FS_Subset DEF ListTypes
  <2> QED BY <2>1, DataStructureAssumption, FS_CardinalityType DEF ListTypes
<1>2. \A i \in 0 .. Cardinality(Nodes) : L_advance(head, i) = g[k] <=> i = k
  <2> SUFFICES ASSUME NEW i \in 0 .. Cardinality(Nodes)
               PROVE  L_advance(head, i) = g[k] <=> i = k
    OBVIOUS
  <2>1. i \in Nat /\ L_advance(head, i) = g[i]
    BY <1>1, Advances
  <2>2. g[k] \in alloc /\ g[0] = head
    BY DEF OnPath
  <2>3. CASE i = 0
    BY <1>1, <2>1, <2>2, <2>3
  <2>4. CASE i \in 1 .. listsize
    BY <2>1, <2>4 DEF OnPath
  <2>5. CASE i > listsize
    BY <1>1, <2>1, <2>2, <2>5 DEF OnPath
  <2> QED BY <1>1, <2>1, <2>3, <2>4, <2>5
<1>3. Reaches(head, g[k]) = {k}
  BY <1>1, <1>2 DEF Reaches
<1> QED BY <1>1, <1>3 DEF L_distance

LEMMA EraseStep ==
  ASSUME ListInv, NEW n \in alloc, L_erase(n)
  PROVE  ListInv'
<1>0. ListTypes
  BY DEF ListInv
<1>1. PICK g : OnPath(g)
  BY DEF ListInv
<1>2. /\ head # Null /\ Null \notin alloc /\ head \notin alloc /\ Cells = Nodes \cup {head}
      /\ alloc \subseteq Nodes /\ listsize \in Nat /\ elems \in Seq(Data) /\ Len(elems) = listsize
      /\ next \in [Cells -> Nodes \cup {Null}] /\ prev \in [Cells -> Cells \cup {Null}]
  BY <1>0, DataStructureAssumption DEF ListTypes, Cells
<1>3. PICK k \in 1 .. listsize : n = g[k]
  BY <1>1 DEF OnPath
<1>4. /\ g[k] \in alloc /\ prev[g[k]] = g[k - 1] /\ next[g[k]] = g[k + 1] /\ tail = g[listsize]
      /\ \A i \in 1 .. listsize : g[i] = g[k] => i = k
  BY <1>1, <1>2, <1>3 DEF OnPath
<1>5. g[k - 1] \in Cells /\ g[k - 1] # g[k]
  <2>1. CASE k = 1
    BY <1>1, <1>2, <1>4, <2>1 DEF OnPath
  <2>2. CASE k # 1
    <3>1. k - 1 \in 1 .. listsize
      BY <1>2, <1>3, <2>2
    <3>2. g[k - 1] \in alloc
      BY <1>1, <3>1 DEF OnPath
    <3> QED BY <1>2, <1>4, <3>1, <3>2
  <2> QED BY <2>1, <2>2
<1>6. g[k + 1] \in Nodes \cup {Null} /\ (k < listsize => g[k + 1] \in Cells)
  <2>1. CASE k = listsize
    BY <1>1, <1>2, <2>1 DEF OnPath
  <2>2. CASE k # listsize
    <3>1. k + 1 \in 1 .. listsize
      BY <1>2, <1>3, <2>2
    <3>2. g[k + 1] \in alloc
      BY <1>1, <3>1 DEF OnPath
    <3> QED BY <1>2, <3>2
  <2> QED BY <2>1, <2>2
<1>7. /\ next' = [next EXCEPT ![g[k - 1]] = g[k + 1], ![g[k]] = Null]
      /\ prev' = [c \in Cells |-> IF c = g[k + 1] THEN g[k - 1]
                                  ELSE IF c = g[k] THEN Null ELSE prev[c]]
      /\ tail' = IF g[k] = tail THEN g[k - 1] ELSE tail
      /\ alloc' = alloc \ {g[k]} /\ data' = [data EXCEPT ![g[k]] = Null]
      /\ listsize' = listsize - 1 /\ elems' = RemoveAt(elems, L_distance(head, g[k]))
  BY <1>3, <1>4 DEF L_erase, Freed
<1>8. Unlinked(g, k)
  <2>1. /\ next' \in [Cells -> Nodes \cup {Null}] /\ next'[g[k - 1]] = g[k + 1]
        /\ \A c \in Cells \ {g[k - 1], g[k]} : next'[c] = next[c]
    BY <1>2, <1>4, <1>5, <1>6, <1>7
  <2>2. /\ prev' \in [Cells -> Cells \cup {Null}]
        /\ k < listsize => prev'[g[k + 1]] = g[k - 1]
        /\ \A c \in Cells \ {g[k], g[k + 1]} : prev'[c] = prev[c]
    BY <1>2, <1>5, <1>6, <1>7
  <2>3. tail' = IF k = listsize THEN g[k - 1] ELSE tail
    <3>1. listsize \in 1 .. listsize
      BY <1>2, <1>3
    <3> QED BY <1>4, <1>7, <3>1
  <2>4. /\ elems' \in Seq(Data) /\ Len(elems') = listsize - 1
        /\ \A j \in 1 .. k - 1 : elems'[j] = elems[j]
        /\ \A j \in k .. listsize - 1 : elems'[j] = elems[j + 1]
    <3>1. elems' = RemoveAt(elems, k)
      BY <1>0, <1>1, <1>7, Distance
    <3>2. k \in 1 .. Len(elems)
      BY <1>2
    <3> QED BY <1>2, <3>1, <3>2, RemovedAt
  <2> QED BY <1>7, <2>1, <2>2, <2>3, <2>4 DEF Unlinked
<1> QED BY <1>0, <1>1, <1>8, RemoveStep

LEMMA ListHolds ==
  ASSUME ListInv
  PROVE  ListIsSequence
<1>0. ListTypes
  BY DEF ListInv
<1>1. PICK g : OnPath(g)
  BY DEF ListInv
<1>2. /\ head # Null /\ Null \notin alloc /\ head \notin alloc
      /\ alloc \subseteq Nodes /\ listsize \in Nat /\ listsize <= Cardinality(Nodes)
      /\ Cardinality(Nodes) \in Nat /\ listsize = Len(elems) /\ Cardinality(alloc) = listsize
  <2>1. Cardinality(alloc) <= Cardinality(Nodes)
    BY <1>0, DataStructureAssumption, FS_Subset DEF ListTypes
  <2> QED BY <1>0, <2>1, DataStructureAssumption, FS_CardinalityType DEF ListTypes
<1>3. \A i \in Nat : L_advance(head, i) = g[i]
  BY <1>0, <1>1, Advances
<1>4. /\ g[0] = head /\ \A i \in Nat : i > listsize => g[i] = Null
      /\ \A i \in 1 .. listsize : g[i] \in alloc
      /\ \A i, j \in 1 .. listsize : g[i] = g[j] => i = j
      /\ \A c \in alloc : \E i \in 1 .. listsize : g[i] = c
      /\ \A i \in 0 .. listsize : next[g[i]] = g[i + 1]
      /\ \A i \in 1 .. listsize : prev[g[i]] = g[i - 1] /\ data[g[i]] = elems[i]
      /\ tail = g[listsize]
  BY <1>1 DEF OnPath
<1>5. tail = L_advance(head, listsize) /\ next[tail] = Null
  <2>1. next[g[listsize]] = g[listsize + 1] /\ g[listsize + 1] = Null
    BY <1>2, <1>4
  <2> QED BY <1>2, <1>3, <1>4, <2>1
<1>6. ASSUME NEW i \in 1 .. listsize
      PROVE  LET n == L_advance(head, i)
             IN  n \in alloc /\ data[n] = elems[i] /\ prev[n] = L_advance(head, i - 1)
  <2>1. i \in Nat /\ i - 1 \in Nat
    BY <1>2
  <2> QED BY <1>3, <1>4, <2>1
<1>7. FreedInLoop = {g[i] : i \in 0 .. listsize - 1}
  <2>1. ASSUME NEW j \in 0 .. Cardinality(Nodes)
        PROVE  L_advance(head, j + 1) # Null <=> j \in 0 .. listsize - 1
    <3>1. j + 1 \in Nat /\ L_advance(head, j + 1) = g[j + 1]
      BY <1>2, <1>3
    <3>2. CASE j \in 0 .. listsize - 1
      <4>1. j + 1 \in 1 .. listsize
        BY <1>2, <3>2
      <4> QED BY <1>2, <1>4, <3>1, <3>2, <4>1
    <3>3. CASE j \notin 0 .. listsize - 1
      <4>1. j + 1 > listsize
        BY <1>2, <3>3
      <4> QED BY <1>4, <3>1, <3>3, <4>1
    <3> QED BY <3>2, <3>3
  <2>2. {j \in 0 .. Cardinality(Nodes) : L_advance(head, j + 1) # Null} = 0 .. listsize - 1
    <3>1. \A j \in 0 .. listsize - 1 : j \in 0 .. Cardinality(Nodes)
      BY <1>2
    <3> QED BY <2>1, <3>1
  <2>3. \A i \in 0 .. listsize - 1 : L_advance(head, i) = g[i]
    BY <1>2, <1>3
  <2> QED BY <2>2, <2>3 DEF FreedInLoop
<1>8. tail \notin FreedInLoop
  <2> SUFFICES ASSUME NEW i \in 0 .. listsize - 1, g[i] = g[listsize] PROVE FALSE
    BY <1>4, <1>7
  <2>1. listsize \in 1 .. listsize
    BY <1>2
  <2>2. CASE i = 0
    BY <1>2, <1>4, <2>1, <2>2
  <2>3. CASE i # 0
    <3>1. i \in 1 .. listsize /\ i # listsize
      BY <1>2, <2>3
    <3> QED BY <1>4, <2>1, <3>1
  <2> QED BY <2>2, <2>3
<1>9. FreedInLoop \cup {tail} = alloc \cup {head}
  <2>1. ASSUME NEW i \in 0 .. listsize PROVE g[i] \in alloc \cup {head}
    <3>1. CASE i = 0
      BY <1>4, <3>1
    <3>2. CASE i # 0
      <4>1. i \in 1 .. listsize
        BY <1>2, <3>2
      <4> QED BY <1>4, <4>1
    <3> QED BY <3>1, <3>2
  <2>2. ASSUME NEW c \in alloc \cup {head} PROVE \E i \in 0 .. listsize : g[i] = c
    <3>1. CASE c = head
      <4>1. 0 \in 0 .. listsize
        BY <1>2
      <4> QED BY <1>4, <3>1, <4>1
    <3>2. CASE c \in alloc
      <4>1. PICK i \in 1 .. listsize : g[i] = c
        BY <1>4, <3>2
      <4>2. i \in 0 .. listsize
        BY <1>2
      <4> QED BY <4>1, <4>2
    <3> QED BY <3>1, <3>2
  <2>3. \A i \in 0 .. listsize : i \in 0 .. listsize - 1 \/ i = listsize
    BY <1>2
  <2>4. listsize \in 0 .. listsize /\ \A i \in 0 .. listsize - 1 : i \in 0 .. listsize
    BY <1>2
  <2>5. FreedInLoop \cup {tail} \subseteq alloc \cup {head}
    BY <1>4, <1>7, <2>1, <2>4
  <2>6. alloc \cup {head} \subseteq FreedInLoop \cup {tail}
    <3> SUFFICES ASSUME NEW c \in alloc \cup {head} PROVE c \in FreedInLoop \cup {tail}
      OBVIOUS
    <3>1. PICK i \in 0 .. listsize : g[i] = c
      BY <2>2
    <3> QED BY <1>4, <1>7, <2>3, <3>1
  <2> QED BY <2>5, <2>6
<1> QED BY <1>2, <1>5, <1>6, <1>8, <1>9 DEF ListIsSequence

------------------------------------------------------------------------------
(***************************************************************************)
(* The table.                                                              *)
(***************************************************************************)
Indices == 0 .. tablesize - 1
Items == [key : Keys \cup {NoKey}, value : Nodes \cup {Null}]

(* The chain c of the index i holds what m maps the keys of that index to: *)
(* each once, and beside them nothing but a lone marked item.              *)
Holds(c, i, m) ==
  /\ c \in Seq(Items) /\ Len(c) >= 1
  /\ \A j \in 1 .. Len(c) :
       /\ c[j].key = NoKey => Len(c) = 1
       /\ c[j].key # NoKey => /\ HashFuction(c[j].key) = i
                              /\ c[j].value # Null /\ c[j].value = m[c[j].key]
  /\ \A j, l \in 1 .. Len(c) : c[j].key = c[l].key => j = l
  /\ \A k \in Keys : HashFuction(k) = i /\ m[k] # Null => \E j \in 1 .. Len(c) : c[j].key = k

TableInv ==
  /\ hashtable \in [Indices -> Seq(Items)]
  /\ map \in [Keys -> Nodes \cup {Null}]
  /\ \A i \in Indices : Holds(hashtable[i], i, map)

LEMMA HoldsTypes ==
  ASSUME NEW c, NEW i, NEW m, Holds(c, i, m)
  PROVE  /\ c \in Seq(Items) /\ Len(c) \in Nat /\ Len(c) >= 1
         /\ \A j \in 1 .. Len(c) :
              /\ c[j] \in Items
              /\ c[j].key = NoKey => Len(c) = 1
              /\ c[j].key # NoKey => /\ c[j].key \in Keys /\ HashFuction(c[j].key) = i
                                     /\ c[j].value # Null /\ c[j].value = m[c[j].key]
         /\ \A j, l \in 1 .. Len(c) : c[j].key = c[l].key => j = l
         /\ \A l \in Keys : HashFuction(l) = i /\ m[l] # Null
                              => \E j \in 1 .. Len(c) : c[j].key = l
<1>1. /\ c \in Seq(Items) /\ Len(c) >= 1
      /\ \A j \in 1 .. Len(c) :
           /\ c[j].key = NoKey => Len(c) = 1
           /\ c[j].key # NoKey => /\ HashFuction(c[j].key) = i
                                  /\ c[j].value # Null /\ c[j].value = m[c[j].key]
  BY DEF Holds
<1>2. Len(c) \in Nat /\ \A j \in 1 .. Len(c) : c[j] \in Items
  BY <1>1
<1>3. \A e \in Items : e.key # NoKey => e.key \in Keys
  BY DEF Items
<1>4. ASSUME NEW j \in 1 .. Len(c), c[j].key # NoKey PROVE c[j].key \in Keys
  BY <1>2, <1>3, <1>4
<1> QED BY <1>1, <1>2, <1>4 DEF Holds

LEMMA HashInRange ==
  ASSUME NEW k \in Keys
  PROVE  HashFuction(k) \in Indices /\ k \in Nat /\ k # NoKey
BY DataStructureAssumption DEF HashFuction, Indices, NoKey

LEMMA FindsOnce ==
  ASSUME TableInv, NEW k \in Keys
  PROVE  /\ map[k] = Null => Found(k) = {} /\ H_find(k) = 0
         /\ map[k] # Null => \E j \in 1 .. Len(Chain(k)) :
              /\ Found(k) = {j} /\ H_find(k) = j
              /\ Chain(k)[j].key = k /\ Chain(k)[j].value = map[k]
<1> DEFINE c == Chain(k)
<1>1. k \in Nat /\ k # NoKey /\ HashFuction(k) \in Indices
  BY HashInRange
<1>2. Holds(c, HashFuction(k), map)
  BY <1>1 DEF TableInv, Chain
<1>3. Found(k) = {i \in 1 .. Len(c) : c[i].key = k}
  BY DEF Found
<1>4. H_find(k) = IF c[1].value = Null \/ Found(k) = {} THEN 0
                  ELSE CHOOSE i \in Found(k) : \A j \in Found(k) : i <= j
  BY DEF H_find
<1> HIDE DEF c
<1>5. CASE map[k] = Null
  <2>1. Found(k) = {}
    BY <1>1, <1>2, <1>3, <1>5 DEF Holds
  <2> QED BY <1>4, <1>5, <2>1
<1>6. CASE map[k] # Null
  <2>1. PICK j \in 1 .. Len(c) : c[j].key = k
    BY <1>2, <1>6 DEF Holds
  <2>2. Found(k) = {j} /\ c[j].value = map[k]
    BY <1>1, <1>2, <1>3, <2>1 DEF Holds
  <2>3. c[1].value # Null
    <3>1. Len(c) \in Nat /\ 1 \in 1 .. Len(c)
      BY <1>2 DEF Holds
    <3>2. CASE j = 1
      BY <1>6, <2>2, <3>2
    <3>3. CASE j # 1
      BY <1>2, <2>1, <3>1, <3>3 DEF Holds
    <3> QED BY <3>2, <3>3
  <2>4. (CHOOSE i \in Found(k) : \A l \in Found(k) : i <= l) = j
    BY <2>2
  <2> QED BY <1>4, <1>6, <2>1, <2>2, <2>3, <2>4 DEF c
<1> QED BY <1>5, <1>6

(* A step changes one key, and the chain of that key.                      *)
LEMMA ChainStep ==
  ASSUME TableInv, NEW k \in Keys, NEW v \in Nodes \cup {Null}, NEW c,
         ChainBecomes(k, c), map' = [map EXCEPT ![k] = v],
         Holds(c, HashFuction(k), [map EXCEPT ![k] = v])
  PROVE  TableInv'
<1> DEFINE m == [map EXCEPT ![k] = v]
<1>1. k \in Nat /\ k # NoKey /\ HashFuction(k) \in Indices
  BY HashInRange
<1>2. hashtable' = [hashtable EXCEPT ![HashFuction(k)] = c] /\ c \in Seq(Items)
  BY DEF ChainBecomes, Holds
<1>3. hashtable' \in [Indices -> Seq(Items)]
  BY <1>1, <1>2 DEF TableInv
<1>4. m \in [Keys -> Nodes \cup {Null}] /\ m[k] = v /\ \A l \in Keys \ {k} : m[l] = map[l]
  BY DEF TableInv
<1> HIDE DEF m
<1>5. ASSUME NEW i \in Indices PROVE Holds(hashtable'[i], i, m)
  <2>1. CASE i = HashFuction(k)
    BY <1>1, <1>2, <2>1 DEF TableInv, m
  <2>2. CASE i # HashFuction(k)
    <3>1. hashtable'[i] = hashtable[i] /\ Holds(hashtable[i], i, map)
      BY <1>1, <1>2, <2>2 DEF TableInv
    <3> DEFINE b == hashtable[i]
    <3> HIDE DEF b
    <3>2. /\ b \in Seq(Items) /\ Len(b) >= 1
          /\ \A j, l \in 1 .. Len(b) : b[j].key = b[l].key => j = l
      BY <3>1 DEF Holds, b
    <3>3. ASSUME NEW j \in 1 .. Len(b)
          PROVE  /\ b[j].key = NoKey => Len(b) = 1
                 /\ b[j].key # NoKey => /\ HashFuction(b[j].key) = i
                                        /\ b[j].value # Null /\ b[j].value = m[b[j].key]
      <4>1. b[j] \in Items
        BY <3>2
      <4>2. /\ b[j].key = NoKey => Len(b) = 1
            /\ b[j].key # NoKey => /\ HashFuction(b[j].key) = i
                                   /\ b[j].value # Null /\ b[j].value = map[b[j].key]
        BY <3>1 DEF Holds, b
      <4>3. b[j].key # NoKey => b[j].key \in Keys \ {k}
        BY <2>2, <4>1, <4>2 DEF Items
      <4> QED BY <1>4, <4>2, <4>3
    <3>4. ASSUME NEW l \in Keys, HashFuction(l) = i, m[l] # Null
          PROVE  \E j \in 1 .. Len(b) : b[j].key = l
      <4>1. l # k /\ map[l] # Null
        BY <1>4, <2>2, <3>4
      <4> QED BY <3>1, <3>4, <4>1 DEF Holds, b
    <3>5. Holds(b, i, m)
      BY <3>2, <3>3, <3>4 DEF Holds
    <3> QED BY <3>1, <3>5 DEF b
  <2> QED BY <2>1, <2>2
<1> QED BY <1>3, <1>4, <1>5 DEF TableInv, m

LEMMA InsertKeyStep ==
  ASSUME TableInv, NEW k \in Keys, NEW v \in Nodes, H_insert(k, v)
  PROVE  TableInv'
<1> DEFINE c == Chain(k)
           i == HashFuction(k)
           m == [map EXCEPT ![k] = v]
           item == [key |-> k, value |-> v]
<1>1. /\ k \in Nat /\ k # NoKey /\ i \in Indices /\ v # Null
      /\ item \in Items /\ item.key = k /\ item.value = v
  BY HashInRange, DataStructureAssumption DEF Items
<1>2. Holds(c, i, map)
  BY <1>1 DEF TableInv, Chain
<1>3. m \in [Keys -> Nodes \cup {Null}] /\ m[k] = v /\ \A l \in Keys \ {k} : m[l] = map[l]
  BY DEF TableInv
<1> DEFINE d == IF H_find(k) # 0 THEN [c EXCEPT ![H_find(k)].value = v]
                ELSE IF c[1].key = NoKey THEN <<item>> ELSE Append(c, item)
<1>4. ChainBecomes(k, d) /\ map' = m
  BY DEF H_insert
<1>5. Holds(d, i, m)
  <2>1. /\ c \in Seq(Items) /\ Len(c) \in Nat /\ Len(c) >= 1
        /\ \A j \in 1 .. Len(c) :
             /\ c[j] \in Items
             /\ c[j].key = NoKey => Len(c) = 1
             /\ c[j].key # NoKey => /\ c[j].key \in Keys /\ HashFuction(c[j].key) = i
                                    /\ c[j].value # Null /\ c[j].value = map[c[j].key]
        /\ \A j, l \in 1 .. Len(c) : c[j].key = c[l].key => j = l
        /\ \A l \in Keys : HashFuction(l) = i /\ map[l] # Null
                             => \E j \in 1 .. Len(c) : c[j].key = l
    BY <1>2, HoldsTypes
  <2>2. CASE map[k] # Null
    <3>1. PICK f \in 1 .. Len(c) : H_find(k) = f /\ c[f].key = k
      BY <2>2, FindsOnce
    <3>2. d = [c EXCEPT ![f].value = v]
      BY <2>1, <3>1
    <3> HIDE DEF c, d, m, i, item
    <3>3. /\ d \in Seq(Items) /\ Len(d) = Len(c) /\ d[f].key = k /\ d[f].value = v
          /\ \A j \in 1 .. Len(c) : j # f => d[j] = c[j]
      <4>1. c[f] \in [key : Keys \cup {NoKey}, value : Nodes \cup {Null}]
        BY <2>1 DEF Items
      <4>2. [c[f] EXCEPT !.value = v] = [key |-> k, value |-> v]
        BY <3>1, <4>1
      <4>3. d = [c EXCEPT ![f] = item]
        BY <3>2, <4>2 DEF item
      <4> QED BY <1>1, <2>1, <4>3
    <3>4. \A j \in 1 .. Len(c) : d[j].key = c[j].key
      BY <3>1, <3>3
    <3>5. ASSUME NEW j \in 1 .. Len(d)
          PROVE  /\ d[j].key = NoKey => Len(d) = 1
                 /\ d[j].key # NoKey => /\ HashFuction(d[j].key) = i
                                        /\ d[j].value # Null /\ d[j].value = m[d[j].key]
      <4>1. CASE j = f
        BY <1>1, <1>3, <3>3, <4>1 DEF i
      <4>2. CASE j # f
        <5>1. d[j] = c[j] /\ c[j].key # k
          BY <2>1, <3>1, <3>3, <4>2
        <5> QED BY <1>3, <2>1, <3>3, <5>1
      <4> QED BY <4>1, <4>2
    <3>6. ASSUME NEW l \in Keys, HashFuction(l) = i, m[l] # Null
          PROVE  \E j \in 1 .. Len(d) : d[j].key = l
      <4>1. CASE l = k
        BY <3>3, <4>1
      <4>2. CASE l # k
        BY <1>3, <2>1, <3>3, <3>4, <3>6, <4>2
      <4> QED BY <4>1, <4>2
    <3> QED BY <2>1, <3>3, <3>4, <3>5, <3>6 DEF Holds
  <2>3. CASE map[k] = Null
    <3>1. H_find(k) = 0 /\ \A j \in 1 .. Len(c) : c[j].key # k
      BY <2>3, FindsOnce DEF Found
    <3>2. CASE c[1].key = NoKey
      <4>1. d = <<item>>
        BY <3>1, <3>2
      <4>2. Len(c) = 1
        BY <2>1, <3>2
      <4> HIDE DEF c, d, m, i, item
      <4>3. d \in Seq(Items) /\ Len(d) = 1 /\ d[1] = item
        BY <1>1, <4>1
      <4>4. ASSUME NEW l \in Keys, HashFuction(l) = i, m[l] # Null
            PROVE  \E j \in 1 .. Len(d) : d[j].key = l
        <5>1. l # NoKey
          BY HashInRange
        <5>2. l = k
          BY <1>3, <2>1, <3>2, <4>2, <4>4, <5>1
        <5> QED BY <1>1, <4>3, <5>2
      <4>5. \A j \in 1 .. Len(d) : j = 1
        BY <4>3
      <4>6. ASSUME NEW j \in 1 .. Len(d)
            PROVE  /\ d[j].key # NoKey /\ HashFuction(d[j].key) = i
                   /\ d[j].value # Null /\ d[j].value = m[d[j].key]
        <5>1. d[j] = item /\ HashFuction(k) = i
          BY <4>3, <4>5 DEF i
        <5> QED BY <1>1, <1>3, <5>1
      <4> QED BY <4>3, <4>4, <4>5, <4>6 DEF Holds
    <3>3. CASE c[1].key # NoKey
      <4>1. d = Append(c, item)
        BY <3>1, <3>3
      <4>2. \A j \in 1 .. Len(c) : c[j].key # NoKey
        BY <2>1, <3>3
      <4> HIDE DEF c, d, m, i, item
      <4>3. /\ d \in Seq(Items) /\ Len(d) = Len(c) + 1 /\ d[Len(c) + 1] = item
            /\ \A j \in 1 .. Len(c) : d[j] = c[j]
        BY <1>1, <2>1, <4>1
      <4>4. \A j \in 1 .. Len(d) : j = Len(c) + 1 \/ j \in 1 .. Len(c)
        BY <2>1, <4>3
      <4>5. ASSUME NEW j \in 1 .. Len(d)
            PROVE  /\ d[j].key # NoKey /\ HashFuction(d[j].key) = i
                   /\ d[j].value # Null /\ d[j].value = m[d[j].key]
        <5>1. CASE j = Len(c) + 1
          BY <1>1, <1>3, <4>3, <5>1 DEF i
        <5>2. CASE j \in 1 .. Len(c)
          BY <1>3, <2>1, <3>1, <4>2, <4>3, <5>2
        <5> QED BY <4>4, <5>1, <5>2
      <4>6. ASSUME NEW j \in 1 .. Len(d), NEW l \in 1 .. Len(d), d[j].key = d[l].key
            PROVE  j = l
        BY <1>1, <2>1, <3>1, <4>3, <4>4, <4>6
      <4>7. ASSUME NEW l \in Keys, HashFuction(l) = i, m[l] # Null
            PROVE  \E j \in 1 .. Len(d) : d[j].key = l
        <5>1. CASE l = k
          <6>1. Len(c) + 1 \in 1 .. Len(d)
            BY <2>1, <4>3
          <6> QED BY <1>1, <4>3, <5>1, <6>1
        <5>2. CASE l # k
          <6>1. PICK j \in 1 .. Len(c) : c[j].key = l
            BY <1>3, <2>1, <4>7, <5>2
          <6>2. j \in 1 .. Len(d)
            BY <2>1, <4>3
          <6> QED BY <4>3, <6>1, <6>2
        <5> QED BY <5>1, <5>2
      <4>8. Len(d) >= 1
        BY <2>1, <4>3
      <4> QED BY <4>3, <4>5, <4>6, <4>7, <4>8 DEF Holds
    <3> QED BY <3>2, <3>3
  <2> QED BY <2>2, <2>3
<1> HIDE DEF c, d
<1> QED BY <1>4, <1>5, ChainStep

LEMMA EraseKeyStep ==
  ASSUME TableInv, NEW k \in Keys, H_erase(k)
  PROVE  TableInv'
<1> DEFINE c == Chain(k)
           i == HashFuction(k)
           m == [map EXCEPT ![k] = Null]
           f == CHOOSE j \in Found(k) : \A l \in Found(k) : j <= l
           d == IF f = 1 /\ Len(c) = 1 THEN [c EXCEPT ![1].key = NoKey] ELSE RemoveAt(c, f)
<1>1. k \in Nat /\ k # NoKey /\ i \in Indices
  BY HashInRange
<1>2. Holds(c, i, map)
  BY <1>1 DEF TableInv, Chain
<1>3. m \in [Keys -> Nodes \cup {Null}] /\ m[k] = Null /\ \A l \in Keys \ {k} : m[l] = map[l]
  BY DEF TableInv
<1>4. ChainBecomes(k, d) /\ map' = m /\ Found(k) # {}
  BY DEF H_erase
<1>5. f \in 1 .. Len(c) /\ c[f].key = k
  <2>1. PICK j \in 1 .. Len(c) : Found(k) = {j} /\ c[j].key = k
    BY <1>4, FindsOnce
  <2> QED BY <2>1
<1>6. Holds(d, i, m)
  <2>1. /\ c \in Seq(Items) /\ Len(c) \in Nat /\ Len(c) >= 1
        /\ \A j \in 1 .. Len(c) :
             /\ c[j] \in Items
             /\ c[j].key = NoKey => Len(c) = 1
             /\ c[j].key # NoKey => /\ c[j].key \in Keys /\ HashFuction(c[j].key) = i
                                    /\ c[j].value # Null /\ c[j].value = map[c[j].key]
        /\ \A j, l \in 1 .. Len(c) : c[j].key = c[l].key => j = l
        /\ \A l \in Keys : HashFuction(l) = i /\ map[l] # Null
                             => \E j \in 1 .. Len(c) : c[j].key = l
    BY <1>2, HoldsTypes
  <2>4. c \in Seq(Items) /\ Len(c) \in Nat /\ Len(c) >= 1
    BY <2>1
  <2>5. Len(c) # 1 => Len(c) >= 2
    <3> DEFINE n == Len(c)
    <3>1. n \in Nat /\ n >= 1
      BY <2>4
    <3> HIDE DEF n
    <3>2. n # 1 => n >= 2
      BY <3>1
    <3> QED BY <3>2 DEF n
  <2>2. CASE Len(c) = 1
    <3>1. f = 1 /\ d = [c EXCEPT ![1].key = NoKey]
      BY <1>5, <2>2
    <3> HIDE DEF c, d, m, i, f
    <3>2. d \in Seq(Items) /\ Len(d) = 1 /\ d[1].key = NoKey
      <4>1. c[1] \in [key : Keys \cup {NoKey}, value : Nodes \cup {Null}]
        BY <1>5, <2>1, <3>1 DEF Items
      <4>2. /\ [c[1] EXCEPT !.key = NoKey] \in [key : Keys \cup {NoKey}, value : Nodes \cup {Null}]
            /\ [c[1] EXCEPT !.key = NoKey].key = NoKey
        BY <4>1
      <4> DEFINE e == [c[1] EXCEPT !.key = NoKey]
      <4>3. d = [c EXCEPT ![1] = e] /\ e \in Items /\ e.key = NoKey
        BY <3>1, <4>2 DEF Items
      <4> HIDE DEF e
      <4>4. c \in Seq(Items) /\ 1 \in 1 .. Len(c)
        BY <1>5, <2>4, <3>1
      <4>5. d \in Seq(Items) /\ Len(d) = Len(c) /\ d[1] = e
        BY <4>3, <4>4, ReplacedAt
      <4> QED BY <2>2, <4>3, <4>5
    <3>3. ASSUME NEW l \in Keys, HashFuction(l) = i, m[l] # Null PROVE FALSE
      BY <1>3, <1>5, <2>1, <2>2, <3>1, <3>3
    <3> QED BY <3>2, <3>3 DEF Holds
  <2>3. CASE Len(c) # 1
    <3>1. d = RemoveAt(c, f)
      BY <2>3
    <3> HIDE DEF c, d, m, i, f
    <3>2. /\ d \in Seq(Items) /\ Len(d) = Len(c) - 1 /\ Len(c) >= 2
          /\ \A j \in 1 .. f - 1 : d[j] = c[j]
          /\ \A j \in f .. Len(c) - 1 : d[j] = c[j + 1]
      <4>1. c \in Seq(Items) /\ f \in 1 .. Len(c)
        BY <1>5, <2>4
      <4>2. Len(c) >= 2
        BY <2>3, <2>5
      <4> QED BY <3>1, <4>1, <4>2, RemovedAt
    <3> DEFINE s(j) == IF j < f THEN j ELSE j + 1
    (* The item at j was at s(j).                                          *)
    <3>3. \A j \in 1 .. Len(d) : d[j] = c[s(j)] /\ s(j) \in 1 .. Len(c) /\ s(j) # f
      BY <1>5, <2>1, <3>2
    <3>4. \A j, l \in 1 .. Len(d) : s(j) = s(l) => j = l
      BY <1>5, <2>1, <3>2
    <3>5. \A j \in 1 .. Len(c) : j # f => \E l \in 1 .. Len(d) : s(l) = j
      <4> SUFFICES ASSUME NEW j \in 1 .. Len(c), j # f PROVE \E l \in 1 .. Len(d) : s(l) = j
        OBVIOUS
      <4>1. CASE j < f
        <5>1. j \in 1 .. Len(d) /\ s(j) = j
          BY <1>5, <2>1, <3>2, <4>1
        <5> QED BY <5>1
      <4>2. CASE j > f
        <5>1. j - 1 \in 1 .. Len(d) /\ s(j - 1) = j
          BY <1>5, <2>1, <3>2, <4>2
        <5> QED BY <5>1
      <4> QED BY <1>5, <2>1, <4>1, <4>2
    <3> HIDE DEF s
    <3>6. ASSUME NEW j \in 1 .. Len(d)
          PROVE  /\ d[j].key # NoKey /\ HashFuction(d[j].key) = i
                 /\ d[j].value # Null /\ d[j].value = m[d[j].key]
      <4>1. d[j] = c[s(j)] /\ s(j) \in 1 .. Len(c) /\ s(j) # f
        BY <3>3
      <4>2. c[s(j)].key # NoKey /\ c[s(j)].key # k
        BY <1>5, <2>1, <2>3, <4>1
      <4> QED BY <1>3, <2>1, <4>1, <4>2
    <3>7. ASSUME NEW j \in 1 .. Len(d), NEW l \in 1 .. Len(d), d[j].key = d[l].key
          PROVE  j = l
      <4>1. s(j) = s(l)
        BY <2>1, <3>3, <3>7
      <4> QED BY <3>4, <4>1
    <3>8. ASSUME NEW l \in Keys, HashFuction(l) = i, m[l] # Null
          PROVE  \E j \in 1 .. Len(d) : d[j].key = l
      <4>1. l # k /\ map[l] # Null
        BY <1>3, <3>8
      <4>2. PICK j \in 1 .. Len(c) : c[j].key = l
        BY <2>1, <3>8, <4>1
      <4>3. PICK e \in 1 .. Len(d) : s(e) = j
        BY <1>5, <3>5, <4>1, <4>2
      <4> QED BY <3>3, <4>2, <4>3
    <3>9. Len(d) >= 1
      BY <2>1, <3>2
    <3> QED BY <3>2, <3>6, <3>7, <3>8, <3>9 DEF Holds
  <2> QED BY <2>2, <2>3
<1> HIDE DEF c, d, f
<1> QED BY <1>4, <1>6, ChainStep

LEMMA TableHolds ==
  ASSUME TableInv
  PROVE  TableIsMap
<1> SUFFICES ASSUME NEW k \in Keys
             PROVE  /\ H_find(k) = 0 <=> map[k] = Null
                    /\ map[k] # Null => Chain(k)[H_find(k)].value = map[k]
  BY DEF TableIsMap
<1>1. CASE map[k] = Null
  BY <1>1, FindsOnce
<1>2. CASE map[k] # Null
  <2>1. PICK j \in 1 .. Len(Chain(k)) : H_find(k) = j /\ Chain(k)[j].value = map[k]
    BY <1>2, FindsOnce
  <2> QED BY <1>2, <2>1
<1> QED BY <1>1, <1>2

------------------------------------------------------------------------------
(***************************************************************************)
(* Both, in every reachable state.                                         *)
(***************************************************************************)
DataInv == ListInv /\ TableInv

LEMMA DataStart == Init => DataInv
<1> SUFFICES ASSUME Init PROVE DataInv
  OBVIOUS
<1>1. ListTypes
  <2>1. IsFiniteSet({}) /\ Cardinality({}) = 0
    BY FS_EmptySet
  <2> QED BY <2>1 DEF Init, ListTypes, Cells
<1>2. OnPath([i \in Nat |-> IF i = 0 THEN head ELSE Null])
  <2> DEFINE g == [i \in Nat |-> IF i = 0 THEN head ELSE Null]
  <2>1. /\ alloc = {} /\ listsize = 0 /\ tail = head
        /\ next = [c \in Cells |-> Null] /\ head \in Cells
    BY DEF Init, Cells
  <2>2. g \in [Nat -> Cells \cup {Null}] /\ g[0] = head /\ \A i \in Nat : i > 0 => g[i] = Null
    BY <2>1
  <2>3. \A i \in 0 .. 0 : i = 0 /\ i + 1 = 1 /\ 1 \in Nat /\ 1 > 0
    OBVIOUS
  <2>4. \A i \in 1 .. 0 : FALSE
    OBVIOUS
  <2> HIDE DEF g
  <2>5. OnPath(g)
    BY <2>1, <2>2, <2>3, <2>4 DEF OnPath
  <2> QED BY <2>5 DEF g
<1>3. TableInv
  <2>1. EmptyItem \in Items /\ EmptyItem.key = NoKey
    BY DEF EmptyItem, Items
  <2>2. hashtable = [i \in Indices |-> <<EmptyItem>>] /\ map = [k \in Keys |-> Null]
    BY DEF Init, Indices
  <2> HIDE DEF EmptyItem
  <2>3. <<EmptyItem>> \in Seq(Items) /\ Len(<<EmptyItem>>) = 1 /\ <<EmptyItem>>[1] = EmptyItem
    BY <2>1
  <2>4. \A i \in Indices : Holds(<<EmptyItem>>, i, map)
    BY <2>1, <2>2, <2>3 DEF Holds
  <2> QED BY <2>2, <2>3, <2>4 DEF TableInv
<1> QED BY <1>1, <1>2, <1>3 DEF DataInv, ListInv

LEMMA ListKept ==
  ASSUME ListInv, UNCHANGED listVars
  PROVE  ListInv'
BY DEF ListInv, ListTypes, OnPath, listVars

LEMMA TableKept ==
  ASSUME TableInv, UNCHANGED tableVars
  PROVE  TableInv'
BY DEF TableInv, tableVars

LEMMA DataStep == DataInv /\ [Next]_vars => DataInv'
<1> SUFFICES ASSUME DataInv, [Next]_vars PROVE DataInv'
  OBVIOUS
<1>0. ListInv /\ TableInv
  BY DEF DataInv
<1>1. ASSUME NEW n \in Nodes \ alloc, NEW d \in Data, NEW pos \in 0 .. listsize, L_push(n, d, pos)
      PROVE  DataInv'
  <2>1. UNCHANGED tableVars
    BY <1>1 DEF L_push
  <2> QED BY <1>0, <1>1, <2>1, InsertStep, TableKept DEF DataInv
<1>2. CASE L_pop_front
  <2>1. UNCHANGED tableVars
    BY <1>2 DEF L_pop_front, Freed
  <2> QED BY <1>0, <1>2, <2>1, PopFrontStep, TableKept DEF DataInv
<1>3. CASE L_pop_back
  <2>1. UNCHANGED tableVars
    BY <1>3 DEF L_pop_back, Freed
  <2> QED BY <1>0, <1>3, <2>1, PopBackStep, TableKept DEF DataInv
<1>4. ASSUME NEW n \in alloc, L_erase(n)
      PROVE  DataInv'
  <2>1. UNCHANGED tableVars
    BY <1>4 DEF L_erase, Freed
  <2> QED BY <1>0, <1>4, <2>1, EraseStep, TableKept DEF DataInv
<1>5. ASSUME NEW k \in Keys, H_erase(k)
      PROVE  DataInv'
  <2>1. UNCHANGED listVars
    BY <1>5 DEF H_erase
  <2> QED BY <1>0, <1>5, <2>1, EraseKeyStep, ListKept DEF DataInv
<1>6. ASSUME NEW k \in Keys, NEW v \in Nodes, H_insert(k, v)
      PROVE  DataInv'
  <2>1. UNCHANGED listVars
    BY <1>6 DEF H_insert
  <2> QED BY <1>0, <1>6, <2>1, InsertKeyStep, ListKept DEF DataInv
<1>7. CASE UNCHANGED vars
  <2>1. UNCHANGED listVars /\ UNCHANGED tableVars
    BY <1>7 DEF vars
  <2> QED BY <1>0, <2>1, ListKept, TableKept DEF DataInv
<1>8. CASE ListNext
  <2>1. listsize \in Nat /\ 0 \in 0 .. listsize /\ listsize \in 0 .. listsize
        /\ \A pos \in 1 .. listsize - 1 : pos \in 0 .. listsize
    BY <1>0 DEF ListInv, ListTypes
  <2> QED BY <1>1, <1>2, <1>3, <1>4, <1>8, <2>1 DEF ListNext, L_push_front, L_push_back
<1>9. CASE TableNext
  BY <1>5, <1>6, <1>9 DEF TableNext
<1> QED BY <1>7, <1>8, <1>9 DEF Next

LEMMA DataAlways == Spec => []DataInv
<1>1. Spec => []DataInv
  BY DataStart, DataStep, PTL DEF Spec
<1> QED BY <1>1

(* The lists' cells and the tables' items have their types: a chain is     *)
(* never empty (src/src/datastructure.cpp, L_push_front to H_erase).       *)
THEOREM SpecDataTypeOK == Spec => []TypeOK
<1>1. DataInv => TypeOK
  <2> SUFFICES ASSUME DataInv PROVE TypeOK
    OBVIOUS
  <2>1. ASSUME NEW i \in 0 .. tablesize - 1
        PROVE  /\ hashtable[i] # << >>
               /\ \A j \in 1 .. Len(hashtable[i]) :
                    hashtable[i][j] \in [key : Keys \cup {NoKey}, value : Nodes \cup {Null}]
    <3>1. Holds(hashtable[i], i, map)
      BY DEF DataInv, TableInv, Indices
    <3> DEFINE c == hashtable[i]
    <3>2. c \in Seq(Items) /\ Len(c) >= 1
      BY <3>1 DEF Holds
    <3> HIDE DEF c
    <3>3. c # << >> /\ \A j \in 1 .. Len(c) : c[j] \in Items
      BY <3>2
    <3> QED BY <3>3 DEF c, Items
  <2> QED BY <2>1 DEF DataInv, ListInv, ListTypes, TypeOK
<1> QED BY <1>1, DataAlways, PTL

(* Whatever is pushed, popped and erased, anywhere in a list, its cells    *)
(* read the same from both ends and are the sequence the calls mean, no    *)
(* cell points to a free one, and the destructor frees each cell once      *)
(* (src/src/datastructure.cpp, L_push_front to List::~List).               *)
THEOREM SpecListIsSequence == Spec => []ListIsSequence
<1>1. DataInv => ListIsSequence
  BY ListHolds DEF DataInv
<1> QED BY <1>1, DataAlways, PTL

(* A key is found exactly when it was inserted and not erased since, with  *)
(* its last value: the marked item an erasure leaves at the start of a     *)
(* chain never hides another (H_insert, H_find, H_erase).                  *)
THEOREM SpecTableIsMap == Spec => []TableIsMap
<1>1. DataInv => TableIsMap
  BY TableHolds DEF DataInv
<1> QED BY <1>1, DataAlways, PTL
==============================================================================
