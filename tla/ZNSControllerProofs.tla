------------------------- MODULE ZNSControllerProofs -------------------------
(***************************************************************************)
(* Theorems about ZNSController, for every number of zones, zone capacity, *)
(* number of streams, set of pages and set of contents.                    *)
(***************************************************************************)
EXTENDS ZNSController, Least, FiniteSetTheorems, TLAPS

------------------------------------------------------------------------------
(***************************************************************************)
(* Facts about the operators.                                              *)
(***************************************************************************)
(* A non-empty set of positions of a list has a greatest element.          *)
LEMMA GreatestElement ==
  ASSUME NEW n \in Nat, NEW S \in SUBSET (1 .. n), S # {}
  PROVE  \E i \in S : \A j \in S : j <= i
<1> DEFINE T == {n - i : i \in S}
<1>1. T \subseteq Nat
  <2>1. \A i \in S : n - i \in Nat
    OBVIOUS
  <2> QED BY <2>1
<1>2. T # {}
  <2>1. PICK i \in S : TRUE
    OBVIOUS
  <2>2. n - i \in T
    OBVIOUS
  <2> QED BY <2>2
<1>3. PICK x \in T : \A y \in T : x <= y
  <2> HIDE DEF T
  <2> QED BY <1>2, <1>1, LeastElement
<1>4. PICK i \in S : x = n - i
  OBVIOUS
<1>5. \A j \in S : j <= i
  <2> TAKE j \in S
  <2>1. n - j \in T
    OBVIOUS
  <2>2. n - i <= n - j
    BY <1>3, <1>4, <2>1
  <2> QED BY <2>2
<1> QED BY <1>5

(* LastOf is an occurrence of the page: write_cluster leaves the page at a *)
(* slot that was written with that page.                                   *)
LEMMA LastOccurrence ==
  ASSUME NEW n \in Nat, NEW pl \in [1 .. n -> Pages], NEW p \in Listed(n, pl)
  PROVE  LastOf(n, pl, p) \in 1 .. n /\ pl[LastOf(n, pl, p)] = p
<1> DEFINE S == {i \in 1 .. n : pl[i] = p}
<1>1. S \in SUBSET (1 .. n) /\ S # {}
  BY DEF Listed
<1>2. \E i \in S : \A j \in S : j <= i
  <2> HIDE DEF S
  <2> QED BY <1>1, GreatestElement
<1>3. \E i \in 1 .. n : pl[i] = p /\ \A j \in 1 .. n : pl[j] = p => j <= i
  BY <1>2
<1> QED BY <1>3 DEF LastOf

(* The pages of a write are finitely many.                                 *)
LEMMA ListedFinite ==
  ASSUME NEW n \in Nat, NEW pl \in [1 .. n -> Pages]
  PROVE  IsFiniteSet(Listed(n, pl)) /\ Listed(n, pl) \subseteq Pages
<1>1. pl \in Surjection(1 .. n, Listed(n, pl))
  BY DEF Listed, Surjection
<1>2. IsFiniteSet(1 .. n)
  BY FS_Interval
<1> QED BY <1>1, <1>2, FS_Surjection DEF Listed

(* An injective image of a finite set is as large as the set.              *)
LEMMA ImageCount ==
  ASSUME NEW S, IsFiniteSet(S), NEW f, DOMAIN f = S, f = [x \in S |-> f[x]],
         \A x, y \in S : f[x] = f[y] => x = y
  PROVE  /\ IsFiniteSet({f[x] : x \in S})
         /\ Cardinality({f[x] : x \in S}) = Cardinality(S)
<1> DEFINE T == {f[x] : x \in S}
<1>1. f \in Bijection(S, T)
  BY DEF Bijection, Injection, Surjection, IsInjective
<1>2. ExistsBijection(S, T)
  BY <1>1 DEF ExistsBijection
<1> QED BY <1>2, FS_Bijection

(* A zone has Cap slots.                                                   *)
LEMMA SlotCount ==
  ASSUME NEW z \in Zones
  PROVE  IsFiniteSet(SlotsOf(z)) /\ Cardinality(SlotsOf(z)) = Cap
<1>1. IsFiniteSet(Slots) /\ Cardinality(Slots) = Cap
  BY FS_Interval, ConstantsOK DEF Slots
<1>2. IsFiniteSet({z}) /\ Cardinality({z}) = 1
  BY FS_Singleton
<1>3. IsFiniteSet({z} \X Slots)
      /\ Cardinality({z} \X Slots) = Cardinality({z}) * Cardinality(Slots)
  BY <1>1, <1>2, FS_Product
<1>4. 1 * Cap = Cap
  BY ConstantsOK
<1> QED BY <1>1, <1>2, <1>3, <1>4 DEF SlotsOf

(* Cardinality of a set some of whose elements are replaced by new ones.   *)
LEMMA ReplaceCount ==
  ASSUME NEW S, NEW O, NEW N, IsFiniteSet(S), IsFiniteSet(N),
         O \subseteq S, N \cap S = {}
  PROVE  /\ IsFiniteSet((S \ O) \cup N)
         /\ Cardinality((S \ O) \cup N)
              = Cardinality(S) - Cardinality(O) + Cardinality(N)
<1>1. IsFiniteSet(O) /\ Cardinality(O) \in Nat /\ Cardinality(S) \in Nat
      /\ Cardinality(N) \in Nat
  BY FS_Subset, FS_CardinalityType
<1>2. /\ IsFiniteSet(S \ O)
      /\ Cardinality(S \ O) = Cardinality(S) - Cardinality(S \cap O)
  BY FS_Difference
<1>3. S \cap O = O
  OBVIOUS
<1>4. /\ IsFiniteSet((S \ O) \cup N)
      /\ Cardinality((S \ O) \cup N)
           = Cardinality(S \ O) + Cardinality(N) - Cardinality((S \ O) \cap N)
  BY <1>2, FS_Union
<1>5. Cardinality((S \ O) \cap N) = 0
  <2>1. (S \ O) \cap N = {}
    OBVIOUS
  <2> QED BY <2>1, FS_EmptySet
<1>6. Cardinality(S \ O) = Cardinality(S) - Cardinality(O)
  BY <1>2, <1>3
<1>7. Cardinality((S \ O) \cup N) = Cardinality(S \ O) + Cardinality(N)
  <2>1. Cardinality(S \ O) \in Nat
    BY <1>2, FS_CardinalityType
  <2> QED BY <1>1, <1>4, <1>5, <2>1
<1> QED BY <1>4, <1>6, <1>7

(* A set of valid slots of a zone is finite and no larger than the zone.   *)
LEMMA ValidSlots ==
  ASSUME NEW z \in Zones, NEW M
  PROVE  /\ IsFiniteSet(M \cap SlotsOf(z))
         /\ Cardinality(M \cap SlotsOf(z)) \in 0 .. Cap
<1>1. /\ IsFiniteSet(M \cap SlotsOf(z))
      /\ Cardinality(M \cap SlotsOf(z)) <= Cap
  BY SlotCount, FS_Subset
<1>2. Cardinality(M \cap SlotsOf(z)) \in Nat /\ Cap \in Nat
  BY <1>1, FS_CardinalityType, ConstantsOK
<1> QED BY <1>1, <1>2

------------------------------------------------------------------------------
(***************************************************************************)
(* The inductive invariant, in two parts.  Safe holds always: the types,   *)
(* an empty zone has nothing stored in it, valid_page counts bits, and     *)
(* what is stored belongs to pages that are in Table.  Core holds until a  *)
(* zone is opened early.  ReadsLatest alone is not inductive: a write must *)
(* land beyond every live address (ZoneShape), a collector must copy only  *)
(* live pages and write none into its own zone (Bits, Dead), and must have *)
(* nothing left to lose when it resets.                                    *)
(***************************************************************************)
Clean ==
  \A z \in Zones : cond[z] = "EMPTY" => \A k \in Slots : dev[<<z, k>>] = NoData

Sound ==
  /\ cond \in [Zones -> {"EMPTY", "OPEN", "FULL"}]
  /\ wp \in [Zones -> 0 .. Cap]
  /\ cf \in [Zones -> -1 .. ClusterNum - 1]
  /\ valid_page \in [Zones -> 0 .. Cap]
  /\ meta_page \subseteq Addr
  /\ Table \in [Pages -> Addr \cup {NoAddr}]
  /\ dev \in [Addr -> (Pages \X Vals) \cup {NoData}]
  /\ Clean
  /\ ValidCount

Aside ==
  /\ inGc \in [Zones -> BOOLEAN]
  /\ Gc \in BOOLEAN
  /\ gcPos \in [Zones -> -1 .. Cap + 2]
  /\ promised \in [Pages -> Vals \cup {Absent}]
  /\ early \in BOOLEAN

FaultType == fault \in {"none", "no zone", "bit", "pwrite", "lookup"}

Stored == \A a \in Addr : dev[a] # NoData => Table[dev[a][1]] # NoAddr

MappedIffPromised == \A p \in Pages : Table[p] = NoAddr <=> promised[p] = Absent

Safe == Sound /\ Aside /\ FaultType /\ Stored /\ MappedIffPromised

ZoneShape ==
  \A z \in Zones :
    /\ cond[z] = "EMPTY" => cf[z] = -1
    /\ cond[z] # "EMPTY" => cf[z] \in 0 .. ClusterNum - 1
    /\ \A k \in Slots : <<z, k>> \in meta_page => k < wp[z]

Reads == \A p \in Pages : Table[p] # NoAddr => dev[Table[p]] = <<p, promised[p]>>

Bits == meta_page = {Table[p] : p \in Pages} \ {NoAddr}

Dead ==
  \A z \in Zones : inGc[z] =>
    /\ cond[z] = IF gcPos[z] <= Cap THEN "FULL" ELSE "EMPTY"
    /\ \A k \in Slots : k < gcPos[z] => <<z, k>> \notin meta_page

GcIdle == \A z \in Zones : ~ inGc[z] => gcPos[z] = -1

Core == ZoneShape /\ Reads /\ Bits /\ Dead /\ GcIdle /\ fault # "bit"

IInv == Safe /\ (~ early => Core)

(* The arguments of a write: once a zone was opened early two pages may    *)
(* have one address, but not two pages of the same write.                  *)
Distinct(W) ==
  \A p, q \in W : Table[p] # NoAddr /\ Table[p] = Table[q] => p = q

Args(c, n, pl, vl) ==
  /\ c \in -1 .. ClusterNum - 1 /\ n \in 0 .. Cap
  /\ pl \in [1 .. n -> Pages] /\ vl \in [1 .. n -> Vals]
  /\ Distinct(Listed(n, pl))

LEMMA TypeParts ==
  TypeOK <=> FaultType /\ Aside
               /\ cond \in [Zones -> {"EMPTY", "OPEN", "FULL"}]
               /\ wp \in [Zones -> 0 .. Cap]
               /\ cf \in [Zones -> -1 .. ClusterNum - 1]
               /\ valid_page \in [Zones -> 0 .. Cap]
               /\ meta_page \subseteq Addr
               /\ Table \in [Pages -> Addr \cup {NoAddr}]
               /\ dev \in [Addr -> (Pages \X Vals) \cup {NoData}]
  BY Zenon DEF TypeOK, FaultType, Aside

LEMMA InitIInv == Init => IInv
<1> SUFFICES ASSUME Init PROVE IInv
  OBVIOUS
<1> USE ConstantsOK DEF Init
<1>1. Sound
  <2>1. 0 \in 0 .. Cap /\ -1 \in -1 .. ClusterNum - 1
    OBVIOUS
  <2>2. wp \in [Zones -> 0 .. Cap] /\ valid_page \in [Zones -> 0 .. Cap]
        /\ cf \in [Zones -> -1 .. ClusterNum - 1]
    BY <2>1
  <2>3. /\ Table \in [Pages -> Addr \cup {NoAddr}]
        /\ dev \in [Addr -> (Pages \X Vals) \cup {NoData}]
    BY Zenon
  <2>4. Clean
    BY DEF Clean, Addr
  <2>5. \A z \in Zones : meta_page \cap SlotsOf(z) = {}
    OBVIOUS
  <2>6. ValidCount
    BY <2>5, FS_EmptySet DEF ValidCount
  <2> QED BY <2>2, <2>3, <2>4, <2>6 DEF Sound
<1>2. Aside /\ FaultType
  <2>1. -1 \in -1 .. Cap + 2
    OBVIOUS
  <2>2. gcPos \in [Zones -> -1 .. Cap + 2]
    BY <2>1
  <2>3. promised \in [Pages -> Vals \cup {Absent}] /\ inGc \in [Zones -> BOOLEAN]
    BY Zenon
  <2> QED BY <2>2, <2>3 DEF Aside, FaultType
<1>3. Stored /\ MappedIffPromised
  BY DEF Stored, MappedIffPromised
<1>4. Core
  BY DEF Core, ZoneShape, Reads, Bits, Dead, GcIdle
<1> QED BY <1>1, <1>2, <1>3, <1>4 DEF IInv, Safe

------------------------------------------------------------------------------
(***************************************************************************)
(* A write, at any time.                                                   *)
(***************************************************************************)
(* The zone that takes a write has room for it.                            *)
LEMMA Room ==
  ASSUME Sound, NEW c, NEW n \in 0 .. Cap, NEW z \in Zones, Target(c, n, z),
         Accepts(z, n)
  PROVE  /\ wp[z] \in 0 .. Cap /\ wp[z] + n \in 0 .. Cap
         /\ cond[z] # "FULL"
         /\ \A k \in wp[z] .. wp[z] + n - 1 : k \in Slots
<1>0. wp[z] \in 0 .. Cap /\ Cap \in Nat \ {0}
  BY ConstantsOK DEF Sound
<1>1. cond[z] # "FULL"
  BY DEF Target, Fits, OpenFor, Spare
<1>2. CASE n = 0
  BY <1>0, <1>1, <1>2 DEF Slots
<1>3. CASE Fits(z, c, n)
  BY <1>0, <1>1, <1>3 DEF Fits, Slots
<1>4. CASE n # 0 /\ Spare(z)
  <2>1. 0 \in Slots
    BY <1>0 DEF Slots
  <2>2. dev[<<z, 0>>] = NoData /\ AtPointer(z)
    BY <1>4, <2>1 DEF Sound, Clean, Spare, Accepts
  <2>3. ~ (0 < wp[z])
    BY <2>1, <2>2 DEF AtPointer
  <2> QED BY <1>0, <1>1, <2>3 DEF Slots
<1> QED BY <1>2, <1>3, <1>4 DEF Target

(* Choosing the zone leaves full zones full, and empties none.             *)
LEMMA Choose ==
  ASSUME Sound, NEW c \in -1 .. ClusterNum - 1, NEW n \in 0 .. Cap,
         NEW z \in Zones, select_write_zone(c, n, z), Accepts(z, n),
         wp' = [wp EXCEPT ![z] = @ + n]
  PROVE  /\ cond' \in [Zones -> {"EMPTY", "OPEN", "FULL"}]
         /\ wp' \in [Zones -> 0 .. Cap]
         /\ cf' \in [Zones -> -1 .. ClusterNum - 1]
         /\ cond'[z] = "OPEN" /\ cf'[z] = c /\ wp'[z] = wp[z] + n
         /\ \A y \in Zones : y # z =>
              /\ cond[y] = "FULL" => cond'[y] = "FULL"
              /\ cond'[y] = "EMPTY" <=> cond[y] = "EMPTY"
              /\ cf'[y] = cf[y] /\ wp'[y] = wp[y]
<1>1. /\ cond \in [Zones -> {"EMPTY", "OPEN", "FULL"}]
      /\ wp \in [Zones -> 0 .. Cap] /\ cf \in [Zones -> -1 .. ClusterNum - 1]
  BY DEF Sound
<1>2. wp[z] + n \in 0 .. Cap
  BY Room DEF select_write_zone
<1>3. cond' = [y \in Zones |->
        IF y = z THEN "OPEN"
        ELSE IF Tight(y, c, n) /\ (Fits(z, c, n) => y < z) THEN "FULL"
        ELSE cond[y]] /\ cf' = [cf EXCEPT ![z] = c]
  BY DEF select_write_zone
<1>4. wp' \in [Zones -> 0 .. Cap] /\ cf' \in [Zones -> -1 .. ClusterNum - 1]
  BY <1>1, <1>2, <1>3
<1>5. cond' \in [Zones -> {"EMPTY", "OPEN", "FULL"}]
  BY <1>1, <1>3
<1>6. cond'[z] = "OPEN" /\ cf'[z] = c /\ wp'[z] = wp[z] + n
  BY <1>1, <1>3
<1>7. ASSUME NEW y \in Zones, y # z
      PROVE  /\ cond[y] = "FULL" => cond'[y] = "FULL"
             /\ cond'[y] = "EMPTY" <=> cond[y] = "EMPTY"
             /\ cf'[y] = cf[y] /\ wp'[y] = wp[y]
  <2>1. Tight(y, c, n) => cond[y] = "OPEN"
    BY DEF Tight, OpenFor
  <2> QED BY <1>1, <1>3, <1>7, <2>1
<1> QED BY <1>4, <1>5, <1>6, <1>7

(* Each page of a write gets a slot of its own in the zone, which the      *)
(* device then holds; no other slot changes.                               *)
LEMMA Placed ==
  ASSUME Sound, NEW c, NEW n, NEW pl, NEW vl, Args(c, n, pl, vl),
         NEW z \in Zones, Target(c, n, z), Accepts(z, n), Place(z, n, pl, vl)
  PROVE  /\ \A p \in Listed(n, pl) :
              /\ NewAddr(z, n, pl, p) \in Addr
              /\ \E k \in wp[z] .. wp[z] + n - 1 : NewAddr(z, n, pl, p) = <<z, k>>
              /\ vl[LastOf(n, pl, p)] \in Vals
              /\ dev'[NewAddr(z, n, pl, p)] = <<p, vl[LastOf(n, pl, p)]>>
         /\ \A p, q \in Listed(n, pl) :
              NewAddr(z, n, pl, p) = NewAddr(z, n, pl, q) => p = q
         /\ \A y \in Zones : \A k \in Slots :
              IF y = z /\ k \in wp[z] .. wp[z] + n - 1
              THEN dev'[<<y, k>>] \in Listed(n, pl) \X Vals
              ELSE dev'[<<y, k>>] = dev[<<y, k>>]
<1>0. /\ wp[z] \in 0 .. Cap /\ wp[z] + n \in 0 .. Cap /\ n \in Nat
      /\ pl \in [1 .. n -> Pages] /\ vl \in [1 .. n -> Vals]
      /\ \A k \in wp[z] .. wp[z] + n - 1 : k \in Slots
  <2>1. n \in 0 .. Cap /\ pl \in [1 .. n -> Pages] /\ vl \in [1 .. n -> Vals]
    BY DEF Args
  <2> QED BY <2>1, Room, ConstantsOK
<1>1. dev' = [b \in Addr |->
        IF b[1] = z /\ b[2] \in wp[z] .. wp[z] + n - 1
        THEN <<pl[b[2] - wp[z] + 1], vl[b[2] - wp[z] + 1]>>
        ELSE dev[b]]
  BY DEF Place
<1>2. ASSUME NEW y \in Zones, NEW k \in Slots
      PROVE  dev'[<<y, k>>] = IF y = z /\ k \in wp[z] .. wp[z] + n - 1
                              THEN <<pl[k - wp[z] + 1], vl[k - wp[z] + 1]>>
                              ELSE dev[<<y, k>>]
  <2> DEFINE a == <<y, k>>
  <2>1. a \in Addr /\ a[1] = y /\ a[2] = k
    BY DEF Addr
  <2> HIDE DEF a
  <2> QED BY <1>1, <2>1 DEF a
<1>3. \A k \in wp[z] .. wp[z] + n - 1 : k - wp[z] + 1 \in 1 .. n
  BY <1>0
<1>4. ASSUME NEW p \in Listed(n, pl)
      PROVE  /\ NewAddr(z, n, pl, p) \in Addr
             /\ \E k \in wp[z] .. wp[z] + n - 1 : NewAddr(z, n, pl, p) = <<z, k>>
             /\ vl[LastOf(n, pl, p)] \in Vals
             /\ dev'[NewAddr(z, n, pl, p)] = <<p, vl[LastOf(n, pl, p)]>>
  <2> DEFINE i == LastOf(n, pl, p)
             k == wp[z] + i - 1
  <2>1. i \in 1 .. n /\ pl[i] = p
    BY <1>0, LastOccurrence
  <2> HIDE DEF i
  <2>2. k \in wp[z] .. wp[z] + n - 1 /\ k - wp[z] + 1 = i
    BY <1>0, <2>1
  <2>3. NewAddr(z, n, pl, p) = <<z, k>>
    BY DEF NewAddr, i
  <2>4. k \in Slots /\ <<z, k>> \in Addr
    BY <1>0, <2>2 DEF Addr
  <2>5. dev'[<<z, k>>] = <<pl[i], vl[i]>>
    BY <1>2, <2>2, <2>4
  <2>6. vl[i] \in Vals
    BY <1>0, <2>1
  <2> QED BY <2>1, <2>2, <2>3, <2>4, <2>5, <2>6 DEF i
<1>5. ASSUME NEW p \in Listed(n, pl), NEW q \in Listed(n, pl),
             NewAddr(z, n, pl, p) = NewAddr(z, n, pl, q)
      PROVE  p = q
  <2>1. <<p, vl[LastOf(n, pl, p)]>> = <<q, vl[LastOf(n, pl, q)]>>
    BY <1>4, <1>5
  <2> QED BY <2>1
<1>6. ASSUME NEW k \in wp[z] .. wp[z] + n - 1
      PROVE  <<pl[k - wp[z] + 1], vl[k - wp[z] + 1]>> \in Listed(n, pl) \X Vals
  BY <1>0, <1>3 DEF Listed
<1> QED BY <1>2, <1>4, <1>5, <1>6

(* The table, the device, and what the device holds.                       *)
LEMMA PlaceKept ==
  ASSUME Sound, Stored, NEW c, NEW n, NEW pl, NEW vl, Args(c, n, pl, vl),
         NEW z \in Zones, select_write_zone(c, n, z), Accepts(z, n),
         Place(z, n, pl, vl)
  PROVE  /\ Table' \in [Pages -> Addr \cup {NoAddr}]
         /\ dev' \in [Addr -> (Pages \X Vals) \cup {NoData}]
         /\ Clean' /\ Stored'
         /\ \A p \in Pages :
              Table'[p] = NoAddr <=> Table[p] = NoAddr /\ p \notin Listed(n, pl)
<1> DEFINE W == Listed(n, pl)
<1>0. Target(c, n, z) /\ c \in -1 .. ClusterNum - 1 /\ n \in 0 .. Cap
      /\ wp' = [wp EXCEPT ![z] = @ + n]
  BY DEF select_write_zone, Args, Place
<1>1. /\ \A p \in W : NewAddr(z, n, pl, p) \in Addr
      /\ \A y \in Zones : \A k \in Slots :
           IF y = z /\ k \in wp[z] .. wp[z] + n - 1
           THEN dev'[<<y, k>>] \in Listed(n, pl) \X Vals
           ELSE dev'[<<y, k>>] = dev[<<y, k>>]
  BY <1>0, Placed
<1>2. W \subseteq Pages /\ NoAddr \notin Addr /\ NoData \notin Pages \X Vals
  BY ConstantsOK DEF Listed, Args
<1>3. \A p \in Pages : Table'[p] = IF p \in W THEN NewAddr(z, n, pl, p) ELSE Table[p]
  BY DEF Place
<1>4. /\ Table \in [Pages -> Addr \cup {NoAddr}]
      /\ dev \in [Addr -> (Pages \X Vals) \cup {NoData}]
  BY DEF Sound
<1> HIDE DEF W
<1>5. Table' \in [Pages -> Addr \cup {NoAddr}]
  <2>1. Table' = [p \in Pages |-> Table'[p]]
    BY DEF Place
  <2>2. \A p \in Pages : Table'[p] \in Addr \cup {NoAddr}
    BY <1>1, <1>3, <1>4
  <2> QED BY <2>1, <2>2
<1>6. \A p \in Pages : Table'[p] = NoAddr <=> Table[p] = NoAddr /\ p \notin W
  BY <1>1, <1>2, <1>3
<1>7. \A a \in Addr : /\ a = <<a[1], a[2]>> /\ a[1] \in Zones /\ a[2] \in Slots
                      /\ dev[a] \in (Pages \X Vals) \cup {NoData}
  BY <1>4 DEF Addr
<1>8. \A a \in Addr : dev'[a] = dev[a] \/ dev'[a] \in W \X Vals
  BY <1>1, <1>7 DEF W
<1>9. dev' \in [Addr -> (Pages \X Vals) \cup {NoData}]
  <2>1. dev' = [a \in Addr |-> dev'[a]]
    BY DEF Place
  <2>2. \A a \in Addr : dev'[a] \in (Pages \X Vals) \cup {NoData}
    BY <1>2, <1>7, <1>8
  <2> QED BY <2>1, <2>2
<1>10. Clean'
  <2>1. ASSUME NEW y \in Zones, cond'[y] = "EMPTY", NEW k \in Slots
        PROVE  dev'[<<y, k>>] = NoData
    <3>1. y # z /\ cond[y] = "EMPTY"
      BY <1>0, <2>1, Choose
    <3> QED BY <1>1, <3>1 DEF Sound, Clean
  <2> QED BY <2>1 DEF Clean, Zones, Slots
<1>11. Stored'
  <2>1. ASSUME NEW a \in Addr, dev'[a] # NoData PROVE Table'[dev'[a][1]] # NoAddr
    <3>1. CASE dev'[a] \in W \X Vals
      <4>1. dev'[a][1] \in W
        BY <3>1
      <4> QED BY <1>2, <1>6, <4>1
    <3>2. CASE dev'[a] = dev[a]
      <4>1. dev[a][1] \in Pages /\ Table[dev[a][1]] # NoAddr
        BY <1>7, <2>1, <3>2 DEF Stored
      <4> QED BY <1>6, <3>2, <4>1
    <3> QED BY <1>8, <3>1, <3>2
  <2> QED BY <2>1 DEF Stored, Addr, Zones, Slots
<1> QED BY <1>5, <1>6, <1>9, <1>10, <1>11 DEF W

(* valid_page stays the number of bits: each page moved counts once.       *)
LEMMA PlaceCount ==
  ASSUME Sound, NEW c, NEW n, NEW pl, NEW vl, Args(c, n, pl, vl),
         NEW z \in Zones, Target(c, n, z), Accepts(z, n), BitsFlip(z, n, pl),
         Place(z, n, pl, vl)
  PROVE  /\ ValidCount' /\ valid_page' \in [Zones -> 0 .. Cap]
         /\ meta_page' \subseteq Addr
<1> DEFINE W == Listed(n, pl)
           New == [p \in W |-> NewAddr(z, n, pl, p)]
           Ns == {New[p] : p \in W}
<1>0. IsFiniteSet(W) /\ W \subseteq Pages
  BY ListedFinite, ConstantsOK DEF Args
<1>1. /\ \A p \in W : /\ New[p] \in Addr \ meta_page
                      /\ \E k \in wp[z] .. wp[z] + n - 1 : New[p] = <<z, k>>
      /\ \A p, q \in W : New[p] = New[q] => p = q
  <2>1. /\ \A p \in W : /\ NewAddr(z, n, pl, p) \in Addr
                        /\ \E k \in wp[z] .. wp[z] + n - 1 :
                             NewAddr(z, n, pl, p) = <<z, k>>
        /\ \A p, q \in W : NewAddr(z, n, pl, p) = NewAddr(z, n, pl, q) => p = q
    BY Placed
  <2>2. \A k \in wp[z] .. wp[z] + n - 1 : <<z, k>> \notin meta_page
    <3> TAKE k \in wp[z] .. wp[z] + n - 1
    <3>1. wp[z] \in 0 .. Cap /\ n \in 0 .. Cap
      BY DEF Sound, Args
    <3>2. k - wp[z] \in 0 .. n - 1 /\ wp[z] + (k - wp[z]) = k
      BY <3>1
    <3>3. <<z, wp[z] + (k - wp[z])>> \notin meta_page
      BY <3>2 DEF BitsFlip
    <3> QED BY <3>2, <3>3
  <2> QED BY <2>1, <2>2
<1>2. meta_page' = (meta_page \ {Table[p] : p \in W}) \cup Ns
  BY DEF Place
<1>3. valid_page' = [y \in Zones |->
        valid_page[y] - Cardinality(OldIn(y, W))
          + (IF y = z THEN Cardinality(W) ELSE 0)]
  BY DEF Place
<1>4. IsFiniteSet(Ns) /\ Cardinality(Ns) = Cardinality(W)
  <2> HIDE DEF W
  <2> DEFINE f == New
  <2>1. DOMAIN f = W /\ f = [p \in W |-> f[p]]
    OBVIOUS
  <2>2. \A x, y \in W : f[x] = f[y] => x = y
    BY <1>1
  <2> HIDE DEF f
  <2>3. /\ IsFiniteSet({f[x] : x \in W})
        /\ Cardinality({f[x] : x \in W}) = Cardinality(W)
    BY <1>0, <2>1, <2>2, ImageCount
  <2> QED BY <2>3 DEF f
<1>5. \A p \in W : New[p][1] = z /\ New[p] \in SlotsOf(z)
  BY <1>1 DEF Addr, SlotsOf
<1>6. /\ meta_page \subseteq Addr
      /\ \A p \in W : Table[p] # NoAddr => Table[p] \in meta_page
      /\ Table \in [Pages -> Addr \cup {NoAddr}]
      /\ \A p, q \in W : Table[p] # NoAddr /\ Table[p] = Table[q] => p = q
      /\ NoAddr \notin Addr
  BY ConstantsOK DEF Sound, BitsFlip, Args, Distinct
<1> HIDE DEF W, New
<1>7. ASSUME NEW y \in Zones
      PROVE  valid_page'[y] = Cardinality(meta_page' \cap SlotsOf(y))
  <2> DEFINE S == meta_page \cap SlotsOf(y)
             P == OldIn(y, W)
             T == [p \in P |-> Table[p]]
             O == {T[p] : p \in P}
             N == IF y = z THEN Ns ELSE {}
  <2>1. valid_page[y] = Cardinality(S) /\ IsFiniteSet(S)
    BY ValidSlots DEF Sound, ValidCount
  <2>2. P \subseteq W /\ IsFiniteSet(P)
    BY <1>0, FS_Subset DEF OldIn
  <2>3. Cardinality(O) = Cardinality(P)
    <3> HIDE DEF P
    <3> DEFINE f == T
    <3>1. DOMAIN f = P /\ f = [p \in P |-> f[p]]
      OBVIOUS
    <3>2. \A u, v \in P : f[u] = f[v] => u = v
      BY <2>2, <1>0, <1>6 DEF P, OldIn
    <3> HIDE DEF f
    <3>3. Cardinality({f[x] : x \in P}) = Cardinality(P)
      BY <2>2, <3>1, <3>2, ImageCount
    <3> QED BY <3>3 DEF f
  <2>4. O \subseteq S
    <3>1. ASSUME NEW p \in P PROVE Table[p] \in S
      <4>1. Table[p] \in meta_page /\ Table[p] \in Addr /\ Table[p][1] = y
        BY <1>0, <1>6 DEF OldIn
      <4> QED BY <4>1 DEF Addr, SlotsOf
    <3> QED BY <3>1
  <2>5. N \cap S = {} /\ IsFiniteSet(N)
    BY <1>1, <1>4, FS_EmptySet
  <2>6. meta_page' \cap SlotsOf(y) = (S \ O) \cup N
    <3>1. \A a \in S : (\E p \in W : Table[p] = a) <=> a \in O
      <4>1. ASSUME NEW a \in S, NEW p \in W, Table[p] = a PROVE a \in O
        <5>1. a \in Addr /\ a[1] = y
          BY <1>6 DEF Addr, SlotsOf
        <5>2. p \in P
          BY <4>1, <5>1, <1>6 DEF OldIn
        <5> QED BY <4>1, <5>2
      <4>2. ASSUME NEW a \in O PROVE \E p \in W : Table[p] = a
        BY <2>2
      <4> QED BY <4>1, <4>2
    <3>2. Ns \cap SlotsOf(y) = N
      <4>1. CASE y = z
        BY <4>1, <1>5
      <4>2. CASE y # z
        <5>1. \A a \in SlotsOf(y) : a[1] = y
          BY DEF SlotsOf
        <5> QED BY <4>2, <5>1, <1>5
      <4> QED BY <4>1, <4>2
    <3> HIDE DEF O, N
    <3> QED BY <1>2, <3>1, <3>2
  <2>7. Cardinality((S \ O) \cup N)
          = Cardinality(S) - Cardinality(O) + Cardinality(N)
    <3> HIDE DEF S, O, N
    <3> QED BY <2>1, <2>4, <2>5, ReplaceCount
  <2>8. Cardinality(N) = IF y = z THEN Cardinality(W) ELSE 0
    BY <1>4, FS_EmptySet
  <2>9. valid_page'[y] = valid_page[y] - Cardinality(P)
                           + (IF y = z THEN Cardinality(W) ELSE 0)
    BY <1>3
  <2> HIDE DEF S, P, O, N
  <2> QED BY <2>1, <2>3, <2>6, <2>7, <2>8, <2>9
<1>8. ValidCount'
  BY <1>7 DEF ValidCount, SlotsOf, Slots, Zones
<1>9. \A y \in Zones : valid_page'[y] \in 0 .. Cap
  BY <1>7, ValidSlots
<1>10. valid_page' = [y \in Zones |-> valid_page'[y]]
  BY <1>3
<1>11. meta_page' \subseteq Addr
  BY <1>1, <1>2, <1>6
<1> QED BY <1>8, <1>9, <1>10, <1>11

(* Together.                                                               *)
LEMMA WriteSafe ==
  ASSUME Sound, Stored, NEW c, NEW n, NEW pl, NEW vl, Args(c, n, pl, vl),
         Write(c, n, pl, vl)
  PROVE  /\ Sound' /\ Stored'
         /\ \A p \in Pages :
              Table'[p] = NoAddr <=> Table[p] = NoAddr /\ p \notin Listed(n, pl)
<1>1. PICK z \in Zones : /\ select_write_zone(c, n, z)
                         /\ BitsFlip(z, n, pl)
                         /\ Accepts(z, n)
                         /\ Place(z, n, pl, vl)
  BY DEF Write
<1>2. Target(c, n, z) /\ c \in -1 .. ClusterNum - 1 /\ n \in 0 .. Cap
      /\ wp' = [wp EXCEPT ![z] = @ + n]
  BY <1>1 DEF select_write_zone, Args, Place
<1>3. /\ cond' \in [Zones -> {"EMPTY", "OPEN", "FULL"}]
      /\ wp' \in [Zones -> 0 .. Cap]
      /\ cf' \in [Zones -> -1 .. ClusterNum - 1]
  BY <1>1, <1>2, Choose
<1>4. /\ Table' \in [Pages -> Addr \cup {NoAddr}]
      /\ dev' \in [Addr -> (Pages \X Vals) \cup {NoData}]
      /\ Clean' /\ Stored'
      /\ \A p \in Pages :
           Table'[p] = NoAddr <=> Table[p] = NoAddr /\ p \notin Listed(n, pl)
  BY <1>1, PlaceKept
<1>5. ValidCount' /\ valid_page' \in [Zones -> 0 .. Cap] /\ meta_page' \subseteq Addr
  BY <1>1, <1>2, PlaceCount
<1> QED BY <1>3, <1>4, <1>5 DEF Sound, Zones, Slots, Addr

------------------------------------------------------------------------------
(***************************************************************************)
(* Every step keeps Safe.                                                  *)
(***************************************************************************)
LEMMA SameSafe ==
  ASSUME Safe, UNCHANGED <<zoneVars, mapVars>>, promised' = promised,
         Aside', FaultType'
  PROVE  Safe'
<1>1. UNCHANGED <<cond, wp, cf, valid_page, meta_page, Table, dev>>
  BY DEF zoneVars, mapVars
<1>2. Sound'
  BY <1>1 DEF Safe, Sound, Clean, ValidCount, Zones, Slots, Addr, SlotsOf
<1>3. Stored' /\ MappedIffPromised'
  BY <1>1 DEF Safe, Stored, MappedIffPromised, Zones, Slots, Addr
<1> QED BY <1>2, <1>3 DEF Safe

LEMMA AbortSafe ==
  ASSUME Safe, NEW why \in {"no zone", "bit", "pwrite", "lookup"}, Abort(why)
  PROVE  Safe'
<1>1. UNCHANGED <<zoneVars, mapVars, gcVars, promised, early>> /\ fault' = why
  BY DEF Abort
<1>2. Aside'
  BY <1>1 DEF Safe, Aside, gcVars, Zones
<1>3. FaultType'
  BY <1>1 DEF FaultType
<1> QED BY <1>1, <1>2, <1>3, SameSafe

LEMMA WriteAbortSafe ==
  ASSUME Safe, NEW c, NEW n, NEW pl, WriteAborts(c, n, pl)
  PROVE  Safe'
BY AbortSafe DEF WriteAborts

LEMMA EarlyType ==
  ASSUME NEW c, NEW n, NEW pl, NEW vl, Write(c, n, pl, vl)
  PROVE  early' \in BOOLEAN
BY DEF Write

(* A write of the main thread.                                             *)
LEMMA ForegroundSafe ==
  ASSUME Safe, NEW c, NEW n, NEW pl, NEW vl, Args(c, n, pl, vl),
         Foreground(c, n, pl, vl)
  PROVE  Safe'
<1>1. CASE /\ Write(c, n, pl, vl) /\ Promise(n, pl, vl)
           /\ UNCHANGED <<gcVars, fault>>
  <2>1. /\ Sound' /\ Stored'
        /\ \A p \in Pages :
             Table'[p] = NoAddr <=> Table[p] = NoAddr /\ p \notin Listed(n, pl)
    BY <1>1, WriteSafe DEF Safe
  <2>2. \A p \in Listed(n, pl) : vl[LastOf(n, pl, p)] \in Vals
    BY LastOccurrence, ConstantsOK DEF Args
  <2>3. \A p \in Pages : promised'[p] = IF p \in Listed(n, pl)
                                        THEN vl[LastOf(n, pl, p)] ELSE promised[p]
    BY <1>1 DEF Promise
  <2>4. promised' \in [Pages -> Vals \cup {Absent}]
    <3>1. promised' = [p \in Pages |-> promised'[p]]
      BY <1>1 DEF Promise
    <3>2. promised \in [Pages -> Vals \cup {Absent}]
      BY DEF Safe, Aside
    <3>3. \A p \in Pages : promised'[p] \in Vals \cup {Absent}
      BY <2>2, <2>3, <3>2
    <3> QED BY <3>1, <3>3
  <2>5. Aside'
    <3>1. inGc' = inGc /\ Gc' = Gc /\ gcPos' = gcPos /\ early' \in BOOLEAN
      BY <1>1, EarlyType DEF gcVars
    <3> QED BY <2>4, <3>1 DEF Safe, Aside, Zones
  <2>6. MappedIffPromised'
    BY <2>1, <2>2, <2>3, ConstantsOK DEF Safe, MappedIffPromised
  <2>7. FaultType'
    BY <1>1 DEF Safe, FaultType
  <2> QED BY <2>1, <2>5, <2>6, <2>7 DEF Safe
<1>2. CASE WriteAborts(c, n, pl)
  BY <1>2, WriteAbortSafe
<1> QED BY <1>1, <1>2 DEF Foreground

(* A list of at most one page names none twice.                            *)
LEMMA OnePage ==
  ASSUME NEW c \in -1 .. ClusterNum - 1, NEW n \in 0 .. 1,
         NEW pl \in [1 .. n -> Pages], NEW vl \in [1 .. n -> Vals]
  PROVE  Args(c, n, pl, vl)
<1>1. \A p, q \in Listed(n, pl) : p = q
  BY DEF Listed
<1>2. n \in 0 .. Cap
  BY ConstantsOK
<1> QED BY <1>1, <1>2 DEF Args, Distinct

LEMMA SinglePage ==
  ASSUME NEW c \in -1 .. ClusterNum - 1, NEW p \in Pages, NEW v \in Vals
  PROVE  Args(c, 1, <<p>>, <<v>>) /\ Listed(1, <<p>>) = {p}
<1>1. <<p>> \in [1 .. 1 -> Pages] /\ <<v>> \in [1 .. 1 -> Vals]
  OBVIOUS
<1>2. Listed(1, <<p>>) = {p}
  BY DEF Listed
<1> QED BY <1>1, <1>2, OnePage

(* A copy by a background thread; cf of its zone may be -1 by now.         *)
LEMMA CopySafe ==
  ASSUME Safe, NEW c \in -1 .. ClusterNum - 1, NEW a \in Addr, Copy(c, a),
         inGc' = inGc, Gc' \in BOOLEAN, gcPos' \in [Zones -> -1 .. Cap + 2],
         fault' = fault, promised' = promised
  PROVE  Safe'
<1> DEFINE p == dev[a][1]
           v == dev[a][2]
<1>1. p \in Pages /\ v \in Vals /\ Table[p] # NoAddr /\ Write(c, 1, <<p>>, <<v>>)
  BY DEF Copy, Safe, Sound, Stored
<1> HIDE DEF p, v
<1>2. Args(c, 1, <<p>>, <<v>>) /\ Listed(1, <<p>>) = {p}
  BY <1>1, SinglePage
<1>3. /\ Sound' /\ Stored'
      /\ \A q \in Pages :
           Table'[q] = NoAddr <=> Table[q] = NoAddr /\ q \notin Listed(1, <<p>>)
  BY <1>1, <1>2, WriteSafe DEF Safe
<1>4. MappedIffPromised'
  BY <1>1, <1>2, <1>3 DEF Safe, MappedIffPromised
<1>5. Aside' /\ FaultType'
  BY <1>1, EarlyType DEF Safe, Aside, FaultType, Zones
<1> QED BY <1>3, <1>4, <1>5 DEF Safe

LEMMA CopyAbortSafe ==
  ASSUME Safe, NEW c, NEW a, CopyAborts(c, a)
  PROVE  Safe'
BY AbortSafe, WriteAbortSafe DEF CopyAborts

(* The three steps that give a zone back.                                  *)
Emptied(z) ==
  /\ reset_zone(z)
  /\ cond' = [cond EXCEPT ![z] = "EMPTY"]
  /\ cf' = [cf EXCEPT ![z] = -1]
  /\ UNCHANGED <<wp, valid_page, meta_page, Table>>

LEMMA EmptiedSafe ==
  ASSUME Sound, Stored, NEW z \in Zones, Emptied(z)
  PROVE  Sound' /\ Stored'
<1>1. /\ cond \in [Zones -> {"EMPTY", "OPEN", "FULL"}]
      /\ cf \in [Zones -> -1 .. ClusterNum - 1] /\ -1 \in -1 .. ClusterNum - 1
      /\ dev \in [Addr -> (Pages \X Vals) \cup {NoData}]
  BY ConstantsOK DEF Sound
<1>2. /\ cond' = [cond EXCEPT ![z] = "EMPTY"] /\ cf' = [cf EXCEPT ![z] = -1]
      /\ dev' = [a \in Addr |-> IF a[1] = z THEN NoData ELSE dev[a]]
      /\ UNCHANGED <<wp, valid_page, meta_page, Table>>
  BY DEF Emptied, reset_zone
<1>3. /\ cond' \in [Zones -> {"EMPTY", "OPEN", "FULL"}]
      /\ cf' \in [Zones -> -1 .. ClusterNum - 1]
  BY <1>1, <1>2
<1>4. dev' \in [Addr -> (Pages \X Vals) \cup {NoData}]
  BY <1>1, <1>2, Zenon
<1>5. Clean'
  <2>1. ASSUME NEW y \in Zones, cond'[y] = "EMPTY", NEW k \in Slots
        PROVE  dev'[<<y, k>>] = NoData
    <3>1. <<y, k>> \in Addr /\ <<y, k>>[1] = y
      BY DEF Addr
    <3>2. y # z => dev[<<y, k>>] = NoData
      BY <1>1, <1>2, <2>1 DEF Sound, Clean
    <3> QED BY <1>2, <3>1, <3>2
  <2> QED BY <2>1 DEF Clean, Zones, Slots
<1>6. ValidCount'
  BY <1>2 DEF Sound, ValidCount, SlotsOf, Zones, Slots
<1>7. Stored'
  BY <1>2 DEF Stored, Addr, Zones, Slots
<1> QED BY <1>2, <1>3, <1>4, <1>5, <1>6, <1>7 DEF Sound, Zones, Slots, Addr

LEMMA RewoundSafe ==
  ASSUME Sound, Stored, NEW z \in Zones, rewind(z), UNCHANGED <<cond, cf, mapVars>>
  PROVE  Sound' /\ Stored'
<1>1. wp' \in [Zones -> 0 .. Cap]
  <2>1. 0 \in 0 .. Cap
    BY ConstantsOK
  <2> QED BY <2>1 DEF Sound, rewind
<1>2. UNCHANGED <<cond, cf, valid_page, meta_page, Table, dev>>
  BY DEF mapVars
<1>3. Clean' /\ ValidCount'
  BY <1>2 DEF Sound, Clean, ValidCount, SlotsOf, Zones, Slots
<1>4. Stored'
  BY <1>2 DEF Stored, Addr, Zones, Slots
<1> QED BY <1>1, <1>2, <1>3, <1>4 DEF Sound, Zones, Slots, Addr

LEMMA SweptSafe ==
  ASSUME Sound, Stored, NEW z \in Zones, clear_bits(z),
         UNCHANGED <<zoneVars, Table, dev>>
  PROVE  Sound' /\ Stored'
<1>1. /\ UNCHANGED <<cond, wp, cf, Table, dev>>
      /\ valid_page' = [valid_page EXCEPT
                          ![z] = @ - Cardinality(meta_page \cap SlotsOf(z))]
      /\ meta_page' = meta_page \ SlotsOf(z)
      /\ meta_page \subseteq Addr /\ valid_page \in [Zones -> 0 .. Cap]
  BY DEF zoneVars, clear_bits, Sound
<1>2. ASSUME NEW y \in Zones
      PROVE  valid_page'[y] = Cardinality(meta_page' \cap SlotsOf(y))
  <2>1. /\ valid_page[y] = Cardinality(meta_page \cap SlotsOf(y))
        /\ valid_page[y] \in 0 .. Cap
    BY DEF Sound, ValidCount
  <2>2. CASE y = z
    <3>1. meta_page' \cap SlotsOf(y) = {}
      BY <1>1, <2>2
    <3>2. valid_page'[y] = valid_page[y] - valid_page[y]
      BY <1>1, <2>1, <2>2
    <3>3. valid_page'[y] = 0
      BY <2>1, <3>2
    <3>4. Cardinality(meta_page' \cap SlotsOf(y)) = 0
      BY <3>1, FS_EmptySet
    <3> QED BY <3>3, <3>4
  <2>3. CASE y # z
    <3>1. SlotsOf(y) \cap SlotsOf(z) = {}
      BY <2>3 DEF SlotsOf
    <3>2. meta_page' \cap SlotsOf(y) = meta_page \cap SlotsOf(y)
      BY <1>1, <3>1
    <3> QED BY <1>1, <2>1, <2>3, <3>2
  <2> QED BY <2>2, <2>3
<1>3. ValidCount'
  BY <1>2 DEF ValidCount, Zones, SlotsOf, Slots
<1>4. valid_page' \in [Zones -> 0 .. Cap]
  <2>1. \A y \in Zones : valid_page'[y] \in 0 .. Cap
    BY <1>2, ValidSlots
  <2> QED BY <1>1, <2>1
<1>5. Clean'
  BY <1>1 DEF Sound, Clean, Zones, Slots
<1>6. Stored'
  BY <1>1 DEF Stored, Addr, Zones, Slots
<1> QED BY <1>1, <1>3, <1>4, <1>5, <1>6 DEF Sound, Zones, Slots, Addr

LEMMA DetectSafe ==
  ASSUME Safe, garbage_collection_detect
  PROVE  Safe'
<1>1. /\ UNCHANGED <<zoneVars, mapVars, Gc, gcPos, fault, promised, early>>
      /\ inGc' = [z \in Zones |-> inGc[z] \/ Collectable(z)]
  BY DEF garbage_collection_detect
<1>2. inGc' \in [Zones -> BOOLEAN]
  <2>1. \A z \in Zones : (inGc[z] \/ Collectable(z)) \in BOOLEAN
    OBVIOUS
  <2> QED BY <1>1, <2>1, Zenon
<1>3. Aside' /\ FaultType'
  BY <1>1, <1>2 DEF Safe, Aside, FaultType, Zones
<1> QED BY <1>1, <1>3, SameSafe

LEMMA CollectorSafe ==
  ASSUME Safe, NEW z \in Zones, Collector(z)
  PROVE  Safe'
<1> USE ConstantsOK
<1>0. /\ inGc \in [Zones -> BOOLEAN] /\ Gc \in BOOLEAN
      /\ gcPos \in [Zones -> -1 .. Cap + 2]
      /\ promised \in [Pages -> Vals \cup {Absent}]
      /\ early \in BOOLEAN /\ FaultType /\ cf \in [Zones -> -1 .. ClusterNum - 1]
  BY DEF Safe, Aside, Sound
<1>1. ASSUME Advance(z), gcPos[z] \in 0 .. Cap + 1
      PROVE  gcPos' \in [Zones -> -1 .. Cap + 2]
  <2>1. gcPos[z] + 1 \in -1 .. Cap + 2
    BY <1>1
  <2> QED BY <1>0, <1>1, <2>1 DEF Advance
<1>2. ASSUME inGc' \in [Zones -> BOOLEAN], Gc' \in BOOLEAN,
             gcPos' \in [Zones -> -1 .. Cap + 2], fault' = fault,
             promised' = promised, early' = early
      PROVE  Aside' /\ FaultType'
  BY <1>0, <1>2 DEF Aside, FaultType, Zones
<1>3. CASE GcStart(z)
  <2>1. /\ UNCHANGED <<zoneVars, mapVars, inGc, fault, promised, early>>
        /\ Gc' = TRUE /\ gcPos' = [gcPos EXCEPT ![z] = 0]
    BY <1>3 DEF GcStart
  <2>2. gcPos' \in [Zones -> -1 .. Cap + 2]
    <3>1. 0 \in -1 .. Cap + 2
      OBVIOUS
    <3> QED BY <1>0, <2>1, <3>1
  <2>3. Aside' /\ FaultType'
    BY <1>0, <1>2, <2>1, <2>2
  <2> QED BY <2>1, <2>3, SameSafe
<1>4. CASE GcPage(z)
  <2>1. gcPos[z] \in 0 .. Cap + 1 /\ GcAt(z) \in Addr /\ cf[z] \in -1 .. ClusterNum - 1
    BY <1>0, <1>4 DEF GcPage, GcAt, Slots, Addr
  <2>2. CASE Copy(cf[z], GcAt(z)) /\ Advance(z) /\ UNCHANGED <<inGc, Gc, fault, promised>>
    <3>1. gcPos' \in [Zones -> -1 .. Cap + 2]
      BY <1>1, <2>1, <2>2
    <3> QED BY <1>0, <2>1, <2>2, <3>1, CopySafe
  <2>3. CASE CopyAborts(cf[z], GcAt(z))
    BY <2>3, CopyAbortSafe
  <2>4. CASE Advance(z) /\ UNCHANGED <<zoneVars, mapVars, inGc, Gc, fault, promised, early>>
    <3>1. gcPos' \in [Zones -> -1 .. Cap + 2]
      BY <1>1, <2>1, <2>4
    <3>2. Aside' /\ FaultType'
      BY <1>0, <1>2, <2>4, <3>1
    <3> QED BY <2>4, <3>2, SameSafe
  <2> QED BY <1>4, <2>2, <2>3, <2>4 DEF GcPage
<1>5. ASSUME Sound', Stored', UNCHANGED <<Table, promised, fault, early>>,
             inGc' \in [Zones -> BOOLEAN], Gc' \in BOOLEAN,
             gcPos' \in [Zones -> -1 .. Cap + 2]
      PROVE  Safe'
  <2>1. Aside' /\ FaultType'
    BY <1>2, <1>5
  <2> QED BY <1>5, <2>1 DEF Safe, MappedIffPromised
<1>6. CASE GcReset(z)
  <2>1. /\ Emptied(z) /\ Advance(z) /\ gcPos[z] \in 0 .. Cap + 1
        /\ UNCHANGED <<Table, inGc, Gc, fault, promised, early>>
    BY <1>6 DEF GcReset, Emptied
  <2>2. Sound' /\ Stored'
    BY <2>1, EmptiedSafe DEF Safe
  <2> QED BY <1>0, <1>1, <1>5, <2>1, <2>2
<1>7. CASE GcRewind(z)
  <2>1. /\ rewind(z) /\ Advance(z) /\ gcPos[z] \in 0 .. Cap + 1
        /\ UNCHANGED <<cond, cf, mapVars, Table, inGc, Gc, fault, promised, early>>
    BY <1>7 DEF GcRewind, mapVars
  <2>2. Sound' /\ Stored'
    BY <2>1, RewoundSafe DEF Safe
  <2> QED BY <1>0, <1>1, <1>5, <2>1, <2>2
<1>8. CASE GcSweep(z)
  <2>1. /\ clear_bits(z)
        /\ inGc' = [inGc EXCEPT ![z] = FALSE] /\ Gc' = FALSE
        /\ gcPos' = [gcPos EXCEPT ![z] = -1]
        /\ UNCHANGED <<zoneVars, Table, dev, fault, promised, early>>
    BY <1>8 DEF GcSweep
  <2>2. Sound' /\ Stored'
    BY <2>1, SweptSafe DEF Safe
  <2>3. gcPos' \in [Zones -> -1 .. Cap + 2]
    <3>1. -1 \in -1 .. Cap + 2
      OBVIOUS
    <3> QED BY <1>0, <2>1, <3>1
  <2> QED BY <1>0, <1>5, <2>1, <2>2, <2>3
<1> QED BY <1>3, <1>4, <1>6, <1>7, <1>8 DEF Collector

------------------------------------------------------------------------------
(***************************************************************************)
(* A write, before a zone is opened early.                                 *)
(***************************************************************************)
(* What the lemmas on writes need to know of the state, in small facts.    *)
LEMMA MapFacts ==
  ASSUME Safe, Core
  PROVE  /\ meta_page \subseteq Addr
         /\ Table \in [Pages -> Addr \cup {NoAddr}]
         /\ dev \in [Addr -> (Pages \X Vals) \cup {NoData}]
         /\ promised \in [Pages -> Vals \cup {Absent}]
         /\ \A p \in Pages : Table[p] # NoAddr =>
              /\ Table[p] \in meta_page
              /\ dev[Table[p]] = <<p, promised[p]>>
              /\ promised[p] \in Vals
         /\ \A a \in meta_page : \E p \in Pages : Table[p] = a
         /\ \A p, q \in Pages : Table[p] # NoAddr /\ Table[p] = Table[q] => p = q
<1>1. /\ meta_page \subseteq Addr
      /\ Table \in [Pages -> Addr \cup {NoAddr}]
      /\ dev \in [Addr -> (Pages \X Vals) \cup {NoData}]
      /\ promised \in [Pages -> Vals \cup {Absent}]
  BY DEF Safe, Sound, Aside
<1>2. \A p \in Pages : Table[p] # NoAddr =>
        /\ Table[p] \in meta_page
        /\ dev[Table[p]] = <<p, promised[p]>>
        /\ promised[p] \in Vals
  BY <1>1 DEF Core, Reads, Bits, Safe, MappedIffPromised
<1>3. \A a \in meta_page : \E p \in Pages : Table[p] = a
  BY DEF Core, Bits
<1>4. ASSUME NEW p \in Pages, NEW q \in Pages, Table[p] # NoAddr,
             Table[p] = Table[q]
      PROVE  p = q
  <2>1. <<p, promised[p]>> = <<q, promised[q]>>
    BY <1>2, <1>4
  <2> QED BY <2>1
<1> QED BY <1>1, <1>2, <1>3, <1>4

(* No two pages share an address.                                          *)
LEMMA AllDistinct ==
  ASSUME Safe, Core, NEW W \in SUBSET Pages
  PROVE  Distinct(W)
BY MapFacts DEF Distinct

(* The slots a write takes are beyond every live page, so that the two     *)
(* aborts of set_valid are out of reach.                                   *)
LEMMA FreshSlots ==
  ASSUME Safe, Core, NEW c, NEW n, NEW pl, NEW vl, Args(c, n, pl, vl),
         NEW z \in Zones
  PROVE  BitsFlip(z, n, pl)
<1>1. \A p \in Listed(n, pl) : Table[p] # NoAddr => Table[p] \in meta_page
  BY MapFacts DEF Listed, Args
<1>2. ASSUME NEW i \in 0 .. n - 1, <<z, wp[z] + i>> \in meta_page PROVE FALSE
  <2>1. wp[z] + i \in Slots /\ wp[z] \in 0 .. Cap
    BY <1>2 DEF Safe, Sound, Addr
  <2>2. wp[z] + i < wp[z]
    BY <1>2, <2>1 DEF Core, ZoneShape
  <2> QED BY <2>1, <2>2
<1> QED BY <1>1, <1>2 DEF BitsFlip

(* Every page has the address, and every slot the contents, it should.     *)
LEMMA PlaceReads ==
  ASSUME Safe, Core, NEW c, NEW n, NEW pl, NEW vl, Args(c, n, pl, vl),
         NEW z \in Zones, Target(c, n, z), Accepts(z, n), Place(z, n, pl, vl),
         Promise(n, pl, vl)
  PROVE  Reads'
<1> DEFINE W == Listed(n, pl)
<1>1. /\ \A p \in W : dev'[NewAddr(z, n, pl, p)] = <<p, vl[LastOf(n, pl, p)]>>
      /\ \A y \in Zones : \A k \in Slots :
           ~ (y = z /\ k \in wp[z] .. wp[z] + n - 1) =>
             dev'[<<y, k>>] = dev[<<y, k>>]
  BY Placed DEF Safe
<1>2. \A p \in Pages : Table'[p] = IF p \in W THEN NewAddr(z, n, pl, p) ELSE Table[p]
  BY DEF Place
<1>3. \A p \in Pages : promised'[p] = IF p \in W THEN vl[LastOf(n, pl, p)]
                                                 ELSE promised[p]
  BY DEF Promise
<1>4. ASSUME NEW a \in meta_page PROVE dev'[a] = dev[a]
  <2>1. PICK y \in Zones, k \in Slots : a = <<y, k>>
    BY MapFacts DEF Addr
  <2>2. k < wp[y] /\ wp[y] \in 0 .. Cap
    BY <2>1 DEF Safe, Sound, Core, ZoneShape
  <2>3. ~ (y = z /\ k \in wp[z] .. wp[z] + n - 1)
    BY <2>2 DEF Slots
  <2> QED BY <1>1, <2>1, <2>3
<1> HIDE DEF W
<1>5. ASSUME NEW p \in Pages, Table'[p] # NoAddr
      PROVE  dev'[Table'[p]] = <<p, promised'[p]>>
  <2>1. CASE p \in W
    BY <1>1, <1>2, <1>3, <2>1
  <2>2. CASE p \notin W
    <3>1. Table'[p] = Table[p] /\ promised'[p] = promised[p]
      BY <1>2, <1>3, <2>2
    <3>2. Table[p] \in meta_page /\ dev[Table[p]] = <<p, promised[p]>>
      BY <1>5, <3>1, MapFacts
    <3> QED BY <1>4, <3>1, <3>2
  <2> QED BY <2>1, <2>2
<1> QED BY <1>5 DEF Reads

(* The validity bits follow Table; only the zone written gains bits, and   *)
(* only below its new write pointer.                                       *)
LEMMA PlaceBits ==
  ASSUME Safe, Core, NEW c, NEW n, NEW pl, NEW vl, Args(c, n, pl, vl),
         NEW z \in Zones, Target(c, n, z), Accepts(z, n), Place(z, n, pl, vl)
  PROVE  /\ Bits'
         /\ \A y \in Zones : \A k \in Slots : <<y, k>> \in meta_page' =>
              <<y, k>> \in meta_page \/ (y = z /\ k < wp'[z])
         /\ \A k \in Slots : <<z, k>> \in meta_page' => k < wp'[z]
         /\ \A p \in Listed(n, pl) : Table[p] \notin meta_page'
<1> DEFINE W == Listed(n, pl)
           New(p) == NewAddr(z, n, pl, p)
<1>0. /\ wp[z] \in 0 .. Cap /\ n \in 0 .. Cap /\ wp' = [wp EXCEPT ![z] = @ + n]
      /\ wp \in [Zones -> 0 .. Cap] /\ Cap \in Nat
      /\ \A k \in Slots : <<z, k>> \in meta_page => k < wp[z]
  BY ConstantsOK DEF Core, ZoneShape, Args, Place, Safe, Sound
<1>1. /\ \A p \in W : /\ New(p) \in Addr
                      /\ \E k \in wp[z] .. wp[z] + n - 1 : New(p) = <<z, k>>
  BY Placed DEF Safe
<1>2. meta_page' = (meta_page \ {Table[p] : p \in W}) \cup {New(p) : p \in W}
  BY DEF Place
<1>3. \A p \in Pages : /\ p \in W => Table'[p] = New(p)
                       /\ p \notin W => Table'[p] = Table[p]
  BY DEF Place
<1>4. W \subseteq Pages /\ NoAddr \notin Addr
  BY ConstantsOK DEF Listed, Args
<1>5. /\ meta_page \subseteq Addr
      /\ \A p \in Pages : Table[p] # NoAddr => Table[p] \in meta_page
      /\ \A a \in meta_page : \E p \in Pages : Table[p] = a
      /\ \A p, q \in Pages : Table[p] # NoAddr /\ Table[p] = Table[q] => p = q
  BY MapFacts
<1> HIDE DEF W, New
<1>6. \A p \in W : New(p) \notin meta_page
  <2>1. \A k \in wp[z] .. wp[z] + n - 1 : k \in Slots => ~ (k < wp[z])
    BY <1>0
  <2>2. \A k \in wp[z] .. wp[z] + n - 1 : <<z, k>> \in Addr => k \in Slots
    BY DEF Addr
  <2> QED BY <1>0, <1>1, <2>1, <2>2
<1>7. Bits'
  <2>1. ASSUME NEW a \in meta_page' PROVE a # NoAddr /\ \E p \in Pages : Table'[p] = a
    <3>1. CASE a \in {New(p) : p \in W}
      BY <3>1, <1>1, <1>3, <1>4
    <3>2. CASE a \in meta_page \ {Table[p] : p \in W}
      <4>1. PICK p \in Pages : Table[p] = a
        BY <3>2, <1>5
      <4> QED BY <4>1, <3>2, <1>3, <1>4, <1>5
    <3> QED BY <1>2, <3>1, <3>2
  <2>2. ASSUME NEW p \in Pages, Table'[p] # NoAddr PROVE Table'[p] \in meta_page'
    <3>1. CASE p \in W
      BY <3>1, <1>2, <1>3
    <3>2. CASE p \notin W
      <4>1. Table'[p] = Table[p] /\ Table[p] \in meta_page
        BY <3>2, <2>2, <1>3, <1>5
      <4>2. \A q \in W : Table[q] # Table[p]
        BY <4>1, <3>2, <2>2, <1>4, <1>5
      <4> QED BY <4>1, <4>2, <1>2
    <3> QED BY <3>1, <3>2
  <2> QED BY <2>1, <2>2 DEF Bits
<1>8. \A k \in wp[z] .. wp[z] + n - 1 : k < wp'[z]
  <2>1. wp'[z] = wp[z] + n
    BY <1>0
  <2> QED BY <1>0, <2>1
<1>9. ASSUME NEW y \in Zones, NEW k \in Slots, <<y, k>> \in meta_page'
      PROVE  <<y, k>> \in meta_page \/ (y = z /\ k < wp'[z])
  <2>1. CASE <<y, k>> \in {New(p) : p \in W}
    <3>1. PICK j \in wp[z] .. wp[z] + n - 1 : <<y, k>> = <<z, j>>
      BY <2>1, <1>1
    <3> QED BY <3>1, <1>8
  <2> QED BY <1>2, <1>9, <2>1
<1>10. ASSUME NEW k \in Slots, <<z, k>> \in meta_page' PROVE k < wp'[z]
  <2>1. CASE <<z, k>> \in meta_page
    <3>1. wp'[z] = wp[z] + n /\ k < wp[z] /\ k \in Int
      BY <1>0, <2>1 DEF Slots
    <3> QED BY <1>0, <3>1
  <2> QED BY <1>9, <1>10, <2>1
<1>11. ASSUME NEW p \in W PROVE Table[p] \notin meta_page'
  <2>1. Table[p] = NoAddr \/ Table[p] \in meta_page
    BY <1>4, <1>5
  <2> QED BY <1>1, <1>2, <1>4, <1>6, <2>1
<1> QED BY <1>7, <1>9, <1>10, <1>11 DEF W

(* What a step leaves of a zone.                                           *)
Left(y) ==
  /\ cond'[y] = cond[y]
  /\ \A k \in Slots : <<y, k>> \in meta_page' => <<y, k>> \in meta_page

(* Together: a write keeps zones and pages in order, leaves full zones and *)
(* those that stay empty, and kills the addresses it replaces.             *)
LEMMA WriteCore ==
  ASSUME Safe, Core, NEW c, NEW n, NEW pl, NEW vl, Args(c, n, pl, vl), c # -1,
         Write(c, n, pl, vl), Promise(n, pl, vl)
  PROVE  /\ ZoneShape' /\ Reads' /\ Bits'
         /\ \A y \in Zones : cond[y] = "FULL" \/ cond'[y] = "EMPTY" => Left(y)
         /\ \A y \in Zones : inGc[y] /\ cond[y] = "EMPTY" /\ ~ early' =>
              cond'[y] = "EMPTY"
         /\ \A p \in Listed(n, pl) : Table[p] \notin meta_page'
<1>1. PICK z \in Zones : /\ select_write_zone(c, n, z)
                         /\ Accepts(z, n)
                         /\ Place(z, n, pl, vl)
                         /\ early' = (early \/ (Spare(z) /\ inGc[z]))
  BY DEF Write
<1>2. Target(c, n, z) /\ c \in 0 .. ClusterNum - 1 /\ n \in 0 .. Cap
      /\ wp' = [wp EXCEPT ![z] = @ + n]
  BY <1>1, ConstantsOK DEF select_write_zone, Args, Place
<1>3. /\ cond' \in [Zones -> {"EMPTY", "OPEN", "FULL"}]
      /\ wp' \in [Zones -> 0 .. Cap]
      /\ cf' \in [Zones -> -1 .. ClusterNum - 1]
      /\ cond'[z] = "OPEN" /\ cf'[z] = c /\ wp'[z] = wp[z] + n
      /\ \A y \in Zones : y # z =>
           /\ cond[y] = "FULL" => cond'[y] = "FULL"
           /\ cond'[y] = "EMPTY" <=> cond[y] = "EMPTY"
           /\ cf'[y] = cf[y] /\ wp'[y] = wp[y]
  <2>1. c \in -1 .. ClusterNum - 1 /\ Sound
    BY DEF Args, Safe
  <2> QED BY <1>1, <1>2, <2>1, Choose
<1>4. Reads'
  BY <1>1, <1>2, PlaceReads
<1>5. /\ Bits'
      /\ \A y \in Zones : \A k \in Slots : <<y, k>> \in meta_page' =>
           <<y, k>> \in meta_page \/ (y = z /\ k < wp'[z])
      /\ \A k \in Slots : <<z, k>> \in meta_page' => k < wp'[z]
      /\ \A p \in Listed(n, pl) : Table[p] \notin meta_page'
  BY <1>1, <1>2, PlaceBits
<1>6. ASSUME NEW y \in Zones
      PROVE  /\ cond'[y] = "EMPTY" => cf'[y] = -1
             /\ cond'[y] # "EMPTY" => cf'[y] \in 0 .. ClusterNum - 1
             /\ \A k \in Slots : <<y, k>> \in meta_page' => k < wp'[y]
  <2>1. CASE y = z
    BY <1>2, <1>3, <1>5, <2>1
  <2>2. CASE y # z
    BY <1>3, <1>5, <2>2 DEF Core, ZoneShape
  <2> QED BY <2>1, <2>2
<1>7. ZoneShape'
  BY <1>6 DEF ZoneShape, Zones, Slots
<1>8. cond[z] # "FULL"
  BY <1>2 DEF Target, Fits, OpenFor, Spare
<1>9. ASSUME NEW y \in Zones, cond[y] = "FULL" \/ cond'[y] = "EMPTY"
      PROVE  Left(y)
  BY <1>3, <1>5, <1>8, <1>9 DEF Left
<1>10. ASSUME NEW y \in Zones, inGc[y], cond[y] = "EMPTY", ~ early'
       PROVE  cond'[y] = "EMPTY"
  <2>1. CASE y = z
    <3>1. Spare(z)
      BY <1>2, <1>10, <2>1 DEF Target, Fits, OpenFor
    <3> QED BY <1>1, <1>10, <2>1, <3>1
  <2> QED BY <1>3, <1>10, <2>1
<1> QED BY <1>4, <1>5, <1>7, <1>9, <1>10

(* Zones under collection are left as they are.                            *)
LEMMA CollectedLeft ==
  ASSUME Core, NEW y \in Zones, inGc[y],
         \A x \in Zones : cond[x] = "FULL" \/ cond'[x] = "EMPTY" => Left(x),
         \A x \in Zones : inGc[x] /\ cond[x] = "EMPTY" => cond'[x] = "EMPTY"
  PROVE  Left(y)
BY DEF Core, Dead

------------------------------------------------------------------------------
(***************************************************************************)
(* Every step keeps Core, unless it opens a zone early.                    *)
(***************************************************************************)
LEMMA SameCore ==
  ASSUME Core, UNCHANGED <<zoneVars, mapVars, gcVars, promised>>, fault' # "bit"
  PROVE  Core'
<1>1. UNCHANGED <<cond, wp, cf, valid_page, meta_page, Table, dev, inGc, gcPos, promised>>
  BY DEF zoneVars, mapVars, gcVars
<1> QED BY <1>1 DEF Core, ZoneShape, Reads, Bits, Dead, GcIdle, Zones, Slots

LEMMA WriteAbortCore ==
  ASSUME Safe, Core, NEW c, NEW n, NEW pl, NEW vl, Args(c, n, pl, vl),
         WriteAborts(c, n, pl)
  PROVE  Core' /\ UNCHANGED <<zoneVars, mapVars, gcVars, promised, early>>
<1>1. \A z \in Zones : BitsFlip(z, n, pl)
  BY FreshSlots
<1>2. PICK why \in {"no zone", "pwrite"} : Abort(why)
  BY <1>1 DEF WriteAborts
<1>3. UNCHANGED <<zoneVars, mapVars, gcVars, promised, early>> /\ fault' # "bit"
  BY <1>2 DEF Abort
<1> QED BY <1>3, SameCore

(* Foreground calls, whose abort is never that of set_valid.               *)
LEMMA ForegroundCore ==
  ASSUME Safe, Core, NEW c, NEW n, NEW pl, NEW vl, Args(c, n, pl, vl), c # -1,
         Foreground(c, n, pl, vl), ~ early'
  PROVE  /\ Core' /\ inGc' = inGc
         /\ \A y \in Zones : cond[y] = "FULL" \/ cond'[y] = "EMPTY" => Left(y)
<1>1. CASE /\ Write(c, n, pl, vl) /\ Promise(n, pl, vl)
           /\ UNCHANGED <<gcVars, fault>>
  <2>1. inGc' = inGc /\ fault' = fault /\ gcPos' = gcPos
    BY <1>1 DEF gcVars
  <2>2. /\ ZoneShape' /\ Reads' /\ Bits'
        /\ \A y \in Zones : cond[y] = "FULL" \/ cond'[y] = "EMPTY" => Left(y)
        /\ \A y \in Zones : inGc[y] /\ cond[y] = "EMPTY" => cond'[y] = "EMPTY"
    BY <1>1, WriteCore
  <2>3. \A y \in Zones : inGc[y] => Left(y)
    BY <2>2, CollectedLeft
  <2>4. Dead'
    BY <2>1, <2>3 DEF Core, Dead, Left, Zones, Slots
  <2>5. GcIdle' /\ fault' # "bit"
    BY <2>1 DEF Core, GcIdle, Zones
  <2> QED BY <2>1, <2>2, <2>4, <2>5 DEF Core
<1>2. CASE WriteAborts(c, n, pl)
  <2>1. Core' /\ UNCHANGED <<zoneVars, mapVars, gcVars, promised, early>>
    BY <1>2, WriteAbortCore
  <2> QED BY <2>1 DEF Left, zoneVars, mapVars, gcVars
<1> QED BY <1>1, <1>2 DEF Foreground

(* What a background thread reads at a valid slot is the page that lives   *)
(* there with its latest contents, so that writing it back promises        *)
(* nothing new.                                                            *)
LEMMA CopiesLatest ==
  ASSUME Safe, Core, NEW a \in meta_page, promised' = promised
  PROVE  /\ dev[a] \in Pages \X Vals /\ dev[a] # NoData
         /\ dev[a][1] \in Pages /\ dev[a][2] \in Vals
         /\ Table[dev[a][1]] = a
         /\ Promise(1, <<dev[a][1]>>, <<dev[a][2]>>)
<1>1. PICK q \in Pages : Table[q] = a
  BY MapFacts
<1>2. Table[q] # NoAddr
  BY <1>1, MapFacts, ConstantsOK
<1>3. dev[a] = <<q, promised[q]>> /\ promised[q] \in Vals
  BY <1>1, <1>2, MapFacts
<1>4. promised \in [Pages -> Vals \cup {Absent}]
  BY MapFacts
<1> DEFINE pl == <<q>>
           vl == <<promised[q]>>
<1>5. Listed(1, pl) = {q} /\ LastOf(1, pl, q) = 1
  <2>1. pl \in [1 .. 1 -> Pages] /\ Listed(1, pl) = {q}
    BY DEF Listed
  <2>2. LastOf(1, pl, q) \in 1 .. 1
    BY <2>1, LastOccurrence
  <2> QED BY <2>1, <2>2
<1>6. \A p \in Pages : (IF p \in Listed(1, pl) THEN vl[LastOf(1, pl, p)]
                        ELSE promised[p]) = promised[p]
  BY <1>5
<1>7. Promise(1, pl, vl)
  <2>1. promised = [p \in Pages |-> promised[p]]
    BY <1>4
  <2> HIDE DEF pl, vl
  <2> QED BY <2>1, <1>6 DEF Promise
<1> QED BY <1>1, <1>3, <1>4, <1>7, ConstantsOK

(* The copy of a valid page to stream c, by either kind of thread.         *)
LEMMA CopyCore ==
  ASSUME Safe, Core, NEW c \in 0 .. ClusterNum - 1, NEW a \in meta_page,
         Copy(c, a), promised' = promised
  PROVE  /\ ZoneShape' /\ Reads' /\ Bits' /\ a \notin meta_page'
         /\ \A y \in Zones : cond[y] = "FULL" \/ cond'[y] = "EMPTY" => Left(y)
         /\ \A y \in Zones : inGc[y] /\ cond[y] = "EMPTY" /\ ~ early' =>
              cond'[y] = "EMPTY"
<1> DEFINE p == dev[a][1]
           v == dev[a][2]
<1>1. /\ p \in Pages /\ v \in Vals /\ Table[p] = a /\ Promise(1, <<p>>, <<v>>)
      /\ Write(c, 1, <<p>>, <<v>>)
  BY CopiesLatest DEF Copy
<1> HIDE DEF p, v
<1>2. c \in -1 .. ClusterNum - 1 /\ c # -1
  BY ConstantsOK
<1>3. Args(c, 1, <<p>>, <<v>>) /\ p \in Listed(1, <<p>>)
  BY <1>1, <1>2, SinglePage
<1>4. /\ ZoneShape' /\ Reads' /\ Bits'
      /\ \A y \in Zones : cond[y] = "FULL" \/ cond'[y] = "EMPTY" => Left(y)
      /\ \A y \in Zones : inGc[y] /\ cond[y] = "EMPTY" /\ ~ early' =>
           cond'[y] = "EMPTY"
      /\ \A q \in Listed(1, <<p>>) : Table[q] \notin meta_page'
  BY <1>1, <1>2, <1>3, WriteCore
<1> QED BY <1>1, <1>3, <1>4

(* A copy that fails only ends the program.                                *)
LEMMA CopyAbortCore ==
  ASSUME Safe, Core, NEW c \in 0 .. ClusterNum - 1, NEW a \in meta_page,
         CopyAborts(c, a)
  PROVE  Core' /\ UNCHANGED <<zoneVars, mapVars, gcVars, promised, early>>
<1> DEFINE p == dev[a][1]
           v == dev[a][2]
<1>1. promised' = promised
  BY DEF CopyAborts, WriteAborts, Abort
<1>2. p \in Pages /\ v \in Vals /\ WriteAborts(c, 1, <<p>>)
  BY <1>1, CopiesLatest DEF CopyAborts
<1> HIDE DEF p, v
<1>3. c \in -1 .. ClusterNum - 1
  BY ConstantsOK
<1>4. Args(c, 1, <<p>>, <<v>>)
  BY <1>2, <1>3, SinglePage
<1> QED BY <1>2, <1>4, WriteAbortCore

------------------------------------------------------------------------------
(***************************************************************************)
(* The steps of a collector.                                               *)
(***************************************************************************)
LEMMA DetectCore ==
  ASSUME Core, garbage_collection_detect
  PROVE  Core'
<1>1. /\ inGc' = [z \in Zones |-> inGc[z] \/ Collectable(z)]
      /\ UNCHANGED <<cond, wp, cf, valid_page, meta_page, Table, dev, gcPos,
                     fault, promised>>
  BY DEF garbage_collection_detect, zoneVars, mapVars
<1>2. ASSUME NEW z \in Zones, inGc'[z], ~ inGc[z]
      PROVE  cond[z] = "FULL" /\ gcPos[z] = -1
  BY <1>1, <1>2 DEF Collectable, Core, GcIdle
<1>3. ASSUME NEW z \in Zones, inGc'[z]
      PROVE  /\ cond[z] = IF gcPos[z] <= Cap THEN "FULL" ELSE "EMPTY"
             /\ \A k \in Slots : k < gcPos[z] => <<z, k>> \notin meta_page
  <2>1. CASE inGc[z]
    BY <2>1 DEF Core, Dead
  <2>2. CASE ~ inGc[z]
    <3>1. cond[z] = "FULL" /\ gcPos[z] = -1
      BY <1>2, <1>3, <2>2
    <3>2. -1 <= Cap /\ \A k \in Slots : ~ (k < -1)
      BY ConstantsOK DEF Slots
    <3> QED BY <3>1, <3>2
  <2> QED BY <2>1, <2>2
<1>4. Dead'
  BY <1>1, <1>3 DEF Dead, Zones, Slots
<1>5. GcIdle'
  BY <1>1 DEF Core, GcIdle, Zones
<1> QED BY <1>1, <1>4, <1>5 DEF Core, ZoneShape, Reads, Bits, Zones, Slots

LEMMA GcStartCore ==
  ASSUME Safe, Core, NEW z \in Zones, GcStart(z)
  PROVE  Core'
<1>1. /\ gcPos[z] = -1 /\ gcPos' = [gcPos EXCEPT ![z] = 0] /\ inGc[z]
      /\ UNCHANGED <<cond, wp, cf, valid_page, meta_page, Table, dev, inGc,
                     fault, promised>>
  BY DEF GcStart, zoneVars, mapVars
<1>2. gcPos \in [Zones -> -1 .. Cap + 2] /\ Cap \in Nat
  BY ConstantsOK DEF Safe, Aside
<1>3. \A y \in Zones : y # z => gcPos'[y] = gcPos[y]
  BY <1>1, <1>2
<1>4. gcPos'[z] = 0
  BY <1>1, <1>2
<1>5. ASSUME NEW y \in Zones, inGc[y]
      PROVE  /\ cond[y] = IF gcPos'[y] <= Cap THEN "FULL" ELSE "EMPTY"
             /\ \A k \in Slots : k < gcPos'[y] => <<y, k>> \notin meta_page
  <2>1. CASE y # z
    BY <1>3, <1>5, <2>1 DEF Core, Dead
  <2>2. CASE y = z
    <3>1. -1 <= Cap /\ 0 <= Cap /\ \A k \in Slots : ~ (k < 0)
      BY <1>2 DEF Slots
    <3>2. cond[z] = "FULL"
      BY <1>1, <3>1 DEF Core, Dead
    <3> QED BY <1>4, <2>2, <3>1, <3>2
  <2> QED BY <2>1, <2>2
<1>6. Dead'
  BY <1>1, <1>5 DEF Dead, Zones, Slots
<1>7. GcIdle'
  BY <1>1, <1>3 DEF Core, GcIdle, Zones
<1> QED BY <1>1, <1>6, <1>7 DEF Core, ZoneShape, Reads, Bits, Zones, Slots

(* One turn of the scan: the page goes to another zone, its bit with it.   *)
LEMMA GcPageCore ==
  ASSUME Safe, Core, NEW z \in Zones, GcPage(z), ~ early'
  PROVE  /\ Core' /\ inGc' = inGc
         /\ \A y \in Zones : cond[y] = "FULL" \/ cond'[y] = "EMPTY" => Left(y)
<1> DEFINE a == GcAt(z)
<1>1. inGc[z] /\ gcPos[z] \in Slots /\ a = <<z, gcPos[z]>>
  BY DEF GcPage, GcAt
<1>2. /\ gcPos \in [Zones -> -1 .. Cap + 2] /\ Cap \in Nat
      /\ cond[z] = "FULL" /\ cf[z] \in 0 .. ClusterNum - 1
  <2>1. gcPos \in [Zones -> -1 .. Cap + 2] /\ Cap \in Nat
    BY ConstantsOK DEF Safe, Aside
  <2>2. gcPos[z] <= Cap
    BY <1>1, <2>1 DEF Slots
  <2>3. cond[z] = "FULL"
    BY <1>1, <2>2 DEF Core, Dead
  <2> QED BY <2>1, <2>3 DEF Core, ZoneShape
<1> HIDE DEF a
<1>3. ASSUME Advance(z), inGc' = inGc, fault' = fault, a \notin meta_page',
             ZoneShape', Reads', Bits',
             \A y \in Zones : cond[y] = "FULL" \/ cond'[y] = "EMPTY" => Left(y),
             \A y \in Zones : inGc[y] => Left(y)
      PROVE  Core'
  <2>1. /\ \A y \in Zones : y # z => gcPos'[y] = gcPos[y]
        /\ gcPos'[z] = gcPos[z] + 1
    BY <1>2, <1>3 DEF Advance
  <2>2. ASSUME NEW y \in Zones, inGc[y]
        PROVE  /\ cond'[y] = IF gcPos'[y] <= Cap THEN "FULL" ELSE "EMPTY"
               /\ \A k \in Slots : k < gcPos'[y] => <<y, k>> \notin meta_page'
    <3>1. Left(y)
      BY <1>3, <2>2
    <3>2. CASE y # z
      BY <2>1, <2>2, <3>1, <3>2 DEF Core, Dead, Left
    <3>3. CASE y = z
      <4>1. gcPos'[z] <= Cap
        BY <1>1, <1>2, <2>1 DEF Slots
      <4>2. ASSUME NEW k \in Slots, k < gcPos'[z] PROVE <<z, k>> \notin meta_page'
        <5>1. k = gcPos[z] \/ k < gcPos[z]
          BY <1>1, <2>1, <4>2 DEF Slots
        <5>2. k < gcPos[z] => <<z, k>> \notin meta_page
          BY <1>1 DEF Core, Dead
        <5> QED BY <1>1, <1>3, <3>1, <3>3, <5>1, <5>2 DEF Left
      <4> QED BY <1>2, <3>1, <3>3, <4>1, <4>2 DEF Left
    <3> QED BY <3>2, <3>3
  <2>3. Dead'
    BY <1>3, <2>2 DEF Dead, Zones, Slots
  <2>4. GcIdle' /\ fault' # "bit"
    BY <1>1, <1>3, <2>1 DEF Core, GcIdle, Zones
  <2> QED BY <1>3, <2>3, <2>4 DEF Core
<1>4. CASE /\ a \in meta_page /\ Copy(cf[z], a) /\ Advance(z)
           /\ UNCHANGED <<inGc, Gc, fault, promised>>
  <2>1. /\ ZoneShape' /\ Reads' /\ Bits' /\ a \notin meta_page'
        /\ \A y \in Zones : cond[y] = "FULL" \/ cond'[y] = "EMPTY" => Left(y)
        /\ \A y \in Zones : inGc[y] /\ cond[y] = "EMPTY" => cond'[y] = "EMPTY"
    BY <1>2, <1>4, CopyCore
  <2>2. \A y \in Zones : inGc[y] => Left(y)
    BY <2>1, CollectedLeft
  <2> QED BY <1>3, <1>4, <2>1, <2>2
<1>5. CASE a \in meta_page /\ CopyAborts(cf[z], a)
  <2>1. Core' /\ UNCHANGED <<zoneVars, mapVars, gcVars, promised, early>>
    BY <1>2, <1>5, CopyAbortCore
  <2> QED BY <2>1 DEF Left, zoneVars, mapVars, gcVars
<1>6. CASE /\ a \notin meta_page /\ Advance(z)
           /\ UNCHANGED <<zoneVars, mapVars, inGc, Gc, fault, promised, early>>
  <2>1. UNCHANGED <<cond, wp, cf, valid_page, meta_page, Table, dev>>
    BY <1>6 DEF zoneVars, mapVars
  <2>2. \A y \in Zones : Left(y)
    BY <2>1 DEF Left
  <2>3. ZoneShape' /\ Reads' /\ Bits' /\ a \notin meta_page'
    BY <1>6, <2>1 DEF Core, ZoneShape, Reads, Bits, Zones, Slots
  <2> QED BY <1>3, <1>6, <2>2, <2>3
<1> QED BY <1>4, <1>5, <1>6 DEF GcPage, a

(* A zone none of whose slots is valid loses nothing when it is reset...   *)
NoBits(z) == \A k \in Slots : <<z, k>> \notin meta_page

LEMMA EmptiedCore ==
  ASSUME Safe, Core, NEW z \in Zones, NoBits(z), Emptied(z), promised' = promised
  PROVE  ZoneShape' /\ Reads' /\ Bits' /\ \A y \in Zones : y # z => Left(y)
<1>1. /\ cond' = [cond EXCEPT ![z] = "EMPTY"] /\ cf' = [cf EXCEPT ![z] = -1]
      /\ dev' = [a \in Addr |-> IF a[1] = z THEN NoData ELSE dev[a]]
      /\ wp' = wp /\ meta_page' = meta_page /\ Table' = Table
  BY DEF Emptied, reset_zone
<1>2. cond \in [Zones -> {"EMPTY", "OPEN", "FULL"}]
      /\ cf \in [Zones -> -1 .. ClusterNum - 1]
  BY DEF Safe, Sound
<1>3. /\ \A y \in Zones : y # z => cond'[y] = cond[y] /\ cf'[y] = cf[y]
      /\ cond'[z] = "EMPTY" /\ cf'[z] = -1
  BY <1>1, <1>2
<1>4. ZoneShape'
  BY <1>1, <1>3 DEF Core, ZoneShape, Zones, Slots
<1>5. ASSUME NEW p \in Pages, Table[p] # NoAddr
      PROVE  dev'[Table[p]] = <<p, promised[p]>>
  <2>1. /\ Table[p] \in meta_page /\ Table[p] \in Addr
        /\ dev[Table[p]] = <<p, promised[p]>>
    BY <1>5, MapFacts
  <2>2. Table[p][1] # z
    BY <2>1 DEF Addr, NoBits
  <2> QED BY <1>1, <2>1, <2>2
<1>6. Reads'
  BY <1>1, <1>5 DEF Reads
<1>7. Bits'
  BY <1>1 DEF Core, Bits
<1> QED BY <1>1, <1>3, <1>4, <1>6, <1>7 DEF Left

(* ... nor when its write pointer is taken back...                         *)
LEMMA RewoundCore ==
  ASSUME Safe, Core, NEW z \in Zones, NoBits(z), rewind(z),
         UNCHANGED <<cond, cf, mapVars, promised>>
  PROVE  ZoneShape' /\ Reads' /\ Bits' /\ \A y \in Zones : Left(y)
<1>1. /\ \A y \in Zones : y # z => wp'[y] = wp[y]
      /\ UNCHANGED <<cond, cf, meta_page, Table, dev, promised>>
  BY DEF rewind, mapVars, Safe, Sound
<1>2. ZoneShape'
  <2>1. ASSUME NEW y \in Zones, NEW k \in Slots, <<y, k>> \in meta_page
        PROVE  k < wp'[y]
    <3>1. y # z
      BY <2>1 DEF NoBits
    <3> QED BY <1>1, <2>1, <3>1 DEF Core, ZoneShape
  <2> QED BY <1>1, <2>1 DEF Core, ZoneShape, Zones, Slots
<1> QED BY <1>1, <1>2 DEF Core, Reads, Bits, Left

(* ... and clear_bits finds nothing to clear.                              *)
LEMMA SweptCore ==
  ASSUME Safe, Core, NEW z \in Zones, NoBits(z), clear_bits(z),
         UNCHANGED <<zoneVars, Table, dev, promised>>
  PROVE  /\ ZoneShape' /\ Reads' /\ Bits' /\ meta_page' = meta_page
         /\ \A y \in Zones : Left(y)
<1>1. meta_page' = meta_page
  BY DEF clear_bits, NoBits, SlotsOf
<1>2. UNCHANGED <<cond, wp, cf, Table, dev, promised>>
  BY DEF zoneVars
<1> QED BY <1>1, <1>2 DEF Core, ZoneShape, Reads, Bits, Left, Zones, Slots

(* The reset, the rewind and the sweep of a collected zone.                *)
LEMMA GcBackCore ==
  ASSUME Safe, Core, NEW z \in Zones, GcReset(z) \/ GcRewind(z) \/ GcSweep(z)
  PROVE  /\ Core' /\ \A y \in Zones : inGc'[y] => inGc[y]
         /\ \A y \in Zones : y # z => Left(y)
<1>1. /\ gcPos \in [Zones -> -1 .. Cap + 2] /\ inGc \in [Zones -> BOOLEAN]
      /\ cond \in [Zones -> {"EMPTY", "OPEN", "FULL"}] /\ Cap \in Nat
  BY ConstantsOK DEF Safe, Aside, Sound
<1>2. inGc[z] /\ gcPos[z] \in {Cap, Cap + 1, Cap + 2}
  BY DEF GcReset, GcRewind, GcSweep
<1>3. NoBits(z)
  <2>1. \A k \in Slots : k < gcPos[z]
    BY <1>1, <1>2 DEF Slots
  <2> QED BY <1>2, <2>1 DEF Core, Dead, NoBits
<1>4. ASSUME ZoneShape', Reads', Bits', fault' = fault, inGc' = inGc, Advance(z),
             NoBits(z)', \A y \in Zones : y # z => Left(y),
             cond'[z] = "EMPTY", gcPos'[z] > Cap
      PROVE  Core' /\ \A y \in Zones : inGc'[y] => inGc[y]
  <2>1. \A y \in Zones : y # z => gcPos'[y] = gcPos[y]
    BY <1>1, <1>4 DEF Advance
  <2>2. ASSUME NEW y \in Zones, inGc[y]
        PROVE  /\ cond'[y] = IF gcPos'[y] <= Cap THEN "FULL" ELSE "EMPTY"
               /\ \A k \in Slots : k < gcPos'[y] => <<y, k>> \notin meta_page'
    <3>1. CASE y # z
      BY <1>4, <2>1, <2>2, <3>1 DEF Core, Dead, Left
    <3>2. CASE y = z
      <4>1. ~ (gcPos'[z] <= Cap)
        <5>1. gcPos'[z] = gcPos[z] + 1
          BY <1>1, <1>4 DEF Advance
        <5> QED BY <1>1, <1>4, <5>1
      <4> QED BY <1>4, <3>2, <4>1 DEF NoBits, Slots
    <3> QED BY <3>1, <3>2
  <2>3. Dead'
    BY <1>4, <2>2 DEF Dead, Zones, Slots
  <2>4. GcIdle' /\ fault' # "bit"
    BY <1>2, <1>4, <2>1 DEF Core, GcIdle, Zones
  <2> QED BY <1>4, <2>3, <2>4 DEF Core
<1>5. CASE GcReset(z)
  <2>1. /\ Emptied(z) /\ Advance(z) /\ gcPos[z] = Cap
        /\ UNCHANGED <<meta_page, inGc, fault, promised>>
    BY <1>5 DEF GcReset, Emptied
  <2>2. ZoneShape' /\ Reads' /\ Bits' /\ \A y \in Zones : y # z => Left(y)
    BY <1>3, <2>1, EmptiedCore
  <2>3. cond'[z] = "EMPTY" /\ gcPos'[z] > Cap
    BY <1>1, <2>1 DEF Emptied, Advance
  <2>4. NoBits(z)'
    BY <1>3, <2>1 DEF NoBits, Slots
  <2> QED BY <1>4, <2>1, <2>2, <2>3, <2>4
<1>6. CASE GcRewind(z)
  <2>1. /\ rewind(z) /\ Advance(z) /\ gcPos[z] = Cap + 1
        /\ UNCHANGED <<cond, cf, mapVars, inGc, fault, promised>>
    BY <1>6 DEF GcRewind
  <2>2. ZoneShape' /\ Reads' /\ Bits' /\ \A y \in Zones : Left(y)
    BY <1>3, <2>1, RewoundCore
  <2>3. cond'[z] = "EMPTY" /\ gcPos'[z] > Cap
    <3>1. ~ (gcPos[z] <= Cap) /\ gcPos'[z] = gcPos[z] + 1
      BY <1>1, <2>1 DEF Advance
    <3>2. cond[z] = "EMPTY"
      BY <1>2, <3>1 DEF Core, Dead
    <3> QED BY <1>1, <2>1, <3>1, <3>2
  <2>4. NoBits(z)'
    BY <1>3, <2>1 DEF NoBits, Slots, mapVars
  <2> QED BY <1>4, <2>1, <2>2, <2>3, <2>4
<1>7. CASE GcSweep(z)
  <2>1. /\ clear_bits(z) /\ inGc' = [inGc EXCEPT ![z] = FALSE]
        /\ gcPos' = [gcPos EXCEPT ![z] = -1]
        /\ UNCHANGED <<zoneVars, Table, dev, fault, promised>>
    BY <1>7 DEF GcSweep
  <2>2. /\ ZoneShape' /\ Reads' /\ Bits' /\ meta_page' = meta_page
        /\ \A y \in Zones : Left(y)
    BY <1>3, <2>1, SweptCore
  <2>3. /\ \A y \in Zones : y # z => gcPos'[y] = gcPos[y] /\ inGc'[y] = inGc[y]
        /\ gcPos'[z] = -1 /\ ~ inGc'[z]
    BY <1>1, <2>1
  <2>4. cond' = cond
    BY <2>1 DEF zoneVars
  <2>5. Dead' /\ GcIdle' /\ fault' # "bit"
    BY <2>1, <2>2, <2>3, <2>4 DEF Core, Dead, GcIdle, Zones, Slots
  <2> QED BY <2>2, <2>3, <2>5 DEF Core
<1> QED BY <1>5, <1>6, <1>7

(* What a step of a collector does for zones that are not collected.       *)
LEMMA CollectorCore ==
  ASSUME Safe, Core, NEW z \in Zones, Collector(z), ~ early'
  PROVE  /\ Core'
         /\ \A y \in Zones : ~ inGc[y] /\ (cond[y] = "FULL" \/ cond'[y] = "EMPTY")
              => ~ inGc'[y] /\ Left(y)
<1>1. CASE GcStart(z)
  <2>1. UNCHANGED <<cond, meta_page, inGc>>
    BY <1>1 DEF GcStart, zoneVars, mapVars
  <2> QED BY <1>1, <2>1, GcStartCore DEF Left
<1>2. CASE GcPage(z)
  BY <1>2, GcPageCore
<1>3. CASE GcReset(z) \/ GcRewind(z) \/ GcSweep(z)
  <2>1. inGc[z]
    BY <1>3 DEF GcReset, GcRewind, GcSweep
  <2> QED BY <1>3, <2>1, GcBackCore
<1> QED BY <1>1, <1>2, <1>3 DEF Collector

------------------------------------------------------------------------------
(***************************************************************************)
(* The invariant is inductive.                                             *)
(***************************************************************************)
(* early stays set.                                                        *)
LEMMA CollectorEarly == ASSUME NEW z, Collector(z), ~ early' PROVE ~ early
BY DEF Collector, GcStart, GcPage, Copy, Write, CopyAborts, WriteAborts, Abort,
       GcReset, GcRewind, GcSweep

LEMMA ForegroundIInv ==
  ASSUME IInv, NEW c, NEW n, NEW pl, NEW vl, Args(c, n, pl, vl), c # -1,
         Foreground(c, n, pl, vl)
  PROVE  IInv'
<1>1. ~ early' => ~ early
  BY DEF Foreground, Write, WriteAborts, Abort
<1> QED BY <1>1, ForegroundSafe, ForegroundCore DEF IInv

(* The foreground calls, each with arguments of which ForegroundIInv holds.*)
LEMMA CallerArgs ==
  ASSUME IInv, Caller
  PROVE  \/ garbage_collection_detect
         \/ \E c \in 0 .. ClusterNum - 1, n \in 0 .. MaxCluster :
              \E pl \in [1 .. n -> Pages], vl \in [1 .. n -> Vals] :
                /\ Args(c, n, pl, vl) /\ Foreground(c, n, pl, vl) /\ Running
                /\ \/ n = 1 /\ \A i \in 1 .. n : Table[pl[i]] = NoAddr
                   \/ \A i \in 1 .. n : Table[pl[i]] # NoAddr
<1> DEFINE Goal(c, n, pl, vl) ==
             /\ Args(c, n, pl, vl) /\ Foreground(c, n, pl, vl) /\ Running
             /\ \/ n = 1 /\ \A i \in 1 .. n : Table[pl[i]] = NoAddr
                \/ \A i \in 1 .. n : Table[pl[i]] # NoAddr
<1> USE ConstantsOK
<1>1. ASSUME NEW c \in 0 .. ClusterNum - 1, NEW p \in Pages, NEW v \in Vals,
             Running, Foreground(c, 1, <<p>>, <<v>>)
      PROVE  /\ Goal(c, 1, <<p>>, <<v>>) /\ 1 \in 0 .. MaxCluster
             /\ <<p>> \in [1 .. 1 -> Pages] /\ <<v>> \in [1 .. 1 -> Vals]
  <2>1. c \in -1 .. ClusterNum - 1 /\ 1 \in 0 .. MaxCluster
    OBVIOUS
  <2>2. \A i \in 1 .. 1 : <<p>>[i] = p
    OBVIOUS
  <2>3. <<p>> \in [1 .. 1 -> Pages] /\ <<v>> \in [1 .. 1 -> Vals]
    OBVIOUS
  <2> QED BY <1>1, <2>1, <2>2, <2>3, SinglePage
<1>2. ASSUME NEW c \in 0 .. ClusterNum - 1, NEW n \in 0 .. MaxCluster,
             NEW pl \in [1 .. n -> Pages], NEW vl \in [1 .. n -> Vals],
             early => n <= 1, write_cluster(c, n, pl, vl)
      PROVE  Goal(c, n, pl, vl)
  <2>1. Args(c, n, pl, vl)
    <3>1. c \in -1 .. ClusterNum - 1 /\ n \in 0 .. Cap
      OBVIOUS
    <3>2. CASE early
      <4>1. n \in 0 .. 1
        BY <1>2, <3>2
      <4> QED BY <3>1, <4>1, OnePage
    <3>3. CASE ~ early
      <4>1. Listed(n, pl) \in SUBSET Pages
        BY DEF Listed
      <4> QED BY <3>1, <3>3, <4>1, AllDistinct DEF Args, IInv
    <3> QED BY <3>2, <3>3
  <2> QED BY <1>2, <2>1 DEF write_cluster
<1>3. 0 \in 0 .. ClusterNum - 1
  OBVIOUS
<1>4. ASSUME NEW p \in Pages, NEW v \in Vals, create_new_page(p, v)
      PROVE  Goal(0, 1, <<p>>, <<v>>) /\ 1 \in 0 .. MaxCluster
             /\ <<p>> \in [1 .. 1 -> Pages] /\ <<v>> \in [1 .. 1 -> Vals]
  BY <1>1, <1>3, <1>4 DEF create_new_page
<1>5. ASSUME NEW c \in 0 .. ClusterNum - 1, NEW p \in Pages, NEW v \in Vals,
             write_page(c, p, v)
      PROVE  Goal(c, 1, <<p>>, <<v>>) /\ 1 \in 0 .. MaxCluster
             /\ <<p>> \in [1 .. 1 -> Pages] /\ <<v>> \in [1 .. 1 -> Vals]
  BY <1>1, <1>5 DEF write_page
<1> HIDE DEF Goal
<1> DEFINE Some == \E c \in 0 .. ClusterNum - 1, n \in 0 .. MaxCluster :
                     \E pl \in [1 .. n -> Pages], vl \in [1 .. n -> Vals] :
                       Goal(c, n, pl, vl)
<1>6. ASSUME NEW p \in Pages, NEW v \in Vals, create_new_page(p, v) PROVE Some
  BY <1>3, <1>4, <1>6
<1>7. ASSUME NEW c \in 0 .. ClusterNum - 1, NEW p \in Pages, NEW v \in Vals,
             write_page(c, p, v)
      PROVE  Some
  BY <1>5, <1>7
<1>8. ASSUME NEW c \in 0 .. ClusterNum - 1, NEW n \in 0 .. MaxCluster,
             NEW pl \in [1 .. n -> Pages], NEW vl \in [1 .. n -> Vals],
             early => n <= 1, write_cluster(c, n, pl, vl)
      PROVE  Some
  BY <1>2, <1>8
<1>9. garbage_collection_detect \/ Some
  <2> HIDE DEF Some
  <2> QED BY <1>6, <1>7, <1>8 DEF Caller
<1> QED BY <1>9 DEF Goal

LEMMA NextIInv == IInv /\ [Next]_vars => IInv'
<1> SUFFICES ASSUME IInv, [Next]_vars PROVE IInv'
  OBVIOUS
<1>1. CASE Caller
  <2>1. CASE garbage_collection_detect
    <3>1. early' = early
      BY <2>1 DEF garbage_collection_detect
    <3> QED BY <2>1, <3>1, DetectSafe, DetectCore DEF IInv
  <2>2. ASSUME NEW c \in 0 .. ClusterNum - 1, NEW n, NEW pl, NEW vl,
               Args(c, n, pl, vl), Foreground(c, n, pl, vl)
        PROVE  IInv'
    <3>1. c # -1
      BY ConstantsOK
    <3> QED BY <2>2, <3>1, ForegroundIInv
  <2> QED BY <1>1, <2>1, <2>2, CallerArgs
<1>2. ASSUME NEW z \in Zones, Collector(z) PROVE IInv'
  BY <1>2, CollectorSafe, CollectorCore, CollectorEarly DEF IInv
<1>3. CASE UNCHANGED vars
  <2>1. UNCHANGED <<zoneVars, mapVars, gcVars, fault, promised, early>>
    BY <1>3 DEF vars
  <2>2. Safe'
    <3>1. Aside' /\ FaultType'
      BY <2>1 DEF IInv, Safe, Aside, FaultType, gcVars, Zones
    <3> QED BY <2>1, <3>1, SameSafe DEF IInv
  <2>3. ~ early' => Core'
    BY <2>1, SameCore DEF IInv, Core
  <2> QED BY <2>2, <2>3 DEF IInv
<1> QED BY <1>1, <1>2, <1>3 DEF Next

------------------------------------------------------------------------------
(***************************************************************************)
(* The theorems.                                                           *)
(***************************************************************************)
(* The inductive invariant holds in every behaviour of the controller.     *)
THEOREM SpecIInv == Spec => []IInv
<1>1. Init => IInv
  BY InitIInv
<1>2. IInv /\ [Next]_vars => IInv'
  BY NextIInv
<1> QED BY <1>1, <1>2, PTL DEF Spec

(* Type correctness: in particular no zone is filled past its capacity and *)
(* no valid_page counter goes below zero or above the pages of a zone,     *)
(* whether or not a zone was opened early.                                 *)
THEOREM SpecTypeOK == Spec => []TypeOK
<1>1. IInv => TypeOK
  BY TypeParts DEF IInv, Safe, Sound
<1> QED BY <1>1, SpecIInv, PTL

(* The counter of a zone is the number of its valid pages, whether or not  *)
(* a zone was opened early.                                                *)
THEOREM SpecValidCount == Spec => []ValidCount
<1>1. IInv => ValidCount
  BY DEF IInv, Safe, Sound
<1> QED BY <1>1, SpecIInv, PTL

(* Before a zone is opened early, read_page returns the page asked for,    *)
(* with the contents of its latest write, whatever the collectors have     *)
(* moved meanwhile.                                                        *)
THEOREM SpecReadsLatest == Spec => []ReadsLatest
<1>1. IInv => ReadsLatest
  BY DEF IInv, Core, Reads, ReadsLatest, read_page
<1> QED BY <1>1, SpecIInv, PTL

(* Before a zone is opened early, the validity bitmap and the page table   *)
(* agree.                                                                  *)
THEOREM SpecBitsMatchTable == Spec => []BitsMatchTable
<1>1. IInv => BitsMatchTable
  BY DEF IInv, Core, Bits, BitsMatchTable
<1> QED BY <1>1, SpecIInv, PTL

(* Before a zone is opened early, what a collector has passed is dead, so  *)
(* that its reset loses no page.                                           *)
THEOREM SpecCollectedIsDead == Spec => []CollectedIsDead
<1>1. IInv => CollectedIsDead
  BY DEF IInv, Core, Dead, CollectedIsDead
<1> QED BY <1>1, SpecIInv, PTL

------------------------------------------------------------------------------
(***************************************************************************)
(* The write pointers.  The invariant above and the agreement of the       *)
(* pointers before a step give their agreement after it: a write is taken  *)
(* only where they agree.                                                  *)
(***************************************************************************)
LEMMA PlacedAt ==
  ASSUME Sound, NEW c, NEW n, NEW pl, NEW vl, Args(c, n, pl, vl),
         NEW z \in Zones, Target(c, n, z), Accepts(z, n), Place(z, n, pl, vl)
  PROVE  \A y \in Zones : \A k \in Slots :
           IF y = z /\ k \in wp[z] .. wp[z] + n - 1
           THEN dev'[<<y, k>>] \in Listed(n, pl) \X Vals
           ELSE dev'[<<y, k>>] = dev[<<y, k>>]
<1> DEFINE W == Listed(n, pl)
<1>1. /\ \A p \in W : NewAddr(z, n, pl, p) \in Addr
      /\ \A y \in Zones : \A k \in Slots :
           IF y = z /\ k \in wp[z] .. wp[z] + n - 1
           THEN dev'[<<y, k>>] \in W \X Vals
           ELSE dev'[<<y, k>>] = dev[<<y, k>>]
  BY Placed
<1> QED BY <1>1

LEMMA PlacePointers ==
  ASSUME Sound, NEW c, NEW n, NEW pl, NEW vl, Args(c, n, pl, vl),
         NEW z \in Zones, Target(c, n, z), Accepts(z, n), Place(z, n, pl, vl),
         NEW x \in Zones, AtPointer(x)
  PROVE  AtPointer(x)'
<1>2. /\ wp' = [wp EXCEPT ![z] = @ + n]
      /\ wp \in [Zones -> 0 .. Cap] /\ n \in 0 .. Cap /\ Cap \in Nat
  BY ConstantsOK DEF Place, Sound, Args
<1>3. \A k \in Slots :
        IF x = z /\ k \in wp[z] .. wp[z] + n - 1
        THEN dev'[<<x, k>>] \in Listed(n, pl) \X Vals
        ELSE dev'[<<x, k>>] = dev[<<x, k>>]
  BY PlacedAt
<1>4. ASSUME NEW k \in Slots
      PROVE  dev'[<<x, k>>] # NoData <=> k < wp'[x]
  <2>1. (dev[<<x, k>>] # NoData <=> k < wp[x]) /\ k \in Nat
    BY DEF AtPointer, Slots
  <2>2. CASE x = z /\ k \in wp[z] .. wp[z] + n - 1
    <3>1. Listed(n, pl) \X Vals \subseteq Pages \X Vals
      BY DEF Listed, Args
    <3>2. dev'[<<x, k>>] # NoData
      BY <1>3, <2>2, <3>1, ConstantsOK
    <3>3. k < wp'[x]
      BY <1>2, <2>2
    <3> QED BY <3>2, <3>3
  <2>3. CASE ~ (x = z /\ k \in wp[z] .. wp[z] + n - 1)
    <3>1. dev'[<<x, k>>] = dev[<<x, k>>]
      BY <1>3, <2>3
    <3>2. k < wp'[x] <=> k < wp[x]
      BY <1>2, <2>1, <2>3
    <3> QED BY <2>1, <3>1, <3>2
  <2> QED BY <2>2, <2>3
<1> QED BY <1>4 DEF AtPointer, Slots

LEMMA WritePointers ==
  ASSUME Safe, NEW c, NEW n, NEW pl, NEW vl, Args(c, n, pl, vl),
         Write(c, n, pl, vl), NEW x \in Zones, AtPointer(x)
  PROVE  AtPointer(x)'
<1>1. PICK z \in Zones : Target(c, n, z) /\ Accepts(z, n) /\ Place(z, n, pl, vl)
  BY DEF Write, select_write_zone
<1>2. Sound
  BY DEF Safe
<1> QED BY <1>1, <1>2, PlacePointers

(* The inductive part.                                                     *)
Pointers == \A z \in Zones : gcPos[z] # Cap + 1 => AtPointer(z)

LEMMA WriteAgrees ==
  ASSUME Safe, Pointers, NEW c, NEW n, NEW pl, NEW vl, Args(c, n, pl, vl),
         Write(c, n, pl, vl),
         \A y \in Zones : gcPos'[y] = Cap + 1 <=> gcPos[y] = Cap + 1
  PROVE  Pointers'
<1>1. ASSUME NEW y \in Zones, gcPos[y] # Cap + 1 PROVE AtPointer(y)'
  BY <1>1, WritePointers DEF Pointers
<1> QED BY <1>1 DEF Pointers, Zones

LEMMA SameAgrees ==
  ASSUME Pointers, UNCHANGED <<wp, dev>>,
         \A y \in Zones : gcPos'[y] = Cap + 1 <=> gcPos[y] = Cap + 1
  PROVE  Pointers'
BY DEF Pointers, AtPointer, Zones, Slots

LEMMA AbortAgrees ==
  ASSUME Pointers, NEW why, Abort(why)
  PROVE  Pointers'
BY SameAgrees DEF Abort, zoneVars, mapVars, gcVars

LEMMA CallerAgrees ==
  ASSUME IInv, Pointers, Caller
  PROVE  Pointers'
<1>1. CASE garbage_collection_detect
  BY <1>1, SameAgrees DEF garbage_collection_detect, zoneVars, mapVars
<1>2. ASSUME NEW c, NEW n, NEW pl, NEW vl, Args(c, n, pl, vl),
             Foreground(c, n, pl, vl)
      PROVE  Pointers'
  <2>1. CASE Write(c, n, pl, vl) /\ UNCHANGED <<gcVars, fault>>
    <3>1. gcPos' = gcPos
      BY <2>1 DEF gcVars
    <3> QED BY <1>2, <2>1, <3>1, WriteAgrees DEF IInv
  <2>2. CASE WriteAborts(c, n, pl)
    BY <2>2, AbortAgrees DEF WriteAborts
  <2> QED BY <1>2, <2>1, <2>2 DEF Foreground
<1> QED BY <1>1, <1>2, CallerArgs

LEMMA CollectorAgrees ==
  ASSUME IInv, ~ early, Pointers, NEW z \in Zones, Collector(z)
  PROVE  Pointers'
<1>0. /\ gcPos \in [Zones -> -1 .. Cap + 2] /\ Cap \in Nat
      /\ wp \in [Zones -> 0 .. Cap] /\ Safe /\ Core
  BY ConstantsOK DEF IInv, Safe, Aside, Sound
<1>1. ASSUME Advance(z), gcPos[z] \in Slots
      PROVE  \A y \in Zones : gcPos'[y] = Cap + 1 <=> gcPos[y] = Cap + 1
  BY <1>0, <1>1 DEF Advance, Slots
<1>2. CASE GcStart(z)
  <2>1. \A y \in Zones : gcPos'[y] = Cap + 1 <=> gcPos[y] = Cap + 1
    BY <1>0, <1>2 DEF GcStart
  <2> QED BY <1>2, <2>1, SameAgrees DEF GcStart, zoneVars, mapVars
<1>3. CASE GcPage(z)
  <2> DEFINE a == GcAt(z)
  <2>1. gcPos[z] \in Slots
    BY <1>3 DEF GcPage
  <2>2. CASE Copy(cf[z], a) /\ Advance(z)
    <3> DEFINE p == dev[a][1]
               v == dev[a][2]
    <3>1. /\ p \in Pages /\ v \in Vals /\ cf[z] \in -1 .. ClusterNum - 1
          /\ Write(cf[z], 1, <<p>>, <<v>>)
      BY <1>0, <2>1, <2>2 DEF Copy, GcAt, Addr, Safe, Sound
    <3> HIDE DEF p, v
    <3>2. Args(cf[z], 1, <<p>>, <<v>>)
      BY <3>1, SinglePage
    <3>3. \A y \in Zones : gcPos'[y] = Cap + 1 <=> gcPos[y] = Cap + 1
      BY <1>1, <2>1, <2>2
    <3> QED BY <1>0, <3>1, <3>2, <3>3, WriteAgrees
  <2>3. CASE CopyAborts(cf[z], a)
    BY <2>3, AbortAgrees DEF CopyAborts, WriteAborts
  <2>4. CASE Advance(z) /\ UNCHANGED <<zoneVars, mapVars>>
    BY <1>1, <2>1, <2>4, SameAgrees DEF zoneVars, mapVars
  <2> QED BY <1>3, <2>2, <2>3, <2>4 DEF GcPage
<1>4. ASSUME \A y \in Zones : y # z => gcPos'[y] = gcPos[y] /\ wp'[y] = wp[y],
             \A y \in Zones : y # z => \A k \in Slots : dev'[<<y, k>>] = dev[<<y, k>>],
             gcPos'[z] # Cap + 1 => AtPointer(z)'
      PROVE  Pointers'
  <2>1. ASSUME NEW y \in Zones, gcPos'[y] # Cap + 1, NEW k \in Slots
        PROVE  dev'[<<y, k>>] # NoData <=> k < wp'[y]
    <3>1. CASE y = z
      BY <1>4, <2>1, <3>1 DEF AtPointer, Slots
    <3>2. CASE y # z
      BY <1>4, <2>1, <3>2 DEF Pointers, AtPointer
    <3> QED BY <3>1, <3>2
  <2> QED BY <2>1 DEF Pointers, AtPointer, Zones, Slots
<1>5. CASE GcReset(z)
  <2>1. /\ wp' = wp /\ gcPos' = [gcPos EXCEPT ![z] = @ + 1] /\ gcPos[z] = Cap
        /\ dev' = [a \in Addr |-> IF a[1] = z THEN NoData ELSE dev[a]]
    BY <1>5 DEF GcReset, Advance, reset_zone
  <2>2. gcPos'[z] = Cap + 1 /\ \A y \in Zones : y # z => gcPos'[y] = gcPos[y]
    BY <1>0, <2>1
  <2>3. ASSUME NEW y \in Zones, y # z, NEW k \in Slots
        PROVE  dev'[<<y, k>>] = dev[<<y, k>>]
    <3>1. <<y, k>> \in Addr /\ <<y, k>>[1] = y
      BY DEF Addr
    <3> QED BY <2>1, <2>3, <3>1
  <2> QED BY <1>4, <2>1, <2>2, <2>3
<1>6. CASE GcRewind(z)
  <2>1. /\ wp' = [wp EXCEPT ![z] = 0] /\ gcPos' = [gcPos EXCEPT ![z] = @ + 1]
        /\ gcPos[z] = Cap + 1 /\ inGc[z] /\ dev' = dev
    BY <1>6 DEF GcRewind, Advance, rewind, mapVars
  <2>2. cond[z] = "EMPTY"
    <3>1. ~ (gcPos[z] <= Cap)
      BY <1>0, <2>1
    <3> QED BY <1>0, <2>1, <3>1 DEF Core, Dead
  <2>3. \A k \in Slots : dev'[<<z, k>>] = NoData /\ ~ (k < 0)
    BY <1>0, <2>1, <2>2 DEF Safe, Sound, Clean, Slots
  <2>4. AtPointer(z)'
    BY <1>0, <2>1, <2>3 DEF AtPointer, Slots
  <2> QED BY <1>0, <1>4, <2>1, <2>4
<1>7. CASE GcSweep(z)
  <2>1. \A y \in Zones : gcPos'[y] = Cap + 1 <=> gcPos[y] = Cap + 1
    BY <1>0, <1>7 DEF GcSweep
  <2> QED BY <1>7, <2>1, SameAgrees DEF GcSweep, zoneVars
<1> QED BY <1>2, <1>3, <1>5, <1>6, <1>7 DEF Collector

(* Before a zone is opened early, the write pointer of every zone is that  *)
(* of the device, but between the reset of a zone and its rewind.          *)
THEOREM SpecPointersAgree == Spec => []PointersAgree
<1> DEFINE Q == ~ early => Pointers
<1>1. Init => Q
  BY DEF Init, Pointers, AtPointer, Addr, Slots
<1>2. IInv /\ Q /\ [Next]_vars => Q'
  <2> SUFFICES ASSUME IInv, Q, [Next]_vars, ~ early' PROVE Pointers'
    OBVIOUS
  <2>1. CASE Caller
    <3>1. ~ early
      <4>1. \/ garbage_collection_detect
            \/ \E c, n, pl, vl : Foreground(c, n, pl, vl)
        BY <2>1 DEF Caller, create_new_page, write_page, write_cluster
      <4> QED BY <4>1 DEF garbage_collection_detect, Foreground, Write, WriteAborts,
                          Abort
    <3> QED BY <2>1, <3>1, CallerAgrees
  <2>2. ASSUME NEW z \in Zones, Collector(z) PROVE Pointers'
    BY <2>2, CollectorAgrees, CollectorEarly
  <2>3. CASE UNCHANGED vars
    BY <2>3, SameAgrees DEF vars, zoneVars, mapVars, gcVars
  <2> QED BY <2>1, <2>2, <2>3 DEF Next
<1>3. Q => PointersAgree
  BY DEF Pointers, PointersAgree
<1> HIDE DEF Q
<1> QED BY <1>1, <1>2, <1>3, SpecIInv, PTL DEF Spec

------------------------------------------------------------------------------
(***************************************************************************)
(* The controller implements PageStore.                                    *)
(***************************************************************************)
Shown == IF early THEN promised ELSE Served

(* Under the invariant a reader is served exactly what was promised.       *)
LEMMA ServedIsPromised == IInv => Shown = promised
<1> SUFFICES ASSUME IInv, ~ early PROVE Served = promised
  BY DEF Shown
<1>0. Safe /\ Core
  BY DEF IInv
<1>1. promised \in [Pages -> Vals \cup {Absent}]
  BY <1>0, MapFacts
<1>2. \A p \in Pages : Table[p] # NoAddr => dev[Table[p]] = <<p, promised[p]>>
  BY <1>0, MapFacts
<1>3. \A p \in Pages : Table[p] = NoAddr <=> promised[p] = Absent
  BY <1>0 DEF Safe, MappedIffPromised
<1>4. \A p \in Pages : Served[p] = promised[p]
  BY <1>2, <1>3 DEF Served, read_page
<1>5. promised = [p \in Pages |-> promised[p]]
  BY <1>1
<1>6. Served = [p \in Pages |-> Served[p]]
  BY DEF Served
<1> QED BY <1>4, <1>5, <1>6

(* The same of the state after a step.                                     *)
LEMMA ServedIsPromisedNext == (IInv => Shown = promised)'
  BY ServedIsPromised, PTL

(* A foreground write is an update of the pages it lists.                  *)
LEMMA PromisePuts ==
  ASSUME IInv, IInv', NEW c, NEW n, NEW pl, NEW vl, Args(c, n, pl, vl),
         Promise(n, pl, vl)
  PROVE  \E f \in [Listed(n, pl) -> Vals] : Store!Put(Listed(n, pl), f)
<1> DEFINE W == Listed(n, pl)
           f == [p \in W |-> vl[LastOf(n, pl, p)]]
<1>1. \A p \in W : vl[LastOf(n, pl, p)] \in Vals
  BY LastOccurrence, ConstantsOK DEF Args
<1>2. f \in [W -> Vals]
  BY <1>1
<1>3. promised' = [p \in Pages |-> IF p \in W THEN f[p] ELSE promised[p]]
  BY DEF Promise
<1>4. Shown' = promised'
  BY ServedIsPromisedNext
<1>5. Store!Put(W, f)
  BY <1>3, <1>4 DEF Store!Put, Shown
<1> QED BY <1>2, <1>5

LEMMA StoreStep == IInv /\ IInv' /\ [Next]_vars => [Store!Next]_(Store!storeVars)
<1> SUFFICES ASSUME IInv, IInv', [Next]_vars
             PROVE  Store!Next \/ UNCHANGED (Store!storeVars)
  OBVIOUS
<1>0. Shown = promised /\ Shown' = promised'
  BY ServedIsPromised, ServedIsPromisedNext
<1>1. ASSUME promised' = promised PROVE UNCHANGED (Store!storeVars)
  BY <1>0, <1>1 DEF Store!storeVars, Shown
<1>2. \A p \in Pages : promised[p] = Absent <=> Table[p] = NoAddr
  BY DEF IInv, Safe, MappedIffPromised
<1>3. ASSUME NEW c, NEW n, NEW pl, NEW vl, Args(c, n, pl, vl),
             Foreground(c, n, pl, vl)
      PROVE  \/ \E f \in [Listed(n, pl) -> Vals] : Store!Put(Listed(n, pl), f)
             \/ UNCHANGED (Store!storeVars)
  BY <1>1, <1>3, PromisePuts DEF Foreground, WriteAborts, Abort
<1>4. ASSUME NEW c, NEW n, NEW pl, NEW vl, Args(c, n, pl, vl),
             n = 1, \A i \in 1 .. n : Table[pl[i]] = NoAddr,
             Foreground(c, n, pl, vl)
      PROVE  Store!Next \/ UNCHANGED (Store!storeVars)
  <2> DEFINE p == pl[1]
  <2>1. p \in Pages /\ promised[p] = Absent /\ Listed(n, pl) = {p}
    BY <1>2, <1>4 DEF Args, Listed
  <2>2. \/ \E f \in [{p} -> Vals] : Store!Put({p}, f)
        \/ UNCHANGED (Store!storeVars)
    <3>1. \/ \E f \in [Listed(n, pl) -> Vals] : Store!Put(Listed(n, pl), f)
          \/ UNCHANGED (Store!storeVars)
      BY <1>3, <1>4
    <3> QED BY <2>1, <3>1
  <2> HIDE DEF p
  <2> QED BY <2>1, <2>2 DEF Store!Next, Store!Insert
<1>5. ASSUME NEW c, NEW n, NEW pl, NEW vl, Args(c, n, pl, vl),
             \A i \in 1 .. n : Table[pl[i]] # NoAddr, Foreground(c, n, pl, vl)
      PROVE  Store!Next \/ UNCHANGED (Store!storeVars)
  <2>1. Listed(n, pl) \in SUBSET {p \in Pages : promised[p] # Absent}
    BY <1>2, <1>5 DEF Args, Listed
  <2>2. \/ \E f \in [Listed(n, pl) -> Vals] : Store!Put(Listed(n, pl), f)
        \/ UNCHANGED (Store!storeVars)
    BY <1>3, <1>5
  <2> QED BY <2>1, <2>2 DEF Store!Next, Store!Update
<1>6. CASE garbage_collection_detect
  BY <1>1, <1>6 DEF garbage_collection_detect
<1>7. CASE Caller
  BY <1>4, <1>5, <1>6, <1>7, CallerArgs
<1>8. ASSUME NEW z \in Zones, Collector(z) PROVE UNCHANGED (Store!storeVars)
  BY <1>1, <1>8 DEF Collector, GcStart, GcPage, GcReset, GcRewind, GcSweep,
                    CopyAborts, WriteAborts, Abort
<1>9. CASE UNCHANGED vars
  BY <1>1, <1>9 DEF vars
<1> QED BY <1>7, <1>8, <1>9 DEF Next

(* Until a zone is opened early the controller with its collectors is a    *)
(* page store: every step is an insert, an update, or invisible to a       *)
(* client.                                                                 *)
THEOREM SpecStore == Spec => StoreSpec
<1>1. Init => Store!Init
  BY ConstantsOK DEF Init, Served, Store!Init
<1>2. IInv /\ IInv' /\ [Next]_vars => [Store!Next]_(Store!storeVars)
  BY StoreStep
<1> QED BY <1>1, <1>2, SpecIInv, PTL DEF Spec, StoreSpec, Store!Spec
==============================================================================
