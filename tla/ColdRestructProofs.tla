-------------------------- MODULE ColdRestructProofs --------------------------
(***************************************************************************)
(* Restructuring is safe as long as no zone is given to two threads or     *)
(* opened early, for every number of zones, zone capacity, number of       *)
(* threads and writes.                                                     *)
(*                                                                         *)
(* The proof adds the restructuring threads to the two invariants of the   *)
(* controller.  Safe holds always, so types and the count of valid pages   *)
(* do.  Core holds as long as the threads keep apart: the zones they have  *)
(* in hand are full until reset, are not under collection, and belong to   *)
(* one thread each.                                                        *)
(***************************************************************************)
EXTENDS ColdRestruct, ZNSControllerProofs

Lists ==
  /\ shared \in BOOLEAN
  /\ rest \in [Jobs -> SUBSET Zones]
  /\ cdPos \in [Jobs -> -1 .. Cap + 2]
  /\ \A j \in Jobs : rest[j] = {} => cdPos[j] = -1

Apart ==
  /\ \A j \in Jobs : \A z \in rest[j] :
       /\ cond[z] = IF z = Min(rest[j]) /\ cdPos[j] > Cap THEN "EMPTY" ELSE "FULL"
       /\ ~ inGc[z]
  /\ \A i, j \in Jobs : i # j => rest[i] \cap rest[j] = {}

PassedIsDead ==
  \A j \in Jobs : rest[j] # {} =>
    \A k \in Slots : k < cdPos[j] => <<Min(rest[j]), k>> \notin meta_page

Calm == ~ shared /\ ~ early

CInv == Lists /\ Safe /\ (Calm => Core /\ Apart /\ PassedIsDead)

(* What a step leaves of the zones in hand.                                *)
HandKept ==
  \A j \in Jobs : \A z \in rest[j] : Left(z) /\ ~ inGc'[z]

(* A set of zones in hand has a first one.                                 *)
LEMMA FirstOf ==
  ASSUME NEW S \in SUBSET Zones, S # {}
  PROVE  Min(S) \in S
<1>1. S \subseteq Nat
  BY ConstantsOK DEF Zones
<1>2. PICK x \in S : \A y \in S : x <= y
  BY <1>1, LeastElement
<1> QED BY <1>2 DEF Min

LEMMA ColdInitInv == ColdInit => CInv
<1> SUFFICES ASSUME ColdInit PROVE CInv
  OBVIOUS
<1>1. Safe /\ Core
  BY InitIInv DEF ColdInit, IInv, Init
<1>2. -1 \in -1 .. Cap + 2
  BY ConstantsOK
<1> QED BY <1>1, <1>2 DEF ColdInit, CInv, Lists, Apart, PassedIsDead

------------------------------------------------------------------------------
(***************************************************************************)
(* The steps of the main thread and of the collectors.                     *)
(***************************************************************************)
LEMMA HandsLeft ==
  ASSUME Lists, Apart, PassedIsDead, rest' = rest, cdPos' = cdPos, HandKept
  PROVE  Apart' /\ PassedIsDead'
<1>1. Apart'
  BY DEF Apart, HandKept, Left, Jobs
<1>2. ASSUME NEW j \in Jobs, rest[j] # {}, NEW k \in Slots, k < cdPos[j]
      PROVE  <<Min(rest[j]), k>> \notin meta_page'
  <2>1. Min(rest[j]) \in rest[j]
    BY <1>2, FirstOf DEF Lists
  <2>2. <<Min(rest[j]), k>> \notin meta_page
    BY <1>2 DEF PassedIsDead
  <2> QED BY <1>2, <2>1, <2>2 DEF HandKept, Left
<1>3. PassedIsDead'
  BY <1>2 DEF PassedIsDead, Jobs, Slots
<1> QED BY <1>1, <1>3

LEMMA ListsKept ==
  ASSUME Lists, rest' = rest, cdPos' = cdPos, shared' \in BOOLEAN
  PROVE  Lists'
BY DEF Lists, Jobs, Zones

(* A zone in hand is full, or empty and not opened by this step.           *)
LEMMA HandZones ==
  ASSUME Lists, Apart, Reopens, ~ shared', NEW j \in Jobs, NEW z \in rest[j]
  PROVE  /\ z \in Zones /\ ~ inGc[z]
         /\ cond[z] = "FULL" \/ cond'[z] = "EMPTY"
BY DEF Lists, Apart, Reopens

(* A step that does what the controller's own threads do.                  *)
LEMMA OtherStep ==
  ASSUME CInv, Safe', Reopens, rest' = rest, cdPos' = cdPos,
         ~ early' => ~ early,
         ~ early' /\ Core =>
           /\ Core'
           /\ \A y \in Zones : ~ inGc[y] /\ (cond[y] = "FULL" \/ cond'[y] = "EMPTY")
                => ~ inGc'[y] /\ Left(y)
  PROVE  CInv'
<1>1. Lists' /\ (~ shared' => ~ shared)
  BY ListsKept DEF CInv, Lists, Reopens
<1>2. ASSUME ~ shared', ~ early' PROVE Core' /\ Apart' /\ PassedIsDead'
  <2>1. Lists /\ Core /\ Apart /\ PassedIsDead
    BY <1>1, <1>2 DEF CInv, Calm
  <2>2. HandKept
    BY <1>2, <2>1, HandZones DEF HandKept
  <2> QED BY <1>2, <2>1, <2>2, HandsLeft
<1> QED BY <1>1, <1>2 DEF CInv, Calm

(* The writes of the main thread, with the arguments they have.            *)
LEMMA MainArgs ==
  ASSUME CInv, Insert \/ Evict
  PROVE  \E c \in 0 .. ClusterNum - 1, n \in 0 .. MaxCluster :
           \E pl \in [1 .. n -> Pages], vl \in [1 .. n -> Vals] :
             Args(c, n, pl, vl) /\ Foreground(c, n, pl, vl)
<1> USE ConstantsOK
<1> DEFINE Goal(c, n, pl, vl) == Args(c, n, pl, vl) /\ Foreground(c, n, pl, vl)
           Some == \E c \in 0 .. ClusterNum - 1, n \in 0 .. MaxCluster :
                     \E pl \in [1 .. n -> Pages], vl \in [1 .. n -> Vals] :
                       Goal(c, n, pl, vl)
<1>1. ASSUME NEW c \in 0 .. ClusterNum - 1, NEW p \in Pages, NEW v \in Vals,
             Foreground(c, 1, <<p>>, <<v>>)
      PROVE  Some
  <2>1. c \in -1 .. ClusterNum - 1 /\ 1 \in 0 .. MaxCluster
    OBVIOUS
  <2>2. <<p>> \in [1 .. 1 -> Pages] /\ <<v>> \in [1 .. 1 -> Vals]
    OBVIOUS
  <2>3. Goal(c, 1, <<p>>, <<v>>)
    BY <1>1, <2>1, SinglePage
  <2> HIDE DEF Goal
  <2> QED BY <2>1, <2>2, <2>3
<1>2. ASSUME NEW c \in 0 .. ClusterNum - 1, NEW n \in 0 .. MaxCluster,
             NEW pl \in [1 .. n -> Pages], NEW vl \in [1 .. n -> Vals],
             shared \/ early => n <= 1, write_cluster(c, n, pl, vl)
      PROVE  Some
  <2>1. Args(c, n, pl, vl)
    <3>1. c \in -1 .. ClusterNum - 1 /\ n \in 0 .. Cap
      OBVIOUS
    <3>2. CASE shared \/ early
      <4>1. n \in 0 .. 1
        BY <1>2, <3>2
      <4> QED BY <3>1, <4>1, OnePage
    <3>3. CASE ~ (shared \/ early)
      <4>1. Listed(n, pl) \in SUBSET Pages
        BY DEF Listed
      <4> QED BY <3>1, <3>3, <4>1, AllDistinct DEF Args, CInv, Calm
    <3> QED BY <3>2, <3>3
  <2>2. Goal(c, n, pl, vl)
    BY <1>2, <2>1 DEF write_cluster
  <2> HIDE DEF Goal
  <2> QED BY <2>2
<1>3. 0 \in 0 .. ClusterNum - 1
  OBVIOUS
<1>4. ASSUME Insert PROVE Some
  <2> HIDE DEF Some
  <2> QED BY <1>1, <1>3, <1>4 DEF Insert, create_new_page
<1>5. ASSUME Evict PROVE Some
  <2> HIDE DEF Some
  <2> QED BY <1>1, <1>2, <1>5 DEF Evict, write_page
<1> QED BY <1>4, <1>5

LEMMA WriteCInv == CInv /\ (Insert \/ Evict) => CInv'
<1> SUFFICES ASSUME CInv, Insert \/ Evict PROVE CInv'
  OBVIOUS
<1>1. rest' = rest /\ cdPos' = cdPos /\ Reopens
  BY DEF Insert, Evict
<1>2. PICK c \in 0 .. ClusterNum - 1, n \in 0 .. MaxCluster :
        \E pl \in [1 .. n -> Pages], vl \in [1 .. n -> Vals] :
          Args(c, n, pl, vl) /\ Foreground(c, n, pl, vl)
  BY MainArgs
<1>3. PICK pl \in [1 .. n -> Pages], vl \in [1 .. n -> Vals] :
        Args(c, n, pl, vl) /\ Foreground(c, n, pl, vl)
  BY <1>2
<1>4. c # -1 /\ Safe
  BY ConstantsOK DEF CInv
<1>5. Safe'
  BY <1>3, <1>4, ForegroundSafe
<1>6. ~ early' => ~ early
  BY <1>3 DEF Foreground, Write, WriteAborts, Abort
<1>7. ASSUME ~ early', Core
      PROVE  /\ Core' /\ inGc' = inGc
             /\ \A y \in Zones : cond[y] = "FULL" \/ cond'[y] = "EMPTY" => Left(y)
  BY <1>3, <1>4, <1>7, ForegroundCore
<1> QED BY <1>1, <1>5, <1>6, <1>7, OtherStep

LEMMA CollectorCInv ==
  ASSUME CInv, NEW z \in Zones, ColdCollector(z)
  PROVE  CInv'
<1>1. rest' = rest /\ cdPos' = cdPos /\ Reopens /\ Collector(z) /\ Safe
  BY DEF ColdCollector, CInv
<1>2. Safe'
  BY <1>1, CollectorSafe
<1>3. ~ early' => ~ early
  BY <1>1, CollectorEarly
<1>4. ASSUME ~ early', Core
      PROVE  /\ Core'
             /\ \A y \in Zones : ~ inGc[y] /\ (cond[y] = "FULL" \/ cond'[y] = "EMPTY")
                  => ~ inGc'[y] /\ Left(y)
  BY <1>1, <1>4, CollectorCore
<1> QED BY <1>1, <1>2, <1>3, <1>4, OtherStep

(* Steps that leave the variables of the controller alone.                 *)
LEMMA VarsKept ==
  ASSUME Safe, UNCHANGED vars
  PROVE  /\ Safe' /\ (Core => Core')
         /\ cond' = cond /\ inGc' = inGc /\ meta_page' = meta_page /\ early' = early
<1>1. /\ UNCHANGED <<zoneVars, mapVars, gcVars>>
      /\ fault' = fault /\ promised' = promised /\ early' = early
  BY DEF vars
<1>2. Aside' /\ FaultType'
  BY <1>1 DEF Safe, Aside, FaultType, gcVars, Zones
<1>3. Safe'
  BY <1>1, <1>2, SameSafe
<1>4. ASSUME Core PROVE Core'
  <2>1. fault' # "bit"
    BY <1>1, <1>4 DEF Core
  <2> QED BY <1>1, <1>4, <2>1, SameCore
<1> QED BY <1>1, <1>3, <1>4 DEF zoneVars, mapVars, gcVars

LEMMA ColdStutter ==
  ASSUME CInv, UNCHANGED <<vars, rest, cdPos, shared>>
  PROVE  CInv'
<1>1. Lists'
  BY ListsKept DEF CInv, Lists
<1>2. Safe' /\ (Core => Core') /\ early' = early
      /\ cond' = cond /\ inGc' = inGc /\ meta_page' = meta_page
  BY VarsKept DEF CInv
<1>3. ASSUME Calm PROVE Apart' /\ PassedIsDead'
  <2>1. HandKept
    BY <1>2, <1>3 DEF HandKept, Left, CInv, Apart
  <2> QED BY <1>3, <2>1, HandsLeft DEF CInv
<1> QED BY <1>1, <1>2, <1>3 DEF CInv, Calm

(* A new list holds full zones that no other thread has, or shared is set. *)
LEMMA CdDetectCInv == CInv /\ cd_detect => CInv'
<1> SUFFICES ASSUME CInv, cd_detect PROVE CInv'
  OBVIOUS
<1>1. UNCHANGED vars /\ cdPos' = cdPos
  BY DEF cd_detect
<1>2. Safe' /\ (Core => Core') /\ early' = early
      /\ cond' = cond /\ inGc' = inGc /\ meta_page' = meta_page
  BY <1>1, VarsKept DEF CInv
<1>3. CASE rest' = rest /\ shared' = shared
  BY <1>1, <1>3, ColdStutter
<1>4. ASSUME NEW C \in SUBSET MaybeCold, NEW i \in Jobs, Cardinality(C) >= MinRestruct,
             ~ Working(i), rest' = [rest EXCEPT ![i] = C],
             shared' = (shared \/ \E z \in C : InHand(z))
      PROVE  CInv'
  <2>1. /\ rest \in [Jobs -> SUBSET Zones] /\ cdPos \in [Jobs -> -1 .. Cap + 2]
        /\ rest[i] = {} /\ cdPos[i] = -1
    BY <1>4 DEF CInv, Lists, Working
  <2>2. C \subseteq Zones /\ \A z \in C : cond[z] = "FULL"
    BY DEF MaybeCold, ColdUsed
  <2>3. rest'[i] = C /\ \A j \in Jobs : j # i => rest'[j] = rest[j]
    BY <1>4, <2>1
  <2>4. C # {}
    BY <1>4, FS_EmptySet, RestructOK
  <2>5. Lists'
    <3>1. rest' \in [Jobs -> SUBSET Zones]
      BY <1>4, <2>1, <2>2
    <3>2. shared' \in BOOLEAN
      BY <1>4
    <3>3. \A j \in Jobs : rest'[j] = {} => cdPos[j] = -1
      BY <2>3, <2>4 DEF CInv, Lists
    <3> QED BY <1>1, <2>1, <3>1, <3>2, <3>3 DEF Lists, Jobs, Zones
  <2>6. ASSUME ~ shared', ~ early' PROVE Core' /\ Apart' /\ PassedIsDead'
    <3>1. /\ Calm
          /\ \A z \in C : ~ inGc[z] /\ \A j \in Jobs : z \notin rest[j]
      BY <1>2, <1>4, <2>6 DEF InHand, Calm
    <3>2. Core /\ Apart /\ PassedIsDead
      BY <3>1 DEF CInv
    <3>3. Apart'
      <4>1. ~ (cdPos[i] > Cap)
        BY <2>1, ConstantsOK
      <4>2. ASSUME NEW j \in Jobs, NEW z \in rest'[j]
            PROVE  /\ cond[z] = IF z = Min(rest'[j]) /\ cdPos[j] > Cap
                                THEN "EMPTY" ELSE "FULL"
                   /\ ~ inGc[z]
        <5>1. CASE j = i
          BY <2>2, <2>3, <3>1, <4>1, <4>2, <5>1
        <5>2. CASE j # i
          BY <2>3, <3>2, <4>2, <5>2 DEF Apart
        <5> QED BY <5>1, <5>2
      <4>3. \A j, k \in Jobs : j # k => rest'[j] \cap rest'[k] = {}
        BY <2>3, <3>1, <3>2 DEF Apart
      <4> QED BY <1>1, <1>2, <4>2, <4>3 DEF Apart, Jobs
    <3>4. PassedIsDead'
      <4>1. \A k \in Slots : ~ (k < cdPos[i])
        BY <2>1 DEF Slots
      <4>2. ASSUME NEW j \in Jobs, rest'[j] # {}, NEW k \in Slots, k < cdPos[j]
            PROVE  <<Min(rest'[j]), k>> \notin meta_page
        <5>1. j # i
          BY <4>1, <4>2
        <5> QED BY <2>3, <3>2, <4>2, <5>1 DEF PassedIsDead
      <4> QED BY <1>1, <1>2, <4>2 DEF PassedIsDead, Jobs, Slots
    <3> QED BY <1>2, <3>2, <3>3, <3>4
  <2> QED BY <1>2, <2>5, <2>6 DEF CInv, Calm
<1> QED BY <1>3, <1>4 DEF cd_detect

(* A new collection takes full zones; one that is in hand sets shared.     *)
LEMMA GcDetectCInv == CInv /\ GcDetect => CInv'
<1> SUFFICES ASSUME CInv, GcDetect PROVE CInv'
  OBVIOUS
<1>1. rest' = rest /\ cdPos' = cdPos
  BY DEF GcDetect
<1>2. CASE UNCHANGED <<vars, shared>>
  BY <1>1, <1>2, ColdStutter
<1>3. CASE /\ garbage_collection_detect
           /\ shared' = (shared \/ \E z \in Zones : Collectable(z) /\ InHand(z))
  <2>1. /\ inGc' = [z \in Zones |-> inGc[z] \/ Collectable(z)]
        /\ cond' = cond /\ meta_page' = meta_page /\ early' = early
    BY <1>3 DEF garbage_collection_detect, zoneVars, mapVars
  <2>2. Lists' /\ Safe'
    <3>1. shared' \in BOOLEAN
      BY <1>3 DEF CInv, Lists
    <3> QED BY <1>1, <1>3, <3>1, ListsKept, DetectSafe DEF CInv
  <2>3. ASSUME ~ shared', ~ early' PROVE Core' /\ Apart' /\ PassedIsDead'
    <3>1. /\ Calm
          /\ \A j \in Jobs : \A z \in rest[j] : z \in Zones => ~ Collectable(z)
      BY <1>3, <2>1, <2>3 DEF InHand, Calm
    <3>2. rest \in [Jobs -> SUBSET Zones] /\ Lists /\ Core /\ Apart /\ PassedIsDead
      BY <3>1 DEF CInv, Lists
    <3>3. HandKept
      BY <2>1, <3>1, <3>2 DEF HandKept, Left, Apart
    <3>4. Core'
      BY <1>3, <3>2, DetectCore
    <3> QED BY <1>1, <3>2, <3>3, <3>4, HandsLeft
  <2> QED BY <2>2, <2>3 DEF CInv, Calm
<1> QED BY <1>2, <1>3 DEF GcDetect

------------------------------------------------------------------------------
(***************************************************************************)
(* The steps of a restructuring thread.                                    *)
(***************************************************************************)
LEMMA CdStartCInv ==
  ASSUME CInv, NEW j \in Jobs, CdStart(j)
  PROVE  CInv'
<1>1. /\ UNCHANGED vars /\ rest' = rest /\ shared' = shared
      /\ cdPos' = [cdPos EXCEPT ![j] = 0] /\ cdPos[j] = -1 /\ rest[j] # {}
  BY DEF CdStart, Working
<1>2. Safe' /\ (Core => Core') /\ early' = early
      /\ cond' = cond /\ inGc' = inGc /\ meta_page' = meta_page
  BY <1>1, VarsKept DEF CInv
<1>3. /\ cdPos \in [Jobs -> -1 .. Cap + 2] /\ 0 \in -1 .. Cap + 2 /\ Cap \in Nat
      /\ rest \in [Jobs -> SUBSET Zones] /\ shared \in BOOLEAN
  BY ConstantsOK DEF CInv, Lists
<1>4. cdPos'[j] = 0 /\ \A i \in Jobs : i # j => cdPos'[i] = cdPos[i]
  BY <1>1, <1>3
<1>5. Lists'
  <2>1. cdPos' \in [Jobs -> -1 .. Cap + 2]
    BY <1>1, <1>3
  <2>2. \A i \in Jobs : rest[i] = {} => cdPos'[i] = -1
    BY <1>1, <1>4 DEF CInv, Lists
  <2> QED BY <1>1, <1>3, <2>1, <2>2 DEF Lists, Jobs, Zones
<1>6. ASSUME Calm PROVE Apart' /\ PassedIsDead'
  <2>1. \A i \in Jobs : cdPos'[i] > Cap <=> cdPos[i] > Cap
    BY <1>1, <1>3, <1>4
  <2>2. Apart'
    BY <1>1, <1>2, <1>6, <2>1 DEF CInv, Apart, Jobs
  <2>3. ASSUME NEW i \in Jobs, rest[i] # {}, NEW k \in Slots, k < cdPos'[i]
        PROVE  <<Min(rest[i]), k>> \notin meta_page
    <3>1. i # j
      BY <1>4, <2>3 DEF Slots
    <3> QED BY <1>4, <1>6, <2>3, <3>1 DEF CInv, PassedIsDead
  <2>4. PassedIsDead'
    BY <1>1, <1>2, <2>3 DEF PassedIsDead, Jobs, Slots
  <2> QED BY <2>2, <2>4
<1> QED BY <1>1, <1>2, <1>5, <1>6 DEF CInv, Calm

(* A step within a zone that ends with one more dead slot.                 *)
LEMMA Advanced ==
  ASSUME CInv, Calm, NEW j \in Jobs, rest[j] # {}, rest' = rest, CdAdvance(j),
         cdPos[j] \in Slots, HandKept, CdAt(j) \notin meta_page'
  PROVE  Apart' /\ PassedIsDead'
<1>1. /\ cdPos \in [Jobs -> -1 .. Cap + 2] /\ Cap \in Nat
      /\ rest \in [Jobs -> SUBSET Zones] /\ Apart /\ PassedIsDead
  BY ConstantsOK DEF CInv, Lists
<1>2. /\ cdPos'[j] = cdPos[j] + 1 /\ cdPos'[j] <= Cap
      /\ \A i \in Jobs : i # j => cdPos'[i] = cdPos[i]
  BY <1>1 DEF CdAdvance, Slots
<1>3. \A i \in Jobs : cdPos'[i] > Cap <=> cdPos[i] > Cap
  BY <1>1, <1>2
<1>4. Apart'
  BY <1>1, <1>3 DEF Apart, HandKept, Left, Jobs
<1>5. ASSUME NEW i \in Jobs, rest[i] # {}, NEW k \in Slots, k < cdPos'[i]
      PROVE  <<Min(rest[i]), k>> \notin meta_page'
  <2>1. CASE i = j /\ k = cdPos[j]
    BY <2>1 DEF CdAt, FirstZone
  <2>2. CASE k < cdPos[i]
    <3>1. Min(rest[i]) \in rest[i]
      BY <1>1, <1>5, FirstOf
    <3>2. <<Min(rest[i]), k>> \notin meta_page
      BY <1>1, <1>5, <2>2 DEF PassedIsDead
    <3> QED BY <3>1, <3>2 DEF HandKept, Left
  <2>3. (i = j /\ k = cdPos[j]) \/ k < cdPos[i]
    BY <1>1, <1>2, <1>5 DEF Slots
  <2> QED BY <2>1, <2>2, <2>3
<1>6. PassedIsDead'
  BY <1>5 DEF PassedIsDead, Jobs, Slots
<1> QED BY <1>4, <1>6

LEMMA AdvancedLists ==
  ASSUME Lists, NEW j \in Jobs, rest[j] # {}, rest' = rest, CdAdvance(j),
         cdPos[j] \in 0 .. Cap + 1, shared' \in BOOLEAN
  PROVE  Lists'
<1>1. cdPos \in [Jobs -> -1 .. Cap + 2] /\ Cap \in Nat
  BY ConstantsOK DEF Lists
<1>2. cdPos' \in [Jobs -> -1 .. Cap + 2] /\ \A i \in Jobs : i # j => cdPos'[i] = cdPos[i]
  BY <1>1 DEF CdAdvance
<1> QED BY <1>2 DEF Lists, Jobs, Zones

(* A valid page is moved out of the first zone, an invalid one left.       *)
LEMMA CdPageCInv ==
  ASSUME CInv, NEW j \in Jobs, CdPage(j)
  PROVE  CInv'
<1> DEFINE a == CdAt(j)
           z == Min(rest[j])
<1>1. /\ rest' = rest /\ Reopens /\ rest[j] # {} /\ cdPos[j] \in Slots
      /\ a = <<z, cdPos[j]>>
  BY DEF CdPage, Working, InZone, CdAt, FirstZone
<1>2. /\ Lists /\ Safe /\ shared \in BOOLEAN /\ shared' \in BOOLEAN
      /\ cdPos[j] \in 0 .. Cap + 1 /\ z \in rest[j] /\ z \in Zones /\ a \in Addr
      /\ 0 \in 0 .. ClusterNum - 1 /\ 0 \in -1 .. ClusterNum - 1
  <2>1. z \in rest[j] /\ z \in Zones /\ shared \in BOOLEAN
    BY <1>1, FirstOf DEF CInv, Lists
  <2>2. shared' \in BOOLEAN
    BY <1>1 DEF Reopens
  <2>3. cdPos[j] \in 0 .. Cap + 1 /\ a \in Addr
    BY <1>1, <2>1, ConstantsOK DEF Slots, Addr
  <2> QED BY <2>1, <2>2, <2>3, ConstantsOK DEF CInv
<1> HIDE DEF a, z
<1>3. CASE /\ a \in meta_page /\ Copy(0, a) /\ CdAdvance(j)
           /\ UNCHANGED <<gcVars, fault, promised>>
  <2>1. inGc' = inGc /\ Gc' = Gc /\ gcPos' = gcPos /\ fault' = fault
        /\ promised' = promised
    BY <1>3 DEF gcVars
  <2>2. Safe'
    <3>1. Gc' \in BOOLEAN /\ gcPos' \in [Zones -> -1 .. Cap + 2]
      BY <1>2, <2>1 DEF Safe, Aside
    <3> QED BY <1>2, <1>3, <2>1, <3>1, CopySafe
  <2>3. Lists'
    BY <1>1, <1>2, <1>3, AdvancedLists
  <2>4. ASSUME ~ shared', ~ early' PROVE Core' /\ Apart' /\ PassedIsDead'
    <3>1. Calm /\ Core /\ Apart /\ PassedIsDead
      <4>1. ~ early
        BY <1>3, <2>4 DEF Copy, Write
      <4>2. ~ shared
        BY <1>1, <2>4 DEF Reopens
      <4> QED BY <4>1, <4>2 DEF CInv, Calm
    <3>2. /\ ZoneShape' /\ Reads' /\ Bits' /\ a \notin meta_page'
          /\ \A y \in Zones : cond[y] = "FULL" \/ cond'[y] = "EMPTY" => Left(y)
          /\ \A y \in Zones : inGc[y] /\ cond[y] = "EMPTY" => cond'[y] = "EMPTY"
      BY <1>2, <1>3, <2>1, <2>4, <3>1, CopyCore
    <3>3. \A y \in Zones : inGc[y] => Left(y)
      BY <3>1, <3>2, CollectedLeft
    <3>4. Dead' /\ GcIdle' /\ fault' # "bit"
      <4>1. Dead'
        BY <2>1, <3>1, <3>3 DEF Core, Dead, Left, Zones, Slots
      <4> QED BY <2>1, <3>1, <4>1 DEF Core, GcIdle, Zones
    <3>5. HandKept
      BY <1>1, <1>2, <2>1, <2>4, <3>1, <3>2, HandZones DEF HandKept
    <3>6. CdAt(j) \notin meta_page'
      BY <3>2 DEF a
    <3>7. Apart' /\ PassedIsDead'
      BY <1>1, <1>3, <3>1, <3>5, <3>6, Advanced
    <3> QED BY <3>2, <3>4, <3>7 DEF Core
  <2> QED BY <2>2, <2>3, <2>4 DEF CInv, Calm
<1>4. CASE a \in meta_page /\ CopyAborts(0, a) /\ UNCHANGED cdPos
  <2>1. early' = early
    BY <1>4 DEF CopyAborts, WriteAborts, Abort
  <2>2. Safe'
    BY <1>2, <1>4, CopyAbortSafe
  <2>3. ASSUME Core PROVE Core' /\ UNCHANGED <<zoneVars, mapVars, gcVars>>
    BY <1>2, <1>4, <2>3, CopyAbortCore
  <2>4. ASSUME Core
        PROVE  /\ Core'
               /\ \A y \in Zones :
                    ~ inGc[y] /\ (cond[y] = "FULL" \/ cond'[y] = "EMPTY")
                      => ~ inGc'[y] /\ Left(y)
    BY <2>3, <2>4 DEF Left, zoneVars, mapVars, gcVars
  <2> QED BY <1>1, <1>4, <2>1, <2>2, <2>4, OtherStep
<1>5. CASE a \notin meta_page /\ CdAdvance(j) /\ UNCHANGED vars
  <2>1. Safe' /\ (Core => Core') /\ early' = early
        /\ cond' = cond /\ inGc' = inGc /\ meta_page' = meta_page
    BY <1>2, <1>5, VarsKept
  <2>2. Lists'
    BY <1>1, <1>2, <1>5, AdvancedLists
  <2>3. ASSUME ~ shared', ~ early' PROVE Core' /\ Apart' /\ PassedIsDead'
    <3>1. Calm /\ Core /\ Apart
      BY <1>1, <2>1, <2>3 DEF CInv, Calm, Reopens
    <3>2. HandKept
      BY <2>1, <3>1 DEF HandKept, Left, Apart
    <3>3. CdAt(j) \notin meta_page'
      BY <1>5, <2>1 DEF a
    <3> QED BY <1>1, <1>5, <2>1, <3>1, <3>2, <3>3, Advanced
  <2> QED BY <2>1, <2>2, <2>3 DEF CInv, Calm
<1> QED BY <1>3, <1>4, <1>5 DEF CdPage, a

(* Once the scan of a zone is over no bit of it is set: the three steps    *)
(* that give the zone back lose nothing.                                   *)
LEMMA NothingLeft ==
  ASSUME CInv, Calm, NEW j \in Jobs, rest[j] # {}, cdPos[j] \in Cap .. Cap + 2
  PROVE  NoBits(Min(rest[j]))
BY ConstantsOK DEF CInv, PassedIsDead, NoBits, Slots

(* What such a step keeps of Core.                                         *)
LEMMA GivenBackCore ==
  ASSUME Core, NEW z \in Zones, ~ inGc[z], UNCHANGED <<gcVars, fault>>,
         ZoneShape', Reads', Bits', \A y \in Zones : y # z => Left(y)
  PROVE  Core'
<1>1. inGc' = inGc /\ gcPos' = gcPos /\ fault' = fault
  BY DEF gcVars
<1>2. Dead'
  BY <1>1 DEF Core, Dead, Left, Zones, Slots
<1> QED BY <1>1, <1>2 DEF Core, GcIdle, Zones

LEMMA GivenBackSafe ==
  ASSUME Safe, Sound', Stored', Table' = Table,
         UNCHANGED <<gcVars, fault, promised, early>>
  PROVE  Safe'
<1>1. Aside' /\ FaultType'
  BY DEF Safe, Aside, FaultType, gcVars, Zones
<1>2. MappedIffPromised'
  BY DEF Safe, MappedIffPromised
<1> QED BY <1>1, <1>2 DEF Safe

(* The reset and the rewind: the zone is still the thread's, and empty.    *)
LEMMA EmptyInHand ==
  ASSUME CInv, Calm, NEW j \in Jobs, rest[j] # {}, rest' = rest, CdAdvance(j),
         cdPos[j] \in {Cap, Cap + 1}, inGc' = inGc,
         cond'[Min(rest[j])] = "EMPTY", NoBits(Min(rest[j]))',
         \A y \in Zones : y # Min(rest[j]) => Left(y)
  PROVE  Apart' /\ PassedIsDead'
<1> DEFINE z == Min(rest[j])
<1>1. /\ cdPos \in [Jobs -> -1 .. Cap + 2] /\ Cap \in Nat
      /\ rest \in [Jobs -> SUBSET Zones] /\ Apart /\ PassedIsDead
      /\ z \in rest[j] /\ z \in Zones
  BY ConstantsOK, FirstOf DEF CInv, Lists
<1> HIDE DEF z
<1>2. /\ cdPos'[j] > Cap /\ \A i \in Jobs : i # j => cdPos'[i] = cdPos[i]
  BY <1>1 DEF CdAdvance
<1>3. \A i \in Jobs : \A y \in rest[i] : y = z <=> i = j /\ y = Min(rest[j])
  BY <1>1 DEF Apart, z
<1>4. \A i \in Jobs : \A y \in rest[i] : y \in Zones /\ (y # z => Left(y))
  BY <1>1 DEF z
<1>5. Apart'
  <2>1. ASSUME NEW i \in Jobs, NEW y \in rest[i]
        PROVE  /\ cond'[y] = IF y = Min(rest[i]) /\ cdPos'[i] > Cap
                             THEN "EMPTY" ELSE "FULL"
               /\ ~ inGc'[y]
    <3>1. CASE y = z
      BY <1>1, <1>2, <1>3, <2>1, <3>1 DEF Apart, z
    <3>2. CASE y # z
      <4>1. cond'[y] = cond[y]
        BY <1>4, <2>1, <3>2 DEF Left
      <4>2. cond[y] = IF y = Min(rest[i]) /\ cdPos[i] > Cap THEN "EMPTY" ELSE "FULL"
        BY <1>1, <2>1 DEF Apart
      <4>3. ~ inGc'[y]
        BY <1>1, <2>1 DEF Apart
      <4>4. y = Min(rest[i]) => cdPos'[i] = cdPos[i]
        BY <1>2, <3>2 DEF z
      <4> QED BY <4>1, <4>2, <4>3, <4>4
    <3> QED BY <3>1, <3>2
  <2> QED BY <1>1, <2>1 DEF Apart, Jobs
<1>6. ASSUME NEW i \in Jobs, rest[i] # {}, NEW k \in Slots, k < cdPos'[i]
      PROVE  <<Min(rest[i]), k>> \notin meta_page'
  <2>1. CASE i = j
    BY <2>1 DEF NoBits, Slots
  <2>2. CASE i # j
    <3>1. Min(rest[i]) \in rest[i]
      BY <1>1, <1>6, FirstOf
    <3>2. Left(Min(rest[i]))
      BY <1>3, <1>4, <2>2, <3>1
    <3>3. <<Min(rest[i]), k>> \notin meta_page
      BY <1>1, <1>2, <1>6, <2>2 DEF PassedIsDead
    <3> QED BY <3>2, <3>3 DEF Left
  <2> QED BY <2>1, <2>2
<1>7. PassedIsDead'
  BY <1>6 DEF PassedIsDead, Jobs, Slots
<1> QED BY <1>5, <1>7

LEMMA CdResetCInv ==
  ASSUME CInv, NEW j \in Jobs, CdReset(j)
  PROVE  CInv'
<1> DEFINE z == Min(rest[j])
<1>1. /\ rest[j] # {} /\ cdPos[j] = Cap /\ CdAdvance(j) /\ Emptied(z)
      /\ cond' = [cond EXCEPT ![z] = "EMPTY"] /\ meta_page' = meta_page
      /\ Table' = Table /\ inGc' = inGc
      /\ UNCHANGED <<gcVars, fault, promised, early, rest, shared>>
  BY DEF CdReset, Working, FirstZone, Emptied, gcVars
<1>2. /\ Lists /\ Safe /\ z \in rest[j] /\ z \in Zones /\ shared' \in BOOLEAN
      /\ cond \in [Zones -> {"EMPTY", "OPEN", "FULL"}]
      /\ cdPos[j] \in 0 .. Cap + 1 /\ cdPos[j] \in Cap .. Cap + 2
  BY <1>1, FirstOf, ConstantsOK DEF CInv, Lists, Safe, Sound
<1> HIDE DEF z
<1>3. Lists'
  BY <1>1, <1>2, AdvancedLists
<1>4. Safe'
  BY <1>1, <1>2, EmptiedSafe, GivenBackSafe DEF Safe
<1>5. ASSUME Calm PROVE Core' /\ Apart' /\ PassedIsDead'
  <2>1. Core /\ ~ inGc[z]
    BY <1>2, <1>5 DEF CInv, Apart
  <2>2. NoBits(z) /\ NoBits(z)'
    <3>1. NoBits(z)
      BY <1>1, <1>2, <1>5, NothingLeft DEF z
    <3> QED BY <1>1, <3>1 DEF NoBits, Slots, z
  <2>3. ZoneShape' /\ Reads' /\ Bits' /\ \A y \in Zones : y # z => Left(y)
    BY <1>1, <1>2, <2>1, <2>2, EmptiedCore
  <2>4. Core'
    BY <1>1, <1>2, <2>1, <2>3, GivenBackCore
  <2>5. cond'[z] = "EMPTY"
    BY <1>1, <1>2
  <2>6. Apart' /\ PassedIsDead'
    <3>1. NoBits(Min(rest[j]))' /\ cond'[Min(rest[j])] = "EMPTY"
          /\ \A y \in Zones : y # Min(rest[j]) => Left(y)
      BY <2>2, <2>3, <2>5 DEF z
    <3> QED BY <1>1, <1>5, <3>1, EmptyInHand
  <2> QED BY <2>4, <2>6
<1> QED BY <1>1, <1>3, <1>4, <1>5 DEF CInv, Calm

LEMMA CdRewindCInv ==
  ASSUME CInv, NEW j \in Jobs, CdRewind(j)
  PROVE  CInv'
<1> DEFINE z == Min(rest[j])
<1>1. /\ rest[j] # {} /\ cdPos[j] = Cap + 1 /\ CdAdvance(j) /\ rewind(z)
      /\ UNCHANGED <<cond, cf, mapVars, promised>>
      /\ meta_page' = meta_page /\ Table' = Table /\ inGc' = inGc
      /\ UNCHANGED <<gcVars, fault, promised, early, rest, shared>>
  BY DEF CdRewind, Working, FirstZone, gcVars, mapVars
<1>2. /\ Lists /\ Safe /\ z \in rest[j] /\ z \in Zones /\ shared' \in BOOLEAN
      /\ cdPos[j] \in 0 .. Cap + 1 /\ cdPos[j] \in Cap .. Cap + 2 /\ cdPos[j] > Cap
  BY <1>1, FirstOf, ConstantsOK DEF CInv, Lists
<1> HIDE DEF z
<1>3. Lists'
  BY <1>1, <1>2, AdvancedLists
<1>4. Safe'
  BY <1>1, <1>2, RewoundSafe, GivenBackSafe DEF Safe
<1>5. ASSUME Calm PROVE Core' /\ Apart' /\ PassedIsDead'
  <2>1. Core /\ ~ inGc[z] /\ cond[z] = "EMPTY"
    BY <1>2, <1>5 DEF CInv, Apart, z
  <2>2. NoBits(z) /\ NoBits(z)'
    <3>1. NoBits(z)
      BY <1>1, <1>2, <1>5, NothingLeft DEF z
    <3> QED BY <1>1, <3>1 DEF NoBits, Slots, z
  <2>3. ZoneShape' /\ Reads' /\ Bits' /\ \A y \in Zones : Left(y)
    BY <1>1, <1>2, <2>1, <2>2, RewoundCore
  <2>4. Core'
    BY <1>1, <1>2, <2>1, <2>3, GivenBackCore
  <2>5. Apart' /\ PassedIsDead'
    <3>1. NoBits(Min(rest[j]))' /\ cond'[Min(rest[j])] = "EMPTY"
          /\ \A y \in Zones : y # Min(rest[j]) => Left(y)
      BY <1>1, <2>1, <2>2, <2>3 DEF z
    <3> QED BY <1>1, <1>5, <3>1, EmptyInHand
  <2> QED BY <2>4, <2>5
<1> QED BY <1>1, <1>3, <1>4, <1>5 DEF CInv, Calm

(* The sweep takes the zone off the list; what is left of it is full.      *)
LEMMA CdSweepCInv ==
  ASSUME CInv, NEW j \in Jobs, CdSweep(j)
  PROVE  CInv'
<1> DEFINE z == Min(rest[j])
<1>1. /\ rest[j] # {} /\ cdPos[j] = Cap + 2 /\ clear_bits(z)
      /\ rest' = [rest EXCEPT ![j] = @ \ {z}]
      /\ cdPos' = [cdPos EXCEPT ![j] = IF rest[j] = {z} THEN -1 ELSE 0]
      /\ UNCHANGED <<zoneVars, Table, dev, promised>>
      /\ Table' = Table /\ inGc' = inGc /\ cond' = cond
      /\ UNCHANGED <<gcVars, fault, promised, early, shared>>
  BY DEF CdSweep, Working, LastZone, FirstZone, gcVars, zoneVars
<1>2. /\ Lists /\ Safe /\ z \in rest[j] /\ z \in Zones
      /\ cdPos[j] \in Cap .. Cap + 2
      /\ rest \in [Jobs -> SUBSET Zones] /\ cdPos \in [Jobs -> -1 .. Cap + 2]
      /\ Cap \in Nat /\ 0 \in -1 .. Cap + 2 /\ -1 \in -1 .. Cap + 2
  BY <1>1, FirstOf, ConstantsOK DEF CInv, Lists
<1> HIDE DEF z
<1>3. /\ rest'[j] = rest[j] \ {z}
      /\ cdPos'[j] = IF rest[j] = {z} THEN -1 ELSE 0
      /\ \A i \in Jobs : i # j => rest'[i] = rest[i] /\ cdPos'[i] = cdPos[i]
  BY <1>1, <1>2
<1>4. Lists'
  <2>1. rest' \in [Jobs -> SUBSET Zones]
    BY <1>1, <1>2
  <2>2. cdPos' \in [Jobs -> -1 .. Cap + 2]
    BY <1>1, <1>2
  <2>3. \A i \in Jobs : rest'[i] = {} => cdPos'[i] = -1
    BY <1>2, <1>3 DEF Lists
  <2> QED BY <1>1, <1>2, <2>1, <2>2, <2>3 DEF Lists, Jobs, Zones
<1>5. Safe'
  BY <1>1, <1>2, SweptSafe, GivenBackSafe DEF Safe
<1>6. ASSUME Calm PROVE Core' /\ Apart' /\ PassedIsDead'
  <2>1. Core /\ ~ inGc[z] /\ Apart /\ PassedIsDead
    BY <1>2, <1>6 DEF CInv, Apart
  <2>2. NoBits(z)
    BY <1>1, <1>2, <1>6, NothingLeft DEF z
  <2>3. /\ ZoneShape' /\ Reads' /\ Bits' /\ meta_page' = meta_page
        /\ \A y \in Zones : Left(y)
    BY <1>1, <1>2, <2>1, <2>2, SweptCore
  <2>4. Core'
    BY <1>1, <1>2, <2>1, <2>3, GivenBackCore
  <2>5. Apart'
    <3>1. ASSUME NEW i \in Jobs, NEW y \in rest'[i]
          PROVE  /\ cond[y] = IF y = Min(rest'[i]) /\ cdPos'[i] > Cap
                              THEN "EMPTY" ELSE "FULL"
                 /\ ~ inGc[y]
      <4>1. CASE i = j
        <5>1. y \in rest[j] /\ y # z /\ ~ (cdPos'[j] > Cap)
          BY <1>2, <1>3, <3>1, <4>1
        <5> QED BY <2>1, <4>1, <5>1 DEF Apart, z
      <4>2. CASE i # j
        BY <1>3, <2>1, <3>1, <4>2 DEF Apart
      <4> QED BY <4>1, <4>2
    <3>2. \A i, k \in Jobs : i # k => rest'[i] \cap rest'[k] = {}
      BY <1>3, <2>1 DEF Apart
    <3> QED BY <1>1, <3>1, <3>2 DEF Apart, Jobs
  <2>6. PassedIsDead'
    <3>1. ASSUME NEW i \in Jobs, rest'[i] # {}, NEW k \in Slots, k < cdPos'[i]
          PROVE  <<Min(rest'[i]), k>> \notin meta_page
      <4>1. i # j
        BY <1>3, <3>1 DEF Slots
      <4> QED BY <1>3, <2>1, <3>1, <4>1 DEF PassedIsDead
    <3> QED BY <2>3, <3>1 DEF PassedIsDead, Jobs, Slots
  <2> QED BY <2>4, <2>5, <2>6
<1> QED BY <1>1, <1>4, <1>5, <1>6 DEF CInv, Calm

LEMMA ColdNextInv == CInv /\ [ColdNext]_allVars => CInv'
<1> SUFFICES ASSUME CInv, [ColdNext]_allVars PROVE CInv'
  OBVIOUS
<1>1. CASE UNCHANGED allVars
  BY <1>1, ColdStutter DEF allVars, coldVars
<1>2. ASSUME NEW j \in Jobs, Restructurer(j) PROVE CInv'
  BY <1>2, CdStartCInv, CdPageCInv, CdResetCInv, CdRewindCInv, CdSweepCInv
     DEF Restructurer
<1> QED BY <1>1, <1>2, WriteCInv, CdDetectCInv, GcDetectCInv, CollectorCInv
     DEF ColdNext, Detections

------------------------------------------------------------------------------
(***************************************************************************)
(* The theorems.                                                           *)
(***************************************************************************)
(* As long as no detection has given a zone to two threads, and no zone    *)
(* was opened early, the controller is as correct with restructuring       *)
(* threads as without, and these own their zones alone.                    *)
THEOREM ColdSpecInv == ColdSpec => []CInv
<1>1. ColdInit => CInv
  BY ColdInitInv
<1>2. CInv /\ [ColdNext]_allVars => CInv'
  BY ColdNextInv
<1> QED BY <1>1, <1>2, PTL DEF ColdSpec

(* Until then reads are right, the bitmap agrees with the table, set_valid *)
(* does not abort, and what the scans of both kinds of threads have passed *)
(* is dead.                                                                *)
THEOREM SpecSafeApart == ColdSpec => []SafeApart
<1>1. CInv => SafeApart
  <2> SUFFICES ASSUME CInv, ~ shared, ~ early
               PROVE  /\ ReadsLatest /\ BitsMatchTable /\ CollectedIsDead
                      /\ fault # "bit"
                      /\ \A j \in Jobs : \A z \in rest[j] :
                           /\ cond[z] = IF z = FirstZone(j) /\ cdPos[j] > Cap
                                        THEN "EMPTY" ELSE "FULL"
                           /\ z = FirstZone(j) =>
                                \A k \in Slots : k < cdPos[j] =>
                                  <<z, k>> \notin meta_page
    BY DEF SafeApart
  <2>1. Core /\ Apart /\ PassedIsDead
    BY DEF CInv, Calm
  <2>2. ReadsLatest /\ BitsMatchTable /\ CollectedIsDead /\ fault # "bit"
    BY <2>1 DEF Core, Reads, Bits, Dead, ReadsLatest, BitsMatchTable,
                CollectedIsDead, read_page
  <2> QED BY <2>1, <2>2 DEF Apart, PassedIsDead, FirstZone
<1> QED BY <1>1, ColdSpecInv, PTL

(* The inductive invariant is stronger than SafeApart: no zone is in two   *)
(* lists, or in a list and under collection, before shared or early says   *)
(* so.                                                                     *)
THEOREM SpecApart == ColdSpec => [](~ shared /\ ~ early => Apart)
<1>1. CInv => (~ shared /\ ~ early => Apart)
  BY DEF CInv, Calm
<1> QED BY <1>1, ColdSpecInv, PTL

(* valid_page counts the bits of each zone, whether or not zones are       *)
(* shared.                                                                 *)
THEOREM SpecColdValidCount == ColdSpec => []ValidCount
<1>1. CInv => ValidCount
  BY DEF CInv, Safe, Sound
<1> QED BY <1>1, ColdSpecInv, PTL

ColdTypes ==
  /\ Cd \in BOOLEAN
  /\ last \in [Zones -> (0 .. Cap) \cup {Unset}]
  /\ main \in {"idle", "cd", "gc"}
  /\ calls \in 0 .. MaxCalls

LEMMA NextColdTypes ==
  ASSUME CInv, ColdTypes, [ColdNext]_allVars
  PROVE  ColdTypes'
<1>1. ASSUME NEW z \in Zones PROVE Rate(z) \in (0 .. Cap) \cup {Unset}
  <2>1. valid_page[z] \in 0 .. Cap
    BY DEF CInv, Safe, Sound
  <2> QED BY <2>1, ConstantsOK DEF Rate
<1>2. ASSUME Called PROVE calls' \in 0 .. MaxCalls
  BY <1>2, RestructOK DEF Called, ColdTypes
<1>3. CASE Insert \/ Evict
  BY <1>2, <1>3 DEF Insert, Evict, ColdTypes, Zones
<1>4. CASE cd_detect
  <2>1. last' \in [Zones -> (0 .. Cap) \cup {Unset}]
    BY <1>1, <1>4 DEF cd_detect, ColdTypes
  <2> QED BY <1>4, <2>1 DEF cd_detect, ColdTypes, Zones
<1>5. CASE GcDetect
  BY <1>5 DEF GcDetect, ColdTypes, Zones
<1>6. CASE \E z \in Zones : ColdCollector(z)
  BY <1>6 DEF ColdCollector, ColdTypes, Zones
<1>7. CASE \E j \in Jobs : Restructurer(j)
  BY <1>7 DEF Restructurer, CdStart, CdPage, CdReset, CdRewind, CdSweep, CdAfter,
              ColdTypes, Zones
<1>8. CASE UNCHANGED allVars
  BY <1>8 DEF allVars, coldVars, ColdTypes, Zones
<1> QED BY <1>3, <1>4, <1>5, <1>6, <1>7, <1>8 DEF ColdNext, Detections

(* Every variable has its type, whether or not zones are shared: even a    *)
(* zone that two threads reset, reopened in between, is written within its *)
(* capacity.                                                               *)
THEOREM SpecColdTypeOK == ColdSpec => []ColdTypeOK
<1>1. ColdInit => ColdTypes
  <2>1. 0 \in 0 .. MaxCalls
    BY RestructOK
  <2> QED BY <2>1 DEF ColdInit, ColdTypes
<1>2. CInv /\ ColdTypes /\ [ColdNext]_allVars => ColdTypes'
  BY NextColdTypes
<1>3. CInv /\ ColdTypes => ColdTypeOK
  <2>1. CInv => TypeOK
    BY TypeParts DEF CInv, Safe, Sound
  <2> QED BY <2>1 DEF CInv, Lists, ColdTypes, ColdTypeOK
<1> QED BY <1>1, <1>2, <1>3, ColdSpecInv, PTL DEF ColdSpec
==============================================================================
