---------------------------- MODULE ColdRestruct ----------------------------
(***************************************************************************)
(* Cold data restructuring of src/src/zController.cpp: the second kind of  *)
(* background thread, beside the collectors of ZNSController, with the     *)
(* flags Gc and Cd by which the two kinds and the main thread mean to keep *)
(* out of each other's way.  cd_detect starts a thread for a list of       *)
(* zones; the thread moves the valid pages of each to stream 0 and resets  *)
(* it.                                                                     *)
(*                                                                         *)
(* The grain is that of ZNSController: a detection is one step once its    *)
(* wait is over, a restructuring thread takes one step per page and three  *)
(* to give a zone back, as a collector does.  A thread sets its flag in a  *)
(* first step of its own, some time after it was started: that gap is what *)
(* this module is about.  A scan for a zone to write to misses zones of    *)
(* other threads beside a collector only, as in ZNSController.             *)
(*                                                                         *)
(* gc_rate is counted in invalid pages, Cap - valid_page.                  *)
(***************************************************************************)
EXTENDS ZNSController, FiniteSetsExt

CONSTANTS
  ColdStep,     \* a growth of gc_rate below 0.005 is one of at most ColdStep
  MinRestruct,  \* 3: the shortest list a thread is started for
  MaxJobs,      \* bound: restructuring threads at one time
  MaxCalls,     \* bound: writes of the main thread
  Unset         \* gc_rate_last before it is first assigned

Jobs == 1 .. MaxJobs

ASSUME RestructOK ==
  /\ ColdStep \in Nat
  /\ MinRestruct \in Nat \ {0}
  /\ MaxJobs \in Nat \ {0}
  /\ MaxCalls \in Nat
  /\ Unset \notin Int

VARIABLES
  Cd,           \* Cd
  rest,         \* the zones thread j has still to restructure
  cdPos,        \* where it is in the first of them; -1 before it has set
                \* Cd, Cap + 1 and Cap + 2 once the zone is reset
  last,         \* Zone[z].gc_rate_last
  main,         \* the detection the main thread is in: "cd", "gc" or "idle"
  shared,       \* history: some zone was given to two threads, or was
                \* opened again before its thread had done with it
  calls         \* counts up to MaxCalls

coldVars == <<Cd, rest, cdPos, last, main, shared, calls>>
allVars  == <<vars, coldVars>>

ColdInit ==
  /\ Init
  /\ Cd = FALSE
  /\ rest = [j \in Jobs |-> {}]
  /\ cdPos = [j \in Jobs |-> -1]
  /\ last = [z \in Zones |-> Unset]
  /\ main = "idle"
  /\ shared = FALSE
  /\ calls = 0

------------------------------------------------------------------------------
(***************************************************************************)
(* The main thread.  A write ends an eviction, in which case one or both   *)
(* detections follow, or it does not: it is one of several, or one of      *)
(* clean_buffer.  Whether cd_count has passed cd_interval is left open:    *)
(* cd_count starts with any value.  Once a page is lost Place is exact for *)
(* single pages only: hence the bound on n, as in ZNSController.           *)
(***************************************************************************)
Called == calls < MaxCalls /\ calls' = calls + 1

(* This step opens a zone that a restructuring thread has just reset.      *)
Reopens ==
  shared' = (shared \/ \E j \in Jobs : \E z \in rest[j] :
                         cond[z] = "EMPTY" /\ cond'[z] # "EMPTY")

Insert ==
  /\ main = "idle" /\ Called
  /\ \E p \in Pages, v \in Vals : create_new_page(p, v)
  /\ Reopens
  /\ UNCHANGED <<Cd, rest, cdPos, last, main>>

Evict ==
  /\ main = "idle" /\ Called
  /\ \/ \E c \in 0 .. ClusterNum - 1, p \in Pages, v \in Vals :
          write_page(c, p, v)
     \/ \E c \in 0 .. ClusterNum - 1, n \in 0 .. MaxCluster :
          /\ shared \/ early => n <= 1
          /\ \E pl \in [1 .. n -> Pages], vl \in [1 .. n -> Vals] :
               write_cluster(c, n, pl, vl)
  /\ main' \in {"idle", "cd", "gc"}
  /\ Reopens
  /\ UNCHANGED <<Cd, rest, cdPos, last>>

Working(j) == rest[j] # {}
InHand(z)  == inGc[z] \/ \E j \in Jobs : z \in rest[j]

(* What gc_rate_last becomes.  gc_rate of an empty zone is 0, or was never *)
(* assigned either; that of a zone just reset is some older rate.          *)
Rate(z) == IF cond[z] # "EMPTY" THEN Cap - valid_page[z]
           ELSE IF last[z] = Unset \/ InHand(z) THEN Unset ELSE 0

(* A full zone of low use whose gc_rate has grown, but little; the value   *)
(* of a gc_rate_last that was never assigned may say so or not.            *)
ColdUsed(z) == cond[z] = "FULL" /\ 5 * wp[z] * valid_page[z] < 3 * Cap * Cap
Grown(z)    == last[z] # Unset /\ Rate(z) - last[z] \in 1 .. ColdStep
Cold        == {z \in Zones : ColdUsed(z) /\ Grown(z)}
MaybeCold   == {z \in Zones : ColdUsed(z) /\ (Grown(z) \/ last[z] = Unset)}

(* while (Gc == 1); then nothing if Cd is set, else perhaps a new thread.  *)
cd_detect ==
  /\ Running /\ main = "cd" /\ ~ Gc
  /\ main' = "gc"
  /\ IF Cd THEN UNCHANGED <<rest, last, shared>>
     ELSE \E C \in SUBSET MaybeCold :
            /\ Cold \subseteq C
            /\ IF Cardinality(C) >= MinRestruct
               THEN \E j \in Jobs :
                      /\ ~ Working(j)
                      /\ rest' = [rest EXCEPT ![j] = C]
                      /\ shared' = (shared \/ \E z \in C : InHand(z))
               ELSE UNCHANGED <<rest, shared>>
            /\ last' = [z \in Zones |-> Rate(z)]
  /\ UNCHANGED <<vars, Cd, cdPos, calls>>

(* while (Cd == 1); then the detection of ZNSController, if Gc is not set. *)
GcDetect ==
  /\ Running /\ main = "gc" /\ ~ Cd
  /\ main' = "idle"
  /\ IF Gc THEN UNCHANGED <<vars, shared>>
     ELSE /\ garbage_collection_detect
          /\ shared' = (shared \/ \E z \in Zones : Collectable(z) /\ InHand(z))
  /\ UNCHANGED <<Cd, rest, cdPos, last, calls>>

------------------------------------------------------------------------------
(***************************************************************************)
(* cold_data_restruct(restruct), thread j.                                 *)
(***************************************************************************)
FirstZone(j) == Min(rest[j])
CdAt(j) == <<FirstZone(j), cdPos[j]>>

(* Mutant: the scan begins one page after the start of the first zone.     *)
CdStartSecond(j) ==
  /\ Running /\ Working(j) /\ cdPos[j] = -1
  /\ Cd' = TRUE
  /\ cdPos' = [cdPos EXCEPT ![j] = 1]
  /\ UNCHANGED <<vars, rest, last, main, shared, calls>>

CdStart(j) ==
  /\ Running /\ Working(j) /\ cdPos[j] = -1
  /\ Cd' = TRUE
  /\ cdPos' = [cdPos EXCEPT ![j] = 0]
  /\ UNCHANGED <<vars, rest, last, main, shared, calls>>

InZone(j) == cdPos[j] \in Slots

CdAdvance(j) == cdPos' = [cdPos EXCEPT ![j] = @ + 1]

(* One turn of the scan of a zone: a valid page moves to stream 0.         *)
CdPage(j) ==
  /\ Running /\ Working(j) /\ InZone(j)
  /\ IF CdAt(j) \in meta_page
     THEN \/ /\ Copy(0, CdAt(j))
             /\ CdAdvance(j)
             /\ UNCHANGED <<gcVars, fault, promised>>
          \/ CopyAborts(0, CdAt(j)) /\ UNCHANGED cdPos
     ELSE /\ CdAdvance(j)
          /\ UNCHANGED vars
  /\ Reopens
  /\ UNCHANGED <<Cd, rest, last, main, calls>>

LastZone(j) == rest[j] = {FirstZone(j)}

(* Mutant: Cd stays set when the thread ends.                              *)
CdKept(j) == Cd

CdAfter(j) == Cd /\ ~ LastZone(j)

(* The zone is reset and given up...                                       *)
CdReset(j) ==
  LET z == FirstZone(j) IN
  /\ Running /\ Working(j) /\ cdPos[j] = Cap
  /\ reset_zone(z)
  /\ cond' = [cond EXCEPT ![z] = "EMPTY"]
  /\ cf' = [cf EXCEPT ![z] = -1]
  /\ CdAdvance(j)
  /\ UNCHANGED <<wp, valid_page, meta_page, Table, gcVars, fault, promised, early,
                 Cd, rest, last, main, shared, calls>>

(* ... then its write pointer is taken back...                             *)
CdRewind(j) ==
  /\ Running /\ Working(j) /\ cdPos[j] = Cap + 1
  /\ rewind(FirstZone(j))
  /\ CdAdvance(j)
  /\ UNCHANGED <<cond, cf, mapVars, gcVars, fault, promised, early,
                 Cd, rest, last, main, shared, calls>>

(* ... and its bits are cleared; after the last zone the thread ends.      *)
CdSweep(j) ==
  /\ Running /\ Working(j) /\ cdPos[j] = Cap + 2
  /\ clear_bits(FirstZone(j))
  /\ rest' = [rest EXCEPT ![j] = @ \ {FirstZone(j)}]
  /\ cdPos' = [cdPos EXCEPT ![j] = IF LastZone(j) THEN -1 ELSE 0]
  /\ Cd' = CdAfter(j)
  /\ UNCHANGED <<zoneVars, Table, dev, gcVars, fault, promised, early,
                 last, main, shared, calls>>

------------------------------------------------------------------------------
Detections == cd_detect \/ GcDetect
Restructurer(j) == CdStart(j) \/ CdPage(j) \/ CdReset(j) \/ CdRewind(j) \/ CdSweep(j)
ColdCollector(z) ==
  Collector(z) /\ Reopens /\ UNCHANGED <<Cd, rest, cdPos, last, main, calls>>

ColdNext ==
  \/ Insert \/ Evict \/ Detections
  \/ \E z \in Zones : ColdCollector(z)
  \/ \E j \in Jobs : Restructurer(j)

ColdSpec == ColdInit /\ [][ColdNext]_allVars

(* Every thread keeps running, the main thread in its waits too.           *)
ColdFairSpec ==
  /\ ColdSpec
  /\ WF_allVars(Detections)
  /\ \A z \in Zones : WF_allVars(ColdCollector(z))
  /\ \A j \in Jobs : WF_allVars(Restructurer(j))

------------------------------------------------------------------------------
(* Every variable has its type; wp and valid_page stay within the zone     *)
(* even when two threads reset it.                                         *)
ColdTypeOK ==
  /\ TypeOK
  /\ Cd \in BOOLEAN
  /\ rest \in [Jobs -> SUBSET Zones]
  /\ cdPos \in [Jobs -> -1 .. Cap + 2]
  /\ last \in [Zones -> (0 .. Cap) \cup {Unset}]
  /\ main \in {"idle", "cd", "gc"}
  /\ shared \in BOOLEAN
  /\ calls \in 0 .. MaxCalls

(* As long as no zone was given to two threads, or opened again before the *)
(* thread that reset it had done with it, restructuring is as safe as      *)
(* collection: reads are right, the bitmap matches the table, set_valid    *)
(* does not abort, zones in hand are full until they are reset, and what a *)
(* scan has passed is dead.                                                *)
SafeApart ==
  ~ shared /\ ~ early =>
    /\ ReadsLatest
    /\ BitsMatchTable
    /\ CollectedIsDead
    /\ fault # "bit"
    /\ \A j \in Jobs : \A z \in rest[j] :
         /\ cond[z] = IF z = FirstZone(j) /\ cdPos[j] > Cap THEN "EMPTY" ELSE "FULL"
         /\ z = FirstZone(j) =>
              \A k \in Slots : k < cdPos[j] => <<z, k>> \notin meta_page

(* assert( *read_id == page_id) in BufferManager::read_page: at any time   *)
(* the device returns the page that is asked for.                          *)
ReadIdMatches ==
  \A p \in Pages : Table[p] # NoAddr =>
    read_page(p) # NoData /\ read_page(p)[1] = p

(* The main thread's waits for Gc and Cd end, unless the program aborts.   *)
WaitsEnd == main # "idle" ~> (main = "idle" \/ ~ Running)
==============================================================================
