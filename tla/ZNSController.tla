---------------------------- MODULE ZNSController ----------------------------
(***************************************************************************)
(* The zone controller of src/src/zController.cpp: the page table, the     *)
(* validity bitmap, the zone descriptors, the foreground writes, and one   *)
(* background thread per zone under garbage collection.                    *)
(*                                                                         *)
(* Granularity.  A foreground call (create_new_page, write_page,           *)
(* write_cluster, garbage_collection_detect) is one step; a collector      *)
(* thread takes one step per page it scans, and three to give the zone     *)
(* back: it is reset and free again before its write pointer is taken back *)
(* and its bits are cleared.  Calls and collector steps interleave freely. *)
(* ZNSThreads takes the steps within a call apart.                         *)
(*                                                                         *)
(* Units.  An address is <<zone, page slot>>; Cap, wp and cluster sizes    *)
(* count pages.                                                            *)
(***************************************************************************)
EXTENDS Integers, FiniteSets

CONSTANTS
  MaxZoneNum,   \* MAX_ZONE_NUM: the number of zones
  Cap,          \* cap / PAGE_SIZE: the pages a zone is filled with
  ClusterNum,   \* cluster_num: write streams, one set of open zones each
  MaxCluster,   \* the largest cluster_size given to write_cluster
  GcValid,      \* gc_rate > 0.85 holds for a zone with valid_page <= GcValid
  Pages,        \* the page ids of the workload
  Vals,         \* the contents of a page
  NoAddr,       \* a page with no entry in Table
  NoData,       \* the contents of a slot not written since the last reset
  Absent        \* a page that was never inserted

Zones == 0 .. MaxZoneNum - 1
Slots == 0 .. Cap - 1
Addr  == Zones \X Slots

ASSUME ConstantsOK ==
  /\ MaxZoneNum \in Nat
  /\ Cap \in Nat \ {0}
  /\ ClusterNum \in Nat \ {0}
  /\ MaxCluster \in Nat \ {0} /\ MaxCluster <= Cap
  /\ GcValid \in Nat
  /\ NoAddr \notin Addr
  /\ NoData \notin Pages \X Vals
  /\ Absent \notin Vals

VARIABLES
  cond,         \* Zone[z].cond, the controller's copy of the condition
  wp,           \* Zone[z].wp - Zone[z].ofst
  cf,           \* Zone[z].cf, the stream of the zone, -1 for none
  valid_page,   \* Zone[z].valid_page
  inGc,         \* Zone[z].inGc
  Gc,           \* Gc
  meta_page,    \* the addresses whose validity bit is set
  Table,        \* the address of each page
  dev,          \* the device: what is stored at each address
  gcPos,        \* the collector of zone z: -1 before its first step, then
                \* the next slot it looks at; Cap + 1 and Cap + 2 when it
                \* has reset the zone, and taken wp back
  fault,        \* the assertion that ended the program: "no zone" in
                \* select_write_zone, "bit" in set_valid, "pwrite" of what
                \* pwrite64 returns; "lookup", the exception of Table.find
                \* for a page it does not have; or "none"
  promised,     \* history: what the callers wrote last to each page
  early         \* history: some zone was opened again before its collector
                \* had done with it

zoneVars == <<cond, wp, cf>>
mapVars  == <<valid_page, meta_page, Table, dev>>
gcVars   == <<inGc, Gc, gcPos>>
vars     == <<zoneVars, mapVars, gcVars, fault, promised, early>>

SlotsOf(z) == {z} \X Slots

Init ==
  /\ cond = [z \in Zones |-> "EMPTY"]
  /\ wp = [z \in Zones |-> 0]
  /\ cf = [z \in Zones |-> -1]
  /\ valid_page = [z \in Zones |-> 0]
  /\ inGc = [z \in Zones |-> FALSE]
  /\ Gc = FALSE
  /\ meta_page = {}
  /\ Table = [p \in Pages |-> NoAddr]
  /\ dev = [a \in Addr |-> NoData]
  /\ gcPos = [z \in Zones |-> -1]
  /\ fault = "none"
  /\ promised = [p \in Pages |-> Absent]
  /\ early = FALSE

Running == fault = "none"

Abort(why) == /\ fault' = why
              /\ UNCHANGED <<zoneVars, mapVars, gcVars, promised, early>>

------------------------------------------------------------------------------
(***************************************************************************)
(* select_write_zone: the first open zone of the stream with room for n    *)
(* pages; open zones of the stream met before it are finished; with no     *)
(* such zone, the first empty zone is opened.  The two scans take no lock: *)
(* beside other threads they may miss a zone that one of them opens when   *)
(* the first scan has gone past it, and open a second zone of the stream.  *)
(***************************************************************************)
OpenFor(z, c)  == cond[z] = "OPEN" /\ cf[z] = c

(* Mutant: the capacity test is off by one page.                           *)
FitsOffByOne(z, c, n) == OpenFor(z, c) /\ wp[z] + n <= Cap + 1

Fits(z, c, n)  == OpenFor(z, c) /\ wp[z] + n <= Cap
Tight(z, c, n) == OpenFor(z, c) /\ wp[z] + n > Cap
Spare(z)       == cond[z] = "EMPTY" /\ cf[z] = -1

Beside == \E y \in Zones : inGc[y]

Target(c, n, z) ==
  \/ /\ Fits(z, c, n)
     /\ \A y \in Zones : Fits(y, c, n) => z <= y
  \/ /\ (\A y \in Zones : ~ Fits(y, c, n)) \/ Beside
     /\ Spare(z)
     /\ \A y \in Zones : Spare(y) => z <= y

NoTarget(c, n) ==
  /\ \A z \in Zones : ~ Spare(z)
  /\ (\A z \in Zones : ~ Fits(z, c, n)) \/ Beside

select_write_zone(c, n, z) ==
  /\ Target(c, n, z)
  /\ cond' = [y \in Zones |->
       IF y = z THEN "OPEN"
       ELSE IF Tight(y, c, n) /\ (Fits(z, c, n) => y < z) THEN "FULL"
       ELSE cond[y]]
  /\ cf' = [cf EXCEPT ![z] = c]

------------------------------------------------------------------------------
(***************************************************************************)
(* The common body of write_page, write_page_gc, write_cluster and         *)
(* create_new_page once the zone z is chosen: for i = 1 .. n, the old      *)
(* address of pl[i] is invalidated, the next slot of z becomes its address *)
(* and is made valid, and vl[i] is written there.  A page listed twice     *)
(* ends at the slot of its last occurrence.                                *)
(***************************************************************************)
Listed(n, pl) == {pl[i] : i \in 1 .. n}
LastOf(n, pl, p) == CHOOSE i \in 1 .. n :
                      pl[i] = p /\ \A j \in 1 .. n : pl[j] = p => j <= i

(* Mutant: the address is taken after the write pointer has moved.         *)
NewAddrAfterMove(z, n, pl, p) == <<z, wp[z] + LastOf(n, pl, p)>>

NewAddr(z, n, pl, p) == <<z, wp[z] + LastOf(n, pl, p) - 1>>

(* Mutant: valid_page is not decremented when a bit is cleared.            *)
OldInNowhere(y, W) == {}

OldIn(y, W) == {p \in W : Table[p] # NoAddr /\ Table[p][1] = y}

Place(z, n, pl, vl) ==
  LET W == Listed(n, pl) IN
  /\ Table' = [p \in Pages |-> IF p \in W THEN NewAddr(z, n, pl, p)
                                          ELSE Table[p]]
  /\ meta_page' = (meta_page \ {Table[p] : p \in W})
                    \cup {NewAddr(z, n, pl, p) : p \in W}
  /\ valid_page' = [y \in Zones |->
       valid_page[y] - Cardinality(OldIn(y, W))
         + (IF y = z THEN Cardinality(W) ELSE 0)]
  /\ dev' = [a \in Addr |->
       IF a[1] = z /\ a[2] \in wp[z] .. wp[z] + n - 1
       THEN <<pl[a[2] - wp[z] + 1], vl[a[2] - wp[z] + 1]>>
       ELSE dev[a]]
  /\ wp' = [wp EXCEPT ![z] = @ + n]

(* set_valid and set_valid_gc abort unless the bit they set changes.       *)
BitsFlip(z, n, pl) ==
  /\ \A p \in Listed(n, pl) : Table[p] # NoAddr => Table[p] \in meta_page
  /\ \A i \in 0 .. n - 1 : <<z, wp[z] + i>> \notin meta_page

(* The device takes a write at its own write pointer only.                 *)
AtPointer(z)   == \A k \in Slots : dev[<<z, k>>] # NoData <=> k < wp[z]
Accepts(z, n)  == n = 0 \/ AtPointer(z)

Write(c, n, pl, vl) ==
  \E z \in Zones : /\ select_write_zone(c, n, z)
                   /\ BitsFlip(z, n, pl)
                   /\ Accepts(z, n)
                   /\ Place(z, n, pl, vl)
                   /\ early' = (early \/ (Spare(z) /\ inGc[z]))

WriteAborts(c, n, pl) ==
  \/ /\ NoTarget(c, n)
     /\ Abort("no zone")
  \/ /\ \E z \in Zones : Target(c, n, z) /\ ~ BitsFlip(z, n, pl)
     /\ Abort("bit")
  \/ /\ \E z \in Zones : Target(c, n, z) /\ ~ Accepts(z, n)
     /\ Abort("pwrite")

Promise(n, pl, vl) ==
  promised' = [p \in Pages |-> IF p \in Listed(n, pl)
                               THEN vl[LastOf(n, pl, p)] ELSE promised[p]]

------------------------------------------------------------------------------
(***************************************************************************)
(* Foreground calls, made by the one thread that runs the buffer manager.  *)
(* Its workload inserts a page once and updates pages it has inserted:     *)
(* get_page_addr throws for any other page.                                *)
(***************************************************************************)
Foreground(c, n, pl, vl) ==
  \/ /\ Write(c, n, pl, vl)
     /\ Promise(n, pl, vl)
     /\ UNCHANGED <<gcVars, fault>>
  \/ WriteAborts(c, n, pl)

create_new_page(p, v) ==
  /\ Running
  /\ Table[p] = NoAddr
  /\ Foreground(0, 1, <<p>>, <<v>>)

write_page(c, p, v) ==
  /\ Running
  /\ Table[p] # NoAddr
  /\ Foreground(c, 1, <<p>>, <<v>>)

write_cluster(c, n, pl, vl) ==
  /\ Running
  /\ \A i \in 1 .. n : Table[pl[i]] # NoAddr
  /\ Foreground(c, n, pl, vl)

(* read_page: what pread returns at the address in Table.                  *)
read_page(p) == dev[Table[p]]

(* get_gc_info and the test on gc_rate.  ~ inGc makes the collector thread *)
(* of a zone unique, which is why its state can be indexed by the zone.    *)

(* Mutant: a zone need not be full to be collected.                        *)
CollectableOpen(z) ==
  cond[z] # "EMPTY" /\ valid_page[z] <= GcValid /\ ~ inGc[z]

Collectable(z) == cond[z] = "FULL" /\ valid_page[z] <= GcValid /\ ~ inGc[z]

garbage_collection_detect ==
  /\ Running
  /\ ~ Gc
  /\ inGc' = [z \in Zones |-> inGc[z] \/ Collectable(z)]
  /\ UNCHANGED <<zoneVars, mapVars, Gc, gcPos, fault, promised, early>>

------------------------------------------------------------------------------
(***************************************************************************)
(* garbage_collection(z), the detached thread of zone z.                   *)
(***************************************************************************)

(* Mutant: the scan begins one page after the start of the zone.           *)
GcStartSecond(z) ==
  /\ Running
  /\ inGc[z] /\ gcPos[z] = -1
  /\ Gc' = TRUE
  /\ gcPos' = [gcPos EXCEPT ![z] = 1]
  /\ UNCHANGED <<zoneVars, mapVars, inGc, fault, promised, early>>

GcStart(z) ==
  /\ Running
  /\ inGc[z] /\ gcPos[z] = -1
  /\ Gc' = TRUE
  /\ gcPos' = [gcPos EXCEPT ![z] = 0]
  /\ UNCHANGED <<zoneVars, mapVars, inGc, fault, promised, early>>

GcAt(z) == <<z, gcPos[z]>>

Advance(z) == gcPos' = [gcPos EXCEPT ![z] = @ + 1]

(* Mutant: the scan does not look at the validity bit.                     *)
GcPageUnchecked(z) ==
  /\ Running
  /\ inGc[z] /\ gcPos[z] \in Slots
  /\ LET d == dev[GcAt(z)] IN
       IF d # NoData
       THEN Write(cf[z], 1, <<d[1]>>, <<d[2]>>) /\ Advance(z)
       ELSE UNCHANGED <<zoneVars, mapVars, early>> /\ Advance(z)
  /\ UNCHANGED <<inGc, Gc, fault, promised>>

(* A page that a thread reads at address a is written back by              *)
(* write_page_gc to stream c; zeros are the id of no page.                 *)
Copy(c, a)  == LET d == dev[a] IN
               d # NoData /\ Write(c, 1, <<d[1]>>, <<d[2]>>)
CopyAborts(c, a) == LET d == dev[a] IN
                    IF d = NoData THEN Abort("lookup")
                                  ELSE WriteAborts(c, 1, <<d[1]>>)

(* One turn of the scan: a page whose bit is set is moved within the       *)
(* stream of its zone.                                                     *)
GcPage(z) ==
  /\ Running
  /\ inGc[z] /\ gcPos[z] \in Slots
  /\ IF GcAt(z) \in meta_page
     THEN \/ /\ Copy(cf[z], GcAt(z))
             /\ Advance(z)
             /\ UNCHANGED <<inGc, Gc, fault, promised>>
          \/ CopyAborts(cf[z], GcAt(z))
     ELSE /\ Advance(z)
          /\ UNCHANGED <<zoneVars, mapVars, inGc, Gc, fault, promised, early>>

reset_zone(z) == dev' = [a \in Addr |-> IF a[1] = z THEN NoData ELSE dev[a]]

(* Mutant: the write pointer is left where it was.                         *)
rewind_omitted(z) == wp' = wp

rewind(z) == wp' = [wp EXCEPT ![z] = 0]

clear_bits(z) ==
  /\ valid_page' = [valid_page EXCEPT
                      ![z] = @ - Cardinality(meta_page \cap SlotsOf(z))]
  /\ meta_page' = meta_page \ SlotsOf(z)

(* The zone is reset and given up: any thread may open it from here on.    *)
GcReset(z) ==
  /\ Running
  /\ inGc[z] /\ gcPos[z] = Cap
  /\ reset_zone(z)
  /\ cond' = [cond EXCEPT ![z] = "EMPTY"]
  /\ cf' = [cf EXCEPT ![z] = -1]
  /\ Advance(z)
  /\ UNCHANGED <<wp, valid_page, meta_page, Table, inGc, Gc, fault, promised,
                 early>>

(* Only then its write pointer is taken back...                            *)
GcRewind(z) ==
  /\ Running
  /\ inGc[z] /\ gcPos[z] = Cap + 1
  /\ rewind(z)
  /\ Advance(z)
  /\ UNCHANGED <<cond, cf, mapVars, inGc, Gc, fault, promised, early>>

(* ... and the bits that are still set are cleared.                        *)
GcSweep(z) ==
  /\ Running
  /\ inGc[z] /\ gcPos[z] = Cap + 2
  /\ clear_bits(z)
  /\ inGc' = [inGc EXCEPT ![z] = FALSE]
  /\ Gc' = FALSE
  /\ gcPos' = [gcPos EXCEPT ![z] = -1]
  /\ UNCHANGED <<zoneVars, Table, dev, fault, promised, early>>

------------------------------------------------------------------------------
(* Once a zone was opened early two pages may have one address, and Place, *)
(* which writes a cluster at once, is then exact for single pages only:    *)
(* hence the bound on n.                                                   *)
Caller ==
  \/ \E p \in Pages, v \in Vals : create_new_page(p, v)
  \/ \E c \in 0 .. ClusterNum - 1, p \in Pages, v \in Vals :
       write_page(c, p, v)
  \/ \E c \in 0 .. ClusterNum - 1, n \in 0 .. MaxCluster :
       /\ early => n <= 1
       /\ \E pl \in [1 .. n -> Pages], vl \in [1 .. n -> Vals] :
            write_cluster(c, n, pl, vl)
  \/ garbage_collection_detect

Collector(z) == GcStart(z) \/ GcPage(z) \/ GcReset(z) \/ GcRewind(z)
                  \/ GcSweep(z)

Next == Caller \/ \E z \in Zones : Collector(z)

Spec == Init /\ [][Next]_vars

------------------------------------------------------------------------------
(***************************************************************************)
(* Properties.                                                             *)
(***************************************************************************)
(* Every variable has its type; wp never passes the software capacity of   *)
(* the zone and valid_page never leaves 0 .. Cap.                          *)
TypeOK ==
  /\ cond \in [Zones -> {"EMPTY", "OPEN", "FULL"}]
  /\ wp \in [Zones -> 0 .. Cap]
  /\ cf \in [Zones -> -1 .. ClusterNum - 1]
  /\ valid_page \in [Zones -> 0 .. Cap]
  /\ inGc \in [Zones -> BOOLEAN]
  /\ Gc \in BOOLEAN
  /\ meta_page \subseteq Addr
  /\ Table \in [Pages -> Addr \cup {NoAddr}]
  /\ dev \in [Addr -> (Pages \X Vals) \cup {NoData}]
  /\ gcPos \in [Zones -> -1 .. Cap + 2]
  /\ fault \in {"none", "no zone", "bit", "pwrite", "lookup"}
  /\ promised \in [Pages -> Vals \cup {Absent}]
  /\ early \in BOOLEAN

(* What follows is said of the time before a zone is opened early; the     *)
(* types and the counters are right after that too.                        *)
Served == [p \in Pages |-> IF Table[p] = NoAddr THEN Absent
                                                ELSE read_page(p)[2]]

(* The address of a page holds that page with its latest contents,         *)
(* whatever the collectors have moved: what read_page returns is right.    *)
ReadsLatest ==
  ~ early => \A p \in Pages :
               Table[p] # NoAddr => read_page(p) = <<p, promised[p]>>

(* The validity bit of an address is set exactly when some page lives      *)
(* there: collectors copy what is live and nothing else.                   *)
BitsMatchTable ==
  ~ early => meta_page = {Table[p] : p \in Pages} \ {NoAddr}

(* valid_page, kept by increments and decrements from both kinds of        *)
(* threads, is the number of bits set in the zone; get_gc_info decides     *)
(* from it what to collect.                                                *)
ValidCount ==
  \A z \in Zones : valid_page[z] = Cardinality(meta_page \cap SlotsOf(z))

(* A zone under collection stays full until it is reset, nothing is        *)
(* written to it, and what the scan has passed is no longer valid: the     *)
(* loop after reset_zone that clears leftover bits finds none, so no live  *)
(* page is erased.                                                         *)
CollectedIsDead ==
  ~ early => \A z \in Zones : inGc[z] =>
    /\ cond[z] = IF gcPos[z] <= Cap THEN "FULL" ELSE "EMPTY"
    /\ \A k \in Slots : k < gcPos[z] => <<z, k>> \notin meta_page

(* The write pointers of the controller are those of the device, but for   *)
(* a zone that was just reset: what the controller adds up from the        *)
(* results of pwrite64 is where the next pwrite64 must go.                 *)
PointersAgree ==
  ~ early => \A z \in Zones : gcPos[z] # Cap + 1 => AtPointer(z)

(* The controller implements the page store: a collector step changes      *)
(* nothing a client can see.                                               *)
Store == INSTANCE PageStore WITH served <- IF early THEN promised ELSE Served
StoreSpec == Store!Spec
==============================================================================
