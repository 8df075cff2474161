----------------------------- MODULE ZNSThreads -----------------------------
(***************************************************************************)
(* The zone controller of src/src/zController.cpp again, one shared access *)
(* at a time: the main thread, which runs the buffer manager, and the      *)
(* detached collector of each zone, with the mutex of each zone.  A step   *)
(* is one store to shared state with the loads just before it.  Taken      *)
(* together are the tests that one turn of a scan makes of one zone, the   *)
(* changes of valid_page and of its bit, and the turns of the last loop of *)
(* a collector.  Writes of one page only; ZNSController has the clusters.  *)
(*                                                                         *)
(* The device is a zoned one: a zone is written at its own write pointer   *)
(* only, and not once it is finished; a read of a slot that was not        *)
(* written returns no page.                                                *)
(***************************************************************************)
EXTENDS Integers, Sequences, FiniteSets

CONSTANTS
  MaxZoneNum,   \* MAX_ZONE_NUM
  Cap,          \* cap / PAGE_SIZE: the pages a zone is filled with
  DevCap,       \* the pages it has room for: 4 * Cap, by the / 4 of init
  GcValid,      \* gc_rate > 0.85 holds for valid_page <= GcValid
  MaxCalls,     \* bound: the calls the main thread makes
  Pages, Vals,
  NoAddr, NoData, Absent, Nobody

Zones == 0 .. MaxZoneNum - 1
Addr  == Zones \X (0 .. DevCap - 1)
Main  == -1
Threads == Zones \cup {Main}    \* z is the collector of zone z

ASSUME ThreadsOK ==
  /\ MaxZoneNum \in Nat \ {0} /\ Cap \in Nat \ {0}
  /\ DevCap \in Nat /\ Cap + 2 * (MaxZoneNum + 1) < DevCap
  /\ GcValid \in Nat /\ MaxCalls \in Nat
  /\ NoAddr \notin Zones \X Nat /\ NoData \notin Pages \X Vals
  /\ Absent \notin Pages \cup Vals /\ Nobody \notin Threads

VARIABLES
  cond, wp, inUse,      \* the zone descriptors; inUse is cf # -1
  valid_page, inGc, Gc,
  mutex,                \* the holder of Zone[z].wMutex
  meta_page, Table,
  dev, devwp, finished, \* the device: contents, write pointers, full zones
  pc,                   \* where each thread is
  job,                  \* the call it makes: op, page and contents
  zone,                 \* zoneWid, or where its scan of the zones has come to
  addr, count,          \* the page's address and a valid_page, as read
  pos,                  \* the slot a collector looks at
  fault,                \* the assertion or exception that ended the program
  promised,             \* history: what the completed calls wrote
  late,                 \* history: a zone that was finished already was
                        \* marked open
  calls                 \* counts up to MaxCalls

zoneVars  == <<cond, wp, inUse>>
bitVars   == <<valid_page, meta_page>>
devVars   == <<dev, devwp, finished>>
localVars == <<job, zone, addr, count, pos>>
vars == <<zoneVars, bitVars, devVars, localVars, inGc, Gc, mutex, Table, pc,
          fault, promised, late, calls>>

NoJob == [op |-> "none", p |-> Absent, v |-> Absent]

Init ==
  /\ cond = [z \in Zones |-> "EMPTY"]
  /\ wp = [z \in Zones |-> 0]
  /\ inUse = [z \in Zones |-> FALSE]
  /\ valid_page = [z \in Zones |-> 0]
  /\ inGc = [z \in Zones |-> FALSE]
  /\ Gc = FALSE
  /\ mutex = [z \in Zones |-> Nobody]
  /\ meta_page = {}
  /\ Table = [p \in Pages |-> NoAddr]
  /\ dev = [a \in Addr |-> NoData]
  /\ devwp = [z \in Zones |-> 0]
  /\ finished = {}
  /\ pc = [t \in Threads |-> "idle"]
  /\ job = [t \in Threads |-> NoJob]
  /\ zone = [t \in Threads |-> 0]
  /\ addr = [t \in Threads |-> NoAddr]
  /\ count = [t \in Threads |-> 0]
  /\ pos = [t \in Threads |-> 0]
  /\ fault = "none"
  /\ promised = [p \in Pages |-> Absent]
  /\ late = FALSE
  /\ calls = 0

Running == fault = "none"

At(t, l) == Running /\ pc[t] = l
GoTo(t, l) == pc' = [pc EXCEPT ![t] = l]
Op(t)  == job[t].op
Pg(t)  == job[t].p

Crash(why) ==
  /\ fault' = why
  /\ UNCHANGED <<zoneVars, bitVars, devVars, localVars, inGc, Gc, mutex, Table,
                 pc, promised, late, calls>>

Quietly == UNCHANGED <<inGc, Gc, fault, promised, late, calls>>

------------------------------------------------------------------------------
(***************************************************************************)
(* The calls of the main thread.                                           *)
(***************************************************************************)
Call(op, p, v, l) ==
  /\ At(Main, "idle")
  /\ calls < MaxCalls /\ calls' = calls + 1
  /\ job' = [job EXCEPT ![Main] = [op |-> op, p |-> p, v |-> v]]
  /\ GoTo(Main, l)
  /\ UNCHANGED <<zoneVars, bitVars, devVars, zone, addr, count, pos, mutex, Table,
                 inGc, Gc, fault, promised, late>>

create_new_page(p, v) == promised[p] = Absent /\ Call("new", p, v, "scan")
write_page(p, v)      == promised[p] # Absent /\ Call("write", p, v, "scan")
read_page(p)          == promised[p] # Absent /\ Call("read", p, Absent, "lookup")

Collectable(z) == cond[z] = "FULL" /\ valid_page[z] <= GcValid /\ ~ inGc[z]

garbage_collection_detect ==
  /\ At(Main, "idle")
  /\ calls < MaxCalls /\ calls' = calls + 1
  /\ ~ Gc
  /\ \E z \in Zones : Collectable(z)
  /\ inGc' = [z \in Zones |-> inGc[z] \/ Collectable(z)]
  /\ pc' = [t \in Threads |->
              IF t \in Zones /\ Collectable(t) THEN "start" ELSE pc[t]]
  /\ UNCHANGED <<zoneVars, bitVars, devVars, localVars, Gc, mutex, Table,
                 fault, promised, late>>

(* read_page: the address, then the device; BufferManager::read_page       *)
(* asserts that the page it gets carries the page's id.                    *)
Lookup ==
  /\ At(Main, "lookup")
  /\ IF Table[Pg(Main)] = NoAddr THEN Crash("lookup")
     ELSE /\ addr' = [addr EXCEPT ![Main] = Table[Pg(Main)]]
          /\ GoTo(Main, "pread")
          /\ UNCHANGED <<zoneVars, bitVars, devVars, job, zone, count, pos,
                         mutex, Table>>
          /\ Quietly

Pread ==
  /\ At(Main, "pread")
  /\ IF dev[addr[Main]] = NoData \/ dev[addr[Main]][1] # Pg(Main)
     THEN Crash("id")
     ELSE /\ addr' = [addr EXCEPT ![Main] = NoAddr]
          /\ job' = [job EXCEPT ![Main] = NoJob]
          /\ GoTo(Main, "idle")
          /\ UNCHANGED <<zoneVars, bitVars, devVars, zone, count, pos, mutex, Table>>
          /\ Quietly

------------------------------------------------------------------------------
(***************************************************************************)
(* select_write_zone.  Its scans take no mutex: zone[t] is the zone that   *)
(* the scan has come to, and each zone is looked at in a step of its own.  *)
(***************************************************************************)
InStream(z) == inUse[z] /\ cond[z] = "OPEN"
Spare(z)    == ~ inUse[z] /\ cond[z] = "EMPTY"

Roomy(z) == wp[z] + 1 <= Cap

(* The next zone of a scan, or, with none left, what comes after the scan. *)
Past(t, z, after) ==
  IF z + 1 \in Zones
  THEN zone' = [zone EXCEPT ![t] = z + 1] /\ UNCHANGED pc
  ELSE zone' = [zone EXCEPT ![t] = 0] /\ GoTo(t, after)

(* The first loop looks for an open zone with room; one without room is to *)
(* be finished...                                                          *)
Scan(t) ==
  LET z == zone[t] IN
  /\ At(t, "scan")
  /\ IF ~ InStream(z) THEN Past(t, z, "pick")
     ELSE GoTo(t, IF Roomy(z) THEN "lock" ELSE "finish") /\ UNCHANGED zone
  /\ UNCHANGED <<zoneVars, bitVars, devVars, job, addr, count, pos, mutex, Table>>
  /\ Quietly

(* ... once its mutex is free: the condition is not tested again...        *)
Finish(t) ==
  LET z == zone[t] IN
  /\ At(t, "finish")
  /\ mutex[z] = Nobody
  /\ mutex' = [mutex EXCEPT ![z] = t]
  /\ finished' = finished \cup {z}
  /\ GoTo(t, "full")
  /\ UNCHANGED <<zoneVars, bitVars, dev, devwp, localVars, Table>>
  /\ Quietly

(* ... and cond follows the device.                                        *)
MarkFull(t) ==
  LET z == zone[t] IN
  /\ At(t, "full")
  /\ cond' = [cond EXCEPT ![z] = "FULL"]
  /\ mutex' = [mutex EXCEPT ![z] = Nobody]
  /\ IF z + 1 \in Zones
     THEN zone' = [zone EXCEPT ![t] = z + 1] /\ GoTo(t, "scan")
     ELSE zone' = [zone EXCEPT ![t] = 0] /\ GoTo(t, "pick")
  /\ UNCHANGED <<wp, inUse, bitVars, devVars, job, addr, count, pos, Table>>
  /\ Quietly

(* The second loop finds an empty zone...                                  *)
Pick(t) ==
  LET z == zone[t] IN
  /\ At(t, "pick")
  /\ IF ~ Spare(z) /\ z + 1 \notin Zones THEN Crash("no zone")
     ELSE /\ IF Spare(z) THEN GoTo(t, "open") /\ UNCHANGED zone
             ELSE zone' = [zone EXCEPT ![t] = z + 1] /\ UNCHANGED pc
          /\ UNCHANGED <<zoneVars, bitVars, devVars, job, addr, count, pos,
                         mutex, Table>>
          /\ Quietly

(* ... and opens it, if it still can be: open_zone asserts that...         *)
Open(t) ==
  /\ At(t, "open")
  /\ IF zone[t] \in finished THEN Crash("open")
     ELSE /\ GoTo(t, "mark")
          /\ UNCHANGED <<zoneVars, bitVars, devVars, localVars, mutex, Table>>
          /\ Quietly

(* ... then cond is set, whatever has become of the zone meanwhile...      *)
MarkOpen(t) ==
  /\ At(t, "mark")
  /\ cond' = [cond EXCEPT ![zone[t]] = "OPEN"]
  /\ late' = (late \/ cond[zone[t]] = "FULL" \/ zone[t] \in finished)
  /\ GoTo(t, "own")
  /\ UNCHANGED <<wp, inUse, bitVars, devVars, localVars, inGc, Gc, mutex, Table,
                 fault, promised, calls>>

(* ... and then cf.                                                        *)
Own(t) ==
  /\ At(t, "own")
  /\ inUse' = [inUse EXCEPT ![zone[t]] = TRUE]
  /\ GoTo(t, "lock")
  /\ UNCHANGED <<cond, wp, bitVars, devVars, localVars, mutex, Table>>
  /\ Quietly

(* Mutant: a collector inserts the new address before it erases the old.   *)
BodyInsertFirst(op) ==
  CASE op = "write" -> <<"find", "clear", "erase", "insert", "pwrite", "find2", "set">>
    [] op = "gc"    -> <<"find", "clear", "pwrite", "insert", "erase", "find2", "set">>
    [] op = "new"   -> <<"insert", "find2", "set", "pwrite">>

(* What a call does under the mutex, in order.                             *)
Body(op) ==
  CASE op = "write" -> <<"find", "clear", "erase", "insert", "pwrite", "find2", "set">>
    [] op = "gc"    -> <<"find", "clear", "pwrite", "erase", "insert", "find2", "set">>
    [] op = "new"   -> <<"insert", "find2", "set", "pwrite">>

InBody(t) == Op(t) \in {"write", "gc", "new"}
               /\ \E i \in DOMAIN Body(Op(t)) : Body(Op(t))[i] = pc[t]
Place(t) == CHOOSE i \in DOMAIN Body(Op(t)) : Body(Op(t))[i] = pc[t]

(* Mutant: the condition is not tested again under the mutex.              *)
LockOnly(t) ==
  /\ At(t, "lock")
  /\ mutex[zone[t]] = Nobody
  /\ mutex' = [mutex EXCEPT ![zone[t]] = t]
  /\ GoTo(t, Body(Op(t))[1])
  /\ UNCHANGED <<zoneVars, bitVars, devVars, localVars, Table>>
  /\ Quietly

(* The condition is tested again under the mutex; a zone finished in the   *)
(* meantime sends the call back to the choice of a zone, as a write_page   *)
(* even if it was a create_new_page.                                       *)
Lock(t) ==
  /\ At(t, "lock")
  /\ mutex[zone[t]] = Nobody
  /\ IF cond[zone[t]] = "OPEN"
     THEN /\ mutex' = [mutex EXCEPT ![zone[t]] = t]
          /\ GoTo(t, Body(Op(t))[1])
          /\ UNCHANGED <<zone, job>>
     ELSE /\ zone' = [zone EXCEPT ![t] = 0]
          /\ job' = [job EXCEPT ![t].op = IF @ = "new" THEN "write" ELSE @]
          /\ GoTo(t, "scan")
          /\ UNCHANGED mutex
  /\ UNCHANGED <<zoneVars, bitVars, devVars, addr, count, pos, Table>>
  /\ Quietly

------------------------------------------------------------------------------
(***************************************************************************)
(* Under the mutex of zone[t].                                             *)
(***************************************************************************)
EndOf(t) == Place(t) = Len(Body(Op(t)))

(* Mutant: a collector does not release the mutex.                         *)
OnwardLocked(t) ==
  IF ~ EndOf(t)
  THEN /\ GoTo(t, Body(Op(t))[Place(t) + 1])
       /\ UNCHANGED <<mutex, job, zone, pos, promised>>
  ELSE /\ GoTo(t, IF t = Main THEN "idle" ELSE "look")
       /\ job' = [job EXCEPT ![t] = NoJob]
       /\ zone' = [zone EXCEPT ![t] = 0]
       /\ pos' = IF t = Main THEN pos ELSE [pos EXCEPT ![t] = @ + 1]
       /\ promised' = IF t = Main THEN [promised EXCEPT ![Pg(t)] = job[t].v]
                                  ELSE promised
       /\ mutex' = IF t = Main THEN [mutex EXCEPT ![zone[t]] = Nobody] ELSE mutex

(* The next statement, or the end of the call: the mutex is released, and  *)
(* a collector goes on to the next slot.                                   *)
Onward(t) ==
  IF ~ EndOf(t)
  THEN /\ GoTo(t, Body(Op(t))[Place(t) + 1])
       /\ UNCHANGED <<mutex, job, zone, pos, promised>>
  ELSE /\ GoTo(t, IF t = Main THEN "idle" ELSE "look")
       /\ mutex' = [mutex EXCEPT ![zone[t]] = Nobody]
       /\ job' = [job EXCEPT ![t] = NoJob]
       /\ zone' = [zone EXCEPT ![t] = 0]
       /\ pos' = IF t = Main THEN pos ELSE [pos EXCEPT ![t] = @ + 1]
       /\ promised' = IF t = Main THEN [promised EXCEPT ![Pg(t)] = job[t].v]
                                  ELSE promised

(* get_page_addr, and the first half of set_valid(addr, bit): the test of  *)
(* the bit, and the value of valid_page that is to be changed.             *)
Find(t, l, bit) ==
  LET a == IF Pg(t) \in Pages THEN Table[Pg(t)] ELSE NoAddr IN
  /\ At(t, l)
  /\ IF a = NoAddr THEN Crash("lookup")
     ELSE IF (a \in meta_page) = bit THEN Crash("bit")
     ELSE /\ addr' = [addr EXCEPT ![t] = a]
          /\ count' = [count EXCEPT ![t] = valid_page[a[1]]]
          /\ Onward(t)
          /\ UNCHANGED <<zoneVars, bitVars, devVars, Table, inGc, Gc, fault, late, calls>>

(* The other half: valid_page and the bit are stored.                      *)
SetValid(t, l, bit) ==
  LET a == addr[t] IN
  /\ At(t, l)
  /\ valid_page' = [valid_page EXCEPT ![a[1]] = count[t] + (IF bit THEN 1 ELSE -1)]
  /\ meta_page' = IF bit THEN meta_page \cup {a} ELSE meta_page \ {a}
  /\ addr' = [addr EXCEPT ![t] = NoAddr]
  /\ count' = [count EXCEPT ![t] = 0]
  /\ wp' = IF bit /\ Op(t) = "gc" THEN [wp EXCEPT ![zone[t]] = @ + 1] ELSE wp
  /\ Onward(t)
  /\ UNCHANGED <<cond, inUse, devVars, Table, inGc, Gc, fault, late, calls>>

(* set_page_addr erases the entry and inserts the new one; insert does     *)
(* nothing if there is one again.                                          *)
Erase(t) ==
  /\ At(t, "erase")
  /\ Table' = [Table EXCEPT ![Pg(t)] = NoAddr]
  /\ Onward(t)
  /\ UNCHANGED <<zoneVars, bitVars, devVars, addr, count, inGc, Gc, fault, late, calls>>

Insert(t) ==
  /\ At(t, "insert")
  /\ Table' = [Table EXCEPT ![Pg(t)] =
                 IF @ = NoAddr THEN <<zone[t], wp[zone[t]]>> ELSE @]
  /\ Onward(t)
  /\ UNCHANGED <<zoneVars, bitVars, devVars, addr, count, inGc, Gc, fault, late, calls>>

(* pwrite64 at the controller's write pointer, which the assertion on its  *)
(* result expects to be the device's.                                      *)
Pwrite(t) ==
  LET z == zone[t] IN
  /\ At(t, "pwrite")
  /\ IF z \in finished \/ devwp[z] # wp[z] \/ wp[z] = DevCap
     THEN Crash(IF z \in finished THEN "full" ELSE "pwrite")
     ELSE /\ dev' = [dev EXCEPT ![<<z, wp[z]>>] = <<Pg(t), job[t].v>>]
          /\ devwp' = [devwp EXCEPT ![z] = @ + 1]
          /\ wp' = IF Op(t) = "gc" THEN wp ELSE [wp EXCEPT ![z] = @ + 1]
          /\ Onward(t)
          /\ UNCHANGED <<cond, inUse, bitVars, finished, Table, addr, count,
                         inGc, Gc, fault, late, calls>>

Writer(t) ==
  \/ Scan(t) \/ Finish(t) \/ MarkFull(t)
  \/ Pick(t) \/ Open(t) \/ MarkOpen(t) \/ Own(t) \/ Lock(t)
  \/ Find(t, "find", FALSE) \/ SetValid(t, "clear", FALSE)
  \/ Erase(t) \/ Insert(t) \/ Pwrite(t)
  \/ Find(t, "find2", TRUE) \/ SetValid(t, "set", TRUE)

------------------------------------------------------------------------------
(***************************************************************************)
(* garbage_collection(z).                                                  *)
(***************************************************************************)
GcStart(z) ==
  /\ At(z, "start")
  /\ Gc' = TRUE
  /\ GoTo(z, "look")
  /\ UNCHANGED <<zoneVars, bitVars, devVars, localVars, inGc, mutex, Table,
                 fault, promised, late, calls>>

(* get_valid, and pread of a page whose bit is set.  A slot that was not   *)
(* written since the last reset reads as zeros, an id that no page has.    *)
Stored(a) == IF dev[a] = NoData THEN <<Absent, Absent>> ELSE dev[a]

(* Mutant: the scan goes on only after a page that was moved.              *)
GcLookMoved(z) ==
  /\ At(z, "look")
  /\ pos[z] < Cap
  /\ <<z, pos[z]>> \in meta_page
  /\ LET d == Stored(<<z, pos[z]>>) IN
       job' = [job EXCEPT ![z] = [op |-> "gc", p |-> d[1], v |-> d[2]]]
  /\ GoTo(z, "scan")
  /\ UNCHANGED <<zoneVars, bitVars, devVars, zone, pos, addr, count, mutex, Table>>
  /\ Quietly

(* Mutant: the scan looks at one slot too many.                            *)
GcLookPast(z) ==
  /\ At(z, "look")
  /\ pos[z] <= Cap
  /\ IF <<z, pos[z]>> \in meta_page
     THEN LET d == Stored(<<z, pos[z]>>) IN
          /\ job' = [job EXCEPT ![z] = [op |-> "gc", p |-> d[1], v |-> d[2]]]
          /\ GoTo(z, "scan")
          /\ UNCHANGED pos
     ELSE /\ pos' = [pos EXCEPT ![z] = @ + 1]
          /\ UNCHANGED <<job, pc>>
  /\ UNCHANGED <<zoneVars, bitVars, devVars, zone, addr, count, mutex, Table>>
  /\ Quietly

GcLook(z) ==
  /\ At(z, "look")
  /\ pos[z] < Cap
  /\ IF <<z, pos[z]>> \in meta_page
     THEN LET d == Stored(<<z, pos[z]>>) IN
          /\ job' = [job EXCEPT ![z] = [op |-> "gc", p |-> d[1], v |-> d[2]]]
          /\ GoTo(z, "scan")
          /\ UNCHANGED pos
     ELSE /\ pos' = [pos EXCEPT ![z] = @ + 1]
          /\ UNCHANGED <<job, pc>>
  /\ UNCHANGED <<zoneVars, bitVars, devVars, zone, addr, count, mutex, Table>>
  /\ Quietly

(* The zone is reset...                                                    *)
GcReset(z) ==
  /\ At(z, "look")
  /\ pos[z] = Cap
  /\ dev' = [a \in Addr |-> IF a[1] = z THEN NoData ELSE dev[a]]
  /\ devwp' = [devwp EXCEPT ![z] = 0]
  /\ finished' = finished \ {z}
  /\ GoTo(z, "empty")
  /\ UNCHANGED <<zoneVars, bitVars, localVars, mutex, Table>>
  /\ Quietly

(* ... and given up: any thread may open it from here on...                *)
GcEmpty(z) ==
  /\ At(z, "empty")
  /\ cond' = [cond EXCEPT ![z] = "EMPTY"]
  /\ GoTo(z, "disown")
  /\ UNCHANGED <<wp, inUse, bitVars, devVars, localVars, mutex, Table>>
  /\ Quietly

GcDisown(z) ==
  /\ At(z, "disown")
  /\ inUse' = [inUse EXCEPT ![z] = FALSE]
  /\ GoTo(z, "rewind")
  /\ UNCHANGED <<cond, wp, bitVars, devVars, localVars, mutex, Table>>
  /\ Quietly

(* ... then its write pointer is taken back...                             *)
GcRewind(z) ==
  /\ At(z, "rewind")
  /\ wp' = [wp EXCEPT ![z] = 0]
  /\ GoTo(z, "sweep")
  /\ UNCHANGED <<cond, inUse, bitVars, devVars, localVars, mutex, Table>>
  /\ Quietly

(* ... and the bits that are still set are cleared.                        *)
GcSweep(z) ==
  LET left == {a \in meta_page : a[1] = z /\ a[2] < Cap} IN
  /\ At(z, "sweep")
  /\ meta_page' = meta_page \ left
  /\ valid_page' = [valid_page EXCEPT ![z] = @ - Cardinality(left)]
  /\ inGc' = [inGc EXCEPT ![z] = FALSE]
  /\ Gc' = FALSE
  /\ pos' = [pos EXCEPT ![z] = 0]
  /\ GoTo(z, "idle")
  /\ UNCHANGED <<zoneVars, devVars, job, zone, addr, count, mutex, Table,
                 fault, promised, late, calls>>

------------------------------------------------------------------------------
MainCalls ==
  \/ \E p \in Pages, v \in Vals : create_new_page(p, v) \/ write_page(p, v)
  \/ \E p \in Pages : read_page(p)
  \/ garbage_collection_detect

MainSteps == Lookup \/ Pread \/ Writer(Main)

Collector(z) == GcStart(z) \/ GcLook(z) \/ Writer(z) \/ GcReset(z) \/ GcEmpty(z)
                  \/ GcDisown(z) \/ GcRewind(z) \/ GcSweep(z)

Next == MainCalls \/ MainSteps \/ \E z \in Zones : Collector(z)

Spec == Init /\ [][Next]_vars

(* Every thread keeps running.                                             *)
FairSpec == Spec /\ WF_vars(MainSteps) /\ \A z \in Zones : WF_vars(Collector(z))

------------------------------------------------------------------------------
(* The scans and the test of the room take no mutex, so threads fill a     *)
(* zone beyond Cap together; but each adds at most two pages more: one for *)
(* which it found room, and one because it found the zone empty.           *)
Brim == Cap + 2 * (MaxZoneNum + 1)

(* Every variable has its type.                                            *)
TypeOK ==
  /\ cond \in [Zones -> {"EMPTY", "OPEN", "FULL"}]
  /\ wp \in [Zones -> 0 .. Brim] /\ devwp \in [Zones -> 0 .. Brim]
  /\ inUse \in [Zones -> BOOLEAN] /\ inGc \in [Zones -> BOOLEAN]
  /\ valid_page \in [Zones -> Int]
  /\ Gc \in BOOLEAN
  /\ mutex \in [Zones -> Threads \cup {Nobody}]
  /\ meta_page \subseteq Addr
  /\ Table \in [Pages -> Addr \cup {NoAddr}]
  /\ dev \in [Addr -> (Pages \X Vals) \cup {NoData}]
  /\ finished \subseteq Zones
  /\ pos \in [Threads -> 0 .. Cap]
  /\ zone \in [Threads -> Zones]
  /\ promised \in [Pages -> Vals \cup {Absent}]
  /\ late \in BOOLEAN

(* The test of cond under the mutex is enough, although zones are chosen   *)
(* and opened without the mutex and a collector never takes that of the    *)
(* zone it resets: as long as a thread writes into a zone, the zone is     *)
(* open, not finished and not reset.  What the test cannot see is a store  *)
(* of cond by a thread that opened the zone, and was overtaken by others   *)
(* that filled and finished it.                                            *)
HeldZoneOpen ==
  ~ late => \A t \in Threads : InBody(t) => /\ mutex[zone[t]] = t
                                            /\ cond[zone[t]] = "OPEN"
                                            /\ zone[t] \notin finished

(* set_page_addr erases an entry and inserts it again, in threads that     *)
(* hold different mutexes: a page that was inserted has an entry, or some  *)
(* thread is about to give it one.                                         *)
EntryKept ==
  Running => \A p \in Pages : promised[p] # Absent /\ Table[p] = NoAddr =>
               \E t \in Threads : pc[t] = "insert" /\ Pg(t) = p

(* assert( *read_id == page_id) in BufferManager::read_page.               *)
NoIdAbort == fault # "id"

(* assert(ret == PAGE_SIZE) after a pwrite64: the zone takes the page.     *)
NoFullAbort == fault # "full"

(* assert(0) in set_valid and set_valid_gc.                                *)
NoBitAbort == fault # "bit"

(* A call of the main thread returns, or the program has aborted: the      *)
(* retry on a zone finished by another thread does not go on for ever, and *)
(* no two threads wait for each other's mutex.                             *)
CallReturns == pc[Main] # "idle" ~> (pc[Main] = "idle" \/ ~ Running)

(* A collection ends, or the program has aborted.                          *)
CollectionEnds == \A z \in Zones : inGc[z] ~> (~ inGc[z] \/ ~ Running)
==============================================================================
