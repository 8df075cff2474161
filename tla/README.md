# A verification project for ZoneBuffer

ZoneBuffer (`src/`) is a page buffer for zoned (ZNS) SSDs. A single main thread runs a workload of
INSERT, UPDATE and READ instructions against a buffer manager; dirty pages are flushed, one by one or
in clusters, to a zone controller that appends them to zones, keeps the page table, and reclaims
zones with detached background threads. The modules here are TLA+ models of that code, checked by
TLC on small instances, and theorems about them, checked by TLAPS for every value of the constants.

## 1. Inventory

| Component | Code | State | Operations | Interacts with |
|---|---|---|---|---|
| Workload driver | `main.cpp`, `link.h` | none | `Instruction::execute` | calls the buffer manager; deletes it at the end |
| Buffer manager | `src/zBuffer.cpp` | frames, `page2frame`, `frame_to_page`, `frame_dirty`, `cluster_flag`, `accessH`, counters | `read_page`, `write_page`, `fix_new_page`, `clean_buffer`, the `evict_victim` family | asks the policy for frames and candidates; calls the controller's reads, writes and `garbage_collection_detect`, `cd_detect` |
| Replacement policies | `src/zalp.cpp` | ZALP: `lList`, `fList`, `cList`, `dList`; LRU: one list | `is_evict`, `get_candidate`, `get_frame`, `push`, `update`, `set_dirty`, `update_dirty`, `dirty_to_clean` | called by the buffer manager only |
| Zone controller | `src/zController.cpp` | `Zone[]` (condition, write pointer, stream, `valid_page`, `inGc`, mutex), `meta_page` bitmap, `Table` | `create_new_page`, `write_page`, `write_cluster`, `read_page`, `select_write_zone` | the device, through libzbd, `pread`, `pwrite64`; starts the threads below |
| Garbage collection | same | `Gc`, `inGc` | `garbage_collection_detect`, `garbage_collection`, `write_page_gc` | one detached thread per zone, shares everything with the main thread |
| Cold data restructuring | same, `evict_victim` | `Cd`, `gc_rate_last`, `cd_count` | `cd_detect`, `cold_data_restruct` | a detached thread over a list of zones, beside the collectors |
| Pages, BCB | `src/common.cpp` | none | `generate_random_frame` | BCB is unused |
| List, HashTable | `src/datastructure.cpp` | a linked list; chains of keys | `L_*`, `H_*` | nothing uses them |
| libcuckoo | `libcuckoo/` (vendored) | buckets, old buckets, spinlocks with counters | insert, erase, find; cuckoo paths, lazy doubling | `Table`, `page2frame`, `accessH`, the maps of ZALP; `Table` from several threads |
| libzbd, the device | external | | open, finish, reset, read, write | called by the controller |

What is hard, and what makes each part correct:

* *Controller and collectors.* A page is live at one address, its bit is set there and nowhere else,
  `valid_page` counts the bits, a zone is written in order and reset only when nothing in it is live,
  and a reader always gets the latest contents although collectors move pages. The main thread and
  the collectors share the table, the bitmap and the descriptors; only the writing of a zone is under
  a mutex. Zones fill up exactly, clusters do not fit by a page, several collectors run at once.
* *Buffer manager and policy.* Four lists, two maps and the dirty marks are kept by different calls and
  must agree; flushing must pick exactly the frames outside the working region; no update may be
  lost between a frame and the disk, whatever the mode.
* *Restructuring and flags.* `Gc`, `Cd` and `inGc` are plain booleans that threads spin on and set some time
  after they were started; nothing marks a zone a restructuring thread was given. No zone may be reset
  while it holds something live, and the waits must end.
* *libcuckoo.* An insert gives its locks up to make room and must find its way back among concurrent inserts,
  moves and doublings: a key may not be there twice, get lost or be hidden; locks must not
  be waited for in a circle; retries must end. A caller must see an atomic map.
* *List and HashTable.* Four kinds of pointers, and a first item of each chain that is reused, must keep in step.

The hazards of `PROJECT.json` list these at their lines, with the properties that cover them.

## 2. Plan

1. `PageStore` (abstract) and `ZNSController` with its proofs: the core. Done.
2. `ZALP` and `BufferManager` in every mode, over the page store, with the proofs of both. Done.
3. `ZNSThreads`: controller and collectors one shared access at a time, and its proofs. Done for writes of one page;
   left: `write_cluster`, several streams, and the main thread's wait in the destructor.
4. `ColdRestruct`: `cd_detect`, `cold_data_restruct`, the flags `Gc` and `Cd`, the waits on them and the
   gap between the start of a thread and its first statement; its proofs. Done.
5. `CuckooMap`: the locks, searches, moves and doublings of libcuckoo as this program uses it, against `AtomicMap`;
   the proofs of its locking order, of its contents and counts, of the bounds of its search, and of the refinement. Done.
6. `DataStructure`: `List` and `HashTable`, and its proofs. Done.
7. `ZoneBuffer`: the buffer manager over the controller itself rather than over its promise, so that the
   flush order and the collections it triggers are those of the code. Left.

## 3. Modules

| Module | Models | Notes |
|---|---|---|
| `PageStore` | the promise | `served[p]` changes only by a write of `p`; the abstract specification of both components below |
| `ZNSController` | `zController.cpp` with `covzs = 1` | one step per foreground call, one per page a collector looks at, three to give a zone back |
| `ZNSControllerProofs` | | theorems about `ZNSController` |
| `ZALP` | `zalp.cpp` | pure operators on a record of lists |
| `ZALPProofs` | | what the operators of `ZALP` do to the order of its lists |
| `BufferManager` | `zBuffer.cpp`, `link.h` | one step per call; `Mode`, a variable no step changes, is the compile-time flags |
| `BufferManagerProofs` | | theorems about `BufferManager` |
| `ZNSThreads` | `zController.cpp`, `BufferManager::read_page` | one step per shared access, with mutexes and program counters |
| `ZNSThreadsProofs` | | theorems about `ZNSThreads` |
| `ColdRestruct` | `cd_detect`, `cold_data_restruct`, the end of `evict_victim` | extends `ZNSController` with restructuring threads and the flags |
| `ColdRestructProofs` | | theorems about `ColdRestruct`, on top of those about `ZNSController` |
| `AtomicMap` | the promise of libcuckoo | each call takes effect at one moment |
| `CuckooHash` | the hash functions of libcuckoo | pure operators |
| `CuckooMap` | `libcuckoo/` | one step per spinlock taken, lock migrated, or piece of work under locks |
| `CuckooMapProofs` | | theorems about `CuckooMap` |
| `DataStructure` | `datastructure.cpp` | one step per call |
| `DataStructureProofs` | | theorems about `DataStructure` |
| `Least` | | two lemmas: a non-empty set of naturals has a least element |
| `MCController`, `MCBuffer`, `MCThreads`, `MCCold`, `MCCuckoo`, `MCData` | | symmetry sets, tables and workloads for TLC |

**ZNSController.** An address is a pair of a zone and a slot, so bytes, sectors and page sizes are gone;
`cond`, `wp`, `cf`, `valid_page`, `inGc`, `Gc`, `meta_page` and `Table` are the code's; `dev` is what the device
stores. `select_write_zone` is one predicate: the first open zone of the stream with room, finishing those
without, or else the first empty one. Its two scans (166-185) take no lock, so beside a collector the first may miss a zone that
is opened behind it, and a second zone of the stream is opened (`Beside`): two zones of a stream can be open. `Place` is the common
body of the four writing functions; a page may
be listed twice in a cluster, because `evict_victim_ach` does that, and a cluster may be empty. A failed assertion or an uncaught
exception ends the program (`fault`): `assert(0)` in `select_write_zone` and `set_valid`, the result of `pwrite64`, which
the device takes at its own write pointer only (`Accepts`), and `Table.find`. `promised` is a history variable: what callers wrote last.

A foreground call is one step, and so is a page that a collector moves; giving a zone back is three (`GcReset`, `GcRewind`, `GcSweep`), because
the code gives the zone up (387-388) before it takes the write pointer back (389) and clears the bits (390-393), and calls may come in
between. One that opens the zone there sets `early`, a history variable: from then on pages can be lost and `set_valid` can
abort, as in the finding `set_valid_assert`, and only the types and the counters are still claimed. The granularity within a call is
deliberately coarse. It answers the question whether the *protocol* (what is
invalidated, moved, counted and reset, in which order) is right when calls and collected pages alternate,
including any number of collectors at any point of their scan. What happens when they interleave *within*
a call is the subject of `ZNSThreads`, and there the answer is different: see section 6.

**BufferManager.** The manager is single-threaded, so a call is a step. `disk` is what the controller would
return. `Victims`, `Flushes` and `Release` are the three decisions in which the modes differ: which
candidates are flushed, in which clusters and order, and whether their frames become free (`update_dirty`) or stay in
use as clean ones (`dirty_to_clean`). The clock of `ach_clutser` is abstracted to a choice of the pages it
finds old. `cluster_flag` is capped at 2, beyond which `HC_Lv` does not distinguish. `is_evict` with an
empty `cList` dereferences `cList->back()`; whatever it yields is not in `cMap`, so the outcome is the one
modelled. A workload inserts a page once and then reads and updates it.

**ZNSThreads.** Each thread has a program counter. The choice of a zone without a mutex is a step for each zone a scan comes to (`Scan`, `Pick`); a zone
found tight is locked and finished on the device (`Finish`) and then marked (`MarkFull`), without a second look at it; an empty one is
opened on the device (`Open`), marked (`MarkOpen`) and given its stream (`Own`), under no mutex. `Lock` is the second test of `cond`,
under the mutex; `Body` is the order of statements under the mutex, which
differs between `write_page`, `write_page_gc` and `create_new_page`. `set_valid` is a load (`Find`) and a store
(`SetValid`), because `valid_page` is not protected by the mutex that is held; `set_page_addr` is an erase and
an insert. A collector gives its zone back in five steps: `GcReset`, `GcEmpty`, `GcDisown`, `GcRewind`, `GcSweep`. Merged into one step are
the tests that one turn of a scan makes of one zone, the stores of `valid_page` and of its bit, the turns of a collector's last loop with the flags that
follow, and the detection, which only the main thread makes. `late` is a history variable: a thread marked a zone
open that had been finished already. Page ids are not 0, so an unwritten slot never
carries the id of a page; a collector that reads one (its zone was reset under it) goes on with an id that the
table does not have (`Stored`). `ThreadsOK` asks that the device have room for two pages per thread beyond `Cap`: three quarters
of a zone lie beyond it (the `/ 4` of `init`), and two pages for each of 501 threads (`MAX_ZONE_NUM` collectors and the main thread) are 4 MB.

**ColdRestruct.** The grain is that of `ZNSController`. A detection is one step once its wait is over; the main
thread goes through `main` = `cd`, then `gc`, then `idle`, since `evict_victim` calls `cd_detect` before
`garbage_collection_detect`. A restructuring thread first sets `Cd` (`CdStart`), then takes a step per page and three to give a
zone back; `rest` is what is left of its list, and the zones of a list are in the order of their numbers because `cd_detect`
scans them so. `gc_rate` is counted in invalid pages; `gc_rate_last` before its first assignment, and whether
`cd_count` has passed `cd_interval`, are choices because both are read uninitialised. The waits are loops that read a
plain boolean; the build type defaults to Debug (`-O0`), where every turn reads it again. `shared` is
a history variable: some zone was given to two threads, or was opened again before the restructuring thread had done with it
(`Reopens`). While it and `early` are false, restructuring is right (`SafeApart`,
proved); the run `cold_read_assert` shows what happens when it becomes true.

**CuckooMap.** `want` is the set of spinlocks a thread has yet to take for what `pc` says it does next; `lock_two`, `lock_three`
and `lock_all` all take the lowest first, so a set is enough. The hashpower is read without a lock (`Snapshot`) and compared
after the first lock (`Stale`). A lock that is not migrated has its old buckets moved in one step and the count
of remaining locks decremented in another. `cuckoo_fast_double` moves what is left and swaps
the arrays in one step and makes the new array in another: in between, the hashpower others read is an old one. The
path codes of the breadth-first search are the code's numbers. `queue` is what is left of the `b_queue`; `last` counts what it was
given, because its array is not reused: `TypeOK` says that `last` stays within `MAX_CUCKOO_COUNT`, which is what the assertion of
`enqueue` asks. The hash and the alternative bucket are parameters,
with the facts about them that lazy migration relies on as assumptions, evaluated for the functions of `CuckooHash` that `MCCuckoo`
tabulates. Keys and values are integers, so there is no partial-key tag in a slot, and
copies do not throw. An insert may throw `load_factor_too_low`, which `AtomicMap` lets it do without effect:
`check_resize_validity` tests the load before it notices that somebody else has already doubled the table.
`elem_counter` is kept for each lock, but moves and migrations do not touch it: only the sum means something,
and `SizeCounts` says what.

**DataStructure.** The list is cells with `next` and `prev`, freed or not; `elems` and `map` are
history variables, the sequence and the map that the calls mean. Calls that an assertion of the code ends (a pop from an empty list, the
erasure of an absent key) are not made. `L_push` and `L_erase` are called with what the list contains, and no
`nullptr` is inserted in the table: as the first of its chain such a value hides the others.

## 4. Runs

Deadlock checking is off where the program may stop: after an abort, or once the buffer is closed, or when the
bounded number of calls is used up.

| Run | Instance | Shows |
|---|---|---|
| `controller` | 3 zones of 2 pages, 1 stream, 2 pages, 2 contents, writes of one page; ends where a zone is opened early | `CollectedIsDead`, `PointersAgree`, and `StoreSpec`: the controller refines `PageStore` |
| `controller_clusters` | 2 zones of 3 pages, 1 stream, 2 pages, 2 contents, clusters of 0 to 2; goes on after a zone was opened early | `TypeOK`, `ValidCount`, and until then `ReadsLatest`, `BitsMatchTable` |
| `buffer` | all six modes; 3 frames, working region 1, 4 pages, 2 contents | lists, eviction decisions, `FlushedBeforeClean`, also where flushed frames stay in use, whichever cluster is chosen, and where the three clusters of `ach_clutser` overlap; in modes lru, cflru and zalp_wc the working region, latest contents, durability at close, refinement of `PageStore` |
| `buffer_ach` | mode ach_only, as shipped; 4 frames, working region 1, 5 pages | dirty marks and the assertion of `read_page` where a page can have several dirty frames |
| `threads` | 3 zones of 1 page, 2 pages, 5 calls, fair threads | `HeldZoneOpen`, `EntryKept`, `CallReturns`, `CollectionEnds` at the fine grain |
| `cold` | 3 zones of 2 pages, 2 streams, lists of any length, 2 restructuring threads, 5 writes, fair threads | `SafeApart`, `WaitsEnd` |
| `cuckoo` | 2 threads with 2 and 1 calls, buckets of 2 slots, 8 buckets to begin with, 2 locks, paths of up to 3 moves | `KeyOnce`, `SizeCounts`, `RehashAsserts`, `LocksInOrder`, `HashpowerHeld`, refinement of `AtomicMap`, `CallReturns` |
| `data_structure` | 3 cells, 4 keys in 2 chains, any number of calls | `ListIsSequence`, `TableIsMap` |
| `read_id_assert`, `set_valid_assert`, `write_to_full` | as `threads`, with 7, 7 and 6 calls | three assertions of the code that fail (section 6) |
| `cold_read_assert` | 4 zones, lists of 3 or more as in the code, 8 writes | the assertion of `read_page` fails with restructuring, even at the coarse grain |

*Bounds.* Three zones are the fewest with one being written, one being collected and one to open; a zone of two
pages has a first, a last and a partly valid state, a cluster that fills it exactly and one that does not
fit; `GcValid = 1` lets a collector find a page to move. With the zones of three pages of `controller_clusters` a cluster of two
crosses the capacity by one page; two zones are enough there, for one being written and one being collected, with the last one opened early. `controller` stops there
(`BeforeEarly`), because what it checks is said of the time before. A buffer of three frames with a working region of one
flushes two at a time and has candidates of different clusters; with four, three are flushed at a time,
the fewest for which a flushed frame can outlive a second home of its page. One more page than frames makes
every kind of miss happen. In
`buffer` the shortcut of `wh_only` for hot clusters takes two pages
(`HotMin`), where it chooses what the general rule would. A run covers several modes because `Mode` is chosen in `Init`;
a property of some of them says so (`OneFrame`).

`MaxCalls` bounds the calls of `ZNSThreads`. Five allow two inserts, a write that strands a page, a
detection and one more call, and with them all that `threads` is about: threads that find the zone they chose finished by another and
retry, two zones under collection at once, and a thread that is late to mark a zone open. They do not fill a zone
to `Brim`, nor does any instance that TLC can finish: that no zone is filled further is proved (section 5). The
counterexamples of the three violation runs take six and seven. The
zones hold one page, and the device has room for what `ThreadsOK` asks and no more.

In `cold` a restructuring thread is started for any list that is not empty instead of one of three zones (`MinRestruct` = 1), so
that three zones are enough for the interesting cases, all of which occur: two threads at work on different zones or on the
same one, a thread beside a collector on another zone or on the same one, a thread that goes on to a second zone, and a zone
opened early. Two streams compete for the zones, and a collector writes into the stream of the zone it collects. Writes there are of one page: once a page is lost, two pages can
have one address, and a cluster is no longer written as `Place` says (the bound on `n` in `Evict`). `cold_read_assert` has the code's own
number and therefore a fourth zone.

In `cuckoo` two spinlocks for eight buckets are the state of a table that has doubled more often than its lock array
grew; they are the fewest for which locks have an order. Of the two tables `Init` chooses from, one has full
buckets that a path of cuckoo moves leads out of; the other can only double, and then two keys of one bucket go up
together. `MinLoadPercent` = 15 lies between the loads of a table before and after it doubled, so that the second of two
doublings can be refused.

*Fairness.* `WF` of each background thread, and of the main thread within a call (`ZNSThreads`) or a detection
(`ColdRestruct`): the operating system
keeps running every thread. Nothing is assumed about the workload, nor that mutexes are fair. In `CuckooMap`
the weak fairness of a thread's steps is written out with `CanStep`, a condition that implies one of them is possible: a
thread that never stops being able to go on does go on. Spinlocks are not fair either: a thread that waits for one that is
taken and freed for ever may wait for ever, which a bounded number of calls excludes. Runs that check liveness use no symmetry.

Each property of each passing run has a mutant in `PROJECT.json`: an operator that changes one definition as a
plausible slip of the code would, kept beside it and marked *Mutant*, under which TLC finds the property violated.

## 5. What is proved

`ZNSControllerProofs` proves, for any number of zones, pages, contents and streams, any capacity and any
cluster size up to it (`ConstantsOK`), that `Spec` implies `TypeOK`, `ReadsLatest`, `BitsMatchTable`,
`ValidCount`, `CollectedIsDead`, `PointersAgree`, and `StoreSpec`, the refinement of `PageStore`. All but `TypeOK` and `ValidCount`
are claims about the time before a zone is opened early.

The safety properties are not inductive one by one. `BitsMatchTable` alone does not survive a sweep, which
needs to know that the scan left nothing valid; that a zone under collection receives no page needs it to
be full until it is reset and then not opened; that a write lands on no live address needs the bits above `wp` to be
clear. The invariant proved inductive is `IInv`, of two parts:

* `Safe`, always: `Sound` (the types; `Clean`, an empty zone has nothing stored in it, so that what is stored is what was written since the reset; and
  `ValidCount`), `Aside` and `FaultType` (the other types), `Stored` (a page on the device has an entry in the table, so the copy of a page that is read finds one) and
  `MappedIffPromised` (a page has an address exactly when it was inserted).
* `Core`, as long as `early` is false: `ZoneShape` (an empty zone has no stream, others have one; no bit is set at or
  above `wp`), `Reads`, `Bits` and `Dead`, which are the properties, `GcIdle` (a zone not under collection has no scan position), and that `set_valid` has not aborted.

There is a lemma for what `Write` does to each part (`WriteSafe`, `WriteCore`), used for the three foreground writes and for the
collector's, then one for each step of a collector. The three steps that give a zone back are stated as operators (`Emptied` and those after it), so
that the restructuring threads share their lemmas. Counting is by the library's facts on cardinalities: `valid_page`
changes by the number of written pages that lived in the zone. `PointersAgree` adds `Pointers`, which holds until a zone is opened early: a write goes where
the device's pointer is, or it is a fault. The refinement follows from `ReadsLatest`, which identifies what is
served with what was promised.

`ColdRestructProofs` proves, for any number of restructuring threads and writes and any `MinRestruct` and `ColdStep`
(`RestructOK`), `SafeApart`, and that as long as no zone was given to two threads or opened early, zones in hand are apart
(`Apart`). The invariant `CInv` joins to the shape of the lists (`Lists`) the two parts of the controller's: `Safe` in every state, and, while `shared` and `early` are
false, `Core`; that the zones on a list are full until they are reset, not under collection,
and on one list only (`Apart`); and that what a restructuring scan has passed is invalid (`PassedIsDead`). A step of any
other thread leaves this alone because it keeps zones in hand as they are and sets no bit in them (`HandKept`, `Left`), which
the lemmas about `Write` give; a step of the thread itself moves a page and clears its bit by the same lemmas, and the three steps that give a zone back
are those of `EmptiedCore`, `RewoundCore` and `SweptCore`, shared with the collectors.

It also proves `ColdTypeOK` and `ValidCount` for every state, shared or not. `Core` does not survive there: pages are
lost, two pages may have one address, a zone is reset while it is in use. `Safe` does: a second reset of a zone leaves it as it finds it, and a
write of a page whose bit is already clear ends the program with the fault `bit`, as `set_valid` does.

`ZNSThreadsProofs` proves, at the grain of shared accesses and for any number of zones, collectors and calls, any `Cap`, `DevCap` and
`GcValid` (`ThreadsOK`), `TypeOK`, `HeldZoneOpen` and `EntryKept`. `TInv` states: the shape of the variables; that a thread of a zone is busy exactly while
`inGc`, and that its zone is not empty until it says so (`Collecting`); that a thread that writes, or is about to mark a zone full, holds the mutex of the zone (`Placed`);
and, as long as no zone was marked open late (`Steady`), that it finds the zone open and not finished, that a collector's zone stays full, and that
a finished zone still marked open is locked by the thread that is about to mark it full. That last part is why finishing and
marking can be two steps: nobody else gets the mutex in between. `EntryInv` adds that every page which is due has an entry or a thread at `insert`; it does not
depend on `late`. The program of a call is
a sequence (`Body`), so the proof goes through what can come next in it (`BodyShape`).

The types are the long part, for one conjunct: `wp` stays within `Brim`, the capacity and two pages for each thread, on which it depends that what
`Insert` stores is a slot of the device. No thread tests the room under the mutex, so the bound comes
from counting: `Coming(z)` is the set of threads that are on their way to write in `z`, from the choice to the pwrite, and the device's pointer plus their
number stays within `Brim` (`Fill`). A thread joins them where there is room for a page, or in an empty zone; when it has written, the
pointer and the number change places. Two pages, because a zone can be found to be empty, by every thread, while those who found room in it before it was
finished are still on their way: of an empty zone `Fill` bounds by `Cap` and one page per thread what those who are past the lock will write (`Entered`).
The pointers of controller and device agree but for a page that a collector has written and not counted (`Owed`). In a zone where they do not (`Even` is false: it has been
reset and not rewound, or rewound after others wrote there) no pwrite succeeds, so the bound is kept there without counting. `FInv` joins to these the
types (`Data`) and the contents of a call past its first lookup (`Local`). None of it depends on `late`.

`CuckooMapProofs` proves, for any threads, locks, keys and hash functions, `LocksInOrder`, `HashpowerHeld` and `DoublesAlone`:
what a thread has checked once under its first lock holds until it has released all. The invariant `LInv` adds that a
thread between calls has and wants no lock, and that one that doubles has or wants all of them (`Doubling`): this is what keeps the
hashpower still under everybody else. The assumptions used are that there is a spinlock, that `Nobody` is no thread, and that workloads
consist of the three calls; not `IndexAssumption`.

It also proves `KeyOnce`, `RehashAsserts`, `SizeCounts`, `TypeOK` and `MapSpec`, the refinement of `AtomicMap`, for any number of
threads, calls, slots and locks and any path length, from one more hypothesis: `HashesAlways`, which says of the hash functions at every hashpower
from the initial one on what `IndexAssumption` says of three (that instance is what TLC evaluates). `index_hash` and `alt_index` have it at every
hashpower from 9, and a table begins with 16: both are masked with the hashpower, `alt_index` is an exclusive or with a
product that does not depend on it, and that product, of at most 256 and an odd constant, is not 0 modulo a power of two above 256.

* *Contents.* `CInv` joins to `LInv` the state of the arrays and of each thread. An array is `Good` when no key is in it twice and each is in one of its two
  buckets; the new buckets fit (`Fits`) when those of unmigrated locks are empty and no key is in both arrays; while the two are
  swapped (`Between`) all is in the old array. Where `NewPosition` sends the elements of the old buckets is injective and stays under the same lock
  (`NewPositionInjective`, `NewPositionFacts`, by counting the elements before one that move up with it). Of a thread that searches, follows a path or moves, `CInv` says that the locks it
  holds or wants are those of the buckets it is at (`Searching`, `Following`, `Moving`), and that each bucket of a path is the other
  bucket of the key before it (`Linked`): so a move puts a key where it is looked for, and the step that inserts holds both buckets of its key.
* *Refinement.* `MInv` adds what a thread has asked and been answered. `Elements` is unchanged by a move, a migration, a swap and a new array (each with a
  lemma); the one step that changes it, or that reads an answer from it, is the one in which the call returns, with the locks of both buckets held and migrated.
* *Counts.* `Total`, a recursive function, is shown to follow a change of one counter by induction on the least counterexample, as in
  `PowFacts`. Each step adds one element and one to one counter, or takes one from both, or leaves both (`Counts`).
* *The search.* `MAX_CUCKOO_COUNT` is just enough, so the proof cannot give anything away. `Balanced` says that the queue holds slots of one depth
  and then of the next, and that `last`, with all that those in the queue can still bring in (`Deeper`), is exactly
  `MAX_CUCKOO_COUNT`. This survives whatever others do to the buckets between two steps, since each full bucket brings in the
  same number of slots.

`ZALPProofs` and `BufferManagerProofs` prove, for any number of frames, pages and contents, any working region smaller than the
buffer (`RegionsOK`) and any `HotMin` (`BufferConstantsOK`):

* in all six modes: `TypeOK`, `ListsCorrect`, `DirtyListed`, `EvictionReady`, `ReadIdMatches` and the action property
  `FlushedBeforeClean`;
* in `lru`, `cflru` and `zalp_wc` (`OneFrame`), where a flush frees its frames or concerns the victim alone: `ReadsLatest`,
  `DurableAtClose`, the action property `WorkingRegionKept` and `StoreSpec`, the refinement of `PageStore`, which are stated
  of these modes only. What `ReadsLatest` says is false in the other three modes (section 6).

A list changes by the removal of elements (`erase`) and by pushes at its ends. `Without` is the selection of what stays (`Only`), written
with ranks: the element at `k` is the one with `k` selected positions up to its own. This form, unlike `SelectSeq`, can be proved about
without induction over the list. The proofs see a list through its elements (`Contains`), that none occurs twice, and
the order of two of them (`Before`); `ZALPProofs` says for every operator of the policy what becomes of these. `Lists`, the invariant of the
policy, says that every frame is free or in use, that those in use are clean or dirty, and that `lList` has both kinds in the
order of `cList` and of `dList`; `is_correct` follows, because a list is determined by its elements and their order. Two theorems are
what evictions rest on: when `is_evict` holds, the candidates, taken from the end of `dList`, are the frames beyond the
working region, in their order (`CandidateVictims`); when it does not and nothing is free, there is a clean frame, and the
one that is reused lies beyond the working region (`ReuseBeyond`). Both count how many frames of each kind
lie on each side of the border.

The invariants of the manager are not inductive one by one. `BInv`, inductive in every mode, joins to `Lists` that a frame in use
belongs to a page that was inserted and holds contents of it (`FramePart`), that `page2frame` leads to frames in use of
the right page (`MapPart`), that the disk has contents of every page inserted (`DiskPart`, needed for a miss), and that `dList` has the dirty
frames (`DirtyPart`). It does not say that a page has one frame, which is false where flushed frames stay in use.
`SInv` adds that for `OneFrame`: the entry of the page of a frame leads back to it, the frame has the latest contents, and
the disk has them too unless the frame is dirty (`FramesLatest`), or if there is no frame (`DiskLatest`). As no step changes `Mode`, `SInv` is kept
under `OneFrame` as a part of one invariant (`ModeInv`). There is a lemma
for what is flushed (`VictimsLemma`, `WrittenLemma`), for the release of the frames (`ReleaseLemma`), for a page that comes into a
frame (`InstallKeeps`, `InstallLatest`) and for a hit, each in every mode.

`DataStructureProofs` proves, for any finite memory, values, keys and number of chains, `TypeOK`, `ListIsSequence` and
`TableIsMap`. A list is seen through its path (`OnPath`): a function `g` with the sentinel at 0, the nodes in their order, and
`Null` behind them. `L_advance`, a recursive function, is shown to follow the path (`WalkAlong`, by a least counterexample, as
induction is out of reach). A push splices a node into the path; the two pops and `L_erase` are one step of the path
(`Unlinked`, `RemoveStep`). `ListIsSequence` says this in terms of `L_advance`, which depends on every pointer on the way. A chain of the
table holds each key of its index at most once, with its value in the map, and a marked item only if that is alone in it
(`Holds`): this last part, which `TableIsMap` does not say, is why the search may stop at a first item without a value.

Model-checked only: liveness under fairness (`CallReturns`, `CollectionEnds`, `WaitsEnd`), which the prover does not do. Every invariant and
action property of the passing runs is the subject of a theorem.

## 6. What the models say about the code

*Holds.* The protocol of the controller, at the grain of whole calls, is right (checked and proved). The lists of
ZALP satisfy `is_correct` in all modes; the dirty marks agree; when it flushes, the candidates
are exactly the frames outside the working region. In modes `lru`, `cflru` and `zalp_wc` the buffer is a page store and durable when closed
(all of this checked and proved).
This is said up to where a zone is opened again before its collector has done with it (finding 2); types and counters stay right even then.
At the fine grain, a zone being written stays open until some thread marks a finished zone open (finding 4), entries of the table are not lost for good, and no zone is filled
further past `cap` than by two pages for each thread (proved); calls return and collections end. Restructuring is right as long as no zone is given to two threads or opened early, and the waits for the flags end.
libcuckoo, used as it is here, is an atomic map (proved) whose calls return (checked), except that an insert may throw for a load that
another thread has just halved; `List` and `HashTable` do what their calls mean (proved).

*Does not hold: findings, each with a counterexample of a run.*

1. `zBuffer.cpp:52`, `assert(*read_id == page_id)`: a read races with the move of its page and the reset of the zone.
2. `zController.cpp:476`, `assert(0)`: a collector clears the bits of a zone that is already in use again.
3. `zController.cpp:296`: `cd_detect` starts a thread that sets `Cd` when it first runs; `garbage_collection_detect`, called
   next, still finds it clear and gives the same zones to collectors, as nothing marks the zones of the list. Whichever
   thread gets to a zone second resets it while it is in use again. The page is lost and
   `assert(*read_id == page_id)` fails (`cold_read_assert`). The first collector to end clears `Gc` for all of
   them, which opens the same gap the other way round.
4. `zController.cpp:181`, and `assert(ret == PAGE_SIZE)` after a `pwrite64` (112): two threads find the same zone empty and open it (180). One stores `EXP_OPEN`, fills the zone, and a
   later call finishes it (172-174); then the other stores `EXP_OPEN`, which no mutex protects, passes the test of `cond` under the mutex (105) and writes to a finished zone, which
   the device refuses (`write_to_full`).

`ZNSThreads` reaches two more failures of the same kind, for which no run is kept. `zController.cpp:221`,
`assert(ret == PAGE_SIZE)`: a collected zone is opened again before its `wp` is taken back (cause and schedule of 2:
`garbage_collection` sets `cond` and `cf`, 387-388, before `wp` and the bitmap, 389-393). `zController.cpp:416`,
`assert(ret == 0)`: a thread opens a zone it saw empty, which others have opened, filled and finished since.

*Does not hold, but contradicts no statement of the repository,* so no run is kept:

* What `ReadsLatest` of `BufferManager` says of the other modes, in `ach_only` (the one shipped), `zalp` and `wh_only`, with three or more frames
  flushed at a time: a flushed frame stays in use with the page it held; the page comes back in another
  frame; when the first frame is reused, `fix_page` erases the entry of the page although it leads to the
  other frame. The page is then read from the disk, old, while its update waits in a frame nothing leads
  to, possibly to be written over a newer one.
* `ReadsLatest` at the fine grain: a collector reads a page, the main thread writes it, and the
  collector writes the old contents back as the latest.
* Two zones of one stream are open at once: the scans of `select_write_zone` (166-185) take no lock, so a thread that is past the first loop does not see the zone
  that another has opened for the stream meanwhile, and opens the next one. Both controller modules have this.
* `valid_page` at the fine grain: two threads that change the counter of a zone under the mutexes of other zones can lose an update (472, 474). Within `ZNSController` a
  change is one step, so `ValidCount` says nothing about this.
* A zone found tight is finished (173) without a second look, after a wait for its mutex: it may have been collected and be in use again by then.
* The destructor waits for collectors, not for a restructuring thread, which would go on with the freed bitmap (outside
  the model, which does not end the program).
* `HashTable`: a `nullptr` value in the first item of a chain hides the keys behind it. `~HashTable` has an empty body and
  frees nothing; the assertion of `L_push` joins its two conditions by `||`, so it accepts every position; `L_end` returns the last element.
* Threads that found room for one page, or found the zone empty, may write past `cap` together, where collections do not look; how far is proved (`Brim`).

The benchmark cannot notice stale contents, because `generate_random_frame` depends on the page id alone.

## 7. Not modelled

* `select_write_zone_ach`, which is unfinished and off (`covzs`); counters and statistics, output files, the
  reading of workloads, `print_gc_info`; BCB, which nothing uses.
* I/O errors of the device and its limit on open zones. The program keeps no state across runs, so there is no recovery
  to model.
* `write_cluster` and several streams in `ZNSThreads`; `ZNSController` has both, `ColdRestruct` too but for clusters after a page is lost.
* Restructuring at the grain of single accesses: what it adds to collections there are the same races.
* The end of the program in `ColdRestruct`, `ZNSThreads` and `CuckooMap`.
* Of libcuckoo, what this program never calls: `locked_table` and its iterators, `rehash`, `reserve`, `clear`, `cuckoo_expand_simple` and the
  threads it starts, maximum hashpower, `update`, `upsert` and `uprase`, growth of the lock array (one lock per bucket up to 2^16, after which it is
  constant as in the model), exceptions of allocations and copies, copying, swapping and comparing maps.
