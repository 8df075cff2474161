-------------------------- MODULE CuckooMapProofs --------------------------
(***************************************************************************)
(* Theorems about CuckooMap, for every number of threads, keys, slots and  *)
(* locks and any path length.                                              *)
(*                                                                         *)
(* For any hash functions: spinlocks are taken in one order, and the       *)
(* hashpower a thread has checked stays the table's for as long as it      *)
(* holds a lock.                                                           *)
(*                                                                         *)
(* For hash functions that are HashesAlways, as index_hash and alt_index   *)
(* are: what the table contains, what its counters say, what the search    *)
(* keeps in its arrays, and that the table implements AtomicMap.           *)
(***************************************************************************)
EXTENDS CuckooMap, Least, FiniteSetTheorems

Ops == {"insert", "erase", "find"}

(***************************************************************************)
(* The inductive invariant.  A thread that holds nothing wants all it will *)
(* take; cuckoo_fast_double holds or wants every lock.                     *)
(***************************************************************************)
Shape ==
  /\ holder \in [Locks -> Threads \cup {Nobody}]
  /\ want \in [Threads -> SUBSET Locks]
  /\ pc = [t \in Threads |-> pc[t]]
  /\ hp = [t \in Threads |-> hp[t]]
  /\ request = [t \in Threads |-> request[t]]

Asked(t) == pc[t] # "idle" => request[t].op \in Ops

Unlocked(t) == pc[t] \in {"idle", "snapshot"} => Held(t) = {} /\ want[t] = {}

Ordered(t) == \A l \in Held(t), m \in want[t] : l < m

Doubling(t) ==
  /\ pc[t] = "double" => Held(t) \cup want[t] = Locks
  /\ pc[t] = "fresh" => Held(t) = Locks

Checked(t) ==
  pc[t] \notin {"double", "fresh"} /\ Held(t) # {} => hp[t] = hashpower

Steady(t) == Asked(t) /\ Unlocked(t) /\ Ordered(t) /\ Doubling(t) /\ Checked(t)

LInv == Shape /\ \A t \in Threads : Steady(t)

------------------------------------------------------------------------------
(***************************************************************************)
(* Facts about the operators.                                              *)
(***************************************************************************)
LEMMA LocksAreNat == Locks \subseteq Nat /\ Locks # {}
<1>1. LockNum \in Nat \ {0}
  BY LocksAssumption
<1>2. 0 \in Locks
  BY <1>1 DEF Locks
<1> QED BY <1>1, <1>2 DEF Locks

LEMMA NextLockLeast ==
  ASSUME Shape, NEW t \in Threads, want[t] # {}
  PROVE  NextLock(t) \in want[t] /\ \A m \in want[t] : NextLock(t) <= m
<1>1. want[t] \in SUBSET Nat
  BY LocksAreNat DEF Shape
<1>2. PICK x \in want[t] : \A y \in want[t] : x <= y
  BY <1>1, LeastElement
<1> QED BY <1>2 DEF NextLock, Lowest

LEMMA LocksOfAreLocks == \A B : LocksOf(B) \subseteq Locks
<1> QED BY DEF LocksOf

------------------------------------------------------------------------------
(***************************************************************************)
(* What a step does to the locks, whatever else it does.                   *)
(***************************************************************************)
Releases(t) ==
  /\ \E l, w : /\ GoOn(t, l, w) /\ w \subseteq Locks
               /\ l # "fresh"
               /\ l = "double" => w = Locks
               /\ l \in {"idle", "snapshot"} => w = {}
  /\ Unlock(t)
  /\ UNCHANGED <<hashpower, request, hp>>

LEMMA KeepsInv ==
  ASSUME LInv, UNCHANGED <<hashpower, holder, pc, request, hp, want>>
  PROVE  LInv'
<1> QED BY DEF LInv, Shape, Steady, Asked, Unlocked, Ordered, Doubling, Checked, Held

LEMMA AfterUnlock ==
  ASSUME Shape, NEW t \in Threads, Unlock(t)
  PROVE  /\ holder' \in [Locks -> Threads \cup {Nobody}]
         /\ Held(t)' = {}
         /\ \A u \in Threads \ {t} : Held(u)' = Held(u)
<1> QED BY ThreadsAssumption DEF Shape, Unlock, Free, Held

LEMMA ReleasesInv ==
  ASSUME LInv, NEW t \in Threads, pc[t] # "idle", Releases(t)
  PROVE  LInv'
<1>1. PICK l, w : /\ GoOn(t, l, w) /\ w \subseteq Locks
                  /\ l # "fresh"
                  /\ l = "double" => w = Locks
                  /\ l \in {"idle", "snapshot"} => w = {}
  BY DEF Releases
<1>2. Shape /\ Unlock(t) /\ UNCHANGED <<hashpower, request, hp>>
  BY DEF LInv, Releases
<1>3. Shape'
  BY <1>1, <1>2, AfterUnlock DEF Shape, GoOn
<1>4. ASSUME NEW u \in Threads PROVE Steady(u)'
  <2>1. CASE u = t
    <3>1. pc'[t] = l /\ want'[t] = w /\ Held(t)' = {}
      BY <1>1, <1>2, AfterUnlock DEF GoOn, Shape
    <3>2. request'[t].op \in Ops
      BY <1>2 DEF LInv, Steady, Asked
    <3> QED BY <1>1, <2>1, <3>1, <3>2, LocksAreNat
            DEF Steady, Asked, Unlocked, Ordered, Doubling, Checked
  <2>2. CASE u # t
    <3>1. pc'[u] = pc[u] /\ want'[u] = want[u] /\ Held(u)' = Held(u)
      BY <1>1, <1>2, <2>2, AfterUnlock DEF GoOn, Shape
    <3> QED BY <1>2, <3>1
            DEF LInv, Steady, Asked, Unlocked, Ordered, Doubling, Checked
  <2> QED BY <2>1, <2>2
<1> QED BY <1>3, <1>4 DEF LInv

------------------------------------------------------------------------------
LEMMA CallInv ==
  ASSUME LInv, NEW t \in Threads, NEW r \in Workload, Call(t, r)
  PROVE  LInv'
<1>1. /\ pc[t] = "idle" /\ GoOn(t, "snapshot", {})
      /\ request' = [request EXCEPT ![t] = r]
      /\ UNCHANGED <<hashpower, holder, hp>>
  BY DEF Call, tableVars
<1>2. r.op \in Ops
  BY WorkloadAssumption DEF Requests, Ops
<1>3. Shape /\ Shape'
  BY <1>1 DEF LInv, Shape, GoOn
<1>4. ASSUME NEW u \in Threads PROVE Steady(u)'
  <2>1. Held(u)' = Held(u) /\ Steady(u)
    BY <1>1 DEF Held, LInv
  <2>2. CASE u = t
    <3>1. pc'[t] = "snapshot" /\ want'[t] = {} /\ request'[t] = r /\ Held(t)' = {}
      BY <1>1, <1>3, <2>1, <2>2 DEF GoOn, Shape, Steady, Unlocked
    <3> QED BY <1>2, <2>2, <3>1
            DEF Steady, Asked, Unlocked, Ordered, Doubling, Checked
  <2>3. CASE u # t
    <3>1. pc'[u] = pc[u] /\ want'[u] = want[u] /\ request'[u] = request[u]
      BY <1>1, <1>3, <2>3 DEF GoOn, Shape
    <3> QED BY <1>1, <2>1, <3>1
            DEF Steady, Asked, Unlocked, Ordered, Doubling, Checked
  <2> QED BY <2>2, <2>3
<1> QED BY <1>3, <1>4 DEF LInv

LEMMA SnapshotInv ==
  ASSUME LInv, NEW t \in Threads, Snapshot(t)
  PROVE  LInv'
<1> DEFINE W == LocksOf(Homes(hashpower, Key(t)))
<1>1. /\ pc[t] = "snapshot" /\ GoOn(t, request[t].op, W)
      /\ hp' = [hp EXCEPT ![t] = hashpower]
      /\ UNCHANGED <<hashpower, holder, request>>
  BY DEF Snapshot, tableVars
<1>2. W \subseteq Locks
  BY LocksOfAreLocks
<1>3. Shape /\ Shape'
  BY <1>1, <1>2 DEF LInv, Shape, GoOn
<1>4. ASSUME NEW u \in Threads PROVE Steady(u)'
  <2>1. Held(u)' = Held(u) /\ Steady(u)
    BY <1>1 DEF Held, LInv
  <2>2. CASE u = t
    <3>1. pc'[t] = request[t].op /\ Held(t)' = {} /\ request'[t].op \in Ops
      BY <1>1, <1>3, <2>1, <2>2 DEF GoOn, Shape, Steady, Unlocked, Asked
    <3> QED BY <1>1, <2>2, <3>1
            DEF Steady, Asked, Unlocked, Ordered, Doubling, Checked, Ops
  <2>3. CASE u # t
    <3>1. pc'[u] = pc[u] /\ want'[u] = want[u] /\ hp'[u] = hp[u]
      BY <1>1, <1>3, <2>3 DEF GoOn, Shape
    <3> QED BY <1>1, <2>1, <3>1
            DEF Steady, Asked, Unlocked, Ordered, Doubling, Checked
  <2> QED BY <2>2, <2>3
<1> QED BY <1>3, <1>4 DEF LInv

LEMMA LockInv ==
  ASSUME LInv, NEW t \in Threads, Lock(t)
  PROVE  LInv'
<1> DEFINE n == NextLock(t)
<1>1. /\ want[t] # {} /\ holder[n] = Nobody /\ ~ Stale(t)
      /\ holder' = [holder EXCEPT ![n] = t]
      /\ want' = [want EXCEPT ![t] = @ \ {n}]
      /\ UNCHANGED <<hashpower, pc, request, hp>>
  BY DEF Lock, NextLockFree, tableVars
<1>2. n \in want[t] /\ \A m \in want[t] : n <= m
  BY <1>1, NextLockLeast DEF LInv
<1> HIDE DEF n
<1>3. n \in Locks /\ want[t] \subseteq Nat
  BY <1>2, LocksAreNat DEF LInv, Shape
<1>4. Shape /\ Shape'
  BY <1>1, <1>3 DEF LInv, Shape
<1>5. Held(t)' = Held(t) \cup {n} /\ want'[t] = want[t] \ {n}
  BY <1>1, <1>3, <1>4 DEF Held, Shape
<1>6. Steady(t)'
  <2>1. Steady(t)
    BY DEF LInv
  <2>2. Asked(t)' /\ Unlocked(t)' /\ Doubling(t)'
    BY <1>1, <1>2, <1>3, <1>5, <2>1 DEF Steady, Asked, Unlocked, Doubling, Held
  <2>3. Ordered(t)'
    BY <1>2, <1>3, <1>5, <2>1 DEF Steady, Ordered
  <2>4. Checked(t)'
    BY <1>1, <2>1 DEF Steady, Checked, Stale
  <2> QED BY <2>2, <2>3, <2>4 DEF Steady
<1>7. ASSUME NEW u \in Threads, u # t PROVE Steady(u)'
  <2>1. Held(u)' = Held(u) /\ want'[u] = want[u]
    BY <1>1, <1>3, <1>4, <1>7, ThreadsAssumption DEF Held, Shape
  <2> QED BY <1>1, <2>1
          DEF LInv, Steady, Asked, Unlocked, Ordered, Doubling, Checked
<1> QED BY <1>4, <1>6, <1>7 DEF LInv

(* The first lock is given back: the thread holds none.                    *)
LEMMA HashpowerChangedInv ==
  ASSUME LInv, NEW t \in Threads, HashpowerChanged(t)
  PROVE  LInv'
<1>1. /\ GoOn(t, "snapshot", {}) /\ Held(t) = {} /\ want[t] # {}
      /\ UNCHANGED <<hashpower, holder, request, hp>>
  BY DEF HashpowerChanged, NextLockFree, Stale, tableVars
<1>2. Shape /\ Shape'
  BY <1>1 DEF LInv, Shape, GoOn
<1>3. ASSUME NEW u \in Threads PROVE Steady(u)'
  <2>1. Held(u)' = Held(u) /\ Steady(u)
    BY <1>1 DEF Held, LInv
  <2>2. CASE u = t
    <3>1. pc'[t] = "snapshot" /\ want'[t] = {} /\ Held(t)' = {} /\ pc[t] # "idle"
      BY <1>1, <1>2, <2>1, <2>2 DEF GoOn, Shape, Steady, Unlocked
    <3> QED BY <1>1, <2>1, <2>2, <3>1
            DEF Steady, Asked, Unlocked, Ordered, Doubling, Checked
  <2>3. CASE u # t
    <3>1. pc'[u] = pc[u] /\ want'[u] = want[u]
      BY <1>1, <1>2, <2>3 DEF GoOn, Shape
    <3> QED BY <1>1, <2>1, <3>1
            DEF Steady, Asked, Unlocked, Ordered, Doubling, Checked
  <2> QED BY <2>2, <2>3
<1> QED BY <1>2, <1>3 DEF LInv

------------------------------------------------------------------------------
(* A thread that holds every lock is alone.                                *)
LEMMA Alone ==
  ASSUME Shape, NEW t \in Threads, Held(t) = Locks,
         NEW u \in Threads, u # t
  PROVE  Held(u) = {}
<1> QED BY DEF Held

LEMMA SwapInv ==
  ASSUME LInv, NEW t \in Threads, SwapBuckets(t)
  PROVE  LInv'
<1>1. /\ pc[t] = "double" /\ want[t] = {} /\ GoOn(t, "fresh", {})
      /\ UNCHANGED <<holder, request, hp>>
  BY DEF SwapBuckets, AllHeld
<1>2. Shape /\ Shape'
  BY <1>1 DEF LInv, Shape, GoOn
<1>3. Held(t) = Locks
  BY <1>1 DEF LInv, Steady, Doubling
<1>4. ASSUME NEW u \in Threads PROVE Steady(u)'
  <2>1. Held(u)' = Held(u) /\ Steady(u)
    BY <1>1 DEF Held, LInv
  <2>2. CASE u = t
    <3>1. pc'[t] = "fresh" /\ want'[t] = {} /\ Held(t)' = Locks
      BY <1>1, <1>2, <1>3, <2>1, <2>2 DEF GoOn, Shape
    <3> QED BY <1>1, <2>1, <2>2, <3>1
            DEF Steady, Asked, Unlocked, Ordered, Doubling, Checked
  <2>3. CASE u # t
    <3>1. pc'[u] = pc[u] /\ want'[u] = want[u] /\ Held(u)' = {}
      BY <1>1, <1>2, <1>3, <2>1, <2>3, Alone DEF GoOn, Shape
    <3> QED BY <1>1, <2>1, <3>1
            DEF Steady, Asked, Unlocked, Ordered, Doubling, Checked
  <2> QED BY <2>2, <2>3
<1> QED BY <1>2, <1>4 DEF LInv

LEMMA FreshInv ==
  ASSUME LInv, NEW t \in Threads, FreshBuckets(t)
  PROVE  LInv'
<1>1. /\ pc[t] = "fresh" /\ GoOn(t, "snapshot", {}) /\ Unlock(t)
      /\ UNCHANGED <<request, hp>>
  BY DEF FreshBuckets, AllHeld
<1>2. Shape /\ Held(t) = Locks
  BY <1>1 DEF LInv, Steady, Doubling
<1>3. Shape'
  BY <1>1, <1>2, AfterUnlock DEF Shape, GoOn
<1>4. ASSUME NEW u \in Threads PROVE Steady(u)'
  <2>1. Held(u)' = {} /\ Steady(u)
    BY <1>1, <1>2, AfterUnlock, Alone DEF LInv
  <2>2. CASE u = t
    <3>1. pc'[t] = "snapshot" /\ want'[t] = {}
      BY <1>1, <1>2 DEF GoOn, Shape
    <3> QED BY <1>1, <2>1, <2>2, <3>1
            DEF Steady, Asked, Unlocked, Ordered, Doubling, Checked
  <2>3. CASE u # t
    <3>1. pc'[u] = pc[u] /\ want'[u] = want[u] /\ Held(u) = {}
      BY <1>1, <1>2, <2>3, Alone DEF GoOn, Shape
    <3> QED BY <1>1, <2>1, <3>1
            DEF Steady, Asked, Unlocked, Ordered, Doubling, Checked
  <2> QED BY <2>2, <2>3
<1> QED BY <1>3, <1>4 DEF LInv

------------------------------------------------------------------------------
LEMMA ReturnsReleases ==
  ASSUME NEW t \in Threads, NEW a, Returns(t, a), hashpower' = hashpower
  PROVE  Releases(t)
<1> QED BY DEF Returns, Releases

LEMMA RunCuckooReleases ==
  ASSUME NEW t \in Threads, RunCuckoo(t), UNCHANGED <<hashpower, request, hp>>
  PROVE  Releases(t)
<1> QED BY LocksOfAreLocks DEF RunCuckoo, Releases

(* A thread that has the locks it wanted is in a call.                     *)
LEMMA ReadyIsBusy ==
  ASSUME LInv, NEW t \in Threads, Ready(t)
  PROVE  pc[t] # "idle"
<1> QED BY DEF Ready, HasLocks, LInv, Steady, Unlocked

LEMMA WorkInv ==
  ASSUME LInv, NEW t \in Threads,
         \/ find_fn(t) \/ erase_fn(t) \/ InsertHere(t) \/ InsertAfterMove(t)
         \/ DoubleThrows(t)
         \/ InsertMakesRoom(t) \/ MoveFails(t)
         \/ SlotSearch(t) \/ CuckooPath(t) \/ MoveStep(t) \/ DoubledByOther(t)
  PROVE  LInv'
<1>1. pc[t] # "idle"
  BY DEF find_fn, erase_fn, InsertHere, InsertAfterMove, DoubleThrows, InsertMakesRoom,
         MoveFails, SlotSearch, CuckooPath, MoveStep, DoubledByOther, AllHeld
<1>2. Releases(t)
  <2>1. CASE find_fn(t)
    BY <2>1, ReturnsReleases DEF find_fn, tableVars
  <2>2. CASE erase_fn(t)
    BY <2>2, ReturnsReleases DEF erase_fn
  <2>3. CASE InsertHere(t)
    BY <2>3, ReturnsReleases DEF InsertHere
  <2>4. CASE InsertAfterMove(t)
    BY <2>4, ReturnsReleases DEF InsertAfterMove
  <2>5. CASE DoubleThrows(t)
    BY <2>5, ReturnsReleases DEF DoubleThrows, tableVars
  <2>6. CASE InsertMakesRoom(t)
    BY <2>6, RunCuckooReleases DEF InsertMakesRoom, tableVars
  <2>7. CASE MoveFails(t)
    BY <2>7, RunCuckooReleases DEF MoveFails, tableVars
  <2>8. CASE SlotSearch(t)
    <3>1. PICK l, w : /\ GoOn(t, l, w) /\ w \subseteq Locks
                      /\ l \in {"path", "search", "double"}
                      /\ l = "double" => w = Locks
      <4> DEFINE x == Head(queue[t])
                 rest == Tail(queue[t]) \o Children(t, x)
                 free == {i \in Slots : buckets[<<x.b, SlotAt(x, i)>>] = NoElem}
                 p == PlanOf(t, Extended(x, SlotAt(x, Lowest(free))), x.depth)
      <4>1. \/ GoOn(t, "path", LocksOf({p.first}))
            \/ GoOn(t, "double", Locks)
            \/ GoOn(t, "search", LocksOf({Head(rest).b}))
        BY <2>8, Zenon DEF SlotSearch
      <4> HIDE DEF p, rest
      <4> QED BY <4>1, LocksOfAreLocks
    <3>2. Unlock(t) /\ UNCHANGED <<hashpower, request, hp>>
      BY <2>8 DEF SlotSearch, tableVars
    <3>3. l # "fresh" /\ l \notin {"idle", "snapshot"}
      BY <3>1
    <3> QED BY <3>1, <3>2, <3>3, Zenon DEF Releases
  <2>9. CASE CuckooPath(t)
    <3>1. \E l, w : GoOn(t, l, w) /\ w \subseteq Locks /\ l \in {"move", "path"}
      BY <2>9, LocksOfAreLocks DEF CuckooPath, MoveLocks
    <3> QED BY <2>9, <3>1 DEF CuckooPath, Releases, tableVars
  <2>10. CASE MoveStep(t)
    <3>1. \E w : GoOn(t, "move", w) /\ w \subseteq Locks
      BY <2>10, LocksOfAreLocks DEF MoveStep, MoveLocks
    <3> QED BY <2>10, <3>1 DEF MoveStep, Releases
  <2>11. CASE DoubledByOther(t)
    BY <2>11 DEF DoubledByOther, Releases, tableVars
  <2> QED BY <2>1, <2>2, <2>3, <2>4, <2>5, <2>6, <2>7, <2>8, <2>9, <2>10, <2>11
<1> QED BY <1>1, <1>2, ReleasesInv

LEMMA StepInv ==
  ASSUME LInv, NEW t \in Threads, Step(t)
  PROVE  LInv'
<1>1. CASE Snapshot(t) \/ Lock(t) \/ HashpowerChanged(t)
  BY <1>1, SnapshotInv, LockInv, HashpowerChangedInv
<1>2. CASE RehashLock(t) \/ decrement_num_remaining_lazy_rehash_locks(t)
  BY <1>2, KeepsInv DEF RehashLock, decrement_num_remaining_lazy_rehash_locks
<1>3. CASE SwapBuckets(t) \/ FreshBuckets(t)
  BY <1>3, SwapInv, FreshInv
<1>4. CASE ~ (\/ Snapshot(t) \/ Lock(t) \/ HashpowerChanged(t)
              \/ RehashLock(t) \/ decrement_num_remaining_lazy_rehash_locks(t)
              \/ SwapBuckets(t) \/ FreshBuckets(t))
  BY <1>4, WorkInv DEF Step
<1> QED BY <1>1, <1>2, <1>3, <1>4

LEMMA InitInv == Init => LInv
<1> SUFFICES ASSUME Init PROVE LInv
  OBVIOUS
<1>1. Shape
  BY DEF Init, Shape
<1>2. ASSUME NEW t \in Threads PROVE Steady(t)
  <2>1. pc[t] = "idle" /\ want[t] = {} /\ Held(t) = {}
    BY ThreadsAssumption DEF Init, Held
  <2> QED BY <2>1 DEF Steady, Asked, Unlocked, Ordered, Doubling, Checked
<1> QED BY <1>1, <1>2 DEF LInv

THEOREM SpecLInv == Spec => []LInv
<1>1. LInv /\ [Next]_vars => LInv'
  BY CallInv, StepInv, KeepsInv DEF Next, vars, tableVars
<1> QED BY <1>1, InitInv, PTL DEF Spec

(* No thread holds a spinlock above one it has yet to take, so threads     *)
(* never wait for each other in a circle (lock_two, lock_three, lock_all). *)
THEOREM SpecLocksInOrder == Spec => []LocksInOrder
<1>1. LInv => LocksInOrder
  BY DEF LInv, Steady, Ordered, LocksInOrder
<1> QED BY <1>1, SpecLInv, PTL

(* check_hashpower looks at the hashpower once, after the first lock of a  *)
(* call, of a search step or of a move: the table does not double before   *)
(* the thread has given its locks up, so the buckets it computed stay      *)
(* those of its key.                                                       *)
THEOREM SpecHashpowerHeld == Spec => []HashpowerHeld
<1>1. LInv => HashpowerHeld
  BY DEF LInv, Steady, Checked, HashpowerHeld
<1> QED BY <1>1, SpecLInv, PTL

(* While a thread doubles the table it holds every spinlock, and no other  *)
(* thread holds one: the moment at which the hashpower is an old one is    *)
(* seen only by threads that have no lock (cuckoo_fast_double).            *)
DoublesAlone ==
  \A t \in Threads :
    pc[t] = "fresh" => \A u \in Threads \ {t} : Held(u) = {}

THEOREM SpecDoublesAlone == Spec => []DoublesAlone
<1>1. LInv => DoublesAlone
  <2> SUFFICES ASSUME LInv, NEW t \in Threads, pc[t] = "fresh",
                      NEW u \in Threads \ {t}
               PROVE  Held(u) = {}
    BY DEF DoublesAlone
  <2>1. Held(t) = Locks /\ Shape
    BY DEF LInv, Steady, Doubling
  <2> QED BY <2>1, Alone
<1> QED BY <1>1, SpecLInv, PTL

------------------------------------------------------------------------------
(***************************************************************************)
(* Powers.                                                                 *)
(***************************************************************************)
PowersTo(b, e) ==
  {f \in [0 .. e -> Nat \ {0}] : f[0] = 1 /\ \A i \in 1 .. e : f[i] = b * f[i - 1]}

LEMMA PowersExist ==
  ASSUME NEW b \in Nat \ {0}, NEW e \in Nat
  PROVE  PowersTo(b, e) # {}
<1> DEFINE B == {n \in Nat : PowersTo(b, n) = {}}
<1>1. ASSUME B # {} PROVE FALSE
  <2>1. PICK x \in B : \A y \in B : x <= y
    <3>1. B \in SUBSET Nat
      OBVIOUS
    <3> HIDE DEF B
    <3> QED BY <1>1, <3>1, LeastElement
  <2>2. x # 0
    <3> SUFFICES ASSUME x = 0 PROVE FALSE
      OBVIOUS
    <3> DEFINE f == [i \in 0 .. 0 |-> 1]
    <3>1. f \in [0 .. 0 -> Nat \ {0}] /\ f[0] = 1 /\ \A i \in 1 .. 0 : FALSE
      OBVIOUS
    <3> HIDE DEF f
    <3>2. f \in PowersTo(b, 0)
      BY <3>1 DEF PowersTo
    <3> QED BY <3>2
  <2>3. x \in Nat /\ x - 1 \in Nat /\ ~ (x <= x - 1)
    BY <2>2
  <2>4. PICK g : g \in PowersTo(b, x - 1)
    BY <2>1, <2>3
  <2>5. /\ g \in [0 .. x - 1 -> Nat \ {0}] /\ g[0] = 1
        /\ \A i \in 1 .. x - 1 : g[i] = b * g[i - 1]
    BY <2>4 DEF PowersTo
  <2> DEFINE f == [i \in 0 .. x |-> IF i = x THEN b * g[x - 1] ELSE g[i]]
  <2>6. g[x - 1] \in Nat \ {0} /\ b * g[x - 1] \in Nat \ {0}
    BY <2>3, <2>5
  <2>7. f \in [0 .. x -> Nat \ {0}]
    BY <2>3, <2>5, <2>6
  <2>8. f[0] = 1 /\ f[x] = b * f[x - 1] /\ \A i \in 1 .. x - 1 : f[i] = b * f[i - 1]
    BY <2>2, <2>3, <2>5
  <2> HIDE DEF f
  <2>9. \A i \in 1 .. x : f[i] = b * f[i - 1]
    BY <2>3, <2>8
  <2>10. f \in PowersTo(b, x)
    BY <2>7, <2>8, <2>9 DEF PowersTo
  <2> QED BY <2>10
<1> QED BY <1>1

LEMMA PowIs ==
  ASSUME NEW b \in Nat \ {0}, NEW e \in Nat, NEW f \in PowersTo(b, e)
  PROVE  Pow(b, e) = f[e]
<1> DEFINE E(g) == g = [n \in 0 .. e |-> IF n = 0 THEN 1 ELSE b * g[n - 1]]
           power == CHOOSE g : E(g)
<1>1. Pow(b, e) = power[e]
  BY DEF Pow
<1>2. /\ f \in [0 .. e -> Nat \ {0}] /\ f[0] = 1
      /\ \A i \in 1 .. e : f[i] = b * f[i - 1]
  BY DEF PowersTo
<1>3. E(f)
  <2> DEFINE r == [n \in 0 .. e |-> IF n = 0 THEN 1 ELSE b * f[n - 1]]
  <2>1. \A n \in 0 .. e : f[n] = r[n]
    BY <1>2
  <2> QED BY <1>2, <2>1
<1>4. E(power)
  <2> HIDE DEF E
  <2> QED BY <1>3
<1> HIDE DEF power
<1>5. \A n \in 0 .. e : power[n] = IF n = 0 THEN 1 ELSE b * power[n - 1]
  BY <1>4
<1> DEFINE B == {n \in 0 .. e : power[n] # f[n]}
<1>6. B = {}
  <2> SUFFICES ASSUME B # {} PROVE FALSE
    OBVIOUS
  <2>1. PICK x \in B : \A y \in B : x <= y
    <3>1. B \in SUBSET Nat
      OBVIOUS
    <3> HIDE DEF B
    <3> QED BY <3>1, LeastElement
  <2>2. x \in 1 .. e /\ power[x - 1] = f[x - 1]
    BY <1>2, <1>5, <2>1
  <2> QED BY <1>2, <1>5, <2>1, <2>2
<1> QED BY <1>1, <1>6

LEMMA PowFacts ==
  ASSUME NEW b \in Nat \ {0}, NEW e \in Nat
  PROVE  /\ Pow(b, e) \in Nat \ {0} /\ Pow(b, e + 1) = b * Pow(b, e) /\ Pow(b, 0) = 1
<1>1. PICK f : f \in PowersTo(b, e + 1)
  <2>1. e + 1 \in Nat
    OBVIOUS
  <2> QED BY <2>1, PowersExist
<1>2. /\ f \in [0 .. e + 1 -> Nat \ {0}] /\ f[0] = 1
      /\ \A i \in 1 .. e + 1 : f[i] = b * f[i - 1]
  BY <1>1 DEF PowersTo
<1>3. Pow(b, e + 1) = f[e + 1]
  BY <1>1, PowIs
<1>4. Pow(b, e) = f[e] /\ Pow(b, 0) = f[0]
  <2>1. ASSUME NEW n \in 0 .. e PROVE Pow(b, n) = f[n]
    <3> DEFINE g == [i \in 0 .. n |-> f[i]]
    <3>1. g \in [0 .. n -> Nat \ {0}] /\ g[0] = 1 /\ \A i \in 1 .. n : g[i] = b * g[i - 1]
      BY <1>2
    <3>2. g[n] = f[n] /\ n \in Nat
      OBVIOUS
    <3> HIDE DEF g
    <3>3. g \in PowersTo(b, n)
      BY <3>1 DEF PowersTo
    <3> QED BY <3>2, <3>3, PowIs
  <2> QED BY <2>1
<1> QED BY <1>2, <1>3, <1>4

LEMMA SizeFacts ==
  ASSUME NEW n \in Nat
  PROVE  Size(n) \in Nat \ {0} /\ Size(n + 1) = 2 * Size(n)
BY PowFacts DEF Size

LEMMA Division ==
  ASSUME NEW d \in Nat \ {0}, NEW x \in Nat
  PROVE  x = d * (x \div d) + (x % d) /\ x % d \in 0 .. d - 1 /\ x \div d \in Nat
OBVIOUS

LEMMA Multiples ==
  ASSUME NEW d \in Nat \ {0}, NEW k \in Int
  PROVE  (k >= 1 => d * k >= d) /\ (k <= -1 => d * k <= -d)
<1>1. k >= 1 => d * k >= d
  OBVIOUS
<1>2. k <= -1 => d * k <= -d
  OBVIOUS
<1> QED BY <1>1, <1>2

LEMMA SameRest ==
  ASSUME NEW d \in Nat \ {0}, NEW y \in Int, NEW z \in Int,
         NEW r \in 0 .. d - 1, NEW s \in 0 .. d - 1, d * y + r = d * z + s
  PROVE  r = s
<1>1. d * (y - z) = s - r /\ y - z \in Int
  OBVIOUS
<1>2. CASE y - z >= 1
  BY <1>1, <1>2, Multiples
<1>3. CASE y - z <= -1
  BY <1>1, <1>3, Multiples
<1>4. CASE y = z
  BY <1>4
<1> QED BY <1>2, <1>3, <1>4

LEMMA WholeSums ==
  ASSUME NEW s \in Nat, NEW d \in Nat \ {0}, NEW a \in Nat, s % d = 0
  PROVE  (a + s) % d = a % d
<1> DEFINE p == s \div d
           q == a \div d
           w == (a + s) \div d
<1>1. s = d * p /\ p \in Nat
  BY Division
<1>2. a = d * q + (a % d) /\ q \in Nat /\ a % d \in 0 .. d - 1
  BY Division
<1>3. a + s = d * w + ((a + s) % d) /\ w \in Nat /\ (a + s) % d \in 0 .. d - 1
  <2>1. a + s \in Nat
    OBVIOUS
  <2> QED BY <2>1, Division
<1> HIDE DEF p, q, w
<1> DEFINE r == a % d
           r2 == (a + s) % d
           y == p + q
<1>4. r \in 0 .. d - 1 /\ r2 \in 0 .. d - 1
  BY <1>2, <1>3
<1>5. y \in Int /\ w \in Int /\ d * y = d * p + d * q
  BY <1>1, <1>2, <1>3
<1>6. a = d * q + r /\ a + s = d * w + r2
  BY <1>2, <1>3
<1> HIDE DEF r, r2, y
<1>7. d * p \in Int /\ d * q \in Int /\ d * w \in Int /\ d * y \in Int
  BY <1>1, <1>2, <1>5
<1>8. d * y + r = d * w + r2
  BY <1>1, <1>4, <1>5, <1>6, <1>7
<1>9. r = r2
  BY <1>4, <1>5, <1>8, SameRest
<1> QED BY <1>9 DEF r, r2

(* Every table has a whole number of buckets for each lock.                *)
LEMMA WholeLocks ==
  ASSUME NEW n \in Nat, n >= InitHp
  PROVE  Size(n) % LockNum = 0
<1> DEFINE B == {m \in Nat : m >= InitHp /\ Size(m) % LockNum # 0}
<1>1. ASSUME B # {} PROVE FALSE
  <2>1. PICK x \in B : \A y \in B : x <= y
    <3>1. B \in SUBSET Nat
      OBVIOUS
    <3> HIDE DEF B
    <3> QED BY <1>1, <3>1, LeastElement
  <2>2. x # InitHp /\ InitHp \in Nat
    BY <2>1, LocksAssumption, SlotsAssumption
  <2>3. x - 1 \in Nat /\ x - 1 >= InitHp /\ (x - 1) + 1 = x /\ ~ (x <= x - 1)
    BY <2>1, <2>2
  <2>4. Size(x - 1) % LockNum = 0
    BY <2>1, <2>3
  <2>5. Size(x - 1) \in Nat /\ Size(x) = 2 * Size(x - 1)
    BY <2>3, SizeFacts
  <2>6. Size(x) % LockNum = 0
    <3>1. Size(x) = Size(x - 1) + Size(x - 1)
      BY <2>5
    <3> QED BY <2>4, <2>5, <3>1, LocksAssumption, WholeSums
  <2> QED BY <2>1, <2>6
<1> QED BY <1>1

(* What the code's hash functions do at every hashpower.                   *)
HashesAlways == \A n \in Nat, k \in Keys : n >= InitHp => HashesWell(n, k)

LEMMA HashFacts ==
  ASSUME HashesAlways, NEW n \in Nat, n >= InitHp, NEW k \in Keys
  PROVE  /\ I1(n, k) \in 0 .. Size(n) - 1 /\ I2(n, k) \in 0 .. Size(n) - 1
         /\ AltOf(n, k, I1(n, k)) = I2(n, k) /\ AltOf(n, k, I2(n, k)) = I1(n, k)
         /\ I1(n + 1, k) \in {I1(n, k), I1(n, k) + Size(n)}
         /\ I2(n + 1, k) \in {I2(n, k), I2(n, k) + Size(n)}
BY DEF HashesAlways, HashesWell, Grows, I1, I2

LEMMA HomeFacts ==
  ASSUME HashesAlways, NEW n \in Nat, n >= InitHp, NEW k \in Keys, NEW b \in Homes(n, k)
  PROVE  b \in 0 .. Size(n) - 1 /\ AltOf(n, k, b) \in Homes(n, k)
BY HashFacts DEF Homes

LEMMA LockFacts ==
  ASSUME NEW n \in Nat, n >= InitHp, NEW b \in Nat
  PROVE  lock_ind(b) \in Locks /\ lock_ind(b + Size(n)) = lock_ind(b)
<1>1. LockNum \in Nat \ {0}
  BY LocksAssumption
<1>2. b % LockNum \in 0 .. LockNum - 1
  BY <1>1
<1>3. (b + Size(n)) % LockNum = b % LockNum
  <2>1. Size(n) \in Nat /\ Size(n) % LockNum = 0
    BY SizeFacts, WholeLocks
  <2> QED BY <1>1, <2>1, WholeSums
<1> QED BY <1>2, <1>3 DEF lock_ind, Locks

LEMMA LockedBuckets ==
  ASSUME NEW n \in Nat, n >= InitHp, NEW B \in SUBSET (0 .. Size(n) - 1), NEW b \in B
  PROVE  lock_ind(b) \in LocksOf(B)
<1>1. b \in Nat
  BY SizeFacts
<1> QED BY <1>1, LockFacts DEF LocksOf

------------------------------------------------------------------------------
(***************************************************************************)
(* Tables.                                                                 *)
(***************************************************************************)
Elem == Keys \X Vals

(* bk is a table of hashpower n: every key at most once, in one of its two *)
(* buckets.                                                                *)
Good(bk, n) ==
  /\ n \in Nat /\ n >= InitHp
  /\ bk \in [Positions(n) -> Elem \cup {NoElem}]
  /\ \A p \in Positions(n) : bk[p] # NoElem => p[1] \in Homes(n, bk[p][1])
  /\ \A p, q \in Positions(n) :
       bk[p] # NoElem /\ bk[q] # NoElem /\ bk[p][1] = bk[q][1] => p = q

LEMMA PositionFacts ==
  ASSUME NEW n \in Nat, NEW p \in Positions(n)
  PROVE  p = <<p[1], p[2]>> /\ p[1] \in 0 .. Size(n) - 1 /\ p[1] \in Nat /\ p[2] \in Slots
<1>1. Size(n) \in Nat \ {0}
  BY SizeFacts
<1> QED BY <1>1 DEF Positions

LEMMA ElemFacts ==
  ASSUME NEW bk, NEW n, Good(bk, n), NEW p \in Positions(n), bk[p] # NoElem
  PROVE  bk[p] \in Elem /\ bk[p][1] \in Keys /\ p[1] \in Homes(n, bk[p][1])
<1>1. bk[p] \in Elem
  BY DEF Good
<1>2. bk[p][1] \in Keys
  BY <1>1 DEF Elem
<1> QED BY <1>1, <1>2 DEF Good

LEMMA OldElemFacts ==
  ASSUME Good(old_buckets, old_hashpower), NEW L, NEW p \in OldElems(L)
  PROVE  /\ p \in Positions(old_hashpower) /\ old_buckets[p] # NoElem
         /\ old_buckets[p] \in Elem /\ old_buckets[p][1] \in Keys
         /\ p[1] \in Homes(old_hashpower, old_buckets[p][1])
         /\ lock_ind(p[1]) \in L /\ p \in OldElems(Locks)
<1>1. p \in DOMAIN old_buckets /\ lock_ind(p[1]) \in L /\ old_buckets[p] # NoElem
  BY DEF OldElems
<1>2. p \in Positions(old_hashpower) /\ old_hashpower \in Nat /\ old_hashpower >= InitHp
  BY <1>1 DEF Good
<1>3. lock_ind(p[1]) \in Locks
  BY <1>2, PositionFacts, LockFacts
<1> QED BY <1>1, <1>2, <1>3, ElemFacts DEF OldElems

(* The elements of p's bucket before it that go up with it.                *)
Before(p) == {q \in OldElems(Locks) : q[1] = p[1] /\ q[2] < p[2] /\ MovesUp(q)}

LEMMA SlotsAreNat == Slots \subseteq Nat /\ IsFiniteSet(Slots)
<1>1. SlotPerBucket \in Nat \ {0}
  BY SlotsAssumption
<1>2. IsFiniteSet(0 .. SlotPerBucket - 1)
  BY <1>1, FS_Interval
<1> QED BY <1>1, <1>2 DEF Slots

LEMMA BeforeFacts ==
  ASSUME Good(old_buckets, old_hashpower), NEW p \in OldElems(Locks)
  PROVE  IsFiniteSet(Before(p)) /\ Cardinality(Before(p)) \in Nat
         /\ Cardinality(Before(p)) <= p[2]
<1> DEFINE S == 0 .. p[2] - 1
           f == [q \in Before(p) |-> q[2]]
<1>1. p[2] \in Nat /\ \A q \in Before(p) : q = <<q[1], q[2]>> /\ q[2] \in S /\ q[1] = p[1]
  <2>1. old_hashpower \in Nat /\ p \in Positions(old_hashpower)
    BY OldElemFacts DEF Good
  <2>2. p[2] \in Nat
    BY <2>1, PositionFacts, SlotsAreNat
  <2>3. ASSUME NEW q \in Before(p)
        PROVE  q = <<q[1], q[2]>> /\ q[2] \in S /\ q[1] = p[1]
    <3>1. q \in OldElems(Locks) /\ q[1] = p[1] /\ q[2] < p[2]
      BY <2>3 DEF Before
    <3>2. q = <<q[1], q[2]>> /\ q[2] \in Nat
      BY <2>1, <3>1, OldElemFacts, PositionFacts, SlotsAreNat
    <3> QED BY <2>2, <3>1, <3>2
  <2> QED BY <2>2, <2>3
<1>2. IsFiniteSet(S) /\ Cardinality(S) = p[2]
  BY <1>1, FS_Interval
<1>3. f \in Injection(Before(p), S)
  <2>1. f \in [Before(p) -> S]
    BY <1>1
  <2>2. ASSUME NEW q \in Before(p), NEW r \in Before(p), f[q] = f[r] PROVE q = r
    BY <1>1, <2>2
  <2> HIDE DEF f
  <2> QED BY <2>1, <2>2 DEF Injection, IsInjective
<1> HIDE DEF S, f
<1>4. IsFiniteSet(Before(p)) /\ Cardinality(Before(p)) <= Cardinality(S)
  BY <1>2, <1>3, FS_Injection
<1> QED BY <1>2, <1>4, FS_CardinalityType

(* A key that does not move up has the same bucket in the larger table.    *)
LEMMA NewPositionHome ==
  ASSUME HashesAlways, Good(old_buckets, old_hashpower), NEW p \in OldElems(Locks)
  PROVE  NewPosition(p)[1] \in Homes(old_hashpower + 1, old_buckets[p][1])
<1> DEFINE o == old_hashpower
           k == old_buckets[p][1]
<1>1. o \in Nat /\ o >= InitHp /\ k \in Keys /\ p[1] \in Homes(o, k)
  BY OldElemFacts DEF Good
<1>2. I1(o + 1, k) \in {I1(o, k), I1(o, k) + Size(o)}
  BY <1>1, HashFacts
<1>3. I2(o + 1, k) \in {I2(o, k), I2(o, k) + Size(o)}
  BY <1>1, HashFacts
<1>4. MovesUp(p) <=> \/ p[1] = I1(o, k) /\ I1(o + 1, k) = p[1] + Size(o)
                     \/ p[1] = I2(o, k) /\ I2(o + 1, k) = p[1] + Size(o)
  BY DEF MovesUp
<1>5. NewPosition(p)[1] = IF MovesUp(p) THEN p[1] + Size(o) ELSE p[1]
  BY DEF NewPosition
<1>6. p[1] = I1(o, k) \/ p[1] = I2(o, k)
  BY <1>1 DEF Homes
<1> HIDE DEF o, k
<1>7. NewPosition(p)[1] \in {I1(o + 1, k), I2(o + 1, k)}
  BY <1>2, <1>3, <1>4, <1>5, <1>6
<1> QED BY <1>7 DEF Homes, o, k

LEMMA NewPositionFacts ==
  ASSUME HashesAlways, Good(old_buckets, old_hashpower), NEW p \in OldElems(Locks)
  PROVE  /\ NewPosition(p) \in Positions(old_hashpower + 1)
         /\ NewPosition(p)[1] \in Homes(old_hashpower + 1, old_buckets[p][1])
         /\ lock_ind(NewPosition(p)[1]) = lock_ind(p[1])
<1> DEFINE o == old_hashpower
           c == Cardinality(Before(p))
<1>1. o \in Nat /\ o >= InitHp /\ p \in Positions(o)
  BY OldElemFacts DEF Good
<1>2. /\ p = <<p[1], p[2]>> /\ p[1] \in 0 .. Size(o) - 1 /\ p[1] \in Nat /\ p[2] \in Slots
  BY <1>1, PositionFacts
<1>3. Size(o) \in Nat \ {0} /\ Size(o + 1) = 2 * Size(o)
  BY <1>1, SizeFacts
<1>4. c \in Nat /\ c <= p[2]
  BY BeforeFacts
<1>5. NewPosition(p) = IF MovesUp(p) THEN <<p[1] + Size(o), c>> ELSE p
  BY DEF NewPosition, Before
<1> HIDE DEF o, c
<1>6. c \in Slots
  BY <1>2, <1>4, SlotsAssumption DEF Slots
<1>7. p[1] \in 0 .. Size(o + 1) - 1 /\ p[1] + Size(o) \in 0 .. Size(o + 1) - 1
  BY <1>2, <1>3
<1>8. NewPosition(p) \in Positions(o + 1)
  BY <1>2, <1>5, <1>6, <1>7 DEF Positions
<1>9. lock_ind(p[1] + Size(o)) = lock_ind(p[1])
  BY <1>1, <1>2, LockFacts
<1>10. lock_ind(NewPosition(p)[1]) = lock_ind(p[1])
  BY <1>5, <1>9
<1> QED BY <1>8, <1>10, NewPositionHome DEF o

LEMMA EarlierBefore ==
  ASSUME Good(old_buckets, old_hashpower),
         NEW p \in OldElems(Locks), NEW q \in OldElems(Locks),
         MovesUp(p), p[1] = q[1], p[2] < q[2]
  PROVE  Cardinality(Before(p)) < Cardinality(Before(q))
<1>1. IsFiniteSet(Before(p)) /\ IsFiniteSet(Before(q))
  BY BeforeFacts
<1>2. Before(p) \subseteq Before(q) /\ p \in Before(q)
  <2>1. p[2] \in Nat /\ q[2] \in Nat /\ \A r \in OldElems(Locks) : r[2] \in Nat
    <3>1. old_hashpower \in Nat
      BY DEF Good
    <3> QED BY <3>1, OldElemFacts, PositionFacts, SlotsAreNat
  <2> QED BY <2>1 DEF Before
<1>3. p \notin Before(p)
  <2>1. p[2] \in Nat
    <3>1. old_hashpower \in Nat
      BY DEF Good
    <3> QED BY <3>1, OldElemFacts, PositionFacts, SlotsAreNat
  <2> QED BY <2>1 DEF Before
<1>4. Before(p) # Before(q)
  BY <1>2, <1>3
<1>5. Cardinality(Before(p)) <= Cardinality(Before(q))
  BY <1>1, <1>2, FS_Subset
<1>6. Cardinality(Before(p)) # Cardinality(Before(q))
  BY <1>1, <1>2, <1>4, FS_Subset
<1> QED BY <1>1, <1>5, <1>6, FS_CardinalityType

LEMMA NewPositionInjective ==
  ASSUME Good(old_buckets, old_hashpower),
         NEW p \in OldElems(Locks), NEW q \in OldElems(Locks),
         NewPosition(p) = NewPosition(q)
  PROVE  p = q
<1> DEFINE o == old_hashpower
<1>1. o \in Nat /\ p \in Positions(o) /\ q \in Positions(o)
  BY OldElemFacts DEF Good
<1>2. /\ p = <<p[1], p[2]>> /\ p[1] \in 0 .. Size(o) - 1 /\ p[2] \in Nat
      /\ q = <<q[1], q[2]>> /\ q[1] \in 0 .. Size(o) - 1 /\ q[2] \in Nat
  BY <1>1, PositionFacts, SlotsAreNat
<1>3. Size(o) \in Nat \ {0}
  BY <1>1, SizeFacts
<1>4. \A r \in {p, q} :
        NewPosition(r) = IF MovesUp(r) THEN <<r[1] + Size(o), Cardinality(Before(r))>> ELSE r
  BY DEF NewPosition, Before
<1>5. Cardinality(Before(p)) \in Nat /\ Cardinality(Before(q)) \in Nat
  BY BeforeFacts
<1> HIDE DEF o
<1>6. MovesUp(p) <=> MovesUp(q)
  <2>1. \A r \in {p, q} : NewPosition(r)[1] = IF MovesUp(r) THEN r[1] + Size(o) ELSE r[1]
    BY <1>4
  <2> QED BY <1>2, <1>3, <2>1
<1>7. CASE ~ MovesUp(p)
  BY <1>4, <1>6, <1>7
<1>8. CASE MovesUp(p)
  <2>1. p[1] + Size(o) = q[1] + Size(o) /\ Cardinality(Before(p)) = Cardinality(Before(q))
    BY <1>4, <1>6, <1>8
  <2>2. p[1] = q[1]
    BY <1>2, <1>3, <2>1
  <2>3. ~ (p[2] < q[2])
    BY <1>5, <1>8, <2>1, <2>2, EarlierBefore
  <2>4. ~ (q[2] < p[2])
    BY <1>5, <1>6, <1>8, <2>1, <2>2, EarlierBefore
  <2> QED BY <1>2, <2>2, <2>3, <2>4
<1> QED BY <1>7, <1>8

------------------------------------------------------------------------------
(***************************************************************************)
(* The steps on the arrays of buckets.                                     *)
(***************************************************************************)
Half == old_hashpower + 1 = hashpower /\ Good(old_buckets, old_hashpower)

(* bk can be buckets_ while the locks U are not migrated: before its lock  *)
(* is, nothing is put into a bucket, and no key is in both arrays.         *)
Fits(bk, U) ==
  /\ Good(bk, hashpower)
  /\ \A p \in Positions(hashpower) : lock_ind(p[1]) \in U => bk[p] = NoElem
  /\ \A p \in Positions(hashpower), q \in OldElems(U) :
       bk[p] # NoElem => bk[p][1] # old_buckets[q][1]

LEMMA MovedIs ==
  ASSUME HashesAlways, Half, Good(buckets, hashpower), NEW L
  PROVE  /\ Moved(L) \in [Positions(hashpower) -> Elem \cup {NoElem}]
         /\ \A q \in OldElems(L) : Moved(L)[NewPosition(q)] = old_buckets[q]
         /\ \A p \in Positions(hashpower) :
              (\A q \in OldElems(L) : NewPosition(q) # p) => Moved(L)[p] = buckets[p]
<1> DEFINE T(p) == \E q \in OldElems(L) : NewPosition(q) = p
           S(p) == CHOOSE q \in OldElems(L) : NewPosition(q) = p
<1>1. Good(old_buckets, old_hashpower) /\ old_hashpower + 1 = hashpower
  BY DEF Half
<1>2. DOMAIN buckets = Positions(hashpower) /\ buckets \in [Positions(hashpower) -> Elem \cup {NoElem}]
  BY DEF Good
<1>3. Moved(L) = [p \in Positions(hashpower) |-> IF T(p) THEN old_buckets[S(p)] ELSE buckets[p]]
  BY <1>2 DEF Moved
<1>4. ASSUME NEW q \in OldElems(L)
      PROVE  /\ NewPosition(q) \in Positions(hashpower) /\ T(NewPosition(q))
             /\ S(NewPosition(q)) = q
  <2>1. q \in OldElems(Locks)
    BY <1>1, OldElemFacts
  <2>2. NewPosition(q) \in Positions(hashpower)
    BY <1>1, <2>1, NewPositionFacts
  <2>3. T(NewPosition(q))
    OBVIOUS
  <2>4. S(NewPosition(q)) \in OldElems(L) /\ NewPosition(S(NewPosition(q))) = NewPosition(q)
    BY <2>3
  <2>5. S(NewPosition(q)) \in OldElems(Locks)
    BY <1>1, <2>4, OldElemFacts
  <2> HIDE DEF S, T
  <2>6. S(NewPosition(q)) = q
    BY <1>1, <2>1, <2>4, <2>5, NewPositionInjective
  <2> QED BY <2>2, <2>3, <2>6
<1>5. ASSUME NEW p \in Positions(hashpower), T(p)
      PROVE  S(p) \in OldElems(L) /\ old_buckets[S(p)] \in Elem
  <2>1. S(p) \in OldElems(L)
    BY <1>5
  <2> HIDE DEF S, T
  <2> QED BY <1>1, <2>1, OldElemFacts
<1>6. \A p \in Positions(hashpower) :
        (\A q \in OldElems(L) : NewPosition(q) # p) => ~ T(p)
  OBVIOUS
<1> HIDE DEF S, T
<1>7. Moved(L) \in [Positions(hashpower) -> Elem \cup {NoElem}]
  BY <1>2, <1>3, <1>5
<1>8. \A q \in OldElems(L) : Moved(L)[NewPosition(q)] = old_buckets[q]
  BY <1>3, <1>4
<1>9. \A p \in Positions(hashpower) :
        (\A q \in OldElems(L) : NewPosition(q) # p) => Moved(L)[p] = buckets[p]
  BY <1>3, <1>6
<1> QED BY <1>7, <1>8, <1>9

(* rehash_lock: the elements of the locks L go to free places.             *)
LEMMA MovedFits ==
  ASSUME HashesAlways, Half, NEW U, NEW L \in SUBSET U, Fits(buckets, U)
  PROVE  Fits(Moved(L), U \ L)
<1> DEFINE h == hashpower
           T(p) == \E q \in OldElems(L) : NewPosition(q) = p
           m == Moved(L)
<1>1. Good(old_buckets, old_hashpower) /\ old_hashpower + 1 = h
  BY DEF Half
<1>2. /\ Good(buckets, h)
      /\ \A p \in Positions(h) : lock_ind(p[1]) \in U => buckets[p] = NoElem
      /\ \A p \in Positions(h), q \in OldElems(U) :
           buckets[p] # NoElem => buckets[p][1] # old_buckets[q][1]
  BY DEF Fits
<1>3. /\ m \in [Positions(h) -> Elem \cup {NoElem}]
      /\ \A q \in OldElems(L) : m[NewPosition(q)] = old_buckets[q]
      /\ \A p \in Positions(h) : ~ T(p) => m[p] = buckets[p]
  BY <1>2, MovedIs
<1>4. ASSUME NEW q \in OldElems(L)
      PROVE  /\ q \in OldElems(U) /\ q \in Positions(old_hashpower) /\ old_buckets[q] # NoElem
             /\ NewPosition(q)[1] \in Homes(h, old_buckets[q][1])
             /\ lock_ind(NewPosition(q)[1]) \in L
  <2>1. q \in OldElems(Locks) /\ lock_ind(q[1]) \in L /\ old_buckets[q] # NoElem
        /\ q \in Positions(old_hashpower)
    BY <1>1, OldElemFacts
  <2>2. q \in OldElems(U)
    BY <2>1 DEF OldElems
  <2> QED BY <1>1, <2>1, <2>2, NewPositionFacts
<1>5. \A p, q \in Positions(old_hashpower) :
        old_buckets[p] # NoElem /\ old_buckets[q] # NoElem /\ old_buckets[p][1] = old_buckets[q][1]
          => p = q
  BY <1>1 DEF Good
<1>6. h \in Nat /\ h >= InitHp
  BY <1>2 DEF Good
<1> HIDE DEF m, h
<1>7. \A p \in Positions(h) : m[p] # NoElem => p[1] \in Homes(h, m[p][1])
  <2> SUFFICES ASSUME NEW p \in Positions(h), m[p] # NoElem PROVE p[1] \in Homes(h, m[p][1])
    OBVIOUS
  <2>1. CASE T(p)
    BY <1>3, <1>4, <2>1
  <2>2. CASE ~ T(p)
    BY <1>2, <1>3, <2>2 DEF Good
  <2> QED BY <2>1, <2>2
<1>8. \A p, q \in Positions(h) :
        m[p] # NoElem /\ m[q] # NoElem /\ m[p][1] = m[q][1] => p = q
  <2> SUFFICES ASSUME NEW p \in Positions(h), NEW q \in Positions(h),
                      m[p] # NoElem, m[q] # NoElem, m[p][1] = m[q][1]
               PROVE  p = q
    OBVIOUS
  <2>1. CASE T(p) /\ T(q)
    BY <1>3, <1>4, <1>5, <2>1
  <2>2. CASE ~ T(p) /\ T(q)
    BY <1>2, <1>3, <1>4, <2>2
  <2>3. CASE T(p) /\ ~ T(q)
    BY <1>2, <1>3, <1>4, <2>3
  <2>4. CASE ~ T(p) /\ ~ T(q)
    BY <1>2, <1>3, <2>4 DEF Good
  <2> HIDE DEF T
  <2> QED BY <2>1, <2>2, <2>3, <2>4
<1>9. Good(m, h)
  BY <1>3, <1>6, <1>7, <1>8 DEF Good
<1>10. \A p \in Positions(h) : lock_ind(p[1]) \in U \ L => m[p] = NoElem
  BY <1>2, <1>3, <1>4
<1>11. ASSUME NEW p \in Positions(h), NEW q \in OldElems(U \ L), m[p] # NoElem
       PROVE  m[p][1] # old_buckets[q][1]
  <2>1. /\ q \in OldElems(U) /\ q \in Positions(old_hashpower) /\ old_buckets[q] # NoElem
        /\ q \notin OldElems(L)
    BY <1>1 DEF OldElems, Good
  <2>2. CASE T(p)
    BY <1>3, <1>4, <1>5, <2>1, <2>2
  <2>3. CASE ~ T(p)
    BY <1>2, <1>3, <1>11, <2>1, <2>3
  <2> HIDE DEF T
  <2> QED BY <2>2, <2>3
<1> QED BY <1>9, <1>10, <1>11 DEF Fits, m, h

LEMMA NothingMoved ==
  ASSUME Good(buckets, hashpower)
  PROVE  Moved({}) = buckets /\ OldElems({}) = {}
<1>1. OldElems({}) = {}
  BY DEF OldElems
<1>2. buckets = [p \in DOMAIN buckets |-> buckets[p]]
  BY DEF Good
<1>3. Moved({}) = [p \in DOMAIN buckets |-> buckets[p]]
  BY <1>1 DEF Moved
<1> QED BY <1>1, <1>2, <1>3

LEMMA ClearFits ==
  ASSUME NEW bk, NEW U, Fits(bk, U), NEW p
  PROVE  Fits([bk EXCEPT ![p] = NoElem], U)
<1> DEFINE h == hashpower
           c == [bk EXCEPT ![p] = NoElem]
<1>1. bk \in [Positions(h) -> Elem \cup {NoElem}]
  BY DEF Fits, Good
<1>2. /\ c \in [Positions(h) -> Elem \cup {NoElem}]
      /\ \A q \in Positions(h) : c[q] # NoElem => c[q] = bk[q]
      /\ \A q \in Positions(h) : bk[q] = NoElem => c[q] = NoElem
  BY <1>1
<1> HIDE DEF c
<1>3. Good(c, h)
  BY <1>2 DEF Fits, Good
<1>4. Fits(c, U)
  BY <1>2, <1>3 DEF Fits
<1> QED BY <1>4 DEF c

LEMMA PutFits ==
  ASSUME NEW bk, NEW U, Fits(bk, U), NEW p \in Positions(hashpower), NEW e \in Elem,
         p[1] \in Homes(hashpower, e[1]), lock_ind(p[1]) \notin U,
         \A q \in Positions(hashpower) : bk[q] # NoElem => bk[q][1] # e[1],
         \A q \in OldElems(U) : old_buckets[q][1] # e[1]
  PROVE  Fits([bk EXCEPT ![p] = e], U)
<1> DEFINE h == hashpower
           c == [bk EXCEPT ![p] = e]
<1>1. bk \in [Positions(h) -> Elem \cup {NoElem}]
  BY DEF Fits, Good
<1>2. /\ c \in [Positions(h) -> Elem \cup {NoElem}]
      /\ \A q \in Positions(h) : c[q] = IF q = p THEN e ELSE bk[q]
  BY <1>1
<1> HIDE DEF c
<1>3. Good(c, h)
  BY <1>2 DEF Fits, Good
<1>4. Fits(c, U)
  BY <1>2, <1>3 DEF Fits
<1> QED BY <1>4 DEF c

(* cuckoopath_move: an element goes to a free slot of its other bucket.    *)
LEMMA ShiftFits ==
  ASSUME NEW bk, NEW U, Fits(bk, U),
         NEW p \in Positions(hashpower), NEW q \in Positions(hashpower),
         bk[p] = NoElem, bk[q] # NoElem,
         p[1] \in Homes(hashpower, bk[q][1]), lock_ind(p[1]) \notin U
  PROVE  Fits([bk EXCEPT ![p] = bk[q], ![q] = NoElem], U)
<1> DEFINE h == hashpower
           c == [bk EXCEPT ![q] = NoElem]
           e == bk[q]
           s == [bk EXCEPT ![p] = bk[q], ![q] = NoElem]
<1>1. bk \in [Positions(h) -> Elem \cup {NoElem}] /\ Good(bk, h)
  BY DEF Fits, Good
<1>2. Fits(c, U)
  BY ClearFits
<1>3. \A r \in Positions(h) : c[r] = IF r = q THEN NoElem ELSE bk[r]
  BY <1>1
<1>4. e \in Elem
  BY <1>1
<1>5. \A r \in Positions(h) : c[r] # NoElem => c[r][1] # e[1]
  BY <1>1, <1>3 DEF Good
<1>6. \A r \in OldElems(U) : old_buckets[r][1] # e[1]
  BY DEF Fits
<1>7. c \in [Positions(h) -> Elem \cup {NoElem}]
  BY <1>2 DEF Fits, Good
<1>8. s = [c EXCEPT ![p] = e]
  <2>1. \A r \in Positions(h) : s[r] = [c EXCEPT ![p] = e][r]
    BY <1>1, <1>3, <1>7
  <2>2. DOMAIN s = Positions(h) /\ DOMAIN [c EXCEPT ![p] = e] = Positions(h)
    BY <1>1, <1>7
  <2>3. s = [r \in Positions(h) |-> s[r]]
        /\ [c EXCEPT ![p] = e] = [r \in Positions(h) |-> [c EXCEPT ![p] = e][r]]
    BY <1>1, <1>7
  <2> HIDE DEF s, c, e
  <2> QED BY <2>1, <2>3
<1> HIDE DEF c, e, s
<1>9. Fits([c EXCEPT ![p] = e], U)
  <2>1. p[1] \in Homes(h, e[1])
    BY DEF e
  <2> QED BY <1>2, <1>4, <1>5, <1>6, <2>1, PutFits
<1> QED BY <1>8, <1>9 DEF s

------------------------------------------------------------------------------
(***************************************************************************)
(* The inductive invariant of the table, with that of each thread: what    *)
(* the search and the path have found, and the locks wanted for it.        *)
(***************************************************************************)
Movers == {t \in Threads : moved[t]}

Between ==
  buckets = << >> /\ Unmigrated = {} /\ remaining = 0 /\ Good(old_buckets, old_hashpower)

Growing ==
  Fits(buckets, Unmigrated) /\ (remaining > 0 => Half)

TableInv ==
  /\ is_migrated \in [Locks -> BOOLEAN]
  /\ IsFiniteSet(Movers) /\ remaining = Cardinality(Unmigrated) + Cardinality(Movers)
  /\ Swapping => Between
  /\ ~ Swapping => Growing

QItems(n) == [b : 0 .. Size(n) - 1, code : Nat, depth : Nat]
PItems(n) == [b : 0 .. Size(n) - 1, s : Slots, k : Keys \cup {Absent}]

Wanted(t) == Held(t) \cup want[t]

Searching(t) ==
  /\ queue[t] \in Seq(QItems(hp[t])) /\ queue[t] # << >> /\ path[t] = << >>
  /\ Wanted(t) = LocksOf({Head(queue[t]).b})

(* Each key of a path but the last has its bucket and the next one.        *)
Linked(t, q) ==
  /\ q \in Seq(PItems(hp[t]))
  /\ Len(q) > 0 => q[1].b \in Homes(hp[t], Key(t))
  /\ \A i \in 1 .. Len(q) - 1 :
       /\ q[i].k \in Keys /\ q[i].b \in Homes(hp[t], q[i].k)
       /\ q[i + 1].b = AltOf(hp[t], q[i].k, q[i].b)

NextOnPath(t) ==
  LET q == path[t]
      n == Len(q) + 1
  IN  IF n = 1 THEN plan[t].first ELSE AltOf(hp[t], q[n - 1].k, q[n - 1].b)

Following(t) ==
  LET q == path[t]
      n == Len(q)
  IN  /\ Linked(t, q)
      /\ n > 0 => q[n].k \in Keys /\ q[n].b \in Homes(hp[t], q[n].k)
      /\ plan[t].first \in Homes(hp[t], Key(t))
      /\ plan[t].slots \in Seq(Slots) /\ n < Len(plan[t].slots)
      /\ Wanted(t) = LocksOf({NextOnPath(t)})

Moving(t) ==
  /\ Linked(t, path[t]) /\ path[t] # << >>
  /\ Wanted(t) = MoveLocks(t, path[t])

ThreadInv(t) ==
  /\ moved[t] => /\ Held(t) # {} /\ pc[t] \notin {"idle", "snapshot", "double", "fresh"}
  /\ pc[t] # "idle" => request[t] \in Requests
  /\ pc[t] \in Ops =>
       request[t].op = pc[t] /\ Wanted(t) = LocksOf(Homes(hp[t], Key(t)))
  /\ pc[t] \in {"search", "path", "move", "double", "fresh"} =>
       request[t].op = "insert" /\ hp[t] \in Nat /\ hp[t] >= InitHp
  /\ pc[t] = "search" => Searching(t)
  /\ pc[t] = "path" => Following(t)
  /\ pc[t] = "move" => Moving(t)
  /\ pc[t] = "fresh" => hp[t] = old_hashpower

Locals ==
  /\ moved = [t \in Threads |-> moved[t]]
  /\ queue = [t \in Threads |-> queue[t]]
  /\ plan = [t \in Threads |-> plan[t]]
  /\ path = [t \in Threads |-> path[t]]

CInv == LInv /\ Locals /\ TableInv /\ \A t \in Threads : ThreadInv(t)

LEMMA LocksFinite == IsFiniteSet(Locks) /\ Cardinality(Locks) = LockNum
<1>1. LockNum \in Nat \ {0}
  BY LocksAssumption
<1> QED BY <1>1, FS_Interval DEF Locks

LEMMA UnmigratedFacts ==
  ASSUME TableInv
  PROVE  /\ IsFiniteSet(Unmigrated) /\ Cardinality(Unmigrated) \in Nat
         /\ IsFiniteSet(Movers) /\ Cardinality(Movers) \in Nat
         /\ Unmigrated # {} => remaining > 0
         /\ Movers # {} => remaining > 0
         /\ remaining \in Nat
<1>1. IsFiniteSet(Unmigrated)
  <2>1. Unmigrated \subseteq Locks
    BY DEF Unmigrated
  <2> QED BY <2>1, LocksFinite, FS_Subset
<1>2. IsFiniteSet(Movers) /\ remaining = Cardinality(Unmigrated) + Cardinality(Movers)
  BY DEF TableInv
<1>3. Cardinality(Unmigrated) \in Nat /\ Cardinality(Movers) \in Nat
  BY <1>1, <1>2, FS_CardinalityType
<1>4. /\ Unmigrated # {} => Cardinality(Unmigrated) # 0
      /\ Movers # {} => Cardinality(Movers) # 0
  BY <1>1, <1>2, FS_EmptySet
<1> QED BY <1>1, <1>2, <1>3, <1>4

(* A thread with a lock sees no table being swapped by another.            *)
LEMMA NotSwapping ==
  ASSUME LInv, NEW t \in Threads, Held(t) # {}, pc[t] # "fresh"
  PROVE  ~ Swapping
<1> SUFFICES ASSUME NEW u \in Threads, pc[u] = "fresh" PROVE FALSE
  BY DEF Swapping
<1>1. Held(u) = Locks /\ Held(t) \subseteq Locks
  BY DEF LInv, Steady, Doubling, Held
<1> QED BY <1>1 DEF Held

LEMMA OldMeansHalf ==
  ASSUME TableInv, ~ Swapping, Unmigrated # {}
  PROVE  Half
BY UnmigratedFacts DEF TableInv, Growing

LEMMA KeyNotOld ==
  ASSUME HashesAlways, TableInv, ~ Swapping, NEW k \in Keys,
         LocksOf(Homes(hashpower, k)) \cap Unmigrated = {}
  PROVE  \A q \in OldElems(Unmigrated) : old_buckets[q][1] # k
<1> SUFFICES ASSUME NEW q \in OldElems(Unmigrated), old_buckets[q][1] = k PROVE FALSE
  OBVIOUS
<1>1. Unmigrated # {}
  BY DEF OldElems
<1>2. Half
  BY <1>1, OldMeansHalf
<1>3. q \in OldElems(Locks) /\ lock_ind(q[1]) \in Unmigrated
  BY <1>2, OldElemFacts DEF Half
<1>4. NewPosition(q)[1] \in Homes(hashpower, k) /\ lock_ind(NewPosition(q)[1]) = lock_ind(q[1])
  BY <1>2, <1>3, NewPositionFacts DEF Half
<1>5. hashpower \in Nat /\ hashpower >= InitHp
  BY DEF TableInv, Growing, Fits, Good
<1>6. Homes(hashpower, k) \in SUBSET (0 .. Size(hashpower) - 1)
  BY <1>5, HomeFacts
<1>7. lock_ind(q[1]) \in LocksOf(Homes(hashpower, k))
  BY <1>4, <1>5, <1>6, LockedBuckets
<1> QED BY <1>3, <1>7

------------------------------------------------------------------------------
(***************************************************************************)
(* What a step of t leaves of the others' state.                           *)
(***************************************************************************)
Kept(f, g, t) == (\A u \in Threads \ {t} : g[u] = f[u]) /\ g = [u \in Threads |-> g[u]]

Apart(t) ==
  /\ Kept(pc, pc', t) /\ Kept(request, request', t) /\ Kept(hp, hp', t)
  /\ Kept(want, want', t) /\ Kept(moved, moved', t)
  /\ Kept(queue, queue', t) /\ Kept(plan, plan', t) /\ Kept(path, path', t)
  /\ \A u \in Threads \ {t} : Held(u)' = Held(u)

LEMMA KeptSame ==
  ASSUME NEW f, f = [u \in Threads |-> f[u]], NEW t
  PROVE  Kept(f, f, t)
BY DEF Kept

LEMMA KeptExcept ==
  ASSUME NEW f, f = [u \in Threads |-> f[u]], NEW t, NEW x
  PROVE  Kept(f, [f EXCEPT ![t] = x], t)
BY DEF Kept

LEMMA KeptEither ==
  ASSUME NEW f, NEW g, NEW t, f = [u \in Threads |-> f[u]],
         g = f \/ \E x : g = [f EXCEPT ![t] = x]
  PROVE  Kept(f, g, t)
BY DEF Kept

Functions8 ==
  /\ pc = [t \in Threads |-> pc[t]] /\ request = [t \in Threads |-> request[t]]
  /\ hp = [t \in Threads |-> hp[t]] /\ want = [t \in Threads |-> want[t]]
  /\ Locals

(* The same of holder.                                                     *)
LEMMA HeldApart ==
  ASSUME Shape, NEW t \in Threads,
         \/ UNCHANGED holder
         \/ Unlock(t)
         \/ NextLockFree(t) /\ holder' = [holder EXCEPT ![NextLock(t)] = t]
  PROVE  \A u \in Threads \ {t} : Held(u)' = Held(u)
<1>1. CASE UNCHANGED holder
  BY <1>1 DEF Held
<1>2. CASE Unlock(t)
  BY <1>2, AfterUnlock
<1>3. CASE NextLockFree(t) /\ holder' = [holder EXCEPT ![NextLock(t)] = t]
  BY <1>3, ThreadsAssumption DEF Shape, NextLockFree, Held
<1> QED BY <1>1, <1>2, <1>3

LEMMA UnlocksApart ==
  ASSUME LInv, Locals, NEW t \in Threads,
         UNCHANGED <<request, moved>>,
         UNCHANGED hp,
         UNCHANGED holder \/ Unlock(t),
         NEW l, NEW w, GoOn(t, l, w),
         UNCHANGED queue \/ \E x : queue' = [queue EXCEPT ![t] = x],
         UNCHANGED plan \/ \E x : plan' = [plan EXCEPT ![t] = x],
         UNCHANGED path \/ \E x : path' = [path EXCEPT ![t] = x]
  PROVE  Apart(t)
<1>1. Functions8 /\ Shape
  BY DEF LInv, Shape, Functions8
<1>2. Kept(request, request', t) /\ Kept(moved, moved', t) /\ Kept(hp, hp', t)
  BY <1>1, KeptSame DEF Functions8, Locals
<1>3. Kept(pc, pc', t) /\ Kept(want, want', t)
  BY <1>1, KeptExcept DEF Functions8, GoOn
<1>4. Kept(queue, queue', t)
  BY <1>1, KeptEither DEF Functions8, Locals
<1>5. Kept(plan, plan', t)
  BY <1>1, KeptEither DEF Functions8, Locals
<1>6. Kept(path, path', t)
  BY <1>1, KeptEither DEF Functions8, Locals
<1>7. \A u \in Threads \ {t} : Held(u)' = Held(u)
  BY <1>1, HeldApart
<1> QED BY <1>2, <1>3, <1>4, <1>5, <1>6, <1>7 DEF Apart

LEMMA ReturnsApart ==
  ASSUME LInv, Locals, NEW t \in Threads, NEW a, Returns(t, a)
  PROVE  Apart(t) /\ UNCHANGED <<request, hp, moved>> /\ GoOn(t, "idle", {}) /\ Unlock(t)
<1>1. /\ GoOn(t, "idle", {}) /\ Unlock(t) /\ UNCHANGED <<request, hp, moved>>
      /\ \E x : queue' = [queue EXCEPT ![t] = x]
      /\ \E x : plan' = [plan EXCEPT ![t] = x]
      /\ \E x : path' = [path EXCEPT ![t] = x]
  BY DEF Returns, Forget
<1> QED BY <1>1, UnlocksApart

LEMMA RunCuckooApart ==
  ASSUME LInv, Locals, NEW t \in Threads, RunCuckoo(t), UNCHANGED <<request, moved, hp>>
  PROVE  Apart(t)
<1>1. /\ GoOn(t, "search", LocksOf({I1(hp[t], Key(t))})) /\ Unlock(t)
      /\ \E x : queue' = [queue EXCEPT ![t] = x]
      /\ \E x : plan' = [plan EXCEPT ![t] = x]
      /\ \E x : path' = [path EXCEPT ![t] = x]
  BY DEF RunCuckoo
<1> QED BY <1>1, UnlocksApart

LEMMA StepApart ==
  ASSUME LInv, Locals, NEW t \in Threads, Step(t)
  PROVE  Apart(t)
<1>1. Functions8 /\ Shape
  BY DEF LInv, Shape, Functions8
<1>2. CASE Snapshot(t)
  <2>1. /\ UNCHANGED <<request, moved, queue, plan, path, holder>>
        /\ \E x : pc' = [pc EXCEPT ![t] = x]
        /\ \E x : want' = [want EXCEPT ![t] = x]
        /\ \E x : hp' = [hp EXCEPT ![t] = x]
    BY <1>2 DEF Snapshot, GoOn, searchVars
  <2> QED BY <1>1, <2>1, HeldApart, KeptSame, KeptEither DEF Apart, Functions8, Locals
<1>3. CASE Lock(t)
  <2>1. /\ UNCHANGED <<request, moved, queue, plan, path, pc, hp>>
        /\ \E x : want' = [want EXCEPT ![t] = x]
        /\ NextLockFree(t) /\ holder' = [holder EXCEPT ![NextLock(t)] = t]
    BY <1>3 DEF Lock, searchVars
  <2>2. \A u \in Threads \ {t} : Held(u)' = Held(u)
    BY <1>1, <2>1, HeldApart
  <2> QED BY <1>1, <2>1, <2>2, KeptSame, KeptEither DEF Apart, Functions8, Locals
<1>4. CASE HashpowerChanged(t)
  <2>1. /\ GoOn(t, "snapshot", {}) /\ UNCHANGED <<holder, request, hp, moved>>
        /\ \E x : queue' = [queue EXCEPT ![t] = x]
        /\ \E x : plan' = [plan EXCEPT ![t] = x]
        /\ \E x : path' = [path EXCEPT ![t] = x]
    BY <1>4 DEF HashpowerChanged, Forget
  <2> QED BY <2>1, UnlocksApart
<1>5. CASE RehashLock(t) \/ decrement_num_remaining_lazy_rehash_locks(t)
  <2>1. /\ UNCHANGED <<request, pc, hp, want, queue, plan, path, holder>>
        /\ \E x : moved' = [moved EXCEPT ![t] = x]
    BY <1>5 DEF RehashLock, decrement_num_remaining_lazy_rehash_locks, searchVars
  <2> QED BY <1>1, <2>1, HeldApart, KeptSame, KeptEither DEF Apart, Functions8, Locals
<1>6. CASE find_fn(t)
  BY <1>6, ReturnsApart DEF find_fn
<1>7. CASE erase_fn(t)
  BY <1>7, ReturnsApart DEF erase_fn
<1>8. CASE InsertHere(t)
  BY <1>8, ReturnsApart DEF InsertHere
<1>9. CASE InsertMakesRoom(t)
  BY <1>9, RunCuckooApart DEF InsertMakesRoom
<1>10. CASE SlotSearch(t)
  <2>1. /\ \E l, w : GoOn(t, l, w)
        /\ Unlock(t) /\ UNCHANGED <<path, request, hp, moved>>
        /\ \E x : queue' = [queue EXCEPT ![t] = x]
        /\ UNCHANGED plan \/ \E x : plan' = [plan EXCEPT ![t] = x]
    BY <1>10 DEF SlotSearch
  <2> QED BY <2>1, UnlocksApart
<1>11. CASE CuckooPath(t)
  <2>1. /\ \E l, w : GoOn(t, l, w)
        /\ Unlock(t) /\ UNCHANGED <<plan, queue, request, hp, moved>>
        /\ \E x : path' = [path EXCEPT ![t] = x]
    BY <1>11 DEF CuckooPath
  <2> QED BY <2>1, UnlocksApart
<1>12. CASE MoveFails(t)
  BY <1>12, RunCuckooApart DEF MoveFails
<1>13. CASE MoveStep(t)
  <2>1. /\ \E l, w : GoOn(t, l, w)
        /\ Unlock(t) /\ UNCHANGED <<plan, queue, request, hp, moved>>
        /\ \E x : path' = [path EXCEPT ![t] = x]
    BY <1>13 DEF MoveStep
  <2> QED BY <2>1, UnlocksApart
<1>14. CASE InsertAfterMove(t)
  BY <1>14, ReturnsApart DEF InsertAfterMove
<1>15. CASE DoubleThrows(t)
  BY <1>15, ReturnsApart DEF DoubleThrows
<1>16. CASE DoubledByOther(t) \/ FreshBuckets(t)
  <2>1. /\ GoOn(t, "snapshot", {}) /\ Unlock(t) /\ UNCHANGED <<request, hp, moved>>
        /\ \E x : queue' = [queue EXCEPT ![t] = x]
        /\ \E x : plan' = [plan EXCEPT ![t] = x]
        /\ \E x : path' = [path EXCEPT ![t] = x]
    BY <1>16 DEF DoubledByOther, FreshBuckets, Forget
  <2> QED BY <2>1, UnlocksApart
<1>17. CASE SwapBuckets(t)
  <2>1. /\ GoOn(t, "fresh", {}) /\ UNCHANGED <<holder, request, hp, moved, queue, plan, path>>
    BY <1>17 DEF SwapBuckets, searchVars
  <2> QED BY <2>1, UnlocksApart
<1> QED BY <1>2, <1>3, <1>4, <1>5, <1>6, <1>7, <1>8, <1>9, <1>10, <1>11, <1>12, <1>13,
           <1>14, <1>15, <1>16, <1>17 DEF Step

LEMMA CallApart ==
  ASSUME LInv, Locals, NEW t \in Threads, NEW r, Call(t, r)
  PROVE  Apart(t)
<1>1. Functions8 /\ Shape
  BY DEF LInv, Shape, Functions8
<1>2. /\ UNCHANGED <<hp, moved, queue, plan, path, holder>>
      /\ \E x : pc' = [pc EXCEPT ![t] = x]
      /\ \E x : want' = [want EXCEPT ![t] = x]
      /\ \E x : request' = [request EXCEPT ![t] = x]
  BY DEF Call, GoOn, searchVars
<1> QED BY <1>1, <1>2, HeldApart, KeptSame, KeptEither DEF Apart, Functions8, Locals

(* The invariant of a thread is about its own state only.                  *)
LEMMA OtherThreads ==
  ASSUME LInv, NEW t \in Threads, Apart(t), NEW u \in Threads \ {t}, ThreadInv(u),
         pc[u] = "fresh" => UNCHANGED old_hashpower
  PROVE  ThreadInv(u)'
<1>1. /\ pc'[u] = pc[u] /\ request'[u] = request[u] /\ hp'[u] = hp[u] /\ want'[u] = want[u]
      /\ moved'[u] = moved[u] /\ queue'[u] = queue[u] /\ plan'[u] = plan[u]
      /\ path'[u] = path[u] /\ Held(u)' = Held(u)
  BY DEF Apart, Kept
<1>2. Wanted(u)' = Wanted(u) /\ Key(u)' = Key(u)
  BY <1>1 DEF Wanted, Key
<1>3. Searching(u)' = Searching(u)
  BY <1>1, <1>2 DEF Searching
<1>4. Following(u)' = Following(u)
  BY <1>1, <1>2 DEF Following, Linked, NextOnPath
<1>5. Moving(u)' = Moving(u)
  BY <1>1, <1>2 DEF Moving, Linked, MoveLocks
<1> QED BY <1>1, <1>2, <1>3, <1>4, <1>5 DEF ThreadInv

LEMMA ApartLocals ==
  ASSUME NEW t \in Threads, Apart(t)
  PROVE  Locals'
BY DEF Apart, Kept, Locals

------------------------------------------------------------------------------
(***************************************************************************)
(* What the steps do to the table.                                         *)
(***************************************************************************)
LEMMA TableKept ==
  ASSUME TableInv, UNCHANGED <<tableVars, moved>>, Swapping' <=> Swapping
  PROVE  TableInv'
<1>1. /\ Unmigrated' = Unmigrated /\ Movers' = Movers /\ Half' = Half
      /\ \A L : OldElems(L)' = OldElems(L)
  BY DEF Unmigrated, Movers, Half, OldElems, tableVars
<1> QED BY <1>1 DEF TableInv, Between, Growing, Fits, tableVars

LEMMA SameSwapping ==
  ASSUME NEW t \in Threads, Apart(t), pc[t] # "fresh", pc'[t] # "fresh"
  PROVE  Swapping' <=> Swapping
BY DEF Apart, Kept, Swapping

LEMMA TablePut ==
  ASSUME TableInv, ~ Swapping, ~ Swapping',
         UNCHANGED <<hashpower, old_hashpower, old_buckets, is_migrated, remaining, moved>>,
         Fits(buckets', Unmigrated)
  PROVE  TableInv'
<1>1. /\ Unmigrated' = Unmigrated /\ Movers' = Movers /\ Half' = Half
      /\ \A L : OldElems(L)' = OldElems(L)
  BY DEF Unmigrated, Movers, Half, OldElems
<1>2. Fits(buckets, Unmigrated)'
  BY <1>1 DEF Fits
<1> QED BY <1>1, <1>2 DEF TableInv, Growing

LEMMA ReadyFacts ==
  ASSUME CInv, NEW t \in Threads, Ready(t), pc[t] \notin {"double", "fresh"}
  PROVE  /\ ~ Swapping /\ Fits(buckets, Unmigrated) /\ hp[t] = hashpower
         /\ hashpower \in Nat /\ hashpower >= InitHp
         /\ Wanted(t) = Held(t) /\ Held(t) \cap Unmigrated = {}
         /\ pc[t] # "idle" /\ request[t] \in Requests
<1>1. Held(t) # {} /\ want[t] = {} /\ Held(t) \cap Unmigrated = {} /\ ~ moved[t]
  BY DEF Ready, HasLocks
<1>2. ~ Swapping
  BY <1>1, NotSwapping DEF CInv
<1>3. Fits(buckets, Unmigrated)
  BY <1>2 DEF CInv, TableInv, Growing
<1>4. hp[t] = hashpower /\ pc[t] # "idle"
  BY <1>1 DEF CInv, LInv, Steady, Checked, Unlocked
<1>5. request[t] \in Requests
  BY <1>4 DEF CInv, ThreadInv
<1> QED BY <1>1, <1>2, <1>3, <1>4, <1>5 DEF Fits, Good, Wanted

LEMMA RequestFacts ==
  ASSUME NEW r \in Requests
  PROVE  r.k \in Keys /\ r.op \in Ops /\ (r.op = "insert" => r.v \in Vals)
BY DEF Requests, Ops

(* The key is put where t holds the locks of both its buckets.             *)
LEMMA PutKey ==
  ASSUME HashesAlways, CInv, NEW t \in Threads, Ready(t), pc[t] \notin {"double", "fresh"},
         request[t].op = "insert",
         NEW bk, Fits(bk, Unmigrated), Places(t, bk) = {},
         NEW p \in Mine(t), LocksOf(Homes(hp[t], Key(t))) \subseteq Held(t)
  PROVE  Fits([bk EXCEPT ![p] = <<Key(t), request[t].v>>], Unmigrated)
<1> DEFINE k == Key(t)
           e == <<Key(t), request[t].v>>
           h == hashpower
<1>1. /\ ~ Swapping /\ hp[t] = h /\ h \in Nat /\ h >= InitHp
      /\ Held(t) \cap Unmigrated = {} /\ request[t] \in Requests
  BY ReadyFacts
<1>2. k \in Keys /\ e \in Elem /\ e[1] = k
  BY <1>1, RequestFacts DEF Key, Elem
<1>3. Homes(h, k) \in SUBSET (0 .. Size(h) - 1)
  BY <1>1, <1>2, HomeFacts
<1>4. p \in Positions(h) /\ p[1] \in Homes(h, k)
  BY <1>1, <1>3 DEF Mine, Positions
<1>5. lock_ind(p[1]) \in LocksOf(Homes(h, k))
  BY <1>1, <1>3, <1>4, LockedBuckets
<1>6. lock_ind(p[1]) \notin Unmigrated
  BY <1>1, <1>5
<1>7. \A q \in OldElems(Unmigrated) : old_buckets[q][1] # k
  <2>1. LocksOf(Homes(h, k)) \cap Unmigrated = {}
    BY <1>1
  <2> QED BY <1>1, <1>2, <2>1, KeyNotOld DEF CInv
<1>8. \A q \in Positions(h) : bk[q] # NoElem => bk[q][1] # k
  <2> SUFFICES ASSUME NEW q \in Positions(h), bk[q] # NoElem, bk[q][1] = k PROVE FALSE
    OBVIOUS
  <2>1. q[1] \in Homes(h, k)
    BY DEF Fits, Good
  <2>2. q = <<q[1], q[2]>> /\ q[2] \in Slots
    BY <1>1, PositionFacts
  <2>3. q \in Mine(t)
    BY <1>1, <2>1, <2>2 DEF Mine
  <2> QED BY <2>3 DEF Places
<1> HIDE DEF k, e, h
<1>9. Fits([bk EXCEPT ![p] = e], Unmigrated)
  BY <1>2, <1>4, <1>6, <1>7, <1>8, PutFits DEF h
<1> QED BY <1>9 DEF e

LEMMA LastFreeFacts ==
  ASSUME NEW b, FreeSlots(b) # {}
  PROVE  LastFree(b) \in FreeSlots(b)
<1> DEFINE R == {SlotPerBucket - s : s \in FreeSlots(b)}
<1>1. SlotPerBucket \in Nat /\ FreeSlots(b) \in SUBSET (0 .. SlotPerBucket - 1)
  BY SlotsAssumption DEF FreeSlots, Slots
<1>2. R \in SUBSET Nat /\ R # {}
  BY <1>1
<1>3. PICK x \in R : \A y \in R : x <= y
  <2> HIDE DEF R
  <2> QED BY <1>2, LeastElement
<1>4. PICK s \in FreeSlots(b) : x = SlotPerBucket - s
  OBVIOUS
<1>5. \A r \in FreeSlots(b) : r <= s
  BY <1>1, <1>3, <1>4
<1> QED BY <1>5 DEF LastFree

(* The end of the path t follows, as the move finds it.                    *)
LEMMA MoveFacts ==
  ASSUME HashesAlways, CInv, NEW t \in Threads, Ready(t), pc[t] = "move", ~ Scooped(path[t])
  PROVE  LET q == path[t] n == Len(q) h == hashpower
         IN  /\ n \in Nat /\ n >= 1 /\ q \in Seq(PItems(h))
             /\ At(q[n]) \in Positions(h) /\ buckets[At(q[n])] = NoElem
             /\ q[1].b \in Homes(h, Key(t))
             /\ n > 1 => /\ At(q[n - 1]) \in Positions(h)
                         /\ buckets[At(q[n - 1])] # NoElem
                         /\ buckets[At(q[n - 1])][1] = q[n - 1].k
                         /\ q[n].b \in Homes(h, q[n - 1].k)
                         /\ lock_ind(q[n].b) \notin Unmigrated
             /\ n <= 2 => LocksOf(Homes(h, Key(t))) \subseteq Held(t)
<1> DEFINE q == path[t]
           n == Len(q)
           h == hashpower
<1>1. /\ hp[t] = h /\ h \in Nat /\ h >= InitHp /\ Wanted(t) = Held(t)
      /\ Held(t) \cap Unmigrated = {} /\ request[t] \in Requests
  BY ReadyFacts
<1>2. Moving(t)
  BY DEF CInv, ThreadInv
<1>3. /\ q \in Seq(PItems(h)) /\ q # << >> /\ Held(t) = MoveLocks(t, q)
      /\ n > 0 => q[1].b \in Homes(h, Key(t))
      /\ \A i \in 1 .. n - 1 :
           /\ q[i].k \in Keys /\ q[i].b \in Homes(h, q[i].k)
           /\ q[i + 1].b = AltOf(h, q[i].k, q[i].b)
  BY <1>1, <1>2 DEF Moving, Linked
<1>4. n \in Nat /\ n >= 1
  BY <1>3
<1>5. \A i \in 1 .. n : q[i] \in PItems(h)
  BY <1>3
<1>6. \A i \in 1 .. n : At(q[i]) \in Positions(h) /\ q[i].b \in 0 .. Size(h) - 1
  BY <1>5 DEF PItems, At, Positions
<1>7. Homes(h, Key(t)) \in SUBSET (0 .. Size(h) - 1)
  BY <1>1, RequestFacts, HomeFacts DEF Key
<1>8. buckets[At(q[n])] = NoElem
      /\ (n > 1 => buckets[At(q[n - 1])] # NoElem /\ buckets[At(q[n - 1])][1] = q[n - 1].k)
  BY DEF Scooped
<1>9. MoveLocks(t, q) =
        LocksOf(IF n = 1 THEN Homes(h, Key(t))
                ELSE IF n = 2 THEN Homes(h, Key(t)) \cup {q[2].b} ELSE {q[n - 1].b, q[n].b})
  BY <1>1 DEF MoveLocks
<1> HIDE DEF q, n, h
<1>10. CASE n = 1
  BY <1>3, <1>4, <1>6, <1>8, <1>9, <1>10 DEF q, n, h
<1>11. CASE n > 1
  <2>1. n \in 1 .. n /\ n - 1 \in 1 .. n - 1 /\ n - 1 \in 1 .. n /\ (n - 1) + 1 = n
    BY <1>4, <1>11
  <2>2. q[n].b \in Homes(h, q[n - 1].k)
    BY <1>1, <1>3, <2>1, HomeFacts DEF h
  <2> DEFINE B == IF n = 2 THEN Homes(h, Key(t)) \cup {q[2].b} ELSE {q[n - 1].b, q[n].b}
  <2>3. B \in SUBSET (0 .. Size(h) - 1) /\ q[n].b \in B
    BY <1>6, <1>7, <2>1
  <2>4. Held(t) = LocksOf(B)
    BY <1>3, <1>9, <1>11
  <2>5. lock_ind(q[n].b) \in LocksOf(B)
    <3> HIDE DEF B
    <3> QED BY <1>1, <2>3, LockedBuckets DEF h
  <2>6. lock_ind(q[n].b) \notin Unmigrated
    BY <1>1, <2>4, <2>5
  <2>7. n <= 2 => LocksOf(Homes(h, Key(t))) \subseteq Held(t)
    <3>1. n <= 2 => Homes(h, Key(t)) \subseteq B
      BY <1>4, <1>11
    <3> QED BY <2>4, <3>1 DEF LocksOf
  <2> HIDE DEF B
  <2> QED BY <1>3, <1>4, <1>6, <1>8, <1>11, <2>1, <2>2, <2>6, <2>7 DEF q, n, h
<1> QED BY <1>4, <1>10, <1>11

LEMMA ShiftedFits ==
  ASSUME HashesAlways, CInv, NEW t \in Threads, Ready(t), pc[t] = "move", ~ Scooped(path[t])
  PROVE  Fits(Shifted(path[t]), Unmigrated)
<1> DEFINE q == path[t]
           n == Len(q)
<1>1. Fits(buckets, Unmigrated)
  BY ReadyFacts
<1>2. CASE n = 1
  BY <1>1, <1>2 DEF Shifted
<1>3. CASE n # 1
  <2> DEFINE p == At(q[n])
             r == At(q[n - 1])
  <2>1. /\ p \in Positions(hashpower) /\ r \in Positions(hashpower)
        /\ buckets[p] = NoElem /\ buckets[r] # NoElem
        /\ q[n].b \in Homes(hashpower, buckets[r][1]) /\ lock_ind(q[n].b) \notin Unmigrated
    <3>1. n \in Nat /\ n >= 1
      BY MoveFacts
    <3>2. n > 1
      BY <1>3, <3>1
    <3>3. /\ p \in Positions(hashpower) /\ buckets[p] = NoElem
          /\ r \in Positions(hashpower) /\ buckets[r] # NoElem /\ buckets[r][1] = q[n - 1].k
          /\ q[n].b \in Homes(hashpower, q[n - 1].k) /\ lock_ind(q[n].b) \notin Unmigrated
      BY <3>2, MoveFacts
    <3> HIDE DEF p, r, q, n
    <3> QED BY <3>3
  <2>2. p[1] = q[n].b
    BY DEF At
  <2>3. Shifted(q) = [buckets EXCEPT ![p] = buckets[r], ![r] = NoElem]
    BY <1>3 DEF Shifted
  <2> HIDE DEF p, r, q, n
  <2>4. Fits([buckets EXCEPT ![p] = buckets[r], ![r] = NoElem], Unmigrated)
    BY <1>1, <2>1, <2>2, ShiftFits
  <2> QED BY <2>3, <2>4 DEF q
<1> QED BY <1>2, <1>3

(* Steps that put, take or move an element, with the locks for it.         *)
LEMMA WorkTable ==
  ASSUME CInv, NEW t \in Threads, Ready(t), pc[t] \notin {"double", "fresh"},
         Apart(t), pc'[t] # "fresh",
         UNCHANGED <<hashpower, old_hashpower, old_buckets, is_migrated, remaining, moved>>,
         Fits(buckets', Unmigrated)
  PROVE  TableInv'
<1>1. ~ Swapping /\ TableInv
  BY ReadyFacts DEF CInv
<1>2. ~ Swapping'
  BY <1>1, SameSwapping
<1> QED BY <1>1, <1>2, TablePut

LEMMA EraseTable ==
  ASSUME HashesAlways, CInv, NEW t \in Threads, erase_fn(t)
  PROVE  TableInv'
<1>1. /\ pc[t] = "erase" /\ Ready(t) /\ \E a : Returns(t, a)
      /\ UNCHANGED <<hashpower, old_hashpower, old_buckets, is_migrated, remaining>>
      /\ UNCHANGED buckets \/ \E p : buckets' = [buckets EXCEPT ![p] = NoElem]
  BY DEF erase_fn, del_from_bucket
<1>2. Apart(t) /\ UNCHANGED moved /\ GoOn(t, "idle", {})
  BY <1>1, ReturnsApart DEF CInv
<1>3. pc'[t] # "fresh"
  BY <1>2 DEF CInv, LInv, Shape, GoOn
<1>4. Fits(buckets, Unmigrated)
  BY <1>1, ReadyFacts
<1>5. Fits(buckets', Unmigrated)
  BY <1>1, <1>4, ClearFits
<1> QED BY <1>1, <1>2, <1>3, <1>5, WorkTable

LEMMA InsertHereTable ==
  ASSUME HashesAlways, CInv, NEW t \in Threads, InsertHere(t)
  PROVE  TableInv'
<1> DEFINE i1 == I1(hp[t], Key(t))
           i2 == I2(hp[t], Key(t))
           b == IF FreeSlots(i1) # {} THEN i1 ELSE i2
<1>1. /\ pc[t] = "insert" /\ Ready(t) /\ \E a : Returns(t, a)
      /\ UNCHANGED <<hashpower, old_hashpower, old_buckets, is_migrated, remaining>>
  BY DEF InsertHere
<1>2. Apart(t) /\ UNCHANGED moved /\ GoOn(t, "idle", {})
  BY <1>1, ReturnsApart DEF CInv
<1>3. pc'[t] # "fresh"
  BY <1>2 DEF CInv, LInv, Shape, GoOn
<1>4. Fits(buckets, Unmigrated) /\ Wanted(t) = Held(t)
  BY <1>1, ReadyFacts
<1>5. CASE UNCHANGED buckets
  BY <1>1, <1>2, <1>3, <1>4, <1>5, WorkTable
<1>6. CASE Places(t, buckets) = {} /\ FreeSlots(b) # {}
           /\ add_to_bucket(t, buckets, <<b, LastFree(b)>>)
  <2>1. LastFree(b) \in Slots /\ b \in Homes(hp[t], Key(t))
    <3>1. b \in Homes(hp[t], Key(t))
      BY DEF Homes
    <3> HIDE DEF b
    <3> QED BY <1>6, <3>1, LastFreeFacts DEF FreeSlots
  <2> HIDE DEF b
  <2>2. <<b, LastFree(b)>> \in Mine(t)
    BY <2>1 DEF Mine
  <2>3. request[t].op = "insert" /\ Wanted(t) = LocksOf(Homes(hp[t], Key(t)))
    BY <1>1 DEF CInv, ThreadInv, Ops
  <2>4. Fits([buckets EXCEPT ![<<b, LastFree(b)>>] = <<Key(t), request[t].v>>], Unmigrated)
    BY <1>1, <1>4, <1>6, <2>2, <2>3, PutKey
  <2>5. Fits(buckets', Unmigrated)
    BY <1>6, <2>4 DEF add_to_bucket
  <2> QED BY <1>1, <1>2, <1>3, <2>5, WorkTable
<1> QED BY <1>5, <1>6 DEF InsertHere

LEMMA MoveStepTable ==
  ASSUME HashesAlways, CInv, NEW t \in Threads, MoveStep(t)
  PROVE  TableInv'
<1>1. /\ pc[t] = "move" /\ Ready(t) /\ ~ Scooped(path[t]) /\ buckets' = Shifted(path[t])
      /\ UNCHANGED <<hashpower, old_hashpower, old_buckets, is_migrated, remaining, moved>>
      /\ Step(t) /\ \E w : GoOn(t, "move", w)
  BY DEF MoveStep, Step
<1>2. Apart(t) /\ pc'[t] # "fresh"
  BY <1>1, StepApart DEF CInv, LInv, Shape, GoOn
<1>3. Fits(buckets', Unmigrated)
  BY <1>1, ShiftedFits
<1> QED BY <1>1, <1>2, <1>3, WorkTable

LEMMA InsertAfterMoveTable ==
  ASSUME HashesAlways, CInv, NEW t \in Threads, InsertAfterMove(t)
  PROVE  TableInv'
<1> DEFINE q == path[t]
           bk == Shifted(q)
<1>1. /\ pc[t] = "move" /\ Ready(t) /\ Len(q) <= 2 /\ ~ Scooped(q) /\ \E a : Returns(t, a)
      /\ UNCHANGED <<hashpower, old_hashpower, old_buckets, is_migrated, remaining>>
  BY DEF InsertAfterMove
<1>2. Apart(t) /\ UNCHANGED moved /\ GoOn(t, "idle", {})
  BY <1>1, ReturnsApart DEF CInv
<1>3. pc'[t] # "fresh"
  BY <1>2 DEF CInv, LInv, Shape, GoOn
<1>4. Fits(bk, Unmigrated)
  BY <1>1, ShiftedFits
<1>5. CASE buckets' = bk
  BY <1>1, <1>2, <1>3, <1>4, <1>5, WorkTable
<1>6. CASE Places(t, bk) = {} /\ add_to_bucket(t, bk, At(q[1]))
  <2>1. /\ Len(q) \in Nat /\ Len(q) >= 1 /\ q \in Seq(PItems(hashpower))
        /\ q[1].b \in Homes(hashpower, Key(t))
        /\ LocksOf(Homes(hashpower, Key(t))) \subseteq Held(t)
    BY <1>1, MoveFacts
  <2>2. hp[t] = hashpower
    BY <1>1, ReadyFacts
  <2>3. q[1] \in PItems(hashpower)
    BY <2>1
  <2>4. At(q[1]) \in Mine(t)
    BY <2>1, <2>2, <2>3 DEF PItems, Mine, At
  <2>5. request[t].op = "insert"
    BY <1>1 DEF CInv, ThreadInv
  <2> HIDE DEF q, bk
  <2>6. Fits([bk EXCEPT ![At(q[1])] = <<Key(t), request[t].v>>], Unmigrated)
    BY <1>1, <1>4, <1>6, <2>1, <2>2, <2>4, <2>5, PutKey
  <2>7. Fits(buckets', Unmigrated)
    BY <1>6, <2>6 DEF add_to_bucket
  <2> QED BY <1>1, <1>2, <1>3, <2>7, WorkTable
<1> QED BY <1>5, <1>6 DEF InsertAfterMove

LEMMA LowestFacts ==
  ASSUME NEW L \in SUBSET Nat, L # {}
  PROVE  Lowest(L) \in L
<1>1. PICK x \in L : \A y \in L : x <= y
  BY LeastElement
<1> QED BY <1>1 DEF Lowest

LEMMA RehashLockTable ==
  ASSUME HashesAlways, CInv, NEW t \in Threads, RehashLock(t)
  PROVE  TableInv'
<1> DEFINE l == Lowest(Held(t) \cap Unmigrated)
<1>1. /\ HasLocks(t) /\ pc[t] # "double" /\ pc[t] # "fresh"
      /\ Held(t) \cap Unmigrated # {}
      /\ buckets' = Moved({l}) /\ is_migrated' = [is_migrated EXCEPT ![l] = TRUE]
      /\ moved' = [moved EXCEPT ![t] = TRUE]
      /\ UNCHANGED <<hashpower, old_hashpower, old_buckets, remaining, pc>>
  BY DEF RehashLock
<1>2. l \in Held(t) \cap Unmigrated
  <2>1. Held(t) \cap Unmigrated \in SUBSET Nat
    BY LocksAreNat DEF Held
  <2> QED BY <1>1, <2>1, LowestFacts
<1> HIDE DEF l
<1>3. TableInv /\ ~ Swapping /\ ~ moved[t] /\ Growing
  BY <1>1, NotSwapping DEF CInv, HasLocks, TableInv
<1>4. ~ Swapping'
  BY <1>1, <1>3 DEF Swapping
<1>5. Half /\ Fits(buckets, Unmigrated)
  BY <1>2, <1>3, OldMeansHalf DEF Growing
<1>6. Unmigrated' = Unmigrated \ {l} /\ is_migrated' \in [Locks -> BOOLEAN]
  BY <1>1, <1>2, <1>3 DEF TableInv, Unmigrated
<1>7. Movers' = Movers \cup {t} /\ t \notin Movers
  BY <1>1, <1>3 DEF CInv, Locals, Movers
<1>8. Fits(Moved({l}), Unmigrated \ {l})
  <2>1. {l} \in SUBSET Unmigrated
    BY <1>2
  <2> QED BY <1>5, <2>1, MovedFits
<1>9. Half' /\ Fits(buckets, Unmigrated)'
  <2>1. Half' /\ \A L : OldElems(L)' = OldElems(L)
    BY <1>1, <1>5 DEF Half, OldElems
  <2> QED BY <1>1, <1>6, <1>8, <2>1 DEF Fits
<1>10. /\ IsFiniteSet(Movers)' /\ Cardinality(Movers)' = Cardinality(Movers) + 1
       /\ Cardinality(Unmigrated)' = Cardinality(Unmigrated) - 1
  <2>1. IsFiniteSet(Movers) /\ IsFiniteSet(Unmigrated)
    BY <1>3, UnmigratedFacts
  <2> QED BY <1>2, <1>6, <1>7, <2>1, FS_AddElement, FS_RemoveElement
<1>11. remaining' = Cardinality(Unmigrated)' + Cardinality(Movers)'
  <2>1. remaining = Cardinality(Unmigrated) + Cardinality(Movers)
        /\ Cardinality(Unmigrated) \in Nat /\ Cardinality(Movers) \in Nat
    BY <1>3, UnmigratedFacts DEF TableInv
  <2> QED BY <1>1, <1>10, <2>1
<1> QED BY <1>4, <1>6, <1>9, <1>10, <1>11 DEF TableInv, Growing

LEMMA DecrementTable ==
  ASSUME CInv, NEW t \in Threads, decrement_num_remaining_lazy_rehash_locks(t)
  PROVE  TableInv'
<1>1. /\ moved[t] /\ remaining' = remaining - 1
      /\ old_buckets' = IF remaining = 1 THEN << >> ELSE old_buckets
      /\ moved' = [moved EXCEPT ![t] = FALSE]
      /\ UNCHANGED <<hashpower, buckets, old_hashpower, is_migrated, pc>>
  BY DEF decrement_num_remaining_lazy_rehash_locks
<1>2. /\ TableInv /\ t \in Movers /\ Movers' = Movers \ {t}
      /\ Unmigrated' = Unmigrated
  BY <1>1 DEF CInv, Locals, Movers, Unmigrated
<1>3. /\ IsFiniteSet(Unmigrated) /\ Cardinality(Unmigrated) \in Nat
      /\ IsFiniteSet(Movers) /\ Cardinality(Movers) \in Nat /\ remaining > 0
      /\ remaining = Cardinality(Unmigrated) + Cardinality(Movers)
  BY <1>2, UnmigratedFacts DEF TableInv
<1>4. IsFiniteSet(Movers)' /\ Cardinality(Movers)' = Cardinality(Movers) - 1
  BY <1>2, <1>3, FS_RemoveElement
<1>5. remaining' = Cardinality(Unmigrated)' + Cardinality(Movers)'
  BY <1>1, <1>2, <1>3, <1>4
<1>6. ~ Swapping
  BY <1>2, <1>3 DEF TableInv, Between
<1>7. ~ Swapping'
  BY <1>1, <1>6 DEF Swapping
<1>8. Half /\ Fits(buckets, Unmigrated)
  BY <1>2, <1>3, <1>6 DEF TableInv, Growing
<1>9. CASE remaining = 1
  <2>1. Cardinality(Movers) # 0
    BY <1>2, <1>3, FS_EmptySet
  <2>2. Cardinality(Unmigrated) = 0 /\ remaining' = 0
    BY <1>1, <1>3, <1>9, <2>1
  <2>3. Unmigrated = {}
    BY <1>3, <2>2, FS_EmptySet
  <2>4. OldElems({}) = {} /\ OldElems({})' = {}
    BY DEF OldElems
  <2>5. Fits(buckets, Unmigrated)'
    BY <1>1, <1>2, <1>8, <2>3, <2>4 DEF Fits
  <2> QED BY <1>1, <1>2, <1>4, <1>5, <1>7, <2>2, <2>5 DEF TableInv, Growing
<1>10. CASE remaining # 1
  <2>1. UNCHANGED old_buckets
    BY <1>1, <1>10
  <2>2. Half' /\ \A L : OldElems(L)' = OldElems(L)
    BY <1>1, <1>8, <2>1 DEF Half, OldElems
  <2>3. Fits(buckets, Unmigrated)'
    BY <1>1, <1>2, <1>8, <2>1, <2>2 DEF Fits
  <2> QED BY <1>1, <1>2, <1>4, <1>5, <1>7, <2>2, <2>3 DEF TableInv, Growing
<1> QED BY <1>9, <1>10

LEMMA SwapTable ==
  ASSUME HashesAlways, CInv, NEW t \in Threads, SwapBuckets(t)
  PROVE  TableInv'
<1>1. /\ pc[t] = "double" /\ want[t] = {} /\ hashpower = hp[t]
      /\ old_buckets' = Moved(Unmigrated) /\ buckets' = << >>
      /\ hashpower' = old_hashpower /\ old_hashpower' = hashpower
      /\ is_migrated' = [l \in Locks |-> TRUE] /\ remaining' = 0
      /\ GoOn(t, "fresh", {}) /\ UNCHANGED moved
  BY DEF SwapBuckets, AllHeld
<1>2. Held(t) = Locks /\ Shape /\ TableInv
  BY <1>1 DEF CInv, LInv, Steady, Doubling
<1>3. ~ Swapping
  BY <1>1, <1>2, LocksAreNat, NotSwapping DEF CInv
<1>4. Movers = {}
  <2> SUFFICES ASSUME NEW u \in Movers PROVE FALSE
    OBVIOUS
  <2>1. u \in Threads /\ Held(u) # {} /\ pc[u] # "double"
    BY DEF Movers, CInv, ThreadInv
  <2> QED BY <1>1, <1>2, <2>1, Alone
<1>5. Swapping'
  BY <1>1, <1>2 DEF Swapping, GoOn, Shape
<1>6. Unmigrated' = {} /\ Movers' = {} /\ is_migrated' \in [Locks -> BOOLEAN]
  BY <1>1, <1>4 DEF Unmigrated, Movers
<1>7. Fits(buckets, Unmigrated)
  BY <1>2, <1>3 DEF TableInv, Growing
<1>8. Good(Moved(Unmigrated), hashpower)
  <2>1. CASE Unmigrated = {}
    BY <1>7, <2>1, NothingMoved DEF Fits
  <2>2. CASE Unmigrated # {}
    <3>1. Half
      BY <1>2, <1>3, <2>2, OldMeansHalf
    <3>2. Unmigrated \in SUBSET Unmigrated
      OBVIOUS
    <3> QED BY <1>7, <3>1, <3>2, MovedFits DEF Fits
  <2> QED BY <2>1, <2>2
<1>9. Good(old_buckets, old_hashpower)'
  BY <1>1, <1>8 DEF Good
<1>10. Between'
  BY <1>1, <1>6, <1>9 DEF Between
<1>11. IsFiniteSet({}) /\ Cardinality({}) = 0
  BY FS_EmptySet
<1> QED BY <1>1, <1>5, <1>6, <1>10, <1>11 DEF TableInv

LEMMA FreshEndsSwap ==
  ASSUME CInv, NEW t \in Threads, FreshBuckets(t)
  PROVE  ~ Swapping'
<1> SUFFICES ASSUME NEW u \in Threads, pc'[u] = "fresh" PROVE FALSE
  BY DEF Swapping
<1>1. /\ pc[t] = "fresh" /\ GoOn(t, "snapshot", {}) /\ Step(t)
  BY DEF FreshBuckets, AllHeld, Step
<1>2. /\ Held(t) = Locks /\ Shape /\ Apart(t)
  BY <1>1, StepApart DEF CInv, LInv, Steady, Doubling
<1>3. u # t
  BY <1>1, <1>2 DEF GoOn, Shape
<1>4. pc[u] = "fresh"
  BY <1>2, <1>3 DEF Apart, Kept
<1>5. Held(u) = Locks /\ Held(u) = {}
  BY <1>2, <1>3, <1>4, Alone DEF CInv, LInv, Steady, Doubling
<1> QED BY <1>5, LocksAreNat

LEMMA FreshTable ==
  ASSUME CInv, NEW t \in Threads, FreshBuckets(t)
  PROVE  TableInv'
<1>1. /\ pc[t] = "fresh" /\ hashpower' = hp[t] + 1 /\ buckets' = Empty(hp[t] + 1)
      /\ is_migrated' = [l \in Locks |-> FALSE] /\ remaining' = LockNum
      /\ GoOn(t, "snapshot", {}) /\ UNCHANGED <<old_hashpower, old_buckets, moved>>
      /\ Step(t)
  BY DEF FreshBuckets, AllHeld, Step
<1>2. /\ Held(t) = Locks /\ Shape /\ TableInv /\ hp[t] = old_hashpower
      /\ hp[t] \in Nat /\ hp[t] >= InitHp /\ Apart(t)
  BY <1>1, StepApart DEF CInv, LInv, Steady, Doubling, ThreadInv
<1>3. Between
  BY <1>1, <1>2 DEF TableInv, Swapping
<1>4. Movers = {}
  BY <1>2, <1>3, UnmigratedFacts DEF Between
<1>5. ~ Swapping'
  BY FreshEndsSwap
<1>6. Unmigrated' = Locks /\ Movers' = {} /\ is_migrated' \in [Locks -> BOOLEAN]
  BY <1>1, <1>4 DEF Unmigrated, Movers
<1>7. Half'
  BY <1>1, <1>2, <1>3 DEF Half, Between, Good
<1>8. \A p \in Positions(hp[t] + 1) : buckets'[p] = NoElem
  BY <1>1 DEF Empty
<1>9. Good(buckets, hashpower)'
  <2>1. hp[t] + 1 \in Nat /\ hp[t] + 1 >= InitHp
    BY <1>2, SlotsAssumption
  <2>2. buckets' \in [Positions(hp[t] + 1) -> Elem \cup {NoElem}]
    BY <1>1 DEF Empty
  <2> QED BY <1>1, <1>8, <2>1, <2>2 DEF Good
<1>10. Fits(buckets, Unmigrated)'
  BY <1>1, <1>8, <1>9 DEF Fits
<1>11. IsFiniteSet({}) /\ Cardinality({}) = 0 /\ Cardinality(Locks) = LockNum
       /\ LockNum \in Nat
  BY FS_EmptySet, LocksFinite, LocksAssumption
<1> QED BY <1>1, <1>5, <1>6, <1>7, <1>10, <1>11 DEF TableInv, Growing

------------------------------------------------------------------------------
(***************************************************************************)
(* What the steps of t do to its own part of the invariant.                *)
(***************************************************************************)
LEMMA AfterGoOn ==
  ASSUME CInv, NEW t \in Threads, NEW l, NEW w, GoOn(t, l, w)
  PROVE  pc'[t] = l /\ want'[t] = w
BY DEF CInv, LInv, Shape, GoOn

LEMMA UnlockedWants ==
  ASSUME CInv, NEW t \in Threads, NEW l, NEW w, GoOn(t, l, w), Unlock(t)
  PROVE  Held(t)' = {} /\ Wanted(t)' = w
<1>1. Held(t)' = {}
  BY AfterUnlock DEF CInv, LInv
<1> QED BY <1>1, AfterGoOn DEF Wanted

LEMMA RestsInv ==
  ASSUME CInv, NEW t \in Threads, ~ moved[t], UNCHANGED <<request, hp, moved>>,
         NEW l \in {"idle", "snapshot"}, GoOn(t, l, {}), pc[t] # "idle"
  PROVE  ThreadInv(t)'
<1>1. pc'[t] = l /\ ~ moved'[t]
  BY AfterGoOn
<1>2. request'[t] \in Requests
  BY DEF CInv, ThreadInv
<1> QED BY <1>1, <1>2 DEF ThreadInv, Ops

LEMMA ReturnsInv ==
  ASSUME CInv, NEW t \in Threads, NEW a, Returns(t, a), ~ moved[t], pc[t] # "idle"
  PROVE  ThreadInv(t)'
BY ReturnsApart, RestsInv DEF CInv

LEMMA SnapshotThread ==
  ASSUME CInv, NEW t \in Threads, Snapshot(t)
  PROVE  ThreadInv(t)'
<1> DEFINE W == LocksOf(Homes(hashpower, Key(t)))
<1>1. /\ pc[t] = "snapshot" /\ hp' = [hp EXCEPT ![t] = hashpower]
      /\ GoOn(t, request[t].op, W) /\ UNCHANGED <<request, moved, holder>>
  BY DEF Snapshot
<1>2. request[t] \in Requests /\ request[t].op \in Ops /\ ~ moved[t] /\ Held(t) = {}
  BY <1>1, RequestFacts DEF CInv, ThreadInv, LInv, Steady, Unlocked
<1>3. pc'[t] = request[t].op /\ want'[t] = W
  BY <1>1, AfterGoOn
<1>4. hp'[t] = hashpower /\ Held(t)' = {}
  BY <1>1, <1>2 DEF CInv, LInv, Shape, Held
<1>5. Wanted(t)' = LocksOf(Homes(hp'[t], Key(t)'))
  BY <1>1, <1>3, <1>4 DEF Wanted, Key
<1> QED BY <1>1, <1>2, <1>3, <1>5 DEF ThreadInv, Ops

LEMMA SameThread ==
  ASSUME CInv, NEW t \in Threads,
         UNCHANGED <<request, pc, hp, queue, plan, path, old_hashpower>>,
         Wanted(t)' = Wanted(t),
         moved'[t] => Held(t)' # {} /\ pc[t] \notin {"idle", "snapshot", "double", "fresh"}
  PROVE  ThreadInv(t)'
<1>1. Searching(t)' = Searching(t)
  BY DEF Searching
<1>2. Following(t)' = Following(t)
  BY DEF Following, Linked, NextOnPath, Key
<1>3. Moving(t)' = Moving(t)
  BY DEF Moving, Linked, MoveLocks, Key
<1>4. Key(t)' = Key(t)
  BY DEF Key
<1> QED BY <1>1, <1>2, <1>3, <1>4 DEF CInv, ThreadInv

LEMMA LockThread ==
  ASSUME CInv, NEW t \in Threads, Lock(t)
  PROVE  ThreadInv(t)'
<1> DEFINE l == NextLock(t)
<1>1. /\ want[t] # {} /\ holder' = [holder EXCEPT ![l] = t]
      /\ want' = [want EXCEPT ![t] = @ \ {l}]
      /\ UNCHANGED <<request, pc, hp, queue, plan, path, old_hashpower, moved>>
  BY DEF Lock, NextLockFree, tableVars, searchVars
<1>2. Shape /\ l \in want[t] /\ l \in Locks
  BY <1>1, NextLockLeast DEF CInv, LInv, Shape
<1> HIDE DEF l
<1>3. Held(t)' = Held(t) \cup {l} /\ want'[t] = want[t] \ {l}
  BY <1>1, <1>2 DEF Shape, Held
<1>4. Wanted(t)' = Wanted(t)
  BY <1>2, <1>3 DEF Wanted
<1>5. moved'[t] => Held(t)' # {} /\ pc[t] \notin {"idle", "snapshot", "double", "fresh"}
  BY <1>1, <1>3 DEF CInv, ThreadInv
<1> QED BY <1>1, <1>4, <1>5, SameThread

LEMMA MigrateThread ==
  ASSUME CInv, NEW t \in Threads,
         RehashLock(t) \/ decrement_num_remaining_lazy_rehash_locks(t)
  PROVE  ThreadInv(t)'
<1>1. UNCHANGED <<request, pc, hp, queue, plan, path, old_hashpower, want, holder>>
  BY DEF RehashLock, decrement_num_remaining_lazy_rehash_locks, searchVars
<1>2. Held(t)' = Held(t) /\ Wanted(t)' = Wanted(t)
  BY <1>1 DEF Held, Wanted
<1>3. CASE RehashLock(t)
  <2>1. Held(t) # {} /\ pc[t] # "double" /\ pc[t] # "fresh"
    BY <1>3 DEF RehashLock, HasLocks
  <2>2. pc[t] \notin {"idle", "snapshot"}
    BY <2>1 DEF CInv, LInv, Steady, Unlocked
  <2> QED BY <1>1, <1>2, <2>1, <2>2, SameThread
<1>4. CASE decrement_num_remaining_lazy_rehash_locks(t)
  <2>1. moved' = [moved EXCEPT ![t] = FALSE]
    BY <1>4 DEF decrement_num_remaining_lazy_rehash_locks
  <2>2. ~ moved'[t]
    BY <2>1 DEF CInv, Locals
  <2> QED BY <1>1, <1>2, <2>2, SameThread
<1> QED BY <1>3, <1>4

LEMMA RunCuckooThread ==
  ASSUME HashesAlways, CInv, NEW t \in Threads, pc[t] \in {"insert", "move"}, Ready(t),
         RunCuckoo(t), UNCHANGED <<request, moved, hp>>
  PROVE  ThreadInv(t)'
<1> DEFINE i1 == I1(hp[t], Key(t))
           i2 == I2(hp[t], Key(t))
           x1 == [b |-> i1, code |-> 0, depth |-> 0]
           x2 == [b |-> i2, code |-> 1, depth |-> 0]
<1>1. /\ GoOn(t, "search", LocksOf({i1})) /\ Unlock(t)
      /\ queue' = [queue EXCEPT ![t] = <<x1, x2>>] /\ path' = [path EXCEPT ![t] = << >>]
  BY DEF RunCuckoo
<1>2. pc'[t] = "search" /\ Wanted(t)' = LocksOf({i1})
  BY <1>1, AfterGoOn, UnlockedWants
<1>3. queue'[t] = <<x1, x2>> /\ path'[t] = << >> /\ ~ moved[t]
  BY <1>1 DEF CInv, Locals, Ready, HasLocks
<1>4. /\ hp[t] \in Nat /\ hp[t] >= InitHp /\ request[t] \in Requests /\ request[t].op = "insert"
  BY ReadyFacts DEF CInv, ThreadInv, Ops
<1>5. Key(t) \in Keys
  BY <1>4, RequestFacts DEF Key
<1>6. x1 \in QItems(hp[t]) /\ x2 \in QItems(hp[t])
  BY <1>4, <1>5, HashFacts DEF QItems
<1>7. queue'[t] \in Seq(QItems(hp[t])) /\ queue'[t] # << >> /\ Head(queue'[t]).b = i1
  <2> HIDE DEF x2
  <2>1. Head(<<x1, x2>>) = x1 /\ <<x1, x2>> # << >>
    OBVIOUS
  <2>2. x1.b = i1
    OBVIOUS
  <2> HIDE DEF x1
  <2> QED BY <1>3, <1>6, <2>1, <2>2
<1>8. Searching(t)'
  BY <1>2, <1>3, <1>7 DEF Searching
<1> QED BY <1>2, <1>3, <1>4, <1>8 DEF ThreadInv, Ops

(* The table of a thread that looks at a locked bucket.                    *)
LEMMA LookFacts ==
  ASSUME CInv, NEW t \in Threads, Ready(t), pc[t] \in {"search", "path"},
         NEW b \in 0 .. Size(hp[t]) - 1, NEW s \in Slots, buckets[<<b, s>>] # NoElem
  PROVE  buckets[<<b, s>>][1] \in Keys /\ b \in Homes(hp[t], buckets[<<b, s>>][1])
<1>1. hp[t] = hashpower /\ Good(buckets, hashpower)
  BY ReadyFacts DEF Fits
<1>2. <<b, s>> \in Positions(hashpower)
  BY <1>1 DEF Positions
<1>3. <<b, s>>[1] = b
  OBVIOUS
<1> QED BY <1>1, <1>2, <1>3, ElemFacts

LEMMA HeadTail ==
  ASSUME NEW S, NEW q \in Seq(S), q # << >>
  PROVE  Head(q) \in S /\ Tail(q) \in Seq(S) /\ Len(q) \in Nat /\ Len(q) >= 1
         /\ Len(Tail(q)) = Len(q) - 1 /\ \A i \in 1 .. Len(q) - 1 : Tail(q)[i] = q[i + 1]
OBVIOUS

LEMMA ExtendedFacts ==
  ASSUME NEW n, NEW x \in QItems(n), NEW i \in Slots
  PROVE  SlotAt(x, i) \in Slots /\ \A s \in Slots : Extended(x, s) \in Nat
<1>1. x.code \in Nat /\ SlotPerBucket \in Nat \ {0} /\ i \in Nat
  BY SlotsAssumption DEF QItems, Slots
<1>2. (x.code + i) % SlotPerBucket \in 0 .. SlotPerBucket - 1
  BY <1>1
<1>3. \A s \in Slots : x.code * SlotPerBucket + s \in Nat
  <2>1. x.code * SlotPerBucket \in Nat
    BY <1>1
  <2> QED BY <1>1, <2>1 DEF Slots
<1> QED BY <1>2, <1>3 DEF SlotAt, Extended, Slots

LEMMA ChildrenFacts ==
  ASSUME HashesAlways, CInv, NEW t \in Threads, Ready(t), pc[t] = "search",
         NEW x \in QItems(hp[t]),
         \A i \in Slots : buckets[<<x.b, SlotAt(x, i)>>] # NoElem
  PROVE  Children(t, x) \in Seq(QItems(hp[t]))
<1> DEFINE n == hp[t]
           c(i) == LET s == SlotAt(x, i - 1)
                   IN  [b |-> AltOf(n, buckets[<<x.b, s>>][1], x.b),
                        code |-> Extended(x, s), depth |-> x.depth + 1]
<1>1. x.b \in 0 .. Size(n) - 1 /\ x.depth \in Nat /\ SlotPerBucket \in Nat
  BY SlotsAssumption DEF QItems
<1>2. n \in Nat /\ n >= InitHp
  BY DEF CInv, ThreadInv
<1>3. ASSUME NEW i \in 1 .. SlotPerBucket PROVE c(i) \in QItems(n)
  <2> DEFINE s == SlotAt(x, i - 1)
             k == buckets[<<x.b, s>>][1]
  <2>1. i - 1 \in Slots
    BY <1>1 DEF Slots
  <2>2. s \in Slots /\ Extended(x, s) \in Nat /\ buckets[<<x.b, s>>] # NoElem
    BY <2>1, ExtendedFacts
  <2>3. k \in Keys /\ x.b \in Homes(n, k)
    <3> HIDE DEF s
    <3> QED BY <1>1, <2>2, LookFacts
  <2> HIDE DEF k, n
  <2>4. AltOf(n, k, x.b) \in 0 .. Size(n) - 1
    BY <1>2, <2>3, HomeFacts
  <2> HIDE DEF s
  <2>5. [b |-> AltOf(n, k, x.b), code |-> Extended(x, s), depth |-> x.depth + 1] \in QItems(n)
    BY <1>1, <2>2, <2>4 DEF QItems
  <2> QED BY <2>5 DEF k, s, n
<1>4. Children(t, x) = << >> \/ Children(t, x) = [i \in 1 .. SlotPerBucket |-> c(i)]
  BY DEF Children
<1> HIDE DEF c
<1>5. [i \in 1 .. SlotPerBucket |-> c(i)] \in Seq(QItems(n))
  BY <1>1, <1>3
<1>6. << >> \in Seq(QItems(n))
  OBVIOUS
<1> HIDE DEF n
<1>7. CASE Children(t, x) = << >>
  BY <1>6, <1>7 DEF n
<1>8. CASE Children(t, x) = [i \in 1 .. SlotPerBucket |-> c(i)]
  BY <1>5, <1>8 DEF n
<1> QED BY <1>4, <1>7, <1>8

LEMMA PlanFacts ==
  ASSUME NEW t, NEW code \in Nat, NEW depth \in Nat
  PROVE  LET p == PlanOf(t, code, depth)
         IN  /\ p.first \in Homes(hp[t], Key(t))
             /\ p.slots \in Seq(Slots) /\ Len(p.slots) = depth + 1
<1> DEFINE d(i) == (code \div Pow(SlotPerBucket, depth + 1 - i)) % SlotPerBucket
<1>1. ASSUME NEW i \in 1 .. depth + 1 PROVE d(i) \in Slots
  <2>1. depth + 1 - i \in Nat /\ SlotPerBucket \in Nat \ {0}
    BY SlotsAssumption
  <2>2. Pow(SlotPerBucket, depth + 1 - i) \in Nat \ {0}
    BY <2>1, PowFacts
  <2>3. code \div Pow(SlotPerBucket, depth + 1 - i) \in Nat
    BY <2>2, Division
  <2> QED BY <2>1, <2>3, Division DEF Slots
<1>2. PlanOf(t, code, depth).first \in Homes(hp[t], Key(t))
  BY DEF PlanOf, Homes
<1>3. PlanOf(t, code, depth).slots = [i \in 1 .. depth + 1 |-> d(i)]
  BY DEF PlanOf
<1> HIDE DEF d
<1>4. [i \in 1 .. depth + 1 |-> d(i)] \in Seq(Slots) /\ Len([i \in 1 .. depth + 1 |-> d(i)]) = depth + 1
  BY <1>1
<1> QED BY <1>2, <1>3, <1>4

LEMMA LowestFree ==
  ASSUME NEW L \in SUBSET Slots, L # {}
  PROVE  Lowest(L) \in L
BY SlotsAreNat, LowestFacts

LEMMA SlotSearchThread ==
  ASSUME HashesAlways, CInv, NEW t \in Threads, SlotSearch(t)
  PROVE  ThreadInv(t)'
<1> DEFINE x == Head(queue[t])
           rest == Tail(queue[t]) \o Children(t, x)
           free == {i \in Slots : buckets[<<x.b, SlotAt(x, i)>>] = NoElem}
<1>1. /\ pc[t] = "search" /\ Ready(t) /\ Unlock(t)
      /\ UNCHANGED <<path, request, hp, moved>>
  BY DEF SlotSearch
<1>2. /\ queue[t] \in Seq(QItems(hp[t])) /\ queue[t] # << >> /\ path[t] = << >>
      /\ request[t].op = "insert" /\ hp[t] \in Nat /\ hp[t] >= InitHp
      /\ request[t] \in Requests
  BY <1>1 DEF CInv, ThreadInv, Searching
<1>3. ~ moved[t]
  BY <1>1 DEF Ready, HasLocks
<1>4. x \in QItems(hp[t]) /\ Tail(queue[t]) \in Seq(QItems(hp[t]))
  BY <1>2, HeadTail
<1>5. CASE free # {}
  <2> DEFINE p == PlanOf(t, Extended(x, SlotAt(x, Lowest(free))), x.depth)
  <2>1. plan' = [plan EXCEPT ![t] = p] /\ GoOn(t, "path", LocksOf({p.first}))
    BY <1>5 DEF SlotSearch
  <2>2. Lowest(free) \in Slots
    BY <1>5, LowestFree
  <2>3. Extended(x, SlotAt(x, Lowest(free))) \in Nat /\ x.depth \in Nat
    <3> HIDE DEF x, free
    <3>1. SlotAt(x, Lowest(free)) \in Slots
      BY <1>4, <2>2, ExtendedFacts
    <3> QED BY <1>4, <2>2, <3>1, ExtendedFacts DEF QItems
  <2>4. p.first \in Homes(hp[t], Key(t)) /\ p.slots \in Seq(Slots) /\ Len(p.slots) = x.depth + 1
    <3> HIDE DEF x, free
    <3> QED BY <2>3, PlanFacts
  <2> HIDE DEF p, x
  <2>5. pc'[t] = "path" /\ Wanted(t)' = LocksOf({p.first}) /\ plan'[t] = p
    BY <1>1, <2>1, AfterGoOn, UnlockedWants DEF CInv, Locals
  <2>6. Len(path'[t]) = 0 /\ path'[t] \in Seq(PItems(hp'[t]))
    BY <1>1, <1>2
  <2>7. NextOnPath(t)' = p.first
    BY <1>1, <2>5, <2>6 DEF NextOnPath
  <2>8. Following(t)'
    <3>1. 0 < Len(plan'[t].slots)
      BY <2>3, <2>4, <2>5
    <3>2. Key(t)' = Key(t) /\ hp'[t] = hp[t]
      BY <1>1 DEF Key
    <3> QED BY <2>4, <2>5, <2>6, <2>7, <3>1, <3>2 DEF Following, Linked
  <2> QED BY <1>1, <1>2, <1>3, <2>5, <2>8 DEF ThreadInv, Ops
<1>6. CASE free = {}
  <2>1. /\ queue' = [queue EXCEPT ![t] = rest]
        /\ IF rest = << >> THEN GoOn(t, "double", Locks)
           ELSE GoOn(t, "search", LocksOf({Head(rest).b}))
    BY <1>6 DEF SlotSearch
  <2>2. Children(t, x) \in Seq(QItems(hp[t]))
    <3>1. \A i \in Slots : buckets[<<x.b, SlotAt(x, i)>>] # NoElem
      BY <1>6
    <3> HIDE DEF x
    <3> QED BY <1>1, <1>4, <3>1, ChildrenFacts
  <2>3. rest \in Seq(QItems(hp[t]))
    BY <1>4, <2>2
  <2> HIDE DEF rest
  <2>4. queue'[t] = rest
    BY <2>1 DEF CInv, Locals
  <2>5. CASE rest = << >>
    <3>1. pc'[t] = "double"
      BY <2>1, <2>5, AfterGoOn
    <3> QED BY <1>1, <1>2, <1>3, <3>1 DEF ThreadInv, Ops
  <2>6. CASE rest # << >>
    <3>1. pc'[t] = "search" /\ Wanted(t)' = LocksOf({Head(rest).b})
      BY <1>1, <2>1, <2>6, AfterGoOn, UnlockedWants
    <3>2. Searching(t)'
      BY <1>1, <1>2, <2>3, <2>4, <2>6, <3>1 DEF Searching
    <3> QED BY <1>1, <1>2, <1>3, <3>1, <3>2 DEF ThreadInv, Ops
  <2> QED BY <2>5, <2>6
<1> QED BY <1>5, <1>6

LEMMA CuckooPathThread ==
  ASSUME HashesAlways, CInv, NEW t \in Threads, CuckooPath(t)
  PROVE  ThreadInv(t)'
<1> DEFINE q == path[t]
           n == Len(q) + 1
           b == IF n = 1 THEN plan[t].first ELSE AltOf(hp[t], q[n - 1].k, q[n - 1].b)
           s == plan[t].slots[n]
           e == buckets[<<b, s>>]
           y == [b |-> b, s |-> s, k |-> IF e = NoElem THEN Absent ELSE e[1]]
           r == Append(q, y)
           h == hp[t]
<1>1. /\ pc[t] = "path" /\ Ready(t) /\ path' = [path EXCEPT ![t] = r] /\ Unlock(t)
      /\ UNCHANGED <<plan, request, hp, moved>>
      /\ IF e = NoElem \/ n = Len(plan[t].slots) THEN GoOn(t, "move", MoveLocks(t, r))
         ELSE GoOn(t, "path", LocksOf({AltOf(h, r[n].k, b)}))
  BY DEF CuckooPath
<1>2. /\ request[t].op = "insert" /\ h \in Nat /\ h >= InitHp /\ request[t] \in Requests
      /\ Linked(t, q) /\ plan[t].first \in Homes(h, Key(t))
      /\ Len(q) > 0 => q[Len(q)].k \in Keys /\ q[Len(q)].b \in Homes(h, q[Len(q)].k)
      /\ plan[t].slots \in Seq(Slots) /\ Len(q) < Len(plan[t].slots)
  BY <1>1 DEF CInv, ThreadInv, Following
<1>3. /\ q \in Seq(PItems(h)) /\ (Len(q) > 0 => q[1].b \in Homes(h, Key(t)))
      /\ \A i \in 1 .. Len(q) - 1 :
           /\ q[i].k \in Keys /\ q[i].b \in Homes(h, q[i].k)
           /\ q[i + 1].b = AltOf(h, q[i].k, q[i].b)
  BY <1>2 DEF Linked
<1>4. ~ moved[t] /\ Key(t) \in Keys
  BY <1>1, <1>2, RequestFacts DEF Ready, HasLocks, Key
<1>5. Len(q) \in Nat /\ n \in Nat /\ n >= 1 /\ n - 1 = Len(q) /\ n <= Len(plan[t].slots)
      /\ (n # 1 => Len(q) > 0)
  BY <1>2, <1>3
<1>6. s \in Slots
  BY <1>2, <1>5
<1>7. b \in 0 .. Size(h) - 1 /\ (n = 1 => b \in Homes(h, Key(t)))
  <2>1. CASE n = 1
    BY <1>2, <1>4, <2>1, HomeFacts
  <2>2. CASE n # 1
    BY <1>2, <1>5, <2>2, HomeFacts
  <2> QED BY <2>1, <2>2
<1>8. e # NoElem => e[1] \in Keys /\ b \in Homes(h, e[1])
  <2> HIDE DEF b, s
  <2> QED BY <1>1, <1>6, <1>7, LookFacts
<1>9. y \in PItems(h) /\ y.b = b /\ y.k = IF e = NoElem THEN Absent ELSE e[1]
  BY <1>6, <1>7, <1>8 DEF PItems
<1>10. n # 1 => b = AltOf(h, q[Len(q)].k, q[Len(q)].b)
  BY <1>5
<1> HIDE DEF y, b, s, e
<1>11. r \in Seq(PItems(h)) /\ Len(r) = n /\ r[n] = y /\ \A i \in 1 .. Len(q) : r[i] = q[i]
  BY <1>3, <1>5, <1>9
<1> HIDE DEF r
<1>12. r[1].b \in Homes(h, Key(t))
  <2>1. CASE n = 1
    BY <1>7, <1>9, <1>11, <2>1
  <2>2. CASE n # 1
    BY <1>3, <1>5, <1>11, <2>2
  <2> QED BY <2>1, <2>2
<1>13. ASSUME NEW i \in 1 .. n - 1
       PROVE  r[i].k \in Keys /\ r[i].b \in Homes(h, r[i].k)
              /\ r[i + 1].b = AltOf(h, r[i].k, r[i].b)
  <2> HIDE DEF n, q, h
  <2>1. CASE i = Len(q)
    BY <1>2, <1>5, <1>9, <1>10, <1>11, <1>13, <2>1
  <2>2. CASE i # Len(q)
    <3>1. i \in 1 .. Len(q) - 1 /\ i \in 1 .. Len(q) /\ i + 1 \in 1 .. Len(q)
      BY <1>5, <1>13, <2>2
    <3> QED BY <1>3, <1>11, <3>1
  <2> QED BY <2>1, <2>2
<1>14. path'[t] = r /\ Key(t)' = Key(t) /\ hp'[t] = h /\ plan'[t] = plan[t]
  BY <1>1 DEF CInv, Locals, Key
<1>15. Linked(t, path[t])'
  <2> HIDE DEF n, h, q
  <2> QED BY <1>11, <1>12, <1>13, <1>14 DEF Linked
<1>16. CASE e = NoElem \/ n = Len(plan[t].slots)
  <2>1. pc'[t] = "move" /\ Wanted(t)' = MoveLocks(t, r)
    BY <1>1, <1>16, AfterGoOn, UnlockedWants
  <2>2. MoveLocks(t, path[t])' = MoveLocks(t, r)
    BY <1>14 DEF MoveLocks
  <2>3. path'[t] # << >>
    BY <1>5, <1>11, <1>14
  <2>4. Moving(t)'
    BY <1>15, <2>1, <2>2, <2>3 DEF Moving
  <2> QED BY <1>1, <1>2, <1>4, <2>1, <2>4 DEF ThreadInv, Ops
<1>17. CASE ~ (e = NoElem \/ n = Len(plan[t].slots))
  <2>1. pc'[t] = "path" /\ Wanted(t)' = LocksOf({AltOf(h, r[n].k, b)})
    BY <1>1, <1>17, AfterGoOn, UnlockedWants
  <2>2. r[n].k = e[1] /\ r[n].b = b /\ r[n].k \in Keys /\ r[n].b \in Homes(h, r[n].k)
    BY <1>8, <1>9, <1>11, <1>17
  <2>3. Len(r) < Len(plan[t].slots) /\ Len(r) + 1 # 1 /\ Len(r) + 1 - 1 = n
    BY <1>2, <1>5, <1>11, <1>17
  <2>4. NextOnPath(t)' = AltOf(h, r[n].k, b)
    BY <1>14, <2>2, <2>3 DEF NextOnPath
  <2>5. Following(t)'
    <3> HIDE DEF n, h, q
    <3> QED BY <1>2, <1>11, <1>14, <1>15, <2>1, <2>2, <2>3, <2>4 DEF Following, h
  <2> QED BY <1>1, <1>2, <1>4, <2>1, <2>5 DEF ThreadInv, Ops
<1> QED BY <1>16, <1>17

LEMMA MoveStepThread ==
  ASSUME CInv, NEW t \in Threads, MoveStep(t)
  PROVE  ThreadInv(t)'
<1> DEFINE q == path[t]
           n == Len(q)
           r == SubSeq(q, 1, n - 1)
           h == hp[t]
<1>1. /\ pc[t] = "move" /\ Ready(t) /\ n > 2 /\ path' = [path EXCEPT ![t] = r]
      /\ GoOn(t, "move", MoveLocks(t, r)) /\ Unlock(t)
      /\ UNCHANGED <<request, hp, moved>>
  BY DEF MoveStep
<1>2. /\ request[t].op = "insert" /\ h \in Nat /\ h >= InitHp /\ request[t] \in Requests
      /\ Linked(t, q)
  BY <1>1 DEF CInv, ThreadInv, Moving
<1>3. /\ q \in Seq(PItems(h)) /\ (n > 0 => q[1].b \in Homes(h, Key(t)))
      /\ \A i \in 1 .. n - 1 :
           /\ q[i].k \in Keys /\ q[i].b \in Homes(h, q[i].k)
           /\ q[i + 1].b = AltOf(h, q[i].k, q[i].b)
  BY <1>2 DEF Linked
<1>4. ~ moved[t]
  BY <1>1 DEF Ready, HasLocks
<1>5. n \in Nat /\ n - 1 \in Nat
  BY <1>1, <1>3
<1>6. r \in Seq(PItems(h)) /\ Len(r) = n - 1 /\ \A i \in 1 .. n - 1 : r[i] = q[i]
  BY <1>1, <1>3, <1>5
<1> HIDE DEF r
<1>7. path'[t] = r /\ Key(t)' = Key(t) /\ hp'[t] = h
  BY <1>1 DEF CInv, Locals, Key
<1>8. Linked(t, path[t])' /\ path'[t] # << >>
  <2>1. \A i \in 1 .. Len(r) - 1 :
          /\ r[i].k \in Keys /\ r[i].b \in Homes(h, r[i].k)
          /\ r[i + 1].b = AltOf(h, r[i].k, r[i].b)
    <3> SUFFICES ASSUME NEW i \in 1 .. Len(r) - 1
                 PROVE  /\ r[i].k \in Keys /\ r[i].b \in Homes(h, r[i].k)
                        /\ r[i + 1].b = AltOf(h, r[i].k, r[i].b)
      OBVIOUS
    <3> HIDE DEF n, h, q
    <3>1. i \in 1 .. n - 1 /\ i + 1 \in 1 .. n - 1
      BY <1>5, <1>6
    <3>2. r[i] = q[i] /\ r[i + 1] = q[i + 1]
      BY <1>6, <3>1
    <3> QED BY <1>3, <3>1, <3>2
  <2>2. r[1].b \in Homes(h, Key(t)) /\ Len(r) > 0
    BY <1>1, <1>3, <1>5, <1>6
  <2>3. r # << >>
    BY <2>2
  <2> HIDE DEF h
  <2> QED BY <1>6, <1>7, <2>1, <2>2, <2>3 DEF Linked
<1>9. pc'[t] = "move" /\ Wanted(t)' = MoveLocks(t, r)
  BY <1>1, AfterGoOn, UnlockedWants
<1>10. MoveLocks(t, path[t])' = MoveLocks(t, r)
  BY <1>7 DEF MoveLocks
<1>11. Moving(t)'
  BY <1>8, <1>9, <1>10 DEF Moving
<1> QED BY <1>1, <1>2, <1>4, <1>9, <1>11 DEF ThreadInv, Ops

------------------------------------------------------------------------------
LEMMA QuietTable ==
  ASSUME CInv, NEW t \in Threads, Apart(t), UNCHANGED <<tableVars, moved>>,
         pc[t] # "fresh", pc'[t] # "fresh"
  PROVE  TableInv'
BY SameSwapping, TableKept DEF CInv

LEMMA StepTable ==
  ASSUME HashesAlways, CInv, NEW t \in Threads, Step(t)
  PROVE  TableInv'
<1>1. Apart(t) /\ Shape
  BY StepApart DEF CInv, LInv
<1>2. CASE Snapshot(t)
  <2>1. pc[t] = "snapshot" /\ UNCHANGED <<tableVars, moved>> /\ \E w : GoOn(t, request[t].op, w)
    BY <1>2 DEF Snapshot
  <2>2. request[t].op \in Ops
    BY <2>1 DEF CInv, LInv, Steady, Asked
  <2>3. pc'[t] # "fresh"
    BY <2>1, <2>2, AfterGoOn DEF Ops
  <2> QED BY <1>1, <2>1, <2>3, QuietTable
<1>3. CASE Lock(t)
  <2>1. UNCHANGED <<tableVars, moved>> /\ UNCHANGED pc
    BY <1>3 DEF Lock
  <2>2. Swapping' <=> Swapping
    BY <2>1 DEF Swapping
  <2> QED BY <2>1, <2>2, TableKept DEF CInv
<1>4. CASE HashpowerChanged(t)
  <2>1. UNCHANGED <<tableVars, moved>> /\ GoOn(t, "snapshot", {}) /\ Held(t) = {} /\ want[t] # {}
    BY <1>4 DEF HashpowerChanged, Stale, NextLockFree
  <2>2. pc[t] # "fresh"
    BY <2>1, LocksAreNat DEF CInv, LInv, Steady, Doubling
  <2>3. pc'[t] # "fresh"
    BY <2>1, AfterGoOn
  <2> QED BY <1>1, <2>1, <2>2, <2>3, QuietTable
<1>5. CASE RehashLock(t)
  BY <1>5, RehashLockTable
<1>6. CASE decrement_num_remaining_lazy_rehash_locks(t)
  BY <1>6, DecrementTable
<1>7. CASE find_fn(t)
  <2>1. pc[t] = "find" /\ UNCHANGED tableVars /\ \E a : Returns(t, a)
    BY <1>7 DEF find_fn
  <2>2. UNCHANGED moved /\ pc'[t] # "fresh"
    BY <2>1, ReturnsApart, AfterGoOn DEF CInv
  <2> QED BY <1>1, <2>1, <2>2, QuietTable
<1>8. CASE erase_fn(t)
  BY <1>8, EraseTable
<1>9. CASE InsertHere(t)
  BY <1>9, InsertHereTable
<1>10. CASE InsertMakesRoom(t) \/ MoveFails(t)
  <2>1. /\ pc[t] \in {"insert", "move"} /\ UNCHANGED <<tableVars, moved>>
        /\ \E w : GoOn(t, "search", w)
    BY <1>10 DEF InsertMakesRoom, MoveFails, RunCuckoo
  <2>2. pc'[t] # "fresh"
    BY <2>1, AfterGoOn
  <2> QED BY <1>1, <2>1, <2>2, QuietTable
<1>11. CASE SlotSearch(t)
  <2>1. /\ pc[t] = "search" /\ UNCHANGED <<tableVars, moved>>
        /\ \E l \in {"path", "double", "search"} : \E w : GoOn(t, l, w)
    BY <1>11 DEF SlotSearch
  <2>2. pc'[t] # "fresh"
    BY <2>1, AfterGoOn
  <2> QED BY <1>1, <2>1, <2>2, QuietTable
<1>12. CASE CuckooPath(t)
  <2>1. /\ pc[t] = "path" /\ UNCHANGED <<tableVars, moved>>
        /\ \E l \in {"path", "move"} : \E w : GoOn(t, l, w)
    BY <1>12 DEF CuckooPath
  <2>2. pc'[t] # "fresh"
    BY <2>1, AfterGoOn
  <2> QED BY <1>1, <2>1, <2>2, QuietTable
<1>13. CASE MoveStep(t)
  BY <1>13, MoveStepTable
<1>14. CASE InsertAfterMove(t)
  BY <1>14, InsertAfterMoveTable
<1>15. CASE DoubleThrows(t)
  <2>1. pc[t] = "double" /\ UNCHANGED tableVars /\ \E a : Returns(t, a)
    BY <1>15 DEF DoubleThrows, AllHeld
  <2>2. UNCHANGED moved /\ pc'[t] # "fresh"
    BY <2>1, ReturnsApart, AfterGoOn DEF CInv
  <2> QED BY <1>1, <2>1, <2>2, QuietTable
<1>16. CASE DoubledByOther(t)
  <2>1. pc[t] = "double" /\ UNCHANGED <<tableVars, moved>> /\ GoOn(t, "snapshot", {})
    BY <1>16 DEF DoubledByOther, AllHeld
  <2>2. pc'[t] # "fresh"
    BY <2>1, AfterGoOn
  <2> QED BY <1>1, <2>1, <2>2, QuietTable
<1>17. CASE SwapBuckets(t)
  BY <1>17, SwapTable
<1>18. CASE FreshBuckets(t)
  BY <1>18, FreshTable
<1> QED BY <1>2, <1>3, <1>4, <1>5, <1>6, <1>7, <1>8, <1>9, <1>10, <1>11, <1>12, <1>13,
           <1>14, <1>15, <1>16, <1>17, <1>18 DEF Step

LEMMA StepThread ==
  ASSUME HashesAlways, CInv, NEW t \in Threads, Step(t)
  PROVE  ThreadInv(t)'
<1>1. CASE Snapshot(t)
  BY <1>1, SnapshotThread
<1>2. CASE Lock(t)
  BY <1>2, LockThread
<1>3. CASE HashpowerChanged(t)
  <2>1. /\ UNCHANGED <<request, hp, moved>> /\ GoOn(t, "snapshot", {})
        /\ Held(t) = {} /\ want[t] # {}
    BY <1>3 DEF HashpowerChanged, Stale, NextLockFree
  <2>2. ~ moved[t] /\ pc[t] # "idle"
    BY <2>1 DEF CInv, ThreadInv, LInv, Steady, Unlocked
  <2> QED BY <2>1, <2>2, RestsInv
<1>4. CASE RehashLock(t) \/ decrement_num_remaining_lazy_rehash_locks(t)
  BY <1>4, MigrateThread
<1>5. CASE find_fn(t) \/ erase_fn(t) \/ InsertHere(t) \/ InsertAfterMove(t)
  <2>1. pc[t] # "idle" /\ ~ moved[t] /\ \E a : Returns(t, a)
    BY <1>5 DEF find_fn, erase_fn, InsertHere, InsertAfterMove, Ready, HasLocks
  <2> QED BY <2>1, ReturnsInv
<1>6. CASE InsertMakesRoom(t) \/ MoveFails(t)
  <2>1. /\ pc[t] \in {"insert", "move"} /\ Ready(t) /\ RunCuckoo(t)
        /\ UNCHANGED <<request, moved, hp>>
    BY <1>6 DEF InsertMakesRoom, MoveFails
  <2> QED BY <2>1, RunCuckooThread
<1>7. CASE SlotSearch(t)
  BY <1>7, SlotSearchThread
<1>8. CASE CuckooPath(t)
  BY <1>8, CuckooPathThread
<1>9. CASE MoveStep(t)
  BY <1>9, MoveStepThread
<1>10. CASE DoubleThrows(t)
  <2>1. pc[t] = "double" /\ \E a : Returns(t, a)
    BY <1>10 DEF DoubleThrows, AllHeld
  <2>2. ~ moved[t]
    BY <2>1 DEF CInv, ThreadInv
  <2> QED BY <2>1, <2>2, ReturnsInv
<1>11. CASE DoubledByOther(t) \/ FreshBuckets(t)
  <2>1. /\ pc[t] \in {"double", "fresh"} /\ UNCHANGED <<request, hp, moved>>
        /\ GoOn(t, "snapshot", {})
    BY <1>11 DEF DoubledByOther, FreshBuckets, AllHeld
  <2>2. ~ moved[t]
    BY <2>1 DEF CInv, ThreadInv
  <2> QED BY <2>1, <2>2, RestsInv
<1>12. CASE SwapBuckets(t)
  <2>1. /\ pc[t] = "double" /\ UNCHANGED <<request, hp, moved>> /\ GoOn(t, "fresh", {})
        /\ hashpower = hp[t] /\ old_hashpower' = hashpower
    BY <1>12 DEF SwapBuckets, AllHeld
  <2>2. ~ moved[t] /\ request[t] \in Requests /\ request[t].op = "insert"
        /\ hp[t] \in Nat /\ hp[t] >= InitHp
    BY <2>1 DEF CInv, ThreadInv
  <2>3. pc'[t] = "fresh"
    BY <2>1, AfterGoOn
  <2> QED BY <2>1, <2>2, <2>3 DEF ThreadInv, Ops
<1> QED BY <1>1, <1>2, <1>3, <1>4, <1>5, <1>6, <1>7, <1>8, <1>9, <1>10, <1>11, <1>12 DEF Step

LEMMA OldHashpowerKept ==
  ASSUME CInv, NEW t \in Threads, Step(t), NEW u \in Threads \ {t}, pc[u] = "fresh"
  PROVE  UNCHANGED old_hashpower
<1>1. CASE SwapBuckets(t)
  <2>1. Held(t) = Locks /\ Held(u) = Locks
    BY <1>1 DEF SwapBuckets, AllHeld, CInv, LInv, Steady, Doubling
  <2> QED BY <2>1, Alone, LocksAreNat DEF CInv, LInv
<1>2. CASE ~ SwapBuckets(t)
  BY <1>2 DEF Step, Snapshot, Lock, HashpowerChanged, RehashLock,
     decrement_num_remaining_lazy_rehash_locks, find_fn, erase_fn, InsertHere,
     InsertMakesRoom, SlotSearch, CuckooPath, MoveFails, MoveStep, InsertAfterMove,
     DoubleThrows, DoubledByOther, FreshBuckets, tableVars
<1> QED BY <1>1, <1>2

LEMMA StepCInv ==
  ASSUME HashesAlways, CInv, NEW t \in Threads, Step(t)
  PROVE  CInv'
<1>1. LInv' /\ TableInv' /\ Apart(t)
  BY StepInv, StepTable, StepApart DEF CInv
<1>2. Locals'
  BY <1>1, ApartLocals
<1>3. ASSUME NEW u \in Threads PROVE ThreadInv(u)'
  <2>1. CASE u = t
    BY <2>1, StepThread
  <2>2. CASE u # t
    BY <1>1, <2>2, OldHashpowerKept, OtherThreads DEF CInv
  <2> QED BY <2>1, <2>2
<1> QED BY <1>1, <1>2, <1>3 DEF CInv

LEMMA CallCInv ==
  ASSUME CInv, NEW t \in Threads, NEW r \in Workload, Call(t, r)
  PROVE  CInv'
<1>1. LInv' /\ Apart(t)
  BY CallInv, CallApart DEF CInv
<1>2. /\ pc[t] = "idle" /\ UNCHANGED <<tableVars, moved>> /\ GoOn(t, "snapshot", {})
      /\ request' = [request EXCEPT ![t] = r] /\ UNCHANGED <<holder, hp>>
  BY DEF Call
<1>3. pc'[t] = "snapshot" /\ request'[t] = r /\ ~ moved'[t] /\ r \in Requests
  BY <1>2, AfterGoOn, WorkloadAssumption DEF CInv, LInv, Shape, ThreadInv
<1>4. TableInv'
  BY <1>1, <1>2, <1>3, QuietTable
<1>5. ThreadInv(t)'
  BY <1>3 DEF ThreadInv, Ops
<1>6. \A u \in Threads : ThreadInv(u)'
  <2>1. UNCHANGED old_hashpower
    BY <1>2 DEF tableVars
  <2> QED BY <1>1, <1>5, <2>1, OtherThreads DEF CInv
<1>7. Locals'
  BY <1>1, ApartLocals
<1> QED BY <1>1, <1>4, <1>6, <1>7 DEF CInv

LEMMA StutterCInv ==
  ASSUME CInv, UNCHANGED vars
  PROVE  CInv'
<1>1. /\ UNCHANGED <<tableVars, moved, holder, pc, request, hp, want>>
      /\ UNCHANGED <<queue, plan, path>>
  BY DEF vars, searchVars
<1>2. LInv'
  BY <1>1, KeepsInv DEF CInv, tableVars
<1>3. TableInv'
  <2>1. Swapping' <=> Swapping
    BY <1>1 DEF Swapping
  <2> QED BY <1>1, <2>1, TableKept DEF CInv
<1>4. Locals'
  BY <1>1 DEF CInv, Locals
<1>5. ASSUME NEW t \in Threads PROVE ThreadInv(t)'
  <2>1. Held(t)' = Held(t) /\ Wanted(t)' = Wanted(t) /\ ThreadInv(t)
    BY <1>1 DEF Held, Wanted, CInv
  <2>2. UNCHANGED <<request, pc, hp, queue, plan, path, old_hashpower>>
    BY <1>1 DEF tableVars
  <2>3. moved'[t] => Held(t)' # {} /\ pc[t] \notin {"idle", "snapshot", "double", "fresh"}
    BY <1>1, <2>1 DEF ThreadInv
  <2> QED BY <2>1, <2>2, <2>3, SameThread
<1> QED BY <1>2, <1>3, <1>4, <1>5 DEF CInv

LEMMA InitCInv ==
  ASSUME Init
  PROVE  CInv
<1>1. LInv
  BY InitInv
<1>2. Locals
  BY DEF Init, Locals
<1>3. ~ Swapping /\ Unmigrated = {} /\ Movers = {}
  BY DEF Init, Swapping, Unmigrated, Movers
<1>4. Good(buckets, hashpower)
  <2>1. PICK at \in Preloads, v \in Vals :
          buckets = [p \in Positions(InitHp) |-> IF p \in DOMAIN at THEN <<at[p], v>> ELSE NoElem]
    BY DEF Init
  <2>2. hashpower = InitHp /\ InitHp \in Nat
    BY SlotsAssumption DEF Init
  <2>3. /\ DOMAIN at \subseteq Positions(InitHp) /\ \A p \in DOMAIN at : at[p] \in Keys
        /\ \A p \in DOMAIN at : p[1] \in Homes(InitHp, at[p])
        /\ \A p, q \in DOMAIN at : at[p] = at[q] => p = q
    BY PreloadsAssumption
  <2>4. /\ buckets \in [Positions(InitHp) -> Elem \cup {NoElem}]
        /\ \A p \in Positions(InitHp) :
             buckets[p] # NoElem => p \in DOMAIN at /\ buckets[p][1] = at[p]
    BY <2>1, <2>3 DEF Elem, NoElem
  <2> QED BY <2>2, <2>3, <2>4 DEF Good
<1>5. Fits(buckets, Unmigrated)
  <2>1. OldElems({}) = {}
    BY DEF OldElems
  <2> QED BY <1>3, <1>4, <2>1 DEF Fits
<1>6. TableInv
  <2>1. IsFiniteSet({}) /\ Cardinality({}) = 0
    BY FS_EmptySet
  <2>2. remaining = 0 /\ is_migrated \in [Locks -> BOOLEAN]
    BY DEF Init
  <2> QED BY <1>3, <1>5, <2>1, <2>2 DEF TableInv, Growing
<1>7. ASSUME NEW t \in Threads PROVE ThreadInv(t)
  BY DEF Init, ThreadInv, Ops
<1> QED BY <1>1, <1>2, <1>6, <1>7 DEF CInv

THEOREM SpecCInv ==
  ASSUME HashesAlways
  PROVE  Spec => []CInv
<1>1. CInv /\ [Next]_vars => CInv'
  BY CallCInv, StepCInv, StutterCInv DEF Next
<1>2. Init => CInv
  BY InitCInv
<1> QED BY <1>1, <1>2, PTL DEF Spec

------------------------------------------------------------------------------
KeysOf(bk, S) == {bk[p][1] : p \in S}

LEMMA PositionsFinite ==
  ASSUME NEW n \in Nat
  PROVE  IsFiniteSet(Positions(n))
<1>1. Size(n) \in Nat
  BY SizeFacts
<1>2. IsFiniteSet(0 .. Size(n) - 1) /\ IsFiniteSet(Slots)
  BY <1>1, FS_Interval, SlotsAreNat
<1> QED BY <1>2, FS_Product DEF Positions

LEMMA KeysCounted ==
  ASSUME NEW bk, NEW n, Good(bk, n), NEW S \in SUBSET Positions(n),
         \A p \in S : bk[p] # NoElem
  PROVE  IsFiniteSet(KeysOf(bk, S)) /\ Cardinality(KeysOf(bk, S)) = Cardinality(S)
<1> DEFINE K == {bk[p][1] : p \in S}
           f == [p \in S |-> bk[p][1]]
<1>1. IsFiniteSet(S)
  BY PositionsFinite, FS_Subset DEF Good
<1>2. \A p, q \in S : bk[p][1] = bk[q][1] => p = q
  BY DEF Good
<1>3. f \in Surjection(S, K)
  <2>1. f \in [S -> K] /\ \A k \in K : \E p \in S : f[p] = k
    OBVIOUS
  <2> HIDE DEF f, K
  <2> QED BY <2>1 DEF Surjection
<1>4. f \in Injection(S, K)
  <2>1. f \in [S -> K] /\ \A p, q \in S : f[p] = f[q] => p = q
    BY <1>2
  <2>2. DOMAIN f = S
    OBVIOUS
  <2> HIDE DEF f, K
  <2> QED BY <2>1, <2>2 DEF Injection, IsInjective
<1> HIDE DEF f, K
<1>5. IsFiniteSet(K) /\ Cardinality(K) = Cardinality(S)
  BY <1>1, <1>3, <1>4, FS_Surjection
<1> QED BY <1>5 DEF K, KeysOf

(* The two arrays, whichever of them hold elements.                        *)
LEMMA ArrayFacts ==
  ASSUME HashesAlways, CInv
  PROVE  /\ NewElems # {} => Good(buckets, hashpower)
         /\ Unmoved # {} => Good(old_buckets, old_hashpower)
         /\ \A p \in NewElems : p \in Positions(hashpower) /\ buckets[p] # NoElem
         /\ \A p \in Unmoved : p \in Positions(old_hashpower) /\ old_buckets[p] # NoElem
         /\ \A p \in NewElems, q \in Unmoved : buckets[p][1] # old_buckets[q][1]
<1>1. CASE Swapping
  <2>1. buckets = << >> /\ Good(old_buckets, old_hashpower)
    BY <1>1 DEF CInv, TableInv, Between
  <2>2. NewElems = {}
    BY <2>1 DEF NewElems
  <2>3. \A p \in Unmoved : p \in Positions(old_hashpower) /\ old_buckets[p] # NoElem
    BY <2>1, OldElemFacts DEF Unmoved
  <2> QED BY <2>1, <2>2, <2>3
<1>2. CASE ~ Swapping
  <2>1. Fits(buckets, Unmigrated) /\ Unmoved = OldElems(Unmigrated)
    BY <1>2 DEF CInv, TableInv, Growing, Unmoved
  <2>2. Good(buckets, hashpower)
        /\ \A p \in NewElems : p \in Positions(hashpower) /\ buckets[p] # NoElem
    BY <2>1 DEF Fits, Good, NewElems
  <2>3. \A p \in NewElems, q \in Unmoved : buckets[p][1] # old_buckets[q][1]
    BY <2>1, <2>2 DEF Fits
  <2>4. CASE Unmoved = {}
    BY <2>2, <2>3, <2>4
  <2>5. CASE Unmoved # {}
    <3>1. Unmigrated # {}
      BY <2>1, <2>5 DEF OldElems
    <3>2. Good(old_buckets, old_hashpower)
      BY <1>2, <3>1, OldMeansHalf DEF CInv, Half
    <3>3. \A p \in Unmoved : p \in Positions(old_hashpower) /\ old_buckets[p] # NoElem
      BY <2>1, <3>2, OldElemFacts
    <3> QED BY <2>2, <2>3, <3>2, <3>3
  <2> QED BY <2>4, <2>5
<1> QED BY <1>1, <1>2

LEMMA KeysAreOnce ==
  ASSUME HashesAlways, CInv
  PROVE  KeyOnce
<1> DEFINE A == KeysOf(buckets, NewElems)
           B == KeysOf(old_buckets, Unmoved)
<1>1. IsFiniteSet({}) /\ Cardinality({}) = 0
  BY FS_EmptySet
<1>2. IsFiniteSet(A) /\ Cardinality(A) = Cardinality(NewElems)
  <2>1. CASE NewElems = {}
    <3>1. A = {}
      BY <2>1 DEF KeysOf
    <3> QED BY <1>1, <2>1, <3>1
  <2>2. CASE NewElems # {}
    <3>1. /\ Good(buckets, hashpower) /\ NewElems \in SUBSET Positions(hashpower)
          /\ \A p \in NewElems : buckets[p] # NoElem
      BY <2>2, ArrayFacts
    <3> QED BY <3>1, KeysCounted
  <2> QED BY <2>1, <2>2
<1>3. IsFiniteSet(B) /\ Cardinality(B) = Cardinality(Unmoved)
  <2>1. CASE Unmoved = {}
    <3>1. B = {}
      BY <2>1 DEF KeysOf
    <3> QED BY <1>1, <2>1, <3>1
  <2>2. CASE Unmoved # {}
    <3>1. /\ Good(old_buckets, old_hashpower) /\ Unmoved \in SUBSET Positions(old_hashpower)
          /\ \A p \in Unmoved : old_buckets[p] # NoElem
      BY <2>2, ArrayFacts
    <3> QED BY <3>1, KeysCounted
  <2> QED BY <2>1, <2>2
<1>4. A \cap B = {}
  BY ArrayFacts DEF KeysOf
<1>5. {e[1] : e \in Elements} = A \cup B
  BY DEF Elements, KeysOf
<1> HIDE DEF A, B
<1>6. Cardinality(A \cup B) = Cardinality(A) + Cardinality(B)
  <2>1. Cardinality(A) \in Nat /\ Cardinality(B) \in Nat
    BY <1>2, <1>3, FS_CardinalityType
  <2>2. Cardinality(A \cup B) = Cardinality(A) + Cardinality(B) - Cardinality(A \cap B)
    BY <1>2, <1>3, FS_Union
  <2>3. Cardinality(A \cap B) = 0
    BY <1>1, <1>4
  <2> QED BY <2>1, <2>2, <2>3
<1>7. \A p \in NewElems : p[1] \in Homes(hashpower, buckets[p][1])
  BY ArrayFacts, ElemFacts
<1>8. \A p \in Unmoved : p[1] \in Homes(old_hashpower, old_buckets[p][1])
  BY ArrayFacts, ElemFacts
<1> QED BY <1>2, <1>3, <1>5, <1>6, <1>7, <1>8 DEF KeyOnce

LEMMA RehashIsAsserted ==
  ASSUME HashesAlways, CInv
  PROVE  RehashAsserts
<1>1. remaining = Cardinality(Unmigrated) + Cardinality({t \in Threads : moved[t]})
  BY DEF CInv, TableInv, Movers
<1>2. remaining > 0 => old_buckets # << >> /\ old_hashpower + 1 = hashpower
  <2> SUFFICES ASSUME remaining > 0
               PROVE  old_buckets # << >> /\ old_hashpower + 1 = hashpower
    OBVIOUS
  <2>1. ~ Swapping
    BY DEF CInv, TableInv, Between
  <2>2. Half
    BY <2>1 DEF CInv, TableInv, Growing
  <2>3. DOMAIN old_buckets = Positions(old_hashpower) /\ old_hashpower \in Nat
    BY <2>2 DEF Half, Good
  <2>4. <<0, 0>> \in Positions(old_hashpower)
    BY <2>3, SizeFacts, SlotsAssumption DEF Positions, Slots
  <2>5. DOMAIN << >> = {}
    OBVIOUS
  <2> QED BY <2>2, <2>3, <2>4, <2>5 DEF Half
<1>3. ASSUME ~ Swapping, NEW p \in OldElems(Unmigrated)
      PROVE  /\ buckets[NewPosition(p)] = NoElem
             /\ \A q \in OldElems(Unmigrated) \ {p} : NewPosition(q) # NewPosition(p)
  <2>1. Unmigrated # {}
    BY <1>3 DEF OldElems
  <2>2. Half /\ Fits(buckets, Unmigrated)
    BY <1>3, <2>1, OldMeansHalf DEF CInv, TableInv, Growing
  <2>3. \A q \in OldElems(Unmigrated) : q \in OldElems(Locks) /\ lock_ind(q[1]) \in Unmigrated
    BY <2>2, OldElemFacts DEF Half
  <2>4. NewPosition(p) \in Positions(hashpower) /\ lock_ind(NewPosition(p)[1]) \in Unmigrated
    BY <1>3, <2>2, <2>3, NewPositionFacts DEF Half
  <2>5. buckets[NewPosition(p)] = NoElem
    BY <2>2, <2>4 DEF Fits
  <2>6. \A q \in OldElems(Unmigrated) \ {p} : NewPosition(q) # NewPosition(p)
    BY <1>3, <2>2, <2>3, NewPositionInjective DEF Half
  <2> QED BY <2>5, <2>6
<1> QED BY <1>1, <1>2, <1>3 DEF RehashAsserts

(* No cuckoo move, migration, doubling or insertion of any number of       *)
(* threads leaves a key in the table twice or out of its two buckets       *)
(* (cuckoo_insert's second look, cuckoopath_move's checks, move_bucket).   *)
THEOREM SpecKeyOnce ==
  ASSUME HashesAlways
  PROVE  Spec => []KeyOnce
<1>1. CInv => KeyOnce
  BY KeysAreOnce
<1> QED BY <1>1, SpecCInv, PTL

(* The assertions of the lazy migration: an unmigrated lock still has its  *)
(* old buckets, half as many as the new ones, every element finds its slot *)
(* free, and num_remaining_lazy_rehash_locks_ counts what is left.         *)
THEOREM SpecRehashAsserts ==
  ASSUME HashesAlways
  PROVE  Spec => []RehashAsserts
<1>1. CInv => RehashAsserts
  BY RehashIsAsserted
<1> QED BY <1>1, SpecCInv, PTL

------------------------------------------------------------------------------
(***************************************************************************)
(* The contents: what the steps do to the set of elements.                 *)
(***************************************************************************)
ElemsIn(bk) == {bk[p] : p \in {q \in DOMAIN bk : bk[q] # NoElem}}
OldOf(U) == {old_buckets[p] : p \in OldElems(U)}

ContentsOf(E) ==
  [k \in Keys |->
     IF \E e \in E : e[1] = k THEN (CHOOSE e \in E : e[1] = k)[2] ELSE Absent]

Single(E) == E \subseteq Elem /\ \A e, f \in E : e[1] = f[1] => e = f

LEMMA ContentsAre == contents = ContentsOf(Elements)
BY DEF contents, ContentsOf

LEMMA ElemParts ==
  ASSUME NEW e \in Elem
  PROVE  e = <<e[1], e[2]>> /\ e[1] \in Keys /\ e[2] \in Vals
BY DEF Elem

LEMMA ContentsAt ==
  ASSUME NEW E, Single(E)
  PROVE  /\ \A e \in E : ContentsOf(E)[e[1]] = e[2]
         /\ \A k \in Keys : (\A e \in E : e[1] # k) => ContentsOf(E)[k] = Absent
         /\ ContentsOf(E) \in [Keys -> Vals \cup {Absent}]
<1>1. ASSUME NEW e \in E PROVE ContentsOf(E)[e[1]] = e[2]
  <2>1. e[1] \in Keys
    BY ElemParts DEF Single
  <2>2. (CHOOSE f \in E : f[1] = e[1]) = e
    <3>1. (CHOOSE f \in E : f[1] = e[1]) \in E /\ (CHOOSE f \in E : f[1] = e[1])[1] = e[1]
      OBVIOUS
    <3> QED BY <3>1 DEF Single
  <2> QED BY <2>1, <2>2 DEF ContentsOf
<1>2. ASSUME NEW k \in Keys, \A e \in E : e[1] # k PROVE ContentsOf(E)[k] = Absent
  BY <1>2 DEF ContentsOf
<1>3. ASSUME NEW k \in Keys PROVE ContentsOf(E)[k] \in Vals \cup {Absent}
  <2>1. CASE \E e \in E : e[1] = k
    <3>1. PICK e \in E : e[1] = k
      BY <2>1
    <3> QED BY <1>1, <3>1, ElemParts DEF Single
  <2>2. CASE ~ \E e \in E : e[1] = k
    BY <1>2, <2>2
  <2> QED BY <2>1, <2>2
<1>4. DOMAIN ContentsOf(E) = Keys /\ ContentsOf(E) = [k \in Keys |-> ContentsOf(E)[k]]
  BY DEF ContentsOf
<1> QED BY <1>1, <1>2, <1>3, <1>4

LEMMA ContentsAdd ==
  ASSUME NEW E, Single(E), NEW x \in Elem, \A e \in E : e[1] # x[1]
  PROVE  /\ Single(E \cup {x})
         /\ ContentsOf(E \cup {x}) = [ContentsOf(E) EXCEPT ![x[1]] = x[2]]
         /\ ContentsOf(E)[x[1]] = Absent
<1> DEFINE F == E \cup {x}
           c == ContentsOf(E)
           d == [c EXCEPT ![x[1]] = x[2]]
<1>1. Single(F)
  BY DEF Single
<1>2. x[1] \in Keys
  BY ElemParts
<1>3. /\ \A e \in F : ContentsOf(F)[e[1]] = e[2]
      /\ \A k \in Keys : (\A e \in F : e[1] # k) => ContentsOf(F)[k] = Absent
      /\ ContentsOf(F) \in [Keys -> Vals \cup {Absent}]
  BY <1>1, ContentsAt
<1>4. /\ \A e \in E : c[e[1]] = e[2]
      /\ \A k \in Keys : (\A e \in E : e[1] # k) => c[k] = Absent
      /\ c \in [Keys -> Vals \cup {Absent}]
  BY ContentsAt
<1> HIDE DEF c
<1>5. ASSUME NEW k \in Keys PROVE ContentsOf(F)[k] = d[k]
  <2>1. d[k] = IF k = x[1] THEN x[2] ELSE c[k]
    BY <1>4
  <2>2. CASE k = x[1]
    BY <1>3, <2>1, <2>2
  <2>3. CASE k # x[1] /\ \E e \in E : e[1] = k
    BY <1>3, <1>4, <2>1, <2>3
  <2>4. CASE k # x[1] /\ ~ \E e \in E : e[1] = k
    BY <1>3, <1>4, <2>1, <2>4
  <2> QED BY <2>2, <2>3, <2>4
<1>6. DOMAIN d = Keys /\ d = [k \in Keys |-> d[k]]
  BY <1>4
<1> HIDE DEF d, F
<1>7. ContentsOf(F) = d
  BY <1>3, <1>5, <1>6
<1>8. c[x[1]] = Absent
  BY <1>2, <1>4
<1> QED BY <1>1, <1>7, <1>8 DEF F, d, c

LEMMA ContentsDrop ==
  ASSUME NEW E, Single(E), NEW x \in E
  PROVE  /\ Single(E \ {x})
         /\ ContentsOf(E \ {x}) = [ContentsOf(E) EXCEPT ![x[1]] = Absent]
<1> DEFINE F == E \ {x}
           c == ContentsOf(E)
           d == [c EXCEPT ![x[1]] = Absent]
<1>1. Single(F) /\ \A e \in F : e[1] # x[1]
  BY DEF Single
<1>2. x[1] \in Keys
  BY ElemParts DEF Single
<1>3. /\ \A e \in F : ContentsOf(F)[e[1]] = e[2]
      /\ \A k \in Keys : (\A e \in F : e[1] # k) => ContentsOf(F)[k] = Absent
      /\ ContentsOf(F) \in [Keys -> Vals \cup {Absent}]
  BY <1>1, ContentsAt
<1>4. /\ \A e \in E : c[e[1]] = e[2]
      /\ \A k \in Keys : (\A e \in E : e[1] # k) => c[k] = Absent
      /\ c \in [Keys -> Vals \cup {Absent}]
  BY ContentsAt
<1> HIDE DEF c
<1>5. ASSUME NEW k \in Keys PROVE ContentsOf(F)[k] = d[k]
  <2>1. d[k] = IF k = x[1] THEN Absent ELSE c[k]
    BY <1>4
  <2>2. CASE k = x[1]
    BY <1>1, <1>3, <2>1, <2>2
  <2>3. CASE k # x[1] /\ \E e \in E : e[1] = k
    BY <1>3, <1>4, <2>1, <2>3
  <2>4. CASE k # x[1] /\ ~ \E e \in E : e[1] = k
    BY <1>3, <1>4, <2>1, <2>4
  <2> QED BY <2>2, <2>3, <2>4
<1>6. DOMAIN d = Keys /\ d = [k \in Keys |-> d[k]]
  BY <1>4
<1> HIDE DEF d, F
<1>7. ContentsOf(F) = d
  BY <1>3, <1>5, <1>6
<1> QED BY <1>1, <1>7 DEF F, d, c

LEMMA ElementsAre ==
  ASSUME HashesAlways, CInv
  PROVE  /\ Swapping => Elements = ElemsIn(old_buckets)
         /\ ~ Swapping => Elements = ElemsIn(buckets) \cup OldOf(Unmigrated)
         /\ Single(Elements)
<1>1. Elements = ElemsIn(buckets) \cup {old_buckets[p] : p \in Unmoved}
  BY DEF Elements, ElemsIn, NewElems
<1>2. ASSUME Swapping PROVE Elements = ElemsIn(old_buckets)
  <2>1. buckets = << >> /\ Good(old_buckets, old_hashpower)
    BY <1>2 DEF CInv, TableInv, Between
  <2>2. ElemsIn(buckets) = {}
    BY <2>1 DEF ElemsIn
  <2>3. Unmoved = {q \in DOMAIN old_buckets : old_buckets[q] # NoElem}
    <3>1. DOMAIN old_buckets = Positions(old_hashpower) /\ old_hashpower \in Nat
          /\ old_hashpower >= InitHp
      BY <2>1 DEF Good
    <3>2. \A p \in DOMAIN old_buckets : lock_ind(p[1]) \in Locks
      BY <3>1, PositionFacts, LockFacts
    <3> QED BY <1>2, <3>2 DEF Unmoved, OldElems
  <2> QED BY <1>1, <2>2, <2>3 DEF ElemsIn
<1>3. ~ Swapping => Elements = ElemsIn(buckets) \cup OldOf(Unmigrated)
  BY <1>1 DEF Unmoved, OldOf
<1>4. ASSUME NEW e \in Elements
      PROVE  \/ \E p \in NewElems : e = buckets[p]
             \/ \E p \in Unmoved : e = old_buckets[p]
  BY DEF Elements
<1>5. \A p \in NewElems : buckets[p] \in Elem
  BY ArrayFacts, ElemFacts
<1>6. \A p \in Unmoved : old_buckets[p] \in Elem
  BY ArrayFacts, ElemFacts
<1>7. \A p, q \in NewElems : buckets[p][1] = buckets[q][1] => p = q
  BY ArrayFacts DEF Good
<1>8. \A p, q \in Unmoved : old_buckets[p][1] = old_buckets[q][1] => p = q
  BY ArrayFacts DEF Good
<1>9. Single(Elements)
  BY <1>4, <1>5, <1>6, <1>7, <1>8, ArrayFacts DEF Single
<1> QED BY <1>2, <1>3, <1>9

LEMMA ClearElems ==
  ASSUME NEW bk, NEW n, Good(bk, n), NEW p \in Positions(n), bk[p] # NoElem
  PROVE  ElemsIn([bk EXCEPT ![p] = NoElem]) = ElemsIn(bk) \ {bk[p]}
<1> DEFINE c == [bk EXCEPT ![p] = NoElem]
<1>1. /\ DOMAIN bk = Positions(n) /\ DOMAIN c = Positions(n)
      /\ \A q \in Positions(n) : c[q] = IF q = p THEN NoElem ELSE bk[q]
      /\ \A q \in Positions(n) : bk[q] # NoElem /\ bk[q] = bk[p] => q = p
  BY DEF Good
<1> HIDE DEF c
<1>2. ElemsIn(c) = ElemsIn(bk) \ {bk[p]}
  BY <1>1 DEF ElemsIn
<1> QED BY <1>2 DEF c

LEMMA PutElems ==
  ASSUME NEW bk, NEW n, Good(bk, n), NEW p \in Positions(n), bk[p] = NoElem,
         NEW e \in Elem
  PROVE  ElemsIn([bk EXCEPT ![p] = e]) = ElemsIn(bk) \cup {e}
<1> DEFINE c == [bk EXCEPT ![p] = e]
<1>1. /\ DOMAIN bk = Positions(n) /\ DOMAIN c = Positions(n)
      /\ \A q \in Positions(n) : c[q] = IF q = p THEN e ELSE bk[q]
  BY DEF Good
<1>2. e # NoElem
  BY DEF Elem, NoElem
<1> HIDE DEF c
<1>3. ElemsIn(c) = ElemsIn(bk) \cup {e}
  BY <1>1, <1>2 DEF ElemsIn
<1> QED BY <1>3 DEF c

LEMMA ShiftElems ==
  ASSUME NEW bk, NEW n, Good(bk, n), NEW p \in Positions(n), NEW q \in Positions(n),
         bk[p] = NoElem, bk[q] # NoElem
  PROVE  ElemsIn([bk EXCEPT ![p] = bk[q], ![q] = NoElem]) = ElemsIn(bk)
<1> DEFINE c == [bk EXCEPT ![p] = bk[q], ![q] = NoElem]
<1>1. /\ DOMAIN bk = Positions(n) /\ DOMAIN c = Positions(n) /\ p # q
      /\ \A r \in Positions(n) :
           c[r] = IF r = q THEN NoElem ELSE IF r = p THEN bk[q] ELSE bk[r]
  BY DEF Good
<1> HIDE DEF c
<1>2. ElemsIn(c) = ElemsIn(bk)
  BY <1>1 DEF ElemsIn
<1> QED BY <1>2 DEF c

LEMMA MovedElems ==
  ASSUME HashesAlways, Half, NEW U, NEW L \in SUBSET U, Fits(buckets, U)
  PROVE  ElemsIn(Moved(L)) = ElemsIn(buckets) \cup OldOf(L)
<1> DEFINE h == hashpower
           m == Moved(L)
<1>1. Good(old_buckets, old_hashpower) /\ old_hashpower + 1 = h
  BY DEF Half
<1>2. /\ Good(buckets, h) /\ DOMAIN buckets = Positions(h)
      /\ \A p \in Positions(h) : lock_ind(p[1]) \in U => buckets[p] = NoElem
  BY DEF Fits, Good
<1>3. /\ DOMAIN m = Positions(h)
      /\ \A q \in OldElems(L) : m[NewPosition(q)] = old_buckets[q]
      /\ \A p \in Positions(h) :
           (\A q \in OldElems(L) : NewPosition(q) # p) => m[p] = buckets[p]
  BY <1>2, MovedIs
<1>4. ASSUME NEW q \in OldElems(L)
      PROVE  /\ NewPosition(q) \in Positions(h) /\ buckets[NewPosition(q)] = NoElem
             /\ old_buckets[q] # NoElem
  <2>1. q \in OldElems(Locks) /\ lock_ind(q[1]) \in U /\ old_buckets[q] # NoElem
    BY <1>1, OldElemFacts
  <2>2. NewPosition(q) \in Positions(h) /\ lock_ind(NewPosition(q)[1]) \in U
    BY <1>1, <2>1, NewPositionFacts
  <2> QED BY <1>2, <2>1, <2>2
<1> HIDE DEF m, h
<1>5. ElemsIn(m) \subseteq ElemsIn(buckets) \cup OldOf(L)
  BY <1>2, <1>3, <1>4 DEF ElemsIn, OldOf
<1>6. OldOf(L) \subseteq ElemsIn(m)
  BY <1>3, <1>4 DEF ElemsIn, OldOf
<1>7. ElemsIn(buckets) \subseteq ElemsIn(m)
  BY <1>2, <1>3, <1>4 DEF ElemsIn
<1> QED BY <1>5, <1>6, <1>7 DEF m

------------------------------------------------------------------------------
(***************************************************************************)
(* CuckooMap implements AtomicMap: a call takes effect when it returns.    *)
(***************************************************************************)
Answers ==
  /\ answer = [t \in Threads |-> answer[t]]
  /\ \A t \in Threads : answer[t] = "pending" <=> pc[t] # "idle"

MInv == CInv /\ Answers

LEMMA HasLock ==
  ASSUME NEW bk, NEW n, Good(bk, n), NEW p \in Positions(n)
  PROVE  lock_ind(p[1]) \in Locks
BY PositionFacts, LockFacts DEF Good

(* What a step does to the elements and to elem_counter.                   *)
AddsOne ==
  \E x \in Elem : \E p :
    /\ lock_ind(p[1]) \in Locks /\ \A e \in Elements : e[1] # x[1]
    /\ Elements' = Elements \cup {x} /\ elem_counter' = Counted(p, 1)

DropsOne ==
  \E x \in Elements : \E p :
    /\ lock_ind(p[1]) \in Locks
    /\ Elements' = Elements \ {x} /\ elem_counter' = Counted(p, -1)

Counts == (Elements' = Elements /\ UNCHANGED elem_counter) \/ AddsOne \/ DropsOne

LEMMA ElementsSplit ==
  /\ Elements = ElemsIn(buckets) \cup OldOf(IF Swapping THEN Locks ELSE Unmigrated)
  /\ Elements' = ElemsIn(buckets') \cup OldOf(IF Swapping THEN Locks ELSE Unmigrated)'
BY DEF Elements, ElemsIn, NewElems, Unmoved, OldOf

LEMMA AllOld ==
  ASSUME NEW bk, NEW n, Good(bk, n)
  PROVE  {p \in DOMAIN bk : lock_ind(p[1]) \in Locks /\ bk[p] # NoElem}
           = {p \in DOMAIN bk : bk[p] # NoElem}
<1>1. DOMAIN bk = Positions(n) /\ n \in Nat /\ n >= InitHp
  BY DEF Good
<1>2. \A p \in DOMAIN bk : lock_ind(p[1]) \in Locks
  BY <1>1, PositionFacts, LockFacts
<1> QED BY <1>2

LEMMA SameContents ==
  ASSUME Elements' = Elements
  PROVE  UNCHANGED contents
<1>1. contents = ContentsOf(Elements) /\ contents' = ContentsOf(Elements')
  BY DEF contents, ContentsOf
<1> QED BY <1>1

LEMMA TableElements ==
  ASSUME UNCHANGED <<buckets, old_buckets, is_migrated>>, Swapping' <=> Swapping
  PROVE  Elements' = Elements
<1>1. \A L : OldElems(L)' = OldElems(L)
  BY DEF OldElems
<1>2. Unmigrated' = Unmigrated
  BY DEF Unmigrated
<1> QED BY <1>1, <1>2 DEF Elements, NewElems, Unmoved

LEMMA RehashLockElements ==
  ASSUME HashesAlways, CInv, NEW t \in Threads, RehashLock(t)
  PROVE  Elements' = Elements
<1> DEFINE l == Lowest(Held(t) \cap Unmigrated)
<1>1. /\ HasLocks(t) /\ pc[t] # "double" /\ pc[t] # "fresh"
      /\ Held(t) \cap Unmigrated # {}
      /\ buckets' = Moved({l}) /\ is_migrated' = [is_migrated EXCEPT ![l] = TRUE]
      /\ UNCHANGED <<old_hashpower, old_buckets, pc>>
  BY DEF RehashLock
<1>2. l \in Held(t) \cap Unmigrated
  <2>1. Held(t) \cap Unmigrated \in SUBSET Nat
    BY LocksAreNat DEF Held
  <2> QED BY <1>1, <2>1, LowestFacts
<1> HIDE DEF l
<1>3. ~ Swapping /\ Half /\ Fits(buckets, Unmigrated)
  BY <1>1, <1>2, NotSwapping, OldMeansHalf DEF CInv, HasLocks, TableInv, Growing
<1>4. ~ Swapping'
  BY <1>1, <1>3 DEF Swapping
<1>5. Unmigrated' = Unmigrated \ {l}
  BY <1>1, <1>2 DEF CInv, TableInv, Unmigrated
<1>6. ElemsIn(Moved({l})) = ElemsIn(buckets) \cup OldOf({l})
  <2>1. {l} \in SUBSET Unmigrated
    BY <1>2
  <2> QED BY <1>3, <2>1, MovedElems
<1>7. OldOf(Unmigrated)' = OldOf(Unmigrated \ {l})
  BY <1>1, <1>5 DEF OldOf, OldElems
<1>8. OldOf(Unmigrated) = OldOf({l}) \cup OldOf(Unmigrated \ {l})
  BY <1>2 DEF OldOf, OldElems
<1> QED BY <1>1, <1>3, <1>4, <1>6, <1>7, <1>8, ElementsSplit

LEMMA DecrementElements ==
  ASSUME HashesAlways, CInv, NEW t \in Threads, decrement_num_remaining_lazy_rehash_locks(t)
  PROVE  Elements' = Elements
<1>1. /\ moved[t]
      /\ old_buckets' = IF remaining = 1 THEN << >> ELSE old_buckets
      /\ UNCHANGED <<buckets, is_migrated, pc>>
  BY DEF decrement_num_remaining_lazy_rehash_locks
<1>2. Swapping' <=> Swapping
  BY <1>1 DEF Swapping
<1>3. CASE remaining # 1
  BY <1>1, <1>2, <1>3, TableElements
<1>4. CASE remaining = 1
  <2>1. /\ IsFiniteSet(Unmigrated) /\ Cardinality(Unmigrated) \in Nat
        /\ IsFiniteSet(Movers) /\ Cardinality(Movers) \in Nat
        /\ remaining = Cardinality(Unmigrated) + Cardinality(Movers)
    BY UnmigratedFacts DEF CInv, TableInv
  <2>2. Movers # {}
    BY <1>1 DEF Movers
  <2>3. Cardinality(Movers) # 0
    BY <2>1, <2>2, FS_EmptySet
  <2>4. Cardinality(Unmigrated) = 0
    BY <1>4, <2>1, <2>3
  <2>5. Unmigrated = {} /\ Unmigrated' = {}
    <3>1. Unmigrated = {}
      BY <2>1, <2>4, FS_EmptySet
    <3> QED BY <1>1, <3>1 DEF Unmigrated
  <2>6. ~ Swapping
    BY <1>4 DEF CInv, TableInv, Between
  <2>7. OldOf(Unmigrated) = {} /\ OldOf(Unmigrated)' = {}
    BY <2>5 DEF OldOf, OldElems
  <2> QED BY <1>1, <1>2, <2>6, <2>7, ElementsSplit
<1> QED BY <1>3, <1>4

LEMMA SwapElements ==
  ASSUME HashesAlways, CInv, NEW t \in Threads, SwapBuckets(t)
  PROVE  Elements' = Elements
<1>1. /\ pc[t] = "double" /\ want[t] = {}
      /\ old_buckets' = Moved(Unmigrated) /\ buckets' = << >>
      /\ GoOn(t, "fresh", {})
  BY DEF SwapBuckets, AllHeld
<1>2. Held(t) = Locks /\ Shape /\ TableInv
  BY <1>1 DEF CInv, LInv, Steady, Doubling
<1>3. ~ Swapping
  BY <1>1, <1>2, LocksAreNat, NotSwapping DEF CInv
<1>4. Swapping'
  BY <1>1, <1>2 DEF Swapping, GoOn, Shape
<1>5. Fits(buckets, Unmigrated)
  BY <1>2, <1>3 DEF TableInv, Growing
<1>6. /\ Good(Moved(Unmigrated), hashpower)
      /\ ElemsIn(Moved(Unmigrated)) = ElemsIn(buckets) \cup OldOf(Unmigrated)
  <2>1. CASE Unmigrated = {}
    <3>1. OldOf({}) = {}
      BY DEF OldOf, OldElems
    <3> QED BY <1>5, <2>1, <3>1, NothingMoved DEF Fits
  <2>2. CASE Unmigrated # {}
    <3>1. Half
      BY <1>2, <1>3, <2>2, OldMeansHalf
    <3>2. Unmigrated \in SUBSET Unmigrated
      OBVIOUS
    <3>3. Fits(Moved(Unmigrated), Unmigrated \ Unmigrated)
      BY <1>5, <3>1, <3>2, MovedFits
    <3>4. ElemsIn(Moved(Unmigrated)) = ElemsIn(buckets) \cup OldOf(Unmigrated)
      BY <1>5, <3>1, <3>2, MovedElems
    <3> QED BY <3>3, <3>4 DEF Fits
  <2> QED BY <2>1, <2>2
<1>7. OldOf(Locks)' = ElemsIn(Moved(Unmigrated))
  <2> DEFINE m == Moved(Unmigrated)
  <2>1. OldOf(Locks)'
          = {m[p] : p \in {q \in DOMAIN m : lock_ind(q[1]) \in Locks /\ m[q] # NoElem}}
    <3> HIDE DEF m
    <3>1. old_buckets' = m
      BY <1>1 DEF m
    <3> QED BY <3>1 DEF OldOf, OldElems
  <2>2. {q \in DOMAIN m : lock_ind(q[1]) \in Locks /\ m[q] # NoElem}
          = {q \in DOMAIN m : m[q] # NoElem}
    <3> HIDE DEF m
    <3>1. Good(m, hashpower)
      BY <1>6 DEF m
    <3> QED BY <3>1, AllOld
  <2> HIDE DEF m
  <2>3. OldOf(Locks)' = ElemsIn(m)
    BY <2>1, <2>2 DEF ElemsIn
  <2> QED BY <2>3 DEF m
<1>8. ElemsIn(buckets') = {}
  <2>1. DOMAIN << >> = {}
    OBVIOUS
  <2> QED BY <1>1, <2>1 DEF ElemsIn
<1> QED BY <1>3, <1>4, <1>6, <1>7, <1>8, ElementsSplit

LEMMA FreshElements ==
  ASSUME HashesAlways, CInv, NEW t \in Threads, FreshBuckets(t)
  PROVE  Elements' = Elements
<1>1. /\ pc[t] = "fresh" /\ buckets' = Empty(hp[t] + 1)
      /\ is_migrated' = [l \in Locks |-> FALSE] /\ UNCHANGED old_buckets
  BY DEF FreshBuckets, AllHeld
<1>2. Swapping /\ Between
  BY <1>1 DEF CInv, TableInv, Swapping
<1>3. ~ Swapping' /\ Unmigrated' = Locks
  BY <1>1, FreshEndsSwap DEF Unmigrated
<1>4. ElemsIn(buckets) = {} /\ ElemsIn(buckets') = {}
  <2>1. DOMAIN << >> = {}
    OBVIOUS
  <2>2. \A q \in DOMAIN buckets' : buckets'[q] = NoElem
    BY <1>1 DEF Empty
  <2> QED BY <1>2, <2>1, <2>2 DEF ElemsIn, Between
<1>5. OldOf(Unmigrated)' = OldOf(Locks)
  BY <1>1, <1>3 DEF OldOf, OldElems
<1> QED BY <1>2, <1>3, <1>4, <1>5, ElementsSplit

(* The elements while t works with its locks.                              *)
LEMMA WorkElements ==
  ASSUME CInv, NEW t \in Threads, Ready(t), pc[t] \notin {"double", "fresh"},
         Apart(t), pc'[t] # "fresh", UNCHANGED <<old_buckets, is_migrated>>
  PROVE  /\ Elements = ElemsIn(buckets) \cup OldOf(Unmigrated)
         /\ Elements' = ElemsIn(buckets') \cup OldOf(Unmigrated)
<1>1. ~ Swapping
  BY ReadyFacts
<1>2. ~ Swapping'
  BY <1>1, SameSwapping
<1>3. OldOf(Unmigrated)' = OldOf(Unmigrated)
  BY DEF OldOf, OldElems, Unmigrated
<1> QED BY <1>1, <1>2, <1>3, ElementsSplit

LEMMA ShiftedElems ==
  ASSUME HashesAlways, CInv, NEW t \in Threads, Ready(t), pc[t] = "move", ~ Scooped(path[t])
  PROVE  ElemsIn(Shifted(path[t])) = ElemsIn(buckets)
<1> DEFINE q == path[t]
           n == Len(q)
<1>1. Good(buckets, hashpower)
  BY ReadyFacts DEF Fits
<1>2. CASE n = 1
  BY <1>2 DEF Shifted
<1>3. CASE n # 1
  <2> DEFINE p == At(q[n])
             r == At(q[n - 1])
  <2>1. n \in Nat /\ n >= 1
    BY MoveFacts
  <2>2. n > 1
    BY <1>3, <2>1
  <2>3. /\ p \in Positions(hashpower) /\ buckets[p] = NoElem
        /\ r \in Positions(hashpower) /\ buckets[r] # NoElem
    BY <2>2, MoveFacts
  <2>4. Shifted(q) = [buckets EXCEPT ![p] = buckets[r], ![r] = NoElem]
    BY <1>3 DEF Shifted
  <2> HIDE DEF p, r, q, n
  <2>5. ElemsIn([buckets EXCEPT ![p] = buckets[r], ![r] = NoElem]) = ElemsIn(buckets)
    BY <1>1, <2>3, ShiftElems
  <2> QED BY <2>4, <2>5 DEF q
<1> QED BY <1>2, <1>3

(* What t finds in the two buckets of its key is what the table has of it. *)
LEMMA KeyPlaces ==
  ASSUME HashesAlways, CInv, NEW t \in Threads, Ready(t), pc[t] \notin {"double", "fresh"},
         NEW bk, Fits(bk, Unmigrated), LocksOf(Homes(hp[t], Key(t))) \subseteq Held(t)
  PROVE  /\ Places(t, bk) = {} => \A e \in ElemsIn(bk) \cup OldOf(Unmigrated) : e[1] # Key(t)
         /\ \A p \in Places(t, bk) : /\ p \in Positions(hashpower) /\ bk[p] # NoElem
                                     /\ bk[p][1] = Key(t) /\ bk[p] \in ElemsIn(bk)
         /\ Key(t) \in Keys
<1> DEFINE k == Key(t)
           h == hashpower
<1>1. /\ ~ Swapping /\ hp[t] = h /\ h \in Nat /\ h >= InitHp
      /\ Held(t) \cap Unmigrated = {} /\ request[t] \in Requests
  BY ReadyFacts
<1>2. k \in Keys
  BY <1>1, RequestFacts DEF Key
<1>3. \A q \in OldElems(Unmigrated) : old_buckets[q][1] # k
  <2>1. LocksOf(Homes(h, k)) \cap Unmigrated = {}
    BY <1>1
  <2> QED BY <1>1, <1>2, <2>1, KeyNotOld DEF CInv
<1>4. DOMAIN bk = Positions(h) /\ \A p \in Positions(h) : bk[p] # NoElem => p[1] \in Homes(h, bk[p][1])
  BY DEF Fits, Good
<1>5. ASSUME Places(t, bk) = {}, NEW q \in Positions(h), bk[q] # NoElem PROVE bk[q][1] # k
  <2> SUFFICES ASSUME bk[q][1] = k PROVE FALSE
    OBVIOUS
  <2>1. q[1] \in Homes(h, k)
    BY <1>4, <1>5
  <2>2. q = <<q[1], q[2]>> /\ q[2] \in Slots
    BY <1>1, PositionFacts
  <2>3. q \in Mine(t)
    BY <1>1, <2>1, <2>2 DEF Mine
  <2> QED BY <1>5, <2>3 DEF Places
<1>6. Homes(h, k) \in SUBSET (0 .. Size(h) - 1)
  BY <1>1, <1>2, HomeFacts
<1>7. ASSUME NEW p \in Places(t, bk)
      PROVE  /\ p \in Positions(h) /\ bk[p] # NoElem /\ bk[p][1] = k /\ bk[p] \in ElemsIn(bk)
  <2>1. p \in Mine(t) /\ bk[p] # NoElem /\ bk[p][1] = k
    BY <1>7 DEF Places
  <2>2. p \in Positions(h)
    BY <1>1, <1>6, <2>1 DEF Mine, Positions
  <2> QED BY <1>4, <2>1, <2>2 DEF ElemsIn
<1> HIDE DEF k, h
<1>8. Places(t, bk) = {} => \A e \in ElemsIn(bk) \cup OldOf(Unmigrated) : e[1] # k
  BY <1>3, <1>4, <1>5 DEF ElemsIn, OldOf
<1> QED BY <1>2, <1>7, <1>8 DEF k, h

LEMMA QuietAnswers ==
  ASSUME MInv, NEW t \in Threads, Apart(t), UNCHANGED answer,
         pc[t] # "idle", pc'[t] # "idle"
  PROVE  Answers'
<1>1. \A u \in Threads : (pc'[u] # "idle") <=> (pc[u] # "idle")
  BY DEF Apart, Kept
<1> QED BY <1>1 DEF MInv, Answers

LEMMA ReturnsAnswers ==
  ASSUME MInv, NEW t \in Threads, NEW a, Returns(t, a), a # "pending"
  PROVE  /\ Answers' /\ answer' = [answer EXCEPT ![t] = a] /\ UNCHANGED request
<1>1. Apart(t) /\ pc'[t] = "idle"
  BY ReturnsApart, AfterGoOn DEF MInv, CInv
<1>2. answer' = [answer EXCEPT ![t] = a] /\ UNCHANGED request
  BY DEF Returns
<1>3. answer'[t] = a /\ \A u \in Threads \ {t} : answer'[u] = answer[u] /\ pc'[u] = pc[u]
  BY <1>1, <1>2 DEF MInv, Answers, Apart, Kept
<1>4. answer' = [u \in Threads |-> answer'[u]]
  BY <1>2 DEF MInv, Answers
<1> QED BY <1>1, <1>2, <1>3, <1>4 DEF MInv, Answers

(* The step of AtomicMap at which t's call takes effect.                   *)
LEMMA TakesEffect ==
  ASSUME MInv, NEW t \in Threads, pc[t] # "idle",
         \/ request[t].op = "insert" /\ (Map!Insert(t, Key(t), request[t].v) \/ Map!InsertThrows(t))
         \/ request[t].op = "erase" /\ Map!Erase(t, Key(t))
         \/ request[t].op = "find" /\ Map!Find(t, Key(t))
  PROVE  Map!Next
<1>1. answer[t] = "pending"
  BY DEF MInv, Answers
<1> QED BY <1>1 DEF Map!Next, Key

LEMMA FindStep ==
  ASSUME HashesAlways, MInv, NEW t \in Threads, find_fn(t)
  PROVE  Map!Next /\ Answers' /\ Counts
<1> DEFINE a == IF Places(t, buckets) = {} THEN Absent
                ELSE buckets[CHOOSE p \in Places(t, buckets) : TRUE][2]
<1>1. pc[t] = "find" /\ Ready(t) /\ Returns(t, a) /\ UNCHANGED tableVars /\ CInv
  BY DEF find_fn, MInv
<1>2. Apart(t) /\ pc'[t] = "idle"
  BY <1>1, ReturnsApart, AfterGoOn DEF CInv
<1>3. UNCHANGED contents /\ Counts
  <2>1. Swapping' <=> Swapping
    BY <1>1, <1>2, SameSwapping
  <2> QED BY <1>1, <2>1, TableElements, SameContents DEF tableVars, Counts
<1>4. request[t].op = "find" /\ Wanted(t) = LocksOf(Homes(hp[t], Key(t)))
  BY <1>1 DEF CInv, ThreadInv, Ops
<1>5. Wanted(t) = Held(t) /\ Fits(buckets, Unmigrated)
  BY <1>1, ReadyFacts
<1>6. Elements = ElemsIn(buckets) \cup OldOf(Unmigrated)
  BY <1>1, <1>2, WorkElements DEF tableVars
<1>7. /\ Places(t, buckets) = {} => \A e \in Elements : e[1] # Key(t)
      /\ \A p \in Places(t, buckets) : buckets[p][1] = Key(t) /\ buckets[p] \in Elements
      /\ Key(t) \in Keys
  BY <1>1, <1>4, <1>5, <1>6, KeyPlaces
<1>8. Single(Elements)
  BY <1>1, ElementsAre
<1>9. /\ \A e \in Elements : contents[e[1]] = e[2]
      /\ \A k \in Keys : (\A e \in Elements : e[1] # k) => contents[k] = Absent
      /\ contents \in [Keys -> Vals \cup {Absent}]
  BY <1>8, ContentsAt, ContentsAre
<1>10. a = contents[Key(t)]
  <2>1. CASE Places(t, buckets) = {}
    BY <1>7, <1>9, <2>1
  <2>2. CASE Places(t, buckets) # {}
    <3> DEFINE p == CHOOSE p \in Places(t, buckets) : TRUE
    <3>1. p \in Places(t, buckets)
      BY <2>2
    <3>2. a = buckets[p][2]
      BY <2>2
    <3> HIDE DEF p, a
    <3> QED BY <1>7, <1>9, <3>1, <3>2
  <2> QED BY <2>1, <2>2
<1>11. a # "pending"
  BY <1>7, <1>9, <1>10, ValsAssumption
<1> HIDE DEF a
<1>12. Answers' /\ answer' = [answer EXCEPT ![t] = a] /\ UNCHANGED request
  BY <1>1, <1>11, ReturnsAnswers
<1>13. Map!Find(t, Key(t))
  BY <1>3, <1>10, <1>12 DEF Map!Find, Map!Takes
<1> QED BY <1>1, <1>3, <1>4, <1>12, <1>13, TakesEffect

LEMMA EraseStep ==
  ASSUME HashesAlways, MInv, NEW t \in Threads, erase_fn(t)
  PROVE  Map!Next /\ Answers' /\ Counts
<1>1. /\ pc[t] = "erase" /\ Ready(t) /\ CInv /\ UNCHANGED <<old_buckets, is_migrated>>
      /\ \E a : Returns(t, a)
  BY DEF erase_fn, MInv
<1>2. Apart(t) /\ pc'[t] = "idle"
  BY <1>1, ReturnsApart, AfterGoOn DEF CInv
<1>3. request[t].op = "erase" /\ Wanted(t) = LocksOf(Homes(hp[t], Key(t)))
  BY <1>1 DEF CInv, ThreadInv, Ops
<1>4. Wanted(t) = Held(t) /\ Fits(buckets, Unmigrated)
  BY <1>1, ReadyFacts
<1>5. /\ Elements = ElemsIn(buckets) \cup OldOf(Unmigrated)
      /\ Elements' = ElemsIn(buckets') \cup OldOf(Unmigrated)
  BY <1>1, <1>2, WorkElements
<1>6. /\ Places(t, buckets) = {} => \A e \in Elements : e[1] # Key(t)
      /\ \A p \in Places(t, buckets) :
           /\ p \in Positions(hashpower) /\ buckets[p] # NoElem
           /\ buckets[p][1] = Key(t) /\ buckets[p] \in Elements
      /\ Key(t) \in Keys
  BY <1>1, <1>3, <1>4, <1>5, KeyPlaces
<1>7. Single(Elements)
  BY <1>1, ElementsAre
<1>8. /\ contents = ContentsOf(Elements) /\ contents' = ContentsOf(Elements')
      /\ \A e \in Elements : contents[e[1]] = e[2]
      /\ \A k \in Keys : (\A e \in Elements : e[1] # k) => contents[k] = Absent
      /\ contents \in [Keys -> Vals \cup {Absent}]
  <2>1. contents = ContentsOf(Elements) /\ contents' = ContentsOf(Elements')
    BY DEF contents, ContentsOf
  <2> QED BY <1>7, <2>1, ContentsAt
<1>9. CASE Places(t, buckets) = {}
  <2>1. Returns(t, "missing") /\ UNCHANGED <<buckets, elem_counter>>
    BY <1>9 DEF erase_fn
  <2>2. Elements' = Elements /\ Counts
    BY <1>5, <2>1 DEF Counts
  <2>3. contents[Key(t)] = Absent
    BY <1>6, <1>8, <1>9
  <2>4. contents' = [contents EXCEPT ![Key(t)] = Absent]
    BY <1>8, <2>2, <2>3
  <2>5. Answers' /\ answer' = [answer EXCEPT ![t] = "missing"] /\ UNCHANGED request
    BY <2>1, ReturnsAnswers
  <2>6. Map!Erase(t, Key(t))
    BY <2>3, <2>4, <2>5 DEF Map!Erase, Map!Takes
  <2> QED BY <1>1, <1>3, <2>2, <2>5, <2>6, TakesEffect
<1>10. CASE Places(t, buckets) # {}
  <2> DEFINE p == CHOOSE p \in Places(t, buckets) : TRUE
             x == buckets[p]
  <2>1. /\ Returns(t, "erased") /\ buckets' = [buckets EXCEPT ![p] = NoElem]
        /\ elem_counter' = Counted(p, -1)
    BY <1>10 DEF erase_fn, del_from_bucket
  <2>2. p \in Places(t, buckets)
    BY <1>10
  <2> HIDE DEF p
  <2>3. p \in Positions(hashpower) /\ x # NoElem /\ x[1] = Key(t) /\ x \in Elements
    BY <1>6, <2>2
  <2>4. ElemsIn(buckets') = ElemsIn(buckets) \ {x}
    BY <1>4, <2>1, <2>3, ClearElems DEF Fits
  <2>5. x \notin OldOf(Unmigrated)
    BY <1>4, <2>3 DEF Fits, OldOf
  <2>6. Elements' = Elements \ {x} /\ Counts
    <3>1. Elements' = Elements \ {x}
      BY <1>5, <2>4, <2>5
    <3>2. lock_ind(p[1]) \in Locks
      BY <1>4, <2>3, HasLock DEF Fits
    <3> HIDE DEF x
    <3> QED BY <2>1, <2>3, <3>1, <3>2 DEF Counts, DropsOne
  <2>7. contents' = [contents EXCEPT ![x[1]] = Absent]
    <3> HIDE DEF x
    <3> QED BY <1>7, <1>8, <2>3, <2>6, ContentsDrop
  <2>8. contents[Key(t)] # Absent
    <3>1. x \in Elem
      BY <1>7, <2>3 DEF Single
    <3> HIDE DEF x
    <3> QED BY <1>8, <2>3, <3>1, ElemParts, ValsAssumption
  <2>9. Answers' /\ answer' = [answer EXCEPT ![t] = "erased"] /\ UNCHANGED request
    BY <2>1, ReturnsAnswers
  <2>10. Map!Erase(t, Key(t))
    BY <2>3, <2>7, <2>8, <2>9 DEF Map!Erase, Map!Takes
  <2> QED BY <1>1, <1>3, <2>6, <2>9, <2>10, TakesEffect
<1> QED BY <1>9, <1>10

(* cuckoo_insert with the elements of bk in buckets_: the key is put at p, *)
(* or it is there already.                                                 *)
LEMMA InsertEffect ==
  ASSUME HashesAlways, MInv, NEW t \in Threads, Ready(t), pc[t] \in {"insert", "move"},
         NEW bk, Fits(bk, Unmigrated), ElemsIn(bk) = ElemsIn(buckets),
         LocksOf(Homes(hp[t], Key(t))) \subseteq Held(t),
         UNCHANGED <<old_buckets, is_migrated>>,
         NEW p,
         \/ /\ Places(t, bk) # {} /\ buckets' = bk /\ Returns(t, "duplicate")
            /\ UNCHANGED elem_counter
         \/ /\ Places(t, bk) = {} /\ p \in Positions(hashpower) /\ bk[p] = NoElem
            /\ add_to_bucket(t, bk, p) /\ Returns(t, "inserted")
  PROVE  Map!Next /\ Answers' /\ Counts
<1>1. CInv /\ request[t].op = "insert" /\ request[t] \in Requests /\ pc[t] # "idle"
  BY DEF MInv, CInv, ThreadInv, Ops
<1>2. Apart(t) /\ pc'[t] = "idle"
  <2>1. \E a : Returns(t, a)
    OBVIOUS
  <2> QED BY <1>1, <2>1, ReturnsApart, AfterGoOn DEF CInv
<1>3. /\ Elements = ElemsIn(bk) \cup OldOf(Unmigrated)
      /\ Elements' = ElemsIn(buckets') \cup OldOf(Unmigrated)
  BY <1>1, <1>2, WorkElements
<1>4. /\ Places(t, bk) = {} => \A e \in Elements : e[1] # Key(t)
      /\ \A q \in Places(t, bk) : bk[q][1] = Key(t) /\ bk[q] \in Elements
      /\ Key(t) \in Keys
  BY <1>1, <1>3, KeyPlaces
<1>5. Single(Elements)
  BY <1>1, ElementsAre
<1>6. contents = ContentsOf(Elements) /\ contents' = ContentsOf(Elements')
  BY DEF contents, ContentsOf
<1>7. CASE /\ Places(t, bk) # {} /\ buckets' = bk /\ Returns(t, "duplicate")
           /\ UNCHANGED elem_counter
  <2>1. PICK q \in Places(t, bk) : TRUE
    BY <1>7
  <2>2. bk[q] \in Elements /\ bk[q][1] = Key(t) /\ bk[q] \in Elem
    BY <1>4, <1>5 DEF Single
  <2>3. contents[Key(t)] # Absent
    BY <1>5, <1>6, <2>2, ContentsAt, ElemParts, ValsAssumption
  <2>4. contents' = contents /\ Counts
    <3>1. Elements' = Elements
      BY <1>3, <1>7
    <3> QED BY <1>6, <1>7, <3>1 DEF Counts
  <2>5. Answers' /\ answer' = [answer EXCEPT ![t] = "duplicate"] /\ UNCHANGED request
    BY <1>7, ReturnsAnswers
  <2>6. Map!Insert(t, Key(t), request[t].v)
    BY <2>3, <2>4, <2>5 DEF Map!Insert, Map!Takes
  <2> QED BY <1>1, <2>4, <2>5, <2>6, TakesEffect
<1>8. CASE /\ Places(t, bk) = {} /\ p \in Positions(hashpower) /\ bk[p] = NoElem
           /\ add_to_bucket(t, bk, p) /\ Returns(t, "inserted")
  <2> DEFINE x == <<Key(t), request[t].v>>
  <2>1. x \in Elem /\ x[1] = Key(t) /\ x[2] = request[t].v
    BY <1>1, <1>4, RequestFacts DEF Elem
  <2>2. buckets' = [bk EXCEPT ![p] = x] /\ elem_counter' = Counted(p, 1)
    BY <1>8 DEF add_to_bucket
  <2> HIDE DEF x
  <2>3. ElemsIn(buckets') = ElemsIn(bk) \cup {x}
    <3>1. Good(bk, hashpower) /\ p \in Positions(hashpower) /\ bk[p] = NoElem
      BY <1>8 DEF Fits
    <3>2. ElemsIn([bk EXCEPT ![p] = x]) = ElemsIn(bk) \cup {x}
      BY <2>1, <3>1, PutElems
    <3> QED BY <2>2, <3>2
  <2>4. Elements' = Elements \cup {x}
    BY <1>3, <2>3
  <2>5. /\ contents' = [contents EXCEPT ![x[1]] = x[2]] /\ contents[x[1]] = Absent
        /\ Counts
    <3>1. \A e \in Elements : e[1] # x[1]
      BY <1>4, <1>8, <2>1
    <3>2. lock_ind(p[1]) \in Locks
      BY <1>8, HasLock DEF Fits
    <3>3. Counts
      BY <2>1, <2>2, <2>4, <3>1, <3>2 DEF Counts, AddsOne
    <3> QED BY <3>3, <1>5, <1>6, <2>1, <2>4, <3>1, ContentsAdd
  <2>6. Answers' /\ answer' = [answer EXCEPT ![t] = "inserted"] /\ UNCHANGED request
    BY <1>8, ReturnsAnswers
  <2>7. Map!Insert(t, Key(t), request[t].v)
    BY <2>1, <2>5, <2>6 DEF Map!Insert, Map!Takes
  <2> QED BY <1>1, <2>5, <2>6, <2>7, TakesEffect
<1> QED BY <1>7, <1>8

LEMMA InsertHereStep ==
  ASSUME HashesAlways, MInv, NEW t \in Threads, InsertHere(t)
  PROVE  Map!Next /\ Answers' /\ Counts
<1> DEFINE i1 == I1(hp[t], Key(t))
           i2 == I2(hp[t], Key(t))
           b == IF FreeSlots(i1) # {} THEN i1 ELSE i2
           p == <<b, LastFree(b)>>
<1>1. /\ pc[t] = "insert" /\ Ready(t) /\ CInv /\ UNCHANGED <<old_buckets, is_migrated>>
      /\ \/ /\ Places(t, buckets) # {} /\ Returns(t, "duplicate")
            /\ UNCHANGED <<buckets, elem_counter>>
         \/ /\ Places(t, buckets) = {} /\ FreeSlots(b) # {}
            /\ add_to_bucket(t, buckets, p) /\ Returns(t, "inserted")
  BY DEF InsertHere, MInv
<1>2. /\ hp[t] = hashpower /\ hashpower \in Nat /\ hashpower >= InitHp
      /\ Wanted(t) = Held(t) /\ Fits(buckets, Unmigrated) /\ request[t] \in Requests
  BY <1>1, ReadyFacts
<1>3. Wanted(t) = LocksOf(Homes(hp[t], Key(t)))
  BY <1>1 DEF CInv, ThreadInv, Ops
<1>4. FreeSlots(b) # {} => p \in Positions(hashpower) /\ buckets[p] = NoElem
  <2> SUFFICES ASSUME FreeSlots(b) # {}
               PROVE  p \in Positions(hashpower) /\ buckets[p] = NoElem
    OBVIOUS
  <2>1. Key(t) \in Keys
    BY <1>2, RequestFacts DEF Key
  <2>2. b \in 0 .. Size(hashpower) - 1
    BY <1>2, <2>1, HashFacts
  <2> HIDE DEF b
  <2>3. LastFree(b) \in FreeSlots(b)
    BY LastFreeFacts
  <2> QED BY <2>2, <2>3 DEF FreeSlots, Positions
<1> HIDE DEF p, b
<1> QED BY <1>1, <1>2, <1>3, <1>4, InsertEffect

LEMMA InsertAfterMoveStep ==
  ASSUME HashesAlways, MInv, NEW t \in Threads, InsertAfterMove(t)
  PROVE  Map!Next /\ Answers' /\ Counts
<1> DEFINE q == path[t]
           n == Len(q)
           bk == Shifted(q)
           p == At(q[1])
<1>1. /\ pc[t] = "move" /\ Ready(t) /\ n <= 2 /\ ~ Scooped(q) /\ CInv
      /\ UNCHANGED <<old_buckets, is_migrated>>
      /\ \/ /\ Places(t, bk) # {} /\ Returns(t, "duplicate") /\ buckets' = bk
            /\ UNCHANGED elem_counter
         \/ Places(t, bk) = {} /\ Returns(t, "inserted") /\ add_to_bucket(t, bk, p)
  BY DEF InsertAfterMove, MInv
<1>2. hp[t] = hashpower /\ Good(buckets, hashpower)
  BY <1>1, ReadyFacts DEF Fits
<1>3. /\ n \in Nat /\ n >= 1 /\ q \in Seq(PItems(hashpower))
      /\ At(q[n]) \in Positions(hashpower) /\ buckets[At(q[n])] = NoElem
      /\ LocksOf(Homes(hashpower, Key(t))) \subseteq Held(t)
      /\ n > 1 => At(q[n - 1]) \in Positions(hashpower)
  BY <1>1, MoveFacts
<1>4. Fits(bk, Unmigrated) /\ ElemsIn(bk) = ElemsIn(buckets)
  BY <1>1, ShiftedFits, ShiftedElems
<1>5. p \in Positions(hashpower) /\ bk[p] = NoElem
  <2>1. CASE n = 1
    BY <1>3, <2>1 DEF Shifted
  <2>2. CASE n = 2
    <3>1. p \in Positions(hashpower)
      BY <1>3, <2>2
    <3>2. bk = [buckets EXCEPT ![At(q[2])] = buckets[p], ![p] = NoElem]
      BY <2>2 DEF Shifted
    <3>3. DOMAIN buckets = Positions(hashpower)
      BY <1>2 DEF Good
    <3> HIDE DEF p, bk
    <3> QED BY <3>1, <3>2, <3>3
  <2>3. n \in Nat /\ n >= 1 /\ n <= 2
    BY <1>1, <1>3
  <2> HIDE DEF p, bk, q, n
  <2>4. n = 1 \/ n = 2
    BY <2>3
  <2> QED BY <2>1, <2>2, <2>4
<1> HIDE DEF p, bk, q, n
<1> QED BY <1>1, <1>2, <1>3, <1>4, <1>5, InsertEffect

LEMMA ThrowStep ==
  ASSUME HashesAlways, MInv, NEW t \in Threads, DoubleThrows(t)
  PROVE  Map!Next /\ Answers' /\ Counts
<1>1. pc[t] = "double" /\ UNCHANGED tableVars /\ Returns(t, "load_factor_too_low") /\ CInv
  BY DEF DoubleThrows, AllHeld, MInv
<1>2. Apart(t) /\ pc'[t] = "idle"
  BY <1>1, ReturnsApart, AfterGoOn DEF CInv
<1>3. UNCHANGED contents /\ Counts
  <2>1. Swapping' <=> Swapping
    BY <1>1, <1>2, SameSwapping
  <2> QED BY <1>1, <2>1, TableElements, SameContents DEF tableVars, Counts
<1>4. Answers' /\ answer' = [answer EXCEPT ![t] = "load_factor_too_low"] /\ UNCHANGED request
  BY <1>1, ReturnsAnswers
<1>5. Map!InsertThrows(t)
  BY <1>3, <1>4 DEF Map!InsertThrows, Map!Takes
<1>6. request[t].op = "insert"
  BY <1>1 DEF CInv, ThreadInv
<1> QED BY <1>1, <1>3, <1>4, <1>5, <1>6, TakesEffect

LEMMA MoveStepElements ==
  ASSUME HashesAlways, CInv, NEW t \in Threads, MoveStep(t)
  PROVE  Elements' = Elements
<1>1. /\ pc[t] = "move" /\ Ready(t) /\ ~ Scooped(path[t]) /\ buckets' = Shifted(path[t])
      /\ UNCHANGED <<old_buckets, is_migrated>> /\ Step(t) /\ \E w : GoOn(t, "move", w)
  BY DEF MoveStep, Step
<1>2. Apart(t) /\ pc'[t] # "fresh"
  BY <1>1, StepApart, AfterGoOn DEF CInv
<1>3. ElemsIn(Shifted(path[t])) = ElemsIn(buckets)
  BY <1>1, ShiftedElems
<1>4. /\ Elements = ElemsIn(buckets) \cup OldOf(Unmigrated)
      /\ Elements' = ElemsIn(buckets') \cup OldOf(Unmigrated)
  BY <1>1, <1>2, WorkElements
<1> QED BY <1>1, <1>3, <1>4

LEMMA QuietStep ==
  ASSUME MInv, NEW t \in Threads, Apart(t), UNCHANGED answer, UNCHANGED request,
         pc[t] # "idle", NEW l, NEW w, GoOn(t, l, w), l # "idle", Elements' = Elements,
         UNCHANGED elem_counter
  PROVE  UNCHANGED <<contents, request, answer>> /\ Answers' /\ Counts
<1>1. pc'[t] # "idle"
  BY AfterGoOn DEF MInv
<1> QED BY <1>1, QuietAnswers, SameContents DEF Counts

LEMMA QuietTableStep ==
  ASSUME MInv, NEW t \in Threads, Apart(t), UNCHANGED <<answer, request, tableVars>>,
         pc[t] \notin {"idle", "fresh"},
         NEW l, NEW w, GoOn(t, l, w), l \notin {"idle", "fresh"}
  PROVE  UNCHANGED <<contents, request, answer>> /\ Answers' /\ Counts
<1>1. Swapping' <=> Swapping
  BY AfterGoOn, SameSwapping DEF MInv
<1>2. Elements' = Elements
  BY <1>1, TableElements DEF tableVars
<1> QED BY <1>2, QuietStep DEF tableVars

LEMMA StepMap ==
  ASSUME HashesAlways, MInv, NEW t \in Threads, Step(t)
  PROVE  (Map!Next \/ UNCHANGED <<contents, request, answer>>) /\ Answers' /\ Counts
<1>1. CInv /\ Apart(t)
  BY StepApart DEF MInv, CInv
<1>2. CASE Snapshot(t)
  <2>1. /\ pc[t] = "snapshot" /\ UNCHANGED <<answer, request, tableVars>>
        /\ \E w : GoOn(t, request[t].op, w)
    BY <1>2 DEF Snapshot
  <2>2. request[t].op \notin {"idle", "fresh"}
    BY <1>1, <2>1 DEF CInv, LInv, Steady, Asked, Ops
  <2> QED BY <1>1, <2>1, <2>2, QuietTableStep
<1>3. CASE Lock(t)
  <2>1. UNCHANGED <<tableVars, pc, answer, request>>
    BY <1>3 DEF Lock
  <2>2. Elements' = Elements
    BY <2>1, TableElements DEF tableVars, Swapping
  <2>3. Answers'
    BY <2>1 DEF MInv, Answers
  <2> QED BY <2>1, <2>2, <2>3, SameContents DEF tableVars, Counts
<1>4. CASE HashpowerChanged(t)
  <2>1. /\ UNCHANGED <<answer, request, tableVars>> /\ GoOn(t, "snapshot", {})
        /\ Held(t) = {} /\ want[t] # {}
    BY <1>4 DEF HashpowerChanged, Stale, NextLockFree
  <2>2. pc[t] \notin {"idle", "fresh"}
    BY <1>1, <2>1, LocksAreNat DEF CInv, LInv, Steady, Doubling, Unlocked
  <2> QED BY <1>1, <2>1, <2>2, QuietTableStep
<1>5. CASE RehashLock(t) \/ decrement_num_remaining_lazy_rehash_locks(t)
  <2>1. UNCHANGED <<answer, request, pc, elem_counter>>
    BY <1>5 DEF RehashLock, decrement_num_remaining_lazy_rehash_locks
  <2>2. Elements' = Elements
    BY <1>1, <1>5, RehashLockElements, DecrementElements
  <2>3. Answers'
    BY <2>1 DEF MInv, Answers
  <2> QED BY <2>1, <2>2, <2>3, SameContents DEF Counts
<1>6. CASE find_fn(t)
  BY <1>6, FindStep
<1>7. CASE erase_fn(t)
  BY <1>7, EraseStep
<1>8. CASE InsertHere(t)
  BY <1>8, InsertHereStep
<1>9. CASE InsertMakesRoom(t) \/ MoveFails(t)
  <2>1. /\ pc[t] \in {"insert", "move"} /\ UNCHANGED <<answer, request, tableVars>>
        /\ \E w : GoOn(t, "search", w)
    BY <1>9 DEF InsertMakesRoom, MoveFails, RunCuckoo
  <2> QED BY <1>1, <2>1, QuietTableStep
<1>10. CASE SlotSearch(t)
  <2>1. /\ pc[t] = "search" /\ UNCHANGED <<answer, request, tableVars>>
        /\ \E l \in {"path", "double", "search"} : \E w : GoOn(t, l, w)
    BY <1>10 DEF SlotSearch
  <2> QED BY <1>1, <2>1, QuietTableStep
<1>11. CASE CuckooPath(t)
  <2>1. /\ pc[t] = "path" /\ UNCHANGED <<answer, request, tableVars>>
        /\ \E l \in {"path", "move"} : \E w : GoOn(t, l, w)
    BY <1>11 DEF CuckooPath
  <2> QED BY <1>1, <2>1, QuietTableStep
<1>12. CASE MoveStep(t)
  <2>1. /\ pc[t] = "move" /\ UNCHANGED answer /\ UNCHANGED request
        /\ UNCHANGED elem_counter
        /\ \E w : GoOn(t, "move", w)
    BY <1>12 DEF MoveStep
  <2> QED BY <1>1, <1>12, <2>1, MoveStepElements, QuietStep
<1>13. CASE InsertAfterMove(t)
  BY <1>13, InsertAfterMoveStep
<1>14. CASE DoubleThrows(t)
  BY <1>14, ThrowStep
<1>15. CASE DoubledByOther(t)
  <2>1. /\ pc[t] = "double" /\ UNCHANGED <<answer, request, tableVars>>
        /\ GoOn(t, "snapshot", {})
    BY <1>15 DEF DoubledByOther, AllHeld
  <2> QED BY <1>1, <2>1, QuietTableStep
<1>16. CASE SwapBuckets(t)
  <2>1. /\ pc[t] = "double" /\ UNCHANGED answer /\ UNCHANGED request
        /\ UNCHANGED elem_counter
        /\ GoOn(t, "fresh", {})
    BY <1>16 DEF SwapBuckets, AllHeld
  <2> QED BY <1>1, <1>16, <2>1, SwapElements, QuietStep
<1>17. CASE FreshBuckets(t)
  <2>1. /\ pc[t] = "fresh" /\ UNCHANGED answer /\ UNCHANGED request
        /\ UNCHANGED elem_counter
        /\ GoOn(t, "snapshot", {})
    BY <1>17 DEF FreshBuckets, AllHeld
  <2> QED BY <1>1, <1>17, <2>1, FreshElements, QuietStep
<1> QED BY <1>2, <1>3, <1>4, <1>5, <1>6, <1>7, <1>8, <1>9, <1>10, <1>11, <1>12, <1>13,
           <1>14, <1>15, <1>16, <1>17 DEF Step

LEMMA CallMap ==
  ASSUME MInv, NEW t \in Threads, NEW r \in Workload, Call(t, r)
  PROVE  Map!Next /\ Answers' /\ Counts
<1>1. /\ pc[t] = "idle" /\ GoOn(t, "snapshot", {}) /\ UNCHANGED tableVars
      /\ request' = [request EXCEPT ![t] = r]
      /\ answer' = [answer EXCEPT ![t] = "pending"]
  BY DEF Call
<1>2. CInv /\ Apart(t) /\ pc'[t] = "snapshot"
  BY <1>1, CallApart, AfterGoOn DEF MInv, CInv
<1>3. UNCHANGED contents /\ Counts
  <2>1. Swapping' <=> Swapping
    BY <1>1, <1>2, SameSwapping
  <2> QED BY <1>1, <2>1, TableElements, SameContents DEF tableVars, Counts
<1>4. answer[t] # "pending" /\ r \in Map!Requests
  BY <1>1, WorkloadAssumption DEF MInv, Answers, Requests, Map!Requests
<1>5. Map!Call(t, r)
  BY <1>1, <1>3, <1>4 DEF Map!Call
<1>6. Answers'
  <2>1. answer'[t] = "pending" /\ \A u \in Threads \ {t} : answer'[u] = answer[u] /\ pc'[u] = pc[u]
    BY <1>1, <1>2 DEF MInv, Answers, Apart, Kept
  <2>2. answer' = [u \in Threads |-> answer'[u]]
    BY <1>1 DEF MInv, Answers
  <2> QED BY <1>2, <2>1, <2>2 DEF MInv, Answers
<1> QED BY <1>3, <1>4, <1>5, <1>6 DEF Map!Next

LEMMA StutterMap ==
  ASSUME MInv, UNCHANGED vars
  PROVE  UNCHANGED <<contents, request, answer>> /\ Answers' /\ Counts
<1>1. UNCHANGED <<tableVars, pc, answer, request>>
  BY DEF vars
<1>2. Elements' = Elements
  BY <1>1, TableElements DEF tableVars, Swapping
<1>3. Answers'
  BY <1>1 DEF MInv, Answers
<1> QED BY <1>1, <1>2, <1>3, SameContents DEF tableVars, Counts

LEMMA InitMap ==
  ASSUME HashesAlways, Init
  PROVE  Map!Init /\ MInv
<1>1. CInv
  BY InitCInv
<1>2. Answers
  BY DEF Init, Answers
<1>3. contents \in [Keys -> Vals \cup {Absent}]
  BY <1>1, ElementsAre, ContentsAt, ContentsAre
<1> QED BY <1>1, <1>2, <1>3 DEF Init, Map!Init, MInv

THEOREM SpecMInv ==
  ASSUME HashesAlways
  PROVE  Spec => []MInv
<1>1. MInv /\ [Next]_vars => MInv'
  BY CallCInv, StepCInv, StutterCInv, CallMap, StepMap, StutterMap DEF Next, MInv
<1>2. Init => MInv
  BY InitMap
<1> QED BY <1>1, <1>2, PTL DEF Spec

(* The table with its lazy migration, its searches without locks and its   *)
(* moves is a map on which each call takes effect at one moment, the one   *)
(* at which it returns: between the moves, the migrations and the          *)
(* doublings of any number of threads no find misses a key that is there,  *)
(* and no insert or erase is lost.                                         *)
THEOREM SpecMap ==
  ASSUME HashesAlways
  PROVE  Spec => MapSpec
<1>1. Init => Map!Init
  BY InitMap
<1>2. MInv /\ [Next]_vars => [Map!Next]_<<contents, request, answer>>
  BY CallMap, StepMap, StutterMap DEF Next
<1> QED BY <1>1, <1>2, SpecMInv, PTL DEF Spec, MapSpec, Map!Spec, Map!vars

------------------------------------------------------------------------------
(***************************************************************************)
(* The counts of the locks and their sum.                                  *)
(***************************************************************************)
Counters == [Locks -> Int]

SumsTo(c, n) ==
  {f \in [0 .. n -> Int] : f[0] = 0 /\ \A i \in 1 .. n : f[i] = f[i - 1] + c[i - 1]}

LEMMA SumsExist ==
  ASSUME NEW c \in Counters
  PROVE  SumsTo(c, LockNum) # {}
<1> DEFINE B == {n \in 0 .. LockNum : SumsTo(c, n) = {}}
<1>1. ASSUME B # {} PROVE FALSE
  <2>1. PICK x \in B : \A y \in B : x <= y
    <3>1. B \in SUBSET Nat
      OBVIOUS
    <3> HIDE DEF B
    <3> QED BY <1>1, <3>1, LeastElement
  <2>2. x # 0
    <3> SUFFICES ASSUME x = 0 PROVE FALSE
      OBVIOUS
    <3> DEFINE f == [i \in 0 .. 0 |-> 0]
    <3>1. f \in [0 .. 0 -> Int] /\ f[0] = 0 /\ \A i \in 1 .. 0 : FALSE
      OBVIOUS
    <3> HIDE DEF f
    <3>2. f \in SumsTo(c, 0)
      BY <3>1 DEF SumsTo
    <3> QED BY <3>2
  <2>3. x \in Nat /\ x - 1 \in 0 .. LockNum - 1 /\ x - 1 \in 0 .. LockNum /\ ~ (x <= x - 1)
    BY <2>2, LocksAssumption
  <2>4. PICK g : g \in SumsTo(c, x - 1)
    BY <2>1, <2>3
  <2>5. /\ g \in [0 .. x - 1 -> Int] /\ g[0] = 0
        /\ \A i \in 1 .. x - 1 : g[i] = g[i - 1] + c[i - 1]
    BY <2>4 DEF SumsTo
  <2>6. g[x - 1] + c[x - 1] \in Int
    BY <2>3, <2>5 DEF Counters, Locks
  <2> DEFINE f == [i \in 0 .. x |-> IF i = x THEN g[x - 1] + c[x - 1] ELSE g[i]]
  <2>7. f \in [0 .. x -> Int]
    BY <2>3, <2>5, <2>6
  <2>8. /\ f[0] = 0 /\ f[x] = f[x - 1] + c[x - 1]
        /\ \A i \in 1 .. x - 1 : f[i] = f[i - 1] + c[i - 1]
    BY <2>2, <2>3, <2>5
  <2> HIDE DEF f
  <2>9. \A i \in 1 .. x : f[i] = f[i - 1] + c[i - 1]
    BY <2>3, <2>8
  <2>10. f \in SumsTo(c, x)
    BY <2>7, <2>8, <2>9 DEF SumsTo
  <2> QED BY <2>10
<1> QED BY <1>1, LocksAssumption

LEMMA TotalIs ==
  ASSUME NEW c, NEW f \in SumsTo(c, LockNum)
  PROVE  Total(c) = f[LockNum]
<1> DEFINE e == LockNum
           E(g) == g = [n \in 0 .. e |-> IF n = 0 THEN 0 ELSE g[n - 1] + c[n - 1]]
           sum == CHOOSE g : E(g)
<1>1. Total(c) = sum[e] /\ e \in Nat
  BY LocksAssumption DEF Total
<1>2. f \in [0 .. e -> Int] /\ f[0] = 0 /\ \A i \in 1 .. e : f[i] = f[i - 1] + c[i - 1]
  BY DEF SumsTo
<1>3. E(f)
  <2> DEFINE r == [n \in 0 .. e |-> IF n = 0 THEN 0 ELSE f[n - 1] + c[n - 1]]
  <2>1. \A n \in 0 .. e : f[n] = r[n]
    BY <1>1, <1>2
  <2> QED BY <1>2, <2>1
<1>4. E(sum)
  <2> HIDE DEF E
  <2> QED BY <1>3
<1> HIDE DEF sum, e
<1>5. \A n \in 0 .. e : sum[n] = IF n = 0 THEN 0 ELSE sum[n - 1] + c[n - 1]
  BY <1>4
<1> DEFINE B == {n \in 0 .. e : sum[n] # f[n]}
<1>6. B = {}
  <2> SUFFICES ASSUME B # {} PROVE FALSE
    OBVIOUS
  <2>1. PICK x \in B : \A y \in B : x <= y
    <3>1. B \in SUBSET Nat
      BY <1>1
    <3> HIDE DEF B
    <3> QED BY <3>1, LeastElement
  <2>2. x \in 1 .. e /\ sum[x - 1] = f[x - 1]
    BY <1>1, <1>2, <1>5, <2>1
  <2> QED BY <1>1, <1>2, <1>5, <2>1, <2>2
<1> QED BY <1>1, <1>6 DEF e

LEMMA TotalFacts ==
  ASSUME NEW c \in Counters, NEW l \in Locks, NEW n \in Int
  PROVE  /\ Total(c) \in Int
         /\ [c EXCEPT ![l] = @ + n] \in Counters
         /\ Total([c EXCEPT ![l] = @ + n]) = Total(c) + n
<1> DEFINE d == [c EXCEPT ![l] = @ + n]
           e == LockNum
<1>1. PICK f : f \in SumsTo(c, e)
  BY SumsExist
<1>2. f \in [0 .. e -> Int] /\ f[0] = 0 /\ \A i \in 1 .. e : f[i] = f[i - 1] + c[i - 1]
  BY <1>1 DEF SumsTo
<1>3. Total(c) = f[e] /\ e \in Nat
  BY <1>1, TotalIs, LocksAssumption
<1>4. l \in 0 .. e - 1 /\ c \in [0 .. e - 1 -> Int]
  BY DEF Counters, Locks
<1>5. /\ d \in Counters
      /\ \A i \in 0 .. e - 1 : d[i] = IF i = l THEN c[i] + n ELSE c[i]
  BY <1>4 DEF Counters, Locks
<1> DEFINE g == [i \in 0 .. e |-> IF i <= l THEN f[i] ELSE f[i] + n]
<1> HIDE DEF d, e
<1>6. g \in [0 .. e -> Int] /\ g[0] = 0 /\ g[e] = f[e] + n
  BY <1>2, <1>3, <1>4
<1>7. ASSUME NEW i \in 1 .. e PROVE g[i] = g[i - 1] + d[i - 1]
  <2>1. /\ i \in 0 .. e /\ i - 1 \in 0 .. e /\ i - 1 \in 0 .. e - 1
        /\ f[i] \in Int /\ f[i - 1] \in Int /\ c[i - 1] \in Int
        /\ f[i] = f[i - 1] + c[i - 1]
    BY <1>2, <1>3, <1>4
  <2>2. CASE i - 1 < l
    <3>1. i <= l /\ i - 1 <= l /\ i - 1 # l
      BY <1>3, <1>4, <2>2
    <3> QED BY <1>5, <2>1, <3>1
  <2>3. CASE i - 1 = l
    <3>1. ~ (i <= l) /\ i - 1 <= l
      BY <1>3, <1>4, <2>3
    <3> QED BY <1>5, <2>1, <2>3, <3>1
  <2>4. CASE i - 1 > l
    <3>1. ~ (i <= l) /\ ~ (i - 1 <= l) /\ i - 1 # l
      BY <1>3, <1>4, <2>4
    <3> QED BY <1>5, <2>1, <3>1
  <2> QED BY <1>3, <1>4, <2>2, <2>3, <2>4
<1> HIDE DEF g
<1>8. g \in SumsTo(d, e)
  BY <1>6, <1>7 DEF SumsTo
<1>9. Total(d) = g[e]
  BY <1>8, TotalIs DEF e
<1> QED BY <1>2, <1>3, <1>5, <1>6, <1>9 DEF d

(* The positions counted lock by lock are all of them.                     *)
LEMMA TotalOfParts ==
  ASSUME NEW S, IsFiniteSet(S), \A p \in S : lock_ind(p[1]) \in Locks
  PROVE  /\ [l \in Locks |-> Cardinality({p \in S : lock_ind(p[1]) = l})] \in Counters
         /\ Total([l \in Locks |-> Cardinality({p \in S : lock_ind(p[1]) = l})])
              = Cardinality(S)
<1> DEFINE Of(l) == {p \in S : lock_ind(p[1]) = l}
           Upto(i) == {p \in S : lock_ind(p[1]) < i}
           e == LockNum
           c == [l \in Locks |-> Cardinality(Of(l))]
           f == [i \in 0 .. e |-> Cardinality(Upto(i))]
<1>1. \A l : IsFiniteSet(Of(l)) /\ Cardinality(Of(l)) \in Nat
  <2> TAKE l
  <2>1. IsFiniteSet(Of(l))
    BY FS_Subset
  <2> QED BY <2>1, FS_CardinalityType
<1>2. \A i : IsFiniteSet(Upto(i)) /\ Cardinality(Upto(i)) \in Nat
  <2> TAKE i
  <2>1. IsFiniteSet(Upto(i))
    BY FS_Subset
  <2> QED BY <2>1, FS_CardinalityType
<1>3. e \in Nat \ {0} /\ Locks = 0 .. e - 1
  BY LocksAssumption DEF Locks
<1>4. c \in Counters
  BY <1>1 DEF Counters
<1>5. f \in [0 .. e -> Int] /\ f[0] = Cardinality(Upto(0)) /\ f[e] = Cardinality(Upto(e))
  <2>1. \A i \in 0 .. e : Cardinality(Upto(i)) \in Int
    BY <1>2
  <2>2. 0 \in 0 .. e /\ e \in 0 .. e
    BY <1>3
  <2> HIDE DEF Upto, e
  <2> QED BY <2>1, <2>2
<1>6. Upto(0) = {} /\ Upto(e) = S
  BY <1>3
<1>7. ASSUME NEW i \in 1 .. e PROVE f[i] = f[i - 1] + c[i - 1]
  <2>1. i \in 0 .. e /\ i - 1 \in 0 .. e /\ i - 1 \in Locks
    BY <1>3
  <2>2. Upto(i) = Upto(i - 1) \cup Of(i - 1) /\ Upto(i - 1) \cap Of(i - 1) = {}
    BY <1>3, <2>1
  <2>3. f[i] = Cardinality(Upto(i)) /\ f[i - 1] = Cardinality(Upto(i - 1))
        /\ c[i - 1] = Cardinality(Of(i - 1))
    BY <2>1
  <2> HIDE DEF f, c, Upto, Of
  <2>4. Cardinality(Upto(i - 1) \cup Of(i - 1))
          = Cardinality(Upto(i - 1)) + Cardinality(Of(i - 1)) - Cardinality({})
    BY <1>1, <1>2, <2>2, FS_Union
  <2> QED BY <1>1, <1>2, <2>2, <2>3, <2>4, FS_EmptySet
<1>8. f[0] = 0 /\ f[e] = Cardinality(S)
  BY <1>5, <1>6, FS_EmptySet
<1> HIDE DEF f, c, Upto, Of
<1>9. f \in SumsTo(c, LockNum)
  BY <1>5, <1>7, <1>8 DEF SumsTo
<1>10. Total(c) = Cardinality(S)
  BY <1>8, <1>9, TotalIs
<1> QED BY <1>4, <1>10 DEF c, Of

KeysHeld == {e[1] : e \in Elements}

Sized ==
  /\ elem_counter \in Counters
  /\ size = Cardinality(KeysHeld)

LEMMA KeysHeldFinite ==
  ASSUME HashesAlways, CInv
  PROVE  IsFiniteSet(KeysHeld)
<1>1. ASSUME NEW bk, NEW n, NEW S, S # {} => Good(bk, n),
             \A p \in S : p \in Positions(n) /\ bk[p] # NoElem
      PROVE  IsFiniteSet(KeysOf(bk, S))
  <2>1. CASE S = {}
    <3>1. KeysOf(bk, S) = {}
      BY <2>1 DEF KeysOf
    <3> QED BY <3>1, FS_EmptySet
  <2>2. CASE S # {}
    <3>1. S \in SUBSET Positions(n)
      BY <1>1
    <3> QED BY <1>1, <2>2, <3>1, KeysCounted
  <2> QED BY <2>1, <2>2
<1>2. IsFiniteSet(KeysOf(buckets, NewElems))
  BY <1>1, ArrayFacts
<1>3. IsFiniteSet(KeysOf(old_buckets, Unmoved))
  BY <1>1, ArrayFacts
<1>4. KeysHeld = KeysOf(buckets, NewElems) \cup KeysOf(old_buckets, Unmoved)
  BY DEF KeysHeld, Elements, KeysOf
<1> QED BY <1>2, <1>3, <1>4, FS_Union

LEMMA CountsSized ==
  ASSUME HashesAlways, CInv, Sized, Counts
  PROVE  Sized'
<1>1. IsFiniteSet(KeysHeld) /\ Cardinality(KeysHeld) \in Nat
  BY KeysHeldFinite, FS_CardinalityType
<1>2. KeysHeld' = {e[1] : e \in Elements'}
  BY DEF KeysHeld
<1>3. size = Total(elem_counter) /\ size' = Total(elem_counter')
  BY DEF size
<1>4. ASSUME NEW p, lock_ind(p[1]) \in Locks, NEW n \in Int, elem_counter' = Counted(p, n)
      PROVE  elem_counter' \in Counters /\ size' = size + n
  BY <1>3, <1>4, TotalFacts DEF Counted, Sized
<1>5. CASE Elements' = Elements /\ UNCHANGED elem_counter
  BY <1>2, <1>3, <1>5 DEF Sized, KeysHeld
<1>6. CASE AddsOne
  <2>1. PICK x \in Elem :
          \E p : /\ lock_ind(p[1]) \in Locks /\ \A e \in Elements : e[1] # x[1]
                 /\ Elements' = Elements \cup {x} /\ elem_counter' = Counted(p, 1)
    BY <1>6 DEF AddsOne
  <2>2. PICK p : /\ lock_ind(p[1]) \in Locks /\ \A e \in Elements : e[1] # x[1]
                 /\ Elements' = Elements \cup {x} /\ elem_counter' = Counted(p, 1)
    BY <2>1
  <2>3. KeysHeld' = KeysHeld \cup {x[1]} /\ x[1] \notin KeysHeld
    BY <1>2, <2>2 DEF KeysHeld
  <2>4. Cardinality(KeysHeld') = Cardinality(KeysHeld) + 1
    BY <1>1, <2>3, FS_AddElement
  <2> QED BY <1>4, <2>2, <2>4 DEF Sized
<1>7. CASE DropsOne
  <2>1. PICK x \in Elements :
          \E p : /\ lock_ind(p[1]) \in Locks
                 /\ Elements' = Elements \ {x} /\ elem_counter' = Counted(p, -1)
    BY <1>7 DEF DropsOne
  <2>2. PICK p : /\ lock_ind(p[1]) \in Locks
                 /\ Elements' = Elements \ {x} /\ elem_counter' = Counted(p, -1)
    BY <2>1
  <2>3. Single(Elements)
    BY ElementsAre
  <2>4. KeysHeld' = KeysHeld \ {x[1]} /\ x[1] \in KeysHeld
    BY <1>2, <2>1, <2>3 DEF KeysHeld, Single
  <2>5. Cardinality(KeysHeld') = Cardinality(KeysHeld) - 1
    BY <1>1, <2>4, FS_RemoveElement
  <2>6. elem_counter' \in Counters /\ size' = size + (-1)
    BY <1>4, <2>2
  <2> QED BY <1>1, <2>5, <2>6 DEF Sized
<1> QED BY <1>5, <1>6, <1>7 DEF Counts

LEMMA InitSized ==
  ASSUME HashesAlways, Init
  PROVE  Sized
<1>1. PICK at \in Preloads, v \in Vals :
        /\ buckets = [p \in Positions(InitHp) |->
                        IF p \in DOMAIN at THEN <<at[p], v>> ELSE NoElem]
        /\ elem_counter = [l \in Locks |->
                             Cardinality({p \in DOMAIN at : lock_ind(p[1]) = l})]
  BY DEF Init
<1>2. CInv /\ hashpower = InitHp /\ Unmigrated = {} /\ ~ Swapping
  BY InitCInv DEF Init, Unmigrated, Swapping
<1>3. DOMAIN at \subseteq Positions(InitHp)
  BY PreloadsAssumption
<1>4. NewElems = DOMAIN at
  BY <1>1, <1>3 DEF NewElems, NoElem
<1>5. Unmoved = {}
  BY <1>2 DEF Unmoved, OldElems
<1>6. IsFiniteSet(DOMAIN at) /\ Cardinality(DOMAIN at) = Cardinality(KeysHeld)
  <2>1. CASE NewElems = {}
    <3>1. KeysHeld = {}
      BY <1>5, <2>1 DEF KeysHeld, Elements
    <3> QED BY <1>4, <2>1, <3>1, FS_EmptySet
  <2>2. CASE NewElems # {}
    <3>1. KeysHeld = KeysOf(buckets, NewElems)
      BY <1>5 DEF KeysHeld, Elements, KeysOf
    <3>2. /\ Good(buckets, hashpower) /\ NewElems \in SUBSET Positions(hashpower)
          /\ \A p \in NewElems : buckets[p] # NoElem
      BY <1>2, <2>2, ArrayFacts
    <3>3. IsFiniteSet(NewElems)
      BY <3>2, PositionsFinite, FS_Subset DEF Good
    <3> QED BY <1>4, <3>1, <3>2, <3>3, KeysCounted
  <2> QED BY <2>1, <2>2
<1>7. \A p \in DOMAIN at : lock_ind(p[1]) \in Locks
  BY <1>3, SlotsAssumption, PositionFacts, LockFacts
<1> QED BY <1>1, <1>6, <1>7, TotalOfParts DEF Sized, size

(* size() adds up the counters of the locks; they give the number of the   *)
(* elements in the table although a move, a migration or a doubling takes  *)
(* elements from lock to lock without touching them.                       *)
THEOREM SpecSizeCounts ==
  ASSUME HashesAlways
  PROVE  Spec => []SizeCounts
<1>1. MInv /\ Sized /\ [Next]_vars => Sized'
  BY CallMap, StepMap, StutterMap, CountsSized DEF Next, MInv
<1>2. Init => Sized
  BY InitSized
<1>3. MInv /\ Sized => SizeCounts
  BY KeysAreOnce DEF MInv, Sized, SizeCounts, KeyOnce, KeysHeld
<1> QED BY <1>1, <1>2, <1>3, SpecMInv, PTL DEF Spec

------------------------------------------------------------------------------
(***************************************************************************)
(* The types, with the bounds of the breadth-first search: b_queue is given *)
(* no more than the buckets within MaxBfsPathLen levels of two.            *)
(***************************************************************************)
LEMMA ExactDivision ==
  ASSUME NEW d \in Nat \ {0}, NEW g \in Nat
  PROVE  (d * g) \div d = g
<1> DEFINE x == d * g
           q == x \div d
           r == x % d
<1>1. x \in Nat
  OBVIOUS
<1>2. x = d * q + r /\ r \in 0 .. d - 1 /\ q \in Nat
  BY <1>1, Division
<1>3. x = d * g + 0 /\ 0 \in 0 .. d - 1
  BY <1>1
<1> HIDE DEF x, q, r
<1>4. d * q + r = d * g + 0
  BY <1>2, <1>3
<1>5. r = 0
  <2>1. q \in Int /\ g \in Int /\ r \in 0 .. d - 1 /\ 0 \in 0 .. d - 1
    BY <1>2, <1>3
  <2> DEFINE z == 0
  <2> HIDE DEF z
  <2>2. z \in 0 .. d - 1 /\ d * q + r = d * g + z
    BY <1>4, <2>1 DEF z
  <2>3. r = z
    BY <2>1, <2>2, SameRest
  <2> QED BY <2>3 DEF z
<1>6. d * (q - g) = 0 /\ q - g \in Int
  BY <1>2, <1>4, <1>5
<1>7. q = g
  <2>1. CASE q - g >= 1
    BY <1>6, <2>1, Multiples
  <2>2. CASE q - g <= -1
    BY <1>6, <2>2, Multiples
  <2> QED BY <1>2, <2>1, <2>2
<1> QED BY <1>7 DEF q, x

LEMMA PowBeforeOne ==
  ASSUME NEW d \in Nat \ {0}, NEW n \in Nat
  PROVE  \E g \in Nat : Pow(d + 1, n) - 1 = d * g
<1> DEFINE B == {m \in Nat : ~ \E g \in Nat : Pow(d + 1, m) - 1 = d * g}
<1>1. ASSUME B # {} PROVE FALSE
  <2>1. PICK x \in B : \A y \in B : x <= y
    <3>1. B \in SUBSET Nat
      OBVIOUS
    <3> HIDE DEF B
    <3> QED BY <1>1, <3>1, LeastElement
  <2>2. d + 1 \in Nat \ {0}
    OBVIOUS
  <2>3. x # 0
    <3>1. Pow(d + 1, 0) - 1 = d * 0
      BY <2>2, PowFacts
    <3> QED BY <2>1, <3>1
  <2>4. x - 1 \in Nat /\ (x - 1) + 1 = x /\ ~ (x <= x - 1)
    BY <2>1, <2>3
  <2>5. PICK g \in Nat : Pow(d + 1, x - 1) - 1 = d * g
    BY <2>1, <2>4
  <2>6. Pow(d + 1, x - 1) \in Nat /\ Pow(d + 1, x) = (d + 1) * Pow(d + 1, x - 1)
    BY <2>2, <2>4, PowFacts
  <2> DEFINE p == Pow(d + 1, x - 1)
             h == d * g + 1 + g
  <2> HIDE DEF p
  <2>7. p = d * g + 1 /\ p \in Nat /\ Pow(d + 1, x) = (d + 1) * p
    BY <2>5, <2>6 DEF p
  <2>8. (d + 1) * p - 1 = d * p + p - 1 /\ d * p + d * g = d * (p + g)
    BY <2>7
  <2>9. p + g = h /\ h \in Nat
    BY <2>7
  <2> HIDE DEF h
  <2>10. Pow(d + 1, x) - 1 = d * h
    BY <2>7, <2>8, <2>9
  <2> QED BY <2>1, <2>9, <2>10
<1> QED BY <1>1

LEMMA GeometricFacts ==
  ASSUME NEW n \in Nat
  PROVE  /\ Geometric(n) \in Nat /\ Geometric(0) = 0
         /\ Geometric(n + 1) = 1 + SlotPerBucket * Geometric(n)
<1> DEFINE S == SlotPerBucket
           d == S - 1
<1>1. S \in Nat \ {0}
  BY SlotsAssumption
<1>2. CASE S = 1
  <2>1. \A m : Geometric(m) = m
    BY <1>2 DEF Geometric
  <2> QED BY <1>2, <2>1
<1>3. CASE S # 1
  <2>1. d \in Nat \ {0} /\ S = d + 1
    BY <1>1, <1>3
  <2>2. ASSUME NEW m \in Nat
        PROVE  Geometric(m) \in Nat /\ Pow(S, m) - 1 = d * Geometric(m)
    <3>1. PICK g \in Nat : Pow(S, m) - 1 = d * g
      BY <2>1, PowBeforeOne
    <3>2. Geometric(m) = (Pow(S, m) - 1) \div d
      BY <1>3 DEF Geometric
    <3> QED BY <2>1, <3>1, <3>2, ExactDivision
  <2>3. Pow(S, n) \in Nat /\ Pow(S, n + 1) = S * Pow(S, n) /\ Pow(S, 0) = 1
    BY <1>1, PowFacts
  <2> DEFINE g == Geometric(n)
             h == Geometric(n + 1)
             p == Pow(S, n)
  <2>4. g \in Nat /\ p - 1 = d * g /\ h \in Nat /\ S * p - 1 = d * h /\ p \in Nat
    BY <2>2, <2>3
  <2> HIDE DEF g, h, p
  <2>5. h = 1 + S * g
    <3>1. S * p = d * p + p /\ S * g = d * g + g
      BY <2>1, <2>4
    <3>2. d * p + d * g = d * (p + g)
      BY <2>1, <2>4
    <3>3. d * h = d * (p + g)
      BY <2>1, <2>4, <3>1, <3>2
    <3>4. h = p + g
      <4>1. d * (p + g) \in Nat /\ p + g \in Nat
        BY <2>1, <2>4
      <4>2. (d * h) \div d = h /\ (d * (p + g)) \div d = p + g
        BY <2>1, <2>4, <4>1, ExactDivision
      <4> QED BY <3>3, <4>2
    <3> QED BY <2>4, <3>1, <3>4
  <2>6. Geometric(0) = 0
    <3>1. d * Geometric(0) = 0 /\ Geometric(0) \in Nat
      BY <2>2, <2>3
    <3>2. Geometric(0) >= 1 => d * Geometric(0) >= d
      BY <2>1, <3>1, Multiples
    <3> QED BY <2>1, <3>1, <3>2
  <2> QED BY <2>4, <2>5, <2>6 DEF g, h
<1> QED BY <1>2, <1>3

(* How many a slot of b_queue brings in, j levels above the last.          *)
Deeper(j) == IF j < 0 THEN 0 ELSE SlotPerBucket * Geometric(j)

LEMMA DeeperFacts ==
  /\ Deeper(-1) = 0 /\ Deeper(0) = 0
  /\ \A j \in Nat : /\ Deeper(j) \in Nat
                    /\ Deeper(j + 1) = SlotPerBucket + SlotPerBucket * Deeper(j)
  /\ MAX_CUCKOO_COUNT = 2 + 2 * Deeper(MaxBfsPathLen - 1) /\ MAX_CUCKOO_COUNT \in Nat
<1>1. SlotPerBucket \in Nat \ {0} /\ MaxBfsPathLen - 1 \in Nat /\ MaxBfsPathLen \in Nat
  BY SlotsAssumption
<1>2. Deeper(-1) = 0
  BY DEF Deeper
<1>3. ASSUME NEW j \in Nat
      PROVE  /\ Deeper(j) \in Nat /\ Deeper(j) = SlotPerBucket * Geometric(j)
             /\ Deeper(j + 1) = SlotPerBucket + SlotPerBucket * Deeper(j)
             /\ Geometric(j + 1) = 1 + Deeper(j)
  <2>1. /\ Geometric(j) \in Nat /\ Geometric(j + 1) = 1 + SlotPerBucket * Geometric(j)
    BY GeometricFacts
  <2>2. Deeper(j) = SlotPerBucket * Geometric(j)
    BY DEF Deeper
  <2>3. Deeper(j + 1) = SlotPerBucket * Geometric(j + 1)
    BY DEF Deeper
  <2>4. SlotPerBucket * Geometric(j) \in Nat
    BY <1>1, <2>1
  <2> DEFINE D == Deeper(j)
  <2> HIDE DEF D
  <2>5. D \in Nat /\ Deeper(j + 1) = SlotPerBucket * (1 + D) /\ Geometric(j + 1) = 1 + D
    BY <2>1, <2>2, <2>3, <2>4 DEF D
  <2>6. SlotPerBucket * (1 + D) = SlotPerBucket + SlotPerBucket * D
    BY <1>1, <2>5
  <2> QED BY <2>2, <2>5, <2>6 DEF D
<1>4. Deeper(0) = 0
  <2>1. Geometric(0) = 0
    BY GeometricFacts
  <2> QED BY <1>1, <2>1 DEF Deeper
<1>5. MAX_CUCKOO_COUNT = 2 + 2 * Deeper(MaxBfsPathLen - 1) /\ MAX_CUCKOO_COUNT \in Nat
  <2>1. (MaxBfsPathLen - 1) + 1 = MaxBfsPathLen
    BY <1>1
  <2>2. Geometric(MaxBfsPathLen) = 1 + Deeper(MaxBfsPathLen - 1)
        /\ Deeper(MaxBfsPathLen - 1) \in Nat
    BY <1>1, <1>3, <2>1
  <2> QED BY <2>2 DEF MAX_CUCKOO_COUNT
<1> QED BY <1>2, <1>3, <1>4, <1>5

(* The queue holds a slots of depth d and then some of the next; with all  *)
(* that they bring in, b_queue will have been given MAX_CUCKOO_COUNT.      *)
Levels(q, l, d, a) ==
  /\ \A i \in 1 .. Len(q) : q[i].depth = IF i <= a THEN d ELSE d + 1
  /\ d = MaxBfsPathLen - 1 => a = Len(q)
  /\ l + a * Deeper(MaxBfsPathLen - 1 - d) + (Len(q) - a) * Deeper(MaxBfsPathLen - 2 - d)
       = MAX_CUCKOO_COUNT

Balanced(q, l) == \E d \in 0 .. MaxBfsPathLen - 1, a \in 1 .. Len(q) : Levels(q, l, d, a)

LEMMA BalancedStart ==
  ASSUME NEW x, NEW y, x.depth = 0, y.depth = 0
  PROVE  Balanced(<<x, y>>, 2)
<1> DEFINE q == <<x, y>>
           k == MaxBfsPathLen - 1
<1>1. /\ MaxBfsPathLen \in Nat /\ k \in Nat /\ 0 \in 0 .. k
      /\ Len(q) = 2 /\ 2 \in 1 .. Len(q)
  BY SlotsAssumption
<1>2. \A i \in 1 .. Len(q) : q[i].depth = 0
  OBVIOUS
<1>3. Deeper(k) \in Nat /\ Deeper(k - 1) \in Nat
  <2>1. CASE k = 0
    BY <2>1, DeeperFacts
  <2>2. CASE k # 0
    <3>1. k - 1 \in Nat
      BY <1>1, <2>2
    <3> QED BY <1>1, <3>1, DeeperFacts
  <2> QED BY <2>1, <2>2
<1>4. 2 + 2 * Deeper(k) + 0 * Deeper(k - 1) = MAX_CUCKOO_COUNT
  BY <1>3, DeeperFacts
<1> HIDE DEF q
<1>5. Levels(q, 2, 0, 2)
  <2>1. k - 0 = k /\ MaxBfsPathLen - 2 - 0 = k - 1
    BY <1>1
  <2> QED BY <1>1, <1>2, <1>4, <2>1 DEF Levels
<1> QED BY <1>1, <1>5 DEF Balanced, q

(* A bucket is taken from the queue and those its slots lead to are added. *)
LEMMA BalancedStep ==
  ASSUME NEW B, NEW q \in Seq(B), q # << >>, NEW c \in Seq(B), NEW l \in Nat,
         Balanced(q, l),
         Head(q).depth >= MaxBfsPathLen - 1 => c = << >>,
         Head(q).depth < MaxBfsPathLen - 1 =>
           /\ Len(c) = SlotPerBucket
           /\ \A i \in 1 .. SlotPerBucket : c[i].depth = Head(q).depth + 1
  PROVE  LET r == Tail(q) \o c
             m == l + Len(c)
         IN  m <= MAX_CUCKOO_COUNT /\ (r # << >> => Balanced(r, m))
<1> DEFINE r == Tail(q) \o c
           m == l + Len(c)
           n == Len(q)
           k == MaxBfsPathLen - 1
           S == SlotPerBucket
<1>1. PICK d \in 0 .. k, a \in 1 .. n : Levels(q, l, d, a)
  BY DEF Balanced
<1>2. /\ k \in Nat /\ S \in Nat \ {0} /\ d \in Nat /\ n \in Nat /\ n >= 1 /\ a \in Nat
      /\ k - d \in Nat /\ a >= 1 /\ a <= n /\ n - a \in Nat
  BY <1>1, SlotsAssumption
<1>3. /\ \A i \in 1 .. n : q[i].depth = IF i <= a THEN d ELSE d + 1
      /\ d = k => a = n
      /\ l + a * Deeper(k - d) + (n - a) * Deeper(k - d - 1) = MAX_CUCKOO_COUNT
  <2>1. MaxBfsPathLen - 2 - d = k - d - 1
    BY <1>2, SlotsAssumption
  <2> QED BY <1>1, <2>1 DEF Levels
<1>4. Head(q).depth = d
  <2>1. Head(q) = q[1] /\ 1 \in 1 .. n
    BY <1>2
  <2> QED BY <1>2, <1>3, <2>1
<1>5. /\ Len(c) \in Nat /\ r \in Seq(B) /\ Len(r) = n - 1 + Len(c)
      /\ \A i \in 1 .. n - 1 : r[i] = q[i + 1]
      /\ \A i \in 1 .. Len(c) : r[n - 1 + i] = c[i]
  <2>1. Tail(q) \in Seq(B) /\ Len(Tail(q)) = n - 1
        /\ \A i \in 1 .. n - 1 : Tail(q)[i] = q[i + 1]
    BY HeadTail
  <2> QED BY <1>2, <2>1
<1>6. CASE d = k
  <2>1. a = n /\ c = << >> /\ Len(c) = 0
    BY <1>2, <1>3, <1>4, <1>6
  <2>2. k - d = 0 /\ k - d - 1 = -1 /\ Deeper(0) = 0 /\ Deeper(-1) = 0
    BY <1>2, <1>6, DeeperFacts
  <2>3. l = MAX_CUCKOO_COUNT
    <3>1. l + n * 0 + 0 * 0 = MAX_CUCKOO_COUNT
      BY <1>2, <1>3, <2>1, <2>2
    <3> QED BY <1>2, <3>1
  <2>4. m = MAX_CUCKOO_COUNT /\ Len(r) = n - 1
    BY <1>2, <1>5, <2>1, <2>3
  <2>5. ASSUME r # << >> PROVE Balanced(r, m)
    <3>1. Len(r) >= 1 /\ Len(r) \in 1 .. Len(r)
      BY <1>5, <2>5
    <3>2. \A i \in 1 .. Len(r) : r[i].depth = d
      <4> SUFFICES ASSUME NEW i \in 1 .. Len(r) PROVE r[i].depth = d
        OBVIOUS
      <4>1. i \in 1 .. n - 1 /\ i + 1 \in 1 .. n /\ i + 1 <= a
        BY <1>2, <2>1, <2>4
      <4> QED BY <1>3, <1>5, <4>1
    <3>3. m + Len(r) * 0 + 0 * 0 = MAX_CUCKOO_COUNT
      BY <2>4, <3>1, DeeperFacts
    <3> HIDE DEF r, m
    <3>4. Levels(r, m, d, Len(r))
      <4>1. MaxBfsPathLen - 1 - d = 0 /\ MaxBfsPathLen - 2 - d = -1
        BY <1>2, <1>6, SlotsAssumption
      <4>2. Len(r) - Len(r) = 0
        BY <3>1
      <4> QED BY <2>2, <3>1, <3>2, <3>3, <4>1, <4>2 DEF Levels
    <3> QED BY <3>1, <3>4 DEF Balanced
  <2>6. m <= MAX_CUCKOO_COUNT
    BY <2>4, DeeperFacts
  <2> HIDE DEF r, m
  <2> QED BY <2>5, <2>6 DEF r, m
<1>7. CASE d # k
  <2> DEFINE j == k - d - 1
             X == Deeper(k - d)
             Y == Deeper(j)
  <2>1. d < k /\ j \in Nat /\ k - d = j + 1 /\ d + 1 \in 0 .. k
    BY <1>2, <1>7
  <2>2. Len(c) = S /\ \A i \in 1 .. S : c[i].depth = d + 1
    <3>1. Head(q).depth < k
      BY <1>4, <2>1
    <3> QED BY <1>4, <3>1
  <2>3. Y \in Nat /\ X \in Nat /\ X = S + S * Y
    <3>1. \A i \in Nat : Deeper(i) \in Nat /\ Deeper(i + 1) = S + S * Deeper(i)
      BY DeeperFacts
    <3>2. Deeper(k - d) = Deeper(j + 1)
      BY <2>1
    <3> HIDE DEF j, S, k
    <3>3. Deeper(j) \in Nat /\ Deeper(j + 1) \in Nat /\ Deeper(j + 1) = S + S * Deeper(j)
      <4>1. j + 1 \in Nat
        BY <2>1
      <4> QED BY <2>1, <3>1, <4>1
    <3> QED BY <3>2, <3>3
  <2>4. l + a * X + (n - a) * Y = MAX_CUCKOO_COUNT
    BY <1>3
  <2>5. m = l + S /\ Len(r) = n - 1 + S
    BY <1>5, <2>2
  <2> HIDE DEF X, Y, j
  <2>6. a * X = (a - 1) * X + X /\ (a - 1) * X \in Nat /\ (n - a) * Y \in Nat /\ S * Y \in Nat
    BY <1>2, <2>3
  <2>7. m <= MAX_CUCKOO_COUNT
    <3> DEFINE u == (a - 1) * X
               v == (n - a) * Y
               w == S * Y
    <3>1. u \in Nat /\ v \in Nat /\ w \in Nat /\ a * X = u + X /\ X = S + w
      BY <2>3, <2>6
    <3>2. l + a * X + v = MAX_CUCKOO_COUNT /\ l + Len(c) = l + S
      BY <2>4, <2>5
    <3> HIDE DEF u, v, w
    <3>3. l + (u + X) + v = MAX_CUCKOO_COUNT
      BY <3>1, <3>2
    <3>4. l + S <= MAX_CUCKOO_COUNT
      BY <1>2, <2>3, <3>1, <3>3
    <3> QED BY <3>2, <3>4
  <2>8. ASSUME NEW i \in 1 .. Len(r)
        PROVE  r[i].depth = IF i <= a - 1 THEN d ELSE d + 1
    <3>1. CASE i <= n - 1
      <4>1. i \in 1 .. n - 1 /\ i + 1 \in 1 .. n /\ (i + 1 <= a <=> i <= a - 1)
        BY <1>2, <1>5, <2>8, <3>1
      <4> QED BY <1>3, <1>5, <4>1
    <3>2. CASE ~ (i <= n - 1)
      <4>1. i - (n - 1) \in 1 .. S /\ n - 1 + (i - (n - 1)) = i /\ ~ (i <= a - 1)
        BY <1>2, <2>5, <2>8, <3>2
      <4> QED BY <1>5, <2>2, <4>1
    <3> QED BY <3>1, <3>2
  <2> HIDE DEF r, m
  <2>9. CASE a > 1
    <3>1. a - 1 \in 1 .. Len(r) /\ Len(r) - (a - 1) = (n - a) + S
      BY <1>2, <2>5, <2>9
    <3>2. ((n - a) + S) * Y = (n - a) * Y + S * Y
      BY <1>2, <2>3
    <3>3. m + (a - 1) * X + ((n - a) + S) * Y = MAX_CUCKOO_COUNT
      BY <1>2, <2>3, <2>4, <2>5, <2>6, <3>2
    <3>4. Levels(r, m, d, a - 1)
      <4>1. MaxBfsPathLen - 1 - d = k - d /\ MaxBfsPathLen - 2 - d = j
        BY <1>2, SlotsAssumption DEF j
      <4>2. /\ m + (a - 1) * Deeper(MaxBfsPathLen - 1 - d)
                 + (Len(r) - (a - 1)) * Deeper(MaxBfsPathLen - 2 - d) = MAX_CUCKOO_COUNT
        BY <3>1, <3>3, <4>1 DEF X, Y
      <4> QED BY <1>7, <2>8, <4>2 DEF Levels
    <3> QED BY <2>7, <3>1, <3>4 DEF Balanced, r, m
  <2>10. CASE ~ (a > 1)
    <3>1. a = 1 /\ Len(r) \in 1 .. Len(r) /\ Len(r) = (n - a) + S
      BY <1>2, <2>5, <2>10
    <3>2. \A i \in 1 .. Len(r) : r[i].depth = d + 1
      BY <2>8, <3>1
    <3>3. ((n - a) + S) * Y = (n - a) * Y + S * Y
      BY <1>2, <2>3
    <3>4. m + Len(r) * Y = MAX_CUCKOO_COUNT
      BY <1>2, <2>3, <2>4, <2>5, <2>6, <3>1, <3>3
    <3>5. Deeper(j - 1) \in Nat
      <4>1. CASE j = 0
        BY <4>1, DeeperFacts
      <4>2. CASE j # 0
        <5>1. j - 1 \in Nat
          BY <2>1, <4>2
        <5> QED BY <5>1, DeeperFacts
      <4> QED BY <4>1, <4>2
    <3>6. Levels(r, m, d + 1, Len(r))
      <4>1. MaxBfsPathLen - 1 - (d + 1) = j /\ MaxBfsPathLen - 2 - (d + 1) = j - 1
            /\ Len(r) - Len(r) = 0
        BY <1>2, <3>1, SlotsAssumption DEF j
      <4>2. Len(r) * Y \in Nat /\ 0 * Deeper(j - 1) = 0 /\ m \in Nat
        BY <1>2, <2>3, <2>5, <3>1, <3>5
      <4>3. m + Len(r) * Deeper(MaxBfsPathLen - 1 - (d + 1))
              + (Len(r) - Len(r)) * Deeper(MaxBfsPathLen - 2 - (d + 1)) = MAX_CUCKOO_COUNT
        BY <3>4, <4>1, <4>2 DEF Y
      <4> QED BY <3>1, <3>2, <4>3 DEF Levels
    <3> QED BY <2>1, <2>7, <3>1, <3>6 DEF Balanced, r, m
  <2> QED BY <2>9, <2>10
<1> HIDE DEF r, m
<1> QED BY <1>6, <1>7 DEF r, m

------------------------------------------------------------------------------
Labels == {"idle", "snapshot", "insert", "erase", "find", "search", "path", "move",
           "double", "fresh"}

SearchInv(t) ==
  /\ pc[t] \in Labels /\ request[t] \in Requests \cup {[op |-> "none"]} /\ hp[t] \in Nat
  /\ last[t] \in 0 .. MAX_CUCKOO_COUNT
  /\ queue[t] \in Seq(b_slot(hp[t]))
  /\ pc[t] # "search" => queue[t] = << >>
  /\ pc[t] = "search" => Balanced(queue[t], last[t])
  /\ plan[t].slots \in Seq(Slots) /\ Len(plan[t].slots) <= MaxBfsPathLen
  /\ path[t] \in Seq(PItems(hp[t])) /\ Len(path[t]) <= Len(plan[t].slots)
  /\ pc[t] \notin {"path", "move"} => path[t] = << >>

TInv ==
  /\ hashpower \in Nat /\ old_hashpower \in Nat /\ remaining \in 0 .. LockNum
  /\ last = [t \in Threads |-> last[t]]
  /\ \A t \in Threads : SearchInv(t)

Joint == CInv /\ TInv

(* The queue, the plan and the path are gone.                              *)
Forgotten(t) ==
  /\ queue'[t] = << >> /\ last'[t] = 0 /\ plan'[t] = NoPlan /\ path'[t] = << >>

LEMMA ForgetsAll ==
  ASSUME Joint, NEW t \in Threads, Forget(t)
  PROVE  Forgotten(t)
BY DEF Joint, CInv, Locals, TInv, Forget, Forgotten

LEMMA ForgottenInv ==
  ASSUME Joint, NEW t \in Threads, Forgotten(t), UNCHANGED <<request, hp>>,
         pc'[t] \in Labels \ {"search"}
  PROVE  SearchInv(t)'
<1>1. /\ NoPlan.slots = << >> /\ << >> \in Seq(Slots) /\ Len(<< >>) = 0
      /\ << >> \in Seq(b_slot(hp[t])) /\ << >> \in Seq(PItems(hp[t]))
  BY DEF NoPlan
<1>2. 0 \in 0 .. MAX_CUCKOO_COUNT /\ MaxBfsPathLen \in Nat
  BY DeeperFacts, SlotsAssumption
<1>3. /\ request'[t] \in Requests \cup {[op |-> "none"]}
      /\ hp'[t] = hp[t] /\ hp[t] \in Nat
  BY DEF Joint, TInv, SearchInv
<1>4. b_slot(hp[t])' = b_slot(hp[t]) /\ PItems(hp[t])' = PItems(hp[t])
  BY DEF b_slot, PItems
<1> QED BY <1>1, <1>2, <1>3, <1>4 DEF SearchInv, Forgotten

(* t does not search, and its queue, plan and path stay empty.             *)
LEMMA RestingInv ==
  ASSUME Joint, NEW t \in Threads, UNCHANGED searchVars,
         pc[t] \notin {"search", "path", "move"},
         pc'[t] \in Labels \ {"search"},
         request'[t] \in Requests \cup {[op |-> "none"]}, hp'[t] \in Nat
  PROVE  SearchInv(t)'
<1>1. UNCHANGED <<queue, last, plan, path>> /\ SearchInv(t)
  BY DEF searchVars, Joint, TInv
<1>2. << >> \in Seq(b_slot(hp'[t])) /\ << >> \in Seq(PItems(hp'[t]))
  OBVIOUS
<1>3. queue[t] = << >> /\ path[t] = << >>
  BY <1>1 DEF SearchInv
<1>4. b_slot(hp[t])' = b_slot(hp'[t]) /\ PItems(hp[t])' = PItems(hp'[t])
  BY DEF b_slot, PItems
<1> QED BY <1>1, <1>2, <1>3, <1>4 DEF SearchInv

LEMMA SameSearch ==
  ASSUME Joint, NEW t \in Threads, queue'[t] = queue[t], last'[t] = last[t],
         plan'[t] = plan[t], path'[t] = path[t], pc'[t] = pc[t], hp'[t] = hp[t],
         request'[t] = request[t]
  PROVE  SearchInv(t)'
<1>1. SearchInv(t)
  BY DEF Joint, TInv
<1>2. b_slot(hp[t])' = b_slot(hp[t]) /\ PItems(hp[t])' = PItems(hp[t])
  BY DEF b_slot, PItems
<1> QED BY <1>1, <1>2 DEF SearchInv

LEMMA StartsSearch ==
  ASSUME HashesAlways, Joint, NEW t \in Threads, pc[t] \in {"insert", "move"}, Ready(t),
         RunCuckoo(t), UNCHANGED <<request, hp>>
  PROVE  SearchInv(t)'
<1> DEFINE i1 == I1(hp[t], Key(t))
           i2 == I2(hp[t], Key(t))
           x1 == [b |-> i1, code |-> 0, depth |-> 0]
           x2 == [b |-> i2, code |-> 1, depth |-> 0]
<1>1. /\ GoOn(t, "search", LocksOf({i1})) /\ queue' = [queue EXCEPT ![t] = <<x1, x2>>]
      /\ last' = [last EXCEPT ![t] = 2]
      /\ plan' = [plan EXCEPT ![t] = NoPlan] /\ path' = [path EXCEPT ![t] = << >>]
  BY DEF RunCuckoo
<1>2. pc'[t] = "search"
  BY <1>1, AfterGoOn DEF Joint
<1>3. queue'[t] = <<x1, x2>> /\ last'[t] = 2 /\ plan'[t] = NoPlan /\ path'[t] = << >>
  BY <1>1 DEF Joint, CInv, Locals, TInv
<1>4. hp[t] \in Nat /\ hp[t] >= InitHp /\ Key(t) \in Keys
  BY ReadyFacts, RequestFacts DEF Joint, Key
<1>5. i1 \in 0 .. Size(hp[t]) - 1 /\ i2 \in 0 .. Size(hp[t]) - 1
  BY <1>4, HashFacts
<1>6. Pow(SlotPerBucket, 0) = 1 /\ MaxBfsPathLen - 1 \in Nat
  BY SlotsAssumption, PowFacts
<1>7. x1 \in b_slot(hp[t]) /\ x2 \in b_slot(hp[t])
  BY <1>5, <1>6 DEF b_slot
<1>8. Balanced(<<x1, x2>>, 2)
  BY BalancedStart
<1>9. 2 \in 0 .. MAX_CUCKOO_COUNT
  <2>1. Deeper(MaxBfsPathLen - 1) \in Nat
    BY <1>6, DeeperFacts
  <2> QED BY <2>1, DeeperFacts
<1>10. /\ NoPlan.slots = << >> /\ << >> \in Seq(Slots) /\ Len(<< >>) = 0
       /\ << >> \in Seq(PItems(hp[t])) /\ 0 <= MaxBfsPathLen
  BY SlotsAssumption DEF NoPlan
<1> HIDE DEF x1, x2
<1>11. <<x1, x2>> \in Seq(b_slot(hp[t]))
  BY <1>7
<1>12. b_slot(hp[t])' = b_slot(hp[t]) /\ PItems(hp[t])' = PItems(hp[t])
  BY DEF b_slot, PItems
<1>13. request'[t] \in Requests \cup {[op |-> "none"]} /\ hp'[t] \in Nat
  BY <1>4 DEF Joint, TInv, SearchInv
<1> QED BY <1>2, <1>3, <1>8, <1>9, <1>10, <1>11, <1>12, <1>13 DEF SearchInv, Labels

LEMMA ChildrenFit ==
  ASSUME HashesAlways, CInv, NEW t \in Threads, Ready(t), pc[t] = "search",
         NEW x \in b_slot(hp[t]),
         \A i \in Slots : buckets[<<x.b, SlotAt(x, i)>>] # NoElem
  PROVE  /\ Children(t, x) \in Seq(b_slot(hp[t]))
         /\ x.depth >= MaxBfsPathLen - 1 => Children(t, x) = << >>
         /\ x.depth < MaxBfsPathLen - 1 =>
              /\ Len(Children(t, x)) = SlotPerBucket
              /\ \A i \in 1 .. SlotPerBucket : Children(t, x)[i].depth = x.depth + 1
<1> DEFINE n == hp[t]
           S == SlotPerBucket
           c == Children(t, x)
           P == Pow(S, x.depth)
<1>1. /\ x \in QItems(n) /\ x.depth \in Nat /\ x.code \in Nat /\ x.code < 2 * P
      /\ MaxBfsPathLen - 1 \in Nat /\ S \in Nat \ {0}
  BY SlotsAssumption DEF b_slot, QItems
<1>2. c \in Seq(QItems(n))
  BY <1>1, ChildrenFacts
<1>3. x.depth >= MaxBfsPathLen - 1 => c = << >>
  BY DEF Children
<1>4. CASE x.depth >= MaxBfsPathLen - 1
  <2>1. << >> \in Seq(b_slot(n)) /\ ~ (x.depth < MaxBfsPathLen - 1)
    BY <1>1, <1>4
  <2> QED BY <1>3, <1>4, <2>1
<1>5. CASE ~ (x.depth >= MaxBfsPathLen - 1)
  <2>1. /\ x.depth < MaxBfsPathLen - 1 /\ x.depth + 1 \in 0 .. MaxBfsPathLen - 1
    BY <1>1, <1>5
  <2>2. c = [i \in 1 .. S |->
               LET s == SlotAt(x, i - 1)
               IN  [b |-> AltOf(n, buckets[<<x.b, s>>][1], x.b),
                    code |-> Extended(x, s), depth |-> x.depth + 1]]
    BY <1>5 DEF Children
  <2>3. Len(c) = S
    BY <1>1, <2>2
  <2>4. ASSUME NEW i \in 1 .. S
        PROVE  /\ c[i] \in QItems(n) /\ c[i].depth = x.depth + 1
               /\ c[i].code = Extended(x, SlotAt(x, i - 1))
    <3>1. /\ c[i].depth = x.depth + 1
          /\ c[i].code = Extended(x, SlotAt(x, i - 1))
      BY <2>2
    <3> HIDE DEF c
    <3>2. c[i] \in QItems(n)
      BY <1>2, <2>3
    <3> QED BY <3>1, <3>2
  <2>5. Pow(S, x.depth + 1) = S * P /\ P \in Nat
    BY <1>1, PowFacts
  <2>6. ASSUME NEW i \in 1 .. S PROVE c[i] \in b_slot(n)
    <3> DEFINE s == SlotAt(x, i - 1)
    <3>1. i - 1 \in Slots
      BY <1>1 DEF Slots
    <3>2. s \in Slots
      BY <1>1, <3>1, ExtendedFacts
    <3>3. c[i].code = x.code * S + s
      BY <2>4 DEF Extended
    <3> HIDE DEF s, P, c
    <3>4. x.code * S + s < 2 * (S * P)
      <4>1. s \in 0 .. S - 1 /\ x.code + 1 <= 2 * P
        BY <1>1, <2>5, <3>2 DEF Slots
      <4>2. (x.code + 1) * S <= (2 * P) * S
        <5> DEFINE u == x.code + 1
                   v == 2 * P
        <5>1. u \in Nat /\ v \in Nat /\ u <= v
          BY <1>1, <2>5, <4>1
        <5> HIDE DEF u, v
        <5>2. (v - u) * S >= 0 /\ (v - u) * S = v * S - u * S
          <6>1. v - u \in Nat
            BY <5>1
          <6>2. (v - u) * S \in Nat
            BY <1>1, <6>1
          <6> QED BY <1>1, <5>1, <6>2
        <5>3. u * S \in Nat /\ v * S \in Nat
          BY <1>1, <5>1
        <5>4. u * S <= v * S
          BY <5>2, <5>3
        <5> QED BY <5>4 DEF u, v
      <4>3. (x.code + 1) * S = x.code * S + S /\ (2 * P) * S = 2 * (S * P)
        BY <1>1, <2>5
      <4>4. x.code * S \in Nat /\ S * P \in Nat
        BY <1>1, <2>5
      <4> QED BY <1>1, <4>1, <4>2, <4>3, <4>4
    <3> QED BY <2>1, <2>4, <2>5, <3>3, <3>4 DEF b_slot, QItems
  <2>7. c \in Seq(b_slot(n))
    <3> HIDE DEF c
    <3> QED BY <1>2, <2>3, <2>6
  <2> QED BY <1>5, <2>1, <2>3, <2>4, <2>7
<1> QED BY <1>4, <1>5

LEMMA HeldWhole ==
  ASSUME Joint, NEW t \in Threads
  PROVE  /\ queue = [u \in Threads |-> queue[u]] /\ last = [u \in Threads |-> last[u]]
         /\ plan = [u \in Threads |-> plan[u]] /\ path = [u \in Threads |-> path[u]]
         /\ hp[t] \in Nat /\ SearchInv(t)
BY DEF Joint, CInv, Locals, TInv, SearchInv

LEMMA SlotSearchTypes ==
  ASSUME HashesAlways, Joint, NEW t \in Threads, SlotSearch(t)
  PROVE  SearchInv(t)'
<1> DEFINE n == hp[t]
           x == Head(queue[t])
           c == Children(t, x)
           r == Tail(queue[t]) \o c
           free == {i \in Slots : buckets[<<x.b, SlotAt(x, i)>>] = NoElem}
           code == Extended(x, SlotAt(x, Lowest(free)))
           p == PlanOf(t, code, x.depth)
<1>1. pc[t] = "search" /\ Ready(t) /\ UNCHANGED <<path, request, hp>>
  BY DEF SlotSearch
<1>2. \/ /\ free # {} /\ plan' = [plan EXCEPT ![t] = p]
         /\ GoOn(t, "path", LocksOf({p.first}))
         /\ queue' = [queue EXCEPT ![t] = << >>] /\ last' = [last EXCEPT ![t] = 0]
      \/ /\ free = {} /\ queue' = [queue EXCEPT ![t] = r]
         /\ last' = [last EXCEPT ![t] = @ + Len(c)]
         /\ \/ r = << >> /\ GoOn(t, "double", Locks)
            \/ r # << >> /\ GoOn(t, "search", LocksOf({Head(r).b}))
         /\ UNCHANGED plan
  BY DEF SlotSearch
<1>3. /\ SearchInv(t) /\ n \in Nat /\ CInv /\ queue[t] # << >>
      /\ queue[t] \in Seq(b_slot(n)) /\ path[t] = << >> /\ Balanced(queue[t], last[t])
      /\ last[t] \in Nat
  <2>1. ThreadInv(t) /\ CInv
    BY DEF Joint, CInv
  <2>2. SearchInv(t) /\ hp[t] \in Nat /\ last[t] \in 0 .. MAX_CUCKOO_COUNT
    BY HeldWhole DEF SearchInv
  <2>3. last[t] \in Nat
    BY <2>2, DeeperFacts
  <2> QED BY <1>1, <2>1, <2>2, <2>3 DEF ThreadInv, Searching, SearchInv
<1>4. x \in b_slot(n) /\ Tail(queue[t]) \in Seq(b_slot(n))
  <2> HIDE DEF n, x
  <2> QED BY <1>3, HeadTail DEF x
<1>5. x \in QItems(n) /\ x.depth \in 0 .. MaxBfsPathLen - 1 /\ x.depth \in Nat
  BY <1>4, SlotsAssumption DEF b_slot, QItems
<1>6. b_slot(hp[t])' = b_slot(n) /\ PItems(hp[t])' = PItems(n)
      /\ request'[t] = request[t] /\ hp'[t] = n /\ path'[t] = << >>
  BY <1>1, <1>3 DEF b_slot, PItems
<1>7. /\ request'[t] \in Requests \cup {[op |-> "none"]} /\ hp'[t] \in Nat
      /\ path'[t] \in Seq(PItems(hp[t])') /\ Len(path'[t]) = 0
  BY <1>3, <1>6 DEF SearchInv
<1> HIDE DEF x, c, r, free, code, p
<1>8. CASE /\ free # {} /\ plan' = [plan EXCEPT ![t] = p]
           /\ GoOn(t, "path", LocksOf({p.first}))
           /\ queue' = [queue EXCEPT ![t] = << >>] /\ last' = [last EXCEPT ![t] = 0]
  <2>1. pc'[t] = "path" /\ queue'[t] = << >> /\ last'[t] = 0 /\ plan'[t] = p
    BY <1>3, <1>8, HeldWhole, AfterGoOn
  <2>2. free \in SUBSET Slots
    BY DEF free
  <2>3. Lowest(free) \in Slots
    BY <1>8, <2>2, LowestFree
  <2>4. code \in Nat
    BY <1>5, <2>3, ExtendedFacts DEF code
  <2>5. p.slots \in Seq(Slots) /\ Len(p.slots) = x.depth + 1
    BY <1>5, <2>4, PlanFacts DEF p
  <2>6. Len(p.slots) <= MaxBfsPathLen /\ 0 <= Len(p.slots)
    BY <1>5, <2>5, SlotsAssumption
  <2>7. 0 \in 0 .. MAX_CUCKOO_COUNT /\ << >> \in Seq(b_slot(n))
    BY DeeperFacts
  <2> QED BY <1>6, <1>7, <2>1, <2>5, <2>6, <2>7 DEF SearchInv, Labels
<1>9. CASE /\ free = {} /\ queue' = [queue EXCEPT ![t] = r]
           /\ last' = [last EXCEPT ![t] = @ + Len(c)]
           /\ \/ r = << >> /\ GoOn(t, "double", Locks)
              \/ r # << >> /\ GoOn(t, "search", LocksOf({Head(r).b}))
           /\ UNCHANGED plan
  <2>1. queue'[t] = r /\ last'[t] = last[t] + Len(c) /\ plan'[t] = plan[t]
    BY <1>3, <1>9, HeldWhole
  <2>2. \/ r = << >> /\ pc'[t] = "double"
        \/ r # << >> /\ pc'[t] = "search"
    BY <1>3, <1>9, AfterGoOn
  <2>3. \A i \in Slots : buckets[<<x.b, SlotAt(x, i)>>] # NoElem
    BY <1>9 DEF free
  <2>4. /\ c \in Seq(b_slot(n))
        /\ x.depth >= MaxBfsPathLen - 1 => c = << >>
        /\ x.depth < MaxBfsPathLen - 1 =>
             /\ Len(c) = SlotPerBucket
             /\ \A i \in 1 .. SlotPerBucket : c[i].depth = x.depth + 1
    BY <1>1, <1>3, <1>4, <2>3, ChildrenFit DEF c
  <2>5. LET s == Tail(queue[t]) \o c
            m == last[t] + Len(c)
        IN  m <= MAX_CUCKOO_COUNT /\ (s # << >> => Balanced(s, m))
    BY <1>3, <2>4, BalancedStep DEF x
  <2>6. last'[t] <= MAX_CUCKOO_COUNT /\ (r # << >> => Balanced(r, last'[t]))
    BY <2>1, <2>5 DEF r
  <2>7. r \in Seq(b_slot(n)) /\ Len(c) \in Nat
    BY <1>4, <2>4 DEF r
  <2>8. last'[t] \in 0 .. MAX_CUCKOO_COUNT
    <3>1. MAX_CUCKOO_COUNT \in Nat
      BY DeeperFacts
    <3>2. last'[t] \in Nat
      BY <1>3, <2>1, <2>7
    <3> QED BY <2>6, <3>1, <3>2
  <2>9. Balanced(queue[t], last[t])' <=> Balanced(r, last'[t])
    BY <2>1 DEF Balanced, Levels
  <2>10. plan[t].slots \in Seq(Slots) /\ Len(plan[t].slots) <= MaxBfsPathLen
         /\ 0 <= Len(plan[t].slots)
    BY <1>3 DEF SearchInv
  <2> QED BY <1>6, <1>7, <2>1, <2>2, <2>6, <2>7, <2>8, <2>9, <2>10 DEF SearchInv, Labels
<1> QED BY <1>2, <1>8, <1>9

LEMMA CuckooPathTypes ==
  ASSUME HashesAlways, Joint, NEW t \in Threads, CuckooPath(t)
  PROVE  SearchInv(t)'
<1> DEFINE q == path[t]
           n == Len(q) + 1
           b == IF n = 1 THEN plan[t].first ELSE AltOf(hp[t], q[n - 1].k, q[n - 1].b)
           s == plan[t].slots[n]
           empty == buckets[<<b, s>>] = NoElem
           x == [b |-> b, s |-> s, k |-> IF empty THEN Absent ELSE buckets[<<b, s>>][1]]
           r == Append(q, x)
<1>1. /\ pc[t] = "path" /\ Ready(t) /\ path' = [path EXCEPT ![t] = r]
      /\ UNCHANGED <<queue, last, plan, request, hp>>
  BY DEF CuckooPath
<1>2. \/ GoOn(t, "move", MoveLocks(t, r))
      \/ GoOn(t, "path", LocksOf({AltOf(hp[t], r[n].k, b)}))
  BY DEF CuckooPath
<1>3. SearchInv(t) /\ ThreadInv(t) /\ CInv
  BY DEF Joint, CInv, TInv
<1>4. pc'[t] \in {"move", "path"}
  BY <1>2, <1>3, AfterGoOn
<1> HIDE DEF x, b, s, empty
<1>5. path'[t] = r /\ Len(r) = Len(q) + 1 /\ Len(q) \in Nat
  BY <1>1, <1>3, HeldWhole DEF SearchInv
<1>6. Len(q) < Len(plan[t].slots)
  BY <1>1, <1>3 DEF ThreadInv, Following
<1>7. path'[t] \in Seq(PItems(hp'[t]))
  <2>1. CInv'
    BY <1>3, StepCInv DEF Step
  <2> QED BY <1>4, <2>1 DEF CInv, ThreadInv, Following, Moving, Linked
<1>8. Len(path'[t]) <= Len(plan'[t].slots)
  <2>1. Len(plan[t].slots) \in Nat
    BY <1>3 DEF SearchInv
  <2> QED BY <1>1, <1>5, <1>6, <2>1
<1>9. b_slot(hp[t])' = b_slot(hp[t]) /\ PItems(hp[t])' = PItems(hp'[t])
  BY <1>1 DEF b_slot, PItems
<1> HIDE DEF r, n, q
<1> QED BY <1>1, <1>3, <1>4, <1>7, <1>8, <1>9 DEF SearchInv, Labels

LEMMA MoveStepTypes ==
  ASSUME Joint, NEW t \in Threads, MoveStep(t)
  PROVE  SearchInv(t)'
<1> DEFINE q == path[t]
           n == Len(q)
           r == SubSeq(q, 1, n - 1)
<1>1. /\ pc[t] = "move" /\ n > 2 /\ path' = [path EXCEPT ![t] = r]
      /\ GoOn(t, "move", MoveLocks(t, r))
      /\ UNCHANGED <<queue, last, plan, request, hp>>
  BY DEF MoveStep
<1>2. SearchInv(t) /\ CInv /\ q \in Seq(PItems(hp[t])) /\ n <= Len(plan[t].slots)
  BY DEF Joint, CInv, TInv, SearchInv
<1>3. pc'[t] = "move"
  BY <1>1, <1>2, AfterGoOn
<1>4. path'[t] = r
  BY <1>1, HeldWhole
<1>5. r \in Seq(PItems(hp[t])) /\ Len(r) = n - 1 /\ n \in Nat
  <2> DEFINE P == PItems(hp[t])
  <2> HIDE DEF P
  <2>1. q \in Seq(P) /\ n \in Nat /\ n - 1 \in 0 .. n
    BY <1>1, <1>2 DEF P
  <2> QED BY <2>1 DEF P
<1>6. Len(r) <= Len(plan[t].slots)
  <2>1. Len(plan[t].slots) \in Nat
    BY <1>2 DEF SearchInv
  <2> QED BY <1>2, <1>5, <2>1
<1>7. b_slot(hp[t])' = b_slot(hp[t]) /\ PItems(hp[t])' = PItems(hp[t])
  BY <1>1 DEF b_slot, PItems
<1> HIDE DEF r, n, q
<1> QED BY <1>1, <1>2, <1>3, <1>4, <1>5, <1>6, <1>7 DEF SearchInv, Labels

(* A call returns or begins again, after which its search is forgotten.    *)
LEMMA BeginsAgain ==
  ASSUME Joint, NEW t \in Threads, Forget(t), UNCHANGED <<request, hp>>,
         NEW l \in {"idle", "snapshot"}, NEW w, GoOn(t, l, w)
  PROVE  SearchInv(t)'
<1>1. pc'[t] = l
  BY AfterGoOn DEF Joint
<1> QED BY <1>1, ForgetsAll, ForgottenInv DEF Labels

LEMMA ReturnsTypes ==
  ASSUME Joint, NEW t \in Threads, NEW a, Returns(t, a)
  PROVE  SearchInv(t)'
<1>1. Forget(t) /\ GoOn(t, "idle", {}) /\ UNCHANGED <<request, hp>>
  BY DEF Returns
<1> QED BY <1>1, BeginsAgain

LEMMA CallTypes ==
  ASSUME Joint, NEW t \in Threads, NEW r \in Workload, Call(t, r)
  PROVE  SearchInv(t)'
<1>1. /\ pc[t] = "idle" /\ request' = [request EXCEPT ![t] = r] /\ GoOn(t, "snapshot", {})
      /\ UNCHANGED <<searchVars, hp>>
  BY DEF Call
<1>2. pc'[t] = "snapshot" /\ request'[t] = r
  BY <1>1, AfterGoOn DEF Joint, CInv, LInv, Shape
<1>3. r \in Requests
  BY WorkloadAssumption
<1>4. hp'[t] \in Nat
  BY <1>1, HeldWhole
<1> QED BY <1>1, <1>2, <1>3, <1>4, RestingInv DEF Labels

LEMMA SnapshotTypes ==
  ASSUME Joint, NEW t \in Threads, Snapshot(t)
  PROVE  SearchInv(t)'
<1> DEFINE W == LocksOf(Homes(hashpower, Key(t)))
<1>1. /\ pc[t] = "snapshot" /\ GoOn(t, request[t].op, W)
      /\ hp' = [hp EXCEPT ![t] = hashpower] /\ UNCHANGED <<searchVars, request>>
  BY DEF Snapshot
<1> HIDE DEF W
<1>2. pc'[t] = request[t].op
  BY <1>1, AfterGoOn DEF Joint
<1>3. request[t].op \in Ops
  BY <1>1 DEF Joint, CInv, LInv, Steady, Asked
<1>4. hp'[t] \in Nat
  BY <1>1 DEF Joint, TInv, CInv, LInv, Shape
<1>5. request'[t] \in Requests \cup {[op |-> "none"]}
  BY <1>1, HeldWhole DEF SearchInv
<1> QED BY <1>1, <1>2, <1>3, <1>4, <1>5, RestingInv DEF Labels, Ops

LEMMA SwapTypes ==
  ASSUME Joint, NEW t \in Threads, SwapBuckets(t)
  PROVE  SearchInv(t)'
<1>1. pc[t] = "double" /\ GoOn(t, "fresh", {}) /\ UNCHANGED <<searchVars, request, hp>>
  BY DEF SwapBuckets, AllHeld
<1>2. pc'[t] = "fresh"
  BY <1>1, AfterGoOn DEF Joint
<1>3. request'[t] \in Requests \cup {[op |-> "none"]} /\ hp'[t] \in Nat
  BY <1>1, HeldWhole DEF SearchInv
<1> QED BY <1>1, <1>2, <1>3, RestingInv DEF Labels

LEMMA StepTypes ==
  ASSUME HashesAlways, Joint, NEW t \in Threads, Step(t)
  PROVE  SearchInv(t)'
<1>1. CASE Snapshot(t)
  BY <1>1, SnapshotTypes
<1>2. CASE \/ Lock(t) \/ RehashLock(t) \/ decrement_num_remaining_lazy_rehash_locks(t)
  <2>1. UNCHANGED <<searchVars, pc, hp, request>>
    BY <1>2 DEF Lock, RehashLock, decrement_num_remaining_lazy_rehash_locks
  <2> QED BY <2>1, SameSearch DEF searchVars
<1>3. CASE HashpowerChanged(t)
  BY <1>3, BeginsAgain DEF HashpowerChanged
<1>4. CASE find_fn(t)
  BY <1>4, ReturnsTypes DEF find_fn
<1>5. CASE erase_fn(t)
  BY <1>5, ReturnsTypes DEF erase_fn
<1>6. CASE InsertHere(t)
  BY <1>6, ReturnsTypes DEF InsertHere
<1>7. CASE InsertAfterMove(t)
  BY <1>7, ReturnsTypes DEF InsertAfterMove
<1>8. CASE DoubleThrows(t)
  BY <1>8, ReturnsTypes DEF DoubleThrows
<1>9. CASE InsertMakesRoom(t)
  BY <1>9, StartsSearch DEF InsertMakesRoom
<1>10. CASE MoveFails(t)
  BY <1>10, StartsSearch DEF MoveFails
<1>11. CASE SlotSearch(t)
  BY <1>11, SlotSearchTypes
<1>12. CASE CuckooPath(t)
  BY <1>12, CuckooPathTypes
<1>13. CASE MoveStep(t)
  BY <1>13, MoveStepTypes
<1>14. CASE DoubledByOther(t)
  BY <1>14, BeginsAgain DEF DoubledByOther
<1>15. CASE SwapBuckets(t)
  BY <1>15, SwapTypes
<1>16. CASE FreshBuckets(t)
  BY <1>16, BeginsAgain DEF FreshBuckets
<1> QED BY <1>1, <1>2, <1>3, <1>4, <1>5, <1>6, <1>7, <1>8, <1>9, <1>10, <1>11, <1>12,
           <1>13, <1>14, <1>15, <1>16 DEF Step

(* Only t's own slot of last changes.                                      *)
LEMMA LastKept ==
  ASSUME Joint, NEW t \in Threads, Step(t) \/ \E r : Call(t, r)
  PROVE  Kept(last, last', t)
<1>1. last = [u \in Threads |-> last[u]]
  BY HeldWhole
<1>2. ASSUME UNCHANGED last \/ \E x : last' = [last EXCEPT ![t] = x]
      PROVE  Kept(last, last', t)
  BY <1>1, <1>2, KeptEither
<1>3. ASSUME Forget(t) PROVE \E x : last' = [last EXCEPT ![t] = x]
  BY <1>3 DEF Forget
<1>4. ASSUME RunCuckoo(t) PROVE \E x : last' = [last EXCEPT ![t] = x]
  BY <1>4 DEF RunCuckoo
<1>5. ASSUME NEW a, Returns(t, a) PROVE \E x : last' = [last EXCEPT ![t] = x]
  BY <1>3, <1>5 DEF Returns
<1>6. CASE \/ Snapshot(t) \/ Lock(t) \/ RehashLock(t)
           \/ decrement_num_remaining_lazy_rehash_locks(t) \/ CuckooPath(t) \/ MoveStep(t)
           \/ SwapBuckets(t) \/ \E r : Call(t, r)
  <2>1. UNCHANGED last
    BY <1>6 DEF Snapshot, Lock, RehashLock, decrement_num_remaining_lazy_rehash_locks,
                CuckooPath, MoveStep, SwapBuckets, Call, searchVars
  <2> QED BY <1>2, <2>1
<1>7. CASE HashpowerChanged(t) \/ DoubledByOther(t) \/ FreshBuckets(t)
  BY <1>2, <1>3, <1>7 DEF HashpowerChanged, DoubledByOther, FreshBuckets
<1>8. CASE find_fn(t) \/ DoubleThrows(t)
  BY <1>2, <1>5, <1>8 DEF find_fn, DoubleThrows
<1>9. CASE erase_fn(t) \/ InsertHere(t) \/ InsertAfterMove(t)
  BY <1>2, <1>5, <1>9 DEF erase_fn, InsertHere, InsertAfterMove
<1>10. CASE InsertMakesRoom(t) \/ MoveFails(t)
  BY <1>2, <1>4, <1>10 DEF InsertMakesRoom, MoveFails
<1>11. CASE SlotSearch(t)
  <2>1. \E x : last' = [last EXCEPT ![t] = x]
    BY <1>11 DEF SlotSearch
  <2> QED BY <1>2, <2>1
<1> QED BY <1>6, <1>7, <1>8, <1>9, <1>10, <1>11 DEF Step

LEMMA OtherSearches ==
  ASSUME Joint, NEW t \in Threads, Apart(t), Kept(last, last', t), NEW u \in Threads \ {t}
  PROVE  SearchInv(u)'
<1>1. /\ queue'[u] = queue[u] /\ last'[u] = last[u] /\ plan'[u] = plan[u]
      /\ path'[u] = path[u] /\ pc'[u] = pc[u] /\ hp'[u] = hp[u] /\ request'[u] = request[u]
  BY DEF Apart, Kept
<1> QED BY <1>1, SameSearch

LEMMA StepHashpowers ==
  ASSUME HashesAlways, Joint, NEW t \in Threads, Step(t) \/ \E r : Call(t, r)
  PROVE  hashpower' \in Nat /\ old_hashpower' \in Nat /\ remaining' \in 0 .. LockNum
<1>1. /\ hashpower \in Nat /\ old_hashpower \in Nat /\ remaining \in 0 .. LockNum
      /\ hp[t] \in Nat /\ LockNum \in Nat \ {0} /\ TableInv
  BY HeldWhole, LocksAssumption DEF Joint, TInv, CInv
<1>2. CASE SwapBuckets(t)
  BY <1>1, <1>2 DEF SwapBuckets
<1>3. CASE FreshBuckets(t)
  BY <1>1, <1>3 DEF FreshBuckets
<1>4. CASE decrement_num_remaining_lazy_rehash_locks(t)
  <2>1. /\ moved[t] /\ remaining' = remaining - 1
        /\ UNCHANGED <<hashpower, old_hashpower>>
    BY <1>4 DEF decrement_num_remaining_lazy_rehash_locks
  <2>2. Movers # {}
    BY <2>1 DEF Movers
  <2>3. remaining > 0
    BY <1>1, <2>2, UnmigratedFacts
  <2> QED BY <1>1, <2>1, <2>3
<1>5. CASE ~ (\/ SwapBuckets(t) \/ FreshBuckets(t)
              \/ decrement_num_remaining_lazy_rehash_locks(t))
  <2>1. UNCHANGED <<hashpower, old_hashpower, remaining>>
    BY <1>5 DEF Step, Call, Snapshot, Lock, HashpowerChanged, RehashLock, find_fn, erase_fn,
                InsertHere, InsertMakesRoom, SlotSearch, CuckooPath, MoveFails, MoveStep,
                InsertAfterMove, DoubleThrows, DoubledByOther, tableVars
  <2> QED BY <1>1, <2>1
<1> QED BY <1>2, <1>3, <1>4, <1>5

LEMMA NextJoint ==
  ASSUME HashesAlways, Joint, [Next]_vars
  PROVE  Joint'
<1>1. ASSUME NEW t \in Threads, Step(t) PROVE Joint'
  <2>1. CInv' /\ Apart(t) /\ Kept(last, last', t)
    BY <1>1, StepCInv, StepApart, LastKept DEF Joint, CInv
  <2>2. \A u \in Threads : SearchInv(u)'
    BY <1>1, <2>1, StepTypes, OtherSearches
  <2>3. last' = [u \in Threads |-> last'[u]]
    BY <2>1 DEF Kept
  <2> QED BY <1>1, <2>1, <2>2, <2>3, StepHashpowers DEF Joint, TInv
<1>2. ASSUME NEW t \in Threads, NEW r \in Workload, Call(t, r) PROVE Joint'
  <2>1. CInv' /\ Apart(t) /\ Kept(last, last', t)
    BY <1>2, CallCInv, CallApart, LastKept DEF Joint, CInv
  <2>2. \A u \in Threads : SearchInv(u)'
    BY <1>2, <2>1, CallTypes, OtherSearches
  <2>3. last' = [u \in Threads |-> last'[u]]
    BY <2>1 DEF Kept
  <2> QED BY <1>2, <2>1, <2>2, <2>3, StepHashpowers DEF Joint, TInv
<1>3. CASE UNCHANGED vars
  <2>1. CInv'
    BY <1>3, StutterCInv DEF Joint
  <2>2. /\ UNCHANGED <<queue, last, plan, path, pc, hp, request>>
        /\ UNCHANGED <<hashpower, old_hashpower, remaining>>
    BY <1>3 DEF vars, tableVars, searchVars
  <2>3. \A t \in Threads : SearchInv(t)'
    BY <2>2, SameSearch
  <2> QED BY <2>1, <2>2, <2>3 DEF Joint, TInv
<1> QED BY <1>1, <1>2, <1>3 DEF Next

LEMMA InitJoint ==
  ASSUME HashesAlways, Init
  PROVE  Joint
<1>1. CInv
  BY InitCInv
<1>2. hashpower \in Nat /\ old_hashpower \in Nat /\ remaining \in 0 .. LockNum
  BY SlotsAssumption, LocksAssumption DEF Init
<1>3. last = [t \in Threads |-> last[t]]
  BY DEF Init
<1>4. ASSUME NEW t \in Threads PROVE SearchInv(t)
  <2>1. /\ pc[t] = "idle" /\ request[t] = [op |-> "none"] /\ hp[t] = 0 /\ queue[t] = << >>
        /\ last[t] = 0 /\ plan[t] = NoPlan /\ path[t] = << >>
    BY DEF Init
  <2>2. 0 \in 0 .. MAX_CUCKOO_COUNT /\ MaxBfsPathLen \in Nat
    BY DeeperFacts, SlotsAssumption
  <2>3. /\ NoPlan.slots = << >> /\ << >> \in Seq(Slots) /\ Len(<< >>) = 0
        /\ << >> \in Seq(b_slot(hp[t])) /\ << >> \in Seq(PItems(hp[t]))
    BY DEF NoPlan
  <2> QED BY <2>1, <2>2, <2>3 DEF SearchInv, Labels
<1> QED BY <1>1, <1>2, <1>3, <1>4 DEF Joint, TInv

(* The types, which bound what the code keeps in fixed arrays: b_queue     *)
(* never holds or hands out more than the MAX_CUCKOO_COUNT slots of        *)
(* slots_, a pathcode never has more digits than its depth allows, and a   *)
(* path never outgrows CuckooRecords (MAX_BFS_PATH_LEN), whatever other    *)
(* threads do to the buckets between two steps of a search.                *)
THEOREM SpecCuckooTypeOK ==
  ASSUME HashesAlways
  PROVE  Spec => []TypeOK
<1>1. Init => Joint
  BY InitJoint
<1>2. Joint /\ [Next]_vars => Joint'
  BY NextJoint
<1>3. Joint /\ Sized => TypeOK
  <2> SUFFICES ASSUME Joint, Sized PROVE TypeOK
    OBVIOUS
  <2>1. Shape /\ is_migrated \in [Locks -> BOOLEAN] /\ elem_counter \in [Locks -> Int]
    BY DEF Joint, CInv, LInv, TableInv, Sized, Counters
  <2>2. \A t \in Threads : want[t] \subseteq Locks
    BY <2>1 DEF Shape
  <2> QED BY <2>1, <2>2 DEF Joint, TInv, SearchInv, Labels, Shape, TypeOK
<1>4. MInv /\ Sized /\ [Next]_vars => Sized'
  BY CallMap, StepMap, StutterMap, CountsSized DEF Next, MInv
<1>5. Init => Sized
  BY InitSized
<1> QED BY <1>1, <1>2, <1>3, <1>4, <1>5, SpecMInv, PTL DEF Spec
=============================================================================
