------------------------------ MODULE CuckooMap ------------------------------
(***************************************************************************)
(* libcuckoo::cuckoohash_map, src/libcuckoo/cuckoohash_map.hh, as the      *)
(* buffer manager and the zone controller use it: constructed by default,  *)
(* then insert, erase and find from several threads.  Its keys and values  *)
(* are integers, so the hash is the key, the buckets are moved lazily when *)
(* the table doubles, and the lock array never grows.                      *)
(*                                                                         *)
(* A step takes one spinlock, moves the old buckets of one lock, or does   *)
(* what a thread does while it holds the locks it wanted.  The hashpower   *)
(* is read without a lock, as the code does.                               *)
(***************************************************************************)
EXTENDS Integers, Sequences, FiniteSets, SequencesExt

CONSTANTS
  Threads, Keys, Vals, Absent,
  SlotPerBucket,    \* DEFAULT_SLOT_PER_BUCKET
  MaxBfsPathLen,    \* MAX_BFS_PATH_LEN
  LockNum,          \* kMaxNumLocks
  MinLoadPercent,   \* DEFAULT_MINIMUM_LOAD_FACTOR
  IndexOf(_, _),    \* index_hash(hp, key)
  AltOf(_, _, _),   \* alt_index(hp, partial(key), index)
  InitHp, Preloads, \* the hashpower and the keys at some positions at the start
  Workload,         \* bound: the calls that are tried, some of Requests
  MaxCalls          \* bound: the calls of each thread

(* b multiplied e times, as a shift or a loop does.                        *)
Pow(b, e) ==
  LET power[n \in 0 .. e] == IF n = 0 THEN 1 ELSE b * power[n - 1]
  IN  power[e]

Size(n) == Pow(2, n)   \* hashsize

(* alt_index is an involution, and both indexes only grow by one bit at    *)
(* the top when the table doubles; buckets of one lock stay with it.       *)
Grows(i, j, n) == j \in {i, i + Size(n)}

HashesWell(n, k) ==
  LET i == IndexOf(n, k) a == AltOf(n, k, i)
  IN  /\ i \in 0 .. Size(n) - 1 /\ a \in 0 .. Size(n) - 1
      /\ AltOf(n, k, a) = i /\ i # a
      /\ Grows(i, IndexOf(n + 1, k), n)
      /\ Grows(a, AltOf(n + 1, k, IndexOf(n + 1, k)), n)

ASSUME IndexAssumption == \A n \in InitHp .. InitHp + 2, k \in Keys : HashesWell(n, k)

ASSUME LocksAssumption == LockNum \in Nat \ {0} /\ Size(InitHp) % LockNum = 0

ASSUME SlotsAssumption ==
  SlotPerBucket \in Nat \ {0} /\ InitHp \in Nat /\ MaxBfsPathLen \in Nat \ {0}

Nobody == "nobody"

ASSUME ThreadsAssumption == Nobody \notin Threads

VARIABLES
  hashpower, buckets,           \* buckets_
  old_hashpower, old_buckets,   \* old_buckets_; << >> when deallocated
  holder,                       \* the thread that holds each spinlock
  elem_counter, is_migrated,    \* of each spinlock
  remaining,                    \* num_remaining_lazy_rehash_locks_
  pc,                           \* what each thread does with the locks it wants
  request, answer,              \* its call and what it returned
  hp,                           \* the hashpower it goes by
  want,                         \* the locks it has yet to take
  moved,                        \* rehash_lock has not decremented remaining yet
  queue, last,                  \* of the b_queue, the slots of slots_ to come and
                                \* last_, how many it has been given
  plan, path,                   \* the slots found, the cuckoo_path
  calls                         \* of each thread, up to MaxCalls

tableVars  == <<hashpower, buckets, old_hashpower, old_buckets, elem_counter,
                is_migrated, remaining>>
searchVars == <<queue, last, plan, path>>
vars == <<tableVars, searchVars, holder, pc, request, answer, hp, want, moved, calls>>

Locks    == 0 .. LockNum - 1
Slots    == 0 .. SlotPerBucket - 1
NoElem   == << >>
NoPlan   == [first |-> 0, slots |-> << >>]
Positions(n) == (0 .. Size(n) - 1) \X Slots
Empty(n) == [p \in Positions(n) |-> NoElem]

lock_ind(b) == b % LockNum

(* The locks of a set of buckets; LockManagers for the same one are one.   *)
LocksOf(B) == {l \in Locks : \E b \in B : lock_ind(b) = l}

I1(n, k) == IndexOf(n, k)
I2(n, k) == AltOf(n, k, IndexOf(n, k))
Homes(n, k) == {I1(n, k), I2(n, k)}

(* What a Preload puts in the table could have been inserted.              *)
ASSUME PreloadsAssumption ==
  \A at \in Preloads :
    /\ DOMAIN at \subseteq Positions(InitHp) /\ \A p \in DOMAIN at : at[p] \in Keys
    /\ \A p \in DOMAIN at : p[1] \in Homes(InitHp, at[p])
    /\ \A p, q \in DOMAIN at : at[p] = at[q] => p = q

Init ==
  /\ hashpower = InitHp
  /\ \E at \in Preloads, v \in Vals :
       /\ buckets = [p \in Positions(InitHp) |->
                       IF p \in DOMAIN at THEN <<at[p], v>> ELSE NoElem]
       /\ elem_counter = [l \in Locks |->
                            Cardinality({p \in DOMAIN at : lock_ind(p[1]) = l})]
  /\ old_hashpower = 0 /\ old_buckets = << >>
  /\ holder = [l \in Locks |-> Nobody]
  /\ is_migrated = [l \in Locks |-> TRUE]
  /\ remaining = 0
  /\ pc = [t \in Threads |-> "idle"]
  /\ request = [t \in Threads |-> [op |-> "none"]]
  /\ answer = [t \in Threads |-> "none"]
  /\ hp = [t \in Threads |-> 0]
  /\ want = [t \in Threads |-> {}]
  /\ moved = [t \in Threads |-> FALSE]
  /\ queue = [t \in Threads |-> << >>]
  /\ last = [t \in Threads |-> 0]
  /\ plan = [t \in Threads |-> NoPlan]
  /\ path = [t \in Threads |-> << >>]
  /\ calls = [t \in Threads |-> 0]

Requests ==
  [op : {"insert"}, k : Keys, v : Vals] \cup [op : {"erase", "find"}, k : Keys]

(* What a find returns is not taken for the answer of a call under way.    *)
ASSUME ValsAssumption == Absent \notin Vals /\ "pending" \notin Vals \cup {Absent}

ASSUME WorkloadAssumption == Workload \subseteq Requests

Key(t)  == request[t].k
Held(t) == {l \in Locks : holder[l] = t}
Free(t) == [l \in Locks |-> IF holder[l] = t THEN Nobody ELSE holder[l]]

(* t goes on at l once it has taken the locks w.                           *)
GoOn(t, l, w) ==
  /\ pc' = [pc EXCEPT ![t] = l]
  /\ want' = [want EXCEPT ![t] = w]

Forget(t) ==
  /\ queue' = [queue EXCEPT ![t] = << >>]
  /\ last' = [last EXCEPT ![t] = 0]
  /\ plan' = [plan EXCEPT ![t] = NoPlan]
  /\ path' = [path EXCEPT ![t] = << >>]

------------------------------------------------------------------------------
Call(t, r) ==
  /\ pc[t] = "idle" /\ calls[t] < MaxCalls[t]
  /\ calls' = [calls EXCEPT ![t] = @ + 1]
  /\ request' = [request EXCEPT ![t] = r]
  /\ answer' = [answer EXCEPT ![t] = "pending"]
  /\ GoOn(t, "snapshot", {})
  /\ UNCHANGED <<tableVars, searchVars, holder, hp, moved>>

(* snapshot_and_lock_two: the hashpower, and the locks of the key's        *)
(* buckets for it.                                                         *)
Snapshot(t) ==
  /\ pc[t] = "snapshot"
  /\ hp' = [hp EXCEPT ![t] = hashpower]
  /\ GoOn(t, request[t].op, LocksOf(Homes(hashpower, Key(t))))
  /\ UNCHANGED <<tableVars, searchVars, holder, request, answer, moved, calls>>

(* Mutant: the hashpower is not checked after the lock is taken.           *)
Stale_Unchecked(t) == FALSE

(* lock_one, lock_two, lock_three check the hashpower after the first lock *)
(* only; lock_all does not check it.                                       *)
Stale(t) == pc[t] # "double" /\ Held(t) = {} /\ hashpower # hp[t]

Lowest(L) == CHOOSE l \in L : \A m \in L : l <= m

(* Mutant: the highest lock first.                                         *)
NextLock_Highest(t) == CHOOSE l \in want[t] : \A m \in want[t] : l >= m

(* Locks are taken in the order of their indexes.                          *)
NextLock(t) == Lowest(want[t])

NextLockFree(t) == want[t] # {} /\ holder[NextLock(t)] = Nobody

Lock(t) ==
  /\ NextLockFree(t) /\ ~ Stale(t)
  /\ holder' = [holder EXCEPT ![NextLock(t)] = t]
  /\ want' = [want EXCEPT ![t] = @ \ {NextLock(t)}]
  /\ UNCHANGED <<tableVars, searchVars, pc, request, answer, hp, moved, calls>>

(* The lock is given back, and hashpower_changed is caught: by             *)
(* snapshot_and_lock_two, or by run_cuckoo for cuckoo_insert_loop.         *)
HashpowerChanged(t) ==
  /\ NextLockFree(t) /\ Stale(t)
  /\ GoOn(t, "snapshot", {})
  /\ Forget(t)
  /\ UNCHANGED <<tableVars, holder, request, answer, hp, moved, calls>>

------------------------------------------------------------------------------
(***************************************************************************)
(* rehash_lock and move_bucket.  A key of an old bucket stays at its place *)
(* or goes Size(old_hashpower) further, to the first slots there.          *)
(***************************************************************************)
OldElems(L) ==
  {p \in DOMAIN old_buckets : lock_ind(p[1]) \in L /\ old_buckets[p] # NoElem}

MovesUp(p) ==
  LET k == old_buckets[p][1]
      o == old_hashpower
      up == p[1] + Size(o)
  IN  \/ p[1] = I1(o, k) /\ I1(o + 1, k) = up
      \/ p[1] = I2(o, k) /\ I2(o + 1, k) = up

NewPosition(p) ==
  IF MovesUp(p)
  THEN <<p[1] + Size(old_hashpower),
         Cardinality({q \in OldElems(Locks) : q[1] = p[1] /\ q[2] < p[2] /\ MovesUp(q)})>>
  ELSE p

Moved(L) ==
  [p \in DOMAIN buckets |->
     IF \E q \in OldElems(L) : NewPosition(q) = p
     THEN old_buckets[CHOOSE q \in OldElems(L) : NewPosition(q) = p]
     ELSE buckets[p]]

Unmigrated == {l \in Locks : ~ is_migrated[l]}

HasLocks(t) == want[t] = {} /\ Held(t) # {} /\ ~ moved[t]

RehashLock(t) ==
  /\ HasLocks(t) /\ pc[t] # "double" /\ pc[t] # "fresh"
  /\ Held(t) \cap Unmigrated # {}
  /\ LET l == Lowest(Held(t) \cap Unmigrated)
     IN  /\ buckets' = Moved({l})
         /\ is_migrated' = [is_migrated EXCEPT ![l] = TRUE]
  /\ moved' = [moved EXCEPT ![t] = TRUE]
  /\ UNCHANGED <<hashpower, old_hashpower, old_buckets, elem_counter, remaining,
                 searchVars, holder, pc, request, answer, hp, want, calls>>

(* Mutant: the old buckets are deallocated one lock too early.             *)
decrement_Early(t) ==
  /\ moved[t]
  /\ remaining' = remaining - 1
  /\ old_buckets' = IF remaining <= 2 THEN << >> ELSE old_buckets
  /\ moved' = [moved EXCEPT ![t] = FALSE]
  /\ UNCHANGED <<hashpower, buckets, old_hashpower, elem_counter, is_migrated,
                 searchVars, holder, pc, request, answer, hp, want, calls>>

decrement_num_remaining_lazy_rehash_locks(t) ==
  /\ moved[t]
  /\ remaining' = remaining - 1
  /\ old_buckets' = IF remaining = 1 THEN << >> ELSE old_buckets
  /\ moved' = [moved EXCEPT ![t] = FALSE]
  /\ UNCHANGED <<hashpower, buckets, old_hashpower, elem_counter, is_migrated,
                 searchVars, holder, pc, request, answer, hp, want, calls>>

Ready(t) == HasLocks(t) /\ Held(t) \cap Unmigrated = {}

Unlock(t) == holder' = Free(t)

------------------------------------------------------------------------------
(***************************************************************************)
(* find, erase and insert, with both buckets of the key locked.            *)
(***************************************************************************)
Mine(t) == Homes(hp[t], Key(t)) \X Slots
Places(t, bk) == {p \in Mine(t) : bk[p] # NoElem /\ bk[p][1] = Key(t)}

Returns(t, a) ==
  /\ answer' = [answer EXCEPT ![t] = a]
  /\ GoOn(t, "idle", {})
  /\ Forget(t)
  /\ Unlock(t)
  /\ UNCHANGED <<request, hp, moved, calls>>

find_fn(t) ==
  /\ pc[t] = "find" /\ Ready(t)
  /\ Returns(t, IF Places(t, buckets) = {} THEN Absent
                ELSE buckets[CHOOSE p \in Places(t, buckets) : TRUE][2])
  /\ UNCHANGED tableVars

Counted(p, n) == [elem_counter EXCEPT ![lock_ind(p[1])] = @ + n]

del_from_bucket(p) ==
  /\ buckets' = [buckets EXCEPT ![p] = NoElem]
  /\ elem_counter' = Counted(p, -1)

erase_fn(t) ==
  /\ pc[t] = "erase" /\ Ready(t)
  /\ IF Places(t, buckets) = {}
     THEN Returns(t, "missing") /\ UNCHANGED <<buckets, elem_counter>>
     ELSE Returns(t, "erased")
          /\ del_from_bucket(CHOOSE p \in Places(t, buckets) : TRUE)
  /\ UNCHANGED <<hashpower, old_hashpower, old_buckets, is_migrated, remaining>>

(* add_to_bucket, in the buckets bk.                                       *)
add_to_bucket(t, bk, p) ==
  /\ buckets' = [bk EXCEPT ![p] = <<Key(t), request[t].v>>]
  /\ elem_counter' = Counted(p, 1)

(* The slot try_find_insert_bucket finds: the last free one of bucket b.   *)
FreeSlots(b) == {s \in Slots : buckets[<<b, s>>] = NoElem}
LastFree(b)  == CHOOSE s \in FreeSlots(b) : \A r \in FreeSlots(b) : r <= s

(* Mutant: the two buckets stay locked during the search.                  *)
RunCuckoo_Locked(t) ==
  LET i1 == I1(hp[t], Key(t))
      i2 == I2(hp[t], Key(t))
  IN  /\ queue' = [queue EXCEPT ![t] =
                     <<[b |-> i1, code |-> 0, depth |-> 0],
                       [b |-> i2, code |-> 1, depth |-> 0]>>]
      /\ last' = [last EXCEPT ![t] = 2]
      /\ plan' = [plan EXCEPT ![t] = NoPlan]
      /\ path' = [path EXCEPT ![t] = << >>]
      /\ GoOn(t, "search", LocksOf({i1}))
      /\ UNCHANGED holder

(* run_cuckoo unlocks both buckets and searches from each of them.         *)
RunCuckoo(t) ==
  LET i1 == I1(hp[t], Key(t))
      i2 == I2(hp[t], Key(t))
  IN  /\ queue' = [queue EXCEPT ![t] =
                     <<[b |-> i1, code |-> 0, depth |-> 0],
                       [b |-> i2, code |-> 1, depth |-> 0]>>]
      /\ last' = [last EXCEPT ![t] = 2]
      /\ plan' = [plan EXCEPT ![t] = NoPlan]
      /\ path' = [path EXCEPT ![t] = << >>]
      /\ GoOn(t, "search", LocksOf({i1}))
      /\ Unlock(t)

(* cuckoo_insert with a duplicate or a free slot in one of the buckets.    *)
InsertHere(t) ==
  LET k  == Key(t)
      i1 == I1(hp[t], k)
      i2 == I2(hp[t], k)
      b  == IF FreeSlots(i1) # {} THEN i1 ELSE i2
  IN  /\ pc[t] = "insert" /\ Ready(t)
      /\ \/ /\ Places(t, buckets) # {}
            /\ Returns(t, "duplicate")
            /\ UNCHANGED <<buckets, elem_counter>>
         \/ /\ Places(t, buckets) = {}
            /\ FreeSlots(b) # {}
            /\ add_to_bucket(t, buckets, <<b, LastFree(b)>>)
            /\ Returns(t, "inserted")
      /\ UNCHANGED <<hashpower, old_hashpower, old_buckets, is_migrated, remaining>>

InsertMakesRoom(t) ==
  /\ pc[t] = "insert" /\ Ready(t)
  /\ Places(t, buckets) = {}
  /\ \A p \in Mine(t) : buckets[p] # NoElem
  /\ RunCuckoo(t)
  /\ UNCHANGED <<tableVars, request, answer, hp, moved, calls>>

(***************************************************************************)
(* slot_search: one bucket of the breadth-first search, locked.            *)
(***************************************************************************)

(* The sum of SlotPerBucket ^ i for i below n.                             *)
Geometric(n) ==
  IF SlotPerBucket = 1 THEN n
  ELSE (Pow(SlotPerBucket, n) - 1) \div (SlotPerBucket - 1)

MAX_CUCKOO_COUNT == 2 * Geometric(MaxBfsPathLen)

b_slot(n) ==
  {x \in [b : 0 .. Size(n) - 1, code : Nat, depth : 0 .. MaxBfsPathLen - 1] :
     x.code < 2 * Pow(SlotPerBucket, x.depth)}

SlotAt(x, i) == (x.code + i) % SlotPerBucket    \* starting_slot + i
Extended(x, s) == x.code * SlotPerBucket + s

(* Mutant: one level too many is searched.                                 *)
Children_Deeper(t, x) ==
  IF x.depth >= MaxBfsPathLen THEN << >>
  ELSE [i \in 1 .. SlotPerBucket |->
          LET s == SlotAt(x, i - 1)
          IN  [b |-> AltOf(hp[t], buckets[<<x.b, s>>][1], x.b),
               code |-> Extended(x, s), depth |-> x.depth + 1]]

Children(t, x) ==
  IF x.depth >= MaxBfsPathLen - 1 THEN << >>
  ELSE [i \in 1 .. SlotPerBucket |->
          LET s == SlotAt(x, i - 1)
          IN  [b |-> AltOf(hp[t], buckets[<<x.b, s>>][1], x.b),
               code |-> Extended(x, s), depth |-> x.depth + 1]]

(* cuckoopath_search reads the slots and the first bucket off a pathcode.  *)
PlanOf(t, code, depth) ==
  [first |-> IF code \div Pow(SlotPerBucket, depth + 1) = 0
             THEN I1(hp[t], Key(t)) ELSE I2(hp[t], Key(t)),
   slots |-> [i \in 1 .. depth + 1 |->
                (code \div Pow(SlotPerBucket, depth + 1 - i)) % SlotPerBucket]]

SlotSearch(t) ==
  /\ pc[t] = "search" /\ Ready(t)
  /\ LET x == Head(queue[t])
         rest == Tail(queue[t]) \o Children(t, x)
         free == {i \in Slots : buckets[<<x.b, SlotAt(x, i)>>] = NoElem}
     IN  \/ /\ free # {}
            /\ LET p == PlanOf(t, Extended(x, SlotAt(x, Lowest(free))), x.depth)
               IN  /\ plan' = [plan EXCEPT ![t] = p]
                   /\ GoOn(t, "path", LocksOf({p.first}))
            /\ queue' = [queue EXCEPT ![t] = << >>]
            /\ last' = [last EXCEPT ![t] = 0]
         \/ /\ free = {}
            /\ queue' = [queue EXCEPT ![t] = rest]
            /\ last' = [last EXCEPT ![t] = @ + Len(Children(t, x))]
            /\ IF rest = << >> THEN GoOn(t, "double", Locks)
               ELSE GoOn(t, "search", LocksOf({Head(rest).b}))
            /\ UNCHANGED plan
  /\ Unlock(t)
  /\ UNCHANGED <<tableVars, path, request, answer, hp, moved, calls>>

(* The locks of the step of cuckoopath_move that empties the end of path q. *)
MoveLocks(t, q) ==
  LET n == Len(q)
      own == Homes(hp[t], Key(t))
  IN  LocksOf(IF n = 1 THEN own
              ELSE IF n = 2 THEN own \cup {q[2].b} ELSE {q[n - 1].b, q[n].b})

(* cuckoopath_search: the key at the next slot of the path, locked; a slot *)
(* found empty ends the path.                                              *)
CuckooPath(t) ==
  LET q == path[t]
      n == Len(q) + 1
      b == IF n = 1 THEN plan[t].first ELSE AltOf(hp[t], q[n - 1].k, q[n - 1].b)
      s == plan[t].slots[n]
      empty == buckets[<<b, s>>] = NoElem
      r == Append(q, [b |-> b, s |-> s,
                      k |-> IF empty THEN Absent ELSE buckets[<<b, s>>][1]])
  IN  /\ pc[t] = "path" /\ Ready(t)
      /\ path' = [path EXCEPT ![t] = r]
      /\ IF empty \/ n = Len(plan[t].slots) THEN GoOn(t, "move", MoveLocks(t, r))
         ELSE GoOn(t, "path", LocksOf({AltOf(hp[t], r[n].k, b)}))
      /\ Unlock(t)
      /\ UNCHANGED <<tableVars, queue, last, plan, request, answer, hp, moved, calls>>

(***************************************************************************)
(* cuckoopath_move: the last slot of the path is filled from the one       *)
(* before it, unless another thread has come first; the step that frees a  *)
(* slot of the key's own bucket keeps both locked, and cuckoo_insert looks *)
(* for the key again before it inserts.                                    *)
(***************************************************************************)
At(r) == <<r.b, r.s>>

Scooped(q) ==
  LET n == Len(q)
  IN  \/ buckets[At(q[n])] # NoElem
      \/ n > 1 /\ ~ (/\ buckets[At(q[n - 1])] # NoElem
                     /\ buckets[At(q[n - 1])][1] = q[n - 1].k)

Shifted(q) ==
  LET n == Len(q)
  IN  IF n = 1 THEN buckets
      ELSE [buckets EXCEPT ![At(q[n])] = buckets[At(q[n - 1])],
                           ![At(q[n - 1])] = NoElem]

MoveFails(t) ==
  /\ pc[t] = "move" /\ Ready(t) /\ Scooped(path[t])
  /\ RunCuckoo(t)
  /\ UNCHANGED <<tableVars, request, answer, hp, moved, calls>>

(* Mutant: the move counts the element out of the bucket it leaves.        *)
MoveStep_Counted(t) ==
  LET q == path[t]
      n == Len(q)
      r == SubSeq(q, 1, n - 1)
  IN  /\ pc[t] = "move" /\ Ready(t) /\ n > 2 /\ ~ Scooped(q)
      /\ buckets' = Shifted(q)
      /\ elem_counter' = Counted(At(q[n - 1]), -1)
      /\ path' = [path EXCEPT ![t] = r]
      /\ GoOn(t, "move", MoveLocks(t, r))
      /\ Unlock(t)
      /\ UNCHANGED <<hashpower, old_hashpower, old_buckets, is_migrated, remaining,
                     queue, last, plan, request, answer, hp, moved, calls>>

MoveStep(t) ==
  LET q == path[t]
      n == Len(q)
      r == SubSeq(q, 1, n - 1)
  IN  /\ pc[t] = "move" /\ Ready(t) /\ n > 2 /\ ~ Scooped(q)
      /\ buckets' = Shifted(q)
      /\ path' = [path EXCEPT ![t] = r]
      /\ GoOn(t, "move", MoveLocks(t, r))
      /\ Unlock(t)
      /\ UNCHANGED <<hashpower, old_hashpower, old_buckets, elem_counter, is_migrated,
                     remaining, queue, last, plan, request, answer, hp, moved, calls>>

(* Mutant: the key is not looked for again after the locks were given up.  *)
InsertAfterMove_Blind(t) ==
  LET q == path[t]
  IN  /\ pc[t] = "move" /\ Ready(t) /\ Len(q) <= 2 /\ ~ Scooped(q)
      /\ Returns(t, "inserted")
      /\ add_to_bucket(t, Shifted(q), At(q[1]))
      /\ UNCHANGED <<hashpower, old_hashpower, old_buckets, is_migrated, remaining>>

InsertAfterMove(t) ==
  LET q  == path[t]
      bk == Shifted(q)
  IN  /\ pc[t] = "move" /\ Ready(t) /\ Len(q) <= 2 /\ ~ Scooped(q)
      /\ \/ /\ Places(t, bk) # {}
            /\ Returns(t, "duplicate")
            /\ buckets' = bk /\ UNCHANGED elem_counter
         \/ /\ Places(t, bk) = {}
            /\ Returns(t, "inserted")
            /\ add_to_bucket(t, bk, At(q[1]))
      /\ UNCHANGED <<hashpower, old_hashpower, old_buckets, is_migrated, remaining>>

------------------------------------------------------------------------------
(***************************************************************************)
(* cuckoo_fast_double, with every lock taken.                              *)
(***************************************************************************)
AllHeld(t, l) == pc[t] = l /\ want[t] = {}

(* The counts c of the locks, summed in the order of the locks.            *)
Total(c) ==
  LET sum[n \in 0 .. LockNum] == IF n = 0 THEN 0 ELSE sum[n - 1] + c[n - 1]
  IN  sum[LockNum]

size == Total(elem_counter)

LoadTooLow == 100 * size < MinLoadPercent * (SlotPerBucket * Size(hashpower))

DoubleThrows(t) ==
  /\ AllHeld(t, "double") /\ LoadTooLow
  /\ Returns(t, "load_factor_too_low")
  /\ UNCHANGED tableVars

DoubledByOther(t) ==
  /\ AllHeld(t, "double") /\ ~ LoadTooLow /\ hashpower # hp[t]
  /\ GoOn(t, "snapshot", {})
  /\ Unlock(t)
  /\ Forget(t)
  /\ UNCHANGED <<tableVars, request, answer, hp, moved, calls>>

(* What is left of old_buckets_ is moved, and it is swapped with buckets_: *)
(* the hashpower others read is for a moment an old one.                   *)
SwapBuckets(t) ==
  /\ AllHeld(t, "double") /\ ~ LoadTooLow /\ hashpower = hp[t]
  /\ old_buckets' = Moved(Unmigrated)
  /\ buckets' = << >>
  /\ hashpower' = old_hashpower /\ old_hashpower' = hashpower
  /\ is_migrated' = [l \in Locks |-> TRUE]
  /\ remaining' = 0
  /\ GoOn(t, "fresh", {})
  /\ UNCHANGED <<elem_counter, searchVars, holder, request, answer, hp, moved, calls>>

FreshBuckets(t) ==
  /\ AllHeld(t, "fresh")
  /\ hashpower' = hp[t] + 1
  /\ buckets' = Empty(hp[t] + 1)
  /\ is_migrated' = [l \in Locks |-> FALSE]
  /\ remaining' = LockNum
  /\ GoOn(t, "snapshot", {})
  /\ Unlock(t)
  /\ Forget(t)
  /\ UNCHANGED <<old_hashpower, old_buckets, elem_counter, request, answer, hp,
                 moved, calls>>

------------------------------------------------------------------------------
Step(t) ==
  \/ Snapshot(t) \/ Lock(t) \/ HashpowerChanged(t)
  \/ RehashLock(t) \/ decrement_num_remaining_lazy_rehash_locks(t)
  \/ find_fn(t) \/ erase_fn(t) \/ InsertHere(t) \/ InsertMakesRoom(t)
  \/ SlotSearch(t) \/ CuckooPath(t)
  \/ MoveFails(t) \/ MoveStep(t) \/ InsertAfterMove(t)
  \/ DoubleThrows(t) \/ DoubledByOther(t) \/ SwapBuckets(t) \/ FreshBuckets(t)

Next == \E t \in Threads : Step(t) \/ \E r \in Workload : Call(t, r)

Spec == Init /\ [][Next]_vars

(* A thread that can go on does: WF_vars(Step(t)), with the condition that  *)
(* enables Step(t) written out.  A free spinlock goes to any of those that *)
(* spin for it.                                                            *)
CanStep(t) == pc[t] # "idle" /\ (want[t] # {} => NextLockFree(t))

FairSpec ==
  Spec /\ \A t \in Threads : []<>(~ CanStep(t)) \/ []<><<Step(t)>>_vars

------------------------------------------------------------------------------
(* The elements of the table: those of buckets_, and those of old_buckets_ *)
(* that are not moved yet (all of them while the two are swapped).         *)
Swapping == \E t \in Threads : pc[t] = "fresh"

NewElems == {p \in DOMAIN buckets : buckets[p] # NoElem}
Unmoved  == OldElems(IF Swapping THEN Locks ELSE Unmigrated)
Elements == {buckets[p] : p \in NewElems} \cup {old_buckets[p] : p \in Unmoved}

contents ==
  LET E == Elements
  IN  [k \in Keys |->
         IF \E e \in E : e[1] = k THEN (CHOOSE e \in E : e[1] = k)[2] ELSE Absent]

Map == INSTANCE AtomicMap
MapSpec == Map!Spec

(* Among the types: slots_ and CuckooRecords are never overrun, and a       *)
(* pathcode keeps to the digits that its depth gives it.                   *)
TypeOK ==
  /\ hashpower \in Nat /\ old_hashpower \in Nat
  /\ holder \in [Locks -> Threads \cup {Nobody}]
  /\ elem_counter \in [Locks -> Int]
  /\ is_migrated \in [Locks -> BOOLEAN]
  /\ remaining \in 0 .. LockNum
  /\ \A t \in Threads :
       /\ pc[t] \in {"idle", "snapshot", "insert", "erase", "find", "search",
                     "path", "move", "double", "fresh"}
       /\ request[t] \in Requests \cup {[op |-> "none"]}
       /\ want[t] \subseteq Locks /\ hp[t] \in Nat
       /\ queue[t] \in Seq(b_slot(hp[t])) /\ last[t] \in 0 .. MAX_CUCKOO_COUNT
       /\ plan[t].slots \in Seq(Slots) /\ Len(plan[t].slots) <= MaxBfsPathLen
       /\ Len(path[t]) <= Len(plan[t].slots)

(* A key is in the table at most once, in one of its two buckets for the   *)
(* hashpower of the array it is in: no cuckoo move, migration or insertion *)
(* of two threads at once leaves two copies or hides one (cuckoo_insert's  *)
(* second look, cuckoopath_move's checks, move_bucket's choice).           *)
KeyOnce ==
  /\ Cardinality({e[1] : e \in Elements}) = Cardinality(NewElems) + Cardinality(Unmoved)
  /\ \A p \in NewElems : p[1] \in Homes(hashpower, buckets[p][1])
  /\ \A p \in Unmoved : p[1] \in Homes(old_hashpower, old_buckets[p][1])

(* size() sums elem_counter over the locks: it is the number of elements,  *)
(* although elements move from lock to lock without it.                    *)
SizeCounts ==
  size = Cardinality(NewElems) + Cardinality(Unmoved)

(* The assertions of rehash_lock, setKV and the decrement: an unmigrated   *)
(* lock has its old buckets, half as many as the new ones, the slots its   *)
(* elements go to are free, and the locks still to be counted down are     *)
(* those unmigrated and those whose thread is about to.                    *)
RehashAsserts ==
  /\ remaining = Cardinality(Unmigrated) + Cardinality({t \in Threads : moved[t]})
  /\ remaining > 0 => old_buckets # << >> /\ old_hashpower + 1 = hashpower
  /\ ~ Swapping =>
       \A p \in OldElems(Unmigrated) :
         /\ buckets[NewPosition(p)] = NoElem
         /\ \A q \in OldElems(Unmigrated) \ {p} : NewPosition(q) # NewPosition(p)

(* The order that rules out deadlock (lock_two's comment): a thread holds  *)
(* no lock above one it has yet to take, whatever it takes them for.       *)
LocksInOrder ==
  \A t \in Threads : \A l \in Held(t), m \in want[t] : l < m

(* check_hashpower looks at the hashpower once, after the first lock of a  *)
(* call, of a search step or of a move: no table doubles until the thread  *)
(* has given its locks up, so the buckets it works on are its key's.    *)
HashpowerHeld ==
  \A t \in Threads :
    pc[t] \notin {"double", "fresh"} /\ Held(t) # {} => hp[t] = hashpower

(* Every call returns: searches, retries and doublings come to an end.     *)
CallReturns ==
  \A t \in Threads : (answer[t] = "pending") ~> (answer[t] # "pending")
=============================================================================
