--------------------------- MODULE ZNSThreadsProofs ---------------------------
(***************************************************************************)
(* Theorems about ZNSThreads, for every number of zones and collectors,    *)
(* zone capacity and number of calls: as long as no zone is marked open    *)
(* too late the test of cond under the mutex keeps writers in open zones,  *)
(* no inserted page is left without an entry in Table or a thread that is  *)
(* about to insert one, and a zone is never filled beyond Brim.            *)
(***************************************************************************)
EXTENDS ZNSThreads, FiniteSetTheorems, TLAPS

Choosing == {"scan", "finish", "full", "pick", "open", "mark", "own", "lock"}
Writing  == {"find", "clear", "erase", "insert", "pwrite", "find2", "set"}
Holding  == Writing \cup {"full"}
Labels   == {"idle", "lookup", "pread", "start", "look", "empty", "disown", "rewind",
             "sweep"} \cup Choosing \cup Writing
Ops      == {"write", "gc", "new"}

(* Where a collector is when its zone is not, or no longer, in its hands.  *)
Given == {"idle", "disown", "rewind", "sweep"}

(***************************************************************************)
(* The inductive invariant.  A thread that is writing, or is about to mark *)
(* a zone full, holds the mutex of the zone; a zone is not empty until its *)
(* collector says so.                                                      *)
(***************************************************************************)
Shape ==
  /\ pc \in [Threads -> Labels]
  /\ job = [t \in Threads |-> job[t]]
  /\ \A t \in Threads : job[t] = [op |-> Op(t), p |-> Pg(t), v |-> job[t].v]
  /\ zone \in [Threads -> Zones]
  /\ cond \in [Zones -> {"EMPTY", "OPEN", "FULL"}]
  /\ wp \in [Zones -> Nat]
  /\ inGc \in [Zones -> BOOLEAN]
  /\ mutex \in [Zones -> Threads \cup {Nobody}]
  /\ finished \subseteq Zones
  /\ Table \in [Pages -> (Zones \X Nat) \cup {NoAddr}]
  /\ promised = [p \in Pages |-> promised[p]]

Collecting ==
  \A z \in Zones :
    /\ pc[z] = "idle" <=> ~ inGc[z]
    /\ pc[z] \notin Given => cond[z] # "EMPTY"

Placed(t) ==
  /\ pc[t] \in Choosing \cup Writing => Op(t) \in Ops
  /\ pc[t] \in Writing => InBody(t)
  /\ pc[t] \in Holding => mutex[zone[t]] = t

(* As long as no zone is marked open too late: zones are written while     *)
(* they are open, a collector's zone stays full, and a finished zone that  *)
(* is still marked open is locked by the thread that will mark it full.    *)
Safe(t) == pc[t] \in Writing => cond[zone[t]] = "OPEN" /\ zone[t] \notin finished

Steady ==
  ~ late => /\ \A t \in Threads : Safe(t)
            /\ \A z \in Zones : pc[z] \notin Given => cond[z] = "FULL"
            /\ \A z \in finished : cond[z] = "OPEN" => mutex[z] # Nobody

TInv == Shape /\ Collecting /\ Steady /\ \A t \in Threads : Placed(t)

(* Page p has an entry, or a thread is about to insert one.                *)
HasEntry(p) == Table[p] # NoAddr \/ \E t \in Threads : pc[t] = "insert" /\ Pg(t) = p

(* Pages that need one: those inserted, and that of the main thread's      *)
(* write once it has looked the page up.                                   *)
Due(p) == \/ promised[p] # Absent
          \/ Pg(Main) = p /\ pc[Main] \in Writing \ {"find"}

EntryInv == \A p \in Pages : Due(p) => HasEntry(p)

------------------------------------------------------------------------------
(***************************************************************************)
(* Facts about the operators.                                              *)
(***************************************************************************)
(* The statements of a call: none occurs twice, an erased entry is         *)
(* inserted next, and the page is looked up first if at all.               *)
LEMMA BodyShape ==
  ASSUME NEW op \in Ops
  PROVE  /\ DOMAIN Body(op) = 1 .. Len(Body(op)) /\ Len(Body(op)) \in {4, 7}
         /\ \A i \in DOMAIN Body(op) : Body(op)[i] \in Writing
         /\ \A i, j \in DOMAIN Body(op) : Body(op)[i] = Body(op)[j] => i = j
         /\ \A i \in DOMAIN Body(op) \ {1} : Body(op)[i] # "find"
         /\ \A i \in DOMAIN Body(op) : Body(op)[i] \in {"find", "erase", "insert"} =>
              i # Len(Body(op))
         /\ \A i \in DOMAIN Body(op) : Body(op)[i] = "erase" =>
              Body(op)[i + 1] = "insert"
         /\ Body(op)[1] \in {"find", "insert"}
<1>1. CASE op = "write"
  BY <1>1 DEF Body, Writing
<1>2. CASE op = "gc"
  BY <1>2 DEF Body, Writing
<1>3. CASE op = "new"
  BY <1>3 DEF Body, Writing
<1> QED BY <1>1, <1>2, <1>3 DEF Ops

LEMMA ThreadSets == Main \in Threads /\ Main \notin Zones /\ Zones \subseteq Threads
                    /\ Threads = Zones \cup {Main} /\ Nobody \notin Threads
  BY ThreadsOK DEF Threads, Main, Zones

LEMMA ZoneSet == 0 \in Zones /\ Zones \subseteq Nat
  BY ThreadsOK DEF Zones

------------------------------------------------------------------------------
(***************************************************************************)
(* Steps.                                                                  *)
(***************************************************************************)
(* The step leaves the other threads where they are, and the zones they    *)
(* have locked locked.                                                     *)
Alone(t) ==
  /\ \A u \in Threads \ {t} : pc'[u] = pc[u] /\ job'[u] = job[u] /\ zone'[u] = zone[u]
  /\ \A z \in Zones : mutex[z] \in Threads \ {t} => mutex'[z] = mutex[z]

LEMMA AlonePlaced ==
  ASSUME TInv, NEW t \in Threads, Alone(t), Placed(t)'
  PROVE  \A u \in Threads : Placed(u)'
<1> SUFFICES ASSUME NEW u \in Threads, u # t PROVE Placed(u)'
  OBVIOUS
<1>1. Placed(u) /\ pc'[u] = pc[u] /\ job'[u] = job[u] /\ zone'[u] = zone[u]
  BY DEF TInv, Alone
<1>2. Op(u)' = Op(u) /\ InBody(u)' = InBody(u)
  BY <1>1 DEF Op, InBody
<1>3. ASSUME pc[u] \in Holding PROVE mutex'[zone[u]] = u
  <2>1. zone[u] \in Zones /\ mutex[zone[u]] = u
    BY <1>1, <1>3 DEF Placed, TInv, Shape
  <2> QED BY <2>1 DEF Alone
<1> QED BY <1>1, <1>2, <1>3 DEF Placed

(* A step that leaves the conditions alone.                                *)
LEMMA SteadyKept ==
  ASSUME TInv, NEW t \in Threads, NEW l \in Labels, GoTo(t, l),
         UNCHANGED <<cond, finished, late>>, Alone(t),
         l \in Writing /\ ~ late => /\ cond[zone'[t]] = "OPEN"
                                    /\ zone'[t] \notin finished,
         t \in Zones => l \in Given \/ pc[t] \notin Given,
         \A z \in finished : ~ late /\ cond[z] = "OPEN" /\ mutex[z] = t => mutex'[z] # Nobody
  PROVE  Steady'
<1> SUFFICES ASSUME ~ late
             PROVE  /\ \A u \in Threads : Safe(u)'
                    /\ \A z \in Zones : pc'[z] \notin Given => cond[z] = "FULL"
                    /\ \A z \in finished : cond[z] = "OPEN" => mutex'[z] # Nobody
  BY DEF Steady, Zones, Threads
<1>0. Shape /\ pc'[t] = l
  BY DEF TInv, Shape, GoTo
<1>1. /\ \A u \in Threads : Safe(u)
      /\ \A z \in Zones : pc[z] \notin Given => cond[z] = "FULL"
      /\ \A z \in finished : cond[z] = "OPEN" => mutex[z] # Nobody
  BY DEF TInv, Steady
<1>2. ASSUME NEW u \in Threads PROVE Safe(u)'
  BY <1>0, <1>1 DEF Safe, Alone
<1>3. ASSUME NEW z \in Zones, pc'[z] \notin Given PROVE cond[z] = "FULL"
  BY <1>0, <1>1, <1>3, ThreadSets DEF Alone
<1>4. ASSUME NEW z \in finished, cond[z] = "OPEN" PROVE mutex'[z] # Nobody
  <2>1. z \in Zones /\ mutex[z] \in Threads
    BY <1>0, <1>1, <1>4 DEF Shape
  <2> QED BY <1>4, <2>1, ThreadSets DEF Alone
<1> QED BY <1>2, <1>3, <1>4

(* The next statement under the mutex, or the end of the call.             *)
ToNext(t, l) ==
  /\ l \in Writing \ {"find"}
  /\ pc[t] = "erase" => l = "insert"
  /\ \E i \in DOMAIN Body(Op(t)) : Body(Op(t))[i] = l
  /\ UNCHANGED <<mutex, job, zone, promised>>

ToEnd(t, l) ==
  /\ l = IF t = Main THEN "idle" ELSE "look"
  /\ pc[t] \notin {"find", "erase", "insert"}
  /\ mutex' = [mutex EXCEPT ![zone[t]] = Nobody]
  /\ job' = [job EXCEPT ![t] = NoJob]
  /\ zone' = [zone EXCEPT ![t] = 0]
  /\ promised' = IF t = Main THEN [promised EXCEPT ![Pg(t)] = job[t].v] ELSE promised

LEMMA OnwardCases ==
  ASSUME NEW t \in Threads, Placed(t), pc[t] \in Writing, Onward(t)
  PROVE  \E l \in Labels : GoTo(t, l) /\ (ToNext(t, l) \/ ToEnd(t, l))
<1> DEFINE B == Body(Op(t))
           i == Place(t)
<1>1. Op(t) \in Ops /\ InBody(t)
  BY DEF Placed
<1>2. i \in DOMAIN B /\ B[i] = pc[t]
  BY <1>1 DEF InBody, Place
<1>3. /\ DOMAIN B = 1 .. Len(B) /\ Len(B) \in Nat
      /\ \A j \in DOMAIN B : B[j] \in Writing
      /\ \A j \in DOMAIN B \ {1} : B[j] # "find"
      /\ B[i] \in {"find", "erase", "insert"} => i # Len(B)
      /\ B[i] = "erase" => B[i + 1] = "insert"
  BY <1>1, <1>2, BodyShape
<1> HIDE DEF B, i
<1>4. CASE EndOf(t)
  <2> DEFINE l == IF t = Main THEN "idle" ELSE "look"
  <2>1. GoTo(t, l) /\ ToEnd(t, l)
    BY <1>2, <1>3, <1>4 DEF EndOf, Onward, ToEnd, B, i
  <2> QED BY <2>1 DEF Labels
<1>5. CASE ~ EndOf(t)
  <2> DEFINE l == B[i + 1]
  <2>1. i + 1 \in DOMAIN B /\ i + 1 # 1
    BY <1>2, <1>3, <1>5 DEF EndOf, B, i
  <2>2. l \in Writing \ {"find"} /\ (pc[t] = "erase" => l = "insert")
    BY <1>2, <1>3, <2>1
  <2>3. GoTo(t, l) /\ UNCHANGED <<mutex, job, zone, promised>>
    BY <1>5 DEF Onward, EndOf, B, i
  <2>4. \E j \in DOMAIN B : B[j] = l
    BY <2>1
  <2> HIDE DEF l
  <2>5. GoTo(t, l) /\ ToNext(t, l)
    BY <2>2, <2>3, <2>4 DEF ToNext, B
  <2> QED BY <2>2, <2>5 DEF Labels
<1> QED BY <1>4, <1>5

(* A statement under the mutex.                                            *)
LEMMA WritingTInv ==
  ASSUME TInv, NEW t \in Threads, pc[t] \in Writing, Onward(t),
         UNCHANGED <<cond, finished, late, inGc>>, wp' \in [Zones -> Nat],
         Table' \in [Pages -> (Zones \X Nat) \cup {NoAddr}]
  PROVE  TInv'
<1>1. Placed(t) /\ Shape /\ Collecting /\ Steady
  BY DEF TInv
<1>2. PICK l \in Labels : GoTo(t, l) /\ (ToNext(t, l) \/ ToEnd(t, l))
  BY <1>1, OnwardCases
<1>3. /\ pc' = [pc EXCEPT ![t] = l] /\ pc \in [Threads -> Labels]
      /\ zone[t] \in Zones /\ mutex[zone[t]] = t /\ Op(t) \in Ops
      /\ ~ late => cond[zone[t]] = "OPEN" /\ zone[t] \notin finished
  BY <1>1, <1>2 DEF GoTo, Shape, Placed, Holding, Steady, Safe
<1>4. Shape'
  <2>1. pc' \in [Threads -> Labels]
    BY <1>2, <1>3
  <2>2. CASE ToNext(t, l)
    BY <1>1, <2>1, <2>2 DEF Shape, ToNext, Op, Pg, Zones, Threads
  <2>3. CASE ToEnd(t, l)
    <3>1. mutex' \in [Zones -> Threads \cup {Nobody}] /\ zone' \in [Threads -> Zones]
      BY <1>1, <2>3, ZoneSet DEF ToEnd, Shape
    <3>2. job' = [u \in Threads |-> job'[u]]
      BY <1>1, <2>3 DEF ToEnd, Shape
    <3>3. \A u \in Threads : job'[u] = [op |-> job'[u].op, p |-> job'[u].p, v |-> job'[u].v]
      BY <1>1, <2>3 DEF ToEnd, Shape, NoJob, Op, Pg
    <3>4. promised' = [p \in Pages |-> promised'[p]]
      BY <1>1, <2>3 DEF ToEnd, Shape
    <3> QED BY <1>1, <2>1, <3>1, <3>2, <3>3, <3>4 DEF Shape, Op, Pg, Zones, Threads
  <2> QED BY <1>2, <2>2, <2>3
<1>6. Collecting'
  <2>1. t \in Zones => l \notin Given
    BY <1>2, ThreadSets DEF ToNext, ToEnd, Writing, Given
  <2>2. pc[t] \notin Given
    BY DEF Writing, Given
  <2>3. \A z \in Zones : z # t => pc'[z] = pc[z]
    BY <1>3, ThreadSets
  <2>4. t \in Zones => pc'[t] = l
    BY <1>3
  <2> QED BY <1>1, <2>1, <2>2, <2>3, <2>4 DEF Collecting, Zones, Given
<1>7. Placed(t)'
  <2>1. CASE ToNext(t, l)
    <3>1. pc'[t] = l /\ Op(t)' = Op(t) /\ l \in Writing
      BY <1>3, <2>1 DEF ToNext, Op
    <3>2. InBody(t)'
      BY <1>3, <2>1, <3>1 DEF ToNext, InBody, Ops
    <3> QED BY <1>3, <2>1, <3>1, <3>2 DEF ToNext, Placed
  <2>2. CASE ToEnd(t, l)
    BY <1>3, <2>2 DEF ToEnd, Placed, Choosing, Writing, Holding
  <2> QED BY <1>2, <2>1, <2>2
<1>8. Alone(t)
  <2>1. CASE ToNext(t, l)
    BY <1>3, <2>1 DEF ToNext, Alone
  <2>2. CASE ToEnd(t, l)
    <3>1. \A z \in Zones : mutex[z] \in Threads \ {t} => mutex'[z] = mutex[z]
      BY <1>1, <1>3, <2>2 DEF ToEnd, Shape
    <3>2. \A u \in Threads \ {t} : pc'[u] = pc[u] /\ job'[u] = job[u] /\ zone'[u] = zone[u]
      BY <1>1, <1>3, <2>2 DEF ToEnd, Shape
    <3> QED BY <3>1, <3>2 DEF Alone
  <2> QED BY <1>2, <2>1, <2>2
<1>9. Steady'
  <2>1. l \in Writing => zone'[t] = zone[t]
    BY <1>2 DEF ToNext, ToEnd, Writing
  <2>2. pc[t] \notin Given
    BY DEF Writing, Given
  <2>3. ASSUME NEW z \in finished, ~ late, cond[z] = "OPEN", mutex[z] = t
        PROVE  mutex'[z] # Nobody
    BY <1>1, <1>2, <1>3, <2>3, ThreadSets DEF ToNext, ToEnd, Shape
  <2> QED BY <1>2, <1>3, <1>8, <2>1, <2>2, <2>3, SteadyKept
<1> QED BY <1>4, <1>6, <1>7, <1>8, <1>9, AlonePlaced DEF TInv

(* A step that changes neither the zones nor the table, of a thread that   *)
(* holds no mutex after it.                                                *)
LEMMA LocalTInv ==
  ASSUME TInv, NEW t \in Threads, NEW l \in Labels \ Holding, GoTo(t, l),
         UNCHANGED <<cond, finished, late, inGc, mutex, Table, promised>>,
         wp' \in [Zones -> Nat], zone' \in [Threads -> Zones],
         job' = [u \in Threads |-> job'[u]],
         \A u \in Threads : job'[u] = [op |-> job'[u].op, p |-> job'[u].p, v |-> job'[u].v],
         \A u \in Threads \ {t} : job'[u] = job[u] /\ zone'[u] = zone[u],
         l \in Choosing => job'[t].op \in Ops,
         t \in Zones => /\ pc[t] # "idle" /\ l # "idle"
                        /\ l \in Given \/ pc[t] \notin Given
  PROVE  TInv'
<1>1. Shape /\ Collecting
  BY DEF TInv
<1>2. pc \in [Threads -> Labels] /\ pc' = [pc EXCEPT ![t] = l] /\ l \notin Writing
  BY <1>1 DEF Shape, GoTo, Holding
<1>3. Shape'
  <2>1. pc' \in [Threads -> Labels]
    BY <1>2
  <2> QED BY <1>1, <2>1 DEF Shape, Op, Pg, Zones, Threads
<1>5. Collecting'
  <2>1. \A z \in Zones : z # t => pc'[z] = pc[z]
    BY <1>2, ThreadSets
  <2>2. t \in Zones => pc'[t] = l
    BY <1>2
  <2> QED BY <1>1, <2>1, <2>2 DEF Collecting, Zones
<1>6. Alone(t)
  BY <1>2 DEF Alone
<1>7. Placed(t)'
  BY <1>2 DEF Placed, Op
<1>8. Steady'
  <2>1. \A z \in finished : mutex[z] = t => mutex'[z] # Nobody
    BY ThreadSets
  <2> QED BY <1>2, <1>6, <2>1, SteadyKept
<1> QED BY <1>3, <1>5, <1>6, <1>7, <1>8, AlonePlaced DEF TInv

LEMMA TStutter ==
  ASSUME TInv,
         UNCHANGED <<cond, finished, late, inGc, mutex, Table, promised, wp, zone, job, pc>>
  PROVE  TInv'
<1>1. Shape' /\ Collecting'
  BY DEF TInv, Shape, Collecting, Op, Pg, Zones, Threads
<1>2. ASSUME NEW t \in Threads PROVE Placed(t)' /\ Safe(t)' = Safe(t)
  <2>1. Op(t)' = Op(t) /\ InBody(t)' = InBody(t)
    BY DEF Op, InBody
  <2> QED BY <2>1 DEF TInv, Placed, Safe
<1>3. \A t \in Threads' : Placed(t)'
  BY <1>2 DEF Threads, Zones
<1>4. Steady'
  BY <1>2 DEF TInv, Steady, Threads, Zones
<1> QED BY <1>1, <1>3, <1>4 DEF TInv

LEMMA CrashTInv == ASSUME TInv, NEW why, Crash(why) PROVE TInv'
  BY TStutter DEF Crash, zoneVars, devVars, localVars

------------------------------------------------------------------------------
(***************************************************************************)
(* The main thread's calls.                                                *)
(***************************************************************************)
LEMMA InitTInv == Init => TInv
<1> SUFFICES ASSUME Init PROVE TInv
  OBVIOUS
<1> USE DEF Init
<1>1. Shape
  <2>1. pc \in [Threads -> Labels] /\ zone \in [Threads -> Zones]
    BY ZoneSet DEF Labels
  <2>2. /\ cond \in [Zones -> {"EMPTY", "OPEN", "FULL"}] /\ wp \in [Zones -> Nat]
        /\ inGc \in [Zones -> BOOLEAN] /\ finished \subseteq Zones
    OBVIOUS
  <2>3. mutex \in [Zones -> Threads \cup {Nobody}]
    OBVIOUS
  <2>4. Table \in [Pages -> (Zones \X Nat) \cup {NoAddr}]
    BY Zenon
  <2>5. /\ promised = [p \in Pages |-> promised[p]]
        /\ job = [t \in Threads |-> job[t]]
        /\ \A t \in Threads : job[t] = [op |-> Op(t), p |-> Pg(t), v |-> job[t].v]
    BY DEF NoJob, Op, Pg
  <2> QED BY <2>1, <2>2, <2>3, <2>4, <2>5 DEF Shape
<1>2. Collecting
  BY ThreadSets DEF Collecting, Given
<1>3. Steady
  BY ThreadSets DEF Steady, Safe, Writing, Given
<1>4. \A t \in Threads : Placed(t)
  BY DEF Placed, Choosing, Writing, Holding
<1> QED BY <1>1, <1>2, <1>3, <1>4 DEF TInv

LEMMA CallTInv ==
  ASSUME TInv, NEW op, NEW p, NEW v, NEW l \in {"scan", "lookup"},
         l = "scan" => op \in Ops, Call(op, p, v, l)
  PROVE  TInv'
<1>1. /\ pc[Main] = "idle" /\ GoTo(Main, l) /\ l \in Labels \ Holding
      /\ job' = [job EXCEPT ![Main] = [op |-> op, p |-> p, v |-> v]]
      /\ UNCHANGED <<cond, finished, late, inGc, mutex, Table, promised, wp, zone>>
  BY DEF Call, At, zoneVars, devVars, Labels, Choosing, Holding, Writing
<1>2. Shape /\ Main \in Threads /\ Main \notin Zones
  BY ThreadSets DEF TInv
<1>3. /\ job' = [u \in Threads |-> job'[u]]
      /\ \A u \in Threads : job'[u] = [op |-> job'[u].op, p |-> job'[u].p, v |-> job'[u].v]
      /\ \A u \in Threads \ {Main} : job'[u] = job[u]
      /\ job'[Main].op = op
  BY <1>1, <1>2 DEF Shape, Op, Pg
<1>4. l \in Choosing => job'[Main].op \in Ops
  BY <1>3 DEF Choosing
<1>5. wp' \in [Zones -> Nat] /\ zone' \in [Threads -> Zones]
  BY <1>1, <1>2 DEF Shape
<1> QED BY <1>1, <1>2, <1>3, <1>4, <1>5, LocalTInv

LEMMA DetectTInv == TInv /\ garbage_collection_detect => TInv'
<1> SUFFICES ASSUME TInv, garbage_collection_detect PROVE TInv'
  OBVIOUS
<1>1. /\ inGc' = [z \in Zones |-> inGc[z] \/ Collectable(z)]
      /\ pc' = [t \in Threads |->
                  IF t \in Zones /\ Collectable(t) THEN "start" ELSE pc[t]]
      /\ UNCHANGED <<cond, finished, late, mutex, Table, promised, wp, zone, job>>
  BY DEF garbage_collection_detect, zoneVars, devVars, localVars
<1>2. Shape /\ Collecting /\ Steady /\ Zones \subseteq Threads
  BY ThreadSets DEF TInv
<1>3. Shape'
  <2>1. pc' \in [Threads -> Labels]
    BY <1>1, <1>2 DEF Shape, Labels
  <2>2. inGc' \in [Zones -> BOOLEAN]
    <3>1. \A z \in Zones : (inGc[z] \/ Collectable(z)) \in BOOLEAN
      OBVIOUS
    <3> QED BY <1>1, <3>1, Zenon
  <2> QED BY <1>1, <1>2, <2>1, <2>2 DEF Shape, Op, Pg, Zones, Threads
<1>5. Collecting'
  <2>1. ASSUME NEW z \in Zones
        PROVE  /\ pc'[z] = "idle" <=> ~ inGc'[z]
               /\ pc'[z] \notin Given => cond[z] # "EMPTY"
    <3>1. CASE Collectable(z)
      BY <1>1, <1>2, <3>1 DEF Collectable
    <3>2. CASE ~ Collectable(z)
      BY <1>1, <1>2, <3>2 DEF Collecting
    <3> QED BY <3>1, <3>2
  <2> QED BY <1>1, <2>1 DEF Collecting, Zones
<1>6. ASSUME NEW t \in Threads PROVE Placed(t)' /\ (Safe(t) => Safe(t)')
  <2>1. CASE t \in Zones /\ Collectable(t)
    BY <1>1, <2>1 DEF Placed, Safe, Choosing, Writing, Holding
  <2>2. CASE ~ (t \in Zones /\ Collectable(t))
    <3>1. pc'[t] = pc[t] /\ job'[t] = job[t]
      BY <1>1, <2>2
    <3>2. Op(t)' = Op(t) /\ InBody(t)' = InBody(t)
      BY <3>1 DEF Op, InBody
    <3> QED BY <1>1, <3>1, <3>2 DEF TInv, Placed, Safe
  <2> QED BY <2>1, <2>2
<1>7. \A t \in Threads' : Placed(t)'
  BY <1>6 DEF Threads, Zones
<1>8. Steady'
  <2> SUFFICES ASSUME ~ late
               PROVE  /\ \A t \in Threads : Safe(t)'
                      /\ \A z \in Zones : pc'[z] \notin Given => cond[z] = "FULL"
                      /\ \A z \in finished : cond[z] = "OPEN" => mutex[z] # Nobody
    BY <1>1 DEF Steady, Zones, Threads
  <2>1. ASSUME NEW z \in Zones, pc'[z] \notin Given PROVE cond[z] = "FULL"
    BY <1>1, <1>2, <2>1 DEF Collectable, Steady
  <2> QED BY <1>2, <1>6, <2>1 DEF Steady
<1> QED BY <1>3, <1>5, <1>7, <1>8 DEF TInv

LEMMA MainCallsTInv == TInv /\ MainCalls => TInv'
<1> SUFFICES ASSUME TInv, MainCalls PROVE TInv'
  OBVIOUS
<1>1. ASSUME NEW p \in Pages, NEW v \in Vals, create_new_page(p, v) PROVE TInv'
  BY <1>1, CallTInv DEF create_new_page, Ops
<1>2. ASSUME NEW p \in Pages, NEW v \in Vals, write_page(p, v) PROVE TInv'
  BY <1>2, CallTInv DEF write_page, Ops
<1>3. ASSUME NEW p \in Pages, read_page(p) PROVE TInv'
  BY <1>3, CallTInv DEF read_page
<1> QED BY <1>1, <1>2, <1>3, DetectTInv DEF MainCalls

(* What LocalTInv asks of job, when it does not change.                    *)
LEMMA JobKept ==
  ASSUME TInv, job' = job
  PROVE  /\ job' = [u \in Threads |-> job'[u]]
         /\ \A u \in Threads : job'[u] = [op |-> job'[u].op, p |-> job'[u].p, v |-> job'[u].v]
  BY DEF TInv, Shape, Op, Pg

LEMMA ReadTInv == TInv /\ (Lookup \/ Pread) => TInv'
<1> SUFFICES ASSUME TInv, Lookup \/ Pread PROVE TInv'
  OBVIOUS
<1>0. Shape /\ Main \in Threads /\ Main \notin Zones
  BY ThreadSets DEF TInv
<1>1. CASE \E why \in {"lookup", "id"} : Crash(why)
  BY <1>1, CrashTInv
<1>2. CASE /\ GoTo(Main, "pread")
           /\ UNCHANGED <<cond, finished, late, inGc, mutex, Table, promised, wp, zone, job>>
  <2>1. /\ "pread" \in Labels \ Holding /\ "pread" \notin Choosing
        /\ wp' \in [Zones -> Nat] /\ zone' \in [Threads -> Zones]
    BY <1>0, <1>2 DEF Shape, Labels, Writing, Choosing, Holding
  <2> QED BY <1>0, <1>2, <2>1, JobKept, LocalTInv
<1>3. CASE /\ GoTo(Main, "idle")
           /\ job' = [job EXCEPT ![Main] = NoJob]
           /\ UNCHANGED <<cond, finished, late, inGc, mutex, Table, promised, wp, zone>>
  <2>1. /\ "idle" \in Labels \ Holding /\ "idle" \notin Choosing
        /\ wp' \in [Zones -> Nat] /\ zone' \in [Threads -> Zones]
        /\ job' = [u \in Threads |-> job'[u]]
        /\ \A u \in Threads : job'[u] = [op |-> job'[u].op, p |-> job'[u].p, v |-> job'[u].v]
        /\ \A u \in Threads \ {Main} : job'[u] = job[u]
    BY <1>0, <1>3 DEF Shape, Labels, Writing, Choosing, Holding, Op, Pg, NoJob
  <2> QED BY <1>0, <1>3, <2>1, LocalTInv
<1> QED BY <1>1, <1>2, <1>3 DEF Lookup, Pread, Quietly, zoneVars, devVars

------------------------------------------------------------------------------
(***************************************************************************)
(* select_write_zone and the mutex.                                        *)
(***************************************************************************)
(* A step within the choice of a zone that takes no mutex and changes no   *)
(* condition.                                                              *)
LEMMA ChoiceTInv ==
  ASSUME TInv, NEW t \in Threads, pc[t] \in Choosing, NEW l \in Choosing \ {"full"},
         GoTo(t, l), zone' \in [Threads -> Zones],
         \A u \in Threads \ {t} : zone'[u] = zone[u],
         UNCHANGED <<cond, finished, late, inGc, mutex, Table, promised, wp, job>>
  PROVE  TInv'
<1>1. l \in Labels \ Holding /\ pc[t] \notin Given
  BY DEF Labels, Choosing, Holding, Writing, Given
<1>2. Shape /\ Op(t) \in Ops
  BY DEF TInv, Placed
<1>3. wp' \in [Zones -> Nat] /\ job'[t].op \in Ops /\ l # "idle" /\ pc[t] # "idle"
  BY <1>2 DEF Shape, Op, Choosing
<1> QED BY <1>1, <1>3, JobKept, LocalTInv

LEMMA PastCases ==
  ASSUME TInv, NEW t \in Threads, NEW z \in Zones, NEW l, pc[t] \in Labels, Past(t, z, l)
  PROVE  /\ zone' \in [Threads -> Zones]
         /\ \A u \in Threads \ {t} : zone'[u] = zone[u]
         /\ GoTo(t, pc[t]) \/ GoTo(t, l)
<1>1. Shape
  BY DEF TInv
<1> QED BY <1>1, ZoneSet DEF Past, Shape, GoTo

LEMMA ScanTInv ==
  ASSUME TInv, NEW t \in Threads, Scan(t)
  PROVE  TInv'
<1> DEFINE z == zone[t]
<1>1. /\ Shape /\ pc[t] = "scan" /\ z \in Zones /\ pc[t] \in Labels
      /\ UNCHANGED <<cond, finished, late, inGc, mutex, Table, promised, wp, job>>
  BY DEF TInv, Shape, Scan, At, Quietly, zoneVars, devVars, Labels, Choosing
<1>2. {"scan", "pick", "lock", "finish"} \subseteq Choosing \ {"full"}
  BY DEF Choosing
<1>3. CASE Past(t, z, "pick")
  BY <1>1, <1>2, <1>3, PastCases, ChoiceTInv
<1>4. CASE (GoTo(t, "lock") \/ GoTo(t, "finish")) /\ zone' = zone
  BY <1>1, <1>2, <1>4, ChoiceTInv DEF Shape
<1> QED BY <1>3, <1>4 DEF Scan

LEMMA PickTInv ==
  ASSUME TInv, NEW t \in Threads, Pick(t)
  PROVE  TInv'
<1> DEFINE z == zone[t]
<1>1. /\ Shape /\ pc[t] = "pick" /\ z \in Zones /\ pc[t] \in Labels
  BY DEF TInv, Shape, Pick, At, Labels, Choosing
<1>2. {"pick", "open"} \subseteq Choosing \ {"full"}
  BY DEF Choosing
<1>3. CASE Crash("no zone")
  BY <1>3, CrashTInv
<1>4. CASE ~ Crash("no zone")
  <2>1. /\ UNCHANGED <<cond, finished, late, inGc, mutex, Table, promised, wp, job>>
        /\ Spare(z) \/ z + 1 \in Zones
        /\ IF Spare(z) THEN GoTo(t, "open") /\ UNCHANGED zone
                       ELSE zone' = [zone EXCEPT ![t] = z + 1] /\ UNCHANGED pc
    BY <1>4 DEF Pick, Quietly, zoneVars, devVars
  <2>2. /\ zone' \in [Threads -> Zones]
        /\ \A u \in Threads \ {t} : zone'[u] = zone[u]
        /\ GoTo(t, "open") \/ GoTo(t, "pick")
    BY <1>1, <2>1 DEF Shape, GoTo
  <2> QED BY <1>1, <1>2, <2>1, <2>2, ChoiceTInv
<1> QED BY <1>3, <1>4

LEMMA OpenTInv ==
  ASSUME TInv, NEW t \in Threads, Open(t) \/ Own(t)
  PROVE  TInv'
<1>1. CASE Crash("open")
  BY <1>1, CrashTInv
<1>2. CASE ~ Crash("open")
  <2>1. /\ pc[t] \in Choosing /\ (GoTo(t, "mark") \/ GoTo(t, "lock"))
        /\ UNCHANGED <<cond, finished, late, inGc, mutex, Table, promised, wp, job, zone>>
    BY <1>2 DEF Open, Own, At, Quietly, zoneVars, devVars, localVars, Choosing
  <2>2. {"mark", "lock"} \subseteq Choosing \ {"full"} /\ zone' \in [Threads -> Zones]
    BY <2>1 DEF Choosing, TInv, Shape
  <2> QED BY <2>1, <2>2, ChoiceTInv
<1> QED BY <1>1, <1>2

(* The thread takes a free mutex; nobody is writing to that zone.          *)
LEMMA FinishTInv ==
  ASSUME TInv, NEW t \in Threads, Finish(t)
  PROVE  TInv'
<1> DEFINE z == zone[t]
<1>1. /\ Shape /\ Collecting /\ Steady /\ Placed(t) /\ z \in Zones
      /\ pc[t] = "finish" /\ mutex[z] = Nobody /\ pc' = [pc EXCEPT ![t] = "full"]
      /\ mutex' = [mutex EXCEPT ![z] = t] /\ finished' = finished \cup {z}
      /\ UNCHANGED <<cond, late, inGc, Table, promised, wp, job, zone>>
  BY DEF TInv, Shape, Finish, At, GoTo, Quietly, zoneVars, localVars
<1> HIDE DEF z
<1>2. pc'[t] = "full" /\ \A u \in Threads : u # t => pc'[u] = pc[u]
  BY <1>1 DEF Shape
<1>3. Shape'
  <2>1. /\ pc' \in [Threads -> Labels] /\ finished' \subseteq Zones
        /\ mutex' \in [Zones -> Threads \cup {Nobody}]
    BY <1>1 DEF Shape, Labels, Choosing
  <2> QED BY <1>1, <2>1 DEF Shape, Op, Pg, Zones, Threads
<1>4. Collecting'
  BY <1>1, <1>2, ThreadSets DEF Collecting, Zones, Given
<1>5. Placed(t)'
  <2>1. Op(t)' = Op(t) /\ Op(t) \in Ops /\ mutex'[zone'[t]] = t
    BY <1>1 DEF Op, Placed, Choosing, Shape, z
  <2> QED BY <1>2, <2>1 DEF Placed, Writing
<1>6. Alone(t)
  BY <1>1, <1>2, ThreadSets DEF Alone, Shape
<1>7. Steady'
  <2> SUFFICES ASSUME ~ late
               PROVE  /\ \A u \in Threads : Safe(u)'
                      /\ \A y \in Zones : pc'[y] \notin Given => cond[y] = "FULL"
                      /\ \A y \in finished' : cond[y] = "OPEN" => mutex'[y] # Nobody
    BY <1>1 DEF Steady, Zones, Threads
  <2>1. ASSUME NEW u \in Threads PROVE Safe(u)'
    <3>1. CASE u = t
      BY <1>2, <3>1 DEF Safe, Writing
    <3>2. CASE u # t /\ pc[u] \in Writing
      <4>1. zone[u] # z
        BY <1>1, <3>2, ThreadSets DEF TInv, Placed, Holding
      <4> QED BY <1>1, <1>2, <3>2, <4>1 DEF Steady, Safe
    <3> QED BY <1>2, <3>1, <3>2 DEF Safe
  <2>2. ASSUME NEW y \in Zones, pc'[y] \notin Given PROVE cond[y] = "FULL"
    BY <1>1, <1>2, <2>2, ThreadSets DEF Steady, Given
  <2>3. ASSUME NEW y \in finished', cond[y] = "OPEN" PROVE mutex'[y] # Nobody
    BY <1>1, <2>3, ThreadSets DEF Steady, Shape
  <2> QED BY <2>1, <2>2, <2>3
<1> QED BY <1>3, <1>4, <1>5, <1>6, <1>7, AlonePlaced DEF TInv

LEMMA MarkFullTInv ==
  ASSUME TInv, NEW t \in Threads, MarkFull(t)
  PROVE  TInv'
<1> DEFINE z == zone[t]
           l == IF z + 1 \in Zones THEN "scan" ELSE "pick"
<1>1. /\ Shape /\ Collecting /\ Steady /\ Placed(t) /\ z \in Zones
      /\ pc[t] = "full" /\ mutex[z] = t /\ pc' = [pc EXCEPT ![t] = l]
      /\ cond' = [cond EXCEPT ![z] = "FULL"]
      /\ mutex' = [mutex EXCEPT ![z] = Nobody]
      /\ zone' = [zone EXCEPT ![t] = IF z + 1 \in Zones THEN z + 1 ELSE 0]
      /\ UNCHANGED <<finished, late, inGc, Table, promised, wp, job>>
  BY DEF TInv, Shape, MarkFull, At, GoTo, Quietly, devVars, Placed, Holding
<1>2. l \in Choosing \ Holding /\ zone' \in [Threads -> Zones]
  BY <1>1, ZoneSet DEF Choosing, Holding, Writing, Shape
<1> HIDE DEF z, l
<1>3. pc'[t] = l /\ \A u \in Threads : u # t => pc'[u] = pc[u]
  BY <1>1 DEF Shape
<1>4. Shape'
  <2>1. /\ pc' \in [Threads -> Labels] /\ cond' \in [Zones -> {"EMPTY", "OPEN", "FULL"}]
        /\ mutex' \in [Zones -> Threads \cup {Nobody}]
    BY <1>1, <1>2 DEF Shape, Labels
  <2>2. Shape /\ UNCHANGED <<finished, inGc, Table, promised, wp, job>>
    BY <1>1
  <2> QED BY <1>2, <2>1, <2>2 DEF Shape, Op, Pg, Zones, Threads
<1>5. Collecting'
  <2>1. \A y \in Zones : cond[y] # "EMPTY" => cond'[y] # "EMPTY"
    BY <1>1 DEF Shape
  <2> QED BY <1>1, <1>2, <1>3, <2>1, ThreadSets DEF Collecting, Zones, Given, Choosing
<1>6. Placed(t)'
  <2>1. Op(t)' = Op(t) /\ Op(t) \in Ops
    BY <1>1 DEF Op, Placed, Choosing, Shape
  <2> QED BY <1>2, <1>3, <2>1 DEF Placed, Holding
<1>7. Alone(t)
  BY <1>1, <1>3 DEF Alone, Shape
<1>8. Steady'
  <2> SUFFICES ASSUME ~ late
               PROVE  /\ \A u \in Threads : Safe(u)'
                      /\ \A y \in Zones : pc'[y] \notin Given => cond'[y] = "FULL"
                      /\ \A y \in finished : cond'[y] = "OPEN" => mutex'[y] # Nobody
    BY <1>1 DEF Steady, Zones, Threads
  <2>1. ASSUME NEW u \in Threads PROVE Safe(u)'
    <3>1. CASE u = t
      BY <1>2, <1>3, <3>1 DEF Safe, Holding
    <3>2. CASE u # t /\ pc[u] \in Writing
      <4>1. zone[u] # z /\ zone'[u] = zone[u] /\ Safe(u)
        BY <1>1, <3>2, ThreadSets DEF TInv, Placed, Holding, Shape, Steady
      <4> QED BY <1>1, <3>2, <4>1 DEF Safe, Shape
    <3> QED BY <1>3, <3>1, <3>2 DEF Safe
  <2>2. ASSUME NEW y \in Zones, pc'[y] \notin Given PROVE cond'[y] = "FULL"
    <3>1. pc[y] \notin Given
      BY <1>1, <1>3, <2>2, ThreadSets DEF Given
    <3> QED BY <1>1, <3>1 DEF Steady, Shape
  <2>3. ASSUME NEW y \in finished, cond'[y] = "OPEN" PROVE mutex'[y] # Nobody
    BY <1>1, <2>3 DEF Steady, Shape
  <2> QED BY <2>1, <2>2, <2>3
<1> QED BY <1>4, <1>5, <1>6, <1>7, <1>8, AlonePlaced DEF TInv

(* The store that may be late.                                             *)
LEMMA MarkOpenTInv ==
  ASSUME TInv, NEW t \in Threads, MarkOpen(t)
  PROVE  TInv'
<1> DEFINE z == zone[t]
<1>1. /\ Shape /\ Collecting /\ Steady /\ Placed(t) /\ z \in Zones
      /\ pc[t] = "mark" /\ pc' = [pc EXCEPT ![t] = "own"]
      /\ cond' = [cond EXCEPT ![z] = "OPEN"]
      /\ late' = (late \/ cond[z] = "FULL" \/ z \in finished)
      /\ UNCHANGED <<finished, inGc, mutex, Table, promised, wp, job, zone>>
  BY DEF TInv, Shape, MarkOpen, At, GoTo, devVars, localVars
<1> HIDE DEF z
<1>2. pc'[t] = "own" /\ \A u \in Threads : u # t => pc'[u] = pc[u]
  BY <1>1 DEF Shape
<1>3. Shape'
  <2>1. /\ pc' \in [Threads -> Labels] /\ cond' \in [Zones -> {"EMPTY", "OPEN", "FULL"}]
    BY <1>1 DEF Shape, Labels, Choosing
  <2> QED BY <1>1, <2>1 DEF Shape, Op, Pg, Zones, Threads
<1>4. Collecting'
  <2>1. \A y \in Zones : cond[y] # "EMPTY" => cond'[y] # "EMPTY"
    BY <1>1 DEF Shape
  <2> QED BY <1>1, <1>2, <2>1, ThreadSets DEF Collecting, Zones, Given
<1>5. Placed(t)'
  <2>1. Op(t)' = Op(t) /\ Op(t) \in Ops
    BY <1>1 DEF Op, Placed, Choosing
  <2> QED BY <1>2, <2>1 DEF Placed, Holding, Writing
<1>6. Alone(t)
  BY <1>1, <1>2 DEF Alone
<1>7. Steady'
  <2> SUFFICES ASSUME ~ late, cond[z] # "FULL", z \notin finished
               PROVE  /\ \A u \in Threads : Safe(u)'
                      /\ \A y \in Zones : pc'[y] \notin Given => cond'[y] = "FULL"
                      /\ \A y \in finished : cond'[y] = "OPEN" => mutex[y] # Nobody
    BY <1>1 DEF Steady, Zones, Threads
  <2>1. ASSUME NEW u \in Threads PROVE Safe(u)'
    <3>1. CASE u = t
      BY <1>2, <3>1 DEF Safe, Writing
    <3>2. CASE u # t
      <4>1. Safe(u) /\ zone[u] \in Zones
        BY <1>1 DEF Steady, Shape
      <4> QED BY <1>1, <1>2, <3>2, <4>1 DEF Safe, Shape
    <3> QED BY <3>1, <3>2
  <2>2. ASSUME NEW y \in Zones, pc'[y] \notin Given PROVE cond'[y] = "FULL"
    <3>1. pc[y] \notin Given
      BY <1>1, <1>2, <2>2, ThreadSets DEF Given
    <3> QED BY <1>1, <3>1 DEF Steady, Shape
  <2>3. ASSUME NEW y \in finished, cond'[y] = "OPEN" PROVE mutex[y] # Nobody
    BY <1>1, <2>3 DEF Steady, Shape
  <2> QED BY <2>1, <2>2, <2>3
<1> QED BY <1>3, <1>4, <1>5, <1>6, <1>7, AlonePlaced DEF TInv

LEMMA LockTInv ==
  ASSUME TInv, NEW t \in Threads, Lock(t)
  PROVE  TInv'
<1> DEFINE z == zone[t]
           l == Body(Op(t))[1]
<1>0. /\ Shape /\ Collecting /\ Steady /\ Placed(t) /\ pc[t] = "lock"
      /\ Op(t) \in Ops /\ z \in Zones /\ mutex[z] = Nobody
      /\ UNCHANGED <<cond, finished, late, wp, inGc, Table, promised>>
  BY DEF TInv, Shape, Lock, At, Placed, Choosing, Quietly, zoneVars, devVars
<1>1. CASE cond[z] = "OPEN"
  <2>1. mutex' = [mutex EXCEPT ![z] = t] /\ pc' = [pc EXCEPT ![t] = l] /\ GoTo(t, l)
        /\ UNCHANGED <<zone, job>>
    BY <1>1 DEF Lock, GoTo
  <2>2. l \in Writing /\ l \in Labels /\ 1 \in DOMAIN Body(Op(t)) /\ pc[t] \notin Given
    BY <1>0, BodyShape DEF Labels, Given
  <2> HIDE DEF z, l
  <2>3. Shape'
    <3>1. mutex' \in [Zones -> Threads \cup {Nobody}] /\ pc' \in [Threads -> Labels]
      BY <1>0, <2>1, <2>2 DEF Shape
    <3> QED BY <1>0, <2>1, <3>1 DEF Shape, Op, Pg, Zones, Threads
  <2>5. Collecting'
    <3>1. \A y \in Zones : y # t => pc'[y] = pc[y]
      BY <1>0, <2>1 DEF Shape
    <3>2. t \in Zones => pc'[t] = l
      BY <1>0, <2>1 DEF Shape
    <3> QED BY <1>0, <2>2, <3>1, <3>2 DEF Collecting, Zones, Writing, Given
  <2>6. Placed(t)'
    <3>1. pc'[t] = l /\ Op(t)' = Op(t) /\ zone'[t] = z /\ mutex'[z] = t
      BY <1>0, <2>1 DEF Shape, Op, z
    <3>2. InBody(t)'
      BY <1>0, <2>2, <3>1 DEF InBody, Ops, l
    <3> QED BY <1>0, <3>1, <3>2 DEF Placed
  <2>7. Alone(t)
    BY <1>0, <2>1, ThreadSets DEF Shape, Alone
  <2>8. Steady'
    <3>1. ~ late => z \notin finished
      BY <1>0, <1>1 DEF Steady
    <3>2. zone'[t] = z
      BY <2>1 DEF z
    <3>3. \A y \in finished : mutex[y] = t => mutex'[y] # Nobody
      BY <1>0, <2>1, ThreadSets DEF Shape
    <3> QED BY <1>0, <1>1, <2>1, <2>2, <2>7, <3>1, <3>2, <3>3, SteadyKept
  <2> QED BY <2>3, <2>5, <2>6, <2>7, <2>8, AlonePlaced DEF TInv
<1>2. CASE cond[z] # "OPEN"
  <2> DEFINE o == IF Op(t) = "new" THEN "write" ELSE Op(t)
  <2>1. /\ GoTo(t, "scan") /\ zone' = [zone EXCEPT ![t] = 0] /\ mutex' = mutex
        /\ job' = [job EXCEPT ![t] = [job[t] EXCEPT !.op = o]]
    BY <1>2 DEF Lock, Op
  <2>2. o \in Ops
    BY <1>0 DEF Ops
  <2> HIDE DEF o
  <2>3. job'[t] = [op |-> o, p |-> Pg(t), v |-> job[t].v]
    BY <1>0, <2>1 DEF Shape
  <2>4. /\ job' = [u \in Threads |-> job'[u]]
        /\ \A u \in Threads \ {t} : job'[u] = job[u]
    BY <1>0, <2>1 DEF Shape
  <2>5. \A u \in Threads : job'[u] = [op |-> job'[u].op, p |-> job'[u].p, v |-> job'[u].v]
    BY <1>0, <2>3, <2>4 DEF Shape, Op, Pg
  <2>6. "scan" \in Labels \ Holding /\ job'[t].op \in Ops /\ pc[t] \notin Given
    BY <1>0, <2>2, <2>3 DEF Labels, Choosing, Holding, Writing, Given
  <2>7. /\ wp' \in [Zones -> Nat] /\ zone' \in [Threads -> Zones]
        /\ \A u \in Threads \ {t} : zone'[u] = zone[u]
    BY <1>0, <2>1, ZoneSet DEF Shape
  <2> QED BY <1>0, <2>1, <2>4, <2>5, <2>6, <2>7, LocalTInv
<1> QED BY <1>1, <1>2

------------------------------------------------------------------------------
(***************************************************************************)
(* The statements under the mutex, and the collector's own steps.          *)
(***************************************************************************)
LEMMA PointerMoved ==
  ASSUME wp \in [Zones -> Nat], NEW z
  PROVE  [wp EXCEPT ![z] = @ + 1] \in [Zones -> Nat]
<1>1. z \in Zones => wp[z] + 1 \in Nat
  OBVIOUS
<1> QED BY <1>1

LEMMA FindTInv ==
  ASSUME TInv, NEW t \in Threads, NEW l \in Writing, NEW bit, Find(t, l, bit)
  PROVE  TInv'
<1>1. CASE \E why \in {"lookup", "bit"} : Crash(why)
  BY <1>1, CrashTInv
<1>2. CASE Onward(t) /\ UNCHANGED <<zoneVars, devVars, Table, inGc, late>>
  <2>1. /\ pc[t] \in Writing /\ cond' = cond /\ finished' = finished
        /\ wp' \in [Zones -> Nat]
        /\ Table' \in [Pages -> (Zones \X Nat) \cup {NoAddr}]
    BY <1>2 DEF Find, At, zoneVars, devVars, TInv, Shape
  <2> QED BY <1>2, <2>1, WritingTInv
<1> QED BY <1>1, <1>2 DEF Find

LEMMA SetValidTInv ==
  ASSUME TInv, NEW t \in Threads, NEW l \in Writing, NEW bit, SetValid(t, l, bit)
  PROVE  TInv'
<1>1. /\ pc[t] \in Writing /\ Onward(t) /\ cond' = cond /\ finished' = finished
      /\ inGc' = inGc /\ Table' = Table /\ late' = late
      /\ wp' = IF bit /\ Op(t) = "gc" THEN [wp EXCEPT ![zone[t]] = @ + 1] ELSE wp
  BY DEF SetValid, At, devVars
<1>2. wp \in [Zones -> Nat] /\ Table \in [Pages -> (Zones \X Nat) \cup {NoAddr}]
  BY DEF TInv, Shape
<1>3. wp' \in [Zones -> Nat]
  BY <1>1, <1>2, PointerMoved
<1> QED BY <1>1, <1>2, <1>3, WritingTInv

LEMMA EraseTInv ==
  ASSUME TInv, NEW t \in Threads, Erase(t)
  PROVE  TInv'
<1>1. /\ pc[t] \in Writing /\ Onward(t) /\ cond' = cond /\ finished' = finished
      /\ inGc' = inGc /\ late' = late /\ wp' \in [Zones -> Nat]
      /\ Table' = [Table EXCEPT ![Pg(t)] = NoAddr]
  BY DEF Erase, At, zoneVars, devVars, Writing, TInv, Shape
<1>2. Table' \in [Pages -> (Zones \X Nat) \cup {NoAddr}]
  BY <1>1 DEF TInv, Shape
<1> QED BY <1>1, <1>2, WritingTInv

LEMMA InsertTInv ==
  ASSUME TInv, NEW t \in Threads, Insert(t)
  PROVE  TInv'
<1>1. /\ pc[t] \in Writing /\ Onward(t) /\ cond' = cond /\ finished' = finished
      /\ inGc' = inGc /\ late' = late /\ wp' \in [Zones -> Nat]
      /\ Table' = [Table EXCEPT ![Pg(t)] =
                     IF @ = NoAddr THEN <<zone[t], wp[zone[t]]>> ELSE @]
  BY DEF Insert, At, zoneVars, devVars, Writing, TInv, Shape
<1>2. <<zone[t], wp[zone[t]]>> \in Zones \X Nat
  BY DEF TInv, Shape
<1>3. Table' \in [Pages -> (Zones \X Nat) \cup {NoAddr}]
  BY <1>1, <1>2 DEF TInv, Shape
<1> QED BY <1>1, <1>3, WritingTInv

LEMMA PwriteTInv ==
  ASSUME TInv, NEW t \in Threads, Pwrite(t)
  PROVE  TInv'
<1>1. CASE \E why \in {"full", "pwrite"} : Crash(why)
  BY <1>1, CrashTInv
<1>2. CASE /\ Onward(t)
           /\ wp' = IF Op(t) = "gc" THEN wp ELSE [wp EXCEPT ![zone[t]] = @ + 1]
           /\ UNCHANGED <<cond, finished, late, inGc, Table>>
  <2>1. pc[t] \in Writing
    BY DEF Pwrite, At, Writing
  <2>2. /\ wp' \in [Zones -> Nat]
        /\ Table' \in [Pages -> (Zones \X Nat) \cup {NoAddr}]
    BY <1>2, PointerMoved DEF TInv, Shape
  <2> QED BY <1>2, <2>1, <2>2, WritingTInv
<1> QED BY <1>1, <1>2 DEF Pwrite

LEMMA WriterTInv ==
  ASSUME TInv, NEW t \in Threads, Writer(t)
  PROVE  TInv'
<1>1. "find" \in Writing /\ "clear" \in Writing /\ "find2" \in Writing
      /\ "set" \in Writing
  BY DEF Writing
<1> QED BY <1>1, ScanTInv, FinishTInv, MarkFullTInv, PickTInv, OpenTInv, MarkOpenTInv,
           LockTInv, FindTInv, SetValidTInv, EraseTInv, InsertTInv, PwriteTInv DEF Writer

(* A collector's step that changes neither conditions nor flags.           *)
LEMMA QuietTInv ==
  ASSUME TInv, NEW z \in Zones, NEW l \in Labels \ Holding, l \notin Choosing, l # "idle",
         GoTo(z, l), pc[z] # "idle", l \in Given \/ pc[z] \notin Given,
         wp' \in [Zones -> Nat],
         UNCHANGED <<cond, finished, late, inGc, mutex, Table, promised, zone, job>>
  PROVE  TInv'
<1>1. z \in Threads /\ zone' \in [Threads -> Zones]
  BY ThreadSets DEF TInv, Shape
<1> QED BY <1>1, JobKept, LocalTInv

LEMMA GcStepsTInv ==
  ASSUME TInv, NEW z \in Zones, GcStart(z) \/ GcDisown(z) \/ GcRewind(z)
  PROVE  TInv'
<1>1. wp \in [Zones -> Nat]
  BY DEF TInv, Shape
<1>2. {"look", "rewind", "sweep"} \subseteq (Labels \ Holding) \ (Choosing \cup {"idle"})
  BY DEF Labels, Choosing, Holding, Writing
<1>3. CASE GcStart(z)
  <2>1. /\ pc[z] = "start" /\ GoTo(z, "look") /\ wp' = wp
        /\ UNCHANGED <<cond, finished, late, inGc, mutex, Table, promised, zone, job>>
    BY <1>3 DEF GcStart, At, zoneVars, devVars, localVars
  <2> QED BY <1>1, <1>2, <2>1, QuietTInv DEF Given
<1>4. CASE GcDisown(z)
  <2>1. /\ pc[z] = "disown" /\ GoTo(z, "rewind") /\ wp' = wp
        /\ UNCHANGED <<cond, finished, late, inGc, mutex, Table, promised, zone, job>>
    BY <1>4 DEF GcDisown, At, Quietly, devVars, localVars
  <2> QED BY <1>1, <1>2, <2>1, QuietTInv DEF Given
<1>5. CASE GcRewind(z)
  <2>1. /\ pc[z] = "rewind" /\ GoTo(z, "sweep") /\ wp' = [wp EXCEPT ![z] = 0]
        /\ UNCHANGED <<cond, finished, late, inGc, mutex, Table, promised, zone, job>>
    BY <1>5 DEF GcRewind, At, Quietly, devVars, localVars
  <2>2. wp' \in [Zones -> Nat]
    BY <1>1, <2>1
  <2> QED BY <1>2, <2>1, <2>2, QuietTInv DEF Given
<1> QED BY <1>3, <1>4, <1>5

LEMMA GcLookTInv ==
  ASSUME TInv, NEW z \in Zones, GcLook(z)
  PROVE  TInv'
<1>0. /\ pc[z] = "look"
      /\ UNCHANGED <<cond, finished, late, wp, inGc, mutex, Table, promised, zone>>
  BY DEF GcLook, At, zoneVars, devVars, Quietly
<1>1. /\ Shape /\ z \in Threads
  BY <1>0, ThreadSets DEF TInv
<1>2. CASE UNCHANGED <<job, pc>>
  BY <1>0, <1>2, TStutter
<1>3. ASSUME NEW p, NEW v, job' = [job EXCEPT ![z] = [op |-> "gc", p |-> p, v |-> v]],
             GoTo(z, "scan")
      PROVE  TInv'
  <2>1. /\ job' = [u \in Threads |-> job'[u]]
        /\ \A u \in Threads \ {z} : job'[u] = job[u]
        /\ job'[z] = [op |-> "gc", p |-> p, v |-> v]
    BY <1>1, <1>3 DEF Shape
  <2>2. \A u \in Threads : job'[u] = [op |-> job'[u].op, p |-> job'[u].p, v |-> job'[u].v]
    BY <1>1, <2>1 DEF Shape, Op, Pg
  <2>4. /\ "scan" \in Labels \ Holding /\ pc[z] \notin Given /\ job'[z].op \in Ops
        /\ wp' \in [Zones -> Nat] /\ zone' \in [Threads -> Zones]
    BY <1>0, <1>1, <2>1 DEF Shape, Labels, Choosing, Writing, Holding, Given, Ops
  <2> QED BY <1>0, <1>1, <1>3, <2>1, <2>2, <2>4, LocalTInv
<1> QED BY <1>2, <1>3 DEF GcLook

LEMMA GcResetTInv ==
  ASSUME TInv, NEW z \in Zones, GcReset(z)
  PROVE  TInv'
<1>1. /\ pc[z] = "look" /\ pc' = [pc EXCEPT ![z] = "empty"]
      /\ finished' = finished \ {z}
      /\ UNCHANGED <<cond, late, wp, inGc, mutex, Table, promised, zone, job>>
  BY DEF GcReset, At, GoTo, Quietly, localVars, zoneVars
<1>2. /\ Shape /\ Collecting /\ Steady /\ z \in Threads
  BY ThreadSets DEF TInv
<1>3. pc'[z] = "empty" /\ \A u \in Threads : u # z => pc'[u] = pc[u]
  BY <1>1, <1>2 DEF Shape
<1>4. Shape'
  <2>1. finished' \subseteq Zones /\ pc' \in [Threads -> Labels]
    BY <1>1, <1>2 DEF Shape, Labels
  <2> QED BY <1>1, <1>2, <2>1 DEF Shape, Op, Pg, Zones, Threads
<1>5. Collecting'
  BY <1>1, <1>2, <1>3, ThreadSets DEF Collecting, Zones, Given
<1>6. Placed(z)'
  BY <1>3 DEF Placed, Choosing, Writing, Holding
<1>7. Alone(z)
  BY <1>1, <1>3 DEF Alone
<1>8. Steady'
  <2>1. \A u \in Threads : Safe(u) => Safe(u)'
    BY <1>1, <1>3 DEF Safe, Writing
  <2>2. \A y \in Zones : pc'[y] \notin Given => pc[y] \notin Given
    BY <1>1, <1>3, ThreadSets DEF Given
  <2> QED BY <1>1, <1>2, <2>1, <2>2 DEF Steady, Threads, Zones
<1> QED BY <1>2, <1>4, <1>5, <1>6, <1>7, <1>8, AlonePlaced DEF TInv

(* The zone a collector gives up was full, so no thread is writing to it.  *)
LEMMA GcEmptyTInv ==
  ASSUME TInv, NEW z \in Zones, GcEmpty(z)
  PROVE  TInv'
<1>1. /\ pc[z] = "empty" /\ pc' = [pc EXCEPT ![z] = "disown"]
      /\ cond' = [cond EXCEPT ![z] = "EMPTY"]
      /\ UNCHANGED <<finished, late, wp, inGc, mutex, Table, promised, zone, job>>
  BY DEF GcEmpty, At, GoTo, Quietly, localVars, devVars
<1>2. /\ Shape /\ Collecting /\ Steady /\ z \in Threads
  BY ThreadSets DEF TInv
<1>3. pc'[z] = "disown" /\ \A u \in Threads : u # z => pc'[u] = pc[u]
  BY <1>1, <1>2 DEF Shape
<1>4. Shape'
  <2>1. cond' \in [Zones -> {"EMPTY", "OPEN", "FULL"}] /\ pc' \in [Threads -> Labels]
    BY <1>1, <1>2 DEF Shape, Labels
  <2> QED BY <1>1, <1>2, <2>1 DEF Shape, Op, Pg, Zones, Threads
<1>5. Collecting'
  <2>1. \A y \in Zones : y # z => cond'[y] = cond[y] /\ pc'[y] = pc[y]
    BY <1>1, <1>2, <1>3, ThreadSets DEF Shape
  <2> QED BY <1>1, <1>2, <1>3, <2>1 DEF Collecting, Zones, Given
<1>6. Placed(z)'
  BY <1>3 DEF Placed, Choosing, Writing, Holding
<1>7. Alone(z)
  BY <1>1, <1>3 DEF Alone
<1>8. Steady'
  <2> SUFFICES ASSUME ~ late
               PROVE  /\ \A u \in Threads : Safe(u)'
                      /\ \A y \in Zones : pc'[y] \notin Given => cond'[y] = "FULL"
                      /\ \A y \in finished : cond'[y] = "OPEN" => mutex[y] # Nobody
    BY <1>1 DEF Steady, Zones, Threads
  <2>1. cond[z] = "FULL" /\ \A u \in Threads : Safe(u)
    BY <1>1, <1>2 DEF Steady, Given
  <2>2. ASSUME NEW u \in Threads PROVE Safe(u)'
    BY <1>1, <1>2, <1>3, <2>1 DEF Safe, Writing, Shape
  <2>3. ASSUME NEW y \in Zones, pc'[y] \notin Given PROVE cond'[y] = "FULL"
    BY <1>1, <1>2, <1>3, <2>3, ThreadSets DEF Steady, Given, Shape
  <2>4. ASSUME NEW y \in finished, cond'[y] = "OPEN" PROVE mutex[y] # Nobody
    BY <1>1, <1>2, <2>4 DEF Steady, Shape
  <2> QED BY <2>2, <2>3, <2>4
<1> QED BY <1>2, <1>4, <1>5, <1>6, <1>7, <1>8, AlonePlaced DEF TInv

LEMMA GcSweepTInv ==
  ASSUME TInv, NEW z \in Zones, GcSweep(z)
  PROVE  TInv'
<1>1. /\ pc[z] = "sweep" /\ pc' = [pc EXCEPT ![z] = "idle"] /\ GoTo(z, "idle")
      /\ inGc' = [inGc EXCEPT ![z] = FALSE]
      /\ UNCHANGED <<cond, finished, late, wp, mutex, Table, promised, zone, job>>
  BY DEF GcSweep, At, GoTo, zoneVars, devVars
<1>2. /\ Shape /\ Collecting /\ z \in Threads
  BY ThreadSets DEF TInv
<1>3. Shape'
  <2>1. inGc' \in [Zones -> BOOLEAN] /\ pc' \in [Threads -> Labels]
    BY <1>1, <1>2 DEF Shape, Labels
  <2> QED BY <1>1, <1>2, <2>1 DEF Shape, Op, Pg, Zones, Threads
<1>5. pc'[z] = "idle" /\ \A y \in Threads : y # z => pc'[y] = pc[y]
  BY <1>1, <1>2 DEF Shape
<1>6. Collecting'
  <2>1. ~ inGc'[z] /\ \A y \in Zones : y # z => inGc'[y] = inGc[y]
    BY <1>1, <1>2 DEF Shape
  <2> QED BY <1>1, <1>2, <1>5, <2>1, ThreadSets DEF Collecting, Zones, Given
<1>7. Placed(z)'
  BY <1>5 DEF Placed, Choosing, Writing, Holding
<1>8. Alone(z)
  BY <1>1, <1>5 DEF Alone
<1>9. Steady'
  <2>1. /\ "idle" \in Labels /\ "idle" \in Given /\ "idle" \notin Writing
        /\ \A y \in finished : mutex[y] = z => mutex'[y] # Nobody
    BY <1>1, <1>2, ThreadSets DEF Labels, Given, Writing
  <2> QED BY <1>1, <1>2, <1>8, <2>1, SteadyKept
<1> QED BY <1>2, <1>3, <1>6, <1>7, <1>8, <1>9, AlonePlaced DEF TInv

LEMMA NextTInv == TInv /\ [Next]_vars => TInv'
<1> SUFFICES ASSUME TInv, [Next]_vars PROVE TInv'
  OBVIOUS
<1>1. CASE MainSteps
  BY <1>1, ReadTInv, WriterTInv, ThreadSets DEF MainSteps
<1>2. ASSUME NEW z \in Zones, Collector(z) PROVE TInv'
  <2>1. z \in Threads
    BY ThreadSets
  <2> QED BY <1>2, <2>1, WriterTInv, GcStepsTInv, GcLookTInv, GcResetTInv,
             GcEmptyTInv, GcSweepTInv DEF Collector
<1>3. CASE UNCHANGED vars
  BY <1>3, TStutter DEF vars, zoneVars, devVars, localVars
<1> QED BY <1>1, <1>2, <1>3, MainCallsTInv DEF Next

------------------------------------------------------------------------------
(***************************************************************************)
(* Mutual exclusion and open zones.                                        *)
(***************************************************************************)
(* The inductive invariant holds in every behaviour.                       *)
THEOREM SpecTInv == Spec => []TInv
<1>1. Init => TInv
  BY InitTInv
<1>2. TInv /\ [Next]_vars => TInv'
  BY NextTInv
<1> QED BY <1>1, <1>2, PTL DEF Spec

(* As long as no zone is marked open too late, a thread writes only into   *)
(* an open zone whose mutex it holds, although zones are chosen, opened    *)
(* and reset without it.                                                   *)
THEOREM SpecHeldZoneOpen == Spec => []HeldZoneOpen
<1>1. TInv => HeldZoneOpen
  <2> SUFFICES ASSUME TInv, ~ late, NEW t \in Threads, InBody(t)
               PROVE  /\ mutex[zone[t]] = t /\ cond[zone[t]] = "OPEN"
                      /\ zone[t] \notin finished
    BY DEF HeldZoneOpen
  <2>1. pc[t] \in Writing
    BY BodyShape DEF InBody, Ops
  <2> QED BY <2>1 DEF TInv, Placed, Holding, Steady, Safe
<1> QED BY <1>1, SpecTInv, PTL

------------------------------------------------------------------------------
(***************************************************************************)
(* Entries of Table.                                                       *)
(***************************************************************************)
(* A step of thread t that takes an entry away is about to insert one, and *)
(* one that was about to insert one does.                                  *)
LEMMA EntryStep ==
  ASSUME EntryInv, NEW t \in Threads,
         \A u \in Threads \ {t} : pc'[u] = pc[u] /\ job'[u] = job[u],
         \A p \in Pages : Table[p] # NoAddr =>
           Table'[p] # NoAddr \/ (pc'[t] = "insert" /\ Pg(t)' = p),
         \A p \in Pages : pc[t] = "insert" /\ Pg(t) = p => Table'[p] # NoAddr,
         \A p \in Pages : Due(p)' =>
           Due(p) \/ Table'[p] # NoAddr \/ (pc'[t] = "insert" /\ Pg(t)' = p)
  PROVE  EntryInv'
<1> SUFFICES ASSUME NEW p \in Pages, Due(p)' PROVE HasEntry(p)'
  BY DEF EntryInv
<1>1. Threads' = Threads
  BY DEF Threads, Zones
<1>2. CASE Table'[p] # NoAddr
  BY <1>2 DEF HasEntry
<1>3. CASE pc'[t] = "insert" /\ Pg(t)' = p
  BY <1>1, <1>3 DEF HasEntry
<1>4. CASE Due(p)
  <2>1. CASE Table[p] # NoAddr
    BY <2>1, <1>2, <1>3
  <2>2. ASSUME NEW u \in Threads, pc[u] = "insert", Pg(u) = p PROVE HasEntry(p)'
    <3>1. CASE u = t
      BY <1>2, <2>2, <3>1
    <3>2. CASE u # t
      <4>1. pc'[u] = "insert" /\ Pg(u)' = p
        BY <2>2, <3>2 DEF Pg
      <4> QED BY <1>1, <4>1 DEF HasEntry
    <3> QED BY <3>1, <3>2
  <2> QED BY <1>4, <2>1, <2>2 DEF EntryInv, HasEntry
<1> QED BY <1>2, <1>3, <1>4

(* A statement under the mutex.                                            *)
LEMMA WritingEntry ==
  ASSUME TInv, EntryInv, NEW t \in Threads, pc[t] \in Writing, Onward(t),
         \A p \in Pages : Table[p] # NoAddr =>
           Table'[p] # NoAddr \/ (pc[t] = "erase" /\ Pg(t) = p),
         \A p \in Pages : pc[t] \in {"find", "insert"} /\ Pg(t) = p => Table'[p] # NoAddr
  PROVE  EntryInv'
<1>1. PICK l \in Labels : GoTo(t, l) /\ (ToNext(t, l) \/ ToEnd(t, l))
  BY OnwardCases DEF TInv
<1>2. /\ pc'[t] = l /\ \A u \in Threads \ {t} : pc'[u] = pc[u]
      /\ job = [u \in Threads |-> job[u]]
      /\ promised = [p \in Pages |-> promised[p]]
  BY <1>1 DEF TInv, Shape, GoTo
<1>3. CASE ToNext(t, l)
  <2>1. \A u \in Threads : job'[u] = job[u] /\ Pg(u)' = Pg(u)
    BY <1>3 DEF ToNext, Pg
  <2>2. \A p \in Pages : Table[p] # NoAddr =>
          Table'[p] # NoAddr \/ (pc'[t] = "insert" /\ Pg(t)' = p)
    BY <1>2, <1>3, <2>1 DEF ToNext
  <2>3. ASSUME NEW p \in Pages, Due(p)' PROVE Due(p) \/ Table'[p] # NoAddr
    <3>1. CASE promised'[p] # Absent
      BY <1>3, <3>1 DEF ToNext, Due
    <3>2. CASE Pg(Main)' = p /\ pc'[Main] \in Writing \ {"find"}
      <4>1. Pg(Main) = p
        BY <2>1, <3>2, ThreadSets
      <4>2. CASE t = Main
        BY <3>2, <4>1, <4>2 DEF Due
      <4>3. CASE t # Main
        BY <1>2, <3>2, <4>1, <4>3, ThreadSets DEF Due
      <4> QED BY <4>2, <4>3
    <3> QED BY <2>3, <3>1, <3>2 DEF Due, Main, Writing
  <2> QED BY <1>2, <2>1, <2>2, <2>3, EntryStep
<1>4. CASE ToEnd(t, l)
  <2>1. \A u \in Threads \ {t} : job'[u] = job[u]
    BY <1>2, <1>4 DEF ToEnd
  <2>2. pc[t] \in Writing \ {"find"} /\ l \notin Writing
    BY <1>4 DEF ToEnd, Writing
  <2>3. ASSUME NEW p \in Pages, Due(p)' PROVE Due(p)
    <3>1. CASE promised'[p] # Absent
      BY <1>2, <1>4, <2>2, <3>1 DEF ToEnd, Due
    <3>2. CASE Pg(Main)' = p /\ pc'[Main] \in Writing \ {"find"}
      <4>1. Main # t
        BY <1>2, <2>2, <3>2
      <4> QED BY <1>2, <2>1, <3>2, <4>1, ThreadSets DEF Due, Pg
    <3> QED BY <2>3, <3>1, <3>2 DEF Due, Main, Writing
  <2>4. \A p \in Pages : Table[p] # NoAddr => Table'[p] # NoAddr
    BY <1>4 DEF ToEnd
  <2> QED BY <1>2, <2>1, <2>3, <2>4, EntryStep
<1> QED BY <1>1, <1>3, <1>4

(* Any other step of one thread.                                           *)
LEMMA OtherEntry ==
  ASSUME EntryInv, NEW t \in Threads, UNCHANGED <<Table, promised>>,
         \A u \in Threads \ {t} : pc'[u] = pc[u] /\ job'[u] = job[u],
         pc[t] # "insert", pc'[t] \notin Writing \ {"find", "insert"}
  PROVE  EntryInv'
<1>1. ASSUME NEW p \in Pages, Due(p)'
      PROVE  Due(p) \/ (pc'[t] = "insert" /\ Pg(t)' = p)
  <2>1. CASE promised'[p] # Absent
    BY <2>1 DEF Due
  <2>2. CASE Pg(Main)' = p /\ pc'[Main] \in Writing \ {"find"}
    <3>1. CASE t = Main
      BY <2>2, <3>1
    <3>2. CASE t # Main
      BY <2>2, <3>2, ThreadSets DEF Due, Pg
    <3> QED BY <3>1, <3>2
  <2> QED BY <1>1, <2>1, <2>2 DEF Due, Main, Writing
<1> QED BY <1>1, EntryStep

LEMMA EntryStutter ==
  ASSUME EntryInv, UNCHANGED <<Table, promised, pc, job>>
  PROVE  EntryInv'
  BY DEF EntryInv, Due, HasEntry, Pg, Main, Writing, Threads, Zones

LEMMA CrashEntry == ASSUME EntryInv, NEW why, Crash(why) PROVE EntryInv'
  BY EntryStutter DEF Crash, localVars

(* A step of thread t alone: what GoTo and EXCEPT leave to the others.     *)
LEMMA GoToAlone ==
  ASSUME TInv, NEW t \in Threads, NEW l, GoTo(t, l)
  PROVE  pc'[t] = l /\ \A u \in Threads \ {t} : pc'[u] = pc[u]
  BY DEF TInv, Shape, GoTo

LEMMA JobAlone ==
  ASSUME TInv, NEW t \in Threads, NEW j, job' = job \/ job' = [job EXCEPT ![t] = j]
  PROVE  \A u \in Threads \ {t} : job'[u] = job[u]
  BY DEF TInv, Shape

LEMMA DetectEntry == TInv /\ EntryInv /\ garbage_collection_detect => EntryInv'
<1> SUFFICES ASSUME TInv, EntryInv, garbage_collection_detect PROVE EntryInv'
  OBVIOUS
<1>1. /\ pc' = [t \in Threads |->
                  IF t \in Zones /\ Collectable(t) THEN "start" ELSE pc[t]]
      /\ UNCHANGED <<Table, promised, job>>
  BY DEF garbage_collection_detect, localVars
<1>2. \A t \in Threads : pc'[t] = pc[t] \/ (pc[t] = "idle" /\ t \in Zones)
  BY <1>1 DEF TInv, Collecting, Collectable
<1>3. pc'[Main] = pc[Main]
  BY <1>2, ThreadSets
<1>4. \A p \in Pages : HasEntry(p) => HasEntry(p)'
  BY <1>1, <1>2 DEF HasEntry, Pg, Threads, Zones
<1>5. \A p \in Pages : Due(p)' => Due(p)
  BY <1>1, <1>3 DEF Due, Pg, Main, Writing
<1> QED BY <1>4, <1>5 DEF EntryInv

LEMMA CallEntry ==
  ASSUME TInv, EntryInv, NEW op, NEW p, NEW v, NEW l \in {"scan", "lookup"},
         Call(op, p, v, l)
  PROVE  EntryInv'
<1>1. /\ pc[Main] = "idle" /\ GoTo(Main, l) /\ UNCHANGED <<Table, promised>>
      /\ job' = [job EXCEPT ![Main] = [op |-> op, p |-> p, v |-> v]]
  BY DEF Call, At
<1>2. /\ pc'[Main] = l
      /\ \A u \in Threads \ {Main} : pc'[u] = pc[u] /\ job'[u] = job[u]
  BY <1>1, GoToAlone, JobAlone, ThreadSets
<1> QED BY <1>1, <1>2, OtherEntry, ThreadSets DEF Writing

LEMMA ReadEntry == TInv /\ EntryInv /\ (Lookup \/ Pread) => EntryInv'
<1> SUFFICES ASSUME TInv, EntryInv, Lookup \/ Pread PROVE EntryInv'
  OBVIOUS
<1>1. CASE \E why \in {"lookup", "id"} : Crash(why)
  BY <1>1, CrashEntry
<1>2. ASSUME NEW l \in {"pread", "idle"}, pc[Main] \in {"lookup", "pread"}, GoTo(Main, l),
             job' = job \/ job' = [job EXCEPT ![Main] = NoJob],
             UNCHANGED <<Table, promised>>
      PROVE  EntryInv'
  <2>1. /\ pc'[Main] = l
        /\ \A u \in Threads \ {Main} : pc'[u] = pc[u] /\ job'[u] = job[u]
    BY <1>2, GoToAlone, JobAlone, ThreadSets
  <2> QED BY <1>2, <2>1, OtherEntry, ThreadSets DEF Writing
<1> QED BY <1>1, <1>2 DEF Lookup, Pread, At, Quietly

(* select_write_zone and the mutex.                                        *)
Choice(t) ==
  \/ Scan(t) \/ Finish(t) \/ MarkFull(t)
  \/ Pick(t) \/ Open(t) \/ MarkOpen(t) \/ Own(t) \/ Lock(t)

LEMMA ChoosingEntry ==
  ASSUME TInv, EntryInv, NEW t \in Threads,
         Choice(t)
  PROVE  EntryInv'
<1>1. CASE \E why \in {"no zone", "open"} : Crash(why)
  BY <1>1, CrashEntry
<1>2. ASSUME NEW l, l \notin Writing \ {"find", "insert"}, pc[t] \in Choosing,
             GoTo(t, l), \E j : job' = job \/ job' = [job EXCEPT ![t] = j],
             UNCHANGED <<Table, promised>>
      PROVE  EntryInv'
  <2>1. pc'[t] = l /\ \A u \in Threads \ {t} : pc'[u] = pc[u] /\ job'[u] = job[u]
    BY <1>2, GoToAlone, JobAlone
  <2> QED BY <1>2, <2>1, OtherEntry DEF Choosing
<1>3. CASE Scan(t) \/ Pick(t)
  <2>1. \/ Crash("no zone")
        \/ /\ pc[t] \in Choosing /\ UNCHANGED <<Table, promised, job>>
           /\ \/ \E l \in {"pick", "lock", "finish", "open"} : GoTo(t, l)
              \/ UNCHANGED pc
    BY <1>3 DEF Scan, Past, Pick, At, Choosing, Quietly
  <2> QED BY <1>1, <1>2, <2>1, EntryStutter DEF Writing
<1>4. CASE Finish(t) \/ MarkFull(t) \/ MarkOpen(t) \/ Own(t)
  <2>1. /\ pc[t] \in Choosing /\ UNCHANGED <<Table, promised, job>>
        /\ \E l \in {"full", "scan", "pick", "own", "lock"} : GoTo(t, l)
    BY <1>4 DEF Finish, MarkFull, MarkOpen, Own, At, Choosing, Quietly, localVars
  <2> QED BY <1>2, <2>1 DEF Writing
<1>5. CASE Open(t)
  <2>1. \/ Crash("open")
        \/ /\ pc[t] \in Choosing /\ GoTo(t, "mark")
           /\ UNCHANGED <<Table, promised, job>>
    BY <1>5 DEF Open, At, Choosing, Quietly, localVars
  <2> QED BY <1>1, <1>2, <2>1 DEF Writing
<1>6. CASE Lock(t)
  <2>1. pc[t] \in Choosing /\ UNCHANGED <<Table, promised>>
    BY <1>6 DEF Lock, At, Choosing, Quietly
  <2>2. \/ GoTo(t, Body(Op(t))[1]) /\ job' = job
        \/ /\ GoTo(t, "scan")
           /\ \E j : job' = [job EXCEPT ![t] = j]
    BY <1>6 DEF Lock
  <2>3. Body(Op(t))[1] \in {"find", "insert"}
    BY <2>1, BodyShape DEF TInv, Placed
  <2>4. "scan" \notin Writing
    BY DEF Writing
  <2>5. CASE GoTo(t, Body(Op(t))[1]) /\ job' = job
    BY <1>2, <2>1, <2>3, <2>5
  <2>6. CASE GoTo(t, "scan") /\ \E j : job' = [job EXCEPT ![t] = j]
    BY <1>2, <2>1, <2>4, <2>6
  <2> QED BY <2>2, <2>5, <2>6
<1> QED BY <1>3, <1>4, <1>5, <1>6 DEF Choice

LEMMA BodyEntry ==
  ASSUME TInv, EntryInv, NEW t \in Threads,
         \/ \E l \in {"find", "find2"}, bit \in BOOLEAN : Find(t, l, bit)
         \/ \E l \in {"clear", "set"}, bit \in BOOLEAN : SetValid(t, l, bit)
         \/ Erase(t) \/ Insert(t) \/ Pwrite(t)
  PROVE  EntryInv'
<1>0. Table \in [Pages -> (Zones \X Nat) \cup {NoAddr}]
  BY DEF TInv, Shape
<1>1. ASSUME NEW l \in {"find", "find2"}, NEW bit \in BOOLEAN, Find(t, l, bit)
      PROVE  EntryInv'
  <2>1. CASE \E why \in {"lookup", "bit"} : Crash(why)
    BY <2>1, CrashEntry
  <2>2. CASE Onward(t) /\ Table' = Table /\ Table[Pg(t)] # NoAddr
    <3>1. pc[t] \in Writing /\ pc[t] # "insert"
      BY <1>1 DEF Find, At, Writing
    <3> QED BY <2>2, <3>1, WritingEntry
  <2> QED BY <1>1, <2>1, <2>2 DEF Find
<1>2. ASSUME NEW l \in {"clear", "set"}, NEW bit \in BOOLEAN, SetValid(t, l, bit)
      PROVE  EntryInv'
  <2>1. /\ pc[t] \in Writing /\ pc[t] \notin {"find", "insert"} /\ Onward(t)
        /\ Table' = Table
    BY <1>2 DEF SetValid, At, Writing
  <2> QED BY <2>1, WritingEntry
<1>3. CASE Erase(t)
  <2>1. /\ pc[t] = "erase" /\ pc[t] \in Writing /\ Onward(t)
        /\ Table' = [Table EXCEPT ![Pg(t)] = NoAddr]
    BY <1>3 DEF Erase, At, Writing
  <2>2. \A p \in Pages : Table[p] # NoAddr =>
          Table'[p] # NoAddr \/ (pc[t] = "erase" /\ Pg(t) = p)
    BY <1>0, <2>1
  <2> QED BY <2>1, <2>2, WritingEntry
<1>4. CASE Insert(t)
  <2>1. /\ pc[t] = "insert" /\ pc[t] \in Writing /\ Onward(t)
        /\ Table' = [Table EXCEPT ![Pg(t)] =
                       IF @ = NoAddr THEN <<zone[t], wp[zone[t]]>> ELSE @]
    BY <1>4 DEF Insert, At, Writing
  <2>2. <<zone[t], wp[zone[t]]>> \in Zones \X Nat
    BY <2>1 DEF TInv, Shape, Placed
  <2>3. <<zone[t], wp[zone[t]]>> # NoAddr
    BY <2>2, ThreadsOK
  <2>4. \A p \in Pages : /\ Table[p] # NoAddr => Table'[p] # NoAddr
                         /\ Pg(t) = p => Table'[p] # NoAddr
    BY <1>0, <2>1, <2>3
  <2> QED BY <2>1, <2>4, WritingEntry
<1>5. CASE Pwrite(t)
  <2>1. \/ Crash("pwrite") \/ Crash("full")
        \/ /\ pc[t] \in Writing /\ pc[t] \notin {"find", "insert"} /\ Onward(t)
           /\ Table' = Table
    BY <1>5 DEF Pwrite, At, Writing
  <2> QED BY <2>1, CrashEntry, WritingEntry
<1> QED BY <1>1, <1>2, <1>3, <1>4, <1>5

LEMMA CollectorEntry ==
  ASSUME TInv, EntryInv, NEW z \in Zones,
         \/ GcStart(z) \/ GcLook(z) \/ GcReset(z) \/ GcEmpty(z) \/ GcDisown(z)
         \/ GcRewind(z) \/ GcSweep(z)
  PROVE  EntryInv'
<1>1. ASSUME NEW l \in (Labels \ Writing), pc[z] \notin Writing, GoTo(z, l),
             \E j : job' = job \/ job' = [job EXCEPT ![z] = j],
             UNCHANGED <<Table, promised>>
      PROVE  EntryInv'
  <2>1. pc'[z] = l /\ \A u \in Threads \ {z} : pc'[u] = pc[u] /\ job'[u] = job[u]
    BY <1>1, GoToAlone, JobAlone, ThreadSets
  <2> QED BY <1>1, <2>1, OtherEntry, ThreadSets DEF Writing
<1>2. CASE GcLook(z)
  <2>1. /\ pc[z] = "look" /\ UNCHANGED <<Table, promised>>
        /\ \/ GoTo(z, "scan") /\ \E j : job' = [job EXCEPT ![z] = j]
           \/ UNCHANGED <<job, pc>>
    BY <1>2 DEF GcLook, At, Quietly
  <2> QED BY <1>1, <2>1, EntryStutter DEF Labels, Choosing, Writing
<1>3. CASE \/ GcStart(z) \/ GcReset(z) \/ GcEmpty(z) \/ GcDisown(z)
           \/ GcRewind(z) \/ GcSweep(z)
  <2>1. /\ pc[z] \in {"start", "look", "empty", "disown", "rewind", "sweep"}
        /\ \E l \in {"look", "empty", "disown", "rewind", "sweep", "idle"} : GoTo(z, l)
        /\ UNCHANGED <<Table, promised, job>>
    BY <1>3 DEF GcStart, GcReset, GcEmpty, GcDisown, GcRewind, GcSweep, At, Quietly,
                localVars
  <2> QED BY <1>1, <2>1 DEF Labels, Choosing, Writing
<1> QED BY <1>2, <1>3

LEMMA NextEntry == TInv /\ EntryInv /\ [Next]_vars => EntryInv'
<1> SUFFICES ASSUME TInv, EntryInv, [Next]_vars PROVE EntryInv'
  OBVIOUS
<1>1. CASE MainCalls
  <2>1. ASSUME NEW p \in Pages, NEW v \in Vals, create_new_page(p, v) PROVE EntryInv'
    BY <2>1, CallEntry DEF create_new_page
  <2>2. ASSUME NEW p \in Pages, NEW v \in Vals, write_page(p, v) PROVE EntryInv'
    BY <2>2, CallEntry DEF write_page
  <2>3. ASSUME NEW p \in Pages, read_page(p) PROVE EntryInv'
    BY <2>3, CallEntry DEF read_page
  <2> QED BY <1>1, <2>1, <2>2, <2>3, DetectEntry DEF MainCalls
<1>2. ASSUME NEW t \in Threads, Writer(t) PROVE EntryInv'
  <2>1. CASE Choice(t)
    BY <2>1, ChoosingEntry
  <2>2. CASE ~ Choice(t)
    BY <1>2, <2>2, BodyEntry DEF Writer, Choice
  <2> QED BY <2>1, <2>2
<1>3. CASE MainSteps
  BY <1>2, <1>3, ReadEntry, ThreadSets DEF MainSteps
<1>4. ASSUME NEW z \in Zones, Collector(z) PROVE EntryInv'
  BY <1>2, <1>4, CollectorEntry, ThreadSets DEF Collector
<1>5. CASE UNCHANGED vars
  BY <1>5, EntryStutter DEF vars, localVars
<1> QED BY <1>1, <1>3, <1>4, <1>5 DEF Next

(* A page that was inserted has an entry in Table, or a thread is about to *)
(* insert one, although entries are erased and inserted again under        *)
(* different mutexes.                                                      *)
THEOREM SpecEntryKept == Spec => []EntryKept
<1>1. Init => EntryInv
  BY ThreadSets DEF Init, EntryInv, Due, Writing
<1>2. TInv /\ EntryInv /\ [Next]_vars => EntryInv'
  BY NextEntry
<1>3. EntryInv => EntryKept
  BY DEF EntryInv, EntryKept, Due, HasEntry
<1> QED BY <1>1, <1>2, <1>3, SpecTInv, PTL DEF Spec
------------------------------------------------------------------------------
(***************************************************************************)
(* Types, and how far a zone can be filled beyond Cap.  The room in a zone *)
(* is tested without its mutex, so what bounds devwp is the number of      *)
(* threads that are on their way to write there (Coming).                  *)
(***************************************************************************)
(* The page of a collector is on the device, and wp has still to move.     *)
Ahead(t) == Op(t) = "gc" /\ pc[t] \in {"erase", "insert", "find2", "set"}

(* The page of thread t is on the device.                                  *)
Sent(t) == Ahead(t) \/ (Op(t) = "write" /\ pc[t] \in {"find2", "set"})

Owing(t, z)   == zone[t] = z /\ Ahead(t)
Inside(t, z)  == zone[t] = z /\ pc[t] \in Writing /\ ~ Sent(t)
Heading(t, z) == \/ zone[t] = z /\ pc[t] \in {"open", "mark", "own", "lock"}
                 \/ Inside(t, z)

Coming(z)  == {t \in Threads : Heading(t, z)}
Entered(z) == {t \in Threads : Inside(t, z)}

(* Where wp will be once the page that was sent is counted.  A pwrite      *)
(* succeeds only in a zone that is even; it is not once its collector has  *)
(* reset it, or taken wp back after others wrote there.                    *)
Owed(z) == IF \E t \in Threads : Owing(t, z) THEN 1 ELSE 0
Even(z) == devwp[z] = wp[z] + Owed(z)

Hands == Cardinality(Threads)

(* A zone that a thread found room in takes a page more of each thread; a  *)
(* zone that is found empty takes then another one.                        *)
Fill(z) ==
  /\ wp[z] + Owed(z) <= Brim
  /\ Even(z) =>
       /\ cond[z] # "EMPTY" => devwp[z] + Cardinality(Coming(z)) <= Brim
       /\ cond[z] = "EMPTY" => devwp[z] + Cardinality(Entered(z)) <= Cap + Hands
       /\ pc[z] = "empty"   => devwp[z] + Cardinality(Coming(z)) <= Cap + Hands

Content(t) == Pg(t) \in Pages /\ job[t].v \in Vals

Local(t) ==
  /\ pc[t] \in Choosing \cup Writing =>
       Content(t) \/ (Op(t) = "gc" /\ Pg(t) = Absent /\ pc[t] \in Choosing \cup {"find"})
  /\ pc[t] = "lookup" => Pg(t) \in Pages
  /\ pc[t] \in {"clear", "set"} => addr[t] \in Addr
  /\ t # Main /\ pc[t] \in Choosing \cup Writing => pos[t] # Cap

Data ==
  /\ wp \in [Zones -> 0 .. Brim] /\ devwp \in [Zones -> 0 .. Brim]
  /\ inUse \in [Zones -> BOOLEAN]
  /\ valid_page \in [Zones -> Int]
  /\ Gc \in BOOLEAN
  /\ meta_page \subseteq Addr
  /\ Table \in [Pages -> Addr \cup {NoAddr}]
  /\ dev \in [Addr -> (Pages \X Vals) \cup {NoData}]
  /\ pos \in [Threads -> 0 .. Cap]
  /\ addr \in [Threads -> Addr \cup {NoAddr}]
  /\ count \in [Threads -> Int]
  /\ promised \in [Pages -> Vals \cup {Absent}]
  /\ late \in BOOLEAN

Locals == \A t \in Threads : Local(t)
Fills  == \A z \in Zones : Fill(z)

FInv == TInv /\ Data /\ Locals /\ Fills

(***************************************************************************)
(* Frames.                                                                 *)
(***************************************************************************)
LEMMA SomeThreads ==
  ASSUME NEW S \in SUBSET Threads
  PROVE  /\ IsFiniteSet(S) /\ Cardinality(S) \in Nat /\ Cardinality(S) <= Hands
         /\ \A T \in SUBSET S : Cardinality(T) \in Nat /\ Cardinality(T) <= Cardinality(S)
         /\ Hands \in Nat /\ Brim = Cap + 2 * Hands
<1>1. IsFiniteSet(Zones) /\ Cardinality(Zones) = MaxZoneNum
  BY ThreadsOK, FS_Interval DEF Zones
<1>2. IsFiniteSet(Threads) /\ Cardinality(Threads) = MaxZoneNum + 1
  BY <1>1, ThreadsOK, ThreadSets, FS_AddElement
<1>3. IsFiniteSet(S) /\ Cardinality(S) \in Nat /\ Cardinality(S) <= Cardinality(Threads)
  BY <1>2, FS_Subset, FS_CardinalityType
<1>4. \A T \in SUBSET S : Cardinality(T) \in Nat /\ Cardinality(T) <= Cardinality(S)
  BY <1>3, FS_Subset, FS_CardinalityType
<1>5. Hands \in Nat /\ Brim = Cap + 2 * Hands
  BY <1>2, ThreadsOK DEF Hands, Brim
<1> QED BY <1>3, <1>4, <1>5 DEF Hands

LEMMA ComingNext ==
  ASSUME NEW z
  PROVE  /\ Coming(z)' = {t \in Threads : Heading(t, z)'}
         /\ Entered(z)' = {t \in Threads : Inside(t, z)'}
         /\ Owed(z)' = IF \E t \in Threads : Owing(t, z)' THEN 1 ELSE 0
         /\ Owed(z)' \in {0, 1} /\ Owed(z) \in {0, 1}
         /\ Brim' = Brim /\ Hands' = Hands /\ Coming(z) \in SUBSET Threads
         /\ Entered(z) \in SUBSET Coming(z) /\ Entered(z)' \in SUBSET Coming(z)'
         /\ Coming(z)' \in SUBSET Threads
  BY DEF Coming, Entered, Owed, Threads, Zones, Brim, Hands, Heading

(* Nothing changes for zone z, except that threads may leave for others,   *)
(* and that it may be marked open or full.                                 *)
LEMMA FillKept ==
  ASSUME FInv, NEW z \in Zones, devwp'[z] = devwp[z],
         wp'[z] + Owed(z)' = wp[z] + Owed(z),
         cond'[z] = cond[z] \/ cond'[z] # "EMPTY",
         pc'[z] = "empty" => pc[z] = "empty",
         \A t \in Threads : Heading(t, z)' => Heading(t, z),
         cond'[z] # "EMPTY" \/ \A t \in Threads : Inside(t, z)' => Inside(t, z)
  PROVE  Fill(z)'
<1>1. Fill(z) /\ devwp[z] \in Nat /\ Cap \in Nat
  BY ThreadsOK DEF FInv, Fills, Data, Brim
<1>2. Coming(z)' \in SUBSET Coming(z) /\ Coming(z) \in SUBSET Threads
  BY ComingNext DEF Coming
<1>3. /\ Cardinality(Coming(z)) \in Nat /\ Cardinality(Coming(z)') \in Nat
      /\ Cardinality(Coming(z)') <= Cardinality(Coming(z))
      /\ Cardinality(Coming(z)') <= Hands
      /\ Hands \in Nat /\ Brim = Cap + 2 * Hands
  BY <1>2, SomeThreads
<1>4. Cardinality(Entered(z)) \in Nat
  BY <1>2, SomeThreads, ComingNext
<1>5. (Even(z)' <=> Even(z)) /\ Brim' = Brim /\ Hands' = Hands
  BY ComingNext DEF Even
<1>6. ASSUME Even(z), cond'[z] # "EMPTY"
      PROVE  devwp[z] + Cardinality(Coming(z)') <= Brim
  <2>1. CASE cond[z] # "EMPTY"
    BY <1>1, <1>3, <1>6, <2>1 DEF Fill
  <2>2. CASE cond[z] = "EMPTY"
    <3>1. devwp[z] + Cardinality(Entered(z)) <= Cap + Hands
      BY <1>1, <1>6, <2>2 DEF Fill
    <3> QED BY <1>1, <1>3, <1>4, <3>1
  <2> QED BY <2>1, <2>2
<1>7. ASSUME Even(z), cond'[z] = "EMPTY"
      PROVE  devwp[z] + Cardinality(Entered(z)') <= Cap + Hands
  <2>1. Entered(z)' \in SUBSET Entered(z) /\ Entered(z) \in SUBSET Threads
    BY <1>7, ComingNext DEF Entered
  <2>2. Cardinality(Entered(z)') \in Nat /\ Cardinality(Entered(z)') <= Cardinality(Entered(z))
    BY <2>1, SomeThreads
  <2> QED BY <1>1, <1>3, <1>4, <1>7, <2>2 DEF Fill
<1>8. ASSUME Even(z), pc'[z] = "empty"
      PROVE  devwp[z] + Cardinality(Coming(z)') <= Cap + Hands
  BY <1>1, <1>3, <1>8 DEF Fill
<1>9. wp'[z] + Owed(z)' <= Brim
  BY <1>1 DEF Fill
<1> QED BY <1>5, <1>6, <1>7, <1>8, <1>9 DEF Fill

(* There is room in zone z.                                                *)
LEMMA FillRoom ==
  ASSUME NEW z \in Zones, devwp'[z] \in Nat, wp'[z] + Owed(z)' <= Brim,
         Even(z)' => devwp'[z] <= Cap
  PROVE  Fill(z)'
<1>1. /\ Coming(z)' \in SUBSET Threads /\ Entered(z)' \in SUBSET Coming(z)'
      /\ Brim' = Brim /\ Hands' = Hands
  BY ComingNext
<1>2. /\ Cardinality(Coming(z)') \in Nat /\ Cardinality(Coming(z)') <= Hands
      /\ Cardinality(Entered(z)') \in Nat /\ Cardinality(Entered(z)') <= Hands
      /\ Hands \in Nat /\ Brim = Cap + 2 * Hands
  BY <1>1, SomeThreads
<1>3. Even(z)' => /\ devwp'[z] + Cardinality(Coming(z)') <= Cap + Hands
                  /\ devwp'[z] + Cardinality(Entered(z)') <= Cap + Hands
                  /\ devwp'[z] + Cardinality(Coming(z)') <= Brim
  BY <1>2, ThreadsOK
<1> QED BY <1>1, <1>3 DEF Fill

(* An empty zone that is not being reset: threads may head for it.         *)
LEMMA FillFound ==
  ASSUME FInv, NEW z \in Zones, devwp'[z] = devwp[z], wp'[z] = wp[z],
         cond[z] = "EMPTY", cond'[z] = "EMPTY", pc'[z] # "empty",
         \A t \in Threads : (Owing(t, z)' <=> Owing(t, z)) /\ (Inside(t, z)' <=> Inside(t, z))
  PROVE  Fill(z)'
<1>1. Owed(z)' = Owed(z) /\ Entered(z)' = Entered(z) /\ Brim' = Brim /\ Hands' = Hands
  BY ComingNext DEF Owed, Entered
<1> QED BY <1>1 DEF Fill, FInv, Fills, Even

(* The zone is no longer being reset.                                      *)
LEMMA FillGiven ==
  ASSUME FInv, NEW z \in Zones, devwp'[z] = devwp[z], wp'[z] = wp[z],
         pc[z] = "empty", pc'[z] # "empty", cond'[z] = "EMPTY",
         \A t \in Threads : (Owing(t, z)' <=> Owing(t, z)) /\ (Inside(t, z)' => Inside(t, z))
  PROVE  Fill(z)'
<1>1. /\ Owed(z)' = Owed(z) /\ Entered(z)' \in SUBSET Coming(z)
      /\ Brim' = Brim /\ Hands' = Hands
  BY ComingNext DEF Owed, Coming, Heading
<1>2. /\ Cardinality(Entered(z)') \in Nat /\ Cardinality(Coming(z)) \in Nat
      /\ Cardinality(Entered(z)') <= Cardinality(Coming(z))
      /\ Hands \in Nat
  BY <1>1, SomeThreads, ComingNext
<1>3. Fill(z) /\ devwp[z] \in Nat
  BY ThreadsOK DEF FInv, Fills, Data, Brim
<1>4. Even(z) => devwp[z] + Cardinality(Entered(z)') <= Cap + Hands
  BY <1>2, <1>3, ThreadsOK DEF Fill
<1> QED BY <1>1, <1>3, <1>4 DEF Fill, Even

(* The thread t, which was coming, has sent its page.                      *)
LEMMA FillSent ==
  ASSUME FInv, NEW z \in Zones, Even(z), NEW t \in Threads, Inside(t, z),
         devwp'[z] = devwp[z] + 1, wp'[z] + Owed(z)' = wp[z] + Owed(z) + 1,
         cond'[z] = cond[z], pc'[z] = "empty" => pc[z] = "empty",
         \A u \in Threads : Heading(u, z)' => Heading(u, z) /\ u # t,
         \A u \in Threads : Inside(u, z)' => Inside(u, z)
  PROVE  Fill(z)' /\ devwp[z] + 1 <= Brim
<1>1. Fill(z) /\ devwp[z] \in Nat /\ wp[z] \in Nat
  BY ThreadsOK DEF FInv, Fills, Data, Brim
<1>2. /\ Coming(z)' \in SUBSET (Coming(z) \ {t}) /\ Coming(z) \in SUBSET Threads
      /\ Entered(z)' \in SUBSET (Entered(z) \ {t}) /\ Entered(z) \in SUBSET Threads
      /\ t \in Coming(z) /\ t \in Entered(z)
  BY ComingNext DEF Coming, Entered, Heading
<1>3. /\ IsFiniteSet(Coming(z)) /\ Cardinality(Coming(z)) \in Nat
      /\ IsFiniteSet(Entered(z)) /\ Cardinality(Entered(z)) \in Nat
      /\ Hands \in Nat /\ Brim = Cap + 2 * Hands
  BY <1>2, SomeThreads
<1>4. /\ Cardinality(Coming(z) \ {t}) = Cardinality(Coming(z)) - 1
      /\ Cardinality(Entered(z) \ {t}) = Cardinality(Entered(z)) - 1
  BY <1>2, <1>3, FS_RemoveElement
<1>5. /\ Cardinality(Coming(z)') \in Nat
      /\ Cardinality(Coming(z)') <= Cardinality(Coming(z) \ {t})
      /\ Cardinality(Entered(z)') \in Nat
      /\ Cardinality(Entered(z)') <= Cardinality(Entered(z) \ {t})
      /\ Cardinality(Coming(z) \ {t}) \in Nat /\ Cardinality(Entered(z) \ {t}) \in Nat
  <2>1. Coming(z) \ {t} \in SUBSET Threads /\ Entered(z) \ {t} \in SUBSET Threads
    BY <1>2
  <2> QED BY <1>2, <2>1, SomeThreads
<1>6. /\ cond[z] # "EMPTY" => devwp[z] + Cardinality(Coming(z)) <= Brim
      /\ cond[z] = "EMPTY" => devwp[z] + Cardinality(Entered(z)) <= Cap + Hands
      /\ pc[z] = "empty"   => devwp[z] + Cardinality(Coming(z)) <= Cap + Hands
  BY <1>1 DEF Fill
<1>7. /\ cond'[z] # "EMPTY" => devwp'[z] + Cardinality(Coming(z)') <= Brim
      /\ cond'[z] = "EMPTY" => devwp'[z] + Cardinality(Entered(z)') <= Cap + Hands
      /\ pc'[z] = "empty"   => devwp'[z] + Cardinality(Coming(z)') <= Cap + Hands
  <2>1. cond'[z] # "EMPTY" => devwp'[z] + Cardinality(Coming(z)') <= Brim
    BY <1>1, <1>3, <1>4, <1>5, <1>6, ThreadsOK
  <2>2. cond'[z] = "EMPTY" => devwp'[z] + Cardinality(Entered(z)') <= Cap + Hands
    BY <1>1, <1>3, <1>4, <1>5, <1>6, ThreadsOK
  <2>3. pc'[z] = "empty"   => devwp'[z] + Cardinality(Coming(z)') <= Cap + Hands
    BY <1>1, <1>3, <1>4, <1>5, <1>6, ThreadsOK
  <2> QED BY <2>1, <2>2, <2>3
<1>8. devwp[z] + 1 <= Brim
  <2>1. CASE cond[z] = "EMPTY"
    BY <1>1, <1>3, <1>4, <1>5, <1>6, <2>1, ThreadsOK
  <2>2. CASE cond[z] # "EMPTY"
    BY <1>1, <1>3, <1>4, <1>5, <1>6, <2>2, ThreadsOK
  <2> QED BY <2>1, <2>2
<1>9. /\ Brim' = Brim /\ Hands' = Hands
      /\ wp'[z] + Owed(z)' <= Brim
  BY <1>8, ComingNext DEF Even
<1> QED BY <1>7, <1>8, <1>9 DEF Fill

(* All threads but t stay where they are.                                  *)
Others(t) ==
  \A u \in Threads \ {t} : pc'[u] = pc[u] /\ job'[u] = job[u] /\ zone'[u] = zone[u]

LEMMA OthersHeading ==
  ASSUME NEW t \in Threads, Others(t), NEW u \in Threads, u # t, NEW z
  PROVE  /\ Heading(u, z)' <=> Heading(u, z)
         /\ Inside(u, z)' <=> Inside(u, z)
         /\ Owing(u, z)' <=> Owing(u, z)
  BY DEF Others, Heading, Inside, Owing, Sent, Ahead, Op

LEMMA OthersLocal ==
  ASSUME Locals, NEW t \in Threads, Others(t), Local(t)',
         \A u \in Threads \ {t} : addr'[u] = addr[u] /\ pos'[u] = pos[u]
  PROVE  Locals'
<1>1. ASSUME NEW u \in Threads, u # t PROVE Local(u)'
  BY <1>1 DEF Others, Locals, Local, Content, Op, Pg, Addr, Zones
<1> QED BY <1>1 DEF Locals, Threads, Zones

(* The zones but z, to which t may go.                                     *)
LEMMA OtherFills ==
  ASSUME FInv, NEW t \in Threads, Others(t), NEW z \in Zones, Fill(z)',
         \A y \in Zones \ {z} : wp'[y] = wp[y] /\ devwp'[y] = devwp[y],
         \A y \in Zones \ {z} : cond'[y] = cond[y],
         pc'[t] # "empty" \/ t = z,
         \A y \in Zones \ {z} : /\ Heading(t, y)' => Heading(t, y)
                                /\ Inside(t, y)' => Inside(t, y)
                                /\ Owing(t, y)' <=> Owing(t, y)
  PROVE  Fills'
<1>1. ASSUME NEW y \in Zones, y # z PROVE Fill(y)'
  <2>1. pc'[y] = "empty" => pc[y] = "empty"
    BY <1>1, ThreadSets DEF Others
  <2>2. \A u \in Threads : /\ Heading(u, y)' => Heading(u, y)
                           /\ Inside(u, y)' => Inside(u, y)
                           /\ Owing(u, y)' <=> Owing(u, y)
    BY <1>1, OthersHeading
  <2>3. Owed(y)' = Owed(y)
    BY <2>2, ComingNext DEF Owed
  <2> QED BY <1>1, <2>1, <2>2, <2>3, FillKept
<1> QED BY <1>1 DEF Fills, Zones

(* A step of t that neither brings it nearer to a zone nor writes there.   *)
LEMMA StepFills ==
  ASSUME FInv, NEW t \in Threads, Others(t), wp' = wp, devwp' = devwp,
         \A z \in Zones : cond'[z] = cond[z] \/ cond'[z] # "EMPTY",
         pc'[t] # "empty",
         \A z \in Zones : /\ Heading(t, z)' => Heading(t, z)
                          /\ cond'[z] # "EMPTY" \/ (Inside(t, z)' => Inside(t, z))
                          /\ Owing(t, z)' <=> Owing(t, z)
  PROVE  Fills'
<1>1. ASSUME NEW z \in Zones PROVE Fill(z)'
  <2>1. pc'[z] = "empty" => pc[z] = "empty"
    BY ThreadSets DEF Others
  <2>2. \A u \in Threads : /\ Heading(u, z)' => Heading(u, z)
                           /\ cond'[z] # "EMPTY" \/ (Inside(u, z)' => Inside(u, z))
                           /\ Owing(u, z)' <=> Owing(u, z)
    BY OthersHeading
  <2>3. Owed(z)' = Owed(z)
    BY <2>2, ComingNext DEF Owed
  <2> QED BY <2>1, <2>2, <2>3, FillKept
<1> QED BY <1>1 DEF Fills, Zones

LEMMA OthersOf ==
  ASSUME FInv, NEW t \in Threads, NEW l, GoTo(t, l),
         \A u \in Threads \ {t} : job'[u] = job[u] /\ zone'[u] = zone[u]
  PROVE  Others(t) /\ pc'[t] = l
  BY DEF FInv, TInv, Shape, GoTo, Others

------------------------------------------------------------------------------
(***************************************************************************)
(* The statements under the mutex, in pairs of one and the next.           *)
(***************************************************************************)
Program ==
  {<<"write", "find", "clear">>, <<"write", "clear", "erase">>,
   <<"write", "erase", "insert">>, <<"write", "insert", "pwrite">>,
   <<"write", "pwrite", "find2">>, <<"write", "find2", "set">>, <<"write", "set", "end">>,
   <<"gc", "find", "clear">>, <<"gc", "clear", "pwrite">>,
   <<"gc", "pwrite", "erase">>, <<"gc", "erase", "insert">>,
   <<"gc", "insert", "find2">>, <<"gc", "find2", "set">>, <<"gc", "set", "end">>,
   <<"new", "insert", "find2">>, <<"new", "find2", "set">>,
   <<"new", "set", "pwrite">>, <<"new", "pwrite", "end">>}

Goes(t, l) == l \in Writing /\ GoTo(t, l) /\ UNCHANGED <<job, zone, pos, promised>>

Ends(t) ==
  /\ GoTo(t, IF t = Main THEN "idle" ELSE "look")
  /\ job' = [job EXCEPT ![t] = NoJob]
  /\ zone' = [zone EXCEPT ![t] = 0]
  /\ pos' = IF t = Main THEN pos ELSE [pos EXCEPT ![t] = @ + 1]
  /\ promised' = IF t = Main THEN [promised EXCEPT ![Pg(t)] = job[t].v] ELSE promised

LEMMA OnwardTo ==
  ASSUME NEW t \in Threads, Op(t) \in Ops, InBody(t), Onward(t)
  PROVE  \E l : /\ <<Op(t), pc[t], l>> \in Program
                /\ IF l = "end" THEN Ends(t) ELSE Goes(t, l)
<1> DEFINE B == Body(Op(t))
           i == Place(t)
<1>1. i \in DOMAIN B /\ B[i] = pc[t]
  BY DEF InBody, Place
<1>2. /\ EndOf(t) => Ends(t)
      /\ ~ EndOf(t) => GoTo(t, B[i + 1]) /\ UNCHANGED <<job, zone, pos, promised>>
  BY DEF Onward, Ends
<1>3. EndOf(t) <=> i = Len(B)
  BY DEF EndOf
<1> DEFINE l == IF i = Len(B) THEN "end" ELSE B[i + 1]
<1>4. <<Op(t), B[i], l>> \in Program /\ (i # Len(B) => B[i + 1] \in Writing /\ B[i + 1] # "end")
  <2> HIDE DEF i
  <2> DEFINE Fine(j) ==
        /\ <<Op(t), B[j], IF j = Len(B) THEN "end" ELSE B[j + 1]>> \in Program
        /\ j # Len(B) => B[j + 1] \in Writing /\ B[j + 1] # "end"
  <2>1. CASE Op(t) = "write"
    <3>1. B = <<"find", "clear", "erase", "insert", "pwrite", "find2", "set">>
      BY <2>1 DEF Body
    <3>2. Len(B) = 7 /\ i \in 1 .. 7
      BY <1>1, <3>1
    <3>3. /\ B[1] = "find" /\ B[2] = "clear" /\ B[3] = "erase" /\ B[4] = "insert" /\ B[5] = "pwrite" /\ B[6] = "find2" /\ B[7] = "set"
      BY <3>1
    <3> HIDE DEF B
    <3>4. Fine(1)
      BY <2>1, <3>2, <3>3 DEF Program, Writing
    <3>5. Fine(2)
      BY <2>1, <3>2, <3>3 DEF Program, Writing
    <3>6. Fine(3)
      BY <2>1, <3>2, <3>3 DEF Program, Writing
    <3>7. Fine(4)
      BY <2>1, <3>2, <3>3 DEF Program, Writing
    <3>8. Fine(5)
      BY <2>1, <3>2, <3>3 DEF Program, Writing
    <3>9. Fine(6)
      BY <2>1, <3>2, <3>3 DEF Program, Writing
    <3>10. Fine(7)
      BY <2>1, <3>2, <3>3 DEF Program, Writing
    <3>11. Fine(i)
      BY <3>2, <3>4, <3>5, <3>6, <3>7, <3>8, <3>9, <3>10
    <3> QED BY <3>11 DEF B
  <2>2. CASE Op(t) = "gc"
    <3>1. B = <<"find", "clear", "pwrite", "erase", "insert", "find2", "set">>
      BY <2>2 DEF Body
    <3>2. Len(B) = 7 /\ i \in 1 .. 7
      BY <1>1, <3>1
    <3>3. /\ B[1] = "find" /\ B[2] = "clear" /\ B[3] = "pwrite" /\ B[4] = "erase" /\ B[5] = "insert" /\ B[6] = "find2" /\ B[7] = "set"
      BY <3>1
    <3> HIDE DEF B
    <3>4. Fine(1)
      BY <2>2, <3>2, <3>3 DEF Program, Writing
    <3>5. Fine(2)
      BY <2>2, <3>2, <3>3 DEF Program, Writing
    <3>6. Fine(3)
      BY <2>2, <3>2, <3>3 DEF Program, Writing
    <3>7. Fine(4)
      BY <2>2, <3>2, <3>3 DEF Program, Writing
    <3>8. Fine(5)
      BY <2>2, <3>2, <3>3 DEF Program, Writing
    <3>9. Fine(6)
      BY <2>2, <3>2, <3>3 DEF Program, Writing
    <3>10. Fine(7)
      BY <2>2, <3>2, <3>3 DEF Program, Writing
    <3>11. Fine(i)
      BY <3>2, <3>4, <3>5, <3>6, <3>7, <3>8, <3>9, <3>10
    <3> QED BY <3>11 DEF B
  <2>3. CASE Op(t) = "new"
    <3>1. B = <<"insert", "find2", "set", "pwrite">>
      BY <2>3 DEF Body
    <3>2. Len(B) = 4 /\ i \in 1 .. 4
      BY <1>1, <3>1
    <3>3. /\ B[1] = "insert" /\ B[2] = "find2" /\ B[3] = "set" /\ B[4] = "pwrite"
      BY <3>1
    <3> HIDE DEF B
    <3>4. Fine(1)
      BY <2>3, <3>2, <3>3 DEF Program, Writing
    <3>5. Fine(2)
      BY <2>3, <3>2, <3>3 DEF Program, Writing
    <3>6. Fine(3)
      BY <2>3, <3>2, <3>3 DEF Program, Writing
    <3>7. Fine(4)
      BY <2>3, <3>2, <3>3 DEF Program, Writing
    <3>8. Fine(i)
      BY <3>2, <3>4, <3>5, <3>6, <3>7
    <3> QED BY <3>8 DEF B
  <2> QED BY <2>1, <2>2, <2>3 DEF Ops
<1>5. IF l = "end" THEN Ends(t) ELSE Goes(t, l)
  BY <1>2, <1>3, <1>4 DEF Goes
<1> HIDE DEF l
<1> QED BY <1>1, <1>4, <1>5

(* What every statement under the mutex does to the locals of threads: the *)
(* rest is what it does to the zones and the table.                        *)
LEMMA OnwardLocals ==
  ASSUME FInv, NEW t \in Threads, pc[t] \in Writing, Content(t), Onward(t),
         addr' \in [Threads -> Addr \cup {NoAddr}],
         \A u \in Threads \ {t} : addr'[u] = addr[u],
         pc[t] \in {"find", "find2"} => addr'[t] \in Addr
  PROVE  /\ Locals' /\ Others(t)
         /\ pos' \in [Threads -> 0 .. Cap]
         /\ promised' \in [Pages -> Vals \cup {Absent}]
<1>0. /\ Shape /\ Placed(t) /\ Local(t) /\ Data /\ Locals
      /\ Op(t) \in Ops /\ InBody(t)
  BY DEF FInv, TInv, Locals, Placed
<1>1. PICK l : /\ <<Op(t), pc[t], l>> \in Program
               /\ IF l = "end" THEN Ends(t) ELSE Goes(t, l)
  BY <1>0, OnwardTo
<1>2. CASE l = "end"
  <2> DEFINE e == IF t = Main THEN "idle" ELSE "look"
  <2>1. Ends(t) /\ GoTo(t, e)
    BY <1>1, <1>2 DEF Ends
  <2>2. \A u \in Threads \ {t} : job'[u] = job[u] /\ zone'[u] = zone[u] /\ pos'[u] = pos[u]
    BY <1>0, <2>1 DEF Ends, Shape, Data
  <2>3. Others(t) /\ pc'[t] = e
    BY <2>1, <2>2, OthersOf
  <2>4. Local(t)'
    BY <2>3 DEF Local, Choosing, Writing
  <2>5. Locals'
    BY <1>0, <2>2, <2>3, <2>4, OthersLocal
  <2>6. pos' \in [Threads -> 0 .. Cap]
    <3>1. t # Main => pos[t] \in 0 .. Cap /\ pos[t] # Cap
      BY <1>0 DEF Local, Data
    <3>2. t # Main => pos[t] + 1 \in 0 .. Cap
      BY <3>1, ThreadsOK
    <3> QED BY <1>0, <2>1, <3>2 DEF Ends, Data
  <2>7. promised' \in [Pages -> Vals \cup {Absent}]
    BY <1>0, <2>1 DEF Ends, Data, Content
  <2> QED BY <2>3, <2>5, <2>6, <2>7
<1>3. CASE l # "end"
  <2>1. Goes(t, l)
    BY <1>1, <1>3
  <2>2. Others(t) /\ pc'[t] = l
    BY <2>1, OthersOf DEF Goes
  <2>3. l \in Writing /\ l # "find" /\ (l \in {"clear", "set"} => pc[t] \in {"find", "find2"})
    BY <1>1, <2>1 DEF Goes, Program
  <2>4. Local(t)'
    <3>1. Op(t)' = Op(t) /\ Pg(t)' = Pg(t) /\ job' = job /\ pos' = pos
      BY <2>1 DEF Goes, Op, Pg
    <3>2. t # Main => pos[t] # Cap
      BY <1>0 DEF Local
    <3> QED BY <2>2, <2>3, <3>1, <3>2 DEF Local, Content, Addr, Zones
  <2>5. Locals'
    BY <1>0, <2>1, <2>2, <2>4, OthersLocal DEF Goes
  <2> QED BY <1>0, <2>1, <2>2, <2>5 DEF Goes, Data
<1> QED BY <1>2, <1>3

(* A thread at the end of its call is on its way to no zone.               *)
LEMMA EndsAway ==
  ASSUME FInv, NEW t \in Threads, Ends(t)
  PROVE  /\ \A z \in Zones : ~ Heading(t, z)' /\ ~ Inside(t, z)' /\ ~ Owing(t, z)'
         /\ pc'[t] # "empty"
<1>1. GoTo(t, IF t = Main THEN "idle" ELSE "look")
  BY DEF Ends
<1>2. pc'[t] \in {"idle", "look"}
  BY <1>1 DEF FInv, TInv, Shape, GoTo
<1> QED BY <1>2 DEF Heading, Inside, Owing, Ahead, Writing

LEMMA GoesAlong ==
  ASSUME FInv, NEW t \in Threads, NEW l, Goes(t, l)
  PROVE  /\ pc'[t] = l /\ zone'[t] = zone[t] /\ Op(t)' = Op(t) /\ l # "empty"
         /\ Ahead(t)' <=> Op(t) = "gc" /\ l \in {"erase", "insert", "find2", "set"}
         /\ Sent(t)' <=> \/ Op(t) = "gc" /\ l \in {"erase", "insert", "find2", "set"}
                         \/ Op(t) = "write" /\ l \in {"find2", "set"}
<1>1. pc'[t] = l /\ zone'[t] = zone[t] /\ Op(t)' = Op(t)
  BY DEF Goes, GoTo, FInv, TInv, Shape, Op
<1>2. l # "empty"
  BY DEF Goes, Writing
<1> QED BY <1>1, <1>2 DEF Ahead, Sent

(* Statements that leave the zones alone.                                  *)
LEMMA OnwardFills ==
  ASSUME FInv, NEW t \in Threads, pc[t] \in Writing \ {"pwrite"}, Onward(t), Others(t),
         ~ (Op(t) = "gc" /\ pc[t] = "set"),
         wp' = wp, devwp' = devwp, cond' = cond
  PROVE  Fills'
<1>0. Shape /\ Op(t) \in Ops /\ InBody(t) /\ zone[t] \in Zones
  BY DEF FInv, TInv, Shape, Placed
<1>1. PICK l : /\ <<Op(t), pc[t], l>> \in Program
               /\ IF l = "end" THEN Ends(t) ELSE Goes(t, l)
  BY <1>0, OnwardTo
<1>2. /\ pc'[t] # "empty"
      /\ \A z \in Zones : /\ Heading(t, z)' => Heading(t, z)
                          /\ Inside(t, z)' => Inside(t, z)
                          /\ Owing(t, z)' <=> Owing(t, z)
  <2>1. CASE l = "end"
    <3>1. ~ Ahead(t)
      BY <1>1, <2>1 DEF Program, Ahead
    <3> QED BY <1>1, <2>1, <3>1, EndsAway DEF Owing
  <2>2. CASE l # "end"
    <3>1. /\ Goes(t, l)
          /\ Op(t) = "gc" => (l \in {"erase", "insert", "find2", "set"} <=>
                              pc[t] \in {"erase", "insert", "find2", "set"})
          /\ Op(t) = "write" => (l \in {"find2", "set"} <=> pc[t] \in {"find2", "set"})
      BY <1>1, <2>2 DEF Program
    <3>2. pc'[t] # "empty" /\ zone'[t] = zone[t] /\ (Ahead(t)' <=> Ahead(t)) /\ (Sent(t)' <=> Sent(t))
      BY <3>1, GoesAlong DEF Ahead, Sent
    <3>3. pc'[t] \in Writing
      BY <3>1, GoesAlong DEF Goes
    <3>4. pc[t] \in Writing
      OBVIOUS
    <3> QED BY <3>2, <3>3, <3>4 DEF Heading, Inside, Owing, Writing
  <2> QED BY <2>1, <2>2
<1> QED BY <1>2, StepFills

(* The mutex: nobody else owes zone z a page.                              *)
LEMMA OneOwes ==
  ASSUME FInv, NEW t \in Threads, pc[t] \in Writing, NEW u \in Threads, u # t
  PROVE  ~ Owing(u, zone[t])
<1>1. mutex[zone[t]] = t /\ (pc[u] \in Writing => mutex[zone[u]] = u)
  BY DEF FInv, TInv, Placed, Holding
<1> QED BY <1>1 DEF Owing, Ahead, Writing

------------------------------------------------------------------------------
(***************************************************************************)
(* The steps of threads that are not writing.                              *)
(***************************************************************************)
LEMMA DataNext ==
  ASSUME wp' \in [Zones -> 0 .. Brim], devwp' \in [Zones -> 0 .. Brim],
         inUse' \in [Zones -> BOOLEAN], valid_page' \in [Zones -> Int],
         Gc' \in BOOLEAN, meta_page' \subseteq Addr,
         Table' \in [Pages -> Addr \cup {NoAddr}],
         dev' \in [Addr -> (Pages \X Vals) \cup {NoData}],
         pos' \in [Threads -> 0 .. Cap],
         addr' \in [Threads -> Addr \cup {NoAddr}], count' \in [Threads -> Int],
         promised' \in [Pages -> Vals \cup {Absent}], late' \in BOOLEAN
  PROVE  Data'
  BY DEF Data, Zones, Threads, Addr, Brim

(* The step does not touch what the zones and the device hold.             *)
LEMMA DataKept ==
  ASSUME Data, UNCHANGED <<wp, devwp, inUse, valid_page, Gc, meta_page, Table, dev, promised, late>>,
         pos' \in [Threads -> 0 .. Cap],
         addr' \in [Threads -> Addr \cup {NoAddr}], count' \in [Threads -> Int]
  PROVE  Data'
  BY DataNext DEF Data

LEMMA StutterRest ==
  ASSUME FInv, UNCHANGED <<wp, devwp, inUse, valid_page, Gc, meta_page, Table, dev, promised, late,
                           zone, pos, addr, count, cond, pc, job>>
  PROVE  Data' /\ Locals' /\ Fills'
<1>1. Data'
  BY DataKept DEF FInv, Data
<1>2. Locals'
  BY DEF FInv, Locals, Local, Content, Op, Pg, Addr, Threads, Zones
<1>3. \A t, z : /\ Heading(t, z)' <=> Heading(t, z)
                /\ Inside(t, z)' <=> Inside(t, z)
                /\ Owing(t, z)' <=> Owing(t, z)
  BY DEF Heading, Inside, Owing, Sent, Ahead, Op
<1>4. \A z \in Zones : Fill(z)'
  <2>1. \A z \in Zones : Owed(z)' = Owed(z)
    BY <1>3, ComingNext DEF Owed
  <2> QED BY <1>3, <2>1, FillKept
<1> QED BY <1>1, <1>2, <1>4 DEF Fills, Zones

LEMMA CrashRest == ASSUME FInv, NEW why, Crash(why) PROVE Data' /\ Locals' /\ Fills'
  BY StutterRest DEF Crash, zoneVars, bitVars, devVars, localVars

(* A step of t that does not lead it to a zone.                            *)
LEMMA QuietFills ==
  ASSUME FInv, NEW t \in Threads, Others(t), wp' = wp, devwp' = devwp,
         \A z \in Zones : cond'[z] = cond[z] \/ cond'[z] # "EMPTY",
         pc[t] \notin Writing,
         pc'[t] \notin {"open", "mark", "own", "lock", "empty"} \cup Writing
  PROVE  Fills'
<1>1. \A z \in Zones : ~ Heading(t, z)' /\ ~ Inside(t, z)' /\ ~ Owing(t, z)' /\ ~ Owing(t, z)
  BY DEF Heading, Inside, Owing, Ahead, Writing
<1> QED BY <1>1, StepFills

LEMMA CallRest ==
  ASSUME FInv, NEW op, NEW p \in Pages, NEW v, NEW l \in {"scan", "lookup"},
         l = "scan" => v \in Vals, Call(op, p, v, l)
  PROVE  Data' /\ Locals' /\ Fills'
<1>0. Data /\ Locals /\ Shape /\ Main \in Threads
  BY ThreadSets DEF FInv, TInv
<1>1. /\ pc[Main] = "idle" /\ GoTo(Main, l)
      /\ job' = [job EXCEPT ![Main] = [op |-> op, p |-> p, v |-> v]]
      /\ UNCHANGED <<wp, devwp, inUse, valid_page, Gc, meta_page, Table, dev, promised, late,
                     zone, pos, addr, count, cond>>
  BY DEF Call, At, zoneVars, bitVars, devVars
<1>2. job'[Main] = [op |-> op, p |-> p, v |-> v] /\ \A u \in Threads \ {Main} : job'[u] = job[u]
  BY <1>0, <1>1 DEF Shape
<1>3. Others(Main) /\ pc'[Main] = l
  BY <1>0, <1>1, <1>2, OthersOf
<1>4. Local(Main)'
  BY <1>2, <1>3 DEF Local, Content, Op, Pg, Choosing, Writing
<1>5. Locals'
  BY <1>0, <1>1, <1>3, <1>4, OthersLocal
<1>6. Fills'
  BY <1>0, <1>1, <1>3, QuietFills DEF Writing
<1> QED BY <1>0, <1>1, <1>5, <1>6, DataKept DEF Data

LEMMA DetectRest ==
  ASSUME FInv, garbage_collection_detect
  PROVE  Data' /\ Locals' /\ Fills'
<1>1. /\ pc' = [t \in Threads |->
                  IF t \in Zones /\ Collectable(t) THEN "start" ELSE pc[t]]
      /\ UNCHANGED <<wp, devwp, inUse, valid_page, Gc, meta_page, Table, dev, promised, late,
                     zone, pos, addr, count, cond, job>>
  BY DEF garbage_collection_detect, zoneVars, bitVars, devVars, localVars
<1>2. \A t \in Threads : pc'[t] = pc[t] \/ (pc[t] = "idle" /\ pc'[t] = "start")
  BY <1>1 DEF FInv, TInv, Collecting, Collectable
<1>3. Data'
  BY <1>1, DataKept DEF FInv, Data
<1>4. ASSUME NEW t \in Threads PROVE Local(t)'
  <2>1. CASE pc'[t] = pc[t]
    BY <1>1, <2>1 DEF FInv, Locals, Local, Content, Op, Pg, Addr, Zones
  <2>2. CASE pc'[t] = "start"
    BY <2>2 DEF Local, Choosing, Writing
  <2> QED BY <1>2, <2>1, <2>2
<1>5. \A t \in Threads, z \in Zones : /\ Heading(t, z)' => Heading(t, z)
                                      /\ Inside(t, z)' => Inside(t, z)
                                      /\ Owing(t, z)' <=> Owing(t, z)
  BY <1>1, <1>2 DEF Heading, Inside, Owing, Sent, Ahead, Op, Writing
<1>6. \A z \in Zones : pc'[z] = "empty" => pc[z] = "empty"
  BY <1>2, ThreadSets
<1>7. \A z \in Zones : Fill(z)'
  <2>1. \A z \in Zones : Owed(z)' = Owed(z)
    BY <1>5, ComingNext DEF Owed
  <2> QED BY <1>1, <1>5, <1>6, <2>1, FillKept
<1> QED BY <1>3, <1>4, <1>7 DEF Locals, Fills, Threads, Zones

LEMMA ReadRest ==
  ASSUME FInv, Lookup \/ Pread
  PROVE  Data' /\ Locals' /\ Fills'
<1>0. Data /\ Locals /\ Shape /\ Main \in Threads
  BY ThreadSets DEF FInv, TInv
<1>1. CASE \E why \in {"lookup", "id"} : Crash(why)
  BY <1>1, CrashRest
<1>2. ASSUME NEW l \in {"pread", "idle"}, NEW a \in Addr \cup {NoAddr},
             pc[Main] \in {"lookup", "pread"}, GoTo(Main, l),
             addr' = [addr EXCEPT ![Main] = a],
             job' = job \/ job' = [job EXCEPT ![Main] = NoJob],
             UNCHANGED <<wp, devwp, inUse, valid_page, Gc, meta_page, Table, dev, promised, late,
                         zone, pos, count, cond>>
      PROVE  Data' /\ Locals' /\ Fills'
  <2>1. /\ \A u \in Threads \ {Main} : job'[u] = job[u] /\ addr'[u] = addr[u]
        /\ addr' \in [Threads -> Addr \cup {NoAddr}]
    BY <1>0, <1>2 DEF Shape, Data
  <2>2. Others(Main) /\ pc'[Main] = l
    BY <1>0, <1>2, <2>1, OthersOf
  <2>3. Local(Main)'
    BY <1>2, <2>2 DEF Local, Choosing, Writing
  <2>4. Locals'
    BY <1>0, <1>2, <2>1, <2>2, <2>3, OthersLocal
  <2>5. Fills'
    BY <1>0, <1>2, <2>2, QuietFills DEF Writing
  <2> QED BY <1>0, <1>2, <2>1, <2>4, <2>5, DataKept DEF Data
<1>3. CASE Lookup /\ Table[Pg(Main)] # NoAddr
  <2>1. Table[Pg(Main)] \in Addr \cup {NoAddr}
    BY <1>0, <1>3 DEF Lookup, At, Locals, Local, Data
  <2>2. /\ pc[Main] = "lookup" /\ GoTo(Main, "pread") /\ job' = job
        /\ addr' = [addr EXCEPT ![Main] = Table[Pg(Main)]]
        /\ UNCHANGED <<wp, devwp, inUse, valid_page, Gc, meta_page, Table, dev, promised, late,
                       zone, pos, count, cond>>
    BY <1>3 DEF Lookup, At, zoneVars, bitVars, devVars, Quietly
  <2> QED BY <1>2, <2>1, <2>2
<1>4. CASE Pread /\ ~ Crash("id")
  <2>1. /\ pc[Main] = "pread" /\ GoTo(Main, "idle") /\ job' = [job EXCEPT ![Main] = NoJob]
        /\ addr' = [addr EXCEPT ![Main] = NoAddr]
        /\ UNCHANGED <<wp, devwp, inUse, valid_page, Gc, meta_page, Table, dev, promised, late,
                       zone, pos, count, cond>>
    BY <1>4 DEF Pread, At, zoneVars, bitVars, devVars, Quietly
  <2> QED BY <1>2, <2>1
<1> QED BY <1>1, <1>3, <1>4 DEF Lookup

------------------------------------------------------------------------------
(***************************************************************************)
(* The choice of a zone.                                                   *)
(***************************************************************************)
(* The step of t is one of the choice, and leaves its job alone.           *)
LEMMA ChoosingRest ==
  ASSUME FInv, NEW t \in Threads, pc[t] \in Choosing,
         NEW l \in Choosing \cup Writing, Content(t) \/ l \in Choosing \cup {"find"},
         l \notin {"clear", "set"},
         GoTo(t, l) \/ (pc[t] = l /\ pc' = pc),
         zone' \in [Threads -> Zones], \A u \in Threads \ {t} : zone'[u] = zone[u],
         UNCHANGED <<wp, devwp, valid_page, Gc, meta_page, Table, dev, promised,
                     pos, addr, count, job>>,
         inUse' \in [Zones -> BOOLEAN], late' \in BOOLEAN
  PROVE  Data' /\ Locals' /\ Others(t) /\ pc'[t] = l /\ l # "empty"
<1>0. Data /\ Locals /\ Shape /\ Local(t)
  BY DEF FInv, TInv, Locals
<1>1. Others(t) /\ pc'[t] = l
  <2>1. CASE GoTo(t, l)
    BY <2>1, OthersOf
  <2>2. CASE pc[t] = l /\ pc' = pc
    BY <2>2 DEF Others
  <2> QED BY <2>1, <2>2
<1>2. Local(t)'
  <2>1. Op(t)' = Op(t) /\ Pg(t)' = Pg(t) /\ pos'[t] = pos[t] /\ (Content(t)' <=> Content(t))
    BY DEF Op, Pg, Content
  <2>2. l # "lookup" /\ l \notin {"clear", "set"}
    BY DEF Choosing, Writing
  <2> QED BY <1>0, <1>1, <2>1, <2>2 DEF Local
<1>3. Locals'
  BY <1>0, <1>1, <1>2, OthersLocal
<1>4. Data'
  BY <1>0, DataNext DEF Data
<1> QED BY <1>1, <1>3, <1>4 DEF Choosing, Writing

(* A step of the choice that does not lead t to a zone.                    *)
LEMMA ChoosingFills ==
  ASSUME FInv, NEW t \in Threads, Others(t), wp' = wp, devwp' = devwp,
         \A z \in Zones : cond'[z] = cond[z] \/ cond'[z] # "EMPTY",
         pc[t] \in Choosing, pc'[t] \in {"scan", "finish", "full", "pick"}
  PROVE  Fills'
<1>1. pc[t] \notin Writing /\ pc'[t] \notin {"open", "mark", "own", "lock", "empty"} \cup Writing
  BY DEF Choosing, Writing
<1> QED BY <1>1, QuietFills

LEMMA ScanRest ==
  ASSUME FInv, NEW t \in Threads, Scan(t)
  PROVE  Data' /\ Locals' /\ Fills'
<1> PICK z \in Zones : z = zone[t]
  BY DEF FInv, TInv, Shape
<1>0. /\ Data /\ Shape /\ TInv /\ pc[t] = "scan" /\ pc[t] \in Choosing /\ pc[t] \in Labels
      /\ UNCHANGED <<wp, devwp, valid_page, Gc, meta_page, Table, dev, promised,
                     pos, addr, count, job, inUse, late, cond>>
      /\ inUse' \in [Zones -> BOOLEAN] /\ late' \in BOOLEAN
      /\ zone \in [Threads -> Zones]
  BY DEF FInv, TInv, Shape, Scan, At, Choosing, Quietly, bitVars, zoneVars, devVars, Data
<1>1. CASE ~ InStream(z)
  <2>1. Past(t, z, "pick")
    BY <1>1 DEF Scan
  <2>2. PICK l \in {"pick", "scan"} : GoTo(t, l)
    BY <1>0, <2>1, PastCases DEF Labels, Choosing
  <2>3. /\ zone' \in [Threads -> Zones] /\ \A u \in Threads \ {t} : zone'[u] = zone[u]
        /\ l \in Choosing
    BY <1>0, <2>1, PastCases DEF Choosing
  <2>4. Data' /\ Locals' /\ Others(t) /\ pc'[t] = l
    BY <1>0, <2>2, <2>3, ChoosingRest
  <2>5. Fills'
    BY <1>0, <2>4, ChoosingFills
  <2> QED BY <2>4, <2>5
<1>2. CASE InStream(z) /\ ~ Roomy(z)
  <2>1. GoTo(t, "finish") /\ zone' = zone /\ "finish" \in Choosing
    BY <1>2 DEF Scan, Choosing
  <2>2. Data' /\ Locals' /\ Others(t) /\ pc'[t] = "finish"
    BY <1>0, <2>1, ChoosingRest
  <2>3. Fills'
    BY <1>0, <2>2, ChoosingFills
  <2> QED BY <2>2, <2>3
<1>3. CASE InStream(z) /\ Roomy(z)
  <2>1. GoTo(t, "lock") /\ zone' = zone /\ "lock" \in Choosing
    BY <1>3 DEF Scan, Choosing
  <2>2. Data' /\ Locals' /\ Others(t) /\ pc'[t] = "lock"
    BY <1>0, <2>1, ChoosingRest
  <2>3. ~ Inside(t, z)' /\ \A y \in Zones : ~ Owing(t, y)' /\ ~ Owing(t, y)
    BY <1>0, <2>2 DEF Inside, Owing, Ahead, Writing
  <2>4. Fill(z)'
    <3>1. wp[z] \in 0 .. Cap - 1 /\ devwp[z] \in Nat
      BY <1>0, <1>3, ThreadsOK DEF Roomy, Data, Brim
    <3>2. Owed(z)' \in {0, 1}
      BY ComingNext
    <3>3. wp'[z] + Owed(z)' <= Brim /\ (Even(z)' => devwp'[z] <= Cap)
      BY <1>0, <3>1, <3>2, ThreadsOK DEF Even, Brim
    <3> QED BY <1>0, <3>1, <3>3, FillRoom
  <2>5. \A y \in Zones \ {z} : ~ Heading(t, y)' /\ ~ Inside(t, y)'
    BY <2>1 DEF Heading, Inside
  <2>6. Fills'
    BY <1>0, <2>2, <2>3, <2>4, <2>5, OtherFills
  <2> QED BY <2>2, <2>6
<1> QED BY <1>1, <1>2, <1>3

LEMMA FinishRest ==
  ASSUME FInv, NEW t \in Threads, Finish(t)
  PROVE  Data' /\ Locals' /\ Fills'
<1>0. /\ Data /\ pc[t] = "finish" /\ pc[t] \in Choosing /\ "full" \in Choosing
      /\ UNCHANGED <<wp, devwp, valid_page, Gc, meta_page, Table, dev, promised,
                     pos, addr, count, job, inUse, late, cond, zone>>
      /\ inUse' \in [Zones -> BOOLEAN] /\ late' \in BOOLEAN
      /\ zone' \in [Threads -> Zones] /\ GoTo(t, "full")
  BY DEF FInv, TInv, Shape, Finish, At, Choosing, Quietly, bitVars, zoneVars, localVars, Data
<1>1. Data' /\ Locals' /\ Others(t) /\ pc'[t] = "full"
  BY <1>0, ChoosingRest
<1>2. Fills'
  BY <1>0, <1>1, ChoosingFills
<1> QED BY <1>1, <1>2

LEMMA MarkFullRest ==
  ASSUME FInv, NEW t \in Threads, MarkFull(t)
  PROVE  Data' /\ Locals' /\ Fills'
<1>0. /\ Data /\ Shape /\ pc[t] = "full" /\ pc[t] \in Choosing
      /\ UNCHANGED <<wp, devwp, valid_page, Gc, meta_page, Table, dev, promised,
                     pos, addr, count, job, inUse, late>>
      /\ inUse' \in [Zones -> BOOLEAN] /\ late' \in BOOLEAN
      /\ cond' = [cond EXCEPT ![zone[t]] = "FULL"]
  BY DEF FInv, TInv, MarkFull, At, Choosing, Quietly, bitVars, devVars, Data
<1>1. PICK l \in {"scan", "pick"} : GoTo(t, l)
  BY DEF MarkFull
<1>2. zone' \in [Threads -> Zones] /\ \A u \in Threads \ {t} : zone'[u] = zone[u]
  BY <1>0, ZoneSet DEF MarkFull, Shape
<1>3. Data' /\ Locals' /\ Others(t) /\ pc'[t] = l
  BY <1>0, <1>1, <1>2, ChoosingRest DEF Choosing
<1>4. \A z \in Zones : cond'[z] = cond[z] \/ cond'[z] # "EMPTY"
  BY <1>0 DEF Shape
<1>5. Fills'
  BY <1>0, <1>3, <1>4, ChoosingFills
<1> QED BY <1>3, <1>5

(* A zone is not being reset when it is empty.                             *)
LEMMA PickRest ==
  ASSUME FInv, NEW t \in Threads, Pick(t)
  PROVE  Data' /\ Locals' /\ Fills'
<1> PICK z \in Zones : z = zone[t]
  BY DEF FInv, TInv, Shape
<1>0. Data /\ Shape /\ pc[t] = "pick" /\ pc[t] \in Choosing
  BY DEF FInv, TInv, Pick, At, Choosing, Shape
<1>1. CASE ~ Spare(z) /\ z + 1 \notin Zones
  BY <1>1, CrashRest DEF Pick
<1>2. CASE ~ (~ Spare(z) /\ z + 1 \notin Zones)
  <2>0. /\ UNCHANGED <<wp, devwp, valid_page, Gc, meta_page, Table, dev, promised,
                       pos, addr, count, job, inUse, late, cond>>
        /\ inUse' \in [Zones -> BOOLEAN] /\ late' \in BOOLEAN
    BY <1>0, <1>2 DEF Pick, Quietly, zoneVars, bitVars, devVars, Data
  <2>1. CASE ~ Spare(z)
    <3>1. zone' = [zone EXCEPT ![t] = z + 1] /\ pc' = pc /\ z + 1 \in Zones
      BY <1>2, <2>1 DEF Pick
    <3>2. zone' \in [Threads -> Zones] /\ \A u \in Threads \ {t} : zone'[u] = zone[u]
      BY <1>0, <3>1 DEF Shape
    <3>3. Data' /\ Locals' /\ Others(t) /\ pc'[t] = "pick"
      BY <1>0, <2>0, <3>1, <3>2, ChoosingRest
    <3>4. Fills'
      BY <1>0, <2>0, <3>3, ChoosingFills
    <3> QED BY <3>3, <3>4
  <2>2. CASE Spare(z)
    <3>1. GoTo(t, "open") /\ zone' = zone /\ "open" \in Choosing
      BY <1>2, <2>2 DEF Pick, Choosing
    <3>2. Data' /\ Locals' /\ Others(t) /\ pc'[t] = "open"
      BY <1>0, <2>0, <3>1, ChoosingRest DEF Shape
    <3>3. \A y \in Zones : /\ ~ Owing(t, y)' /\ ~ Owing(t, y)
                           /\ ~ Inside(t, y)' /\ ~ Inside(t, y)
      BY <1>0, <3>2 DEF Inside, Owing, Ahead, Writing
    <3>4. Fill(z)'
      <4>1. pc[z] # "empty" /\ cond[z] = "EMPTY"
        BY <1>0, <2>2 DEF Spare, FInv, TInv, Collecting, Given
      <4>2. pc'[z] # "empty"
        BY <1>0, <3>2, <4>1, ThreadSets DEF Others
      <4>3. \A u \in Threads : (Owing(u, z)' <=> Owing(u, z)) /\ (Inside(u, z)' <=> Inside(u, z))
        BY <1>0, <3>2, <3>3, OthersHeading
      <4> QED BY <1>0, <2>0, <4>1, <4>2, <4>3, FillFound
    <3>5. \A y \in Zones \ {z} : ~ Heading(t, y)'
      BY <3>1, <3>3 DEF Heading
    <3>6. Fills'
      BY <1>0, <2>0, <3>2, <3>3, <3>4, <3>5, OtherFills
    <3> QED BY <3>2, <3>6
  <2> QED BY <2>1, <2>2
<1> QED BY <1>1, <1>2

(* Between the choice of an empty zone and its mutex.                      *)
LEMMA OpeningRest ==
  ASSUME FInv, NEW t \in Threads, NEW l \in {"mark", "own", "lock"},
         pc[t] \in {"open", "mark", "own"}, GoTo(t, l),
         UNCHANGED <<wp, devwp, valid_page, Gc, meta_page, Table, dev, promised,
                     pos, addr, count, job, zone>>,
         inUse' \in [Zones -> BOOLEAN], late' \in BOOLEAN,
         cond' = cond \/ cond' = [cond EXCEPT ![zone[t]] = "OPEN"]
  PROVE  Data' /\ Locals' /\ Fills'
<1>0. Shape
  BY DEF FInv, TInv
<1>1. Data' /\ Locals' /\ Others(t) /\ pc'[t] = l /\ l # "empty"
  BY <1>0, ChoosingRest DEF Choosing, Shape
<1>2. \A z \in Zones : cond'[z] = cond[z] \/ cond'[z] # "EMPTY"
  BY <1>0 DEF Shape
<1>3. \A z \in Zones : /\ ~ Owing(t, z)' /\ ~ Owing(t, z) /\ ~ Inside(t, z)'
                       /\ Heading(t, z)' => Heading(t, z)
  BY <1>1 DEF Heading, Inside, Owing, Ahead, Writing
<1>4. Fills'
  BY <1>1, <1>2, <1>3, StepFills
<1> QED BY <1>1, <1>4

LEMMA OpenRest ==
  ASSUME FInv, NEW t \in Threads, Open(t) \/ MarkOpen(t) \/ Own(t)
  PROVE  Data' /\ Locals' /\ Fills'
<1>0. Data /\ Shape
  BY DEF FInv, TInv
<1>1. CASE Open(t)
  <2>1. CASE zone[t] \in finished
    BY <1>1, <2>1, CrashRest DEF Open
  <2>2. CASE zone[t] \notin finished
    BY <1>0, <1>1, <2>2, OpeningRest
       DEF Open, At, Quietly, zoneVars, bitVars, devVars, localVars, Data
  <2> QED BY <2>1, <2>2
<1>2. CASE MarkOpen(t)
  BY <1>0, <1>2, OpeningRest DEF MarkOpen, At, bitVars, devVars, localVars, Data
<1>3. CASE Own(t)
  <2>1. inUse' \in [Zones -> BOOLEAN]
    BY <1>0, <1>3 DEF Own, Data
  <2> QED BY <1>0, <1>3, <2>1, OpeningRest DEF Own, At, Quietly, bitVars, devVars, localVars, Data
<1> QED BY <1>1, <1>2, <1>3

LEMMA LockRest ==
  ASSUME FInv, NEW t \in Threads, Lock(t)
  PROVE  Data' /\ Locals' /\ Fills'
<1>0. /\ Data /\ Locals /\ Shape /\ Local(t) /\ pc[t] = "lock" /\ Op(t) \in Ops
      /\ pc[t] \in Choosing
      /\ UNCHANGED <<wp, devwp, inUse, valid_page, Gc, meta_page, Table, dev, promised, late,
                     pos, addr, count, cond>>
      /\ inUse' \in [Zones -> BOOLEAN] /\ late' \in BOOLEAN
  BY DEF FInv, TInv, Lock, At, Locals, Placed, Choosing, Quietly, zoneVars, bitVars, devVars,
         Data
<1>1. CASE cond[zone[t]] = "OPEN"
  <2> DEFINE l == IF Op(t) = "new" THEN "insert" ELSE "find"
  <2>1. GoTo(t, l) /\ UNCHANGED <<zone, job>>
    <3>1. Body(Op(t))[1] = l
      <4>1. CASE Op(t) = "write"
        BY <4>1 DEF Body
      <4>2. CASE Op(t) = "gc"
        BY <4>2 DEF Body
      <4>3. CASE Op(t) = "new"
        BY <4>3 DEF Body
      <4> QED BY <1>0, <4>1, <4>2, <4>3 DEF Ops
    <3> QED BY <1>1, <3>1 DEF Lock
  <2>2. l \in Writing /\ l \notin {"clear", "set"} /\ (Content(t) \/ l \in Choosing \cup {"find"})
    BY <1>0 DEF Writing, Local
  <2>3. Data' /\ Locals' /\ Others(t) /\ pc'[t] = l /\ l # "empty"
    <3> HIDE DEF l
    <3> QED BY <1>0, <2>1, <2>2, ChoosingRest DEF Shape
  <2>4. \A z \in Zones : /\ Heading(t, z)' => Heading(t, z)
                         /\ Inside(t, z)' => cond'[z] # "EMPTY"
                         /\ ~ Owing(t, z)' /\ ~ Owing(t, z)
    <3>1. Op(t)' = Op(t)
      BY <2>1 DEF Op
    <3>2. ~ Ahead(t)' /\ ~ Ahead(t)
      BY <1>0, <2>3, <3>1 DEF Ahead
    <3> QED BY <1>0, <1>1, <2>1, <3>2 DEF Heading, Inside, Owing, Writing
  <2>5. Fills'
    <3> HIDE DEF l
    <3> QED BY <1>0, <2>3, <2>4, StepFills
  <2> QED BY <2>3, <2>5
<1>2. CASE cond[zone[t]] # "OPEN"
  <2> DEFINE o == IF Op(t) = "new" THEN "write" ELSE Op(t)
  <2>1. /\ GoTo(t, "scan") /\ zone' = [zone EXCEPT ![t] = 0]
        /\ job' = [job EXCEPT ![t] = [job[t] EXCEPT !.op = o]]
    BY <1>2 DEF Lock, Op
  <2>2. /\ job'[t] = [op |-> o, p |-> Pg(t), v |-> job[t].v]
        /\ \A u \in Threads \ {t} : job'[u] = job[u]
    BY <1>0, <2>1 DEF Shape
  <2>3. \A u \in Threads \ {t} : zone'[u] = zone[u]
    BY <1>0, <2>1 DEF Shape
  <2>4. Others(t) /\ pc'[t] = "scan"
    BY <2>1, <2>2, <2>3, OthersOf
  <2>5. Local(t)'
    <3>1. Op(t)' = o /\ Pg(t)' = Pg(t) /\ job'[t].v = job[t].v /\ (Op(t) = "gc" => o = "gc")
      BY <2>2 DEF Op, Pg
    <3> HIDE DEF o
    <3> QED BY <1>0, <2>4, <3>1 DEF Local, Content, Choosing, Writing
  <2>6. Locals'
    BY <1>0, <2>4, <2>5, OthersLocal
  <2>7. Fills'
    BY <1>0, <2>4, ChoosingFills
  <2> QED BY <1>0, <2>6, <2>7, DataKept DEF Data
<1> QED BY <1>1, <1>2

------------------------------------------------------------------------------
(***************************************************************************)
(* The statements under the mutex.                                         *)
(***************************************************************************)
(* Past the first lookup, the page is one.                                 *)
LEMMA WritingContent ==
  ASSUME FInv, NEW t \in Threads, pc[t] \in Writing, pc[t] # "find" \/ Pg(t) \in Pages
  PROVE  Content(t)
<1>1. Local(t)
  BY DEF FInv, Locals
<1>2. pc[t] \notin Choosing
  BY DEF Choosing, Writing
<1> QED BY <1>1, <1>2, ThreadsOK DEF Local

LEMMA FindRest ==
  ASSUME FInv, NEW t \in Threads, NEW l \in {"find", "find2"}, NEW bit \in BOOLEAN,
         Find(t, l, bit)
  PROVE  Data' /\ Locals' /\ Fills'
<1> DEFINE a == Table[Pg(t)]
<1>0. Data /\ pc[t] = l /\ pc[t] \in Writing \ {"pwrite", "set"}
  BY DEF FInv, Find, At, Writing
<1>1. CASE \E why \in {"lookup", "bit"} : Crash(why)
  BY <1>1, CrashRest
<1>2. CASE ~ \E why \in {"lookup", "bit"} : Crash(why)
  <2>1. /\ Pg(t) \in Pages /\ a # NoAddr
        /\ addr' = [addr EXCEPT ![t] = a]
        /\ count' = [count EXCEPT ![t] = valid_page[a[1]]]
        /\ Onward(t)
        /\ UNCHANGED <<wp, devwp, inUse, valid_page, Gc, meta_page, Table, dev, cond, late>>
    BY <1>2 DEF Find, zoneVars, bitVars, devVars
  <2>2. Content(t)
    BY <1>0, <2>1, WritingContent
  <2>3. a \in Addr /\ valid_page[a[1]] \in Int
    <3>1. a \in Addr
      BY <1>0, <2>1 DEF Data
    <3>2. a[1] \in Zones
      BY <3>1 DEF Addr
    <3> QED BY <1>0, <3>1, <3>2 DEF Data
  <2> HIDE DEF a
  <2>4. /\ addr' \in [Threads -> Addr \cup {NoAddr}] /\ addr'[t] \in Addr
        /\ \A u \in Threads \ {t} : addr'[u] = addr[u]
        /\ count' \in [Threads -> Int]
    BY <1>0, <2>1, <2>3 DEF Data
  <2>5. /\ Locals' /\ Others(t)
        /\ pos' \in [Threads -> 0 .. Cap]
        /\ promised' \in [Pages -> Vals \cup {Absent}]
    BY <1>0, <2>1, <2>2, <2>4, OnwardLocals
  <2>6. Fills'
    BY <1>0, <2>1, <2>5, OnwardFills
  <2>7. Data'
    BY <1>0, <2>1, <2>4, <2>5, DataNext DEF Data
  <2> QED BY <2>5, <2>6, <2>7
<1> QED BY <1>1, <1>2

(* The thread t, in zone z, moves wp or sends a page, and goes no further. *)
LEMMA OnlyHere ==
  ASSUME FInv, NEW t \in Threads, NEW z \in Zones, z = zone[t], Others(t), Fill(z)',
         cond' = cond, \A y \in Zones \ {z} : wp'[y] = wp[y] /\ devwp'[y] = devwp[y],
         (\A y \in Zones : ~ Heading(t, y)' /\ ~ Inside(t, y)' /\ ~ Owing(t, y)')
           \/ zone'[t] = zone[t],
         pc'[t] # "empty"
  PROVE  Fills'
<1>1. \A y \in Zones \ {z} : ~ Heading(t, y)' /\ ~ Inside(t, y)' /\ ~ Owing(t, y)' /\ ~ Owing(t, y)
  BY DEF Heading, Inside, Owing
<1> QED BY <1>1, OtherFills

LEMMA SetValidRest ==
  ASSUME FInv, NEW t \in Threads, NEW l \in {"clear", "set"}, NEW bit \in BOOLEAN,
         bit <=> l = "set", SetValid(t, l, bit)
  PROVE  Data' /\ Locals' /\ Fills'
<1>0. /\ Data /\ Placed(t) /\ Local(t) /\ pc[t] = l /\ pc[t] \in Writing \ {"pwrite", "find"}
      /\ Op(t) \in Ops /\ InBody(t)
  BY DEF FInv, TInv, Locals, SetValid, At, Writing, Placed
<1>1. /\ valid_page' = [valid_page EXCEPT ![addr[t][1]] = count[t] + (IF bit THEN 1 ELSE -1)]
      /\ meta_page' = IF bit THEN meta_page \cup {addr[t]} ELSE meta_page \ {addr[t]}
      /\ addr' = [addr EXCEPT ![t] = NoAddr] /\ count' = [count EXCEPT ![t] = 0]
      /\ wp' = IF bit /\ Op(t) = "gc" THEN [wp EXCEPT ![zone[t]] = @ + 1] ELSE wp
      /\ Onward(t)
      /\ UNCHANGED <<devwp, inUse, Gc, Table, dev, cond, late>>
  BY DEF SetValid, devVars
<1>2. Content(t) /\ addr[t] \in Addr
  BY <1>0, WritingContent DEF Local
<1>3. valid_page' \in [Zones -> Int] /\ meta_page' \subseteq Addr
  <2>1. count[t] + (IF bit THEN 1 ELSE -1) \in Int
    BY <1>0 DEF Data
  <2>2. meta_page' \subseteq Addr
    BY <1>0, <1>1, <1>2 DEF Data
  <2>3. valid_page' \in [Zones -> Int]
    BY <1>0, <1>1, <2>1 DEF Data
  <2> QED BY <2>2, <2>3
<1>4. /\ addr' \in [Threads -> Addr \cup {NoAddr}] /\ count' \in [Threads -> Int]
      /\ \A u \in Threads \ {t} : addr'[u] = addr[u]
  BY <1>0, <1>1 DEF Data
<1>5. /\ Locals' /\ Others(t)
      /\ pos' \in [Threads -> 0 .. Cap]
      /\ promised' \in [Pages -> Vals \cup {Absent}]
  BY <1>0, <1>1, <1>2, <1>4, OnwardLocals
<1>6. Fills' /\ wp' \in [Zones -> 0 .. Brim]
  <2>1. CASE bit /\ Op(t) = "gc"
    <3>0. PICK z \in Zones : z = zone[t]
      BY DEF FInv, TInv, Shape
    <3>1. PICK k : /\ <<Op(t), pc[t], k>> \in Program
                   /\ IF k = "end" THEN Ends(t) ELSE Goes(t, k)
      BY <1>0, <1>1, OnwardTo
    <3>2. k = "end"
      BY <1>0, <2>1, <3>1 DEF Program
    <3>3. /\ \A y \in Zones : ~ Heading(t, y)' /\ ~ Inside(t, y)' /\ ~ Owing(t, y)'
          /\ pc'[t] # "empty"
      BY <3>1, <3>2, EndsAway
    <3>4. /\ wp'[z] = wp[z] + 1 /\ wp[z] \in 0 .. Brim
          /\ \A y \in Zones \ {z} : wp'[y] = wp[y]
      BY <1>0, <1>1, <2>1, <3>0 DEF Data
    <3>5. Owed(z) = 1
      <4>1. Owing(t, z)
        BY <1>0, <2>1, <3>0 DEF Owing, Ahead
      <4> QED BY <4>1 DEF Owed
    <3>6. Owed(z)' = 0
      <4>1. \A u \in Threads : ~ Owing(u, z)'
        BY <1>0, <1>5, <3>0, <3>3, OneOwes, OthersHeading
      <4> QED BY <4>1, ComingNext
    <3>7. wp'[z] + Owed(z)' = wp[z] + Owed(z)
      BY <3>4, <3>5, <3>6, ThreadsOK DEF Brim
    <3>8. /\ \A u \in Threads : Heading(u, z)' => Heading(u, z)
          /\ \A u \in Threads : Inside(u, z)' => Inside(u, z)
      BY <1>5, <3>3, OthersHeading
    <3>9. pc'[z] = "empty" => pc[z] = "empty"
      BY <1>5, <3>3, ThreadSets DEF Others
    <3>10. Fill(z)'
      BY <1>1, <3>7, <3>8, <3>9, FillKept
    <3>11. Fills'
      BY <1>1, <1>5, <3>0, <3>3, <3>4, <3>10, OnlyHere
    <3>12. wp[z] + 1 <= Brim
      <4>1. Fill(z)
        BY DEF FInv, Fills
      <4> QED BY <3>5, <4>1 DEF Fill
    <3>13. wp' \in [Zones -> 0 .. Brim]
      <4>1. wp[z] + 1 \in 0 .. Brim
        BY <3>4, <3>12, ThreadsOK DEF Brim
      <4> QED BY <1>0, <1>1, <2>1, <3>0, <4>1 DEF Data
    <3> QED BY <3>11, <3>13
  <2>2. CASE ~ (bit /\ Op(t) = "gc")
    <3>1. wp' = wp /\ ~ (Op(t) = "gc" /\ pc[t] = "set")
      BY <1>0, <1>1, <2>2
    <3>2. Fills'
      BY <1>0, <1>1, <1>5, <3>1, OnwardFills
    <3> QED BY <1>0, <3>1, <3>2 DEF Data
  <2> QED BY <2>1, <2>2
<1>7. Data'
  BY <1>0, <1>1, <1>3, <1>4, <1>5, <1>6, DataNext DEF Data
<1> QED BY <1>5, <1>6, <1>7

LEMMA EntryRest ==
  ASSUME FInv, NEW t \in Threads, Erase(t) \/ Insert(t)
  PROVE  Data' /\ Locals' /\ Fills'
<1>0. Data /\ pc[t] \in Writing \ {"pwrite", "find", "find2", "set"}
  BY DEF FInv, TInv, Erase, Insert, At, Writing
<1>1. /\ Onward(t)
      /\ UNCHANGED <<wp, devwp, inUse, valid_page, Gc, meta_page, dev, addr, count, cond, late>>
  BY DEF Erase, Insert, zoneVars, bitVars, devVars
<1>2. Table' \in [Pages -> Addr \cup {NoAddr}]
  <2>1. <<zone[t], wp[zone[t]]>> \in Addr
    <3>1. zone[t] \in Zones /\ wp[zone[t]] \in 0 .. Brim
      BY <1>0 DEF FInv, TInv, Shape, Data
    <3>2. wp[zone[t]] \in 0 .. DevCap - 1
      BY <3>1, ThreadsOK DEF Brim
    <3> QED BY <3>1, <3>2 DEF Addr
  <2>2. CASE Erase(t)
    BY <1>0, <2>2 DEF Erase, Data
  <2>3. CASE Insert(t)
    <3>1. Table' = [Table EXCEPT ![Pg(t)] =
                      IF Table[Pg(t)] = NoAddr THEN <<zone[t], wp[zone[t]]>> ELSE Table[Pg(t)]]
      BY <2>3 DEF Insert
    <3>2. Pg(t) \in Pages => Table[Pg(t)] \in Addr \cup {NoAddr}
      BY <1>0 DEF Data
    <3> QED BY <1>0, <2>1, <3>1, <3>2 DEF Data
  <2> QED BY <2>2, <2>3
<1>3. Content(t)
  BY <1>0, WritingContent
<1>4. /\ Locals' /\ Others(t)
      /\ pos' \in [Threads -> 0 .. Cap]
      /\ promised' \in [Pages -> Vals \cup {Absent}]
  BY <1>0, <1>1, <1>3, OnwardLocals DEF Data
<1>5. Fills'
  BY <1>0, <1>1, <1>4, OnwardFills
<1>6. Data'
  BY <1>0, <1>1, <1>2, <1>4, DataNext DEF Data
<1> QED BY <1>4, <1>5, <1>6

(* A pwrite goes to a zone whose wp is the device's: it is even.           *)
LEMMA PwriteRest ==
  ASSUME FInv, NEW t \in Threads, Pwrite(t)
  PROVE  Data' /\ Locals' /\ Fills'
<1>0. /\ Data /\ Fills /\ Placed(t) /\ pc[t] = "pwrite" /\ pc[t] \in Writing
      /\ Op(t) \in Ops /\ InBody(t)
  BY DEF FInv, TInv, Pwrite, At, Writing, Placed
<1>1. PICK z \in Zones : z = zone[t]
  BY DEF FInv, TInv, Shape
<1>2. CASE \E why \in {"full", "pwrite"} : Crash(why)
  BY <1>2, CrashRest
<1>3. CASE ~ \E why \in {"full", "pwrite"} : Crash(why)
  <2>1. /\ devwp[z] = wp[z] /\ Onward(t)
        /\ dev' = [dev EXCEPT ![<<z, wp[z]>>] = <<Pg(t), job[t].v>>]
        /\ devwp' = [devwp EXCEPT ![z] = @ + 1]
        /\ wp' = IF Op(t) = "gc" THEN wp ELSE [wp EXCEPT ![z] = @ + 1]
        /\ UNCHANGED <<inUse, valid_page, Gc, meta_page, Table, addr, count, cond, late>>
    BY <1>1, <1>3 DEF Pwrite, bitVars
  <2>2. Content(t)
    BY <1>0, WritingContent
  <2>3. /\ Locals' /\ Others(t)
        /\ pos' \in [Threads -> 0 .. Cap]
        /\ promised' \in [Pages -> Vals \cup {Absent}]
    BY <1>0, <2>1, <2>2, OnwardLocals DEF Data
  <2>4. Inside(t, z) /\ ~ Ahead(t)
    BY <1>0, <1>1 DEF Inside, Sent, Ahead
  <2>5. Owed(z) = 0 /\ Even(z)
    <3>1. \A u \in Threads : ~ Owing(u, z)
      BY <1>0, <1>1, <2>4, OneOwes DEF Owing
    <3>2. Owed(z) = 0
      BY <3>1 DEF Owed
    <3> QED BY <1>0, <2>1, <3>2, ThreadsOK DEF Even, Data, Brim
  <2>6. PICK k : /\ <<Op(t), pc[t], k>> \in Program
                 /\ IF k = "end" THEN Ends(t) ELSE Goes(t, k)
    BY <1>0, <2>1, OnwardTo
  <2>7. /\ wp[z] \in 0 .. Brim /\ devwp[z] \in 0 .. Brim
        /\ devwp'[z] = devwp[z] + 1 /\ wp'[z] = IF Op(t) = "gc" THEN wp[z] ELSE wp[z] + 1
        /\ \A y \in Zones \ {z} : wp'[y] = wp[y] /\ devwp'[y] = devwp[y]
    BY <1>0, <2>1 DEF Data
  <2>8. /\ ~ Heading(t, z)' /\ pc'[t] # "empty"
        /\ Owing(t, z)' <=> Op(t) = "gc"
        /\ (\A y \in Zones : ~ Heading(t, y)' /\ ~ Inside(t, y)' /\ ~ Owing(t, y)')
             \/ zone'[t] = zone[t]
    <3>1. CASE k = "end"
      <4>1. Op(t) # "gc"
        BY <1>0, <2>6, <3>1 DEF Program
      <4> QED BY <2>6, <3>1, <4>1, EndsAway
    <3>2. CASE k # "end"
      <4>1. /\ Goes(t, k)
            /\ \/ Op(t) = "gc" /\ k = "erase"
               \/ Op(t) = "write" /\ k = "find2"
        BY <1>0, <2>6, <3>2 DEF Program
      <4>2. /\ pc'[t] = k /\ pc'[t] # "empty" /\ zone'[t] = zone[t] /\ Sent(t)'
            /\ Ahead(t)' <=> Op(t) = "gc"
        BY <4>1, GoesAlong
      <4> QED BY <1>1, <4>1, <4>2 DEF Heading, Inside, Owing
    <3> QED BY <3>1, <3>2
  <2>9. Owed(z)' = IF Op(t) = "gc" THEN 1 ELSE 0
    <3>1. \A u \in Threads \ {t} : ~ Owing(u, z)'
      BY <1>0, <1>1, <2>3, OneOwes, OthersHeading
    <3> QED BY <2>8, <3>1, ComingNext
  <2>10. wp'[z] + Owed(z)' = wp[z] + Owed(z) + 1
    BY <2>5, <2>7, <2>9, ThreadsOK DEF Brim
  <2>11. /\ \A u \in Threads : Heading(u, z)' => Heading(u, z) /\ u # t
         /\ \A u \in Threads : Inside(u, z)' => Inside(u, z)
    BY <2>3, <2>4, <2>8, OthersHeading
  <2>12. pc'[z] = "empty" => pc[z] = "empty"
    BY <2>3, <2>8, ThreadSets DEF Others
  <2>13. Fill(z)' /\ devwp[z] + 1 <= Brim
    BY <2>1, <2>4, <2>5, <2>7, <2>10, <2>11, <2>12, FillSent
  <2>14. Fills'
    BY <1>1, <2>1, <2>3, <2>7, <2>8, <2>13, OnlyHere
  <2>15. wp' \in [Zones -> 0 .. Brim] /\ devwp' \in [Zones -> 0 .. Brim]
    <3>1. wp[z] + 1 \in 0 .. Brim /\ devwp[z] + 1 \in 0 .. Brim
      BY <2>1, <2>7, <2>13, ThreadsOK DEF Brim
    <3> QED BY <1>0, <2>1, <3>1 DEF Data
  <2>16. dev' \in [Addr -> (Pages \X Vals) \cup {NoData}]
    BY <1>0, <2>1, <2>2 DEF Data, Content
  <2>17. Data'
    BY <1>0, <2>1, <2>3, <2>15, <2>16, DataNext DEF Data
  <2> QED BY <2>3, <2>14, <2>17
<1> QED BY <1>2, <1>3

LEMMA WriterRest ==
  ASSUME FInv, NEW t \in Threads, Writer(t)
  PROVE  Data' /\ Locals' /\ Fills'
<1>1. CASE Scan(t) \/ Finish(t) \/ MarkFull(t) \/ Pick(t) \/ Lock(t)
  BY <1>1, ScanRest, FinishRest, MarkFullRest, PickRest, LockRest
<1>2. CASE Open(t) \/ MarkOpen(t) \/ Own(t)
  BY <1>2, OpenRest
<1>3. CASE Find(t, "find", FALSE) \/ Find(t, "find2", TRUE)
  BY <1>3, FindRest
<1>4. CASE SetValid(t, "clear", FALSE) \/ SetValid(t, "set", TRUE)
  BY <1>4, SetValidRest
<1>5. CASE Erase(t) \/ Insert(t) \/ Pwrite(t)
  BY <1>5, EntryRest, PwriteRest
<1> QED BY <1>1, <1>2, <1>3, <1>4, <1>5 DEF Writer

------------------------------------------------------------------------------
(***************************************************************************)
(* The collector's own steps.                                              *)
(***************************************************************************)
LEMMA GcStartRest ==
  ASSUME FInv, NEW z \in Zones, GcStart(z)
  PROVE  Data' /\ Locals' /\ Fills'
<1>0. Data /\ Locals /\ z \in Threads
  BY ThreadSets DEF FInv
<1>1. /\ pc[z] = "start" /\ GoTo(z, "look") /\ Gc' = TRUE
      /\ UNCHANGED <<wp, devwp, inUse, valid_page, meta_page, Table, dev, promised, late,
                     zone, pos, addr, count, cond, job>>
  BY DEF GcStart, At, zoneVars, bitVars, devVars, localVars
<1>2. Others(z) /\ pc'[z] = "look"
  BY <1>0, <1>1, OthersOf
<1>3. Local(z)'
  BY <1>2 DEF Local, Choosing, Writing
<1>4. Locals'
  BY <1>0, <1>1, <1>2, <1>3, OthersLocal
<1>5. Fills'
  BY <1>0, <1>1, <1>2, QuietFills DEF Writing
<1> QED BY <1>0, <1>1, <1>4, <1>5, DataNext DEF Data

LEMMA GcLookRest ==
  ASSUME FInv, NEW z \in Zones, GcLook(z)
  PROVE  Data' /\ Locals' /\ Fills'
<1>0. Data /\ Locals /\ Shape /\ z \in Threads
  BY ThreadSets DEF FInv, TInv
<1>1. /\ pc[z] = "look" /\ pos[z] < Cap
      /\ UNCHANGED <<wp, devwp, inUse, valid_page, Gc, meta_page, Table, dev, promised, late,
                     zone, addr, count, cond>>
  BY DEF GcLook, At, zoneVars, bitVars, devVars, Quietly
<1>2. CASE <<z, pos[z]>> \in meta_page
  <2> DEFINE d == Stored(<<z, pos[z]>>)
  <2>1. /\ job' = [job EXCEPT ![z] = [op |-> "gc", p |-> d[1], v |-> d[2]]]
        /\ GoTo(z, "scan") /\ pos' = pos
    BY <1>2 DEF GcLook
  <2>2. (d[1] \in Pages /\ d[2] \in Vals) \/ d[1] = Absent
    <3>1. <<z, pos[z]>> \in Addr
      BY <1>0, <1>2 DEF Data
    <3>2. dev[<<z, pos[z]>>] \in (Pages \X Vals) \cup {NoData}
      BY <1>0, <3>1 DEF Data
    <3> QED BY <3>2 DEF Stored
  <2> HIDE DEF d
  <2>3. /\ job'[z] = [op |-> "gc", p |-> d[1], v |-> d[2]]
        /\ \A u \in Threads \ {z} : job'[u] = job[u]
    BY <1>0, <2>1 DEF Shape
  <2>4. Others(z) /\ pc'[z] = "scan"
    BY <1>0, <1>1, <2>1, <2>3, OthersOf
  <2>5. pos[z] # Cap
    BY <1>0, <1>1, ThreadsOK DEF Data
  <2>6. Local(z)'
    BY <2>1, <2>2, <2>3, <2>4, <2>5 DEF Local, Content, Op, Pg, Choosing, Writing
  <2>7. Locals'
    BY <1>0, <1>1, <2>1, <2>4, <2>6, OthersLocal
  <2>8. Fills'
    BY <1>0, <1>1, <2>4, QuietFills DEF Writing
  <2> QED BY <1>0, <1>1, <2>1, <2>7, <2>8, DataKept DEF Data
<1>3. CASE <<z, pos[z]>> \notin meta_page
  <2>1. pos' = [pos EXCEPT ![z] = @ + 1] /\ job' = job /\ pc' = pc
    BY <1>3 DEF GcLook
  <2>2. Others(z) /\ pc'[z] = "look"
    BY <1>1, <2>1 DEF Others
  <2>3. pos' \in [Threads -> 0 .. Cap] /\ \A u \in Threads \ {z} : pos'[u] = pos[u]
    <3>1. pos[z] + 1 \in 0 .. Cap
      BY <1>0, <1>1, ThreadsOK DEF Data
    <3> QED BY <1>0, <2>1, <3>1 DEF Data
  <2>4. Local(z)'
    BY <2>2 DEF Local, Choosing, Writing
  <2>5. Locals'
    BY <1>0, <1>1, <2>2, <2>3, <2>4, OthersLocal
  <2>6. Fills'
    BY <1>0, <1>1, <2>2, QuietFills DEF Writing
  <2> QED BY <1>0, <1>1, <2>3, <2>5, <2>6, DataKept DEF Data
<1> QED BY <1>2, <1>3

(* The device starts the zone again.                                       *)
LEMMA GcResetRest ==
  ASSUME FInv, NEW z \in Zones, GcReset(z)
  PROVE  Data' /\ Locals' /\ Fills'
<1>0. Data /\ Locals /\ Fills /\ Shape /\ z \in Threads
  BY ThreadSets DEF FInv, TInv
<1>1. /\ pc[z] = "look" /\ GoTo(z, "empty")
      /\ dev' = [a \in Addr |-> IF a[1] = z THEN NoData ELSE dev[a]]
      /\ devwp' = [devwp EXCEPT ![z] = 0]
      /\ UNCHANGED <<wp, valid_page, Gc, meta_page, Table, promised, late, inUse, cond,
                     zone, pos, addr, count, job>>
  BY DEF GcReset, At, zoneVars, bitVars, localVars, Quietly
<1>2. Others(z) /\ pc'[z] = "empty"
  BY <1>0, <1>1, OthersOf
<1>3. Local(z)'
  BY <1>2 DEF Local, Choosing, Writing
<1>4. Locals'
  BY <1>0, <1>1, <1>2, <1>3, OthersLocal
<1>5. \A y \in Zones : ~ Heading(z, y)' /\ ~ Inside(z, y)' /\ ~ Owing(z, y)' /\ ~ Owing(z, y)
  BY <1>1, <1>2 DEF Heading, Inside, Owing, Ahead, Writing
<1>6. Fill(z)'
  <2>1. devwp'[z] = 0
    BY <1>0, <1>1 DEF Data
  <2>2. \A u \in Threads : Owing(u, z)' <=> Owing(u, z)
    BY <1>0, <1>2, <1>5, OthersHeading
  <2>3. Owed(z)' = Owed(z) /\ Fill(z)
    BY <1>0, <2>2, ComingNext DEF Owed, Fills
  <2> QED BY <1>1, <2>1, <2>3, FillRoom, ThreadsOK DEF Fill
<1>7. \A y \in Zones \ {z} : devwp'[y] = devwp[y]
  BY <1>0, <1>1 DEF Data
<1>8. Fills'
  BY <1>0, <1>1, <1>2, <1>5, <1>6, <1>7, OtherFills
<1>9. /\ devwp' \in [Zones -> 0 .. Brim]
      /\ dev' \in [Addr -> (Pages \X Vals) \cup {NoData}]
  <2>1. 0 \in 0 .. Brim
    BY ThreadsOK DEF Brim, Zones
  <2>2. devwp' \in [Zones -> 0 .. Brim]
    BY <1>0, <1>1, <2>1 DEF Data
  <2>3. dev' \in [Addr -> (Pages \X Vals) \cup {NoData}]
    BY <1>0, <1>1 DEF Data
  <2> QED BY <2>2, <2>3
<1> QED BY <1>0, <1>1, <1>4, <1>8, <1>9, DataNext DEF Data

(* The zone is given up.                                                   *)
LEMMA GcGivenRest ==
  ASSUME FInv, NEW z \in Zones, GcEmpty(z) \/ GcDisown(z)
  PROVE  Data' /\ Locals' /\ Fills'
<1>0. Data /\ Locals /\ Shape /\ z \in Threads
  BY ThreadSets DEF FInv, TInv
<1>1. /\ UNCHANGED <<wp, devwp, valid_page, Gc, meta_page, Table, dev, promised, late,
                     zone, pos, addr, count, job>>
      /\ inUse' \in [Zones -> BOOLEAN]
  BY <1>0 DEF GcEmpty, GcDisown, bitVars, devVars, localVars, Quietly, Data
<1>2. PICK l \in {"disown", "rewind"} :
        /\ GoTo(z, l)
        /\ l = "disown" => pc[z] = "empty" /\ cond' = [cond EXCEPT ![z] = "EMPTY"]
        /\ l = "rewind" => pc[z] = "disown" /\ cond' = cond
  BY DEF GcEmpty, GcDisown, At
<1>3. Others(z) /\ pc'[z] = l
  BY <1>0, <1>1, <1>2, OthersOf
<1>4. Local(z)'
  BY <1>3 DEF Local, Choosing, Writing
<1>5. Locals'
  BY <1>0, <1>1, <1>3, <1>4, OthersLocal
<1>6. \A y \in Zones : ~ Heading(z, y)' /\ ~ Inside(z, y)' /\ ~ Owing(z, y)' /\ ~ Owing(z, y)
  BY <1>2, <1>3 DEF Heading, Inside, Owing, Ahead, Writing
<1>7. Fills'
  <2>1. CASE l = "rewind"
    BY <1>0, <1>1, <1>2, <1>3, <1>6, <2>1, StepFills
  <2>2. CASE l = "disown"
    <3>1. cond'[z] = "EMPTY" /\ \A y \in Zones \ {z} : cond'[y] = cond[y]
      BY <1>0, <1>2, <2>2 DEF Shape
    <3>2. \A u \in Threads : (Owing(u, z)' <=> Owing(u, z)) /\ (Inside(u, z)' => Inside(u, z))
      BY <1>0, <1>3, <1>6, OthersHeading
    <3>3. Fill(z)'
      BY <1>1, <1>2, <1>3, <2>2, <3>1, <3>2, FillGiven
    <3> QED BY <1>0, <1>1, <1>3, <1>6, <3>1, <3>3, OtherFills
  <2> QED BY <2>1, <2>2
<1>8. Data'
  BY <1>0, <1>1, DataNext DEF Data
<1> QED BY <1>5, <1>7, <1>8

(* A zone that others wrote in meanwhile is even only by chance.           *)
LEMMA GcRewindRest ==
  ASSUME FInv, NEW z \in Zones, GcRewind(z)
  PROVE  Data' /\ Locals' /\ Fills'
<1>0. Data /\ Locals /\ z \in Threads
  BY ThreadSets DEF FInv
<1>1. /\ pc[z] = "rewind" /\ GoTo(z, "sweep") /\ wp' = [wp EXCEPT ![z] = 0]
      /\ UNCHANGED <<devwp, inUse, valid_page, Gc, meta_page, Table, dev, promised, late,
                     zone, pos, addr, count, cond, job>>
  BY DEF GcRewind, At, bitVars, devVars, localVars, Quietly
<1>2. Others(z) /\ pc'[z] = "sweep"
  BY <1>0, <1>1, OthersOf
<1>3. Local(z)'
  BY <1>2 DEF Local, Choosing, Writing
<1>4. Locals'
  BY <1>0, <1>1, <1>2, <1>3, OthersLocal
<1>5. \A y \in Zones : ~ Heading(z, y)' /\ ~ Inside(z, y)' /\ ~ Owing(z, y)' /\ ~ Owing(z, y)
  BY <1>1, <1>2 DEF Heading, Inside, Owing, Ahead, Writing
<1>6. wp'[z] = 0 /\ devwp[z] \in Nat /\ \A y \in Zones \ {z} : wp'[y] = wp[y]
  BY <1>0, <1>1, ThreadsOK DEF Data, Brim
<1>7. Fill(z)'
  <2>1. Owed(z)' \in {0, 1}
    BY ComingNext
  <2> QED BY <1>1, <1>6, <2>1, FillRoom, ThreadsOK DEF Even, Brim
<1>8. Fills'
  BY <1>0, <1>1, <1>2, <1>5, <1>6, <1>7, OtherFills
<1>9. wp' \in [Zones -> 0 .. Brim]
  <2>1. 0 \in 0 .. Brim
    BY ThreadsOK DEF Brim, Zones
  <2> QED BY <1>0, <1>1, <2>1 DEF Data
<1> QED BY <1>0, <1>1, <1>4, <1>8, <1>9, DataNext DEF Data

LEMMA GcSweepRest ==
  ASSUME FInv, NEW z \in Zones, GcSweep(z)
  PROVE  Data' /\ Locals' /\ Fills'
<1> DEFINE left == {a \in meta_page : a[1] = z /\ a[2] < Cap}
<1>0. Data /\ Locals /\ z \in Threads
  BY ThreadSets DEF FInv
<1>1. /\ pc[z] = "sweep" /\ GoTo(z, "idle")
      /\ meta_page' = meta_page \ left
      /\ valid_page' = [valid_page EXCEPT ![z] = @ - Cardinality(left)]
      /\ Gc' = FALSE /\ pos' = [pos EXCEPT ![z] = 0]
      /\ UNCHANGED <<wp, devwp, inUse, Table, dev, promised, late,
                     zone, addr, count, cond, job>>
  BY DEF GcSweep, At, zoneVars, devVars
<1>2. Others(z) /\ pc'[z] = "idle"
  BY <1>0, <1>1, OthersOf
<1>3. Local(z)'
  BY <1>2 DEF Local, Choosing, Writing
<1>4. pos' \in [Threads -> 0 .. Cap] /\ \A u \in Threads \ {z} : pos'[u] = pos[u]
  BY <1>0, <1>1, ThreadsOK DEF Data
<1>5. Locals'
  BY <1>0, <1>1, <1>2, <1>3, <1>4, OthersLocal
<1>6. Fills'
  BY <1>0, <1>1, <1>2, QuietFills DEF Writing
<1>7. Cardinality(left) \in Nat
  <2>1. IsFiniteSet(Zones) /\ IsFiniteSet(0 .. DevCap - 1)
    BY FS_Interval, ThreadsOK DEF Zones
  <2>2. IsFiniteSet(Addr)
    BY <2>1, FS_Product DEF Addr
  <2>3. left \subseteq Addr
    BY <1>0 DEF Data
  <2>4. IsFiniteSet(left)
    BY <2>2, <2>3, FS_Subset
  <2> QED BY <2>4, FS_CardinalityType
<1> HIDE DEF left
<1>8. meta_page' \subseteq Addr /\ valid_page' \in [Zones -> Int]
  BY <1>0, <1>1, <1>7 DEF Data
<1> QED BY <1>0, <1>1, <1>4, <1>5, <1>6, <1>8, DataNext DEF Data

LEMMA InitFInv == Init => FInv
<1> SUFFICES ASSUME Init PROVE FInv
  OBVIOUS
<1>1. Data
  <2>1. wp \in [Zones -> 0 .. Brim] /\ devwp \in [Zones -> 0 .. Brim]
    <3>1. \A z \in Zones : 0 \in 0 .. Brim
      BY ThreadsOK DEF Brim, Zones
    <3> QED BY <3>1, Zenon DEF Init
  <2>2. inUse \in [Zones -> BOOLEAN] /\ valid_page \in [Zones -> Int]
    <3>1. FALSE \in BOOLEAN /\ 0 \in Int
      OBVIOUS
    <3> QED BY <3>1, Zenon DEF Init
  <2>3. /\ Table \in [Pages -> Addr \cup {NoAddr}]
        /\ dev \in [Addr -> (Pages \X Vals) \cup {NoData}]
        /\ promised \in [Pages -> Vals \cup {Absent}]
        /\ addr \in [Threads -> Addr \cup {NoAddr}]
    BY Zenon DEF Init
  <2>4. pos \in [Threads -> 0 .. Cap] /\ count \in [Threads -> Int]
    BY ThreadsOK DEF Init
  <2>5. Gc \in BOOLEAN /\ meta_page \subseteq Addr /\ late \in BOOLEAN
    BY Zenon DEF Init
  <2> QED BY <2>1, <2>2, <2>3, <2>4, <2>5 DEF Data
<1>2. Locals
  BY DEF Init, Locals, Local, Choosing, Writing
<1>3. Fills
  <2> SUFFICES ASSUME NEW z \in Zones PROVE Fill(z)
    BY DEF Fills
  <2>1. Coming(z) = {} /\ Entered(z) = {} /\ Owed(z) = 0
    BY DEF Init, Coming, Entered, Owed, Heading, Inside, Owing, Ahead, Writing
  <2>2. Cardinality(Coming(z)) = 0 /\ Cardinality(Entered(z)) = 0
    BY <2>1, FS_EmptySet
  <2>3. wp[z] = 0 /\ devwp[z] = 0
    BY DEF Init
  <2>4. Hands \in Nat /\ Brim = Cap + 2 * Hands
    BY <2>1, SomeThreads
  <2> QED BY <2>1, <2>2, <2>3, <2>4, ThreadsOK DEF Fill
<1> QED BY <1>1, <1>2, <1>3, InitTInv DEF FInv

LEMMA NextFInv == FInv /\ [Next]_vars => FInv'
<1> SUFFICES ASSUME FInv, [Next]_vars PROVE FInv'
  OBVIOUS
<1>1. TInv'
  BY NextTInv DEF FInv
<1>2. CASE MainCalls
  <2>1. ASSUME NEW p \in Pages, NEW v \in Vals, create_new_page(p, v) \/ write_page(p, v)
        PROVE  Data' /\ Locals' /\ Fills'
    BY <2>1, CallRest DEF create_new_page, write_page
  <2>2. ASSUME NEW p \in Pages, read_page(p) PROVE Data' /\ Locals' /\ Fills'
    BY <2>2, CallRest DEF read_page
  <2> QED BY <1>1, <1>2, <2>1, <2>2, DetectRest DEF MainCalls, FInv
<1>3. CASE MainSteps
  BY <1>1, <1>3, ReadRest, WriterRest, ThreadSets DEF MainSteps, FInv
<1>4. ASSUME NEW z \in Zones, Collector(z) PROVE FInv'
  <2>1. z \in Threads
    BY ThreadSets
  <2> QED BY <1>1, <1>4, <2>1, WriterRest, GcStartRest, GcLookRest, GcResetRest,
             GcGivenRest, GcRewindRest, GcSweepRest DEF Collector, FInv
<1>5. CASE UNCHANGED vars
  BY <1>1, <1>5, StutterRest DEF vars, zoneVars, bitVars, devVars, localVars, FInv
<1> QED BY <1>2, <1>3, <1>4, <1>5 DEF Next

(* Every variable has its type; in particular a zone, whose room is tested *)
(* without its mutex, is never filled beyond Cap by more than two pages    *)
(* for each thread, so that every entry of Table is a slot of the device.  *)
THEOREM SpecThreadsTypeOK == Spec => []TypeOK
<1>1. FInv => TypeOK
  BY DEF FInv, TInv, Shape, Data, TypeOK
<1> QED BY <1>1, InitFInv, NextFInv, PTL DEF Spec
==============================================================================
