---------------------------- MODULE BufferManager ----------------------------
(***************************************************************************)
(* The buffer manager of src/src/zBuffer.cpp over a zone controller that   *)
(* is seen only through what it promises (PageStore): disk is what         *)
(* zdsm->read_page would return for each page.                             *)
(*                                                                         *)
(* One thread runs the manager, so a call is one step.  Mode stands for    *)
(* the compile-time flags of zBuffer.h:                                    *)
(*   "lru"      lru             "cflru"    cflru                           *)
(*   "zalp"     zalp            "zalp_wc"  zalp_wc, not wh_only            *)
(*   "wh_only"  zalp_wc and wh_only        "ach_only"  ach_only, as shipped *)
(***************************************************************************)
EXTENDS ZALP

CONSTANTS
  Modes,        \* the modes considered
  ClusterNum,   \* HC_LV in the modes of zalp_wc, CLUSTER_NUM in "zalp"
  HotMin,       \* (DEF_BUF_SIZE - WORK_REG_SIZE) / 4, for "wh_only"
  Pages, Vals,
  NoFrame,      \* a page that is not in page2frame
  NoPage,       \* a frame not used yet
  NoData,       \* the contents of a frame or disk page never written
  Absent        \* a page that was never inserted

ASSUME BufferConstantsOK ==
  /\ Modes \subseteq {"lru", "cflru", "zalp", "zalp_wc", "wh_only", "ach_only"}
  /\ ClusterNum \in Nat \ {0}
  /\ Modes \cap {"zalp_wc", "wh_only"} # {} => ClusterNum = 3
  /\ HotMin \in Nat \ {0}
  /\ NoFrame \notin Frames /\ NoPage \notin Pages
  /\ NoData \notin Pages \X Vals /\ Absent \notin Vals

VARIABLES
  Mode,             \* chosen when the program is compiled
  strategy,         \* the lists of ZALP
  lrus,             \* the list of LRU, used in mode "lru"
  free_frames_num,  \* likewise
  page2frame, frame_to_page, frame_dirty,
  buffer,           \* the contents of each frame
  cluster_flag,     \* capped at 2 in the modes of zalp_wc, as HC_Lv reads it
  accessH,          \* the pages with an access history
  disk,
  closed,           \* the destructor has run clean_buffer
  promised          \* history: what the callers wrote last to each page

vars == <<Mode, strategy, lrus, free_frames_num, page2frame, frame_to_page,
          frame_dirty, buffer, cluster_flag, accessH, disk, closed, promised>>

Lru     == Mode = "lru"
Warming == Mode \in {"zalp_wc", "wh_only"}

(* The modes in which a page is in one frame at most: the others keep      *)
(* flushed frames in use with the page they held.                          *)
OneFrame == Mode \in {"lru", "cflru", "zalp_wc"}

Init ==
  /\ Mode \in Modes
  /\ strategy = Start
  /\ lrus = <<>>
  /\ free_frames_num = DefBufSize
  /\ page2frame = [p \in Pages |-> NoFrame]
  /\ frame_to_page = [f \in Frames |-> NoPage]
  /\ frame_dirty = [f \in Frames |-> FALSE]
  /\ buffer = [f \in Frames |-> NoData]
  /\ cluster_flag = [f \in Frames |-> 0]
  /\ accessH = {}
  /\ disk = [p \in Pages |-> NoData]
  /\ closed = FALSE
  /\ promised = [p \in Pages |-> Absent]

------------------------------------------------------------------------------
(***************************************************************************)
(* Which dirty frames evict_victim and evict_victim_ach flush.             *)
(***************************************************************************)
InCluster(i) == Only(get_candidate(strategy), {f \in Frames : cluster_flag[f] = i})

(* The largest cluster, the last one of several.                           *)
Fullest ==
  CHOOSE i \in 0 .. ClusterNum - 1 : \A j \in 0 .. ClusterNum - 1 :
    /\ Len(InCluster(j)) <= Len(InCluster(i))
    /\ j > i => Len(InCluster(j)) < Len(InCluster(i))

ChosenCluster ==
  IF Mode = "wh_only" /\ Len(InCluster(2)) >= HotMin THEN 2 ELSE Fullest

Victims ==
  IF Mode = "cflru" THEN get_candidate_cflru(strategy)
  ELSE IF Mode = "ach_only" THEN get_candidate(strategy)
  ELSE InCluster(ChosenCluster)

(* evict_victim_ach writes three clusters: the pages flushed for the first *)
(* time, those flushed lately, and those flushed long ago.  A page of the  *)
(* first cluster is in one of the other two as well, by the time -1 it     *)
(* has as its previous one; a page found twice among the candidates was    *)
(* flushed just now.  far stands for the clock's verdicts.                 *)
Twice(p) == Len(Only(Victims, {f \in Frames : frame_to_page[f] = p})) > 1

AchCluster(t, far) ==
  LET Belongs(p) == \/ t = 0 /\ p \notin accessH /\ ~ Twice(p)
                    \/ t = 1 /\ p \notin far
                    \/ t = 2 /\ p \in far
  IN Only(Victims, {f \in Frames : Belongs(frame_to_page[f])})

VictimPages == {frame_to_page[f] : f \in ToSet(Victims)}

(* Mutant: the loop over the clusters stops one early.                     *)
FlushesTwoClusters ==
  IF Mode # "ach_only" THEN {Front(Victims)}
  ELSE {AchCluster(0, far) \o AchCluster(1, far) :
          far \in SUBSET {p \in VictimPages : ~ Twice(p)}}

(* The frames written, in order.                                           *)
Flushes ==
  IF Mode # "ach_only" THEN {Victims}
  ELSE {AchCluster(0, far) \o AchCluster(1, far) \o AchCluster(2, far) :
          far \in SUBSET {p \in VictimPages : ~ Twice(p)}}

Release ==
  IF Mode \in {"cflru", "zalp_wc"} THEN update_dirty(strategy, Victims)
                                   ELSE dirty_to_clean(strategy, Victims)

(* What the disk holds after the frames fs are written in that order.      *)
Written(fs) ==
  [p \in Pages |->
     LET i == SelectLastInSeq(fs, LAMBDA f : frame_to_page[f] = p)
     IN IF i = 0 THEN disk[p] ELSE buffer[fs[i]]]

(* Mutant: the page that was in a reused frame keeps its entry.            *)
NothingErased(s) == {}

(* The page that loses its entry when get_frame reuses a clean frame.      *)
Reused(s) == IF IsFree(s) THEN {} ELSE {frame_to_page[FrameOf(s)]}

(* Mutant: the test of the dirty mark is inverted.                         *)
VictimIfClean(f) == IF frame_dirty[f] THEN <<>> ELSE <<f>>

(* What select_victim writes before it gives f away.                       *)
DirtyVictim(f) == IF frame_dirty[f] THEN <<f>> ELSE <<>>

(* The page whose entry select_victim erases.                              *)
EraseVictim(f) == {frame_to_page[f]}

------------------------------------------------------------------------------
(***************************************************************************)
(* A page gets a frame.  op is the call: "read" and "write" of a page that *)
(* is not in page2frame, or "new" for fix_new_page, which writes through.  *)
(***************************************************************************)
FlagsOf(f, op) ==
  IF op = "write" THEN {cluster_flag[f]}
  ELSE IF Warming THEN {0}
  ELSE IF Mode = "zalp" THEN 0 .. ClusterNum - 1
  ELSE {cluster_flag[f]}

(* f takes p; the pages gone lose their frames, the frames vl are clean,   *)
(* and the disk was store when the new page is read or created.            *)
Install(f, gone, vl, store, p, v, op) ==
  /\ page2frame' = [q \in Pages |-> IF q = p THEN f
                                    ELSE IF q \in gone THEN NoFrame
                                    ELSE page2frame[q]]
  /\ frame_to_page' = [frame_to_page EXCEPT ![f] = p]
  /\ buffer' = [buffer EXCEPT ![f] = IF op = "read" THEN store[p] ELSE <<p, v>>]
  /\ disk' = IF op = "new" THEN [store EXCEPT ![p] = <<p, v>>] ELSE store
  /\ frame_dirty' = [x \in Frames |-> \/ op = "write" /\ x = f
                                      \/ frame_dirty[x] /\ ~ Contains(vl, x)]
  /\ \E c \in FlagsOf(f, op) : cluster_flag' = [cluster_flag EXCEPT ![f] = c]

Load(p, v, op) ==
  /\ ~ Lru
  /\ LET evict == is_evict(strategy)
         vl == IF evict THEN Victims ELSE <<>>
         s  == IF evict THEN Release ELSE strategy
         f  == FrameOf(s)
         s1 == push(get_frame(s), f, FALSE)
         gone == {frame_to_page[x] : x \in ToSet(vl)} \cup Reused(s)
     IN /\ \E fs \in (IF evict THEN Flushes ELSE {<<>>}) :
             Install(f, gone, vl, Written(fs), p, v, op)
        /\ strategy' = IF op = "write" THEN set_dirty(s1, f) ELSE s1
        /\ accessH' = IF evict /\ Mode = "ach_only"
                      THEN accessH \cup VictimPages ELSE accessH
  /\ UNCHANGED <<lrus, free_frames_num>>

(* Mode "lru": a frame never used, or that of select_victim, which writes  *)
(* a dirty page and leaves the dirty mark of the frame set.                *)
LoadLru(p, v, op) ==
  /\ Lru
  /\ IF free_frames_num = 0
     THEN LET f == get_victim(lrus)
          IN /\ Install(f, EraseVictim(f), <<>>, Written(DirtyVictim(f)), p, v, op)
             /\ lrus' = lru_push(Front(lrus), f)
             /\ UNCHANGED free_frames_num
     ELSE LET f == DefBufSize - free_frames_num
          IN /\ Install(f, {}, <<>>, disk, p, v, op)
             /\ lrus' = lru_push(lrus, f)
             /\ free_frames_num' = free_frames_num - 1
  /\ UNCHANGED <<strategy, accessH>>

(* The page is in a frame: it becomes the most recently used.              *)
Hit(p, v, op) ==
  LET f == page2frame[p]
      s == update(strategy, f, frame_dirty[f])
  IN /\ IF Lru THEN lrus' = lru_update(lrus, f) /\ UNCHANGED strategy
        ELSE /\ strategy' = IF op = "write" THEN set_dirty(s, f) ELSE s
             /\ UNCHANGED lrus
     /\ cluster_flag' = IF Warming /\ cluster_flag[f] < 2
                        THEN [cluster_flag EXCEPT ![f] = @ + 1]
                        ELSE cluster_flag
     /\ IF op = "write" THEN /\ buffer' = [buffer EXCEPT ![f] = <<p, v>>]
                             /\ frame_dirty' = [frame_dirty EXCEPT ![f] = TRUE]
                        ELSE UNCHANGED <<buffer, frame_dirty>>
     /\ UNCHANGED <<free_frames_num, page2frame, frame_to_page, accessH, disk>>

------------------------------------------------------------------------------
(***************************************************************************)
(* The calls.  The workload inserts a page once, and reads and updates     *)
(* pages it has inserted.                                                  *)
(***************************************************************************)
Access(p, v, op) ==
  /\ ~ closed
  /\ promised[p] # Absent
  /\ IF page2frame[p] # NoFrame THEN Hit(p, v, op)
     ELSE Load(p, v, op) \/ LoadLru(p, v, op)
  /\ UNCHANGED <<Mode, closed>>

read_page(p) == \E v \in Vals : v = promised[p] /\ Access(p, v, "read") /\ UNCHANGED promised

write_page(p, v) == /\ Access(p, v, "write")
                    /\ promised' = [promised EXCEPT ![p] = v]

fix_new_page(p, v) ==
  /\ ~ closed
  /\ promised[p] = Absent
  /\ Load(p, v, "new") \/ LoadLru(p, v, "new")
  /\ promised' = [promised EXCEPT ![p] = v]
  /\ UNCHANGED <<Mode, closed>>

(* Mutant: frame 0 is skipped.                                             *)
DirtyFramesFromOne ==
  Only([i \in 1 .. DefBufSize |-> i - 1], {f \in Frames : f > 0 /\ frame_dirty[f]})

(* What clean_buffer, called by the destructor, writes: the dirty frames   *)
(* in the order of their numbers.                                          *)
DirtyFrames ==
  Only([i \in 1 .. DefBufSize |-> i - 1], {f \in Frames : frame_dirty[f]})

clean_buffer ==
  /\ ~ closed
  /\ disk' = Written(DirtyFrames)
  /\ closed' = TRUE
  /\ UNCHANGED <<Mode, strategy, lrus, free_frames_num, page2frame, frame_to_page,
                 frame_dirty, buffer, cluster_flag, accessH, promised>>

Next ==
  \/ \E p \in Pages : read_page(p)
  \/ \E p \in Pages, v \in Vals : write_page(p, v) \/ fix_new_page(p, v)
  \/ clean_buffer

Spec == Init /\ [][Next]_vars

------------------------------------------------------------------------------
(* Every variable has its type, and no frame is twice in a list.           *)
TypeOK ==
  /\ Mode \in Modes
  /\ \A l \in {strategy.lList, strategy.fList, strategy.cList, strategy.dList, lrus} :
       /\ l \in Seq(Frames)
       /\ \A i, j \in DOMAIN l : l[i] = l[j] => i = j
  /\ free_frames_num \in 0 .. DefBufSize
  /\ page2frame \in [Pages -> Frames \cup {NoFrame}]
  /\ frame_to_page \in [Frames -> Pages \cup {NoPage}]
  /\ frame_dirty \in [Frames -> BOOLEAN]
  /\ buffer \in [Frames -> (Pages \X Vals) \cup {NoData}]
  /\ cluster_flag \in [Frames -> 0 .. ClusterNum - 1]
  /\ accessH \subseteq Pages
  /\ disk \in [Pages -> (Pages \X Vals) \cup {NoData}]
  /\ closed \in BOOLEAN
  /\ promised \in [Pages -> Vals \cup {Absent}]

(* What ZALP::is_correct asserts after any sequence of calls: lList is a   *)
(* merge of cList and dList, in order.                                     *)
ListsCorrect == is_correct(strategy)

(* The buffer's dirty marks and the strategy's dirty list, kept by         *)
(* different calls, agree: no dirty frame is handed out unflushed, and no  *)
(* clean one is flushed.                                                   *)
DirtyListed == ~ Lru => \A f \in Frames : frame_dirty[f] <=> Contains(strategy.dList, f)

(* When is_evict says so, the candidates of get_candidate are exactly the  *)
(* frames beyond the working region, although is_evict looks at one clean  *)
(* frame only.                                                             *)
EvictionReady ==
  ~ Lru /\ is_evict(strategy) =>
    /\ Len(strategy.dList) >= Batch
    /\ ToSet(get_candidate(strategy))
         = ToSet(SubSeq(strategy.lList, WorkRegSize + 1, DefBufSize))

(* The assertion of read_page on the page's identifier: page2frame leads   *)
(* to a frame that belongs to the page and holds its contents.             *)
ReadIdMatches ==
  \A p \in Pages : page2frame[p] # NoFrame =>
    /\ frame_to_page[page2frame[p]] = p
    /\ buffer[page2frame[p]][1] = p

(* With one frame a page, a page that was inserted is found, in its frame  *)
(* or else on the disk, as it was last written.                            *)
Cached(p) == IF page2frame[p] # NoFrame THEN buffer[page2frame[p]] ELSE disk[p]

ReadsLatest ==
  OneFrame => \A p \in Pages : promised[p] # Absent => Cached(p) = <<p, promised[p]>>

(* With one frame a page, after the destructor every page is on the disk   *)
(* as it was last written.                                                 *)
DurableAtClose ==
  OneFrame /\ closed =>
    \A p \in Pages : promised[p] # Absent => disk[p] = <<p, promised[p]>>

(* A frame stops being dirty only in a step that leaves on the disk what   *)
(* it, or another dirty frame of the same page, holds.                     *)
FlushedBeforeClean ==
  [][\A f \in Frames : frame_dirty[f] /\ ~ frame_dirty'[f] =>
       \E g \in Frames : /\ frame_dirty[g] /\ frame_to_page[g] = frame_to_page[f]
                         /\ disk'[frame_to_page[f]] = buffer[g]]_vars

WorkingRegion ==
  {strategy.lList[i] : i \in {j \in DOMAIN strategy.lList : j <= WorkRegSize}}

(* With one frame a page, no call takes the frame of a page of the working *)
(* region away.                                                            *)
WorkingRegionKept ==
  [][OneFrame /\ ~ Lru =>
       \A p \in Pages : page2frame[p] # NoFrame /\ page2frame[p] \in WorkingRegion
         => page2frame'[p] = page2frame[p]]_vars

(* With one frame a page the manager is a page store: what a read would    *)
(* return changes only by the write of that page, whatever is evicted,     *)
(* flushed or closed.  Of the other modes this says nothing.               *)
Served == [p \in Pages |-> IF promised[p] = Absent THEN Absent ELSE Cached(p)[2]]
Store == INSTANCE PageStore WITH served <- IF OneFrame THEN Served ELSE promised
StoreSpec == Store!Spec
==============================================================================
