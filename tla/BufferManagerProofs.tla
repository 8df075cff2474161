-------------------------- MODULE BufferManagerProofs --------------------------
(***************************************************************************)
(* Theorems about BufferManager, for every size of the buffer and of the   *)
(* working region, any pages and contents, and every mode.                 *)
(*                                                                         *)
(* BInv is inductive in every mode: the lists of the strategy fit together *)
(* (Lists), each frame in use holds a page that was inserted, page2frame   *)
(* leads to frames of the right page, and dList has the dirty frames.  It  *)
(* does not say that a page has one frame: in the modes that keep flushed  *)
(* frames in use it may have several.  SInv adds that for the other modes, *)
(* with what the frame and the disk then hold.                             *)
(***************************************************************************)
EXTENDS BufferManager, ZALPProofs

(* The frames that hold a page.                                            *)
Used(f) == IF Lru THEN f < DefBufSize - free_frames_num
                  ELSE Contains(strategy.lList, f)

DataTypes ==
  /\ Mode \in Modes
  /\ free_frames_num \in 0 .. DefBufSize
  /\ page2frame \in [Pages -> Frames \cup {NoFrame}]
  /\ frame_to_page \in [Frames -> Pages \cup {NoPage}]
  /\ frame_dirty \in [Frames -> BOOLEAN]
  /\ buffer \in [Frames -> (Pages \X Vals) \cup {NoData}]
  /\ cluster_flag \in [Frames -> 0 .. ClusterNum - 1]
  /\ accessH \subseteq Pages
  /\ disk \in [Pages -> (Pages \X Vals) \cup {NoData}]
  /\ closed \in BOOLEAN
  /\ promised \in [Pages -> Vals \cup {Absent}]

ListPart ==
  /\ Lists(strategy)
  /\ lrus \in Seq(Frames) /\ IsInjective(lrus)
  /\ IF Lru THEN /\ strategy = Start
                 /\ \A f \in Frames : Contains(lrus, f) <=> Used(f)
            ELSE lrus = <<>>

FramePart ==
  \A f \in Frames : Used(f) =>
    /\ frame_to_page[f] \in Pages
    /\ buffer[f] \in {frame_to_page[f]} \X Vals
    /\ promised[frame_to_page[f]] # Absent

MapPart ==
  \A p \in Pages, f \in Frames : page2frame[p] = f => Used(f) /\ frame_to_page[f] = p

DiskPart == \A p \in Pages : promised[p] # Absent => disk[p] \in {p} \X Vals

DirtyPart ==
  \A f \in Frames : IF Lru THEN frame_dirty[f] => Used(f)
                           ELSE frame_dirty[f] <=> Contains(strategy.dList, f)

BInv == DataTypes /\ ListPart /\ FramePart /\ MapPart /\ DiskPart /\ DirtyPart

LEMMA InitBInv == Init => BInv
<1> SUFFICES ASSUME Init PROVE BInv
  OBVIOUS
<1> USE DEF Init
<1>1. Lists(strategy) /\ \A x : ~ Contains(strategy.lList, x) /\ ~ Contains(strategy.dList, x)
  BY StartLists
<1>2. <<>> \in Seq(Frames) /\ IsInjective(<<>>) /\ \A f : ~ Contains(<<>>, f)
  BY DEF IsInjective, Contains
<1>3. \A f \in Frames : ~ Used(f)
  BY <1>1, Sizes DEF Used, Frames
<1>4. DataTypes
  <2>1. 0 \in 0 .. ClusterNum - 1 /\ DefBufSize \in 0 .. DefBufSize
    BY BufferConstantsOK, Sizes
  <2> QED BY <2>1 DEF DataTypes
<1>5. ListPart
  BY <1>1, <1>2, <1>3 DEF ListPart
<1>6. FramePart /\ MapPart /\ DiskPart /\ DirtyPart
  BY <1>1, <1>3, BufferConstantsOK DEF FramePart, MapPart, DiskPart, DirtyPart
<1> QED BY <1>4, <1>5, <1>6 DEF BInv

LEMMA BInvTypeOK == BInv => TypeOK
<1> SUFFICES ASSUME BInv PROVE TypeOK
  OBVIOUS
<1>1. \A l \in {strategy.lList, strategy.fList, strategy.cList, strategy.dList, lrus} :
        l \in Seq(Frames) /\ IsInjective(l)
  BY DEF BInv, ListPart, Lists, ListsBut
<1> QED BY <1>1 DEF BInv, DataTypes, TypeOK, IsInjective

LEMMA BInvReadId == BInv => ReadIdMatches
<1> SUFFICES ASSUME BInv, NEW p \in Pages, page2frame[p] # NoFrame
             PROVE  /\ frame_to_page[page2frame[p]] = p
                    /\ buffer[page2frame[p]][1] = p
  BY DEF ReadIdMatches
<1>1. page2frame[p] \in Frames
  BY DEF BInv, DataTypes
<1>2. /\ frame_to_page[page2frame[p]] = p
      /\ buffer[page2frame[p]] \in {p} \X Vals
  BY <1>1 DEF BInv, MapPart, FramePart
<1> QED BY <1>2

LEMMA BInvDirty == BInv => DirtyListed
BY DEF BInv, DirtyPart, DirtyListed

LEMMA BInvCorrect == BInv => ListsCorrect
BY CorrectLists DEF BInv, ListPart, ListsCorrect

LEMMA BInvEviction == BInv => EvictionReady
<1> SUFFICES ASSUME BInv, ~ Lru, is_evict(strategy)
             PROVE  /\ Len(strategy.dList) >= Batch
                    /\ ToSet(get_candidate(strategy))
                         = ToSet(SubSeq(strategy.lList, WorkRegSize + 1, DefBufSize))
  BY DEF EvictionReady
<1> DEFINE s == strategy
           r == SubSeq(s.lList, WorkRegSize + 1, DefBufSize)
           c == get_candidate(s)
<1>1. Lists(s) /\ is_evict(s)
  BY DEF BInv, ListPart
<1>2. Len(s.dList) >= Batch
  BY <1>1, Candidates
<1>3. /\ c \in Seq(Frames) /\ Len(c) = Batch
      /\ \A k \in 1 .. Batch : c[k] = s.lList[WorkRegSize + k]
  BY <1>1, CandidateVictims DEF DirtyVictims
<1>4. s.lList \in Seq(Frames) /\ Len(s.lList) = DefBufSize
  BY <1>1, BeyondIsDirty DEF Lists, ListsBut
<1>5. /\ r \in Seq(Frames) /\ Len(r) = Batch
      /\ \A k \in 1 .. Batch : r[k] = s.lList[WorkRegSize + k]
  <2>1. \A i \in WorkRegSize + 1 .. DefBufSize : s.lList[i] \in Frames
    BY <1>4, Sizes
  <2>2. /\ SubSeq(s.lList, WorkRegSize + 1, DefBufSize) \in Seq(Frames)
        /\ Len(SubSeq(s.lList, WorkRegSize + 1, DefBufSize)) =
             IF WorkRegSize + 1 <= DefBufSize THEN DefBufSize - (WorkRegSize + 1) + 1 ELSE 0
        /\ \A i \in 1 .. DefBufSize - (WorkRegSize + 1) + 1 :
             SubSeq(s.lList, WorkRegSize + 1, DefBufSize)[i] = s.lList[WorkRegSize + 1 + i - 1]
    BY <2>1, Sizes, SubSeqProperties
  <2>3. DefBufSize - (WorkRegSize + 1) + 1 = Batch
    BY Sizes
  <2>4. \A i \in 1 .. Batch : WorkRegSize + 1 + i - 1 = WorkRegSize + i
    BY Sizes
  <2> QED BY <2>2, <2>3, <2>4, Sizes
<1> HIDE DEF r, c
<1>6. c = r
  BY <1>3, <1>5, SeqEqual
<1> QED BY <1>2, <1>6 DEF r, c
------------------------------------------------------------------------------
(***************************************************************************)
(* The victims of an eviction are dirty frames beyond the working region,  *)
(* and there is at least one.                                              *)
(***************************************************************************)
LEMMA SomeFullest ==
  ASSUME NEW n \in [0 .. ClusterNum - 1 -> 0 .. Batch]
  PROVE  \E i \in 0 .. ClusterNum - 1 : \A j \in 0 .. ClusterNum - 1 :
           n[j] <= n[i] /\ (j > i => n[j] < n[i])
<1> DEFINE D == 0 .. ClusterNum - 1
           A == {Batch - n[j] : j \in D}
<1>1. ClusterNum \in Nat /\ 0 \in D /\ \A j \in D : j \in Nat /\ n[j] \in Nat /\ n[j] <= Batch
  BY BufferConstantsOK, Sizes
<1>2. A \in SUBSET Nat /\ A # {}
  BY <1>1, Sizes
<1>3. PICK a \in A : \A x \in A : a <= x
  BY <1>2, LeastElement
<1>4. PICK i0 \in D : \A j \in D : n[j] <= n[i0]
  <2>1. PICK i0 \in D : a = Batch - n[i0]
    BY <1>3
  <2>2. \A j \in D : Batch - n[i0] <= Batch - n[j]
    BY <1>3, <2>1
  <2>3. \A j \in D : n[j] <= n[i0]
    BY <1>1, <2>2, Sizes
  <2> QED BY <2>3
<1> DEFINE C == {ClusterNum - 1 - j : j \in {k \in D : n[k] = n[i0]}}
<1>5. C \in SUBSET Nat /\ C # {}
  BY <1>1
<1>6. PICK c \in C : \A x \in C : c <= x
  BY <1>5, LeastElement
<1>7. PICK i \in D : n[i] = n[i0] /\ c = ClusterNum - 1 - i
  BY <1>6
<1>8. \A j \in D : n[j] = n[i0] => ClusterNum - 1 - i <= ClusterNum - 1 - j
  BY <1>6, <1>7
<1>9. \A j \in D : j > i => n[j] # n[i0]
  BY <1>1, <1>8
<1> QED BY <1>1, <1>4, <1>7, <1>9

LEMMA ClusterOf ==
  ASSUME BInv, ~ Lru, is_evict(strategy), NEW i
  PROVE  /\ DirtyVictims(strategy, InCluster(i))
         /\ \A x : Contains(InCluster(i), x) => Beyond(strategy, x)
         /\ \A f \in Frames : Contains(InCluster(i), f) <=>
              Contains(get_candidate(strategy), f) /\ cluster_flag[f] = i
         /\ Len(InCluster(i)) \in 0 .. Batch
<1> DEFINE c == get_candidate(strategy)
           S == {f \in Frames : cluster_flag[f] = i}
<1>1. Lists(strategy)
  BY DEF BInv, ListPart
<1>2. /\ DirtyVictims(strategy, c) /\ Len(c) = Batch /\ c \in Seq(Frames)
      /\ \A x : Contains(c, x) <=> Beyond(strategy, x)
  BY <1>1, CandidateVictims DEF DirtyVictims
<1>3. InCluster(i) = Only(c, S)
  BY DEF InCluster
<1>4. \A f : f \in S <=> f \in Frames /\ cluster_flag[f] = i
  OBVIOUS
<1> HIDE DEF c, S
<1>5. DirtyVictims(strategy, Only(c, S)) /\ \A x : Contains(Only(c, S), x) <=> Contains(c, x) /\ x \in S
  BY <1>2, OnlyVictims
<1>6. Len(Only(c, S)) \in 0 .. Batch
  <2>1. Len(Only(c, S)) = Cardinality(PositionsIn(c, S)) /\ Cardinality(PositionsIn(c, S)) \in Nat
    BY <1>2, OnlyIs
  <2>2. PositionsIn(c, S) \in SUBSET (1 .. Batch)
    BY <1>2 DEF PositionsIn
  <2>3. IsFiniteSet(1 .. Batch) /\ Cardinality(1 .. Batch) = Batch
    BY UpToN, Sizes
  <2>4. Cardinality(PositionsIn(c, S)) <= Batch
    BY <2>2, <2>3, FS_Subset
  <2> QED BY <2>1, <2>4, Sizes
<1> QED BY <1>2, <1>3, <1>4, <1>5, <1>6 DEF c

LEMMA ChosenNotEmpty ==
  ASSUME BInv, ~ Lru, is_evict(strategy)
  PROVE  InCluster(ChosenCluster) # <<>>
<1> DEFINE D == 0 .. ClusterNum - 1
           c == get_candidate(strategy)
<1>1. CASE Mode = "wh_only" /\ Len(InCluster(2)) >= HotMin
  <2>1. ChosenCluster = 2
    BY <1>1 DEF ChosenCluster
  <2>2. Len(InCluster(2)) # 0 /\ Len(<<>>) = 0
    BY <1>1, ClusterOf, BufferConstantsOK
  <2> QED BY <2>1, <2>2
<1>2. CASE ~ (Mode = "wh_only" /\ Len(InCluster(2)) >= HotMin)
  <2>1. ChosenCluster = Fullest
    BY <1>2 DEF ChosenCluster
  <2> DEFINE n == [i \in D |-> Len(InCluster(i))]
  <2>2. n \in [D -> 0 .. Batch]
    BY ClusterOf
  <2>3. \E i \in D : \A j \in D : n[j] <= n[i] /\ (j > i => n[j] < n[i])
    BY <2>2, SomeFullest
  <2>4. \E i \in D : \A j \in D : /\ Len(InCluster(j)) <= Len(InCluster(i))
                                  /\ j > i => Len(InCluster(j)) < Len(InCluster(i))
    BY <2>3
  <2>5. Fullest \in D /\ \A j \in D : Len(InCluster(j)) <= Len(InCluster(Fullest))
    BY <2>4 DEF Fullest
  <2>6. PICK f \in Frames : Contains(c, f)
    <3>1. /\ c \in Seq(Frames) /\ Len(c) = Batch
      BY CandidateVictims DEF DirtyVictims, BInv, ListPart
    <3>2. 1 \in 1 .. Len(c) /\ c[1] \in Frames
      BY <3>1, Sizes
    <3> QED BY <3>2 DEF Contains
  <2>7. cluster_flag[f] \in D
    BY DEF BInv, DataTypes
  <2>8. Contains(InCluster(cluster_flag[f]), f)
    BY <2>6, ClusterOf
  <2>9. Len(InCluster(cluster_flag[f])) > 0
    <3>1. InCluster(cluster_flag[f]) \in Seq(Frames)
      BY ClusterOf DEF DirtyVictims
    <3> QED BY <2>8, <3>1 DEF Contains
  <2>10. Len(InCluster(Fullest)) > 0 /\ Len(<<>>) = 0
    <3>1. /\ Len(InCluster(Fullest)) \in 0 .. Batch
          /\ Len(InCluster(cluster_flag[f])) \in 0 .. Batch
      BY ClusterOf
    <3> QED BY <2>5, <2>7, <2>9, <3>1, Sizes
  <2> QED BY <2>1, <2>10
<1> QED BY <1>1, <1>2

LEMMA VictimsLemma ==
  ASSUME BInv, ~ Lru, is_evict(strategy)
  PROVE  /\ DirtyVictims(strategy, Victims)
         /\ Victims # <<>>
         /\ \A x : Contains(Victims, x) => Beyond(strategy, x)
<1>1. Lists(strategy)
  BY DEF BInv, ListPart
<1>2. CASE Mode = "cflru"
  BY <1>1, <1>2, CflruVictim DEF Victims
<1>3. CASE Mode = "ach_only"
  <2>1. Victims = get_candidate(strategy)
    BY <1>3 DEF Victims
  <2>2. get_candidate(strategy) # <<>>
    BY <1>1, CandidateVictims, Sizes
  <2> QED BY <1>1, <2>1, <2>2, CandidateVictims
<1>4. CASE Mode \notin {"cflru", "ach_only"}
  <2>1. Victims = InCluster(ChosenCluster)
    BY <1>4 DEF Victims
  <2> QED BY <2>1, ChosenNotEmpty, ClusterOf
<1> QED BY <1>2, <1>3, <1>4

------------------------------------------------------------------------------
(***************************************************************************)
(* The parts of Load: the frames flushed, the lists when the frame is      *)
(* chosen, the frame, and the pages that lose theirs.                      *)
(***************************************************************************)
LoadVictims == IF is_evict(strategy) THEN Victims ELSE <<>>
LoadLists   == IF is_evict(strategy) THEN Release ELSE strategy
LoadFrame   == FrameOf(LoadLists)
LoadGone    == {frame_to_page[x] : x \in ToSet(LoadVictims)} \cup Reused(LoadLists)

LEMMA ReleaseLemma ==
  ASSUME BInv, ~ Lru, is_evict(strategy)
  PROVE  /\ Lists(Release)
         /\ \A x : Contains(Release.dList, x) <=>
                     Contains(strategy.dList, x) /\ ~ Contains(Victims, x)
         /\ \A x : Contains(Release.lList, x) => Contains(strategy.lList, x)
         /\ \A x : Contains(strategy.lList, x) =>
                     Contains(Release.lList, x) \/ Contains(Victims, x)
         /\ Mode \in {"cflru", "zalp_wc"} =>
              \A x : Contains(Release.lList, x) => ~ Contains(Victims, x)
         /\ IsFree(Release) \/ Release.cList # <<>>
         /\ Contains(Victims, FrameOf(Release))
<1>1. Lists(strategy) /\ strategy.fList = <<>> /\ strategy.cList \in Seq(Frames)
  BY DEF BInv, ListPart, is_evict, Lists, ListsBut
<1>2. /\ DirtyVictims(strategy, Victims) /\ Victims # <<>> /\ Victims \in Seq(Frames)
      /\ \A x : Contains(Victims, x) => Beyond(strategy, x)
  BY VictimsLemma DEF DirtyVictims
<1>3. Len(Victims) \in Nat /\ Len(Victims) # 0 /\ Contains(Victims, Last(Victims))
  BY <1>2, LastContained, EmptySeq
<1>4. CASE Mode \in {"cflru", "zalp_wc"}
  <2>1. Release = update_dirty(strategy, Victims)
    BY <1>4 DEF Release
  <2>2. /\ Lists(Release)
        /\ \A x : Contains(Release.dList, x) <=>
                    Contains(strategy.dList, x) /\ ~ Contains(Victims, x)
        /\ \A x : Contains(Release.lList, x) <=>
                    Contains(strategy.lList, x) /\ ~ Contains(Victims, x)
        /\ Release.fList = strategy.fList \o Victims
    BY <1>1, <1>2, <2>1, UpdateDirtyLists
  <2>3. Release.fList = Victims
    BY <1>1, <1>2, <2>2, ConcatEmptySeq
  <2>4. IsFree(Release) /\ FrameOf(Release) = Last(Victims)
    BY <1>2, <2>3 DEF IsFree, FrameOf
  <2> QED BY <1>3, <2>2, <2>4
<1>5. CASE Mode \notin {"cflru", "zalp_wc"}
  <2>1. Release = dirty_to_clean(strategy, Victims)
    BY <1>5 DEF Release
  <2>2. \A x, y : Contains(strategy.cList, x) /\ Contains(Victims, y)
                    => Before(strategy.lList, x, y)
    BY <1>1, <1>2, BeyondIsDirty
  <2>3. /\ Lists(Release)
        /\ \A x : Contains(Release.dList, x) <=>
                    Contains(strategy.dList, x) /\ ~ Contains(Victims, x)
        /\ Release.lList = strategy.lList
        /\ Release.fList = strategy.fList
        /\ Release.cList = strategy.cList \o Victims
    BY <1>1, <1>2, <2>1, <2>2, DirtyToCleanLists
  <2>4. /\ Len(Release.cList) = Len(strategy.cList) + Len(Victims)
        /\ Release.cList[Len(strategy.cList) + Len(Victims)] = Victims[Len(Victims)]
        /\ Len(Release.cList) # 0
    <3>1. /\ Len(strategy.cList \o Victims) = Len(strategy.cList) + Len(Victims)
          /\ \A i \in 1 .. Len(strategy.cList) + Len(Victims) : (strategy.cList \o Victims)[i] =
               IF i <= Len(strategy.cList) THEN strategy.cList[i] ELSE Victims[i - Len(strategy.cList)]
      BY <1>1, <1>2, ConcatProperties
    <3>2. Len(strategy.cList) \in Nat
      BY <1>1
    <3>3. /\ Len(strategy.cList) + Len(Victims) \in 1 .. Len(strategy.cList) + Len(Victims)
          /\ ~ (Len(strategy.cList) + Len(Victims) <= Len(strategy.cList))
          /\ Len(strategy.cList) + Len(Victims) - Len(strategy.cList) = Len(Victims)
          /\ Len(strategy.cList) + Len(Victims) # 0
      BY <1>3, <3>2
    <3> QED BY <2>3, <3>1, <3>3
  <2>5. Release.cList # <<>>
    BY <2>4
  <2>6. ~ IsFree(Release) /\ FrameOf(Release) = Last(Victims)
    BY <1>1, <2>3, <2>4 DEF IsFree, FrameOf, Last
  <2> QED BY <1>3, <1>5, <2>3, <2>5, <2>6
<1> QED BY <1>4, <1>5

LEMMA LoadFacts ==
  ASSUME BInv, ~ Lru
  PROVE  LET t == get_frame(LoadLists) IN
         /\ LoadFrame \in Frames
         /\ LoadVictims \in Seq(Frames)
         /\ \A x : Contains(LoadVictims, x) =>
              x \in Frames /\ Contains(strategy.dList, x) /\ Beyond(strategy, x)
         /\ ListsBut(t, {LoadFrame})
         /\ \A x : Contains(t.dList, x) <=>
                     Contains(strategy.dList, x) /\ ~ Contains(LoadVictims, x)
         /\ \A x : Contains(t.lList, x) => Contains(strategy.lList, x) /\ x # LoadFrame
         /\ \A x : Contains(strategy.lList, x) =>
                     Contains(t.lList, x) \/ Contains(LoadVictims, x) \/ x = LoadFrame
         /\ Mode \in {"cflru", "zalp_wc"} =>
              \A x : Contains(t.lList, x) => ~ Contains(LoadVictims, x)
         /\ ~ (Contains(strategy.dList, LoadFrame) /\ ~ Contains(LoadVictims, LoadFrame))
         /\ Contains(strategy.lList, LoadFrame) =>
              frame_to_page[LoadFrame] \in LoadGone /\ Beyond(strategy, LoadFrame)
         /\ \A x : Contains(LoadVictims, x) => frame_to_page[x] \in LoadGone
         /\ \A q \in LoadGone : \E x \in Frames :
              /\ q = frame_to_page[x] /\ Contains(strategy.lList, x) /\ Beyond(strategy, x)
              /\ Contains(LoadVictims, x) \/ x = LoadFrame
<1> DEFINE t == get_frame(LoadLists)
           f == LoadFrame
<1>1. Lists(strategy)
  BY DEF BInv, ListPart
<1>2. /\ LoadVictims \in Seq(Frames)
      /\ \A x : Contains(LoadVictims, x) =>
           x \in Frames /\ Contains(strategy.dList, x) /\ Beyond(strategy, x)
  <2>1. <<>> \in Seq(Frames) /\ \A x : ~ Contains(<<>>, x)
    BY DEF Contains
  <2>2. CASE is_evict(strategy)
    BY <2>2, VictimsLemma, InFrames DEF LoadVictims, DirtyVictims
  <2>3. CASE ~ is_evict(strategy)
    BY <2>1, <2>3 DEF LoadVictims
  <2> QED BY <2>2, <2>3
<1>3. /\ Lists(LoadLists)
      /\ \A x : Contains(LoadLists.dList, x) <=>
                  Contains(strategy.dList, x) /\ ~ Contains(LoadVictims, x)
      /\ \A x : Contains(LoadLists.lList, x) => Contains(strategy.lList, x)
      /\ \A x : Contains(strategy.lList, x) =>
                  Contains(LoadLists.lList, x) \/ Contains(LoadVictims, x)
      /\ Mode \in {"cflru", "zalp_wc"} =>
           \A x : Contains(LoadLists.lList, x) => ~ Contains(LoadVictims, x)
      /\ IsFree(LoadLists) \/ LoadLists.cList # <<>>
      /\ IF is_evict(strategy) THEN Contains(LoadVictims, f)
         ELSE ~ IsFree(LoadLists) => Beyond(strategy, f)
  <2>1. CASE is_evict(strategy)
    BY <2>1, ReleaseLemma DEF LoadVictims, LoadLists, LoadFrame
  <2>2. CASE ~ is_evict(strategy)
    <3>1. LoadVictims = <<>> /\ LoadLists = strategy /\ f = FrameOf(strategy)
      BY <2>2 DEF LoadVictims, LoadLists, LoadFrame
    <3>2. \A x : ~ Contains(LoadVictims, x)
      BY <3>1 DEF Contains
    <3>3. ~ IsFree(strategy) => strategy.cList # <<>> /\ Beyond(strategy, f)
      BY <1>1, <2>2, <3>1, ReuseBeyond DEF IsFree, FrameOf
    <3> QED BY <1>1, <2>2, <3>1, <3>2, <3>3
  <2> QED BY <2>1, <2>2
<1>4. /\ f \in Frames
      /\ ListsBut(t, {f})
      /\ t.dList = LoadLists.dList
      /\ \A x : Contains(t.lList, x) <=> Contains(LoadLists.lList, x) /\ x # f
      /\ ~ Contains(LoadLists.dList, f)
      /\ Contains(LoadLists.lList, f) <=> ~ IsFree(LoadLists)
  BY <1>3, GetFrameLists DEF LoadFrame
<1> HIDE DEF t, f
<1>5. \A x : Contains(LoadVictims, x) => frame_to_page[x] \in LoadGone
  BY <1>2, ToSetSeq DEF LoadGone
<1>6. ~ IsFree(LoadLists) => frame_to_page[f] \in LoadGone
  BY DEF LoadGone, Reused, LoadFrame, f
<1>7. Contains(strategy.lList, f) => frame_to_page[f] \in LoadGone /\ Beyond(strategy, f)
  <2>1. CASE Contains(LoadVictims, f)
    BY <1>2, <1>5, <2>1
  <2>2. CASE ~ Contains(LoadVictims, f)
    BY <1>3, <1>4, <1>6, <2>2
  <2> QED BY <2>1, <2>2
<1>8. ASSUME NEW q \in LoadGone
      PROVE  \E x \in Frames :
               /\ q = frame_to_page[x] /\ Contains(strategy.lList, x) /\ Beyond(strategy, x)
               /\ Contains(LoadVictims, x) \/ x = f
  <2>1. CASE q \in {frame_to_page[x] : x \in ToSet(LoadVictims)}
    <3>1. PICK x \in ToSet(LoadVictims) : q = frame_to_page[x]
      BY <2>1
    <3>2. Contains(LoadVictims, x)
      BY <1>2, <3>1, ToSetSeq
    <3>3. Contains(strategy.lList, x)
      BY <1>1, <1>2, <3>2 DEF Lists, ListsBut
    <3> QED BY <1>2, <3>1, <3>2, <3>3
  <2>2. CASE q \in Reused(LoadLists)
    <3>1. q = frame_to_page[f] /\ ~ IsFree(LoadLists)
      BY <2>2 DEF Reused, LoadFrame, f
    <3>2. Contains(strategy.lList, f)
      BY <1>3, <1>4, <3>1
    <3> QED BY <1>4, <1>7, <3>1, <3>2
  <2> QED BY <2>1, <2>2 DEF LoadGone
<1>9. /\ \A x : Contains(t.dList, x) <=> Contains(strategy.dList, x) /\ ~ Contains(LoadVictims, x)
      /\ \A x : Contains(t.lList, x) => Contains(strategy.lList, x) /\ x # f
      /\ \A x : Contains(strategy.lList, x) =>
                  Contains(t.lList, x) \/ Contains(LoadVictims, x) \/ x = f
      /\ Mode \in {"cflru", "zalp_wc"} =>
           \A x : Contains(t.lList, x) => ~ Contains(LoadVictims, x)
      /\ ~ (Contains(strategy.dList, f) /\ ~ Contains(LoadVictims, f))
  BY <1>3, <1>4
<1> QED BY <1>2, <1>4, <1>5, <1>7, <1>8, <1>9 DEF t, f

------------------------------------------------------------------------------
(***************************************************************************)
(* What a flush leaves on the disk: each page of a frame written has the   *)
(* contents of one of its frames, the other pages are as they were.        *)
(***************************************************************************)
Stored(w, store) ==
  /\ store = [p \in Pages |-> store[p]]
  /\ \A p \in Pages :
       \/ \E g \in Frames : /\ Contains(w, g) /\ frame_to_page[g] = p
                            /\ store[p] = buffer[g]
       \/ /\ store[p] = disk[p]
          /\ \A g \in Frames : Contains(w, g) => frame_to_page[g] # p

LEMMA WrittenLemma ==
  ASSUME NEW fs \in Seq(Frames)
  PROVE  Stored(fs, Written(fs))
<1> SUFFICES ASSUME NEW p \in Pages
             PROVE  \/ \E g \in Frames : /\ Contains(fs, g) /\ frame_to_page[g] = p
                                         /\ Written(fs)[p] = buffer[g]
                    \/ /\ Written(fs)[p] = disk[p]
                       /\ \A g \in Frames : Contains(fs, g) => frame_to_page[g] # p
  BY DEF Stored, Written
<1> DEFINE I == {i \in 1 .. Len(fs) : frame_to_page[fs[i]] = p}
           m == IF I # {} THEN Max(I) ELSE 0
<1>1. Written(fs)[p] = IF m = 0 THEN disk[p] ELSE buffer[fs[m]]
  BY DEF Written, SelectLastInSeq
<1>2. CASE I = {}
  <2>1. Written(fs)[p] = disk[p]
    BY <1>1, <1>2
  <2>2. \A g \in Frames : Contains(fs, g) => frame_to_page[g] # p
    BY <1>2 DEF Contains
  <2> QED BY <2>1, <2>2
<1>3. CASE I # {}
  <2>1. \E i \in I : \A j \in I : i >= j
    <3> DEFINE C == {Len(fs) - i : i \in I}
    <3>1. C \in SUBSET Nat /\ C # {}
      BY <1>3
    <3>2. PICK c \in C : \A x \in C : c <= x
      BY <3>1, LeastElement
    <3>3. PICK i \in I : c = Len(fs) - i
      BY <3>2
    <3>4. \A j \in I : Len(fs) - i <= Len(fs) - j
      BY <3>2, <3>3
    <3>5. \A j \in I : i >= j
      BY <3>4
    <3> QED BY <3>5
  <2>2. m \in I
    BY <1>3, <2>1 DEF Max
  <2>3. m # 0 /\ m \in 1 .. Len(fs) /\ frame_to_page[fs[m]] = p
    BY <2>2
  <2>4. Written(fs)[p] = buffer[fs[m]]
    BY <1>1, <2>3
  <2>5. fs[m] \in Frames /\ Contains(fs, fs[m])
    <3>1. \A i \in 1 .. Len(fs) : fs[i] \in Frames /\ Contains(fs, fs[i])
      BY DEF Contains
    <3> QED BY <2>3, <3>1
  <2> QED BY <2>3, <2>4, <2>5
<1> QED BY <1>2, <1>3

(* evict_victim_ach writes three clusters, which together hold every       *)
(* victim.                                                                 *)
LEMMA FlushesLemma ==
  ASSUME Victims \in Seq(Frames), NEW fs \in Flushes
  PROVE  Stored(Victims, Written(fs))
<1>1. fs \in Seq(Frames) /\ \A x : Contains(fs, x) <=> Contains(Victims, x)
  <2>1. CASE Mode # "ach_only"
    BY <2>1 DEF Flushes
  <2>2. CASE Mode = "ach_only"
    <3>1. PICK far : fs = AchCluster(0, far) \o AchCluster(1, far) \o AchCluster(2, far)
      BY <2>2 DEF Flushes
    <3> DEFINE Belongs(t, p) == \/ t = 0 /\ p \notin accessH /\ ~ Twice(p)
                                \/ t = 1 /\ p \notin far
                                \/ t = 2 /\ p \in far
               S(t) == {f \in Frames : Belongs(t, frame_to_page[f])}
    <3>2. \A t : AchCluster(t, far) = Only(Victims, S(t))
      BY DEF AchCluster
    <3>3. \A x \in Frames : x \in S(1) \/ x \in S(2)
      OBVIOUS
    <3> DEFINE a == AchCluster(0, far)
               b == AchCluster(1, far)
               c == AchCluster(2, far)
               d == a \o b
    <3>4. /\ a = Only(Victims, S(0)) /\ b = Only(Victims, S(1)) /\ c = Only(Victims, S(2))
          /\ fs = d \o c
      BY <3>1, <3>2
    <3> HIDE DEF S, a, b, c
    <3>5. a \in Seq(Frames) /\ \A x : Contains(a, x) <=> Contains(Victims, x) /\ x \in S(0)
      BY <3>4, OnlyLemma
    <3>6. b \in Seq(Frames) /\ \A x : Contains(b, x) <=> Contains(Victims, x) /\ x \in S(1)
      BY <3>4, OnlyLemma
    <3>7. c \in Seq(Frames) /\ \A x : Contains(c, x) <=> Contains(Victims, x) /\ x \in S(2)
      BY <3>4, OnlyLemma
    <3>8. d \in Seq(Frames) /\ \A x : Contains(d, x) <=> Contains(a, x) \/ Contains(b, x)
      BY <3>5, <3>6, ConcatLemma DEF d
    <3> HIDE DEF d
    <3>9. fs \in Seq(Frames) /\ \A x : Contains(fs, x) <=> Contains(d, x) \/ Contains(c, x)
      BY <3>4, <3>7, <3>8, ConcatLemma
    <3> QED BY <3>3, <3>5, <3>6, <3>7, <3>8, <3>9, InFrames
  <2> QED BY <2>1, <2>2
<1>2. Stored(fs, Written(fs))
  BY <1>1, WrittenLemma
<1> QED BY <1>1, <1>2 DEF Stored

(* The disk when Load installs the new page.                               *)
LEMMA LoadStores ==
  ASSUME BInv, ~ Lru, NEW fs \in (IF is_evict(strategy) THEN Flushes ELSE {<<>>})
  PROVE  Stored(LoadVictims, Written(fs))
<1>1. CASE is_evict(strategy)
  BY <1>1, FlushesLemma, VictimsLemma DEF LoadVictims, DirtyVictims
<1>2. CASE ~ is_evict(strategy)
  <2>1. fs = <<>> /\ LoadVictims = <<>> /\ fs \in Seq(Frames)
    BY <1>2 DEF LoadVictims
  <2> QED BY <2>1, WrittenLemma
<1> QED BY <1>1, <1>2

(* The same for the victim of LRU, and for the frames of clean_buffer.     *)
LEMMA VictimStores ==
  ASSUME BInv, NEW f \in Frames
  PROVE  /\ Stored(DirtyVictim(f), Written(DirtyVictim(f)))
         /\ \A x \in Frames : Contains(DirtyVictim(f), x) <=> x = f /\ frame_dirty[f]
<1>1. DirtyVictim(f) \in Seq(Frames)
  BY DEF DirtyVictim
<1>2. \A x : (Contains(<<f>>, x) <=> x = f) /\ ~ Contains(<<>>, x)
  BY DEF Contains
<1> QED BY <1>1, <1>2, WrittenLemma DEF DirtyVictim

LEMMA CleanStores ==
  ASSUME BInv
  PROVE  /\ Stored(DirtyFrames, Written(DirtyFrames))
         /\ \A x \in Frames : Contains(DirtyFrames, x) <=> frame_dirty[x]
<1> DEFINE e == [i \in 1 .. DefBufSize |-> i - 1]
           S == {f \in Frames : frame_dirty[f]}
<1>1. e \in Seq(Frames) /\ Len(e) = DefBufSize
  BY Sizes DEF Frames
<1>2. \A x \in Frames : Contains(e, x)
  <2> TAKE x \in Frames
  <2>1. x + 1 \in 1 .. DefBufSize /\ e[x + 1] = x
    BY Sizes DEF Frames
  <2> HIDE DEF e
  <2> QED BY <1>1, <2>1 DEF Contains
<1>3. DirtyFrames = Only(e, S)
  BY DEF DirtyFrames
<1> HIDE DEF e
<1>4. DirtyFrames \in Seq(Frames) /\ \A x : Contains(DirtyFrames, x) <=> Contains(e, x) /\ x \in S
  BY <1>1, <1>3, OnlyLemma
<1> QED BY <1>2, <1>4, WrittenLemma

------------------------------------------------------------------------------
(***************************************************************************)
(* A page is installed.  Room says of the frame f, of the pages gone and   *)
(* of the frames w written and vl cleaned what Load and LoadLru ensure.    *)
(***************************************************************************)
Room(f, gone, w, vl) ==
  /\ f \in Frames /\ \A x \in Frames : x = f => Used(x)'
  /\ Used(f) => frame_to_page[f] \in gone
  /\ \A x \in Frames : Contains(w, x) => Used(x) /\ frame_dirty[x]
  /\ \A x \in Frames : Contains(vl, x) => Contains(w, x)
  /\ \A x \in Frames : Used(x)' => Used(x) \/ x = f
  /\ \A x \in Frames : Used(x) /\ ~ Used(x)' => frame_to_page[x] \in gone
  /\ \A q \in gone : \E x \in Frames :
       /\ Used(x) /\ q = frame_to_page[x]
       /\ frame_dirty[x] => Contains(w, x)
       /\ Contains(w, x) \/ x = f
  /\ OneFrame => \A x \in Frames : Used(x)' => x = f \/ ~ Contains(w, x)

Called(p, v, op) ==
  /\ op \in {"read", "write", "new"} /\ p \in Pages /\ v \in Vals
  /\ page2frame[p] = NoFrame
  /\ IF op = "new" THEN promised[p] = Absent ELSE promised[p] # Absent
  /\ op = "read" => v = promised[p]
  /\ promised' = IF op = "read" THEN promised ELSE [promised EXCEPT ![p] = v]

LEMMA InstallTypes ==
  ASSUME DataTypes, NEW f \in Frames, NEW gone, NEW w, NEW vl, NEW store, NEW p, NEW v, NEW op,
         Called(p, v, op), Stored(w, store), Install(f, gone, vl, store, p, v, op)
  PROVE  /\ page2frame' \in [Pages -> Frames \cup {NoFrame}]
         /\ frame_to_page' \in [Frames -> Pages \cup {NoPage}]
         /\ frame_dirty' \in [Frames -> BOOLEAN]
         /\ buffer' \in [Frames -> (Pages \X Vals) \cup {NoData}]
         /\ cluster_flag' \in [Frames -> 0 .. ClusterNum - 1]
         /\ disk' \in [Pages -> (Pages \X Vals) \cup {NoData}]
         /\ promised' \in [Pages -> Vals \cup {Absent}]
<1> USE DEF DataTypes
<1>1. p \in Pages /\ v \in Vals /\ <<p, v>> \in Pages \X Vals
  BY DEF Called
<1>2. store \in [Pages -> (Pages \X Vals) \cup {NoData}]
  BY DEF Stored
<1>3. page2frame' \in [Pages -> Frames \cup {NoFrame}]
  BY <1>1 DEF Install
<1>4. frame_to_page' \in [Frames -> Pages \cup {NoPage}]
  BY <1>1 DEF Install
<1>5. frame_dirty' \in [Frames -> BOOLEAN]
  BY DEF Install
<1>6. buffer' \in [Frames -> (Pages \X Vals) \cup {NoData}]
  <2>1. (IF op = "read" THEN store[p] ELSE <<p, v>>) \in (Pages \X Vals) \cup {NoData}
    BY <1>1, <1>2
  <2>2. buffer' = [buffer EXCEPT ![f] = IF op = "read" THEN store[p] ELSE <<p, v>>]
    BY DEF Install
  <2> QED BY <2>1, <2>2
<1>7. cluster_flag' \in [Frames -> 0 .. ClusterNum - 1]
  <2>1. PICK c \in FlagsOf(f, op) : cluster_flag' = [cluster_flag EXCEPT ![f] = c]
    BY DEF Install
  <2>2. c \in 0 .. ClusterNum - 1
    <3>1. 0 \in 0 .. ClusterNum - 1 /\ cluster_flag[f] \in 0 .. ClusterNum - 1
      BY BufferConstantsOK
    <3> QED BY <3>1 DEF FlagsOf
  <2> QED BY <2>1, <2>2
<1>8. disk' \in [Pages -> (Pages \X Vals) \cup {NoData}]
  <2>1. disk' = IF op = "new" THEN [store EXCEPT ![p] = <<p, v>>] ELSE store
    BY DEF Install
  <2> QED BY <1>1, <1>2, <2>1
<1>9. promised' \in [Pages -> Vals \cup {Absent}]
  BY <1>1 DEF Called
<1> QED BY <1>3, <1>4, <1>5, <1>6, <1>7, <1>8, <1>9

LEMMA InstallKeeps ==
  ASSUME BInv, NEW f, NEW gone, NEW w, NEW vl, NEW store, NEW p, NEW v, NEW op,
         Room(f, gone, w, vl), Called(p, v, op), Stored(w, store),
         Install(f, gone, vl, store, p, v, op)
  PROVE  FramePart' /\ MapPart' /\ DiskPart'
<1>1. /\ p \in Pages /\ v \in Vals /\ f \in Frames
      /\ op \in {"read", "write", "new"} /\ v # Absent /\ NoFrame \notin Frames
  BY BufferConstantsOK DEF Called, Room
<1>2. /\ \A q \in Pages : page2frame'[q] = IF q = p THEN f ELSE IF q \in gone THEN NoFrame
                                           ELSE page2frame[q]
      /\ \A x \in Frames : frame_to_page'[x] = IF x = f THEN p ELSE frame_to_page[x]
      /\ \A x \in Frames : x # f => buffer'[x] = buffer[x]
      /\ buffer'[f] = IF op = "read" THEN store[p] ELSE <<p, v>>
      /\ \A q \in Pages : disk'[q] = IF op = "new" /\ q = p THEN <<p, v>> ELSE store[q]
  <2>1. store = [q \in Pages |-> store[q]]
    BY DEF Stored
  <2> QED BY <1>1, <2>1 DEF Install, BInv, DataTypes
<1>3. \A q \in Pages : promised'[q] = IF q = p /\ op # "read" THEN v ELSE promised[q]
  BY <1>1 DEF Called, BInv, DataTypes
<1>4. \A q \in Pages : promised[q] # Absent => store[q] \in {q} \X Vals
  <2> TAKE q \in Pages
  <2> HAVE promised[q] # Absent
  <2>1. CASE store[q] = disk[q]
    BY <2>1 DEF BInv, DiskPart
  <2>2. CASE store[q] # disk[q]
    <3>1. PICK g \in Frames : Contains(w, g) /\ frame_to_page[g] = q /\ store[q] = buffer[g]
      BY <2>2 DEF Stored
    <3> QED BY <3>1 DEF Room, BInv, FramePart
  <2> QED BY <2>1, <2>2
<1>5. op = "read" => promised[p] # Absent
  BY <1>1 DEF Called
<1>6. FramePart'
  <2> SUFFICES ASSUME NEW x \in Frames, Used(x)'
               PROVE  /\ frame_to_page'[x] \in Pages
                      /\ buffer'[x] \in {frame_to_page'[x]} \X Vals
                      /\ promised'[frame_to_page'[x]] # Absent
    BY DEF FramePart
  <2>1. CASE x = f
    BY <1>1, <1>2, <1>3, <1>4, <1>5, <2>1
  <2>2. CASE x # f
    <3>1. Used(x)
      BY <2>2 DEF Room
    <3>2. /\ frame_to_page[x] \in Pages
          /\ buffer[x] \in {frame_to_page[x]} \X Vals
          /\ promised[frame_to_page[x]] # Absent
      BY <3>1 DEF BInv, FramePart
    <3> QED BY <1>1, <1>2, <1>3, <2>2, <3>2
  <2> QED BY <2>1, <2>2
<1>7. MapPart'
  <2> SUFFICES ASSUME NEW q \in Pages, NEW g \in Frames, page2frame'[q] = g
               PROVE  Used(g)' /\ frame_to_page'[g] = q
    BY DEF MapPart
  <2>1. CASE q = p
    BY <1>1, <1>2, <2>1 DEF Room
  <2>2. CASE q # p
    <3>1. q \notin gone /\ page2frame[q] = g
      BY <1>1, <1>2, <2>2
    <3>2. Used(g) /\ frame_to_page[g] = q
      BY <3>1 DEF BInv, MapPart
    <3>3. g # f /\ Used(g)'
      BY <3>1, <3>2 DEF Room
    <3> QED BY <1>2, <3>2, <3>3
  <2> QED BY <2>1, <2>2
<1>8. DiskPart'
  <2> SUFFICES ASSUME NEW q \in Pages, promised'[q] # Absent
               PROVE  disk'[q] \in {q} \X Vals
    BY DEF DiskPart
  <2>1. CASE op = "new" /\ q = p
    BY <1>1, <1>2, <2>1
  <2>2. CASE ~ (op = "new" /\ q = p)
    <3>1. promised[q] # Absent
      BY <1>3, <2>2 DEF Called
    <3> QED BY <1>2, <1>4, <2>2, <3>1
  <2> QED BY <2>1, <2>2
<1> QED BY <1>6, <1>7, <1>8

------------------------------------------------------------------------------
(***************************************************************************)
(* Load, in the modes with ZALP's lists.                                   *)
(***************************************************************************)
LEMMA LoadStep ==
  ASSUME BInv, NEW p, NEW v, NEW op, op \in {"read", "write", "new"},
         Load(p, v, op), Mode' = Mode
  PROVE  /\ ~ Lru
         /\ Room(LoadFrame, LoadGone, LoadVictims, LoadVictims)
         /\ \E store : /\ Stored(LoadVictims, store)
                       /\ Install(LoadFrame, LoadGone, LoadVictims, store, p, v, op)
         /\ Lists(strategy')
         /\ \A x \in Frames : Contains(strategy'.dList, x) <=>
              \/ Contains(strategy.dList, x) /\ ~ Contains(LoadVictims, x)
              \/ op = "write" /\ x = LoadFrame
         /\ accessH' \subseteq Pages
         /\ UNCHANGED <<lrus, free_frames_num>>
<1> DEFINE f == LoadFrame
           t == get_frame(LoadLists)
           s1 == push(t, f, FALSE)
<1>1. ~ Lru /\ UNCHANGED <<lrus, free_frames_num>>
  BY DEF Load
<1>2. /\ f \in Frames
      /\ LoadVictims \in Seq(Frames)
      /\ \A x : Contains(LoadVictims, x) =>
           x \in Frames /\ Contains(strategy.dList, x) /\ Beyond(strategy, x)
      /\ ListsBut(t, {f})
      /\ \A x : Contains(t.dList, x) <=>
                  Contains(strategy.dList, x) /\ ~ Contains(LoadVictims, x)
      /\ \A x : Contains(t.lList, x) => Contains(strategy.lList, x) /\ x # f
      /\ \A x : Contains(strategy.lList, x) =>
                  Contains(t.lList, x) \/ Contains(LoadVictims, x) \/ x = f
      /\ Mode \in {"cflru", "zalp_wc"} =>
           \A x : Contains(t.lList, x) => ~ Contains(LoadVictims, x)
      /\ ~ (Contains(strategy.dList, f) /\ ~ Contains(LoadVictims, f))
      /\ Contains(strategy.lList, f) => frame_to_page[f] \in LoadGone
      /\ \A x : Contains(LoadVictims, x) => frame_to_page[x] \in LoadGone
      /\ \A q \in LoadGone : \E x \in Frames :
           /\ q = frame_to_page[x] /\ Contains(strategy.lList, x)
           /\ Contains(LoadVictims, x) \/ x = f
  BY <1>1, LoadFacts, Zenon
<1>3. strategy' = IF op = "write" THEN set_dirty(s1, f) ELSE s1
  BY DEF Load, LoadLists, LoadFrame
<1>4. \E store : /\ Stored(LoadVictims, store)
                 /\ Install(f, LoadGone, LoadVictims, store, p, v, op)
  <2>1. PICK fs \in (IF is_evict(strategy) THEN Flushes ELSE {<<>>}) :
          Install(f, LoadGone, LoadVictims, Written(fs), p, v, op)
    BY DEF Load, LoadLists, LoadFrame, LoadVictims, LoadGone
  <2>2. Stored(LoadVictims, Written(fs))
    BY <1>1, LoadStores
  <2> QED BY <2>1, <2>2
<1>5. accessH' \subseteq Pages
  <2>1. \A x \in ToSet(Victims) : is_evict(strategy) => frame_to_page[x] \in Pages
    <3> SUFFICES ASSUME NEW x \in ToSet(Victims), is_evict(strategy)
                 PROVE  frame_to_page[x] \in Pages
      OBVIOUS
    <3>1. LoadVictims = Victims
      BY DEF LoadVictims
    <3>2. x \in Frames /\ Contains(strategy.dList, x)
      BY <1>2, <3>1, ToSetSeq
    <3>3. Contains(strategy.lList, x)
      BY <3>2 DEF BInv, ListPart, Lists, ListsBut
    <3> QED BY <1>1, <3>2, <3>3 DEF BInv, FramePart, Used
  <2>2. is_evict(strategy) => VictimPages \subseteq Pages
    BY <2>1 DEF VictimPages
  <2>3. accessH \subseteq Pages
    BY DEF BInv, DataTypes
  <2> QED BY <2>2, <2>3 DEF Load
<1> HIDE DEF t, f
<1>6. /\ Lists(s1)
      /\ \A x : Contains(s1.dList, x) <=> Contains(t.dList, x)
      /\ \A x : Contains(s1.lList, x) <=> Contains(t.lList, x) \/ x = f
      /\ Newest(s1, f)
  BY <1>2, PushLists
<1> HIDE DEF s1
<1>7. /\ Lists(strategy')
      /\ \A x : Contains(strategy'.lList, x) <=> Contains(t.lList, x) \/ x = f
      /\ \A x : Contains(strategy'.dList, x) <=>
                  Contains(t.dList, x) \/ (op = "write" /\ x = f)
  <2>1. CASE op = "write"
    BY <1>2, <1>3, <1>6, <2>1, SetDirtyLists
  <2>2. CASE op # "write"
    BY <1>3, <1>6, <2>2
  <2> QED BY <2>1, <2>2
<1>8. /\ \A x : Used(x) <=> Contains(strategy.lList, x)
      /\ \A x : Used(x)' <=> Contains(strategy'.lList, x)
  BY <1>1, Mode' = Mode DEF Used, Lru
<1>9. \A x : Contains(strategy.dList, x) => Used(x)
  BY <1>8 DEF BInv, ListPart, Lists, ListsBut
<1>10. \A x \in Frames : frame_dirty[x] <=> Contains(strategy.dList, x)
  BY <1>1 DEF BInv, DirtyPart
<1>11. Room(f, LoadGone, LoadVictims, LoadVictims)
  <2>0. f \in Frames
    BY <1>2
  <2>1. \A x \in Frames : x = f => Used(x)'
    BY <1>7, <1>8
  <2>2. Used(f) => frame_to_page[f] \in LoadGone
    BY <1>2, <1>8
  <2>3. \A x \in Frames : Contains(LoadVictims, x) => Used(x) /\ frame_dirty[x]
    BY <1>2, <1>9, <1>10
  <2>4. \A x \in Frames : Used(x)' => Used(x) \/ x = f
    BY <1>2, <1>7, <1>8
  <2>5. \A x \in Frames : Used(x) /\ ~ Used(x)' => frame_to_page[x] \in LoadGone
    BY <1>2, <1>7, <1>8
  <2>6. ASSUME NEW q \in LoadGone
        PROVE  \E x \in Frames : /\ Used(x) /\ q = frame_to_page[x]
                                 /\ frame_dirty[x] => Contains(LoadVictims, x)
                                 /\ Contains(LoadVictims, x) \/ x = f
    <3>1. PICK x \in Frames : /\ q = frame_to_page[x] /\ Contains(strategy.lList, x)
                              /\ Contains(LoadVictims, x) \/ x = f
      BY <1>2
    <3> QED BY <1>2, <1>8, <1>10, <3>1
  <2>7. OneFrame => \A x \in Frames : Used(x)' => x = f \/ ~ Contains(LoadVictims, x)
    <3>1. OneFrame => Mode \in {"cflru", "zalp_wc"}
      BY <1>1 DEF OneFrame, Lru
    <3> QED BY <1>2, <1>7, <1>8, <3>1
  <2> QED BY <2>0, <2>1, <2>2, <2>3, <2>4, <2>5, <2>6, <2>7 DEF Room
<1>12. \A x \in Frames : Contains(strategy'.dList, x) <=>
         \/ Contains(strategy.dList, x) /\ ~ Contains(LoadVictims, x)
         \/ op = "write" /\ x = f
  BY <1>2, <1>7
<1> QED BY <1>1, <1>4, <1>5, <1>7, <1>11, <1>12 DEF f

LEMMA LoadKeeps ==
  ASSUME BInv, NEW p, NEW v, NEW op, Called(p, v, op),
         Load(p, v, op), Mode' = Mode, closed' = closed
  PROVE  BInv'
<1> DEFINE f == LoadFrame
           vl == LoadVictims
<1>1. /\ ~ Lru /\ Room(f, LoadGone, vl, vl)
      /\ Lists(strategy')
      /\ \A x \in Frames : Contains(strategy'.dList, x) <=>
           (Contains(strategy.dList, x) /\ ~ Contains(vl, x)) \/ (op = "write" /\ x = f)
      /\ accessH' \subseteq Pages
      /\ UNCHANGED <<lrus, free_frames_num>>
  BY LoadStep DEF Called
<1>2. PICK store : Stored(vl, store) /\ Install(f, LoadGone, vl, store, p, v, op)
  BY LoadStep DEF Called
<1> HIDE DEF f, vl
<1>3. f \in Frames /\ BInv
  BY <1>1 DEF Room
<1>4. FramePart' /\ MapPart' /\ DiskPart'
  BY <1>1, <1>2, InstallKeeps
<1>5. DataTypes'
  <2>1. DataTypes /\ Mode \in Modes /\ closed \in BOOLEAN /\ free_frames_num \in 0 .. DefBufSize
    BY DEF BInv, DataTypes
  <2>2. /\ page2frame' \in [Pages -> Frames \cup {NoFrame}]
        /\ frame_to_page' \in [Frames -> Pages \cup {NoPage}]
        /\ frame_dirty' \in [Frames -> BOOLEAN]
        /\ buffer' \in [Frames -> (Pages \X Vals) \cup {NoData}]
        /\ cluster_flag' \in [Frames -> 0 .. ClusterNum - 1]
        /\ disk' \in [Pages -> (Pages \X Vals) \cup {NoData}]
        /\ promised' \in [Pages -> Vals \cup {Absent}]
    BY <1>2, <1>3, <2>1, InstallTypes
  <2> QED BY <1>1, <2>1, <2>2 DEF DataTypes
<1>6. ListPart'
  <2>1. lrus = <<>> /\ lrus \in Seq(Frames) /\ IsInjective(lrus)
    BY <1>1 DEF BInv, ListPart
  <2> QED BY <1>1, <2>1 DEF ListPart, Lru
<1>7. DirtyPart'
  <2> SUFFICES ASSUME NEW x \in Frames
               PROVE  frame_dirty'[x] <=> Contains(strategy'.dList, x)
    BY <1>1 DEF DirtyPart, Lru
  <2>1. frame_dirty'[x] <=> (op = "write" /\ x = f) \/ (frame_dirty[x] /\ ~ Contains(vl, x))
    BY <1>2 DEF Install
  <2>2. frame_dirty[x] <=> Contains(strategy.dList, x)
    BY <1>1 DEF BInv, DirtyPart
  <2> QED BY <1>1, <2>1, <2>2
<1> QED BY <1>4, <1>5, <1>6, <1>7 DEF BInv
------------------------------------------------------------------------------
(***************************************************************************)
(* LoadLru: the last frame of lrus, or one that was never used.            *)
(***************************************************************************)
LEMMA LruStep ==
  ASSUME BInv, NEW p, NEW v, NEW op, LoadLru(p, v, op), Mode' = Mode
  PROVE  \E f \in Frames : \E gone, w, store :
           /\ Room(f, gone, w, <<>>) /\ Stored(w, store)
           /\ Install(f, gone, <<>>, store, p, v, op)
           /\ lrus' \in Seq(Frames) /\ IsInjective(lrus')
           /\ \A x \in Frames : Contains(lrus', x) <=> Used(x)'
           /\ \A x \in Frames : Used(x) => Used(x)'
           /\ free_frames_num' \in 0 .. DefBufSize
           /\ Lru /\ UNCHANGED <<strategy, accessH>>
<1>1. Lru /\ Lru' /\ UNCHANGED <<strategy, accessH>>
  BY Mode' = Mode DEF LoadLru, Lru
<1>2. /\ lrus \in Seq(Frames) /\ IsInjective(lrus)
      /\ \A x \in Frames : Contains(lrus, x) <=> Used(x)
  BY <1>1 DEF BInv, ListPart
<1>3. /\ \A x : Used(x) <=> x < DefBufSize - free_frames_num
      /\ \A x : Used(x)' <=> x < DefBufSize - free_frames_num'
  BY <1>1 DEF Used
<1>4. free_frames_num \in 0 .. DefBufSize /\ free_frames_num \in Nat /\ DefBufSize \in Nat
  BY Sizes DEF BInv, DataTypes
<1>5. \A x : ~ Contains(<<>>, x)
  BY DEF Contains
<1>6. CASE free_frames_num = 0
  <2> DEFINE f == Last(lrus)
             gone == {frame_to_page[f]}
             w == DirtyVictim(f)
  <2>1. /\ Install(f, gone, <<>>, Written(w), p, v, op)
        /\ lrus' = Cons(f, Front(lrus))
        /\ free_frames_num' = free_frames_num
    BY <1>1, <1>6 DEF LoadLru, get_victim, EraseVictim, lru_push
  <2>2. lrus # <<>>
    <3>1. 0 \in Frames /\ 0 < DefBufSize - free_frames_num
      BY <1>6, Sizes DEF Frames
    <3>2. Contains(lrus, 0)
      BY <1>2, <1>3, <3>1
    <3> QED BY <1>5, <3>2
  <2>3. /\ Front(lrus) \in Seq(Frames) /\ f \in Frames /\ Contains(lrus, f)
        /\ \A x : Contains(Front(lrus), x) => Contains(lrus, x)
        /\ \A x : Contains(lrus, x) => Contains(Front(lrus), x) \/ x = f
        /\ IsInjective(Front(lrus)) /\ ~ Contains(Front(lrus), f)
    BY <1>2, <2>2, FrontLemma
  <2>4. /\ Stored(w, Written(w))
        /\ \A x \in Frames : Contains(w, x) <=> x = f /\ frame_dirty[f]
    BY <2>3, VictimStores
  <2> HIDE DEF f, w
  <2>5. /\ lrus' \in Seq(Frames) /\ IsInjective(lrus')
        /\ \A x : Contains(lrus', x) <=> x = f \/ Contains(Front(lrus), x)
    BY <2>1, <2>3, ConsLemma
  <2>6. \A x : Used(x)' <=> Used(x)
    BY <1>3, <2>1
  <2>7. \A x \in Frames : Contains(lrus', x) <=> Used(x)'
    BY <1>2, <2>3, <2>5, <2>6
  <2>8. Used(f)
    BY <1>2, <2>3
  <2>9. Room(f, gone, w, <<>>)
    <3>1. \A x \in Frames : x = f => Used(x) /\ Used(x)'
      BY <2>6, <2>8
    <3>2. \A x \in Frames : Contains(w, x) => Used(x) /\ frame_dirty[x]
      BY <2>4, <2>8
    <3>3. \A q \in gone : \E x \in Frames : /\ Used(x) /\ q = frame_to_page[x]
                                            /\ frame_dirty[x] => Contains(w, x)
                                            /\ Contains(w, x) \/ x = f
      BY <2>3, <2>4, <2>8
    <3>4. \A x \in Frames : x = f \/ ~ Contains(w, x)
      BY <2>4
    <3> QED BY <1>5, <2>3, <2>6, <3>1, <3>2, <3>3, <3>4 DEF Room
  <2>10. free_frames_num' \in 0 .. DefBufSize
    BY <1>4, <2>1
  <2> QED BY <1>1, <2>1, <2>3, <2>4, <2>5, <2>6, <2>7, <2>9, <2>10
<1>7. CASE free_frames_num # 0
  <2> DEFINE f == DefBufSize - free_frames_num
  <2>1. /\ Install(f, {}, <<>>, disk, p, v, op)
        /\ lrus' = Cons(f, lrus)
        /\ free_frames_num' = free_frames_num - 1
    BY <1>1, <1>7 DEF LoadLru, lru_push
  <2>2. f \in Frames /\ ~ Used(f)
    BY <1>3, <1>4, <1>7 DEF Frames
  <2>3. \A x \in Frames : Used(x)' <=> Used(x) \/ x = f
    <3> TAKE x \in Frames
    <3>1. x \in Int
      BY DEF Frames
    <3>2. (x < DefBufSize - (free_frames_num - 1)) <=>
            (x < DefBufSize - free_frames_num) \/ x = DefBufSize - free_frames_num
      BY <1>4, <3>1
    <3> QED BY <1>3, <2>1, <3>2
  <2>4. Stored(<<>>, disk)
    BY <1>5 DEF Stored, BInv, DataTypes
  <2>5. free_frames_num' \in 0 .. DefBufSize
    BY <1>4, <1>7, <2>1
  <2> HIDE DEF f
  <2>6. ~ Contains(lrus, f)
    BY <1>2, <2>2
  <2>7. /\ lrus' \in Seq(Frames) /\ IsInjective(lrus')
        /\ \A x : Contains(lrus', x) <=> x = f \/ Contains(lrus, x)
    BY <1>2, <2>1, <2>2, <2>6, ConsLemma
  <2>8. \A x \in Frames : Contains(lrus', x) <=> Used(x)'
    BY <1>2, <2>3, <2>7
  <2>9. Room(f, {}, <<>>, <<>>)
    BY <1>5, <2>2, <2>3 DEF Room
  <2> QED BY <1>1, <2>1, <2>2, <2>3, <2>4, <2>5, <2>7, <2>8, <2>9
<1> QED BY <1>6, <1>7

LEMMA LruKeeps ==
  ASSUME BInv, NEW p, NEW v, NEW op, Called(p, v, op),
         LoadLru(p, v, op), Mode' = Mode, closed' = closed
  PROVE  BInv'
<1>1. PICK f \in Frames : \E gone, w, store :
        /\ Room(f, gone, w, <<>>) /\ Stored(w, store)
        /\ Install(f, gone, <<>>, store, p, v, op)
        /\ lrus' \in Seq(Frames) /\ IsInjective(lrus')
        /\ \A x \in Frames : Contains(lrus', x) <=> Used(x)'
        /\ \A x \in Frames : Used(x) => Used(x)'
        /\ free_frames_num' \in 0 .. DefBufSize
        /\ Lru /\ UNCHANGED <<strategy, accessH>>
  BY LruStep
<1>2. PICK gone, w, store :
        /\ Room(f, gone, w, <<>>) /\ Stored(w, store)
        /\ Install(f, gone, <<>>, store, p, v, op)
        /\ lrus' \in Seq(Frames) /\ IsInjective(lrus')
        /\ \A x \in Frames : Contains(lrus', x) <=> Used(x)'
        /\ \A x \in Frames : Used(x) => Used(x)'
        /\ free_frames_num' \in 0 .. DefBufSize
        /\ Lru /\ UNCHANGED <<strategy, accessH>>
  BY <1>1
<1>3. FramePart' /\ MapPart' /\ DiskPart'
  BY <1>2, InstallKeeps
<1>4. DataTypes'
  <2>1. DataTypes /\ Mode \in Modes /\ closed \in BOOLEAN /\ accessH \subseteq Pages
    BY DEF BInv, DataTypes
  <2>2. /\ page2frame' \in [Pages -> Frames \cup {NoFrame}]
        /\ frame_to_page' \in [Frames -> Pages \cup {NoPage}]
        /\ frame_dirty' \in [Frames -> BOOLEAN]
        /\ buffer' \in [Frames -> (Pages \X Vals) \cup {NoData}]
        /\ cluster_flag' \in [Frames -> 0 .. ClusterNum - 1]
        /\ disk' \in [Pages -> (Pages \X Vals) \cup {NoData}]
        /\ promised' \in [Pages -> Vals \cup {Absent}]
    BY <1>2, <2>1, InstallTypes
  <2> QED BY <1>2, <2>1, <2>2 DEF DataTypes
<1>5. ListPart'
  <2>1. Lists(strategy) /\ strategy = Start
    BY <1>2 DEF BInv, ListPart
  <2>2. Lists(strategy') /\ strategy' = Start
    BY <1>2, <2>1
  <2>3. Lru'
    BY <1>2, Mode' = Mode DEF Lru
  <2> QED BY <1>2, <2>2, <2>3 DEF ListPart
<1>6. DirtyPart'
  <2> SUFFICES ASSUME NEW x \in Frames, frame_dirty'[x]
               PROVE  Used(x)'
    BY <1>2, Mode' = Mode DEF DirtyPart, Lru
  <2>1. x = f \/ frame_dirty[x]
    BY <1>2 DEF Install
  <2>2. x = f \/ Used(x)
    BY <1>2, <2>1 DEF BInv, DirtyPart
  <2> QED BY <1>2, <2>2 DEF Room
<1> QED BY <1>3, <1>4, <1>5, <1>6 DEF BInv

------------------------------------------------------------------------------
(***************************************************************************)
(* A page is found in its frame, and the frames are written back at last.  *)
(***************************************************************************)
Found(p, v, op) ==
  /\ op \in {"read", "write"} /\ p \in Pages /\ v \in Vals
  /\ page2frame[p] # NoFrame /\ promised[p] # Absent
  /\ promised' = IF op = "read" THEN promised ELSE [promised EXCEPT ![p] = v]

LEMMA HitLists ==
  ASSUME BInv, NEW p, NEW v, NEW op, Found(p, v, op), Hit(p, v, op), Mode' = Mode
  PROVE  /\ ListPart' /\ DirtyPart'
         /\ \A x \in Frames : Used(x)' <=> Used(x)
<1>1. PICK f \in Frames : f = page2frame[p]
  BY DEF BInv, DataTypes, Found
<1>2. Used(f)
  BY <1>1 DEF BInv, MapPart, Found
<1>3. UNCHANGED free_frames_num
  BY DEF Hit
<1>4. \A x \in Frames : frame_dirty'[x] = (frame_dirty[x] \/ (op = "write" /\ x = f))
  BY <1>1 DEF Hit, BInv, DataTypes
<1>5. CASE Lru
  <2>1. lrus' = Cons(f, Without(lrus, {f})) /\ UNCHANGED strategy /\ Lru'
    BY <1>1, <1>5, Mode' = Mode DEF Hit, lru_update, lru_push, Lru
  <2>2. /\ lrus \in Seq(Frames) /\ IsInjective(lrus)
        /\ \A x \in Frames : Contains(lrus, x) <=> Used(x)
        /\ Lists(strategy) /\ strategy = Start
    BY <1>5 DEF BInv, ListPart
  <2>3. /\ Without(lrus, {f}) \in Seq(Frames) /\ IsInjective(Without(lrus, {f}))
        /\ \A x : Contains(Without(lrus, {f}), x) <=> Contains(lrus, x) /\ x # f
    BY <2>2, WithoutOne
  <2>4. /\ lrus' \in Seq(Frames) /\ IsInjective(lrus')
        /\ \A x : Contains(lrus', x) <=> x = f \/ (Contains(lrus, x) /\ x # f)
    BY <2>1, <2>3, ConsLemma
  <2>5. \A x \in Frames : Used(x)' <=> Used(x)
    BY <1>3, <1>5, <2>1 DEF Used
  <2>6. \A x \in Frames : Contains(lrus', x) <=> Used(x)'
    BY <1>2, <2>2, <2>4, <2>5
  <2>7. Lists(strategy') /\ strategy' = Start
    BY <2>1, <2>2
  <2>8. ListPart'
    BY <2>1, <2>4, <2>6, <2>7 DEF ListPart
  <2>9. DirtyPart'
    <3> SUFFICES ASSUME NEW x \in Frames, frame_dirty'[x]
                 PROVE  Used(x)'
      BY <2>1 DEF DirtyPart
    <3>1. frame_dirty[x] \/ x = f
      BY <1>4
    <3>2. Used(x)
      BY <1>2, <1>5, <3>1 DEF BInv, DirtyPart
    <3> QED BY <2>5, <3>2
  <2> QED BY <2>5, <2>8, <2>9
<1>6. CASE ~ Lru
  <2> DEFINE d == frame_dirty[f]
             t == update(strategy, f, d)
  <2>1. /\ strategy' = IF op = "write" THEN set_dirty(t, f) ELSE t
        /\ UNCHANGED lrus /\ ~ Lru'
    BY <1>1, <1>6, Mode' = Mode DEF Hit, Lru
  <2>2. /\ Lists(strategy) /\ Contains(strategy.lList, f) /\ lrus = <<>>
        /\ \A x \in Frames : frame_dirty[x] <=> Contains(strategy.dList, x)
    BY <1>2, <1>6 DEF BInv, ListPart, DirtyPart, Used
  <2>3. d \in BOOLEAN
    BY DEF BInv, DataTypes
  <2>4. /\ Lists(t) /\ Newest(t, f)
        /\ \A x : Contains(t.dList, x) <=> Contains(strategy.dList, x)
        /\ \A x : Contains(t.lList, x) <=> Contains(strategy.lList, x)
    BY <2>2, <2>3, UpdateLists
  <2> HIDE DEF t, d
  <2>5. /\ Lists(strategy')
        /\ \A x : Contains(strategy'.lList, x) <=> Contains(strategy.lList, x)
        /\ \A x : Contains(strategy'.dList, x) <=>
                    Contains(strategy.dList, x) \/ (op = "write" /\ x = f)
    <3>1. CASE op = "write"
      BY <2>1, <2>4, <3>1, SetDirtyLists
    <3>2. CASE op # "write"
      BY <2>1, <2>4, <3>2
    <3> QED BY <3>1, <3>2
  <2>6. \A x \in Frames : Used(x)' <=> Used(x)
    BY <1>6, <2>1, <2>5 DEF Used
  <2>7. <<>> \in Seq(Frames) /\ IsInjective(<<>>)
    BY DEF IsInjective
  <2>8. ListPart'
    BY <2>1, <2>2, <2>5, <2>7 DEF ListPart
  <2>9. DirtyPart'
    BY <1>4, <2>1, <2>2, <2>5 DEF DirtyPart
  <2> QED BY <2>6, <2>8, <2>9
<1> QED BY <1>5, <1>6

LEMMA HitKeeps ==
  ASSUME BInv, NEW p, NEW v, NEW op, Found(p, v, op), Hit(p, v, op),
         Mode' = Mode, closed' = closed
  PROVE  BInv'
<1>1. /\ p \in Pages /\ v \in Vals /\ <<p, v>> \in Pages \X Vals /\ v # Absent
      /\ UNCHANGED <<free_frames_num, page2frame, frame_to_page, accessH, disk>>
  BY BufferConstantsOK DEF Found, Hit
<1>2. PICK f \in Frames : f = page2frame[p]
  BY DEF BInv, DataTypes, Found
<1>3. Used(f) /\ frame_to_page[f] = p
  BY <1>1, <1>2 DEF BInv, MapPart
<1>4. ListPart' /\ DirtyPart' /\ \A x \in Frames : Used(x)' <=> Used(x)
  BY HitLists
<1>5. /\ buffer' = IF op = "write" THEN [buffer EXCEPT ![f] = <<p, v>>] ELSE buffer
      /\ frame_dirty' = IF op = "write" THEN [frame_dirty EXCEPT ![f] = TRUE] ELSE frame_dirty
      /\ cluster_flag' = IF Warming /\ cluster_flag[f] < 2
                         THEN [cluster_flag EXCEPT ![f] = @ + 1] ELSE cluster_flag
  BY <1>2 DEF Hit
<1>6. /\ promised' \in [Pages -> Vals \cup {Absent}]
      /\ \A q \in Pages : promised[q] # Absent <=> promised'[q] # Absent
  BY <1>1 DEF Found, BInv, DataTypes
<1>7. DataTypes'
  <2>1. cluster_flag' \in [Frames -> 0 .. ClusterNum - 1]
    <3>1. Warming => ClusterNum = 3
      BY BufferConstantsOK DEF Warming, BInv, DataTypes
    <3>2. cluster_flag \in [Frames -> 0 .. ClusterNum - 1]
      BY DEF BInv, DataTypes
    <3>3. CASE Warming /\ cluster_flag[f] < 2
      <4>1. cluster_flag[f] + 1 \in 0 .. ClusterNum - 1
        <5>1. cluster_flag[f] \in 0 .. 2
          BY <3>1, <3>2, <3>3
        <5> QED BY <3>1, <3>3, <5>1
      <4> QED BY <1>5, <3>2, <3>3, <4>1
    <3>4. CASE ~ (Warming /\ cluster_flag[f] < 2)
      BY <1>5, <3>2, <3>4
    <3> QED BY <3>3, <3>4
  <2>2. buffer' \in [Frames -> (Pages \X Vals) \cup {NoData}] /\ frame_dirty' \in [Frames -> BOOLEAN]
    BY <1>1, <1>5 DEF BInv, DataTypes
  <2> QED BY <1>1, <1>6, <2>1, <2>2 DEF BInv, DataTypes
<1>8. FramePart'
  <2> SUFFICES ASSUME NEW x \in Frames, Used(x)
               PROVE  /\ frame_to_page'[x] \in Pages
                      /\ buffer'[x] \in {frame_to_page'[x]} \X Vals
                      /\ promised'[frame_to_page'[x]] # Absent
    BY <1>4 DEF FramePart
  <2>1. /\ frame_to_page[x] \in Pages
        /\ buffer[x] \in {frame_to_page[x]} \X Vals
        /\ promised[frame_to_page[x]] # Absent
    BY DEF BInv, FramePart
  <2>2. buffer'[x] = IF op = "write" /\ x = f THEN <<p, v>> ELSE buffer[x]
    BY <1>5 DEF BInv, DataTypes
  <2> QED BY <1>1, <1>3, <1>6, <2>1, <2>2
<1>9. MapPart'
  BY <1>1, <1>4 DEF BInv, MapPart
<1>10. DiskPart'
  BY <1>1, <1>6 DEF BInv, DiskPart
<1> QED BY <1>4, <1>7, <1>8, <1>9, <1>10 DEF BInv

LEMMA CleanKeeps ==
  ASSUME BInv, clean_buffer
  PROVE  BInv'
<1>1. /\ UNCHANGED <<Mode, strategy, lrus, free_frames_num, page2frame, frame_to_page,
                     frame_dirty, buffer, cluster_flag, accessH, promised>>
      /\ disk' = Written(DirtyFrames) /\ closed' = TRUE
  BY DEF clean_buffer
<1>2. Stored(DirtyFrames, disk') /\ \A x \in Frames : Contains(DirtyFrames, x) <=> frame_dirty[x]
  BY <1>1, CleanStores
<1>3. \A x : Used(x)' <=> Used(x)
  BY <1>1 DEF Used, Lru
<1>4. \A x \in Frames : frame_dirty[x] => Used(x)
  <2>1. \A x \in Frames : Contains(strategy.dList, x) => Contains(strategy.lList, x)
    BY DEF BInv, ListPart, Lists, ListsBut
  <2> QED BY <2>1 DEF BInv, DirtyPart, Used
<1>5. \A q \in Pages : disk'[q] = disk[q] \/ disk'[q] \in {q} \X Vals
  <2> TAKE q \in Pages
  <2>1. CASE \E g \in Frames : /\ Contains(DirtyFrames, g) /\ frame_to_page[g] = q
                               /\ disk'[q] = buffer[g]
    <3>1. PICK g \in Frames : /\ Contains(DirtyFrames, g) /\ frame_to_page[g] = q
                              /\ disk'[q] = buffer[g]
      BY <2>1
    <3>2. Used(g)
      BY <1>2, <1>4, <3>1
    <3> QED BY <3>1, <3>2 DEF BInv, FramePart
  <2>2. CASE disk'[q] = disk[q]
    BY <2>2
  <2> QED BY <1>2, <2>1, <2>2 DEF Stored
<1>6. DataTypes'
  <2>1. disk' \in [Pages -> (Pages \X Vals) \cup {NoData}]
    <3>1. \A q \in Pages : disk'[q] \in (Pages \X Vals) \cup {NoData}
      BY <1>5 DEF BInv, DataTypes
    <3> QED BY <1>2, <3>1 DEF Stored
  <2> QED BY <1>1, <2>1 DEF BInv, DataTypes
<1>7. DiskPart'
  BY <1>1, <1>5 DEF BInv, DiskPart
<1>8. ListPart' /\ DirtyPart'
  BY <1>1, <1>3 DEF BInv, ListPart, DirtyPart, Lru
<1>9. FramePart' /\ MapPart'
  BY <1>1, <1>3 DEF BInv, FramePart, MapPart
<1> QED BY <1>6, <1>7, <1>8, <1>9 DEF BInv

------------------------------------------------------------------------------
(***************************************************************************)
(* Every call is one of those.                                             *)
(***************************************************************************)
LEMMA NextCases ==
  ASSUME BInv, Next
  PROVE  \/ \E p, v, op : /\ Called(p, v, op) /\ (Load(p, v, op) \/ LoadLru(p, v, op))
                          /\ Mode' = Mode /\ closed' = closed /\ ~ closed
         \/ \E p, v, op : /\ Found(p, v, op) /\ Hit(p, v, op)
                          /\ Mode' = Mode /\ closed' = closed /\ ~ closed
         \/ clean_buffer
<1>1. ASSUME NEW p \in Pages, NEW v \in Vals, NEW op \in {"read", "write"},
             Access(p, v, op), op = "read" => v = promised[p],
             promised' = IF op = "read" THEN promised ELSE [promised EXCEPT ![p] = v]
      PROVE  \/ /\ Called(p, v, op) /\ (Load(p, v, op) \/ LoadLru(p, v, op))
                /\ Mode' = Mode /\ closed' = closed /\ ~ closed
             \/ /\ Found(p, v, op) /\ Hit(p, v, op)
                /\ Mode' = Mode /\ closed' = closed /\ ~ closed
  <2>1. /\ Mode' = Mode /\ closed' = closed /\ ~ closed /\ promised[p] # Absent
        /\ IF page2frame[p] # NoFrame THEN Hit(p, v, op)
           ELSE Load(p, v, op) \/ LoadLru(p, v, op)
    BY <1>1 DEF Access
  <2>2. CASE page2frame[p] # NoFrame
    BY <1>1, <2>1, <2>2 DEF Found
  <2>3. CASE page2frame[p] = NoFrame
    BY <1>1, <2>1, <2>3 DEF Called
  <2> QED BY <2>2, <2>3
<1>2. ASSUME NEW p \in Pages, read_page(p)
      PROVE  \E v \in Vals : v = promised[p] /\ Access(p, v, "read") /\ promised' = promised
  BY <1>2 DEF read_page
<1>3. ASSUME NEW p \in Pages, NEW v \in Vals, write_page(p, v)
      PROVE  Access(p, v, "write") /\ promised' = [promised EXCEPT ![p] = v]
  BY <1>3 DEF write_page
<1>4. ASSUME NEW p \in Pages, NEW v \in Vals, fix_new_page(p, v)
      PROVE  /\ Called(p, v, "new") /\ (Load(p, v, "new") \/ LoadLru(p, v, "new"))
             /\ Mode' = Mode /\ closed' = closed /\ ~ closed
  <2>1. page2frame[p] = NoFrame
    <3>1. promised[p] = Absent
      BY <1>4 DEF fix_new_page
    <3>2. \A f \in Frames : page2frame[p] # f
      BY <3>1 DEF BInv, MapPart, FramePart
    <3> QED BY <3>2 DEF BInv, DataTypes
  <2> QED BY <1>4, <2>1 DEF fix_new_page, Called
<1> QED BY <1>1, <1>2, <1>3, <1>4 DEF Next

LEMMA NextBInv == BInv /\ [Next]_vars => BInv'
<1> SUFFICES ASSUME BInv, [Next]_vars PROVE BInv'
  OBVIOUS
<1>1. CASE Next
  BY <1>1, NextCases, LoadKeeps, LruKeeps, HitKeeps, CleanKeeps
<1>2. CASE UNCHANGED vars
  BY <1>2 DEF vars, BInv, DataTypes, ListPart, FramePart, MapPart, DiskPart, DirtyPart, Used, Lru
<1> QED BY <1>1, <1>2

(***************************************************************************)
(* The invariant, and what it says of the buffer.                          *)
(***************************************************************************)
(* Whatever the calls of read_page, write_page and fix_new_page, the       *)
(* lists, the tables and the disk agree as BInv says.                      *)
THEOREM BInvHolds == Spec => []BInv
BY InitBInv, NextBInv, PTL DEF Spec

(* The tables and the lists have their types, and no frame is twice in a   *)
(* list, for every size of the buffer and in every mode.                   *)
THEOREM TypeCorrect == Spec => []TypeOK
BY BInvHolds, BInvTypeOK, PTL

(* The assertions of ZALP::is_correct never fail.                          *)
THEOREM ListsStayCorrect == Spec => []ListsCorrect
BY BInvHolds, BInvCorrect, PTL

(* frame_dirty, set by the buffer manager, and dList, kept by the          *)
(* strategy, agree after every call.                                       *)
THEOREM DirtyMarksAgree == Spec => []DirtyListed
BY BInvHolds, BInvDirty, PTL

(* When is_evict says so, get_candidate finds the frames beyond the        *)
(* working region, all of them dirty.                                      *)
THEOREM EvictionFindsVictims == Spec => []EvictionReady
BY BInvHolds, BInvEviction, PTL

(* The assertion of read_page on the identifier of the page it found       *)
(* never fails.                                                            *)
THEOREM ReadIdsMatch == Spec => []ReadIdMatches
BY BInvHolds, BInvReadId, PTL

------------------------------------------------------------------------------
(***************************************************************************)
(* In the modes of OneFrame a page has one frame at most, so what it was   *)
(* last written is in that frame, and on the disk if the frame is clean.   *)
(***************************************************************************)
Latest(p) == <<p, promised[p]>>

FramesLatest ==
  \A f \in Frames : Used(f) =>
    /\ page2frame[frame_to_page[f]] = f
    /\ buffer[f] = Latest(frame_to_page[f])
    /\ frame_dirty[f] \/ disk[frame_to_page[f]] = Latest(frame_to_page[f])

DiskLatest ==
  \A p \in Pages : promised[p] # Absent /\ page2frame[p] = NoFrame => disk[p] = Latest(p)

SInv == BInv /\ OneFrame /\ FramesLatest /\ DiskLatest /\ DurableAtClose

LEMMA InitSInv == Init /\ OneFrame => SInv
<1> SUFFICES ASSUME Init, OneFrame PROVE SInv
  OBVIOUS
<1>1. BInv
  BY InitBInv
<1>2. \A p \in Pages : promised[p] = Absent
  BY DEF Init
<1>3. \A f \in Frames : ~ Used(f)
  BY <1>1, <1>2 DEF BInv, FramePart
<1>4. ~ closed
  BY DEF Init
<1> QED BY <1>1, <1>2, <1>3, <1>4 DEF SInv, FramesLatest, DiskLatest, DurableAtClose

(* A flush of frames in use leaves on the disk the latest version of each  *)
(* page that has one of them.                                              *)
LEMMA StoredLatest ==
  ASSUME FramesLatest, NEW w, NEW store, Stored(w, store),
         \A x \in Frames : Contains(w, x) => Used(x)
  PROVE  \A q \in Pages :
           \/ store[q] = Latest(q)
           \/ /\ store[q] = disk[q]
              /\ \A g \in Frames : Contains(w, g) => frame_to_page[g] # q
<1> TAKE q \in Pages
<1>1. CASE \E g \in Frames : /\ Contains(w, g) /\ frame_to_page[g] = q
                             /\ store[q] = buffer[g]
  BY <1>1 DEF FramesLatest
<1> QED BY <1>1 DEF Stored

LEMMA InstallLatest ==
  ASSUME SInv, NEW f, NEW gone, NEW w, NEW vl, NEW store, NEW p, NEW v, NEW op,
         Room(f, gone, w, vl), Called(p, v, op), Stored(w, store),
         Install(f, gone, vl, store, p, v, op), Mode' = Mode
  PROVE  OneFrame' /\ FramesLatest' /\ DiskLatest'
<1>1. /\ p \in Pages /\ v \in Vals /\ f \in Frames /\ page2frame[p] = NoFrame
      /\ op \in {"read", "write", "new"} /\ v # Absent /\ NoFrame \notin Frames
      /\ BInv /\ OneFrame
  BY BufferConstantsOK DEF Called, Room, SInv
<1>2. /\ \A q \in Pages : page2frame'[q] = IF q = p THEN f ELSE IF q \in gone THEN NoFrame
                                           ELSE page2frame[q]
      /\ \A x \in Frames : frame_to_page'[x] = IF x = f THEN p ELSE frame_to_page[x]
      /\ \A x \in Frames : x # f => buffer'[x] = buffer[x]
      /\ buffer'[f] = IF op = "read" THEN store[p] ELSE <<p, v>>
      /\ \A q \in Pages : disk'[q] = IF op = "new" /\ q = p THEN <<p, v>> ELSE store[q]
      /\ \A x \in Frames : frame_dirty'[x] = \/ op = "write" /\ x = f
                                             \/ frame_dirty[x] /\ ~ Contains(vl, x)
  <2>1. store = [q \in Pages |-> store[q]]
    BY DEF Stored
  <2> QED BY <1>1, <2>1 DEF Install, BInv, DataTypes
<1>3. \A q \in Pages : promised'[q] = IF q = p /\ op # "read" THEN v ELSE promised[q]
  BY <1>1 DEF Called, BInv, DataTypes
<1>4. \A q \in Pages :
        \/ store[q] = Latest(q)
        \/ /\ store[q] = disk[q]
           /\ \A g \in Frames : Contains(w, g) => frame_to_page[g] # q
  BY StoredLatest DEF SInv, Room
<1>5. \A x \in Frames : Used(x) => /\ frame_to_page[x] \in Pages
                                   /\ promised[frame_to_page[x]] # Absent
                                   /\ page2frame[frame_to_page[x]] = x
                                   /\ frame_to_page[x] # p
                                   /\ buffer[x] = Latest(frame_to_page[x])
                                   /\ frame_dirty[x] \/ disk[frame_to_page[x]] = Latest(frame_to_page[x])
  BY <1>1 DEF SInv, BInv, FramePart, FramesLatest
<1>6. \A x \in Frames : Used(x)' /\ x # f =>
        Used(x) /\ ~ Contains(w, x) /\ frame_to_page[x] \notin gone
  <2> SUFFICES ASSUME NEW x \in Frames, Used(x)', x # f
               PROVE  Used(x) /\ ~ Contains(w, x) /\ frame_to_page[x] \notin gone
    OBVIOUS
  <2>1. Used(x) /\ ~ Contains(w, x)
    BY <1>1 DEF Room
  <2>2. ASSUME frame_to_page[x] \in gone PROVE FALSE
    <3>1. PICK y \in Frames : /\ Used(y) /\ frame_to_page[x] = frame_to_page[y]
                              /\ Contains(w, y) \/ y = f
      BY <2>2 DEF Room
    <3>2. x = y
      BY <1>5, <2>1, <3>1
    <3> QED BY <2>1, <3>1, <3>2
  <2> QED BY <2>1, <2>2
<1>7. op = "read" => store[p] = Latest(p)
  <2>1. op = "read" => disk[p] = Latest(p)
    BY <1>1 DEF Called, SInv, DiskLatest
  <2> QED BY <1>1, <1>4, <2>1
<1>8. FramesLatest'
  <2> SUFFICES ASSUME NEW x \in Frames, Used(x)'
               PROVE  LET q == frame_to_page'[x] IN
                      /\ page2frame'[q] = x
                      /\ buffer'[x] = <<q, promised'[q]>>
                      /\ frame_dirty'[x] \/ disk'[q] = <<q, promised'[q]>>
    BY DEF FramesLatest, Latest
  <2>1. CASE x = f
    <3>1. frame_to_page'[x] = p /\ page2frame'[p] = x
      BY <1>1, <1>2, <2>1
    <3>2. buffer'[x] = <<p, promised'[p]>>
      BY <1>1, <1>2, <1>3, <1>7, <2>1 DEF Latest
    <3>3. frame_dirty'[x] \/ disk'[p] = <<p, promised'[p]>>
      BY <1>1, <1>2, <1>3, <1>7, <2>1 DEF Latest
    <3> QED BY <3>1, <3>2, <3>3
  <2>2. CASE x # f
    <3> DEFINE q == frame_to_page[x]
    <3>1. Used(x) /\ ~ Contains(w, x) /\ q \notin gone
      BY <1>6, <2>2
    <3>2. /\ q \in Pages /\ q # p /\ page2frame[q] = x /\ buffer[x] = Latest(q)
          /\ frame_dirty[x] \/ disk[q] = Latest(q)
      BY <1>5, <3>1
    <3>3. frame_to_page'[x] = q /\ page2frame'[q] = x /\ buffer'[x] = Latest(q)
      BY <1>2, <2>2, <3>1, <3>2
    <3>4. promised'[q] = promised[q] /\ disk'[q] = store[q]
      BY <1>2, <1>3, <3>2
    <3>5. frame_dirty[x] => frame_dirty'[x]
      BY <1>2, <3>1 DEF Room
    <3>6. disk[q] = Latest(q) => store[q] = Latest(q)
      BY <1>4, <3>2
    <3> HIDE DEF q
    <3> QED BY <3>2, <3>3, <3>4, <3>5, <3>6 DEF Latest
  <2> QED BY <2>1, <2>2
<1>9. DiskLatest'
  <2> SUFFICES ASSUME NEW q \in Pages, promised'[q] # Absent, page2frame'[q] = NoFrame
               PROVE  disk'[q] = <<q, promised'[q]>>
    BY DEF DiskLatest, Latest
  <2>1. q # p
    BY <1>1, <1>2
  <2>2. promised'[q] = promised[q] /\ disk'[q] = store[q] /\ promised[q] # Absent
    BY <1>2, <1>3, <2>1
  <2>3. store[q] = Latest(q)
    <3>1. CASE q \in gone
      <4>1. PICK y \in Frames : /\ Used(y) /\ q = frame_to_page[y]
                                /\ frame_dirty[y] => Contains(w, y)
        BY <3>1 DEF Room
      <4>2. frame_dirty[y] \/ disk[q] = Latest(q)
        BY <1>5, <4>1
      <4> QED BY <1>4, <4>1, <4>2
    <3>2. CASE q \notin gone
      <4>1. page2frame[q] = NoFrame
        BY <1>2, <2>1, <3>2
      <4>2. disk[q] = Latest(q)
        BY <2>2, <4>1 DEF SInv, DiskLatest
      <4> QED BY <1>4, <4>2
    <3> QED BY <3>1, <3>2
  <2> QED BY <2>2, <2>3 DEF Latest
<1>10. OneFrame'
  BY <1>1, Mode' = Mode DEF OneFrame
<1> QED BY <1>8, <1>9, <1>10

LEMMA HitLatest ==
  ASSUME SInv, NEW p, NEW v, NEW op, Found(p, v, op), Hit(p, v, op), Mode' = Mode
  PROVE  OneFrame' /\ FramesLatest' /\ DiskLatest'
<1>1. /\ p \in Pages /\ BInv /\ OneFrame /\ op \in {"read", "write"} /\ NoFrame \notin Frames
      /\ UNCHANGED <<page2frame, frame_to_page, disk>>
  BY BufferConstantsOK DEF Found, Hit, SInv
<1>2. PICK f \in Frames : f = page2frame[p]
  BY DEF SInv, BInv, DataTypes, Found
<1>3. Used(f) /\ frame_to_page[f] = p
  BY <1>1, <1>2 DEF BInv, MapPart
<1>4. \A x \in Frames : Used(x)' <=> Used(x)
  BY <1>1, HitLists
<1>5. \A x \in Frames :
        /\ buffer'[x] = IF op = "write" /\ x = f THEN <<p, v>> ELSE buffer[x]
        /\ frame_dirty'[x] = (frame_dirty[x] \/ (op = "write" /\ x = f))
  BY <1>1, <1>2 DEF Hit, BInv, DataTypes
<1>6. \A q \in Pages : promised'[q] = IF op = "write" /\ q = p THEN v ELSE promised[q]
  BY <1>1 DEF Found, BInv, DataTypes
<1>7. FramesLatest'
  <2> SUFFICES ASSUME NEW x \in Frames, Used(x)
               PROVE  LET q == frame_to_page[x] IN
                      /\ page2frame[q] = x
                      /\ buffer'[x] = <<q, promised'[q]>>
                      /\ frame_dirty'[x] \/ disk[q] = <<q, promised'[q]>>
    BY <1>1, <1>4 DEF FramesLatest, Latest
  <2>1. /\ frame_to_page[x] \in Pages /\ page2frame[frame_to_page[x]] = x
        /\ buffer[x] = Latest(frame_to_page[x])
        /\ frame_dirty[x] \/ disk[frame_to_page[x]] = Latest(frame_to_page[x])
    BY DEF SInv, FramesLatest, BInv, FramePart
  <2>2. CASE op = "write" /\ x = f
    BY <1>3, <1>5, <1>6, <2>1, <2>2
  <2>3. CASE ~ (op = "write" /\ x = f)
    <3>1. ~ (op = "write" /\ frame_to_page[x] = p)
      BY <1>2, <2>1, <2>3
    <3> QED BY <1>5, <1>6, <2>1, <2>3, <3>1 DEF Latest
  <2> QED BY <2>2, <2>3
<1>8. DiskLatest'
  <2> SUFFICES ASSUME NEW q \in Pages, promised'[q] # Absent, page2frame[q] = NoFrame
               PROVE  disk[q] = <<q, promised'[q]>>
    BY <1>1 DEF DiskLatest, Latest
  <2>1. q # p
    BY <1>1, <1>2
  <2>2. promised'[q] = promised[q]
    BY <1>6, <2>1
  <2> QED BY <2>2 DEF SInv, DiskLatest, Latest
<1>9. OneFrame'
  BY <1>1, Mode' = Mode DEF OneFrame
<1> QED BY <1>7, <1>8, <1>9

LEMMA CleanLatest ==
  ASSUME SInv, clean_buffer
  PROVE  OneFrame' /\ FramesLatest' /\ DiskLatest' /\ DurableAtClose'
<1>1. /\ UNCHANGED <<Mode, strategy, lrus, free_frames_num, page2frame, frame_to_page,
                     frame_dirty, buffer, cluster_flag, accessH, promised>>
      /\ disk' = Written(DirtyFrames) /\ BInv /\ OneFrame
  BY DEF clean_buffer, SInv
<1>2. Stored(DirtyFrames, disk') /\ \A x \in Frames : Contains(DirtyFrames, x) <=> frame_dirty[x]
  BY <1>1, CleanStores
<1>3. \A x : Used(x)' <=> Used(x)
  BY <1>1 DEF Used, Lru
<1>4. \A x \in Frames : frame_dirty[x] => Used(x)
  <2>1. \A x \in Frames : Contains(strategy.dList, x) => Contains(strategy.lList, x)
    BY <1>1 DEF BInv, ListPart, Lists, ListsBut
  <2> QED BY <1>1, <2>1 DEF BInv, DirtyPart, Used
<1>5. \A q \in Pages :
        \/ disk'[q] = Latest(q)
        \/ /\ disk'[q] = disk[q]
           /\ \A g \in Frames : Contains(DirtyFrames, g) => frame_to_page[g] # q
  BY <1>2, <1>4, StoredLatest DEF SInv
<1>6. \A q \in Pages : promised[q] # Absent => disk'[q] = Latest(q)
  <2> SUFFICES ASSUME NEW q \in Pages, promised[q] # Absent
               PROVE  disk'[q] = Latest(q)
    OBVIOUS
  <2>1. CASE page2frame[q] = NoFrame
    BY <1>5, <2>1 DEF SInv, DiskLatest
  <2>2. CASE page2frame[q] # NoFrame
    <3>1. PICK f \in Frames : f = page2frame[q]
      BY <1>1, <2>2 DEF BInv, DataTypes
    <3>2. Used(f) /\ frame_to_page[f] = q
      BY <1>1, <3>1 DEF BInv, MapPart
    <3>3. frame_dirty[f] \/ disk[q] = Latest(q)
      BY <3>2 DEF SInv, FramesLatest
    <3> QED BY <1>2, <1>5, <3>2, <3>3
  <2> QED BY <2>1, <2>2
<1>7. \A x \in Frames : Used(x) => /\ frame_to_page[x] \in Pages
                                   /\ promised[frame_to_page[x]] # Absent
                                   /\ page2frame[frame_to_page[x]] = x
                                   /\ buffer[x] = Latest(frame_to_page[x])
  BY <1>1 DEF SInv, BInv, FramePart, FramesLatest
<1>8. FramesLatest'
  BY <1>1, <1>3, <1>6, <1>7 DEF FramesLatest, Latest
<1>9. DiskLatest' /\ DurableAtClose'
  BY <1>1, <1>6 DEF DiskLatest, DurableAtClose, Latest
<1> QED BY <1>1, <1>8, <1>9 DEF OneFrame

LEMMA InstallStep ==
  ASSUME BInv, NEW p, NEW v, NEW op, Called(p, v, op),
         Load(p, v, op) \/ LoadLru(p, v, op), Mode' = Mode
  PROVE  \E f, gone, w, vl, store :
           /\ Room(f, gone, w, vl) /\ Stored(w, store)
           /\ Install(f, gone, vl, store, p, v, op)
<1>1. CASE Load(p, v, op)
  <2>1. PICK f, gone, vl : f = LoadFrame /\ gone = LoadGone /\ vl = LoadVictims
    OBVIOUS
  <2>2. Room(f, gone, vl, vl) /\ \E store : /\ Stored(vl, store)
                                            /\ Install(f, gone, vl, store, p, v, op)
    BY <1>1, <2>1, LoadStep DEF Called
  <2> QED BY <2>2
<1>2. CASE LoadLru(p, v, op)
  BY <1>2, LruStep
<1> QED BY <1>1, <1>2

LEMMA NextSInv == SInv /\ [Next]_vars => SInv'
<1> SUFFICES ASSUME SInv, [Next]_vars PROVE SInv'
  OBVIOUS
<1>1. BInv /\ BInv'
  BY NextBInv DEF SInv
<1>2. CASE Next
  <2>1. ASSUME NEW p, NEW v, NEW op, Called(p, v, op), Load(p, v, op) \/ LoadLru(p, v, op),
               Mode' = Mode, closed' = closed, ~ closed
        PROVE  SInv'
    <3>1. \E f, gone, w, vl, store :
            /\ Room(f, gone, w, vl) /\ Stored(w, store)
            /\ Install(f, gone, vl, store, p, v, op)
      BY <1>1, <2>1, InstallStep
    <3>2. OneFrame' /\ FramesLatest' /\ DiskLatest'
      BY <2>1, <3>1, InstallLatest
    <3>3. DurableAtClose'
      BY <2>1 DEF DurableAtClose
    <3> QED BY <1>1, <3>2, <3>3 DEF SInv
  <2>2. ASSUME NEW p, NEW v, NEW op, Found(p, v, op), Hit(p, v, op),
               Mode' = Mode, closed' = closed, ~ closed
        PROVE  SInv'
    <3>1. OneFrame' /\ FramesLatest' /\ DiskLatest'
      BY <2>2, HitLatest
    <3>2. DurableAtClose'
      BY <2>2 DEF DurableAtClose
    <3> QED BY <1>1, <3>1, <3>2 DEF SInv
  <2>3. CASE clean_buffer
    BY <1>1, <2>3, CleanLatest DEF SInv
  <2> QED BY <1>1, <1>2, <2>1, <2>2, <2>3, NextCases
<1>3. CASE UNCHANGED vars
  <2>1. OneFrame' /\ DiskLatest' /\ DurableAtClose'
    BY <1>3 DEF vars, SInv, OneFrame, DiskLatest, DurableAtClose, Latest
  <2>2. FramesLatest'
    BY <1>3 DEF vars, SInv, FramesLatest, Latest, Used, Lru
  <2> QED BY <1>1, <2>1, <2>2 DEF SInv
<1> QED BY <1>2, <1>3

LEMMA CachedLatest ==
  ASSUME SInv, NEW p \in Pages, promised[p] # Absent
  PROVE  Cached(p) = Latest(p)
<1>1. CASE page2frame[p] = NoFrame
  BY <1>1 DEF SInv, DiskLatest, Cached
<1>2. CASE page2frame[p] # NoFrame
  <2>1. PICK f \in Frames : f = page2frame[p]
    BY <1>2 DEF SInv, BInv, DataTypes
  <2>2. Used(f) /\ frame_to_page[f] = p
    BY <2>1 DEF SInv, BInv, MapPart
  <2> QED BY <1>2, <2>1, <2>2 DEF SInv, FramesLatest, Cached
<1> QED BY <1>1, <1>2

LEMMA ServedIsPromised == SInv => Served = promised
<1> SUFFICES ASSUME SInv PROVE Served = promised
  OBVIOUS
<1>1. promised \in [Pages -> Vals \cup {Absent}]
  BY DEF SInv, BInv, DataTypes
<1>2. \A p \in Pages : Served[p] = promised[p]
  BY CachedLatest DEF Served, Latest
<1> QED BY <1>1, <1>2 DEF Served

------------------------------------------------------------------------------
(* The mode is that of the build, so what holds in the modes of OneFrame   *)
(* is part of an invariant of all.                                         *)
ModeInv == BInv /\ (OneFrame => SInv)

LEMMA ModeFixed == [Next]_vars => Mode' = Mode
BY DEF Next, read_page, write_page, fix_new_page, clean_buffer, Access, vars

LEMMA InitModeInv == Init => ModeInv
BY InitBInv, InitSInv DEF ModeInv

LEMMA NextModeInv == ModeInv /\ [Next]_vars => ModeInv'
<1> SUFFICES ASSUME ModeInv, [Next]_vars PROVE ModeInv'
  OBVIOUS
<1>1. BInv'
  BY NextBInv DEF ModeInv
<1>2. OneFrame' => OneFrame
  BY ModeFixed DEF OneFrame
<1>3. OneFrame => SInv'
  BY NextSInv DEF ModeInv
<1> QED BY <1>1, <1>2, <1>3 DEF ModeInv

THEOREM ModeInvHolds == Spec => []ModeInv
BY InitModeInv, NextModeInv, PTL DEF Spec

(* In the modes of OneFrame a page that was inserted is found, in its      *)
(* frame or on the disk, as it was last written.                           *)
THEOREM ReadsTheLatest == Spec => []ReadsLatest
<1>1. ModeInv => ReadsLatest
  BY CachedLatest DEF ModeInv, ReadsLatest, Latest
<1> QED BY <1>1, ModeInvHolds, PTL

(* In those modes the destructor's clean_buffer leaves every page on the   *)
(* disk as it was last written.                                            *)
THEOREM DurableWhenClosed == Spec => []DurableAtClose
<1>1. ModeInv => DurableAtClose
  BY DEF ModeInv, SInv, DurableAtClose
<1> QED BY <1>1, ModeInvHolds, PTL

(* In those modes the buffer manager implements the page store: evictions, *)
(* flushes and the destructor change nothing a reader can see, and a write *)
(* changes the page written only.                                          *)
Shown == IF OneFrame THEN Served ELSE promised

LEMMA ShownIsPromised == ModeInv => Shown = promised
BY ServedIsPromised DEF ModeInv, Shown

THEOREM BufferIsStore == Spec => StoreSpec
<1>1. Init /\ ModeInv => Store!Init
  BY ShownIsPromised DEF Store!Init, Init, Shown
<1>2. ModeInv' => (Shown = promised)'
  BY ShownIsPromised, PTL
<1>3. ModeInv /\ ModeInv' /\ [Next]_vars => [Store!Next]_(Store!storeVars)
  <2> SUFFICES ASSUME ModeInv, ModeInv', [Next]_vars
               PROVE  [Store!Next]_(Store!storeVars)
    OBVIOUS
  <2>1. /\ (IF OneFrame THEN Served ELSE promised) = promised
        /\ (IF OneFrame THEN Served ELSE promised)' = promised'
    BY <1>2, ShownIsPromised DEF Shown
  <2>2. \/ promised' = promised
        \/ \E p \in Pages, v \in Vals : promised' = [promised EXCEPT ![p] = v]
    <3>1. CASE Next
      BY <3>1 DEF Next, read_page, write_page, fix_new_page, clean_buffer
    <3>2. CASE UNCHANGED vars
      BY <3>2 DEF vars
    <3> QED BY <3>1, <3>2
  <2>3. CASE promised' = promised
    BY <2>1, <2>3 DEF Store!storeVars
  <2>4. ASSUME NEW p \in Pages, NEW v \in Vals, promised' = [promised EXCEPT ![p] = v]
        PROVE  Store!Next
    <3>1. promised = [q \in Pages |-> promised[q]]
      BY DEF ModeInv, BInv, DataTypes
    <3> DEFINE g == [q \in {p} |-> v]
    <3>2. g \in [{p} -> Vals] /\ g[p] = v
      OBVIOUS
    <3>3. Store!Put({p}, g)
      BY <2>1, <2>4, <3>1 DEF Store!Put
    <3> HIDE DEF g
    <3>4. CASE promised[p] = Absent
      BY <3>2, <3>3, <3>4 DEF Store!Next, Store!Insert
    <3>5. CASE promised[p] # Absent
      <4>1. {p} \in SUBSET {q \in Pages : promised[q] # Absent}
        BY <3>5
      <4> QED BY <3>2, <3>3, <4>1 DEF Store!Next, Store!Update
    <3> QED BY <3>4, <3>5
  <2> QED BY <2>2, <2>3, <2>4
<1> QED BY <1>1, <1>3, InitModeInv, NextModeInv, PTL DEF Spec, StoreSpec, Store!Spec

------------------------------------------------------------------------------
(***************************************************************************)
(* What no step does.                                                      *)
(***************************************************************************)
LEMMA DirtyCleared ==
  ASSUME BInv, Next, NEW f \in Frames, frame_dirty[f], ~ frame_dirty'[f]
  PROVE  \E g \in Frames : /\ frame_dirty[g] /\ frame_to_page[g] = frame_to_page[f]
                           /\ disk'[frame_to_page[f]] = buffer[g]
<1> DEFINE q == frame_to_page[f]
<1>1. CASE \E p, v, op : /\ Called(p, v, op) /\ (Load(p, v, op) \/ LoadLru(p, v, op))
                         /\ Mode' = Mode
  <2>1. PICK p, v, op : /\ Called(p, v, op) /\ (Load(p, v, op) \/ LoadLru(p, v, op))
                        /\ Mode' = Mode
    BY <1>1
  <2>2. PICK h, gone, w, vl, store :
          /\ Room(h, gone, w, vl) /\ Stored(w, store)
          /\ Install(h, gone, vl, store, p, v, op)
    BY <2>1, InstallStep
  <2>3. Contains(vl, f)
    BY <2>2 DEF Install
  <2>4. Contains(w, f) /\ Used(f)
    BY <2>2, <2>3 DEF Room
  <2>5. q \in Pages /\ promised[q] # Absent
    BY <2>4 DEF BInv, FramePart
  <2>6. PICK g \in Frames : /\ Contains(w, g) /\ frame_to_page[g] = q
                            /\ store[q] = buffer[g]
    BY <2>2, <2>4, <2>5 DEF Stored
  <2>7. frame_dirty[g]
    BY <2>2, <2>6 DEF Room
  <2>8. disk'[q] = store[q]
    <3>1. op = "new" => p # q
      BY <2>1, <2>5 DEF Called
    <3>2. store = [r \in Pages |-> store[r]]
      BY <2>2 DEF Stored
    <3>3. disk' = IF op = "new" THEN [store EXCEPT ![p] = <<p, v>>] ELSE store
      BY <2>2 DEF Install
    <3> QED BY <2>5, <3>1, <3>2, <3>3
  <2> QED BY <2>6, <2>7, <2>8
<1>2. CASE \E p, v, op : Hit(p, v, op)
  <2>1. PICK p, v, op : Hit(p, v, op)
    BY <1>2
  <2> QED BY <2>1 DEF Hit, BInv, DataTypes
<1>3. CASE clean_buffer
  BY <1>3 DEF clean_buffer
<1> QED BY <1>1, <1>2, <1>3, NextCases

(* In every mode, a step of read_page or write_page that takes the dirty   *)
(* mark from a frame has written the frame's page to the disk.             *)
THEOREM FlushesBeforeClean == Spec => FlushedBeforeClean
<1>1. BInv /\ [Next]_vars =>
        [\A f \in Frames : frame_dirty[f] /\ ~ frame_dirty'[f] =>
           \E g \in Frames : /\ frame_dirty[g] /\ frame_to_page[g] = frame_to_page[f]
                             /\ disk'[frame_to_page[f]] = buffer[g]]_vars
  BY DirtyCleared
<1> QED BY <1>1, BInvHolds, PTL DEF Spec, FlushedBeforeClean

LEMMA RegionStays ==
  ASSUME SInv, Next, ~ Lru, NEW p \in Pages,
         page2frame[p] # NoFrame, page2frame[p] \in WorkingRegion
  PROVE  page2frame'[p] = page2frame[p]
<1> DEFINE f == page2frame[p]
<1>1. BInv /\ OneFrame /\ f \in Frames
  BY DEF SInv, BInv, DataTypes
<1>2. Used(f) /\ frame_to_page[f] = p
  BY <1>1 DEF BInv, MapPart
<1>3. ~ Beyond(strategy, f)
  <2>1. strategy.lList \in Seq(Frames) /\ IsInjective(strategy.lList)
    BY <1>1 DEF BInv, ListPart, Lists, ListsBut
  <2>2. PICK i \in DOMAIN strategy.lList : i <= WorkRegSize /\ strategy.lList[i] = f
    BY DEF WorkingRegion
  <2>3. ASSUME NEW j \in WorkRegSize + 1 .. Len(strategy.lList), strategy.lList[j] = f
        PROVE  FALSE
    <3>1. j \in DOMAIN strategy.lList /\ j > WorkRegSize
      BY <2>1, Sizes
    <3>2. i = j
      BY <2>1, <2>2, <2>3, <3>1 DEF IsInjective
    <3> QED BY <2>2, <3>1, <3>2, Sizes
  <2> QED BY <2>3 DEF Beyond
<1>4. CASE \E q, v, op : Called(q, v, op) /\ Load(q, v, op) /\ Mode' = Mode
  <2>1. PICK q, v, op : Called(q, v, op) /\ Load(q, v, op) /\ Mode' = Mode
    BY <1>4
  <2>2. PICK store : Install(LoadFrame, LoadGone, LoadVictims, store, q, v, op)
    BY <1>1, <2>1, LoadStep DEF Called
  <2>3. p # q
    BY <2>1 DEF Called
  <2>4. p \notin LoadGone
    <3>1. SUFFICES ASSUME p \in LoadGone PROVE FALSE
      OBVIOUS
    <3>2. PICK x \in Frames : /\ p = frame_to_page[x] /\ Contains(strategy.lList, x)
                              /\ Beyond(strategy, x)
      BY <1>1, <3>1, LoadFacts, Zenon
    <3>3. x = f
      BY <3>2 DEF SInv, FramesLatest, Used
    <3> QED BY <1>3, <3>2, <3>3
  <2> QED BY <2>2, <2>3, <2>4 DEF Install
<1>5. CASE \E q, v, op : LoadLru(q, v, op)
  BY <1>5 DEF LoadLru
<1>6. CASE \E q, v, op : Hit(q, v, op)
  BY <1>6 DEF Hit
<1>7. CASE clean_buffer
  BY <1>7 DEF clean_buffer
<1> QED BY <1>1, <1>4, <1>5, <1>6, <1>7, NextCases

(* In the modes of OneFrame no call takes away the frame of a page of the  *)
(* working region, the WORK_REG_SIZE frames used last.                     *)
THEOREM WorkingRegionStays == Spec => WorkingRegionKept
<1>1. ModeInv /\ [Next]_vars =>
        [OneFrame /\ ~ Lru =>
           \A p \in Pages : page2frame[p] # NoFrame /\ page2frame[p] \in WorkingRegion
             => page2frame'[p] = page2frame[p]]_vars
  BY RegionStays DEF ModeInv
<1> QED BY <1>1, ModeInvHolds, PTL DEF Spec, WorkingRegionKept
==============================================================================
