-------------------------------- MODULE ZALP --------------------------------
(***************************************************************************)
(* The replacement policies of src/src/zalp.cpp, as functions on the lists *)
(* they keep.  A list has its most recently used frame first.  The maps    *)
(* lMap, cMap and dMap hold an iterator for each element of a list, so     *)
(* looking a frame up in a map is looking for it in the list.              *)
(***************************************************************************)
EXTENDS Naturals, Sequences, FiniteSets, SequencesExt

CONSTANTS DefBufSize,    \* DEF_BUF_SIZE: the number of frames
          WorkRegSize    \* WORK_REG_SIZE: the frames that are not flushed

ASSUME RegionsOK == /\ WorkRegSize \in Nat \ {0}
                    /\ DefBufSize \in Nat /\ WorkRegSize < DefBufSize

Frames == 0 .. DefBufSize - 1

(* The frames beyond the working region, flushed together.                 *)
Batch == DefBufSize - WorkRegSize

(***************************************************************************)
(* ZALP: every frame in use is in lList, and in cList or dList as it is    *)
(* clean or dirty; fList has the frames that hold no page.                 *)
(***************************************************************************)
Start == [lList |-> <<>>, cList |-> <<>>, dList |-> <<>>,
          fList |-> [i \in 1 .. DefBufSize |-> i - 1]]

Place(l, f) == SelectInSeq(l, LAMBDA x : x = f)

(* The elements of l that are in S, in the order they have in l; Rank      *)
(* counts the positions of K up to i.                                      *)
Rank(K, i) == Cardinality({j \in K : j <= i})
Only(l, S) ==
  LET K == {i \in DOMAIN l : l[i] \in S}
  IN [k \in 1 .. Cardinality(K) |-> l[CHOOSE i \in K : Rank(K, i) = k]]

Without(l, S) == Only(l, ToSet(l) \ S)

(* Mutant: the distance is compared with the whole buffer.                 *)
IsEvictAlways(s) == s.fList = <<>> /\ Len(s.lList) > WorkRegSize

(* Flush when no frame is free and no clean frame lies beyond the working  *)
(* region.  With an empty cList the code looks up cList->back(), which is  *)
(* not in cMap whatever it is.                                             *)
is_evict(s) ==
  /\ s.fList = <<>>
  /\ Len(s.lList) > WorkRegSize
  /\ Len(s.cList) <= WorkRegSize
  /\ s.cList # <<>> => Place(s.lList, Last(s.cList)) - 1 < WorkRegSize

get_candidate(s) ==
  SubSeq(s.dList, Len(s.dList) - Batch + 1, Len(s.dList))

(* Mutant: the dirty frame used last.                                      *)
CandidateFirst(s) == <<Head(s.dList)>>

get_candidate_cflru(s) == <<Last(s.dList)>>

(* get_frame: a free frame, or else the least recently used clean one.     *)
IsFree(s)  == s.fList # <<>>
FrameOf(s) == IF IsFree(s) THEN Last(s.fList) ELSE Last(s.cList)

get_frame(s) ==
  IF IsFree(s)
  THEN [s EXCEPT !.fList = Front(@)]
  ELSE [s EXCEPT !.cList = Front(@), !.lList = Without(@, {FrameOf(s)})]

(* Mutant: a dirty frame is put back among the clean ones.                 *)
PushAsClean(s, f, is_dirty) ==
  [s EXCEPT !.lList = Cons(f, @), !.cList = Cons(f, @)]

push(s, f, is_dirty) ==
  IF is_dirty
  THEN [s EXCEPT !.lList = Cons(f, @), !.dList = Cons(f, @)]
  ELSE [s EXCEPT !.lList = Cons(f, @), !.cList = Cons(f, @)]

update(s, f, is_dirty) ==
  push(IF Contains(s.cList, f)
       THEN [s EXCEPT !.lList = Without(@, {f}), !.cList = Without(@, {f})]
       ELSE [s EXCEPT !.lList = Without(@, {f}), !.dList = Without(@, {f})],
       f, is_dirty)

(* Mutant: the frame is left in the clean list.                            *)
SetDirtyKeepsClean(s, f) ==
  [s EXCEPT !.dList = IF Contains(@, f) THEN @ ELSE Cons(f, @)]

set_dirty(s, f) ==
  [s EXCEPT !.dList = IF Contains(@, f) THEN @ ELSE Cons(f, @),
            !.cList = Without(@, {f})]

(* Flushed frames either stay in use, now clean and least recently used... *)
dirty_to_clean(s, vl) ==
  [s EXCEPT !.dList = Without(@, ToSet(vl)), !.cList = @ \o vl]

(* ... or are free again.                                                  *)
update_dirty(s, vl) ==
  [s EXCEPT !.dList = Without(@, ToSet(vl)), !.lList = Without(@, ToSet(vl)),
            !.fList = @ \o vl]

(* The assertions of is_correct: lList is a merge of cList and dList.      *)
is_correct(s) ==
  /\ Len(s.lList) = Len(s.cList) + Len(s.dList)
  /\ s.cList = Only(s.lList, ToSet(s.cList))
  /\ s.dList = Only(s.lList, ToSet(s.dList))

(***************************************************************************)
(* LRU: one list.                                                          *)
(***************************************************************************)
get_victim(l) == Last(l)
lru_push(l, f) == Cons(f, l)

(* Mutant: the frame stays at its old place as well.                       *)
LruUpdateWithoutErase(l, f) == lru_push(l, f)

lru_update(l, f) == lru_push(Without(l, {f}), f)
==============================================================================
