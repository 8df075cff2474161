------------------------------ MODULE AtomicMap ------------------------------
(***************************************************************************)
(* What the users of libcuckoo::cuckoohash_map are promised: each insert,  *)
(* erase or find takes effect at one moment between its call and its       *)
(* return.  An insert does not overwrite, and it alone may throw, when the *)
(* table would have to grow while almost empty; it then changes nothing.   *)
(***************************************************************************)
CONSTANTS Threads, Keys, Vals, Absent

VARIABLES
  contents,   \* the value of each key, or Absent
  request,    \* the last call of each thread
  answer      \* what it returned, or "pending"

vars == <<contents, request, answer>>

Requests ==
  [op : {"insert"}, k : Keys, v : Vals] \cup [op : {"erase", "find"}, k : Keys]

Init ==
  /\ contents \in [Keys -> Vals \cup {Absent}]
  /\ request = [t \in Threads |-> [op |-> "none"]]
  /\ answer = [t \in Threads |-> "none"]

Call(t, r) ==
  /\ answer[t] # "pending"
  /\ request' = [request EXCEPT ![t] = r]
  /\ answer' = [answer EXCEPT ![t] = "pending"]
  /\ UNCHANGED contents

(* The one moment of t's call: the contents become c, the answer is a.     *)
Takes(t, c, a) ==
  /\ contents' = c
  /\ answer' = [answer EXCEPT ![t] = a]
  /\ UNCHANGED request

Insert(t, k, v) ==
  IF contents[k] = Absent
  THEN Takes(t, [contents EXCEPT ![k] = v], "inserted")
  ELSE Takes(t, contents, "duplicate")

InsertThrows(t) == Takes(t, contents, "load_factor_too_low")

Erase(t, k) ==
  Takes(t, [contents EXCEPT ![k] = Absent],
        IF contents[k] = Absent THEN "missing" ELSE "erased")

Find(t, k) == Takes(t, contents, contents[k])

Next ==
  \E t \in Threads :
    \/ \E r \in Requests : Call(t, r)
    \/ /\ answer[t] = "pending"
       /\ LET r == request[t]
          IN  \/ r.op = "insert" /\ (Insert(t, r.k, r.v) \/ InsertThrows(t))
              \/ r.op = "erase" /\ Erase(t, r.k)
              \/ r.op = "find" /\ Find(t, r.k)

Spec == Init /\ [][Next]_vars
=============================================================================
