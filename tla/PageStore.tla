------------------------------ MODULE PageStore ------------------------------
(***************************************************************************)
(* What the buffer and the zone controller promise together: a store of    *)
(* pages in which a page, once inserted, always reads back the contents of *)
(* its latest write.  promised is what the clients wrote, served is what a *)
(* read would return now.  Background work (garbage collection, eviction,  *)
(* relocation) is invisible: it may not change served.                     *)
(***************************************************************************)
CONSTANTS Pages,   \* the page ids of the workload
          Vals,    \* the contents a page can be given
          Absent   \* stands for a page that was never inserted

VARIABLES promised, served

storeVars == <<promised, served>>

TypeOK == /\ promised \in [Pages -> Vals \cup {Absent}]
          /\ served   \in [Pages -> Vals \cup {Absent}]

Init == /\ promised = [p \in Pages |-> Absent]
        /\ served   = [p \in Pages |-> Absent]

(* The store takes new contents for the pages W at once.                   *)
Put(W, f) == /\ promised' = [p \in Pages |-> IF p \in W THEN f[p]
                                                        ELSE promised[p]]
             /\ served' = promised'

(* Instruction::execute, INSERT: a page the store has not seen.            *)
Insert == \E p \in Pages : /\ promised[p] = Absent
                           /\ \E f \in [{p} -> Vals] : Put({p}, f)

(* UPDATE, or a cluster of updates: pages the store holds.                 *)
Update == \E W \in SUBSET {p \in Pages : promised[p] # Absent} :
             \E f \in [W -> Vals] : Put(W, f)

Next == Insert \/ Update

Spec == Init /\ [][Next]_storeVars
==============================================================================
