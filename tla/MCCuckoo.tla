------------------------------ MODULE MCCuckoo ------------------------------
EXTENDS CuckooMap, CuckooHash, TLC

CONSTANTS t1, t2

MCMaxCalls == t1 :> 2 @@ t2 :> 1

(* The hash functions tabulated, so that TLC computes them once.           *)
MaxHp == 6
IndexTable == [n \in 0 .. MaxHp, k \in Keys |-> index_hash(n, k)]
AltTable ==
  [n \in 0 .. MaxHp, k \in Keys, i \in 0 .. 2 ^ MaxHp - 1 |-> alt_index_of_key(n, k, i)]
MCIndexOf(n, k) == IndexTable[n, k]
MCAltOf(n, k, i) == AltTable[n, k, i]

(* Three full buckets that a path of three leads out of, and two that only *)
(* doubling relieves: of their keys two go up together.                    *)
MCPreloads ==
  {<<0, 0>> :> 0 @@ <<0, 1>> :> 8 @@ <<5, 0>> :> 5 @@ <<5, 1>> :> 13
     @@ <<3, 0>> :> 3 @@ <<3, 1>> :> 11,
   <<0, 0>> :> 24 @@ <<0, 1>> :> 8 @@ <<5, 0>> :> 16 @@ <<5, 1>> :> 0}

MCWorkload ==
  {[op |-> "insert", k |-> k, v |-> v] : k \in {16, 32}, v \in Vals}
    \cup [op : {"erase"}, k : {0}] \cup [op : {"find"}, k : {8}]
=============================================================================
