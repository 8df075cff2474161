----------------------------- MODULE CuckooHash -----------------------------
(***************************************************************************)
(* The hash functions of src/libcuckoo/cuckoohash_map.hh for the hash of a *)
(* non-negative int, which is the int itself.  A 64-bit constant only      *)
(* matters modulo the number of buckets: 0xc6a4a7935bd1e995 is 0xe995 for  *)
(* up to 2^16 of them.                                                     *)
(***************************************************************************)
EXTENDS Integers, Bitwise

hashsize(hp) == 2 ^ hp
hashmask(hp) == hashsize(hp) - 1

Byte(hash, i) == (hash \div 256 ^ i) % 256

(* The bytes of the hash folded together; a hash below 2^31 has four.      *)
partial_key(hash) ==
  (Byte(hash, 0) ^^ Byte(hash, 1)) ^^ (Byte(hash, 2) ^^ Byte(hash, 3))

index_hash(hp, hash) == hash & hashmask(hp)

(* hp <= 16 keeps the product of the tag in TLC's integers.                *)
alt_index(hp, partial, index) ==
  (index ^^ (((partial + 1) * 59797) % hashsize(hp))) & hashmask(hp)

alt_index_of_key(hp, hash, index) == alt_index(hp, partial_key(hash), index)
=============================================================================
