----------------------------- MODULE MCDbShard ------------------------------
(***************************************************************************)
(* Administration on small instances.  part picks the machine a behaviour  *)
(* is about: shards on two devices whose names have the same checksum, or  *)
(* the backups, restores and purges of two objects.                        *)
(***************************************************************************)
EXTENDS DbShard, DbAdmin, TLC

VARIABLE part

MCCrc(d, n) == IF n = 1 THEN 1 ELSE d

\* Devices, writers and objects are interchangeable.  A behaviour is about devices or
\* about the others, so that two at a time are exchanged, which is half the work.
Swap(S, T) == {p @@ q : p \in Permutations(S) \ {[x \in S |-> x]}, q \in Permutations(T) \ {[x \in T |-> x]}}

MCSymmetry == Swap(Devices, Writers) \cup Swap(Devices, ObjIds) \cup Swap(Writers, ObjIds)

MCInit == part \in {"shards", "admin"} /\ Init /\ AdminInit

ShardStep == part = "shards" /\ Next /\ UNCHANGED <<adminVars, part>>
AdminStep == part = "admin" /\ AdminNext /\ UNCHANGED <<shardVars, part>>

MCNext == ShardStep \/ AdminStep

MCSpec == MCInit /\ [][MCNext]_<<shardVars, adminVars, part>>
=============================================================================
