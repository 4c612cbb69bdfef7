------------------------------ MODULE MCDbStore ------------------------------
(* Instances of DbStore for TLC: who writes which object.                    *)
EXTENDS DbStore, TLC

\* Threads and objects are alike where everybody writes everything.
Alike == Permutations(Threads) \cup Permutations(Ids)

AllThreads == [id \in Ids |-> Threads]
=============================================================================
