--------------------------- MODULE DbEngine_proofs ---------------------------
(***************************************************************************)
(* Proofs about the storage engines.                                       *)
(*                                                                         *)
(* DbSeq, for any number of threads, any page size and any sequence of     *)
(* kills and power failures: the values of a sequence whose page end is    *)
(* stored directly are unique.                                             *)
(*                                                                         *)
(* DbSandwich, for any shards, clients and number of transactions: a power *)
(* failure never leaves the main shard ahead of a transaction's parts in   *)
(* the media shards, and no commit slips past the lazy updater.  The       *)
(* invariant says where a transaction under way already is: in the logs of *)
(* the shards its commit is done with, and in the main shard's only when   *)
(* nothing is left to do.                                                  *)
(*                                                                         *)
(* DbBerkeley, for any threads, amounts and keys: what is written since    *)
(* the last checkpoint stays bounded, because the bytes not yet counted,   *)
(* the counted and those counted while a checkpoint finished make it up;   *)
(* and a compaction reaches all that stayed, because the windows behind it *)
(* did.                                                                    *)
(*                                                                         *)
(* DbEngineLife, for any number of processes: what a process holds follows *)
(* from its place in the lists of open() and close(), which are ordered so *)
(* that each stage comes after what it needs and goes before it.           *)
(*                                                                         *)
(* DbEngineData, for any objects, key size and values: what a transaction  *)
(* charges is what the main shard grows by.  A shard's size is a sum over  *)
(* its entries, of which an operation changes one, or a deletion of an     *)
(* index those that are counted with it.                                   *)
(*                                                                         *)
(* DbLevel, for any keys and prefixes and any number of operations: a      *)
(* walk over a transaction that goes on writing returns all that stays,    *)
(* none of it twice.  The iterator has one position in the snapshot and    *)
(* one in the pending puts; the invariant says that neither has passed an  *)
(* entry the other has still to come to.                                   *)
(***************************************************************************)
EXTENDS DbSeq, DbLevel, DbSandwich, DbBerkeley, DbEngineLife, DbEngineData, NatSetTheorems, SequenceTheorems, TLAPS

\* The sandwich and leveldb engines.
Direct == StoreInTxn = FALSE

IndInv == TypeOK /\ SeqInv

\* The invariant holds at the start.
LEMMA InitInv == Init => IndInv
<1> SUFFICES ASSUME Init PROVE IndInv
  OBVIOUS
<1> USE DEF Init
<1>1. TypeOK
  <2>1. 0 \in Values /\ 0 \in 0..MaxNext
    BY PageAssumption, BoundAssumption DEF Values
  <2>2. disk \in Contents /\ unsynced \in SUBSET Contents
    BY <2>1 DEF Contents
  <2> QED BY <2>1, <2>2 DEF TypeOK
<1>2. UniqueValues /\ PageCovers
  BY DEF UniqueValues, PageCovers, Taken
<1>3. DiskCovered /\ IdleHoldsNothing
  BY DEF DiskCovered, Covered, IdleHoldsNothing
<1> QED BY <1>1, <1>2, <1>3 DEF IndInv, SeqInv

\* Every step keeps the types.
LEMMA TypeKeeps == ASSUME TypeOK, [Next]_vars PROVE TypeOK'
<1> USE PageAssumption, BoundAssumption DEF TypeOK, Values, Contents
<1>1. CASE Open \/ Close \/ Kill \/ Sync \/ UNCHANGED vars
  BY <1>1 DEF Open, Close, Kill, Die, Sync, Write, vars, threadVars
<1>2. CASE PowerFailure
  BY <1>2 DEF PowerFailure, Die
<1>3. ASSUME NEW t \in Threads, Begin(t) \/ Fetch(t) \/ StoreFails(t) \/ Abort(t)
      PROVE  TypeOK'
  BY <1>3 DEF Begin, Fetch, StoreFails, Abort, Leave
<1>4. ASSUME NEW t \in Threads, Check(t) PROVE TypeOK'
  BY <1>4 DEF Check, Give
<1>5. ASSUME NEW t \in Threads, Allocate(t) PROVE TypeOK'
  BY <1>5 DEF Allocate, Store, Give, Write
<1>6. ASSUME NEW t \in Threads, Commit(t) PROVE TypeOK'
  BY <1>6 DEF Commit, Leave, Write
<1> QED BY <1>1, <1>2, <1>3, <1>4, <1>5, <1>6 DEF Next

\* Opening, closing, syncing and dying keep the invariant: a disk that a
\* power failure leaves behind covers its records, so the next incarnation
\* starts above them.
LEMMA LifeKeeps ==
  ASSUME IndInv, Open \/ Close \/ Kill \/ PowerFailure \/ Sync PROVE SeqInv'
<1> USE DEF IndInv, TypeOK, SeqInv
<1>1. CASE Open
  <2>1. \A t \in Threads : pc[t] = "idle" /\ held[t] = {}
    BY <1>1 DEF Open, IdleHoldsNothing
  <2>2. \A t \in Threads : Taken(t) = {} /\ Taken(t)' = {}
    BY <1>1, <2>1 DEF Open, Taken, threadVars
  <2>3. UniqueValues' /\ IdleHoldsNothing'
    BY <1>1, <2>1, <2>2 DEF Open, UniqueValues, IdleHoldsNothing, threadVars
  <2>4. DiskCovered'
    BY <1>1 DEF Open, DiskCovered, Covered
  <2>5. PageCovers'
    BY <1>1, <2>1, <2>2 DEF Open, PageCovers, DiskCovered, Covered, threadVars
  <2> QED BY <2>3, <2>4, <2>5
<1>2. CASE Close
  <2>1. \A t \in Threads : pc[t] = "idle" /\ held[t] = {}
    BY <1>2 DEF Close, IdleHoldsNothing
  <2>2. \A t \in Threads : Taken(t) = {} /\ Taken(t)' = {}
    BY <1>2, <2>1 DEF Close, Taken, threadVars
  <2>3. UniqueValues' /\ IdleHoldsNothing'
    BY <1>2, <2>1, <2>2 DEF Close, UniqueValues, IdleHoldsNothing, threadVars
  <2>4. disk'.stored = next /\ disk'.used = disk.used /\ unsynced' = unsynced \cup {disk'}
    BY <1>2 DEF Close, Write, Contents
  <2>5. DiskCovered'
    BY <1>2, <2>4 DEF Close, DiskCovered, Covered, PageCovers
  <2>6. PageCovers'
    BY <1>2, <2>1, <2>2 DEF Close, PageCovers, threadVars
  <2> QED BY <2>3, <2>5, <2>6
<1>3. CASE Kill \/ PowerFailure
  <2>1. Die /\ (disk' \in unsynced) /\ (\A d \in unsynced' : d \in unsynced) /\ disk' \in unsynced'
    BY <1>3 DEF Kill, PowerFailure, DiskCovered
  <2>2. \A t \in Threads : Taken(t)' = {} /\ pc'[t] = "idle" /\ held'[t] = {}
    BY <2>1 DEF Die, Taken
  <2> QED BY <2>1, <2>2
          DEF Die, UniqueValues, DiskCovered, Covered, PageCovers, IdleHoldsNothing
<1>4. CASE Sync
  <2>1. \A t \in Threads : Taken(t)' = Taken(t)
    BY <1>4 DEF Sync, threadVars, Taken
  <2> QED BY <1>4, <2>1 DEF Sync, threadVars, UniqueValues, DiskCovered, Covered, PageCovers,
                            IdleHoldsNothing
<1> QED BY <1>1, <1>2, <1>3, <1>4

\* A step that gives thread t values it had taken, or drops them, takes no
\* new ones.
LEMMA FewerTaken ==
  ASSUME IndInv, NEW t \in Threads, Taken(t)' \subseteq Taken(t),
         \A u \in Threads \ {t} : Taken(u)' = Taken(u),
         disk'.used \subseteq disk.used \cup (Taken(t) \ Taken(t)')
  PROVE  UniqueValues'
<1> SUFFICES ASSUME NEW u \in Threads, NEW v \in Threads
             PROVE  (u # v => Taken(u)' \cap Taken(v)' = {}) /\ Taken(u)' \cap disk'.used = {}
  BY DEF UniqueValues
<1>1. Taken(u)' \subseteq Taken(u) /\ Taken(v)' \subseteq Taken(v)
  OBVIOUS
<1>2. UniqueValues
  BY DEF IndInv, SeqInv
<1> QED BY <1>1, <1>2 DEF UniqueValues

\* What the transactions hold after thread t is given its value.
LEMMA GiveHeld ==
  ASSUME held \in [Threads -> SUBSET Values], NEW t \in Threads,
         held' = [held EXCEPT ![t] = @ \cup {val[t]}], NEW u \in Threads, NEW v \in held'[u]
  PROVE  v \in held[u] \/ v = val[t]
<1>1. CASE u = t
  BY <1>1
<1>2. CASE u # t
  BY <1>2
<1> QED BY <1>1, <1>2

\* Taking the next value, being given it and losing it keep the invariant.
LEMMA GetKeeps ==
  ASSUME IndInv, Direct, NEW t \in Threads,
         Begin(t) \/ Fetch(t) \/ Check(t) \/ Allocate(t) \/ StoreFails(t)
  PROVE  SeqInv'
<1> USE DEF IndInv, TypeOK, SeqInv
<1>1. CASE Begin(t)
  <2>1. \A u \in Threads : Taken(u)' = Taken(u)
    BY <1>1 DEF Begin, Taken
  <2> QED BY <1>1, <2>1 DEF Begin, UniqueValues, DiskCovered, Covered, PageCovers, IdleHoldsNothing
<1>2. CASE Fetch(t)
  <2>1. Taken(t)' = Taken(t) \cup {next} /\ \A u \in Threads \ {t} : Taken(u)' = Taken(u)
    BY <1>2 DEF Fetch, Taken
  <2>2. next \notin disk.used /\ \A u \in Threads : next \notin Taken(u)
    BY <1>2 DEF Fetch, PageCovers, Values
  <2>3. UniqueValues'
    <3> SUFFICES ASSUME NEW u \in Threads, NEW v \in Threads
                 PROVE  (u # v => Taken(u)' \cap Taken(v)' = {}) /\ Taken(u)' \cap disk'.used = {}
      BY DEF UniqueValues
    <3>1. disk' = disk
      BY <1>2 DEF Fetch
    <3> QED BY <2>1, <2>2, <3>1 DEF UniqueValues
  <2>4. DiskCovered' /\ IdleHoldsNothing'
    BY <1>2 DEF Fetch, DiskCovered, Covered, IdleHoldsNothing
  <2>5. PageCovers'
    <3>1. \A u \in Threads : \A v \in Taken(u)' : v < next'
      BY <1>2, <2>1 DEF Fetch, PageCovers, Values, Taken
    <3>2. \A v \in disk.used : v \in Nat
      BY DEF Values, Contents
    <3>3. isOpen => \A v \in disk'.used : v < next'
      BY <1>2, <3>2 DEF Fetch, PageCovers, Values
    <3>4. UNCHANGED <<allocated, held, isOpen, disk>>
      BY <1>2 DEF Fetch
    <3>5. isOpen => allocated' = disk'.stored
      BY <3>4 DEF PageCovers
    <3>6. \A u \in Threads : \A v \in held'[u] : v < allocated'
      BY <3>4 DEF PageCovers
    <3> QED BY <3>1, <3>3, <3>4, <3>5, <3>6 DEF PageCovers
  <2> QED BY <2>3, <2>4, <2>5
<1>3. CASE StoreFails(t)
  <2>1. Taken(t)' \subseteq Taken(t) /\ \A u \in Threads \ {t} : Taken(u)' = Taken(u)
    BY <1>3 DEF StoreFails, Taken
  <2>2. UniqueValues'
    BY <1>3, <2>1, FewerTaken DEF StoreFails
  <2> QED BY <1>3, <2>1, <2>2
          DEF StoreFails, DiskCovered, Covered, PageCovers, IdleHoldsNothing
<1>4. CASE Check(t)
  <2>1. Taken(t)' = Taken(t) /\ \A u \in Threads \ {t} : Taken(u)' = Taken(u)
    BY <1>4 DEF Check, Give, Taken
  <2>2. UniqueValues'
    BY <1>4, <2>1, FewerTaken DEF Check
  <2>3. \A u \in Threads : \A v \in held'[u] : v < allocated
    <3>1. held' = held \/ (val[t] < allocated /\ held' = [held EXCEPT ![t] = @ \cup {val[t]}])
      BY <1>4 DEF Check, Give, Values
    <3>2. \A u \in Threads : \A v \in held[u] : v < allocated
      BY DEF PageCovers
    <3>3. CASE val[t] < allocated /\ held' = [held EXCEPT ![t] = @ \cup {val[t]}]
      BY <3>2, <3>3, GiveHeld
    <3> QED BY <3>1, <3>2, <3>3
  <2>4. PageCovers'
    BY <1>4, <2>1, <2>3 DEF Check, PageCovers
  <2>5. DiskCovered' /\ IdleHoldsNothing'
    BY <1>4 DEF Check, Give, DiskCovered, Covered, IdleHoldsNothing
  <2> QED BY <2>2, <2>4, <2>5
<1>5. CASE Allocate(t)
  <2>1. Taken(t)' = Taken(t) /\ \A u \in Threads \ {t} : Taken(u)' = Taken(u)
    BY <1>5 DEF Allocate, Store, Give, Taken
  <2>2. isOpen /\ isOpen' /\ allocated = disk.stored /\ next' = next
    BY <1>5 DEF Allocate, Store, IdleHoldsNothing, PageCovers
  <2>3. /\ disk'.used = disk.used /\ disk'.stored = allocated' /\ unsynced' = unsynced \cup {disk'}
        /\ allocated' >= allocated /\ val[t] < allocated'
    <3>1. CASE val[t] < allocated
      <4>1. UNCHANGED <<allocated, disk, unsynced>>
        BY <1>5, <3>1 DEF Allocate, Store, Values
      <4> QED BY <2>2, <3>1, <4>1 DEF DiskCovered, Values
    <3>2. CASE ~(val[t] < allocated)
      <4>1. allocated' = val[t] + Page /\ Write([disk EXCEPT !.stored = val[t] + Page])
        BY <1>5, <3>2 DEF Allocate, Store, Direct
      <4> QED BY <3>2, <4>1, PageAssumption, BoundAssumption DEF Write, Values, Contents
    <3> QED BY <3>1, <3>2
  <2>4. UniqueValues'
    BY <2>1, <2>3, FewerTaken
  <2>5. \A u \in Threads : \A v \in held'[u] : v < allocated'
    <3> SUFFICES ASSUME NEW u \in Threads, NEW v \in held'[u] PROVE v < allocated'
      OBVIOUS
    <3>1. v \in held[u] \/ v = val[t]
      <4>1. held' = [held EXCEPT ![t] = @ \cup {val[t]}]
        BY <1>5 DEF Allocate, Store, Give
      <4> QED BY <4>1, GiveHeld
    <3>2. v \in held[u] => v < allocated /\ v \in Nat
      BY DEF PageCovers, Values
    <3>3. allocated \in Nat /\ allocated' \in Nat
      BY <1>5, PageAssumption, BoundAssumption DEF Allocate, Store, Values
    <3> QED BY <2>3, <3>1, <3>2, <3>3
  <2>6. PageCovers'
    BY <2>1, <2>2, <2>3, <2>5 DEF PageCovers
  <2>7. DiskCovered'
    <3>1. Covered(disk')
      <4>1. \A v \in disk.used : v < allocated /\ v \in Nat
        BY <2>2 DEF DiskCovered, Covered, Contents, Values
      <4>2. allocated \in Nat /\ allocated' \in Nat
        BY <1>5, PageAssumption, BoundAssumption DEF Allocate, Store, Values
      <4> QED BY <2>3, <4>1, <4>2 DEF Covered
    <3> QED BY <2>3, <3>1 DEF DiskCovered, Covered
  <2>8. IdleHoldsNothing'
    BY <1>5 DEF Allocate, Store, Give, Direct, IdleHoldsNothing
  <2> QED BY <2>4, <2>6, <2>7, <2>8
<1> QED BY <1>1, <1>2, <1>3, <1>4, <1>5

\* Committing makes the given values the disk's, which its page covers.
LEMMA EndKeeps == ASSUME IndInv, NEW t \in Threads, Commit(t) \/ Abort(t) PROVE SeqInv'
<1> USE DEF IndInv, TypeOK, SeqInv
<1>1. Taken(t)' = {} /\ Taken(t) = held[t] /\ \A u \in Threads \ {t} : Taken(u)' = Taken(u)
  BY DEF Commit, Abort, Leave, Taken
<1>2. disk'.stored = disk.stored
      /\ disk'.used \in {disk.used, disk.used \cup held[t]}
      /\ disk' \in unsynced' /\ unsynced' \subseteq unsynced \cup {disk'}
  <2>1. CASE Commit(t)
    <3>1. pending[t] = NoValue
      BY DEF IdleHoldsNothing
    <3>2. disk' = [stored |-> disk.stored, used |-> disk.used \cup held[t]]
          /\ unsynced' = unsynced \cup {disk'}
      BY <2>1, <3>1 DEF Commit, Write
    <3> QED BY <3>2
  <2>2. CASE Abort(t)
    BY <2>2 DEF Abort, DiskCovered
  <2> QED BY <2>1, <2>2
<1>3. isOpen /\ allocated = disk.stored
  BY DEF Commit, Abort, IdleHoldsNothing, PageCovers
<1>4. UniqueValues'
  BY <1>1, <1>2, FewerTaken
<1>5. Covered(disk')
  <2>1. Covered(disk) /\ \A v \in held[t] : v < disk.stored
    BY <1>3 DEF DiskCovered, PageCovers
  <2>2. \A v \in disk'.used : v < disk.stored
    BY <1>2, <2>1 DEF Covered
  <2> QED BY <1>2, <2>2 DEF Covered
<1>6. DiskCovered'
  BY <1>2, <1>5 DEF DiskCovered, Covered
<1>7. PageCovers'
  <2>1. UNCHANGED <<next, allocated, isOpen>>
    BY DEF Commit, Abort, Leave
  <2>2. \A v \in disk'.used : v < next
    BY <1>1, <1>2, <1>3 DEF PageCovers
  <2>3. \A u \in Threads : held'[u] \subseteq held[u]
    BY DEF Commit, Abort, Leave
  <2> QED BY <1>1, <1>2, <1>3, <2>1, <2>2, <2>3 DEF PageCovers
<1>8. IdleHoldsNothing'
  BY <1>3 DEF Commit, Abort, Leave, IdleHoldsNothing
<1> QED BY <1>4, <1>6, <1>7, <1>8

\* SeqInv holds in every reachable state of the directly stored sequence.
THEOREM SeqInvariance == ASSUME Direct PROVE Spec => [](TypeOK /\ SeqInv)
<1>1. Init => IndInv
  BY InitInv
<1>2. IndInv /\ [Next]_vars => IndInv'
  <2> SUFFICES ASSUME IndInv, [Next]_vars PROVE IndInv'
    OBVIOUS
  <2>1. TypeOK'
    BY TypeKeeps DEF IndInv
  <2>2. SeqInv'
    <3>1. CASE UNCHANGED vars
      BY <3>1 DEF vars, IndInv, SeqInv, UniqueValues, DiskCovered, Covered, PageCovers,
                  IdleHoldsNothing, Taken
    <3>2. CASE Next
      BY <3>2, LifeKeeps, GetKeeps, EndKeeps DEF Next
    <3> QED BY <3>1, <3>2
  <2> QED BY <2>1, <2>2 DEF IndInv
<1> QED BY <1>1, <1>2, PTL DEF Spec, IndInv

\* No value of a sequence is ever given to two transactions or carried by two
\* committed records, across kills and power failures.
THEOREM UniqueValuesAlways == ASSUME Direct PROVE Spec => []UniqueValues
<1>1. SeqInv => UniqueValues
  BY DEF SeqInv
<1> QED BY <1>1, SeqInvariance, PTL

\* store() never throws "Stored and cached seq are different".
THEOREM CachedIsStoredAlways == ASSUME Direct PROVE Spec => []CachedIsStored
<1>1. SeqInv => CachedIsStored
  BY DEF SeqInv, CachedIsStored, PageCovers, IdleHoldsNothing
<1> QED BY <1>1, SeqInvariance, PTL

\* A clean close leaves the next value on disk, and nothing changes it before
\* the sequence is opened again: whoever writes has a transaction, and those are
\* over when it closes.
THEOREM CleanCloseResumesAlways == ASSUME Direct PROVE Spec => []CleanCloseResumes
<1>1. Init => CleanCloseResumes
  BY DEF Init, CleanCloseResumes
<1>2. TypeOK /\ SeqInv /\ CleanCloseResumes /\ [Next]_vars => CleanCloseResumes'
  <2> SUFFICES ASSUME TypeOK, SeqInv, CleanCloseResumes, [Next]_vars PROVE CleanCloseResumes'
    OBVIOUS
  <2> USE DEF CleanCloseResumes
  <2>1. CASE Open \/ Close \/ Kill \/ PowerFailure \/ Sync \/ UNCHANGED vars
    BY <2>1 DEF Open, Close, Kill, PowerFailure, Die, Sync, Write, vars, TypeOK, Contents
  <2>2. ASSUME NEW t \in Threads,
               Begin(t) \/ Fetch(t) \/ Check(t) \/ Allocate(t) \/ StoreFails(t) \/ Commit(t) \/ Abort(t)
        PROVE  isOpen /\ isOpen' = isOpen
    BY <2>2 DEF SeqInv, IdleHoldsNothing, Begin, Fetch, Check, Allocate, StoreFails, Commit, Abort, Leave
  <2> QED BY <2>1, <2>2 DEF Next
<1> QED BY <1>1, <1>2, SeqInvariance, PTL DEF Spec

\* The contract of a sequence whose page end is stored directly.
THEOREM SequenceExactAlways == ASSUME Direct PROVE Spec => []SequenceExact
BY UniqueValuesAlways, CachedIsStoredAlways, CleanCloseResumesAlways, PTL DEF SequenceExact

-----------------------------------------------------------------------------
(* DbSandwich *)

TxnRec ==
  [pc : {"idle", "active", "commit"}, id : 0..MaxTxns, held : SUBSET Shards, parts : SUBSET Shards,
   todo : SUBSET Shards, failed : SUBSET Shards]

OutcomeRec == [result : {"none", "ok", "error"}, parts : SUBSET Shards, failed : SUBSET Shards]

UpdaterRec == [running : BOOLEAN, stop : BOOLEAN, todo : BOOLEAN]

LogTypes ==
  /\ log \in [Shards -> Seq(Txns)] /\ synced \in [Shards -> Nat]
  /\ \A s \in Shards : synced[s] <= Len(log[s])

SandwichTypes ==
  /\ mode \in {"sync", "lazy"} /\ opened \in BOOLEAN /\ mounted \in SUBSET Shards
  /\ LogTypes
  /\ txn \in [Clients -> TxnRec] /\ outcome \in [Txns -> OutcomeRec]
  /\ event \in {"absent", "clear", "set"} /\ updater \in UpdaterRec /\ count \in 0..MaxTxns

\* With synced writes a log is durable as a whole; and nothing is in it that was not
\* begun.
LogInv ==
  \A s \in Shards : /\ mode = "sync" => synced[s] = Len(log[s])
                    /\ \A n \in Txns : In(log[s], n) => n <= count

\* A transaction under way has no outcome yet.  Before its commit it is in no log;
\* in the commit it is in the logs of the shards that are done, the main shard's last.
OwnInv(c) ==
  txn[c].pc # "idle" =>
    /\ opened /\ txn[c].id \in 1..count /\ outcome[txn[c].id].result = "none"
    /\ txn[c].pc = "active" => \A s \in Shards : ~In(log[s], txn[c].id)
    /\ txn[c].pc = "commit" =>
         /\ \A s \in txn[c].parts \ (txn[c].todo \cup txn[c].failed) : In(log[s], txn[c].id)
         /\ In(log[Main], txn[c].id) => txn[c].todo = {}

Distinct == \A c, d \in Clients : c # d /\ txn[c].pc # "idle" /\ txn[d].pc # "idle" => txn[c].id # txn[d].id

\* A transaction with an outcome is in the log of each shard that did not fail.
OutcomeInv ==
  \A n \in Txns : /\ n > count => outcome[n].result = "none"
                  /\ outcome[n].result = "ok" => outcome[n].failed = {}
                  /\ mode = "sync" /\ outcome[n].result # "none" =>
                       \A s \in outcome[n].parts \ outcome[n].failed : In(log[s], n)

SandwichInv ==
  /\ SandwichTypes /\ LogInv /\ (\A c \in Clients : OwnInv(c)) /\ Distinct /\ OutcomeInv
  /\ NoLostEvent /\ ClosedIsSynced

-----------------------------------------------------------------------------
(* Logs *)

\* The members of an extended log.
LEMMA InAppend ==
  ASSUME NEW S, NEW l \in Seq(S), NEW n \in S, NEW m
  PROVE  In(Append(l, n), m) <=> In(l, m) \/ m = n
<1>1. /\ Len(l) \in Nat /\ DOMAIN l = 1 .. Len(l) /\ DOMAIN Append(l, n) = 1 .. Len(l) + 1
      /\ \A i \in 1 .. Len(l) : Append(l, n)[i] = l[i]
      /\ Append(l, n)[Len(l) + 1] = n
  OBVIOUS
<1> DEFINE a == Append(l, n)
<1> HIDE DEF a
<1>2. ASSUME In(l, m) PROVE In(a, m)
  BY <1>1, <1>2 DEF In, a
<1>3. In(a, n)
  <2>1. Len(l) + 1 \in DOMAIN a
    BY <1>1 DEF a
  <2> QED BY <1>1, <2>1 DEF In, a
<1>4. ASSUME In(a, m), m # n PROVE In(l, m)
  <2>1. PICK i \in DOMAIN a : a[i] = m
    BY <1>4 DEF In
  <2>2. i \in 1 .. Len(l)
    BY <1>1, <1>4, <2>1 DEF a
  <2> QED BY <1>1, <2>1, <2>2 DEF In, a
<1> QED BY <1>2, <1>3, <1>4 DEF a

\* What is durable is in the log, all of it when the log is synced.
LEMMA DurableIn ==
  ASSUME LogTypes, NEW s \in Shards
  PROVE  /\ \A n : In(Durable(s), n) => In(log[s], n)
         /\ synced[s] = Len(log[s]) => Durable(s) = log[s]
<1>1. /\ log[s] \in Seq(Txns) /\ synced[s] \in Nat /\ synced[s] <= Len(log[s]) /\ Len(log[s]) \in Nat
      /\ DOMAIN log[s] = 1 .. Len(log[s])
  BY DEF LogTypes
<1>2. DOMAIN Durable(s) = 1 .. synced[s] /\ \A i \in 1 .. synced[s] : Durable(s)[i] = log[s][i]
  BY <1>1 DEF Durable
<1>3. Durable(s) \in Seq(Txns) /\ Len(Durable(s)) = synced[s]
  BY <1>1 DEF Durable
<1>4. synced[s] = Len(log[s]) => Durable(s) = log[s]
  BY <1>1, <1>2, <1>3
<1> QED BY <1>1, <1>2, <1>4 DEF In

\* A step changes the transaction of one client.
LEMMA TxnSet ==
  ASSUME txn \in [Clients -> TxnRec], NEW c \in Clients, NEW x \in TxnRec, txn' = [txn EXCEPT ![c] = x]
  PROVE  txn' \in [Clients -> TxnRec] /\ txn'[c] = x /\ \A d \in Clients \ {c} : txn'[d] = txn[d]
OBVIOUS

\* The types of the fields of a transaction.
LEMMA TxnFields ==
  ASSUME SandwichTypes, NEW c \in Clients
  PROVE  /\ txn[c] \in TxnRec /\ txn[c].id \in 0..MaxTxns /\ txn[c].parts \in SUBSET Shards
         /\ txn[c].todo \in SUBSET Shards /\ txn[c].failed \in SUBSET Shards /\ txn[c].held \in SUBSET Shards
         /\ count \in Nat /\ count <= MaxTxns /\ MaxTxns \in Nat /\ Main \in Shards
         /\ txn[c].pc \in {"idle", "active", "commit"}
<1>1. txn[c] \in TxnRec
  BY DEF SandwichTypes
<1>2. count \in Nat /\ count <= MaxTxns /\ MaxTxns \in Nat
  BY MaxTxnsAssumption DEF SandwichTypes, MaxTxnsAssumption
<1> QED BY <1>1, <1>2 DEF TxnRec, Shards

\* A client without a transaction.
LEMMA NoTxnType == NoTxn \in TxnRec /\ NoTxn.pc = "idle"
  BY MaxTxnsAssumption DEF MaxTxnsAssumption, NoTxn, TxnRec

\* A transaction that nothing happened to.
LEMMA OwnKeeps ==
  ASSUME SandwichTypes, NEW d \in Clients, OwnInv(d), txn'[d] = txn[d], opened' = opened, count' \in Nat, count <= count',
         txn[d].pc # "idle" => /\ outcome'[txn[d].id] = outcome[txn[d].id]
                               /\ \A s \in Shards : In(log'[s], txn[d].id) <=> In(log[s], txn[d].id)
  PROVE  OwnInv(d)'
<1>1. txn[d].parts \in SUBSET Shards /\ Main \in Shards /\ count \in Nat
  BY TxnFields
<1> QED BY <1>1 DEF OwnInv

\* A step that leaves logs and outcomes alone, with the event and the updater.
Quiet == UNCHANGED <<mode, log, synced, outcome, opened, event, updater>>

\* A step that leaves the logs alone and moves no part of a transaction keeps the invariant.
LEMMA QuietKeeps ==
  ASSUME SandwichInv, Quiet, count' \in Nat, count <= count'
  PROVE  LogTypes' /\ LogInv' /\ OutcomeInv' /\ NoLostEvent' /\ ClosedIsSynced'
<1>1. count \in Nat /\ \A n \in Txns : n \in Nat
  BY MaxTxnsAssumption DEF SandwichInv, SandwichTypes, Txns, MaxTxnsAssumption
<1>2. LogTypes' /\ LogInv'
  BY <1>1 DEF SandwichInv, SandwichTypes, LogTypes, LogInv, Quiet
<1>3. OutcomeInv'
  BY <1>1 DEF SandwichInv, OutcomeInv, Quiet
<1>4. NoLostEvent' /\ ClosedIsSynced'
  BY DEF SandwichInv, NoLostEvent, ClosedIsSynced, Quiet, Durable, LazySync
<1> QED BY <1>2, <1>3, <1>4

\* The transaction of c ends or goes on under its number.
LEMMA QuietTxn ==
  ASSUME SandwichInv, Quiet, UNCHANGED count, mounted' \in SUBSET Shards, NEW c \in Clients, NEW x \in TxnRec,
         txn' = [txn EXCEPT ![c] = x], x.pc # "idle" => txn[c].pc # "idle" /\ x.id = txn[c].id, OwnInv(c)'
  PROVE  SandwichInv'
<1>1. SandwichTypes /\ count \in Nat
  BY TxnFields DEF SandwichInv
<1>2. txn' \in [Clients -> TxnRec] /\ txn'[c] = x /\ \A d \in Clients \ {c} : txn'[d] = txn[d]
  BY <1>1, TxnSet DEF SandwichTypes
<1>3. LogTypes' /\ LogInv' /\ OutcomeInv' /\ NoLostEvent' /\ ClosedIsSynced'
  BY <1>1, QuietKeeps
<1>4. SandwichTypes'
  BY <1>1, <1>2, <1>3 DEF SandwichTypes, Quiet
<1>5. ASSUME NEW d \in Clients \ {c} PROVE OwnInv(d)'
  BY <1>1, <1>2, OwnKeeps DEF Quiet, SandwichInv
<1>6. Distinct'
  BY <1>2 DEF SandwichInv, Distinct
<1> QED BY <1>3, <1>4, <1>5, <1>6 DEF SandwichInv

-----------------------------------------------------------------------------
(* Transactions *)

\* Begin keeps the invariant.
LEMMA BeginKeeps == ASSUME SandwichInv, NEW c \in Clients, BeginTxn(c) PROVE SandwichInv'
<1>1. SandwichTypes /\ count \in Nat /\ MaxTxns \in Nat /\ count < MaxTxns /\ count' = count + 1 /\ opened
  BY TxnFields DEF SandwichInv, BeginTxn
<1> DEFINE x == [NoTxn EXCEPT !.pc = "active", !.id = count + 1, !.held = mounted \cup {Main}]
<1>2. x \in TxnRec /\ x.pc = "active" /\ x.id = count + 1
  <2>1. count + 1 \in 0..MaxTxns /\ mounted \cup {Main} \in SUBSET Shards
    BY <1>1 DEF SandwichTypes, Shards
  <2>2. NoTxn \in TxnRec
    BY NoTxnType
  <2> QED BY <2>1, <2>2 DEF TxnRec
<1>3. txn' = [txn EXCEPT ![c] = x]
  BY DEF BeginTxn
<1> HIDE DEF x
<1>4. txn' \in [Clients -> TxnRec] /\ txn'[c] = x /\ \A d \in Clients \ {c} : txn'[d] = txn[d]
  BY <1>1, <1>2, <1>3, TxnSet DEF SandwichTypes
<1>5. Quiet /\ mounted' = mounted
  BY DEF BeginTxn, Quiet
<1>6. LogTypes' /\ LogInv' /\ OutcomeInv' /\ NoLostEvent' /\ ClosedIsSynced'
  BY <1>1, <1>5, QuietKeeps
<1>7. SandwichTypes'
  BY <1>1, <1>4, <1>5, <1>6 DEF SandwichTypes, Quiet
<1>8. ASSUME NEW d \in Clients \ {c} PROVE OwnInv(d)'
  BY <1>1, <1>4, <1>5, OwnKeeps DEF Quiet, SandwichInv
<1>9. count + 1 \in Txns
  BY <1>1 DEF Txns
<1>10. OwnInv(c)'
  <2>1. outcome[count + 1].result = "none" /\ \A s \in Shards : ~In(log[s], count + 1)
    BY <1>1, <1>9 DEF SandwichInv, OutcomeInv, LogInv
  <2> QED BY <1>1, <1>2, <1>4, <1>5, <2>1 DEF OwnInv, Quiet
<1>11. Distinct'
  <2>1. \A d \in Clients : txn[d].pc # "idle" => txn[d].id <= count /\ txn[d].id \in Nat
    BY <1>1 DEF SandwichInv, OwnInv
  <2> QED BY <1>1, <1>2, <1>4, <2>1 DEF SandwichInv, Distinct
<1> QED BY <1>6, <1>7, <1>8, <1>10, <1>11 DEF SandwichInv

\* Abort keeps the invariant.
LEMMA AbortKeeps == ASSUME SandwichInv, NEW c \in Clients, AbortTxn(c) PROVE SandwichInv'
<1>1. txn' = [txn EXCEPT ![c] = NoTxn] /\ Quiet /\ UNCHANGED <<count, mounted>>
  BY DEF AbortTxn, Quiet
<1>2. mounted' \in SUBSET Shards /\ txn \in [Clients -> TxnRec]
  BY <1>1 DEF SandwichInv, SandwichTypes
<1>3. OwnInv(c)'
  BY <1>1, <1>2, NoTxnType DEF OwnInv
<1> QED BY <1>1, <1>2, <1>3, NoTxnType, QuietTxn

\* Use keeps the invariant.
LEMMA UseKeeps == ASSUME SandwichInv, NEW c \in Clients, NEW s \in Shards, Use(c, s) PROVE SandwichInv'
<1>1. SandwichTypes /\ txn[c].pc = "active" /\ txn[c] \in TxnRec /\ OwnInv(c)
  BY TxnFields DEF SandwichInv, Use
<1>2. Quiet /\ UNCHANGED <<count, mounted>> /\ mounted' \in SUBSET Shards
  BY <1>1 DEF Use, Quiet, SandwichTypes
<1>3. CASE s \in txn[c].held
  <2> DEFINE x == [txn[c] EXCEPT !.parts = @ \cup {s}]
  <2>1. txn' = [txn EXCEPT ![c] = x]
    BY <1>3 DEF Use
  <2>2. x \in TxnRec /\ x.pc = "active" /\ x.id = txn[c].id
    BY <1>1 DEF TxnRec
  <2> HIDE DEF x
  <2>3. txn'[c] = x
    BY <1>1, <2>1, <2>2, TxnSet DEF SandwichTypes
  <2>4. OwnInv(c)'
    BY <1>1, <1>2, <2>2, <2>3 DEF OwnInv, Quiet
  <2> QED BY <1>1, <1>2, <2>1, <2>2, <2>4, QuietTxn
<1>4. CASE s \notin txn[c].held
  <2>1. txn' = [txn EXCEPT ![c] = NoTxn]
    BY <1>4 DEF Use
  <2>2. OwnInv(c)'
    BY <1>1, <2>1, NoTxnType DEF OwnInv, SandwichTypes
  <2> QED BY <1>2, <2>1, <2>2, NoTxnType, QuietTxn
<1> QED BY <1>3, <1>4

\* StartCommit keeps the invariant.
LEMMA StartCommitKeeps == ASSUME SandwichInv, NEW c \in Clients, StartCommit(c) PROVE SandwichInv'
<1>1. SandwichTypes /\ txn[c].pc = "active" /\ txn[c] \in TxnRec /\ OwnInv(c) /\ Main \in Shards
  BY TxnFields DEF SandwichInv, StartCommit
<1>2. Quiet /\ UNCHANGED <<count, mounted>> /\ mounted' \in SUBSET Shards
  BY <1>1 DEF StartCommit, Quiet, SandwichTypes
<1> DEFINE x == [txn[c] EXCEPT !.pc = "commit", !.todo = txn[c].parts]
<1>3. txn' = [txn EXCEPT ![c] = x]
  BY <1>1 DEF StartCommit, SandwichTypes
<1>4. x \in TxnRec /\ x.pc = "commit" /\ x.id = txn[c].id /\ x.todo = txn[c].parts /\ x.parts = txn[c].parts
  BY <1>1 DEF TxnRec
<1> HIDE DEF x
<1>5. txn'[c] = x
  BY <1>1, <1>3, <1>4, TxnSet DEF SandwichTypes
<1>6. OwnInv(c)'
  BY <1>1, <1>2, <1>4, <1>5 DEF OwnInv, Quiet
<1> QED BY <1>1, <1>2, <1>3, <1>4, <1>6, QuietTxn

\* A shard's commit fails: it is neither to do nor done.
LEMMA CommitFailsKeeps ==
  ASSUME SandwichInv, NEW c \in Clients, NEW s \in txn[c].todo, txn[c].pc = "commit", CommitFails(c, s),
         UNCHANGED <<mode, opened, mounted, outcome, event, updater, count>>
  PROVE  SandwichInv'
<1>1. SandwichTypes /\ txn[c] \in TxnRec /\ OwnInv(c) /\ Main \in Shards /\ s \in Shards
  BY TxnFields DEF SandwichInv
<1>2. Quiet /\ mounted' \in SUBSET Shards
  BY <1>1 DEF CommitFails, Quiet, SandwichTypes
<1> DEFINE x == [txn[c] EXCEPT !.todo = @ \ {s}, !.failed = @ \cup {s}]
<1>3. txn' = [txn EXCEPT ![c] = x]
  BY <1>1 DEF CommitFails, SandwichTypes
<1>4. /\ x \in TxnRec /\ x.pc = "commit" /\ x.id = txn[c].id /\ x.parts = txn[c].parts
      /\ x.todo = txn[c].todo \ {s} /\ x.failed = txn[c].failed \cup {s}
  BY <1>1 DEF TxnRec
<1> HIDE DEF x
<1>5. txn'[c] = x
  BY <1>1, <1>3, <1>4, TxnSet DEF SandwichTypes
<1>6. OwnInv(c)'
  BY <1>1, <1>2, <1>4, <1>5 DEF OwnInv, Quiet
<1> QED BY <1>2, <1>3, <1>4, <1>6, QuietTxn

\* What a batch does to the logs.
LEMMA WriteBatchEffect ==
  ASSUME SandwichTypes, LogInv, NEW s \in Shards, NEW n \in Txns, n <= count, WriteBatch(s, n),
         UNCHANGED <<mode, count>>
  PROVE  /\ LogTypes' /\ LogInv'
         /\ \A q \in Shards, m \in Txns : In(log'[q], m) <=> In(log[q], m) \/ (q = s /\ m = n)
         /\ mode = "lazy" => \A q \in Shards : Durable(q)' = Durable(q)
<1>1. LogTypes /\ log[s] \in Seq(Txns) /\ synced[s] \in Nat /\ synced[s] <= Len(log[s]) /\ Len(log[s]) \in Nat
  BY DEF SandwichTypes, LogTypes
<1> DEFINE l == Append(log[s], n)
<1>2. l \in Seq(Txns) /\ Len(l) = Len(log[s]) + 1 /\ \A i \in 1 .. Len(log[s]) : l[i] = log[s][i]
  BY <1>1
<1>3. \A m \in Txns : In(l, m) <=> In(log[s], m) \/ m = n
  BY <1>1, InAppend
<1>4. log' = [log EXCEPT ![s] = l]
  BY DEF WriteBatch
<1>5. SubSeq(l, 1, synced[s]) = SubSeq(log[s], 1, synced[s])
  <2>1. /\ SubSeq(l, 1, synced[s]) \in Seq(Txns) /\ SubSeq(log[s], 1, synced[s]) \in Seq(Txns)
        /\ Len(SubSeq(l, 1, synced[s])) = synced[s] /\ Len(SubSeq(log[s], 1, synced[s])) = synced[s]
    BY <1>1, <1>2
  <2>2. \A i \in 1 .. synced[s] : SubSeq(l, 1, synced[s])[i] = SubSeq(log[s], 1, synced[s])[i]
    BY <1>1, <1>2
  <2> HIDE DEF l
  <2> DEFINE a == SubSeq(l, 1, synced[s])
             b == SubSeq(log[s], 1, synced[s])
  <2>3. a \in Seq(Txns) /\ b \in Seq(Txns) /\ Len(a) = Len(b) /\ \A i \in 1 .. Len(a) : a[i] = b[i]
    BY <2>1, <2>2
  <2> HIDE DEF a, b
  <2>4. a = b
    BY <2>3, SeqEqual
  <2> QED BY <2>4 DEF a, b
<1> HIDE DEF l
<1>6. log' \in [Shards -> Seq(Txns)] /\ log'[s] = l /\ \A q \in Shards \ {s} : log'[q] = log[q]
  BY <1>1, <1>2, <1>4 DEF LogTypes
<1>7. /\ synced' \in [Shards -> Nat] /\ \A q \in Shards \ {s} : synced'[q] = synced[q]
      /\ mode = "lazy" => synced' = synced
      /\ mode # "lazy" => synced'[s] = Len(log[s]) + 1
  BY <1>1 DEF WriteBatch, LazySync, LogTypes
<1>8. LogTypes'
  <2>1. synced'[s] <= Len(log'[s])
    BY <1>1, <1>2, <1>6, <1>7
  <2>2. \A q \in Shards \ {s} : synced'[q] <= Len(log'[q])
    BY <1>1, <1>6, <1>7 DEF LogTypes
  <2> QED BY <1>6, <1>7, <2>1, <2>2 DEF LogTypes
<1>9. \A q \in Shards, m \in Txns : In(log'[q], m) <=> In(log[q], m) \/ (q = s /\ m = n)
  BY <1>3, <1>6
<1>10. LogInv'
  <2>1. ASSUME NEW q \in Shards, mode = "sync" PROVE synced'[q] = Len(log'[q])
    BY <1>2, <1>6, <1>7, <2>1 DEF LogInv
  <2>2. ASSUME NEW q \in Shards, NEW m \in Txns, In(log'[q], m) PROVE m <= count'
    BY <1>9, <2>2 DEF LogInv
  <2> QED BY <2>1, <2>2 DEF LogInv
<1>11. ASSUME mode = "lazy", NEW q \in Shards PROVE Durable(q)' = Durable(q)
  BY <1>5, <1>6, <1>7, <1>11 DEF Durable
<1> QED BY <1>8, <1>9, <1>10, <1>11

\* CommitPart keeps the invariant.
LEMMA CommitPartKeeps ==
  ASSUME SandwichInv, NEW c \in Clients, NEW s \in txn[c].todo, s = Main => txn[c].todo = {Main}, txn[c].pc = "commit",
         CommitPart(c, s), UNCHANGED <<mode, opened, mounted, outcome, event, updater, count>>
  PROVE  SandwichInv'
<1>1. /\ SandwichTypes /\ txn[c] \in TxnRec /\ OwnInv(c) /\ Main \in Shards /\ s \in Shards
      /\ count \in Nat /\ count <= MaxTxns /\ MaxTxns \in Nat
  BY TxnFields DEF SandwichInv
<1> DEFINE n == txn[c].id
           x == [txn[c] EXCEPT !.todo = @ \ {s}]
<1>2. n \in Txns /\ n <= count /\ opened /\ outcome[n].result = "none"
  BY <1>1 DEF OwnInv, Txns
<1>3. /\ LogTypes' /\ LogInv'
      /\ \A q \in Shards, m \in Txns : In(log'[q], m) <=> In(log[q], m) \/ (q = s /\ m = n)
      /\ mode = "lazy" => \A q \in Shards : Durable(q)' = Durable(q)
  BY <1>1, <1>2, WriteBatchEffect DEF CommitPart, SandwichInv
<1>4. txn' = [txn EXCEPT ![c] = x]
  BY <1>1 DEF CommitPart, SandwichTypes
<1>5. x \in TxnRec /\ x.pc = "commit" /\ x.id = n /\ x.parts = txn[c].parts /\ x.todo = txn[c].todo \ {s} /\ x.failed = txn[c].failed
  BY <1>1 DEF TxnRec
<1> HIDE DEF x
<1>6. txn' \in [Clients -> TxnRec] /\ txn'[c] = x /\ \A d \in Clients \ {c} : txn'[d] = txn[d]
  BY <1>1, <1>4, <1>5, TxnSet DEF SandwichTypes
<1>7. SandwichTypes'
  BY <1>1, <1>3, <1>6 DEF SandwichTypes
<1>8. ASSUME NEW d \in Clients \ {c} PROVE OwnInv(d)'
  <2>1. OwnInv(d) /\ (txn[d].pc # "idle" => txn[d].id \in Txns /\ txn[d].id # n)
    BY <1>1 DEF SandwichInv, OwnInv, Distinct, Txns
  <2>2. txn[d].pc # "idle" => \A q \in Shards : In(log'[q], txn[d].id) <=> In(log[q], txn[d].id)
    BY <1>3, <2>1
  <2> QED BY <1>1, <1>6, <2>1, <2>2, OwnKeeps
<1>9. OwnInv(c)'
  <2>1. n \in 1..count'
    BY <1>1 DEF OwnInv
  <2>2. ASSUME NEW q \in x.parts \ (x.todo \cup x.failed) PROVE In(log'[q], n)
    <3>1. q \in Shards /\ (q = s \/ q \in txn[c].parts \ (txn[c].todo \cup txn[c].failed))
      BY <1>1, <1>5, <2>2 DEF TxnRec
    <3> QED BY <1>1, <1>2, <1>3, <3>1 DEF OwnInv
  <2>3. In(log'[Main], n) => x.todo = {}
    BY <1>1, <1>2, <1>3, <1>5 DEF OwnInv
  <2> QED BY <1>2, <1>5, <1>6, <2>1, <2>2, <2>3 DEF OwnInv
<1>10. Distinct'
  BY <1>5, <1>6 DEF SandwichInv, Distinct
<1>11. OutcomeInv'
  <2>1. ASSUME NEW m \in Txns, mode = "sync", outcome[m].result # "none",
               NEW q \in outcome[m].parts \ outcome[m].failed
        PROVE  In(log'[q], m)
    <3>1. q \in Shards /\ In(log[q], m)
      BY <1>1, <2>1 DEF SandwichInv, OutcomeInv, SandwichTypes, OutcomeRec
    <3> QED BY <1>3, <3>1
  <2> QED BY <2>1 DEF SandwichInv, OutcomeInv
<1>12. NoLostEvent'
  <2> SUFFICES ASSUME opened, mode = "lazy", NEW m \in Txns, outcome[m].result = "ok", In(log'[Main], m), ~In(Durable(Main)', m)
               PROVE  event = "set" \/ updater.todo
    BY DEF NoLostEvent, LazySync
  <2>1. m # n /\ In(log[Main], m) /\ ~In(Durable(Main), m)
    BY <1>1, <1>2, <1>3
  <2> QED BY <2>1 DEF SandwichInv, NoLostEvent, LazySync
<1>13. ClosedIsSynced'
  BY <1>2 DEF ClosedIsSynced
<1> QED BY <1>3, <1>7, <1>8, <1>9, <1>10, <1>11, <1>12, <1>13 DEF SandwichInv

\* FinishCommit keeps the invariant.
LEMMA FinishCommitKeeps == ASSUME SandwichInv, NEW c \in Clients, FinishCommit(c) PROVE SandwichInv'
<1>1. /\ SandwichTypes /\ txn[c] \in TxnRec /\ OwnInv(c) /\ txn[c].pc = "commit" /\ txn[c].todo = {}
      /\ count \in Nat /\ count <= MaxTxns /\ MaxTxns \in Nat
  BY TxnFields DEF SandwichInv, FinishCommit
<1> DEFINE n == txn[c].id
           o == [result |-> IF txn[c].failed = {} THEN "ok" ELSE "error", parts |-> txn[c].parts, failed |-> txn[c].failed]
<1>2. n \in Txns /\ n <= count /\ opened
  BY <1>1 DEF OwnInv, Txns
<1>3. /\ o \in OutcomeRec /\ o.parts = txn[c].parts /\ o.failed = txn[c].failed
      /\ (o.result = "ok" <=> txn[c].failed = {})
  BY <1>1 DEF OutcomeRec, TxnRec
<1>4. outcome' = [outcome EXCEPT ![n] = o] /\ txn' = [txn EXCEPT ![c] = NoTxn]
  BY DEF FinishCommit
<1> HIDE DEF o
<1>5. outcome' \in [Txns -> OutcomeRec] /\ outcome'[n] = o /\ \A m \in Txns \ {n} : outcome'[m] = outcome[m]
  BY <1>1, <1>2, <1>3, <1>4 DEF SandwichTypes
<1>6. txn' \in [Clients -> TxnRec] /\ txn'[c] = NoTxn /\ \A d \in Clients \ {c} : txn'[d] = txn[d]
  BY <1>1, <1>4, NoTxnType, TxnSet DEF SandwichTypes
<1>7. UNCHANGED <<mode, opened, mounted, log, synced, updater, count>>
  BY DEF FinishCommit
<1>8. event' \in {event, "set"} /\ (mode = "lazy" /\ txn[c].failed = {} => event' = "set")
  BY DEF FinishCommit, LazySync, SendEvent
<1>9. LogTypes' /\ LogInv'
  BY <1>1, <1>7 DEF SandwichInv, SandwichTypes, LogTypes, LogInv
<1>10. SandwichTypes'
  BY <1>1, <1>5, <1>6, <1>7, <1>8, <1>9 DEF SandwichTypes
<1>11. ASSUME NEW d \in Clients \ {c} PROVE OwnInv(d)'
  <2>1. OwnInv(d) /\ (txn[d].pc # "idle" => txn[d].id \in Txns /\ txn[d].id # n)
    BY <1>1 DEF SandwichInv, OwnInv, Distinct, Txns
  <2> QED BY <1>1, <1>5, <1>6, <1>7, <2>1, OwnKeeps
<1>12. OwnInv(c)' /\ Distinct'
  BY <1>6, NoTxnType DEF SandwichInv, OwnInv, Distinct
<1>13. OutcomeInv'
  <2>1. ASSUME NEW m \in Txns, m > count PROVE outcome'[m].result = "none"
    <3>1. m # n
      BY <1>1, <1>2, <2>1 DEF Txns
    <3> QED BY <1>5, <2>1, <3>1 DEF SandwichInv, OutcomeInv
  <2>2. ASSUME NEW m \in Txns, outcome'[m].result = "ok" PROVE outcome'[m].failed = {}
    BY <1>3, <1>5, <2>2 DEF SandwichInv, OutcomeInv
  <2>3. ASSUME NEW m \in Txns, mode = "sync", outcome'[m].result # "none", NEW q \in outcome'[m].parts \ outcome'[m].failed
        PROVE  In(log[q], m)
    <3>1. CASE m = n
      <4>1. q \in txn[c].parts \ (txn[c].todo \cup txn[c].failed)
        BY <1>1, <1>3, <1>5, <2>3, <3>1
      <4> QED BY <1>1, <3>1, <4>1 DEF OwnInv
    <3>2. CASE m # n
      BY <1>5, <2>3, <3>2 DEF SandwichInv, OutcomeInv
    <3> QED BY <3>1, <3>2
  <2> QED BY <1>7, <2>1, <2>2, <2>3 DEF OutcomeInv
<1>14. NoLostEvent'
  <2> SUFFICES ASSUME opened, mode = "lazy", NEW m \in Txns, outcome'[m].result = "ok", In(log[Main], m), ~In(Durable(Main), m),
                      event' # "set"
               PROVE  updater.todo
    BY <1>7 DEF NoLostEvent, LazySync, Durable
  <2>1. m # n /\ event # "set"
    BY <1>3, <1>5, <1>8
  <2> QED BY <1>5, <2>1 DEF SandwichInv, NoLostEvent, LazySync
<1>15. ClosedIsSynced'
  BY <1>2, <1>7 DEF ClosedIsSynced
<1> QED BY <1>9, <1>10, <1>11, <1>12, <1>13, <1>14, <1>15 DEF SandwichInv

-----------------------------------------------------------------------------
(* Shards, the updater, the engine *)

\* A step that leaves the transactions and what they wrote alone.
LEMMA TxnsRest ==
  ASSUME SandwichInv, UNCHANGED <<mode, log, txn, outcome, count, opened>>
  PROVE  (\A c \in Clients : OwnInv(c)') /\ Distinct' /\ OutcomeInv'
<1>1. \A c \in Clients : OwnInv(c)'
  BY DEF SandwichInv, OwnInv
<1> QED BY <1>1 DEF SandwichInv, Distinct, OutcomeInv

\* Mount keeps the invariant.
LEMMA MountKeeps == ASSUME SandwichInv, NEW s \in Media, MountShard(s) \/ UnMountShard(s) PROVE SandwichInv'
<1>1. Quiet /\ UNCHANGED <<txn, count>> /\ mounted' \in SUBSET Shards /\ count \in Nat
  BY MaxTxnsAssumption DEF MountShard, UnMountShard, Quiet, SandwichInv, SandwichTypes, Shards, MaxTxnsAssumption
<1>2. LogTypes' /\ LogInv' /\ OutcomeInv' /\ NoLostEvent' /\ ClosedIsSynced'
  BY <1>1, QuietKeeps
<1>3. SandwichTypes'
  BY <1>1, <1>2 DEF SandwichInv, SandwichTypes, Quiet
<1> QED BY <1>1, <1>2, <1>3, TxnsRest DEF SandwichInv, Quiet

\* SyncCopy keeps the invariant.
LEMMA SyncCopyKeeps == ASSUME SandwichInv, SyncCopy PROVE SandwichInv'
<1>1. UNCHANGED <<mode, opened, mounted, log, synced, txn, outcome, count>> /\ event' = "clear" /\ updater' = [updater EXCEPT !.todo = TRUE]
  BY DEF SyncCopy
<1>2. updater' \in UpdaterRec /\ updater'.todo
  BY <1>1 DEF SandwichInv, SandwichTypes, UpdaterRec
<1>3. LogTypes' /\ LogInv' /\ ClosedIsSynced'
  BY <1>1 DEF SandwichInv, SandwichTypes, LogTypes, LogInv, ClosedIsSynced
<1>4. SandwichTypes'
  BY <1>1, <1>2, <1>3 DEF SandwichInv, SandwichTypes
<1>5. NoLostEvent'
  BY <1>2 DEF NoLostEvent
<1> QED BY <1>1, <1>3, <1>4, <1>5, TxnsRest DEF SandwichInv

\* ThreadEnds keeps the invariant.
LEMMA ThreadEndsKeeps == ASSUME SandwichInv, ThreadEnds PROVE SandwichInv'
<1>1. UNCHANGED <<mode, opened, mounted, log, synced, txn, outcome, event, count>> /\ updater' = [updater EXCEPT !.running = FALSE]
  BY DEF ThreadEnds
<1>2. updater' \in UpdaterRec /\ updater'.todo = updater.todo
  BY <1>1 DEF SandwichInv, SandwichTypes, UpdaterRec
<1>3. LogTypes' /\ LogInv' /\ ClosedIsSynced'
  BY <1>1 DEF SandwichInv, SandwichTypes, LogTypes, LogInv, ClosedIsSynced
<1>4. SandwichTypes'
  BY <1>1, <1>2, <1>3 DEF SandwichInv, SandwichTypes
<1>5. NoLostEvent'
  BY <1>1, <1>2 DEF SandwichInv, NoLostEvent, LazySync, Durable
<1> QED BY <1>1, <1>3, <1>4, <1>5, TxnsRest DEF SandwichInv

\* A synced write makes the log of the main shard durable.
LEMMA OneSyncEffect ==
  ASSUME SandwichInv, OneSync, UNCHANGED <<mode, log, count>>
  PROVE  /\ LogTypes' /\ LogInv' /\ synced'[Main] = Len(log[Main])
         /\ Durable(Main)' = log[Main]
<1>1. SandwichTypes /\ LogTypes /\ Main \in Shards /\ Len(log[Main]) \in Nat
  BY DEF SandwichInv, SandwichTypes, Shards, LogTypes
<1>2. synced' \in [Shards -> Nat] /\ synced'[Main] = Len(log[Main]) /\ \A s \in Shards \ {Main} : synced'[s] = synced[s]
  BY <1>1 DEF OneSync, LogTypes
<1>3. LogTypes'
  <2>1. synced'[Main] <= Len(log[Main])
    BY <1>1, <1>2
  <2> QED BY <1>1, <1>2, <2>1 DEF LogTypes
<1>4. LogInv'
  BY <1>1, <1>2 DEF SandwichInv, LogInv
<1>5. Durable(Main)' = SubSeq(log[Main], 1, Len(log[Main]))
  BY <1>2 DEF Durable
<1>6. SubSeq(log[Main], 1, Len(log[Main])) = log[Main]
  BY <1>1 DEF LogTypes
<1> QED BY <1>2, <1>3, <1>4, <1>5, <1>6

\* SyncOne keeps the invariant.
LEMMA SyncOneKeeps == ASSUME SandwichInv, SyncOne PROVE SandwichInv'
<1>1. UNCHANGED <<mode, opened, mounted, log, txn, outcome, event, count>> /\ updater' = [updater EXCEPT !.todo = FALSE] /\ OneSync
  BY DEF SyncOne
<1>2. updater' \in UpdaterRec
  BY <1>1 DEF SandwichInv, SandwichTypes, UpdaterRec
<1>3. LogTypes' /\ LogInv' /\ synced'[Main] = Len(log[Main]) /\ Durable(Main)' = log[Main]
  BY <1>1, OneSyncEffect
<1>4. SandwichTypes'
  BY <1>1, <1>2, <1>3 DEF SandwichInv, SandwichTypes
<1>5. NoLostEvent' /\ ClosedIsSynced'
  BY <1>1, <1>3 DEF NoLostEvent, ClosedIsSynced
<1> QED BY <1>1, <1>3, <1>4, <1>5, TxnsRest DEF SandwichInv

\* Open keeps the invariant.
LEMMA OpenKeeps == ASSUME SandwichInv, OpenEngine PROVE SandwichInv'
<1>1. UNCHANGED <<mode, mounted, log, synced, txn, outcome, count>> /\ ~opened /\ opened' = TRUE /\ event' = "clear"
  BY DEF OpenEngine
<1>2. updater' \in UpdaterRec
  BY DEF OpenEngine, SandwichInv, SandwichTypes, UpdaterRec, NoThread
<1>3. LogTypes' /\ LogInv'
  BY <1>1 DEF SandwichInv, SandwichTypes, LogTypes, LogInv
<1>4. SandwichTypes'
  BY <1>1, <1>2, <1>3 DEF SandwichInv, SandwichTypes
<1>5. Durable(Main)' = log[Main]
  <2>1. LogTypes /\ synced[Main] = Len(log[Main]) /\ Main \in Shards
    BY <1>1 DEF SandwichInv, SandwichTypes, ClosedIsSynced, Shards
  <2>2. Durable(Main) = log[Main]
    BY <2>1, DurableIn
  <2> QED BY <1>1, <2>2 DEF Durable
<1>6. NoLostEvent' /\ ClosedIsSynced'
  BY <1>1, <1>5 DEF NoLostEvent, ClosedIsSynced
<1>7. (\A c \in Clients : OwnInv(c)') /\ Distinct' /\ OutcomeInv'
  <2>1. \A c \in Clients : OwnInv(c)'
    BY <1>1 DEF SandwichInv, OwnInv
  <2> QED BY <1>1, <2>1 DEF SandwichInv, Distinct, OutcomeInv
<1> QED BY <1>3, <1>4, <1>6, <1>7 DEF SandwichInv

\* Close keeps the invariant.
LEMMA CloseKeeps == ASSUME SandwichInv, CloseEngine PROVE SandwichInv'
<1>1. /\ UNCHANGED <<mode, log, txn, outcome, count>> /\ OneSync
      /\ opened' = FALSE /\ mounted' = {} /\ event' = "absent" /\ \A c \in Clients : txn[c].pc = "idle"
  BY DEF CloseEngine
<1>2. updater' \in UpdaterRec
  BY DEF CloseEngine, SandwichInv, SandwichTypes, UpdaterRec
<1>3. LogTypes' /\ LogInv' /\ synced'[Main] = Len(log[Main])
  BY <1>1, OneSyncEffect
<1>4. SandwichTypes'
  BY <1>1, <1>2, <1>3 DEF SandwichInv, SandwichTypes
<1>5. NoLostEvent' /\ ClosedIsSynced'
  BY <1>1, <1>3 DEF NoLostEvent, ClosedIsSynced
<1>6. (\A c \in Clients : OwnInv(c)') /\ Distinct' /\ OutcomeInv'
  BY <1>1 DEF SandwichInv, OwnInv, Distinct, OutcomeInv
<1> QED BY <1>3, <1>4, <1>5, <1>6 DEF SandwichInv

\* Crash keeps the invariant.
LEMMA CrashKeeps == ASSUME SandwichInv, Crash PROVE SandwichInv'
<1>1. PICK n \in [Shards -> 0..MaxTxns] :
        /\ \A s \in Shards : n[s] \in synced[s]..Len(log[s])
        /\ log' = [s \in Shards |-> SubSeq(log[s], 1, n[s])] /\ synced' = n
  BY DEF Crash
<1>2. /\ opened' = FALSE /\ mounted' = {} /\ event' = "absent" /\ UNCHANGED <<mode, outcome, count>>
      /\ txn' = [c \in Clients |-> NoTxn] /\ updater' = NoThread
  BY DEF Crash
<1>3. SandwichTypes /\ Main \in Shards
  BY DEF SandwichInv, Shards
<1>4. ASSUME NEW s \in Shards
      PROVE  /\ log'[s] \in Seq(Txns) /\ synced'[s] \in Nat /\ Len(log'[s]) = synced'[s]
             /\ mode = "sync" => log'[s] = log[s]
             /\ \A m : In(log'[s], m) => In(log[s], m)
  <2>1. /\ log[s] \in Seq(Txns) /\ synced[s] \in Nat /\ synced[s] <= Len(log[s]) /\ Len(log[s]) \in Nat
        /\ DOMAIN log[s] = 1 .. Len(log[s])
    BY <1>3 DEF SandwichTypes, LogTypes
  <2>2. n[s] \in Nat /\ n[s] >= synced[s] /\ n[s] <= Len(log[s]) /\ log'[s] = SubSeq(log[s], 1, n[s]) /\ synced'[s] = n[s]
    BY <1>1, <2>1
  <2>3. /\ log'[s] \in Seq(Txns) /\ Len(log'[s]) = n[s] /\ DOMAIN log'[s] = 1 .. n[s]
        /\ \A i \in 1 .. n[s] : log'[s][i] = log[s][i]
    BY <2>1, <2>2
  <2>4. mode = "sync" => log'[s] = log[s]
    <3>1. mode = "sync" => n[s] = Len(log[s])
      BY <2>1, <2>2 DEF SandwichInv, LogInv
    <3>2. SubSeq(log[s], 1, Len(log[s])) = log[s]
      BY <2>1
    <3> QED BY <2>2, <3>1, <3>2
  <2>5. \A m : In(log'[s], m) => In(log[s], m)
    BY <2>1, <2>2, <2>3 DEF In
  <2> QED BY <2>2, <2>3, <2>4, <2>5
<1>5. log' \in [Shards -> Seq(Txns)] /\ synced' \in [Shards -> Nat]
  <2>1. DOMAIN log' = Shards /\ DOMAIN synced' = Shards /\ log' = [s \in Shards |-> log'[s]] /\ synced' = [s \in Shards |-> synced'[s]]
    BY <1>1
  <2> QED BY <1>4, <2>1
<1>6. LogTypes'
  BY <1>4, <1>5 DEF LogTypes
<1>7. LogInv'
  BY <1>2, <1>4 DEF SandwichInv, LogInv
<1>8. SandwichTypes'
  BY <1>2, <1>3, <1>6, NoTxnType DEF SandwichTypes, NoThread, UpdaterRec
<1>9. OutcomeInv'
  <2>1. ASSUME NEW m \in Txns, mode = "sync", outcome[m].result # "none", NEW s \in outcome[m].parts \ outcome[m].failed
        PROVE  In(log'[s], m)
    <3>1. s \in Shards /\ In(log[s], m)
      BY <1>3, <2>1 DEF SandwichInv, OutcomeInv, SandwichTypes, OutcomeRec
    <3> QED BY <1>4, <2>1, <3>1
  <2> QED BY <1>2, <2>1 DEF SandwichInv, OutcomeInv
<1>10. (\A c \in Clients : OwnInv(c)') /\ Distinct'
  BY <1>2, NoTxnType DEF OwnInv, Distinct
<1>11. NoLostEvent' /\ ClosedIsSynced'
  BY <1>2, <1>3, <1>4 DEF NoLostEvent, ClosedIsSynced
<1> QED BY <1>7, <1>8, <1>9, <1>10, <1>11 DEF SandwichInv

-----------------------------------------------------------------------------
(* The theorems *)

\* The invariant holds when the engine opens.
LEMMA SandwichStart == SandwichInit => SandwichInv
<1> SUFFICES ASSUME SandwichInit PROVE SandwichInv
  OBVIOUS
<1>1. /\ mode \in {"sync", "lazy"} /\ opened = FALSE /\ mounted = {} /\ event = "absent" /\ updater = NoThread /\ count = 0
      /\ log = [s \in Shards |-> <<>>] /\ synced = [s \in Shards |-> 0] /\ txn = [c \in Clients |-> NoTxn]
      /\ outcome = [n \in Txns |-> [result |-> "none", parts |-> {}, failed |-> {}]]
  BY DEF SandwichInit
<1>2. \A s \in Shards : log[s] = <<>> /\ synced[s] = 0 /\ Len(log[s]) = 0 /\ \A m : ~In(log[s], m)
  BY <1>1 DEF In
<1>3. LogTypes
  BY <1>1, <1>2 DEF LogTypes
<1>4. SandwichTypes
  <2>1. txn \in [Clients -> TxnRec]
    BY <1>1, NoTxnType
  <2>2. outcome \in [Txns -> OutcomeRec] /\ NoThread \in UpdaterRec
    BY <1>1 DEF OutcomeRec, NoThread, UpdaterRec
  <2>3. count \in 0..MaxTxns
    BY <1>1, MaxTxnsAssumption DEF MaxTxnsAssumption
  <2> QED BY <1>1, <1>3, <2>1, <2>2, <2>3 DEF SandwichTypes
<1>5. LogInv /\ OutcomeInv /\ Main \in Shards
  BY <1>1, <1>2 DEF LogInv, OutcomeInv, Shards
<1>6. (\A c \in Clients : OwnInv(c)) /\ Distinct
  BY <1>1, NoTxnType DEF OwnInv, Distinct
<1>7. NoLostEvent /\ ClosedIsSynced
  BY <1>1, <1>2, <1>5 DEF NoLostEvent, ClosedIsSynced
<1> QED BY <1>4, <1>5, <1>6, <1>7 DEF SandwichInv

\* Every step keeps it.
LEMMA SandwichStep == SandwichInv /\ [SandwichNext]_sandwichVars => SandwichInv'
<1> SUFFICES ASSUME SandwichInv, [SandwichNext]_sandwichVars PROVE SandwichInv'
  OBVIOUS
<1>1. CASE UNCHANGED sandwichVars
  <2>1. Quiet /\ UNCHANGED <<mounted, txn, count>> /\ count \in Nat
    BY <1>1, MaxTxnsAssumption DEF sandwichVars, Quiet, SandwichInv, SandwichTypes, MaxTxnsAssumption
  <2>2. LogTypes' /\ LogInv' /\ OutcomeInv' /\ NoLostEvent' /\ ClosedIsSynced'
    BY <2>1, QuietKeeps
  <2>3. SandwichTypes'
    BY <2>1, <2>2 DEF SandwichInv, SandwichTypes, Quiet
  <2> QED BY <2>1, <2>2, <2>3, TxnsRest DEF SandwichInv, Quiet
<1>2. ASSUME NEW c \in Clients, CommitShard(c) PROVE SandwichInv'
  <2>1. PICK s \in txn[c].todo : (s = Main => txn[c].todo = {Main}) /\ (CommitPart(c, s) \/ CommitFails(c, s))
    BY <1>2 DEF CommitShard
  <2>2. txn[c].pc = "commit" /\ UNCHANGED <<mode, opened, mounted, outcome, event, updater, count>>
    BY <1>2 DEF CommitShard
  <2> QED BY <2>1, <2>2, CommitPartKeeps, CommitFailsKeeps
<1>3. CASE \E c \in Clients : BeginTxn(c) \/ AbortTxn(c) \/ StartCommit(c) \/ CommitShard(c) \/ FinishCommit(c)
  BY <1>2, <1>3, BeginKeeps, AbortKeeps, StartCommitKeeps, FinishCommitKeeps
<1>4. CASE \E c \in Clients, s \in Shards : Use(c, s)
  BY <1>4, UseKeeps
<1>5. CASE \E s \in Media : MountShard(s) \/ UnMountShard(s)
  BY <1>5, MountKeeps
<1>6. CASE SyncCopy \/ SyncOne \/ ThreadEnds \/ OpenEngine \/ CloseEngine \/ Crash
  BY <1>6, SyncCopyKeeps, SyncOneKeeps, ThreadEndsKeeps, OpenKeeps, CloseKeeps, CrashKeeps
<1> QED BY <1>1, <1>3, <1>4, <1>5, <1>6 DEF SandwichNext

\* Every state of a run of the Sandwich engine satisfies the invariant above: where a
\* transaction's parts are, what is synced, and which event is still to be served.
THEOREM SandwichInvAlways == SandwichSpec => []SandwichInv
<1> QED BY SandwichStart, SandwichStep, PTL DEF SandwichSpec

\* It says that commits are kept.
LEMMA SandwichInvKeeps == SandwichInv => CommitsKept
<1> SUFFICES ASSUME SandwichInv PROVE CommitsKept
  OBVIOUS
<1>1. SandwichTypes /\ LogTypes /\ Main \in Shards
  BY DEF SandwichInv, SandwichTypes, Shards
<1>2. ASSUME mode = "sync", NEW s \in Shards PROVE Durable(s) = log[s]
  BY <1>1, <1>2, DurableIn DEF SandwichInv, LogInv
<1>3. ASSUME mode = "sync", NEW n \in Txns, outcome[n].result # "none", NEW s \in outcome[n].parts \ outcome[n].failed
      PROVE  In(Durable(s), n)
  <2>1. s \in Shards /\ In(log[s], n)
    BY <1>1, <1>3 DEF SandwichInv, OutcomeInv, SandwichTypes, OutcomeRec
  <2> QED BY <1>2, <1>3, <2>1
<1>4. ASSUME mode = "sync", NEW c \in Clients, txn[c].pc = "commit", In(Durable(Main), txn[c].id),
             NEW s \in txn[c].parts \ txn[c].failed
      PROVE  In(Durable(s), txn[c].id)
  <2>1. s \in Shards /\ OwnInv(c)
    BY <1>1, <1>4, TxnFields DEF SandwichInv
  <2>2. txn[c].todo = {}
    BY <1>1, <1>2, <1>4, <2>1 DEF OwnInv
  <2> QED BY <1>2, <1>4, <2>1, <2>2 DEF OwnInv
<1>5. MainIsLast
  BY <1>3, <1>4 DEF MainIsLast
<1>6. OkIsDurable
  BY <1>3 DEF OkIsDurable, SandwichInv, OutcomeInv
<1> QED BY <1>5, <1>6 DEF CommitsKept, SandwichInv

\* Whenever the power fails, what commitImpl() wrote to the main shard has its parts in
\* the media shards; a synced write that was answered with success is durable; with
\* lazy syncing sendEvent() and sync() never lose a commit between them, and close()
\* leaves nothing to sync.
THEOREM CommitsKeptAlways == SandwichSpec => []CommitsKept
<1> QED BY SandwichInvAlways, SandwichInvKeeps, PTL

-----------------------------------------------------------------------------
(* DbBerkeley: checkpoints *)

CommitterRec == [pc : {"idle", "count", "try", "checkpoint", "reset"}, size : Nat]

CheckpointTypes ==
  /\ updateSize \in Nat /\ debt \in Nat /\ lost \in Nat /\ commits \in Nat
  /\ committer \in [Committers -> CommitterRec] /\ mutex \in Committers \cup {None}

\* What is committed and not yet counted.
Part(r) == IF r.pc = "count" THEN r.size ELSE 0
Uncounted(c) == [t \in Committers |-> Part(c[t])]
PendingOf(c) == SumOver(Uncounted(c), Committers)
Pending == PendingOf(committer)

Checkpointing(t) == committer[t].pc \in {"checkpoint", "reset"}
Finishing == \E t \in Committers : committer[t].pc = "reset"

\* One thread is at the checkpoint, the one that holds the mutex.  As soon as enough is
\* counted some thread is on its way to a checkpoint.  What is written since the last
\* one is counted, was counted while the checkpoint finished, or will be.
CheckpointInv ==
  /\ CheckpointTypes
  /\ \A t \in Committers : Checkpointing(t) <=> mutex = t
  /\ updateSize >= MinKb => \E t \in Committers : committer[t].pc = "try" \/ Checkpointing(t)
  /\ debt <= lost + Pending + (IF Finishing THEN 0 ELSE updateSize)

\* The bytes not yet counted are a number, and none when no thread is about to count.
LEMMA PendingType ==
  ASSUME NEW c \in [Committers -> CommitterRec]
  PROVE  PendingOf(c) \in Nat /\ ((\A t \in Committers : c[t].pc # "count") => PendingOf(c) = 0)
<1> DEFINE f == Uncounted(c)
<1>1. \A t \in Committers : f[t] \in Nat
  BY DEF CommitterRec, Uncounted, Part
<1>2. (\A t \in Committers : c[t].pc # "count") => \A t \in Committers : f[t] = 0
  BY DEF Uncounted, Part
<1>3. PendingOf(c) = SumOver(f, Committers)
  BY DEF PendingOf
<1> HIDE DEF f
<1>4. SumOver(f, Committers) \in Nat
  BY <1>1, SumNat, CommittersAssumption DEF CommittersAssumption
<1>5. (\A t \in Committers : f[t] = 0) => SumOver(f, Committers) = 0
  BY SumZero, CommittersAssumption DEF CommittersAssumption
<1> QED BY <1>2, <1>3, <1>4, <1>5

\* A step of one thread changes the sum by what it changes of its own part.
LEMMA PendingStep ==
  ASSUME NEW c \in [Committers -> CommitterRec], NEW t \in Committers, NEW r \in CommitterRec,
         NEW d, d = [c EXCEPT ![t] = r]
  PROVE  PendingOf(d) = PendingOf(c) - Part(c[t]) + Part(r)
<1>1. d \in [Committers -> CommitterRec] /\ d[t] = r /\ \A u \in Committers \ {t} : d[u] = c[u]
  OBVIOUS
<1> DEFINE f == Uncounted(c)
           g == Uncounted(d)
<1>2. \A u \in Committers : f[u] \in Int /\ g[u] \in Int
  BY <1>1 DEF Uncounted, CommitterRec, Part
<1>3. \A u \in Committers \ {t} : g[u] = f[u]
  BY <1>1 DEF Uncounted
<1>4. g[t] = Part(r) /\ f[t] = Part(c[t])
  BY <1>1 DEF Uncounted
<1>5. PendingOf(d) = SumOver(g, Committers) /\ PendingOf(c) = SumOver(f, Committers)
  BY DEF PendingOf
<1> HIDE DEF f, g
<1>6. SumOver(g, Committers) = SumOver(f, Committers) - f[t] + g[t]
  BY <1>2, <1>3, SumUpdate, CommittersAssumption DEF CommittersAssumption
<1> QED BY <1>4, <1>5, <1>6

\* The thread's step r, its effect on the sum and on the types.
LEMMA CommitterStep ==
  ASSUME CheckpointTypes, NEW t \in Committers, NEW r \in CommitterRec, committer' = [committer EXCEPT ![t] = r]
  PROVE  /\ committer' \in [Committers -> CommitterRec] /\ committer'[t] = r
         /\ \A u \in Committers \ {t} : committer'[u] = committer[u]
         /\ Pending \in Int /\ Pending' \in Int
         /\ Pending' = Pending - Part(committer[t]) + Part(r)
<1>1. committer \in [Committers -> CommitterRec]
  BY DEF CheckpointTypes
<1>2. /\ committer' \in [Committers -> CommitterRec] /\ committer'[t] = r
      /\ \A u \in Committers \ {t} : committer'[u] = committer[u]
  BY <1>1
<1>3. PendingOf(committer') = PendingOf(committer) - Part(committer[t]) + Part(r)
  BY <1>1, PendingStep
<1>4. PendingOf(committer) \in Nat /\ PendingOf(committer') \in Nat
  BY <1>1, <1>2, PendingType
<1>5. Pending = PendingOf(committer) /\ Pending' = PendingOf(committer')
  BY DEF Pending
<1> QED BY <1>2, <1>3, <1>4, <1>5

\* Commit keeps the invariant.
LEMMA CommitKeeps ==
  ASSUME CheckpointInv, NEW t \in Committers, NEW n \in Sizes, CommitTxn(t, n)
  PROVE  CheckpointInv'
<1> DEFINE r == IF n = 0 THEN Resting ELSE [pc |-> "count", size |-> n]
<1>1. n \in Nat /\ r \in CommitterRec /\ ~(r.pc \in {"try", "checkpoint", "reset"}) /\ Part(r) = n
  BY AmountsAssumption DEF AmountsAssumption, CommitterRec, Resting, Part
<1>2. /\ committer[t].pc = "idle" /\ commits' = commits + 1 /\ debt' = debt + n
      /\ committer' = [committer EXCEPT ![t] = r]
      /\ updateSize' = updateSize /\ mutex' = mutex /\ lost' = lost
  BY DEF CommitTxn
<1> HIDE DEF r
<1>3. CheckpointTypes /\ Part(committer[t]) = 0
  BY <1>2 DEF CheckpointInv, Part
<1>4. /\ committer' \in [Committers -> CommitterRec] /\ committer'[t] = r
      /\ \A u \in Committers \ {t} : committer'[u] = committer[u]
      /\ Pending \in Int /\ Pending' = Pending + n
  <2>1. Pending \in Int /\ Pending' = Pending - Part(committer[t]) + Part(r)
    BY <1>1, <1>2, <1>3, CommitterStep, Zenon
  <2>2. Pending' = Pending + n
    BY <1>1, <1>3, <2>1
  <2> QED BY <1>1, <1>2, <1>3, <2>1, <2>2, CommitterStep, Zenon
<1>5. CheckpointTypes'
  BY <1>1, <1>2, <1>3, <1>4 DEF CheckpointTypes
<1>6. \A u \in Committers : committer'[u].pc \in {"try", "checkpoint", "reset"} \/ committer[u].pc \in {"try", "checkpoint", "reset"}
        => committer'[u].pc = committer[u].pc
  BY <1>1, <1>2, <1>4
<1>7. Finishing' <=> Finishing
  BY <1>6 DEF Finishing
<1>8. debt' <= lost' + Pending' + (IF Finishing' THEN 0 ELSE updateSize')
  BY <1>1, <1>2, <1>3, <1>4, <1>7 DEF CheckpointInv, CheckpointTypes
<1>9. \A u \in Committers : Checkpointing(u)' <=> mutex' = u
  BY <1>2, <1>6 DEF CheckpointInv, Checkpointing
<1>10. updateSize' >= MinKb => \E u \in Committers : committer'[u].pc = "try" \/ Checkpointing(u)'
  BY <1>2, <1>6 DEF CheckpointInv, Checkpointing
<1> QED BY <1>5, <1>8, <1>9, <1>10 DEF CheckpointInv

\* PostCommit keeps the invariant.
LEMMA PostCommitKeeps ==
  ASSUME CheckpointInv, NEW t \in Committers, PostCommit(t) PROVE CheckpointInv'
<1> DEFINE r == IF updateSize' >= MinKb THEN [pc |-> "try", size |-> 0] ELSE Resting
           n == committer[t].size
           fin == mutex # None /\ committer[mutex].pc = "reset"
<1>1. /\ committer[t].pc = "count" /\ updateSize' = updateSize + n
      /\ committer' = [committer EXCEPT ![t] = r]
      /\ lost' = IF fin THEN lost + n ELSE lost
      /\ mutex' = mutex /\ debt' = debt /\ commits' = commits
  BY DEF PostCommit
<1>2. CheckpointTypes /\ n \in Nat /\ Part(committer[t]) = n
  BY <1>1 DEF CheckpointInv, CheckpointTypes, CommitterRec, Part
<1>3. /\ r \in CommitterRec /\ Part(r) = 0 /\ ~(r.pc \in {"checkpoint", "reset"})
      /\ r.pc = "try" <=> updateSize' >= MinKb
  BY DEF CommitterRec, Resting, Part
<1> HIDE DEF r, n
<1>4. /\ committer' \in [Committers -> CommitterRec] /\ committer'[t] = r
      /\ \A u \in Committers \ {t} : committer'[u] = committer[u]
      /\ Pending \in Int /\ Pending' = Pending - n
  <2>1. Pending \in Int /\ Pending' \in Int /\ Pending' = Pending - Part(committer[t]) + Part(r)
    BY <1>1, <1>2, <1>3, CommitterStep, Zenon
  <2>2. Pending' = Pending - n
    BY <1>2, <1>3, <2>1
  <2> QED BY <1>1, <1>2, <1>3, <2>1, <2>2, CommitterStep, Zenon
<1>5. \A u \in Committers : committer'[u].pc \in {"checkpoint", "reset"} \/ committer[u].pc \in {"checkpoint", "reset"}
        => committer'[u].pc = committer[u].pc
  BY <1>1, <1>3, <1>4
<1>6. fin <=> Finishing
  BY <1>2, CommittersAssumption DEF CommittersAssumption, None, Finishing, CheckpointInv, Checkpointing, CheckpointTypes
<1> HIDE DEF fin
<1>7. Finishing' <=> Finishing
  BY <1>5 DEF Finishing
<1>8. CheckpointTypes'
  BY <1>1, <1>2, <1>4 DEF CheckpointTypes
<1>9. debt' <= lost' + Pending' + (IF Finishing' THEN 0 ELSE updateSize')
  BY <1>1, <1>2, <1>4, <1>6, <1>7 DEF CheckpointInv, CheckpointTypes
<1>10. \A u \in Committers : Checkpointing(u)' <=> mutex' = u
  BY <1>1, <1>5 DEF CheckpointInv, Checkpointing
<1>11. updateSize' >= MinKb => \E u \in Committers : committer'[u].pc = "try" \/ Checkpointing(u)'
  BY <1>3, <1>4
<1> QED BY <1>8, <1>9, <1>10, <1>11 DEF CheckpointInv

\* A thread that was told to try either has the mutex or leaves it to its holder.
LEMMA TryKeeps ==
  ASSUME CheckpointInv, NEW t \in Committers, TryCheckpoint(t) PROVE CheckpointInv'
<1> DEFINE r == IF mutex = None THEN [committer[t] EXCEPT !.pc = "checkpoint"] ELSE Resting
<1>1. CheckpointTypes /\ committer[t] \in CommitterRec
  BY DEF CheckpointInv, CheckpointTypes
<1>2. /\ committer[t].pc = "try" /\ committer' = [committer EXCEPT ![t] = r]
      /\ mutex' = IF mutex = None THEN t ELSE mutex
      /\ updateSize' = updateSize /\ debt' = debt /\ lost' = lost /\ commits' = commits
  BY DEF TryCheckpoint
<1>3. /\ r \in CommitterRec /\ Part(r) = 0 /\ Part(committer[t]) = 0
      /\ r.pc = IF mutex = None THEN "checkpoint" ELSE "idle"
  BY <1>1, <1>2 DEF CommitterRec, Resting, Part
<1> HIDE DEF r
<1>4. /\ committer' \in [Committers -> CommitterRec] /\ committer'[t] = r
      /\ \A u \in Committers \ {t} : committer'[u] = committer[u]
      /\ Pending \in Int /\ Pending' = Pending
  <2>1. Pending \in Int /\ Pending' \in Int /\ Pending' = Pending - Part(committer[t]) + Part(r)
    BY <1>1, <1>2, <1>3, CommitterStep, Zenon
  <2>2. Pending' = Pending
    BY <1>3, <2>1
  <2> QED BY <1>1, <1>2, <1>3, <2>1, <2>2, CommitterStep, Zenon
<1>5. CheckpointTypes'
  BY <1>1, <1>2, <1>4 DEF CheckpointTypes
<1>6. Finishing' <=> Finishing
  BY <1>2, <1>3, <1>4 DEF Finishing
<1>7. debt' <= lost' + Pending' + (IF Finishing' THEN 0 ELSE updateSize')
  BY <1>2, <1>4, <1>6 DEF CheckpointInv
<1>8. None \notin Committers
  BY CommittersAssumption DEF CommittersAssumption, None
<1>9. \A u \in Committers : Checkpointing(u)' <=> mutex' = u
  BY <1>2, <1>3, <1>4, <1>8 DEF CheckpointInv, Checkpointing
<1>10. \E u \in Committers : Checkpointing(u)'
  <2>1. mutex' \in Committers
    BY <1>1, <1>2 DEF CheckpointTypes
  <2> QED BY <1>9, <2>1
<1> QED BY <1>5, <1>7, <1>9, <1>10 DEF CheckpointInv

\* Checkpoint keeps the invariant.
LEMMA CheckpointKeeps ==
  ASSUME CheckpointInv, NEW t \in Committers, Checkpoint(t) PROVE CheckpointInv'
<1> DEFINE r == [committer[t] EXCEPT !.pc = "reset"]
<1>1. CheckpointTypes /\ committer[t] \in CommitterRec
  BY DEF CheckpointInv, CheckpointTypes
<1>2. /\ committer[t].pc = "checkpoint" /\ committer' = [committer EXCEPT ![t] = r]
      /\ debt' = 0 /\ lost' = 0 /\ updateSize' = updateSize /\ mutex' = mutex /\ commits' = commits
  BY DEF Checkpoint
<1>3. /\ r \in CommitterRec /\ Part(r) = 0 /\ Part(committer[t]) = 0 /\ r.pc = "reset"
  BY <1>1, <1>2 DEF CommitterRec, Part
<1> HIDE DEF r
<1>4. /\ committer' \in [Committers -> CommitterRec] /\ committer'[t] = r
      /\ \A u \in Committers \ {t} : committer'[u] = committer[u]
  BY <1>1, <1>2, <1>3, CommitterStep, Zenon
<1>5. CheckpointTypes'
  BY <1>1, <1>2, <1>4 DEF CheckpointTypes
<1>6. Pending' \in Nat
  BY <1>4, PendingType DEF Pending
<1>7. Finishing'
  BY <1>3, <1>4 DEF Finishing
<1>8. debt' <= lost' + Pending' + (IF Finishing' THEN 0 ELSE updateSize')
  <2>1. (IF Finishing' THEN 0 ELSE updateSize') = 0
    BY <1>7
  <2>2. \A p \in Nat : 0 <= 0 + p + 0
    OBVIOUS
  <2>3. debt' = 0 /\ lost' = 0
    BY <1>2
  <2> QED BY <1>6, <2>1, <2>2, <2>3, Zenon
<1>9. \A u \in Committers : Checkpointing(u)' <=> Checkpointing(u)
  BY <1>2, <1>3, <1>4 DEF Checkpointing
<1>10. Checkpointing(t)'
  BY <1>3, <1>4 DEF Checkpointing
<1> QED BY <1>2, <1>5, <1>8, <1>9, <1>10 DEF CheckpointInv

\* Reset keeps the invariant.
LEMMA ResetKeeps ==
  ASSUME CheckpointInv, NEW t \in Committers, ResetSize(t) PROVE CheckpointInv'
<1>1. CheckpointTypes /\ Finishing
  BY DEF CheckpointInv, ResetSize, Finishing
<1>2. /\ committer[t].pc = "reset" /\ committer' = [committer EXCEPT ![t] = Resting]
      /\ updateSize' = 0 /\ mutex' = None /\ debt' = debt /\ lost' = lost /\ commits' = commits
  BY DEF ResetSize
<1>3. /\ Resting \in CommitterRec /\ Part(Resting) = 0 /\ Part(committer[t]) = 0 /\ Resting.pc = "idle"
  BY <1>2 DEF CommitterRec, Part, Resting
<1>4. /\ committer' \in [Committers -> CommitterRec] /\ committer'[t] = Resting
      /\ \A u \in Committers \ {t} : committer'[u] = committer[u]
      /\ Pending \in Int /\ Pending' = Pending
  <2>1. Pending \in Int /\ Pending' \in Int /\ Pending' = Pending - Part(committer[t]) + Part(Resting)
    BY <1>1, <1>2, <1>3, CommitterStep, Zenon
  <2>2. Pending' = Pending
    BY <1>3, <2>1
  <2> QED BY <1>1, <1>2, <1>3, <2>1, <2>2, CommitterStep, Zenon
<1>5. CheckpointTypes'
  BY <1>1, <1>2, <1>4 DEF CheckpointTypes
<1>6. \A u \in Committers : ~Checkpointing(u)'
  BY <1>2, <1>3, <1>4 DEF Checkpointing, CheckpointInv
<1>7. ~Finishing'
  BY <1>6 DEF Finishing, Checkpointing
<1>8. debt' <= lost' + Pending' + (IF Finishing' THEN 0 ELSE updateSize')
  BY <1>1, <1>2, <1>4, <1>7 DEF CheckpointInv, CheckpointTypes
<1>9. None \notin Committers
  BY CommittersAssumption DEF CommittersAssumption, None
<1>10. ~(updateSize' >= MinKb)
  BY <1>2, AmountsAssumption DEF AmountsAssumption
<1> QED BY <1>2, <1>5, <1>6, <1>8, <1>9, <1>10 DEF CheckpointInv

\* Every step of the checkpoints keeps their invariant; those of a compaction leave it alone.
LEMMA CheckpointStep ==
  ASSUME CheckpointInv, [CheckpointNext \/ CompactNext]_<<checkpointVars, compactVars>>
  PROVE  CheckpointInv'
<1>1. CASE UNCHANGED checkpointVars
  <2>1. Pending' = Pending /\ Finishing' = Finishing /\ \A t \in Committers : Checkpointing(t)' = Checkpointing(t)
    BY <1>1 DEF Pending, Finishing, Checkpointing, checkpointVars
  <2>2. CheckpointTypes'
    BY <1>1 DEF CheckpointInv, CheckpointTypes, checkpointVars
  <2>3. /\ updateSize' = updateSize /\ mutex' = mutex /\ committer' = committer
        /\ debt' = debt /\ lost' = lost
    BY <1>1 DEF checkpointVars
  <2>4. debt' <= lost' + Pending' + (IF Finishing' THEN 0 ELSE updateSize')
    BY <2>1, <2>3, Zenon DEF CheckpointInv
  <2>5. /\ \A t \in Committers : Checkpointing(t)' <=> mutex' = t
        /\ updateSize' >= MinKb => \E t \in Committers : committer'[t].pc = "try" \/ Checkpointing(t)'
    BY <2>1, <2>3 DEF CheckpointInv
  <2> QED BY <2>2, <2>4, <2>5 DEF CheckpointInv
<1>2. ASSUME NEW t \in Committers,
             (\E n \in Sizes : CommitTxn(t, n)) \/ PostCommit(t) \/ TryCheckpoint(t) \/ Checkpoint(t) \/ ResetSize(t)
      PROVE  CheckpointInv'
  BY <1>2, CommitKeeps, PostCommitKeeps, TryKeeps, CheckpointKeeps, ResetKeeps
<1>3. CompactNext => UNCHANGED checkpointVars
  BY DEF CompactNext, BeginCompact, FindWindow, CompactWindow, CompactFails, EndCompact, Insert, Remove
<1> QED BY <1>1, <1>2, <1>3 DEF CheckpointNext

\* No bytes are written at the start.
LEMMA CheckpointStart == BerkeleyInit => CheckpointInv
<1> SUFFICES ASSUME BerkeleyInit PROVE CheckpointInv
  OBVIOUS
<1>1. Resting \in CommitterRec /\ Resting.pc = "idle" /\ None \notin Committers /\ MinKb \in Nat \ {0}
  BY CommittersAssumption, AmountsAssumption
     DEF Resting, CommitterRec, None, CommittersAssumption, AmountsAssumption
<1>2. /\ updateSize = 0 /\ mutex = None /\ committer = [t \in Committers |-> Resting]
      /\ debt = 0 /\ lost = 0 /\ commits = 0
  BY DEF BerkeleyInit
<1>3. CheckpointTypes /\ \A t \in Committers : committer[t].pc = "idle"
  BY <1>1, <1>2 DEF CheckpointTypes
<1>4. Pending = 0
  BY <1>3, PendingType DEF Pending, CheckpointTypes
<1>5. debt <= lost + Pending + (IF Finishing THEN 0 ELSE updateSize)
  BY <1>2, <1>4
<1> QED BY <1>1, <1>2, <1>3, <1>5 DEF CheckpointInv, Checkpointing

\* The invariant bounds what a crash costs.
LEMMA CheckpointBounds == CheckpointInv => DebtBounded
<1> SUFFICES ASSUME CheckpointInv, \A t \in Committers : committer[t].pc = "idle"
             PROVE  debt < MinKb + lost
  BY DEF DebtBounded
<1>1. CheckpointTypes /\ MinKb \in Nat
  BY AmountsAssumption DEF CheckpointInv, AmountsAssumption
<1>2. Pending = 0
  BY <1>1, PendingType DEF Pending, CheckpointTypes
<1>3. ~Finishing /\ ~(updateSize >= MinKb)
  BY DEF CheckpointInv, Checkpointing, Finishing
<1>4. debt <= lost + updateSize
  BY <1>1, <1>2, <1>3 DEF CheckpointInv, CheckpointTypes
<1> QED BY <1>1, <1>3, <1>4 DEF CheckpointTypes
-----------------------------------------------------------------------------
(* DbBerkeley: compaction *)

\* Up to key1 the windows have reached every record that stayed.
CompactInv ==
  /\ keys \in SUBSET (1..NKeys) /\ stayed \subseteq keys
  /\ compaction \in [pc : {"idle", "window", "compact", "end"}, key1 : Nat, key2 : Nat]
  /\ compaction.pc \in {"window", "compact"} => \A x \in stayed : x < compaction.key1 => x \in compacted
  /\ compaction.pc = "end" => stayed \subseteq compacted

\* A finite set of n naturals or more has one with n of them up to it.
LEMMA NthIn ==
  ASSUME NEW S \in SUBSET Nat, IsFiniteSet(S), NEW n \in Nat \ {0}, n <= Cardinality(S)
  PROVE  Nth(S, n) \in S
<1> DEFINE Upto(x) == {y \in S : y <= x}
           A == {x \in S : n <= Cardinality(Upto(x))}
<1>1. \A x \in S : IsFiniteSet(Upto(x)) /\ Cardinality(Upto(x)) \in Nat
  BY FS_Subset, FS_CardinalityType
<1>2. Cardinality(S) \in Nat /\ S # {}
  BY FS_CardinalityType, FS_EmptySet
<1>3. PICK m \in S : \A y \in S : y <= m
  BY <1>2, MaxIn
<1>4. Upto(m) = S /\ m \in A
  BY <1>3
<1>5. PICK x \in A : \A y \in A : x <= y
  BY <1>4, MinIn
<1> DEFINE B == Upto(x) \ {x}
<1>6. IsFiniteSet(B) /\ Cardinality(B) = Cardinality(Upto(x)) - 1 /\ Cardinality(Upto(x)) \in Nat
  <2>1. x \in Upto(x)
    BY <1>5
  <2> QED BY <1>1, <1>5, <2>1, FS_RemoveElement
<1>7. ~(n <= Cardinality(B))
  <2> SUFFICES ASSUME n <= Cardinality(B) PROVE FALSE
    OBVIOUS
  <2>1. B # {}
    BY FS_EmptySet
  <2>2. PICK z \in B : \A y \in B : y <= z
    BY <1>5, <1>6, <2>1, MaxIn
  <2>3. z \in S /\ z \in Nat /\ x \in Nat /\ z <= x /\ z # x
    BY <1>5, <2>2
  <2>4. \A y \in S : y \in Upto(z) <=> y \in B
    <3>1. ASSUME NEW y \in S, y <= z PROVE y \in B
      BY <2>3, <3>1
    <3>2. ASSUME NEW y \in S, y \in B PROVE y <= z
      BY <2>2, <3>2
    <3> QED BY <3>1, <3>2
  <2>5. Upto(z) = B /\ z < x
    <3>1. Upto(z) \subseteq S /\ B \subseteq S
      OBVIOUS
    <3>2. Upto(z) = B
      <4> HIDE DEF Upto, B
      <4> QED BY <2>4, <3>1
    <3>3. z < x
      BY <2>3
    <3> QED BY <3>2, <3>3
  <2>6. z \in A
    BY <2>3, <2>5
  <2> QED BY <1>5, <2>5, <2>6
<1>8. Cardinality(Upto(x)) = n
  BY <1>5, <1>6, <1>7
<1>9. \E y \in S : Cardinality({z \in S : z <= y}) = n
  BY <1>5, <1>8
<1> QED BY <1>9 DEF Nth

\* FindWindow keeps the invariant.
LEMMA FindWindowKeeps == ASSUME CompactInv, FindWindow PROVE CompactInv'
<1> DEFINE behind == From(compaction.key1)
           start  == IF compaction.key1 = Null THEN Null ELSE Min(behind)
           rest   == IF behind = {} THEN {} ELSE behind \ {Min(behind)}
           end    == IF Cardinality(rest) < StepSize THEN Null ELSE Nth(rest, StepSize)
<1>1. keys' = keys /\ stayed' = stayed /\ compacted' = compacted /\ compaction.pc = "window"
      /\ compaction' = IF behind = {} THEN [compaction EXCEPT !.pc = "compact", !.key1 = Null, !.key2 = Null]
                       ELSE [pc |-> "compact", key1 |-> start, key2 |-> end]
  BY DEF FindWindow
<1>2. behind \in SUBSET Nat /\ IsFiniteSet(behind)
  <2>1. IsFiniteSet(1..NKeys)
    <3>1. 1 \in Int /\ NKeys \in Int
      BY LimitsAssumption DEF LimitsAssumption
    <3> QED BY <3>1, FS_Interval
  <2>2. behind \in SUBSET (1..NKeys)
    BY DEF CompactInv, From
  <2> QED BY <2>1, <2>2, FS_Subset, LimitsAssumption DEF LimitsAssumption
<1>3. rest \in SUBSET Nat /\ IsFiniteSet(rest)
  BY <1>2, FS_RemoveElement, FS_EmptySet
<1>4. end \in Nat
  <2> HIDE DEF rest
  <2>1. Cardinality(rest) \in Nat /\ StepSize \in Nat \ {0}
    BY <1>3, FS_CardinalityType, AmountsAssumption DEF AmountsAssumption
  <2>2. ASSUME ~(Cardinality(rest) < StepSize) PROVE Nth(rest, StepSize) \in rest
    BY <1>3, <2>1, <2>2, NthIn
  <2> QED BY <1>3, <2>2 DEF Null
<1>5. CASE behind = {}
  <2>1. compaction' = [compaction EXCEPT !.pc = "compact", !.key1 = 0, !.key2 = 0]
    BY <1>1, <1>5 DEF Null
  <2>2. /\ compaction' \in [pc : {"idle", "window", "compact", "end"}, key1 : Nat, key2 : Nat]
        /\ compaction'.pc = "compact" /\ compaction'.key1 = 0
    BY <2>1 DEF CompactInv
  <2>3. \A x \in stayed : x \in Nat
    BY LimitsAssumption DEF LimitsAssumption, CompactInv
  <2> HIDE DEF behind, start, rest, end
  <2> QED BY <1>1, <2>2, <2>3 DEF CompactInv
<1>6. CASE behind # {}
  <2>1. Min(behind) \in behind /\ \A y \in behind : Min(behind) <= y
    <3> HIDE DEF behind
    <3> QED BY <1>2, <1>6, MinIn
  <2>2. start \in Nat
    BY <1>2, <2>1 DEF Null
  <2>3. \A x \in stayed : x < start => x < compaction.key1
    <3>1. \A x \in stayed : x \in keys /\ x \in Nat
      BY LimitsAssumption DEF LimitsAssumption, CompactInv
    <3>2. \A x \in stayed : x \in behind \/ x < compaction.key1
      BY <3>1 DEF From, CompactInv
    <3>3. \A x \in behind : x \in Nat
      BY <1>2
    <3> HIDE DEF behind
    <3> QED BY <2>1, <3>1, <3>2, <3>3 DEF Null
  <2> HIDE DEF start, end, rest, behind
  <2>4. compaction' = [pc |-> "compact", key1 |-> start, key2 |-> end]
    BY <1>1, <1>6
  <2>5. /\ compaction' \in [pc : {"idle", "window", "compact", "end"}, key1 : Nat, key2 : Nat]
        /\ compaction'.pc = "compact" /\ compaction'.key1 = start
    BY <1>4, <2>2, <2>4
  <2>6. \A x \in stayed' : x < compaction'.key1 => x \in compacted'
    BY <1>1, <2>3, <2>5 DEF CompactInv
  <2> QED BY <1>1, <2>5, <2>6 DEF CompactInv
<1> QED BY <1>5, <1>6

\* Every step of a compaction keeps its invariant; those of the checkpoints leave it alone.
LEMMA CompactStep ==
  ASSUME CompactInv, [CheckpointNext \/ CompactNext]_<<checkpointVars, compactVars>>
  PROVE  CompactInv'
<1>1. CASE UNCHANGED compactVars
  BY <1>1 DEF CompactInv, compactVars
<1>2. CheckpointNext => UNCHANGED compactVars
  BY DEF CheckpointNext, CommitTxn, PostCommit, TryCheckpoint, Checkpoint, ResetSize
<1>3. CASE BeginCompact
  BY <1>3 DEF BeginCompact, CompactInv, NoCompaction, Null
<1>4. CASE FindWindow
  BY <1>4, FindWindowKeeps
<1>5. CASE CompactWindow
  <2>1. \A x \in stayed : x \in 1..NKeys /\ x \in Nat
    BY LimitsAssumption DEF LimitsAssumption, CompactInv
  <2>2. /\ compaction.pc = "compact" /\ keys' = keys /\ stayed' = stayed
        /\ compacted' = compacted \cup Window(compaction.key1, compaction.key2)
        /\ compaction' = IF compaction.key2 = Null THEN [compaction EXCEPT !.pc = "end"]
                         ELSE [pc |-> "window", key1 |-> compaction.key2, key2 |-> Null]
    BY <1>5 DEF CompactWindow
  <2>3. compaction.key1 \in Nat /\ compaction.key2 \in Nat
    BY DEF CompactInv
  <2>4. \A x \in stayed : (compaction.key2 # Null => x <= compaction.key2) => x \in compacted'
    BY <2>1, <2>2, <2>3 DEF CompactInv, Window
  <2>5. CASE compaction.key2 = Null
    BY <2>2, <2>4, <2>5 DEF CompactInv
  <2>6. CASE compaction.key2 # Null
    BY <2>1, <2>2, <2>3, <2>4, <2>6 DEF CompactInv, Null
  <2> QED BY <2>5, <2>6
<1>6. CASE CompactFails
  <2>1. keys' = keys /\ stayed' = stayed
    BY <1>6 DEF CompactFails
  <2>2. CASE compaction' = NoCompaction
    BY <2>1, <2>2 DEF CompactInv, NoCompaction, Null
  <2>3. CASE compaction' = [compaction EXCEPT !.pc = "end"] /\ compacted' = 1..NKeys
    <3>1. /\ compaction' \in [pc : {"idle", "window", "compact", "end"}, key1 : Nat, key2 : Nat]
          /\ compaction'.pc = "end"
      BY <2>3 DEF CompactInv
    <3>2. stayed' \subseteq compacted'
      BY <2>1, <2>3 DEF CompactInv
    <3> QED BY <2>1, <3>1, <3>2 DEF CompactInv
  <2> QED BY <1>6, <2>2, <2>3 DEF CompactFails
<1>7. CASE EndCompact
  BY <1>7 DEF EndCompact, CompactInv, NoCompaction, Null
<1>8. ASSUME NEW k \in 1..NKeys, Insert(k) \/ Remove(k) PROVE CompactInv'
  BY <1>8 DEF Insert, Remove, CompactInv
<1> QED BY <1>1, <1>2, <1>3, <1>4, <1>5, <1>6, <1>7, <1>8 DEF CompactNext

\* What both halves keep.
UpkeepInv == CheckpointInv /\ CompactInv

\* postCommit(), tryCheckpoint() and checkpointImpl() keep what a restart has to replay
\* below checkpointMinKb and what was counted while a checkpoint finished, whatever
\* the order of the threads; and the windows of compact() reach every record that is
\* there throughout, however clients insert and remove between the steps.
THEOREM UpkeepDoneAlways == BerkeleySpec => []UpkeepDone
<1>1. BerkeleyInit => UpkeepInv
  BY CheckpointStart DEF BerkeleyInit, UpkeepInv, CompactInv, NoCompaction, Null
<1>2. UpkeepInv /\ [CheckpointNext \/ CompactNext]_<<checkpointVars, compactVars>> => UpkeepInv'
  BY CheckpointStep, CompactStep DEF UpkeepInv
<1>3. UpkeepInv => UpkeepDone
  BY CheckpointBounds DEF UpkeepInv, CompactInv, UpkeepDone, CompactCovers
<1> QED BY <1>1, <1>2, <1>3, PTL DEF BerkeleySpec

-----------------------------------------------------------------------------
(* DbEngineLife: the lists of the engines *)

Kinds == {"level", "sandwich", "lmdb", "berkeley"}

\* The stages of open() and close().
Stages == {"version", "openLock", "lock", "env", "bottom", "seqDb", "indexDb", "request", "objDb", "idSeq",
           "kinds", "permissions", "quotas", "shards", "endRequest"}

\* Stages of open() that leave nothing to hold.
Passing == {"version", "openLock", "shards"}

Before(i) == {OpenList[j] : j \in 1..(i - 1)}
Rest(i) == {CloseList[j] : j \in i..Len(CloseList)}

\* Each stage of open() comes after what it needs, each of close() before.
ListsOrdered ==
  /\ OpenList \in Seq(Stages) /\ CloseList \in Seq(Stages)
  /\ Len(OpenList) \in Nat \ {0} /\ Len(CloseList) \in Nat \ {0}
  /\ \A i \in 1..Len(OpenList) :
       /\ Needs(OpenList[i]) \subseteq Before(i) \ (Passing \cup {"request", "endRequest"})
       /\ OpenList[i] \in Passing \cup {"request", "endRequest"} \cup Rest(1)
       /\ OpenList[i] = "endRequest" <=> i = Len(OpenList)
       /\ OpenList[i] = "openLock" => "lock" \notin Before(i)
       /\ OpenList[i] = "lock" => "openLock" \in Before(i) /\ {"lock", "request"} \cap Before(i) = {}
  /\ \A i \in 1..Len(CloseList) : CloseList[i] # "request" /\ \A j \in 1..Len(CloseList) : i < j => CloseList[i] \notin Needs(CloseList[j])
  /\ "lock" \in Rest(1)

\* The lists of open() and close() consist of stages.
LEMMA ListsType ==
  ASSUME EngineOpens \in Seq(Stages), EngineCloses \in Seq(Stages)
  PROVE  OpenList \in Seq(Stages) /\ CloseList \in Seq(Stages)
<1>1. /\ <<"version">> \in Seq(Stages)
      /\ <<"request", "objDb", "idSeq", "kinds", "permissions", "quotas", "shards", "endRequest">> \in Seq(Stages)
      /\ <<"quotas", "permissions", "kinds", "idSeq", "objDb">> \in Seq(Stages)
  BY DEF Stages
<1>2. \A s, t \in Seq(Stages) : s \o t \in Seq(Stages)
  BY ConcatProperties
<1> QED BY <1>1, <1>2, Zenon DEF OpenList, CloseList

\* The lists of LevelDB are ordered.
LEMMA LevelOrdered == kind = "level" => ListsOrdered
<1> SUFFICES ASSUME kind = "level" PROVE ListsOrdered
  OBVIOUS
<1>1. EngineOpens = <<"openLock", "lock", "seqDb", "indexDb">>
      /\ EngineCloses = <<"seqDb", "indexDb", "lock">>
  BY DEF EngineOpens, LevelOpens, EngineCloses, LevelCloses
<1>2. /\ Len(OpenList) = 13 /\ OpenList[1] = "version" /\ OpenList[2] = "openLock"
      /\ OpenList[3] = "lock" /\ OpenList[4] = "seqDb" /\ OpenList[5] = "indexDb"
      /\ OpenList[6] = "request" /\ OpenList[7] = "objDb" /\ OpenList[8] = "idSeq"
      /\ OpenList[9] = "kinds" /\ OpenList[10] = "permissions" /\ OpenList[11] = "quotas"
      /\ OpenList[12] = "shards" /\ OpenList[13] = "endRequest"
  BY <1>1 DEF OpenList
<1>3. /\ Len(CloseList) = 8 /\ CloseList[1] = "quotas" /\ CloseList[2] = "permissions"
      /\ CloseList[3] = "kinds" /\ CloseList[4] = "idSeq" /\ CloseList[5] = "objDb"
      /\ CloseList[6] = "seqDb" /\ CloseList[7] = "indexDb" /\ CloseList[8] = "lock"
  BY <1>1 DEF CloseList
<1>4. OpenList \in Seq(Stages) /\ CloseList \in Seq(Stages)
  <2>1. EngineOpens \in Seq(Stages) /\ EngineCloses \in Seq(Stages)
    BY <1>1 DEF Stages
  <2> QED BY <2>1, ListsType
<1>5. OpenList = <<"version", "openLock", "lock", "seqDb", "indexDb", "request", "objDb", "idSeq",
                  "kinds", "permissions", "quotas", "shards", "endRequest">>
  BY <1>2, <1>4, SeqEqual
<1>6. CloseList = <<"quotas", "permissions", "kinds", "idSeq", "objDb", "seqDb", "indexDb", "lock">>
  BY <1>3, <1>4, SeqEqual
<1> QED BY <1>4, <1>5, <1>6 DEF ListsOrdered, Before, Rest, Needs, Passing

\* Those of Sandwich are.
LEMMA SandwichOrdered == kind = "sandwich" => ListsOrdered
<1> SUFFICES ASSUME kind = "sandwich" PROVE ListsOrdered
  OBVIOUS
<1>1. EngineOpens = <<"openLock", "lock", "bottom", "seqDb", "indexDb">>
      /\ EngineCloses = <<"seqDb", "indexDb", "lock", "bottom">>
  BY DEF EngineOpens, SandwichOpens, EngineCloses, SandwichCloses
<1>2. /\ Len(OpenList) = 14 /\ OpenList[1] = "version" /\ OpenList[2] = "openLock"
      /\ OpenList[3] = "lock" /\ OpenList[4] = "bottom" /\ OpenList[5] = "seqDb"
      /\ OpenList[6] = "indexDb" /\ OpenList[7] = "request" /\ OpenList[8] = "objDb"
      /\ OpenList[9] = "idSeq" /\ OpenList[10] = "kinds" /\ OpenList[11] = "permissions"
      /\ OpenList[12] = "quotas" /\ OpenList[13] = "shards" /\ OpenList[14] = "endRequest"
  BY <1>1 DEF OpenList
<1>3. /\ Len(CloseList) = 9 /\ CloseList[1] = "quotas" /\ CloseList[2] = "permissions"
      /\ CloseList[3] = "kinds" /\ CloseList[4] = "idSeq" /\ CloseList[5] = "objDb"
      /\ CloseList[6] = "seqDb" /\ CloseList[7] = "indexDb" /\ CloseList[8] = "lock"
      /\ CloseList[9] = "bottom"
  BY <1>1 DEF CloseList
<1>4. OpenList \in Seq(Stages) /\ CloseList \in Seq(Stages)
  <2>1. EngineOpens \in Seq(Stages) /\ EngineCloses \in Seq(Stages)
    BY <1>1 DEF Stages
  <2> QED BY <2>1, ListsType
<1>5. OpenList = <<"version", "openLock", "lock", "bottom", "seqDb", "indexDb", "request", "objDb",
                  "idSeq", "kinds", "permissions", "quotas", "shards", "endRequest">>
  BY <1>2, <1>4, SeqEqual
<1>6. CloseList = <<"quotas", "permissions", "kinds", "idSeq", "objDb", "seqDb", "indexDb", "lock",
                   "bottom">>
  BY <1>3, <1>4, SeqEqual
<1> QED BY <1>4, <1>5, <1>6 DEF ListsOrdered, Before, Rest, Needs, Passing

\* Those of LMDB are.
LEMMA LmdbOrdered == kind = "lmdb" => ListsOrdered
<1> SUFFICES ASSUME kind = "lmdb" PROVE ListsOrdered
  OBVIOUS
<1>1. EngineOpens = <<"openLock", "lock", "env", "seqDb", "indexDb">> /\ EngineCloses = <<"seqDb", "indexDb", "env", "lock">>
  <2>1. EngineOpens = <<"openLock", "lock", "env">> \o <<"seqDb", "indexDb">>
        /\ EngineCloses = <<"seqDb", "indexDb">> \o <<"env", "lock">>
    BY DEF EngineOpens, LmdbOpens, EngineCloses, LmdbCloses, LmdbEnvOpens, LmdbEnvCloses
  <2>2. /\ Len(EngineOpens) = 5 /\ EngineOpens[1] = "openLock" /\ EngineOpens[2] = "lock"
        /\ EngineOpens[3] = "env" /\ EngineOpens[4] = "seqDb" /\ EngineOpens[5] = "indexDb"
        /\ Len(EngineCloses) = 4 /\ EngineCloses[1] = "seqDb" /\ EngineCloses[2] = "indexDb"
        /\ EngineCloses[3] = "env" /\ EngineCloses[4] = "lock"
    BY <2>1
  <2>3. EngineOpens \in Seq(Stages) /\ EngineCloses \in Seq(Stages)
    <3>1. /\ <<"openLock", "lock", "env">> \in Seq(Stages) /\ <<"seqDb", "indexDb">> \in Seq(Stages)
          /\ <<"env", "lock">> \in Seq(Stages)
      BY DEF Stages
    <3> QED BY <2>1, <3>1, ConcatProperties
  <2> QED BY <2>2, <2>3, SeqEqual
<1>2. /\ Len(OpenList) = 14 /\ OpenList[1] = "version" /\ OpenList[2] = "openLock"
      /\ OpenList[3] = "lock" /\ OpenList[4] = "env" /\ OpenList[5] = "seqDb" /\ OpenList[6] = "indexDb"
      /\ OpenList[7] = "request" /\ OpenList[8] = "objDb" /\ OpenList[9] = "idSeq"
      /\ OpenList[10] = "kinds" /\ OpenList[11] = "permissions" /\ OpenList[12] = "quotas"
      /\ OpenList[13] = "shards" /\ OpenList[14] = "endRequest"
  BY <1>1 DEF OpenList
<1>3. /\ Len(CloseList) = 9 /\ CloseList[1] = "quotas" /\ CloseList[2] = "permissions"
      /\ CloseList[3] = "kinds" /\ CloseList[4] = "idSeq" /\ CloseList[5] = "objDb"
      /\ CloseList[6] = "seqDb" /\ CloseList[7] = "indexDb" /\ CloseList[8] = "env"
      /\ CloseList[9] = "lock"
  BY <1>1 DEF CloseList
<1>4. OpenList \in Seq(Stages) /\ CloseList \in Seq(Stages)
  <2>1. EngineOpens \in Seq(Stages) /\ EngineCloses \in Seq(Stages)
    BY <1>1 DEF Stages
  <2> QED BY <2>1, ListsType
<1>5. OpenList = <<"version", "openLock", "lock", "env", "seqDb", "indexDb", "request", "objDb", "idSeq",
                  "kinds", "permissions", "quotas", "shards", "endRequest">>
  BY <1>2, <1>4, SeqEqual
<1>6. CloseList = <<"quotas", "permissions", "kinds", "idSeq", "objDb", "seqDb", "indexDb", "env",
                   "lock">>
  BY <1>3, <1>4, SeqEqual
<1> QED BY <1>4, <1>5, <1>6 DEF ListsOrdered, Before, Rest, Needs, Passing

\* Those of Berkeley DB are.
LEMMA BerkeleyOrdered == kind = "berkeley" => ListsOrdered
<1> SUFFICES ASSUME kind = "berkeley" PROVE ListsOrdered
  OBVIOUS
<1>1. EngineOpens = <<"openLock", "lock", "env", "seqDb", "indexDb">> /\ EngineCloses = <<"seqDb", "indexDb", "env", "lock">>
  <2>1. EngineOpens = <<"openLock", "lock", "env">> \o <<"seqDb", "indexDb">>
        /\ EngineCloses = <<"seqDb", "indexDb">> \o <<"env", "lock">>
    BY DEF EngineOpens, BerkeleyOpens, EngineCloses, BerkeleyCloses, BerkeleyEnvOpens, BerkeleyEnvCloses
  <2>2. /\ Len(EngineOpens) = 5 /\ EngineOpens[1] = "openLock" /\ EngineOpens[2] = "lock"
        /\ EngineOpens[3] = "env" /\ EngineOpens[4] = "seqDb" /\ EngineOpens[5] = "indexDb"
        /\ Len(EngineCloses) = 4 /\ EngineCloses[1] = "seqDb" /\ EngineCloses[2] = "indexDb"
        /\ EngineCloses[3] = "env" /\ EngineCloses[4] = "lock"
    BY <2>1
  <2>3. EngineOpens \in Seq(Stages) /\ EngineCloses \in Seq(Stages)
    <3>1. /\ <<"openLock", "lock", "env">> \in Seq(Stages) /\ <<"seqDb", "indexDb">> \in Seq(Stages)
          /\ <<"env", "lock">> \in Seq(Stages)
      BY DEF Stages
    <3> QED BY <2>1, <3>1, ConcatProperties
  <2> QED BY <2>2, <2>3, SeqEqual
<1>2. /\ Len(OpenList) = 14 /\ OpenList[1] = "version" /\ OpenList[2] = "openLock"
      /\ OpenList[3] = "lock" /\ OpenList[4] = "env" /\ OpenList[5] = "seqDb" /\ OpenList[6] = "indexDb"
      /\ OpenList[7] = "request" /\ OpenList[8] = "objDb" /\ OpenList[9] = "idSeq"
      /\ OpenList[10] = "kinds" /\ OpenList[11] = "permissions" /\ OpenList[12] = "quotas"
      /\ OpenList[13] = "shards" /\ OpenList[14] = "endRequest"
  BY <1>1 DEF OpenList
<1>3. /\ Len(CloseList) = 9 /\ CloseList[1] = "quotas" /\ CloseList[2] = "permissions"
      /\ CloseList[3] = "kinds" /\ CloseList[4] = "idSeq" /\ CloseList[5] = "objDb"
      /\ CloseList[6] = "seqDb" /\ CloseList[7] = "indexDb" /\ CloseList[8] = "env"
      /\ CloseList[9] = "lock"
  BY <1>1 DEF CloseList
<1>4. OpenList \in Seq(Stages) /\ CloseList \in Seq(Stages)
  <2>1. EngineOpens \in Seq(Stages) /\ EngineCloses \in Seq(Stages)
    BY <1>1 DEF Stages
  <2> QED BY <2>1, ListsType
<1>5. OpenList = <<"version", "openLock", "lock", "env", "seqDb", "indexDb", "request", "objDb", "idSeq",
                  "kinds", "permissions", "quotas", "shards", "endRequest">>
  BY <1>2, <1>4, SeqEqual
<1>6. CloseList = <<"quotas", "permissions", "kinds", "idSeq", "objDb", "seqDb", "indexDb", "env",
                   "lock">>
  BY <1>3, <1>4, SeqEqual
<1> QED BY <1>4, <1>5, <1>6 DEF ListsOrdered, Before, Rest, Needs, Passing

\* In every engine a stage comes after what it needs and goes before it.
LEMMA Ordered == kind \in Kinds => ListsOrdered
  BY LevelOrdered, SandwichOrdered, LmdbOrdered, BerkeleyOrdered DEF Kinds

-----------------------------------------------------------------------------
(* DbEngineLife: the invariant *)

ProcessRec ==
  [phase : {"closed", "opening", "open", "closing"}, at : Nat, held : SUBSET Stages, err : BOOLEAN,
   inode : Nat, locked : BOOLEAN, dropped : SUBSET Stages]

\* With a resource a process holds what that needs, but for databases that it dropped.
Backed(s) == \A r \in s.held : Needs(r) \subseteq s.held \cup (s.dropped \cap EngineDbs)

\* What a process holds follows from its place in the list: on the way up all stages
\* before it, on the way down only what is still to be closed; and what it holds is
\* backed.
PlaceInv(s) ==
  /\ s.phase = "opening" =>
       /\ s.at \in 1..Len(OpenList) /\ s.held = Before(s.at) \ Passing
       /\ "openLock" \in Before(s.at) => s.inode # 0
       /\ s.locked => "lock" \in Before(s.at)
  /\ s.phase = "open" => s.held \subseteq Rest(1)
  /\ s.phase = "closing" =>
       /\ s.at \in 1..Len(CloseList) /\ s.held \subseteq Rest(s.at)
       /\ s.inode # 0 => "lock" \in Rest(s.at)
  /\ s.phase = "closed" => s.held = {} /\ s.inode = 0
  /\ Backed(s)
  /\ s.locked => s.inode # 0

\* A lock file has one owner; without a race it is the one the name leads to.
LockInv ==
  /\ lockFile \in 0..inodes /\ \A p \in Processes : process[p].inode \in 0..inodes
  /\ \A p, q \in Processes : process[p].locked /\ process[q].locked /\ process[p].inode = process[q].inode => p = q
  /\ ~raced => \A p \in Processes :
       (process[p].locked \/ process[p].phase = "opening") /\ process[p].inode # 0 => process[p].inode = lockFile

LifeTypes ==
  /\ kind \in Kinds /\ process \in [Processes -> ProcessRec]
  /\ lockFile \in Nat /\ inodes \in Nat /\ raced \in BOOLEAN

LifeInv == LifeTypes /\ LockInv /\ \A p \in Processes : PlaceInv(process[p])

\* The lists and needs are those of the engine in use.
LEMMA KindSame ==
  ASSUME kind' = kind
  PROVE  OpenList' = OpenList /\ CloseList' = CloseList /\ \A r : Needs(r)' = Needs(r)
<1>1. EngineOpens' = EngineOpens /\ EngineCloses' = EngineCloses
  BY DEF EngineOpens, EngineCloses
<1>2. OpenList' = OpenList /\ CloseList' = CloseList
  BY <1>1 DEF OpenList, CloseList
<1>3. ASSUME NEW r PROVE Needs(r)' = Needs(r)
  BY DEF Needs
<1> QED BY <1>2, <1>3

\* A process that stays where it is holds what its place says.
LEMMA PlaceSame ==
  ASSUME kind' = kind, NEW q \in Processes, PlaceInv(process'[q])
  PROVE  PlaceInv(process[q])'
<1>1. OpenList' = OpenList /\ CloseList' = CloseList /\ \A r : Needs(r)' = Needs(r)
  BY KindSame
<1>2. /\ \A i : Before(i) = {OpenList[j] : j \in 1..(i - 1)}
      /\ \A i : Rest(i) = {CloseList[j] : j \in i..Len(CloseList)}
  BY DEF Before, Rest
<1>3. /\ Before(process[q].at)' = Before(process'[q].at)
      /\ Rest(process[q].at)' = Rest(process'[q].at) /\ Rest(1)' = Rest(1)
  BY <1>1, <1>2 DEF Before, Rest
<1>4. Backed(process[q])' <=> Backed(process'[q])
  BY <1>1 DEF Backed
<1> QED BY <1>1, <1>3, <1>4 DEF PlaceInv

\* A step of one process that leaves the lock files alone.
LEMMA GoesKeeps ==
  ASSUME LifeInv, NEW p \in Processes, NEW s \in ProcessRec, Goes(p, s), PlaceInv(s),
         UNCHANGED <<kind, lockFile, inodes, raced>>,
         s.inode \in {0, process[p].inode},
         s.locked => process[p].locked,
         s.phase = "opening" => s.inode = 0 \/ process[p].phase = "opening"
  PROVE  LifeInv'
<1>1. /\ process' \in [Processes -> ProcessRec] /\ process'[p] = s
      /\ \A q \in Processes \ {p} : process'[q] = process[q]
      /\ kind' = kind /\ lockFile' = lockFile /\ inodes' = inodes /\ raced' = raced
  BY DEF Goes, LifeInv, LifeTypes
<1>2. LifeTypes'
  BY <1>1 DEF LifeInv, LifeTypes
<1>3. \A q \in Processes : PlaceInv(process'[q])
  BY <1>1 DEF LifeInv
<1>4. \A q \in Processes : PlaceInv(process[q])'
  BY <1>1, <1>3, PlaceSame
<1>5. \A q \in Processes : process'[q].inode \in {0, process[q].inode} /\ (process'[q].locked => process[q].locked)
  BY <1>1
<1>6. s.locked => s.inode # 0
  BY DEF PlaceInv
<1>7. LockInv'
  <2>1. \A q \in Processes : process'[q].inode \in 0..inodes
    BY <1>5 DEF LifeInv, LockInv, LifeTypes
  <2>2. \A q, r \in Processes : process'[q].locked /\ process'[r].locked /\ process'[q].inode = process'[r].inode => q = r
    BY <1>1, <1>5, <1>6 DEF LifeInv, LockInv, PlaceInv
  <2>3. ~raced => \A q \in Processes :
          (process'[q].locked \/ process'[q].phase = "opening") /\ process'[q].inode # 0 => process'[q].inode = lockFile
    BY <1>1, <1>5 DEF LifeInv, LockInv
  <2> QED BY <1>1, <2>1, <2>2, <2>3 DEF LifeInv, LockInv
<1> QED BY <1>2, <1>4, <1>7 DEF LifeInv

\* What the stages before need is held.
LEMMA NeedsBefore ==
  ASSUME ListsOrdered, NEW i \in 1..(Len(OpenList) + 1)
  PROVE  /\ \A r \in Before(i) : Needs(r) \subseteq Before(i) \ (Passing \cup {"request", "endRequest"})
         /\ i <= Len(OpenList) => Before(i) \subseteq Passing \cup {"request"} \cup Rest(1)
         /\ i <= Len(OpenList) => Before(i + 1) = Before(i) \cup {OpenList[i]}
<1>1. Len(OpenList) \in Nat \ {0}
  BY DEF ListsOrdered
<1>2. ASSUME NEW j \in 1..(i - 1) PROVE Needs(OpenList[j]) \subseteq Before(i) \ (Passing \cup {"request", "endRequest"})
  <2>1. j \in 1..Len(OpenList)
    BY <1>1
  <2>2. Needs(OpenList[j]) \subseteq Before(j) \ (Passing \cup {"request", "endRequest"})
    BY <2>1 DEF ListsOrdered
  <2>3. 1..(j - 1) \subseteq 1..(i - 1)
    OBVIOUS
  <2>4. Before(j) \subseteq Before(i)
    BY <2>3 DEF Before
  <2> QED BY <2>2, <2>4
<1>3. ASSUME i <= Len(OpenList), NEW j \in 1..(i - 1) PROVE OpenList[j] \in Passing \cup {"request"} \cup Rest(1)
  <2>1. j \in 1..Len(OpenList) /\ j # Len(OpenList)
    BY <1>1, <1>3
  <2> QED BY <2>1 DEF ListsOrdered
<1>4. 1..i = 1..(i - 1) \cup {i}
  OBVIOUS
<1>5. (i + 1) - 1 = i
  OBVIOUS
<1> QED BY <1>2, <1>3, <1>4, <1>5 DEF Before

\* A stage of open() that succeeds.
LEMMA AdvanceKeeps ==
  ASSUME LifeInv, NEW p \in Processes, process[p].phase = "opening",
         NEW t \in ProcessRec, t.phase = "opening", t.at = process[p].at,
         t.held = IF Stage(p) = "endRequest" THEN process[p].held \ {"request"}
                  ELSE process[p].held \cup ({Stage(p)} \ Passing),
         t.locked => t.inode # 0 /\ (Stage(p) = "lock" \/ "lock" \in Before(t.at)),
         Stage(p) = "openLock" \/ "openLock" \in Before(t.at) => t.inode # 0
  PROVE  LET s == Advance(t)
         IN  /\ s \in ProcessRec /\ PlaceInv(s) /\ s.inode = t.inode /\ s.locked = t.locked
             /\ s.phase \in {"opening", "open"}
<1> DEFINE i == t.at
           n == Len(OpenList)
           s == Advance(t)
<1>1. ListsOrdered
  BY Ordered DEF LifeInv, LifeTypes
<1>2. PlaceInv(process[p])
  BY DEF LifeInv
<1>3. i \in 1..n /\ i \in 1..(n + 1) /\ process[p].held = Before(i) \ Passing /\ Stage(p) = OpenList[i]
  BY <1>1, <1>2 DEF PlaceInv, Stage, ListsOrdered
<1>4. Stage(p) = "endRequest" <=> i = n
  BY <1>1, <1>3 DEF ListsOrdered
<1>5. CASE i = n
  <2>1. s = [t EXCEPT !.phase = "open", !.at = 1]
    BY <1>5 DEF Advance
  <2>3. t.held = (Before(i) \ Passing) \ {"request"}
    BY <1>3, <1>4, <1>5
  <2> HIDE DEF s, i
  <2>2. /\ s \in ProcessRec /\ s.phase = "open" /\ s.held = t.held /\ s.inode = t.inode /\ s.locked = t.locked
    <3>1. s \in ProcessRec
      BY <2>1 DEF ProcessRec
    <3>2. s.phase = "open" /\ s.held = t.held
      BY <2>1 DEF ProcessRec
    <3>3. s.inode = t.inode /\ s.locked = t.locked
      BY <2>1 DEF ProcessRec
    <3> QED BY <3>1, <3>2, <3>3
  <2>4. t.held \subseteq Rest(1)
    BY <1>1, <1>3, <2>3, NeedsBefore
  <2>5. \A r \in t.held : Needs(r) \subseteq t.held
    BY <1>1, <1>3, <2>3, NeedsBefore
  <2>6. PlaceInv(s)
    BY <2>2, <2>4, <2>5 DEF PlaceInv, Backed
  <2> QED BY <2>2, <2>6 DEF s
<1>6. CASE i # n
  <2>1. s = [t EXCEPT !.at = i + 1]
    BY <1>6 DEF Advance
  <2>2. /\ s \in ProcessRec /\ s.phase = "opening" /\ s.held = t.held /\ s.inode = t.inode /\ s.locked = t.locked
        /\ s.at = i + 1
    BY <2>1 DEF ProcessRec
  <2>3. n \in Nat /\ i + 1 \in 1..n /\ i + 1 \in 1..(n + 1)
    BY <1>1, <1>3, <1>6 DEF ListsOrdered
  <2>4. Before(i + 1) = Before(i) \cup {OpenList[i]}
    BY <1>1, <1>3, NeedsBefore
  <2>5. t.held = Before(i + 1) \ Passing
    BY <1>3, <1>4, <1>6, <2>4
  <2>6. \A r \in Before(i + 1) : Needs(r) \subseteq Before(i + 1) \ Passing
    <3> DEFINE m == i + 1
    <3>1. m \in 1..(n + 1)
      BY <2>3
    <3> HIDE DEF m
    <3>2. \A r \in Before(m) : Needs(r) \subseteq Before(m) \ (Passing \cup {"request", "endRequest"})
      BY <1>1, <3>1, NeedsBefore
    <3> QED BY <3>2 DEF m
  <2>7. ("openLock" \in Before(i + 1) => t.inode # 0) /\ (t.locked => "lock" \in Before(i + 1))
    BY <1>3, <2>4
  <2> HIDE DEF s, i, n
  <2>8. PlaceInv(s)
    BY <2>2, <2>3, <2>5, <2>6, <2>7 DEF PlaceInv, Backed, n
  <2> QED BY <2>2, <2>8 DEF s
<1> QED BY <1>5, <1>6

\* MojDb::open() starts with an empty list behind it.
LEMMA OpenKeepsLife == ASSUME LifeInv, NEW p \in Processes, OpenDb(p) PROVE LifeInv'
<1> DEFINE s == [Idle EXCEPT !.phase = "opening"]
<1>1. /\ Idle \in ProcessRec /\ Idle.at = 1 /\ Idle.held = {} /\ Idle.inode = 0 /\ ~Idle.locked
  BY DEF Idle, ProcessRec
<1>2. s \in ProcessRec /\ s.phase = "opening" /\ s.at = 1 /\ s.held = {} /\ s.inode = 0 /\ ~s.locked
  <2>1. s \in ProcessRec
    BY <1>1 DEF ProcessRec
  <2>2. s.phase = "opening" /\ s.at = 1 /\ s.held = {}
    BY <1>1 DEF ProcessRec
  <2>3. s.inode = 0 /\ ~s.locked
    BY <1>1 DEF ProcessRec
  <2> QED BY <2>1, <2>2, <2>3
<1>3. Goes(p, s) /\ UNCHANGED <<kind, lockFile, inodes, raced>>
  BY DEF OpenDb
<1> HIDE DEF s
<1>4. Before(1) = {} /\ 1 \in 1..Len(OpenList)
  BY Ordered DEF LifeInv, LifeTypes, ListsOrdered, Before
<1>5. PlaceInv(s)
  BY <1>2, <1>4 DEF PlaceInv, Backed
<1> QED BY <1>2, <1>3, <1>5, GoesKeeps

\* Version keeps the invariant.
LEMMA VersionKeeps == ASSUME LifeInv, NEW p \in Processes, CheckDbVersion(p) PROVE LifeInv'
<1> DEFINE t == process[p]
<1>1. t \in ProcessRec /\ t.phase = "opening" /\ Stage(p) = "version" /\ PlaceInv(t)
  BY DEF CheckDbVersion, LifeInv, LifeTypes
<1>2. t.held = IF Stage(p) = "endRequest" THEN process[p].held \ {"request"}
               ELSE process[p].held \cup ({Stage(p)} \ Passing)
  BY <1>1 DEF Passing
<1>3. /\ Stage(p) = "openLock" \/ "openLock" \in Before(t.at) => t.inode # 0
      /\ t.locked => t.inode # 0 /\ "lock" \in Before(t.at)
  BY <1>1 DEF PlaceInv
<1> DEFINE s == Advance(t)
<1>4. /\ s \in ProcessRec /\ PlaceInv(s) /\ s.inode = t.inode /\ s.locked = t.locked /\ s.phase \in {"opening", "open"}
  BY <1>1, <1>2, <1>3, AdvanceKeeps
<1>5. Goes(p, s) /\ UNCHANGED <<kind, lockFile, inodes, raced>>
  BY DEF CheckDbVersion
<1> HIDE DEF s
<1> QED BY <1>1, <1>4, <1>5, GoesKeeps

\* Acquire keeps the invariant.
LEMMA AcquireKeeps == ASSUME LifeInv, NEW p \in Processes, Acquire(p) PROVE LifeInv'
<1> DEFINE r == Stage(p)
           t == [process[p] EXCEPT !.held = Holding(process[p].held, r)]
           s == Advance(t)
<1>1. /\ process[p] \in ProcessRec /\ process[p].phase = "opening" /\ PlaceInv(process[p])
      /\ r \notin {"version", "openLock", "lock"}
      /\ Goes(p, s) /\ UNCHANGED <<kind, lockFile, inodes, raced>>
  BY DEF Acquire, LifeInv, LifeTypes
<1>2. r \in Stages
  <2>1. OpenList \in Seq(Stages) /\ process[p].at \in 1..Len(OpenList)
    BY <1>1, Ordered DEF LifeInv, LifeTypes, PlaceInv, ListsOrdered
  <2> QED BY <2>1 DEF Stage
<1> HIDE DEF r
<1>3. Holding(process[p].held, r) = IF r = "endRequest" THEN process[p].held \ {"request"}
                                    ELSE process[p].held \cup ({r} \ Passing)
  BY <1>1 DEF Holding, Passing
<1>4. /\ t \in ProcessRec /\ t.phase = "opening" /\ t.at = process[p].at /\ t.inode = process[p].inode
      /\ t.locked = process[p].locked /\ t.held = Holding(process[p].held, r)
  BY <1>1, <1>2, <1>3 DEF ProcessRec
<1>5. /\ r = "openLock" \/ "openLock" \in Before(t.at) => t.inode # 0
      /\ t.locked => t.inode # 0 /\ "lock" \in Before(t.at)
  BY <1>1, <1>4 DEF PlaceInv
<1> HIDE DEF t
<1>6. /\ s \in ProcessRec /\ PlaceInv(s) /\ s.inode = t.inode /\ s.locked = t.locked /\ s.phase \in {"opening", "open"}
  BY <1>1, <1>3, <1>4, <1>5, AdvanceKeeps DEF r
<1> HIDE DEF s
<1> QED BY <1>1, <1>4, <1>6, GoesKeeps

\* Before its lock a process has none.
LEMMA AtLock ==
  ASSUME LifeInv, NEW p \in Processes, process[p].phase = "opening", Stage(p) = "lock"
  PROVE  /\ ~process[p].locked /\ process[p].inode # 0
         /\ process[p].held \subseteq Rest(1) /\ "request" \notin process[p].held
<1>1. ListsOrdered /\ PlaceInv(process[p])
  BY Ordered DEF LifeInv, LifeTypes
<1> DEFINE i == process[p].at
<1>2. i \in 1..Len(OpenList) /\ i \in 1..(Len(OpenList) + 1) /\ OpenList[i] = "lock" /\ process[p].held = Before(i) \ Passing
  BY <1>1 DEF PlaceInv, Stage, ListsOrdered
<1>3. "openLock" \in Before(i) /\ {"lock", "request"} \cap Before(i) = {}
  BY <1>1, <1>2 DEF ListsOrdered
<1>4. Before(i) \subseteq Passing \cup {"request"} \cup Rest(1)
  <2> HIDE DEF i
  <2> QED BY <1>1, <1>2, NeedsBefore DEF ListsOrdered
<1> QED BY <1>1, <1>2, <1>3, <1>4 DEF PlaceInv

\* LockDir keeps the invariant.
LEMMA LockDirKeeps == ASSUME LifeInv, NEW p \in Processes, LockDir(p) PROVE LifeInv'
<1> DEFINE t == [process[p] EXCEPT !.locked = TRUE, !.held = @ \cup {"lock"}]
           s == Advance(t)
<1>1. /\ process[p] \in ProcessRec /\ process[p].phase = "opening" /\ PlaceInv(process[p]) /\ Stage(p) = "lock"
      /\ LockedBy(process[p].inode) = {}
      /\ Goes(p, s) /\ UNCHANGED <<kind, lockFile, inodes, raced>>
  BY DEF LockDir, LifeInv, LifeTypes
<1>2. ~process[p].locked /\ process[p].inode # 0
  BY <1>1, AtLock
<1>3. /\ t \in ProcessRec /\ t.phase = "opening" /\ t.at = process[p].at /\ t.inode = process[p].inode
      /\ t.locked /\ t.held = process[p].held \cup {"lock"}
  <2>1. t \in ProcessRec
    BY <1>1 DEF ProcessRec, Stages
  <2>2. t.phase = "opening" /\ t.at = process[p].at /\ t.inode = process[p].inode
    BY <1>1 DEF ProcessRec
  <2>3. t.locked /\ t.held = process[p].held \cup {"lock"}
    BY <1>1 DEF ProcessRec
  <2> QED BY <2>1, <2>2, <2>3
<1> HIDE DEF t
<1>4. t.held = IF Stage(p) = "endRequest" THEN process[p].held \ {"request"}
               ELSE process[p].held \cup ({Stage(p)} \ Passing)
  BY <1>1, <1>3 DEF Passing
<1>5. /\ s \in ProcessRec /\ PlaceInv(s) /\ s.inode = t.inode /\ s.locked = t.locked /\ s.phase \in {"opening", "open"}
  BY <1>1, <1>2, <1>3, <1>4, AdvanceKeeps
<1> HIDE DEF s
<1>6. /\ process' \in [Processes -> ProcessRec] /\ process'[p] = s
      /\ \A q \in Processes \ {p} : process'[q] = process[q]
  BY <1>1, <1>5 DEF Goes, LifeInv, LifeTypes
<1>7. LifeTypes'
  BY <1>1, <1>6 DEF LifeInv, LifeTypes
<1>8. \A q \in Processes : PlaceInv(process[q])'
  <2>1. \A q \in Processes : PlaceInv(process'[q])
    BY <1>5, <1>6 DEF LifeInv
  <2> QED BY <1>1, <2>1, PlaceSame
<1>9. \A q \in Processes : process'[q].inode = process[q].inode
  BY <1>3, <1>5, <1>6
<1>10. \A q \in Processes : process[q].locked => process[q].inode # process[p].inode
  BY <1>1 DEF LockedBy
<1>11. \A q, r \in Processes : process'[q].locked /\ process'[r].locked /\ process'[q].inode = process'[r].inode => q = r
  BY <1>6, <1>9, <1>10 DEF LifeInv, LockInv
<1>12. \A q \in Processes : process'[q].locked \/ process'[q].phase = "opening" => process[q].locked \/ process[q].phase = "opening"
  BY <1>1, <1>6
<1>13. LockInv'
  BY <1>1, <1>9, <1>11, <1>12 DEF LifeInv, LockInv
<1> QED BY <1>7, <1>8, <1>13 DEF LifeInv

\* A process opens the lock file before it holds the lock.
LEMMA OpenLockFirst ==
  ASSUME LifeInv, NEW p \in Processes, process[p].phase = "opening", Stage(p) = "openLock"
  PROVE  ~process[p].locked
<1>1. ListsOrdered /\ PlaceInv(process[p])
  BY Ordered DEF LifeInv, LifeTypes
<1> QED BY <1>1 DEF PlaceInv, Stage, ListsOrdered

\* OpenLock keeps the invariant.
LEMMA OpenLockKeeps == ASSUME LifeInv, NEW p \in Processes, OpenLockFile(p) PROVE LifeInv'
<1> DEFINE n == IF lockFile = 0 THEN inodes + 1 ELSE inodes
           f == IF lockFile = 0 THEN n ELSE lockFile
           t == [process[p] EXCEPT !.inode = f]
           s == Advance(t)
<1>1. /\ process[p] \in ProcessRec /\ process[p].phase = "opening" /\ PlaceInv(process[p]) /\ Stage(p) = "openLock"
      /\ inodes' = n /\ lockFile' = f /\ kind' = kind /\ raced' = raced
      /\ Goes(p, s)
  <2>1. inodes' = n /\ lockFile' = f
    BY DEF OpenLockFile
  <2> QED BY <2>1 DEF OpenLockFile, LifeInv, LifeTypes
<1>2. /\ lockFile \in Nat /\ inodes \in Nat /\ lockFile <= inodes
      /\ n \in Nat /\ inodes <= n /\ f \in 1..n
  BY DEF LifeInv, LifeTypes, LockInv
<1>3. lockFile # 0 => f = lockFile /\ n = inodes
  OBVIOUS
<1> HIDE DEF n, f
<1>4. /\ t \in ProcessRec /\ t.phase = "opening" /\ t.at = process[p].at /\ t.inode = f
      /\ t.locked = process[p].locked /\ t.held = process[p].held
  BY <1>1, <1>2 DEF ProcessRec
<1> HIDE DEF t
<1>5. t.held = IF Stage(p) = "endRequest" THEN process[p].held \ {"request"}
               ELSE process[p].held \cup ({Stage(p)} \ Passing)
  BY <1>1, <1>4 DEF Passing
<1>6. t.locked => "lock" \in Before(t.at)
  BY <1>1, <1>4 DEF PlaceInv
<1>7. /\ s \in ProcessRec /\ PlaceInv(s) /\ s.inode = t.inode /\ s.locked = t.locked /\ s.phase \in {"opening", "open"}
  <2>1. t.inode # 0
    BY <1>2, <1>4
  <2> QED BY <1>1, <1>4, <1>5, <1>6, <2>1, AdvanceKeeps
<1> HIDE DEF s
<1>8. /\ process' \in [Processes -> ProcessRec] /\ process'[p] = s
      /\ \A q \in Processes \ {p} : process'[q] = process[q]
  BY <1>1, <1>7 DEF Goes, LifeInv, LifeTypes
<1>9. LifeTypes'
  BY <1>1, <1>2, <1>8 DEF LifeInv, LifeTypes
<1>10. \A q \in Processes : PlaceInv(process[q])'
  <2>1. \A q \in Processes : PlaceInv(process'[q])
    BY <1>7, <1>8 DEF LifeInv
  <2> QED BY <1>1, <2>1, PlaceSame
<1>11. ~process[p].locked
  BY <1>1, OpenLockFirst
<1>12. \A q \in Processes : process'[q].inode \in 0..n
  BY <1>2, <1>4, <1>7, <1>8 DEF LifeInv, LockInv
<1>13. \A q, r \in Processes : process'[q].locked /\ process'[r].locked /\ process'[q].inode = process'[r].inode => q = r
  BY <1>4, <1>7, <1>8, <1>11 DEF LifeInv, LockInv
<1>14. ~raced => \A q \in Processes :
         (process'[q].locked \/ process'[q].phase = "opening") /\ process'[q].inode # 0 => process'[q].inode = f
  BY <1>2, <1>3, <1>4, <1>7, <1>8 DEF LifeInv, LockInv
<1>15. LockInv'
  BY <1>1, <1>2, <1>12, <1>13, <1>14 DEF LifeInv, LockInv
<1> QED BY <1>9, <1>10, <1>15 DEF LifeInv

\* A process that begins to close holds only what the list of close() gives back.
LEMMA ClosingStarts ==
  ASSUME LifeInv, NEW p \in Processes, NEW s \in ProcessRec, s.phase = "closing", s.at = 1,
         s.held \subseteq Rest(1), Backed(s),
         s.locked => s.inode # 0, s.inode \in {0, process[p].inode}, s.locked => process[p].locked,
         Goes(p, s), UNCHANGED <<kind, lockFile, inodes, raced>>
  PROVE  LifeInv'
<1>1. ListsOrdered
  BY Ordered DEF LifeInv, LifeTypes
<1>2. 1 \in 1..Len(CloseList) /\ "lock" \in Rest(1)
  BY <1>1 DEF ListsOrdered
<1>3. PlaceInv(s)
  BY <1>2 DEF PlaceInv
<1> QED BY <1>3, GoesKeeps

\* Fail keeps the invariant.
LEMMA FailKeeps == ASSUME LifeInv, NEW p \in Processes, Fail(p) PROVE LifeInv'
<1> DEFINE s == [process[p] EXCEPT !.phase = "closing", !.at = 1, !.err = TRUE, !.held = @ \ {"request"}]
           i == process[p].at
<1>1. /\ process[p] \in ProcessRec /\ process[p].phase = "opening" /\ PlaceInv(process[p]) /\ ListsOrdered
      /\ Goes(p, s) /\ UNCHANGED <<kind, lockFile, inodes, raced>>
  BY Ordered DEF Fail, LifeInv, LifeTypes
<1>2. /\ s \in ProcessRec /\ s.phase = "closing" /\ s.at = 1 /\ s.held = process[p].held \ {"request"}
      /\ s.inode = process[p].inode /\ s.locked = process[p].locked
  <2>1. s \in ProcessRec
    BY <1>1 DEF ProcessRec
  <2>2. s.phase = "closing" /\ s.at = 1 /\ s.held = process[p].held \ {"request"}
    BY <1>1 DEF ProcessRec
  <2>3. s.inode = process[p].inode /\ s.locked = process[p].locked
    BY <1>1 DEF ProcessRec
  <2> QED BY <2>1, <2>2, <2>3
<1> HIDE DEF s
<1>3. i \in 1..Len(OpenList) /\ i \in 1..(Len(OpenList) + 1) /\ process[p].held = Before(i) \ Passing
  BY <1>1 DEF PlaceInv, ListsOrdered
<1>4. /\ \A r \in Before(i) : Needs(r) \subseteq Before(i) \ (Passing \cup {"request", "endRequest"})
      /\ Before(i) \subseteq Passing \cup {"request"} \cup Rest(1)
  <2>1. i <= Len(OpenList)
    BY <1>1, <1>3 DEF ListsOrdered
  <2> HIDE DEF i
  <2>2. \A r \in Before(i) : Needs(r) \subseteq Before(i) \ (Passing \cup {"request", "endRequest"})
    BY <1>1, <1>3, NeedsBefore
  <2>3. Before(i) \subseteq Passing \cup {"request"} \cup Rest(1)
    BY <1>1, <1>3, <2>1, NeedsBefore
  <2> QED BY <2>2, <2>3
<1>5. s.held \subseteq Rest(1) /\ Backed(s)
  BY <1>2, <1>3, <1>4 DEF Backed
<1>6. process[p].locked => process[p].inode # 0
  BY <1>1 DEF PlaceInv
<1> QED BY <1>1, <1>2, <1>5, <1>6, ClosingStarts

\* LockedOut keeps the invariant.
LEMMA LockedOutKeeps == ASSUME LifeInv, NEW p \in Processes, LockedOut(p) PROVE LifeInv'
<1> DEFINE s == [process[p] EXCEPT !.phase = "closing", !.at = 1, !.err = TRUE, !.inode = 0]
<1>1. /\ process[p] \in ProcessRec /\ process[p].phase = "opening" /\ PlaceInv(process[p]) /\ Stage(p) = "lock"
      /\ Goes(p, s) /\ UNCHANGED <<kind, lockFile, inodes, raced>>
  BY DEF LockedOut, LifeInv, LifeTypes
<1>2. /\ s \in ProcessRec /\ s.phase = "closing" /\ s.at = 1 /\ s.held = process[p].held
      /\ s.inode = 0 /\ s.locked = process[p].locked /\ s.dropped = process[p].dropped
  <2>1. s \in ProcessRec
    BY <1>1 DEF ProcessRec
  <2>2. s.phase = "closing" /\ s.at = 1 /\ s.held = process[p].held /\ s.dropped = process[p].dropped
    BY <1>1 DEF ProcessRec
  <2>3. s.inode = 0 /\ s.locked = process[p].locked
    BY <1>1 DEF ProcessRec
  <2> QED BY <2>1, <2>2, <2>3
<1> HIDE DEF s
<1>3. ~process[p].locked /\ process[p].held \subseteq Rest(1)
  BY <1>1, AtLock
<1>4. Backed(s)
  BY <1>1, <1>2 DEF PlaceInv, Backed
<1> QED BY <1>1, <1>2, <1>3, <1>4, ClosingStarts

\* A lock file removed without its lock leaves either nobody with it or a race.
LEMMA LockFailsKeeps == ASSUME LifeInv, NEW p \in Processes, LockFails(p) PROVE LifeInv'
<1> DEFINE s == [process[p] EXCEPT !.phase = "closing", !.at = 1, !.err = TRUE, !.inode = 0]
<1>1. /\ process[p] \in ProcessRec /\ process[p].phase = "opening" /\ PlaceInv(process[p]) /\ Stage(p) = "lock"
      /\ lockFile' = 0 /\ inodes' = inodes /\ kind' = kind
      /\ raced' = (raced \/ \E q \in Processes \ {p} : process[q].inode # 0)
      /\ Goes(p, s)
  BY DEF LockFails, LifeInv, LifeTypes
<1>2. /\ s \in ProcessRec /\ s.phase = "closing" /\ s.at = 1 /\ s.held = process[p].held
      /\ s.inode = 0 /\ s.locked = process[p].locked /\ s.dropped = process[p].dropped
  <2>1. s \in ProcessRec
    BY <1>1 DEF ProcessRec
  <2>2. s.phase = "closing" /\ s.at = 1 /\ s.held = process[p].held /\ s.dropped = process[p].dropped
    BY <1>1 DEF ProcessRec
  <2>3. s.inode = 0 /\ s.locked = process[p].locked
    BY <1>1 DEF ProcessRec
  <2> QED BY <2>1, <2>2, <2>3
<1> HIDE DEF s
<1>3. ~s.locked /\ s.held \subseteq Rest(1)
  BY <1>1, <1>2, AtLock
<1>4. PlaceInv(s)
  <2>1. Backed(s)
    BY <1>1, <1>2 DEF PlaceInv, Backed
  <2>2. 1 \in 1..Len(CloseList)
    BY Ordered DEF LifeInv, LifeTypes, ListsOrdered
  <2> QED BY <1>2, <1>3, <2>1, <2>2 DEF PlaceInv
<1>5. /\ process' \in [Processes -> ProcessRec] /\ process'[p] = s
      /\ \A q \in Processes \ {p} : process'[q] = process[q]
  BY <1>1, <1>2 DEF Goes, LifeInv, LifeTypes
<1>6. LifeTypes'
  BY <1>1, <1>5 DEF LifeInv, LifeTypes
<1>7. \A q \in Processes : PlaceInv(process[q])'
  <2>1. \A q \in Processes : PlaceInv(process'[q])
    BY <1>4, <1>5 DEF LifeInv
  <2> QED BY <1>1, <2>1, PlaceSame
<1>8. /\ \A q \in Processes : process'[q].inode \in {0, process[q].inode}
      /\ \A q \in Processes : process'[q].locked => q # p /\ process[q].locked /\ process'[q].inode = process[q].inode
  BY <1>2, <1>3, <1>5
<1>9. LockInv'
  <2>1. lockFile' \in 0..inodes' /\ \A q \in Processes : process'[q].inode \in 0..inodes'
    BY <1>1, <1>8 DEF LifeInv, LifeTypes, LockInv
  <2>2. \A q, r \in Processes : process'[q].locked /\ process'[r].locked /\ process'[q].inode = process'[r].inode => q = r
    BY <1>8 DEF LifeInv, LockInv
  <2>3. ~raced' => \A q \in Processes :
          (process'[q].locked \/ process'[q].phase = "opening") /\ process'[q].inode # 0 => process'[q].inode = lockFile'
    <3> SUFFICES ASSUME ~raced', NEW q \in Processes, process'[q].inode # 0 PROVE FALSE
      OBVIOUS
    <3>1. q # p
      BY <1>2, <1>5
    <3>2. ~(\E r \in Processes \ {p} : process[r].inode # 0)
      BY <1>1
    <3> QED BY <1>5, <3>1, <3>2
  <2> QED BY <2>1, <2>2, <2>3 DEF LockInv
<1> QED BY <1>6, <1>7, <1>9 DEF LifeInv

\* CloseDb keeps the invariant.
LEMMA CloseDbKeeps == ASSUME LifeInv, NEW p \in Processes, CloseDb(p) PROVE LifeInv'
<1> DEFINE s == [process[p] EXCEPT !.phase = "closing", !.at = 1]
<1>1. /\ process[p] \in ProcessRec /\ process[p].phase = "open" /\ PlaceInv(process[p])
      /\ Goes(p, s) /\ UNCHANGED <<kind, lockFile, inodes, raced>>
  BY DEF CloseDb, LifeInv, LifeTypes
<1>2. /\ s \in ProcessRec /\ s.phase = "closing" /\ s.at = 1 /\ s.held = process[p].held
      /\ s.inode = process[p].inode /\ s.locked = process[p].locked /\ s.dropped = process[p].dropped
  <2>1. s \in ProcessRec
    BY <1>1 DEF ProcessRec
  <2>2. s.phase = "closing" /\ s.at = 1 /\ s.held = process[p].held
    BY <1>1 DEF ProcessRec
  <2>3. s.inode = process[p].inode /\ s.locked = process[p].locked /\ s.dropped = process[p].dropped
    BY <1>1 DEF ProcessRec
  <2> QED BY <2>1, <2>2, <2>3
<1> HIDE DEF s
<1>3. /\ process[p].held \subseteq Rest(1) /\ Backed(s)
      /\ process[p].locked => process[p].inode # 0
  BY <1>1, <1>2 DEF PlaceInv, Backed
<1> QED BY <1>1, <1>2, <1>3, ClosingStarts

\* drop() closes a sequence that nothing needs and databases.
LEMMA DropListIs == ASSUME NEW n \in 0..Len(DropList) PROVE {DropList[i] : i \in 1..n} \subseteq {"idSeq"} \cup EngineDbs
<1>1. CASE kind \in {"level", "berkeley"}
  <2>1. DropList = <<"idSeq", "seqDb", "indexDb", "objDb">>
    BY <1>1 DEF DropList
  <2>2. \A i \in 1..n : i \in {1, 2, 3, 4}
    BY <2>1
  <2> QED BY <2>1, <2>2 DEF EngineDbs
<1>2. CASE kind \notin {"level", "berkeley"}
  <2>1. DropList = <<"idSeq">>
    BY <1>2 DEF DropList
  <2>2. \A i \in 1..n : i = 1
    BY <2>1
  <2> QED BY <2>1, <2>2
<1> QED BY <1>1, <1>2

\* Drop keeps the invariant, whether it ends in an open database or goes on to close.
LEMMA DropKeeps == ASSUME LifeInv, NEW p \in Processes, Drop(p) PROVE LifeInv'
<1>1. /\ process[p] \in ProcessRec /\ process[p].phase = "open" /\ PlaceInv(process[p])
      /\ UNCHANGED <<kind, lockFile, inodes, raced>>
  BY DEF Drop, LifeInv, LifeTypes
<1> DEFINE gone(n) == process[p].held \cap {DropList[i] : i \in 1..n}
           left(n) == [process[p] EXCEPT !.held = @ \ gone(n), !.dropped = @ \cup gone(n)]
           closing(n) == [left(n) EXCEPT !.phase = "closing", !.at = 1]
<1>2. PICK n \in 0..Len(DropList) : Goes(p, left(n)) \/ Goes(p, closing(n))
  BY Zenon DEF Drop
<1> DEFINE g == gone(n)
           s == left(n)
           t == closing(n)
<1>3. g \subseteq process[p].held /\ g \subseteq {"idSeq"} \cup EngineDbs
  BY DropListIs
<1>4. g \subseteq Stages
  BY <1>1, <1>3 DEF ProcessRec
<1>5. s = [process[p] EXCEPT !.held = @ \ g, !.dropped = @ \cup g] /\ t = [s EXCEPT !.phase = "closing", !.at = 1]
  OBVIOUS
<1>6. Goes(p, s) \/ Goes(p, t)
  BY <1>2
<1> HIDE DEF g, s, t
<1>7. /\ s \in ProcessRec /\ s.phase = "open" /\ s.held = process[p].held \ g /\ s.dropped = process[p].dropped \cup g
      /\ s.inode = process[p].inode /\ s.locked = process[p].locked
  <2>1. s \in ProcessRec
    BY <1>1, <1>4, <1>5 DEF ProcessRec
  <2>2. s.phase = "open" /\ s.held = process[p].held \ g /\ s.dropped = process[p].dropped \cup g
    BY <1>1, <1>5 DEF ProcessRec
  <2>3. s.inode = process[p].inode /\ s.locked = process[p].locked
    BY <1>1, <1>5 DEF ProcessRec
  <2> QED BY <2>1, <2>2, <2>3
<1>8. /\ t \in ProcessRec /\ t.phase = "closing" /\ t.at = 1 /\ t.held = s.held /\ t.dropped = s.dropped
      /\ t.inode = s.inode /\ t.locked = s.locked
  <2>1. t \in ProcessRec
    BY <1>5, <1>7 DEF ProcessRec
  <2>2. t.phase = "closing" /\ t.at = 1 /\ t.held = s.held
    BY <1>5, <1>7 DEF ProcessRec
  <2>3. t.dropped = s.dropped /\ t.inode = s.inode /\ t.locked = s.locked
    BY <1>5, <1>7 DEF ProcessRec
  <2> QED BY <2>1, <2>2, <2>3
<1>9. \A r : "idSeq" \notin Needs(r)
  BY DEF Needs
<1>10. Backed(s)
  BY <1>1, <1>3, <1>7, <1>9 DEF PlaceInv, Backed
<1>11. s.held \subseteq Rest(1) /\ (s.locked => s.inode # 0)
  BY <1>1, <1>7 DEF PlaceInv
<1>12. CASE Goes(p, s)
  <2>1. PlaceInv(s)
    BY <1>7, <1>10, <1>11 DEF PlaceInv
  <2> QED BY <1>1, <1>7, <1>12, <2>1, GoesKeeps
<1>13. CASE Goes(p, t)
  <2>1. Backed(t)
    BY <1>8, <1>10 DEF Backed
  <2> QED BY <1>1, <1>7, <1>8, <1>11, <1>13, <2>1, ClosingStarts
<1> QED BY <1>6, <1>12, <1>13

\* A step of close() gives back what nothing that is still held needs.
LEMMA ReleaseKeeps == ASSUME LifeInv, NEW p \in Processes, Release(p) PROVE LifeInv'
<1> DEFINE r == CloseList[process[p].at]
           i == process[p].at
           n == Len(CloseList)
<1>1. /\ process[p] \in ProcessRec /\ process[p].phase = "closing" /\ PlaceInv(process[p]) /\ ListsOrdered
      /\ ~(r = "lock" /\ process[p].locked)
      /\ UNCHANGED <<kind, lockFile, inodes, raced>>
  BY Ordered DEF Release, LifeInv, LifeTypes
<1>2. PICK bad \in BOOLEAN :
        Goes(p, Closed([process[p] EXCEPT !.held = @ \ {r}, !.err = @ \/ bad, !.inode = IF r = "lock" THEN 0 ELSE @]))
  BY Zenon DEF Release
<1> DEFINE t == [process[p] EXCEPT !.held = @ \ {r}, !.err = @ \/ bad, !.inode = IF r = "lock" THEN 0 ELSE @]
           s == Closed(t)
<1>3. /\ t \in ProcessRec /\ t.phase = "closing" /\ t.at = i /\ t.held = process[p].held \ {r}
      /\ t.inode = (IF r = "lock" THEN 0 ELSE process[p].inode) /\ t.locked = process[p].locked
      /\ t.dropped = process[p].dropped
  <2> HIDE DEF r
  <2>1. t \in ProcessRec
    BY <1>1 DEF ProcessRec
  <2>2. t.phase = "closing" /\ t.at = i /\ t.held = process[p].held \ {r}
    BY <1>1 DEF ProcessRec
  <2>3. /\ t.inode = (IF r = "lock" THEN 0 ELSE process[p].inode) /\ t.locked = process[p].locked
        /\ t.dropped = process[p].dropped
    BY <1>1 DEF ProcessRec
  <2> QED BY <2>1, <2>2, <2>3
<1> HIDE DEF t
<1>4. /\ i \in 1..n /\ n \in Nat /\ process[p].held \subseteq Rest(i)
      /\ process[p].inode # 0 => "lock" \in Rest(i)
      /\ Backed(process[p])
      /\ process[p].locked => process[p].inode # 0
  BY <1>1 DEF PlaceInv, ListsOrdered
<1>5. Rest(i) = {r} \cup Rest(i + 1) /\ (i = n => Rest(i + 1) = {})
  <2>1. i..n = {i} \cup (i + 1)..n /\ (i = n => (i + 1)..n = {})
    BY <1>4
  <2> HIDE DEF i
  <2> QED BY <2>1 DEF Rest, i
<1>6. t.held \subseteq Rest(i + 1) /\ (t.inode # 0 => "lock" \in Rest(i + 1)) /\ (t.locked => t.inode # 0)
  BY <1>1, <1>3, <1>4, <1>5
<1>7. Backed(t)
  <2>1. ASSUME NEW q \in t.held PROVE r \notin Needs(q)
    <3>1. PICK j \in (i + 1)..n : q = CloseList[j]
      BY <1>6 DEF Rest
    <3>2. i < j /\ j \in 1..n
      BY <1>4
    <3> QED BY <1>1, <1>4, <3>1, <3>2 DEF ListsOrdered
  <2> QED BY <1>3, <1>4, <2>1 DEF Backed
<1>8. CASE i = n
  <2>1. s = [t EXCEPT !.phase = "closed", !.at = 1]
    BY <1>3, <1>8 DEF Closed
  <2> HIDE DEF s
  <2>2. s \in ProcessRec /\ s.phase = "closed" /\ s.held = t.held
    BY <1>3, <2>1 DEF ProcessRec
  <2>3. s.inode = t.inode /\ s.locked = t.locked
    BY <1>3, <2>1 DEF ProcessRec
  <2>4. s.held = {} /\ s.inode = 0 /\ ~s.locked
    BY <1>5, <1>6, <1>8, <2>2, <2>3
  <2>5. PlaceInv(s)
    BY <2>2, <2>4 DEF PlaceInv, Backed
  <2>6. Goes(p, s)
    BY <1>2 DEF s, t
  <2> QED BY <1>1, <2>2, <2>4, <2>5, <2>6, GoesKeeps
<1>9. CASE i # n
  <2>1. s = [t EXCEPT !.at = i + 1]
    BY <1>3, <1>9 DEF Closed
  <2> HIDE DEF s
  <2>2. s \in ProcessRec /\ s.phase = "closing" /\ s.held = t.held
    BY <1>3, <2>1 DEF ProcessRec
  <2>3. s.inode = t.inode /\ s.locked = t.locked /\ s.at = i + 1 /\ s.dropped = t.dropped
    BY <1>3, <2>1 DEF ProcessRec
  <2>4. i + 1 \in 1..n
    BY <1>4, <1>9
  <2>5. PlaceInv(s)
    BY <1>6, <1>7, <2>2, <2>3, <2>4 DEF PlaceInv, Backed
  <2>6. Goes(p, s)
    BY <1>2 DEF s, t
  <2>7. s.inode \in {0, process[p].inode} /\ (s.locked => process[p].locked)
    BY <1>3, <2>3
  <2> QED BY <1>1, <2>2, <2>5, <2>6, <2>7, GoesKeeps
<1> QED BY <1>8, <1>9

\* Kill keeps the invariant.
LEMMA KillKeeps == ASSUME LifeInv, NEW p \in Processes, KillProcess(p) PROVE LifeInv'
<1>1. Idle \in ProcessRec /\ Idle.phase = "closed" /\ Idle.held = {} /\ Idle.inode = 0 /\ ~Idle.locked
  BY DEF Idle, ProcessRec
<1>2. PlaceInv(Idle)
  BY <1>1 DEF PlaceInv, Backed
<1>3. Goes(p, Idle) /\ UNCHANGED <<kind, lockFile, inodes, raced>>
  BY DEF KillProcess
<1> QED BY <1>1, <1>2, <1>3, GoesKeeps

\* Without a race no other process has the file whose name is removed.
LEMMA UnlinkKeeps == ASSUME LifeInv, NEW p \in Processes, UnlinkLock(p) PROVE LifeInv'
<1> DEFINE s == [process[p] EXCEPT !.locked = FALSE]
<1>1. /\ process[p] \in ProcessRec /\ process[p].phase = "closing" /\ PlaceInv(process[p])
      /\ lockFile' = 0 /\ inodes' = inodes /\ kind' = kind
      /\ raced' = (raced \/ \E q \in Processes \ {p} : process[q].inode # 0)
      /\ Goes(p, s)
  BY DEF UnlinkLock, LifeInv, LifeTypes
<1>2. /\ s \in ProcessRec /\ s.phase = "closing" /\ s.at = process[p].at /\ s.held = process[p].held
      /\ s.inode = process[p].inode /\ ~s.locked /\ s.dropped = process[p].dropped
  <2>1. s \in ProcessRec /\ s.phase = "closing" /\ s.at = process[p].at /\ s.held = process[p].held
    BY <1>1 DEF ProcessRec
  <2>2. s.inode = process[p].inode /\ ~s.locked /\ s.dropped = process[p].dropped
    BY <1>1 DEF ProcessRec
  <2> QED BY <2>1, <2>2
<1> HIDE DEF s
<1>3. PlaceInv(s)
  BY <1>1, <1>2 DEF PlaceInv, Backed
<1>4. /\ process' \in [Processes -> ProcessRec] /\ process'[p] = s
      /\ \A q \in Processes \ {p} : process'[q] = process[q]
  BY <1>1, <1>2 DEF Goes, LifeInv, LifeTypes
<1>5. LifeTypes'
  BY <1>1, <1>4 DEF LifeInv, LifeTypes
<1>6. \A q \in Processes : PlaceInv(process[q])'
  <2>1. \A q \in Processes : PlaceInv(process'[q])
    BY <1>3, <1>4 DEF LifeInv
  <2> QED BY <1>1, <2>1, PlaceSame
<1>7. \A q \in Processes : process'[q].inode = process[q].inode /\ (process'[q].locked => q # p /\ process[q].locked)
  BY <1>2, <1>4
<1>8. \A q \in Processes : process'[q].phase = process[q].phase
  BY <1>1, <1>2, <1>4
<1>9. LockInv'
  <2>1. lockFile' \in 0..inodes' /\ \A q \in Processes : process'[q].inode \in 0..inodes'
    BY <1>1, <1>7 DEF LifeInv, LifeTypes, LockInv
  <2>2. \A q, r \in Processes : process'[q].locked /\ process'[r].locked /\ process'[q].inode = process'[r].inode => q = r
    BY <1>7 DEF LifeInv, LockInv
  <2>3. ~raced' => \A q \in Processes :
          (process'[q].locked \/ process'[q].phase = "opening") /\ process'[q].inode # 0 => process'[q].inode = lockFile'
    BY <1>1, <1>7, <1>8
  <2> QED BY <2>1, <2>2, <2>3 DEF LockInv
<1> QED BY <1>5, <1>6, <1>9 DEF LifeInv

\* At the start nobody holds anything.
LEMMA LifeStart == LifeInit => LifeInv
<1> SUFFICES ASSUME LifeInit PROVE LifeInv
  OBVIOUS
<1>1. Idle \in ProcessRec /\ Idle.phase = "closed" /\ Idle.held = {} /\ Idle.inode = 0 /\ ~Idle.locked
  BY DEF Idle, ProcessRec
<1>2. /\ kind \in Kinds /\ process = [p \in Processes |-> Idle]
      /\ lockFile = 0 /\ inodes = 0 /\ raced = FALSE
  BY DEF LifeInit, Kinds
<1>3. LifeTypes
  BY <1>1, <1>2 DEF LifeTypes
<1>4. \A p \in Processes : PlaceInv(process[p])
  BY <1>1, <1>2 DEF PlaceInv, Backed
<1>5. LockInv
  BY <1>1, <1>2 DEF LockInv
<1> QED BY <1>3, <1>4, <1>5 DEF LifeInv

\* Every step keeps the invariant.
LEMMA LifeStep == LifeInv /\ [LifeNext]_lifeVars => LifeInv'
<1> SUFFICES ASSUME LifeInv, [LifeNext]_lifeVars PROVE LifeInv'
  OBVIOUS
<1>1. CASE UNCHANGED lifeVars
  <2>1. kind' = kind /\ process' = process /\ lockFile' = lockFile /\ inodes' = inodes /\ raced' = raced
    BY <1>1 DEF lifeVars
  <2>2. LifeTypes' /\ LockInv'
    BY <2>1 DEF LifeInv, LifeTypes, LockInv
  <2>3. \A p \in Processes : PlaceInv(process[p])'
    BY <2>1, PlaceSame DEF LifeInv
  <2> QED BY <2>2, <2>3 DEF LifeInv
<1>2. ASSUME NEW p \in Processes, OpenDb(p) \/ CheckDbVersion(p) \/ OpenLockFile(p) \/ LockDir(p)
      PROVE  LifeInv'
  BY <1>2, OpenKeepsLife, VersionKeeps, OpenLockKeeps, LockDirKeeps
<1>3. ASSUME NEW p \in Processes, LockedOut(p) \/ LockFails(p) \/ Acquire(p) \/ Fail(p) \/ CloseDb(p) \/ Drop(p)
      PROVE  LifeInv'
  BY <1>3, LockedOutKeeps, LockFailsKeeps, AcquireKeeps, FailKeeps, CloseDbKeeps, DropKeeps
<1>4. ASSUME NEW p \in Processes, Release(p) \/ UnlinkLock(p) \/ KillProcess(p)
      PROVE  LifeInv'
  BY <1>4, ReleaseKeeps, UnlinkKeeps, KillKeeps
<1> QED BY <1>1, <1>2, <1>3, <1>4 DEF LifeNext

\* The invariant says what LifecycleSafe asks.
LEMMA LifeSafe == LifeInv => LifecycleSafe
<1> SUFFICES ASSUME LifeInv PROVE LifecycleSafe
  OBVIOUS
<1>1. ListsOrdered
  BY Ordered DEF LifeInv, LifeTypes
<1>2. NothingLeft /\ NeedsHeld
  BY DEF LifeInv, PlaceInv, Backed, NothingLeft, NeedsHeld
<1>3. NoSelfDeadlock
  <2>1. ASSUME NEW p \in Processes, process[p].phase = "closing" PROVE "request" \notin process[p].held
    <3>1. PlaceInv(process[p])
      BY DEF LifeInv
    <3>2. process[p].at \in 1..Len(CloseList) /\ process[p].held \subseteq Rest(process[p].at)
      BY <2>1, <3>1 DEF PlaceInv
    <3>3. "request" \notin Rest(process[p].at)
      BY <1>1, <3>2 DEF ListsOrdered, Rest
    <3> QED BY <3>2, <3>3
  <2> QED BY <2>1 DEF NoSelfDeadlock
<1>4. OneInstance
  <2> DEFINE Locked == {p \in Processes : process[p].locked}
  <2>1. ASSUME ~raced, NEW p \in Locked PROVE Locked = {p}
    <3>1. \A q \in Locked : process[q].inode # 0
      BY DEF LifeInv, PlaceInv
    <3>2. \A q \in Locked : process[q].inode = lockFile
      BY <2>1, <3>1 DEF LifeInv, LockInv
    <3> QED BY <2>1, <3>2 DEF LifeInv, LockInv
  <2>2. \A p : Cardinality({p}) = 1
    BY FS_Singleton
  <2>3. Cardinality({}) = 0
    BY FS_EmptySet
  <2> HIDE DEF Locked
  <2>4. ~raced => Cardinality(Locked) <= 1
    <3>1. CASE Locked = {}
      BY <2>3, <3>1
    <3>2. CASE Locked # {}
      <4>1. PICK p \in Locked : TRUE
        BY <3>2
      <4>2. ASSUME ~raced PROVE Cardinality(Locked) = 1
        <5>1. Locked = {p}
          BY <2>1, <4>1, <4>2
        <5> QED BY <2>2, <5>1
      <4> QED BY <4>2
    <3> QED BY <3>1, <3>2
  <2> QED BY <2>4 DEF OneInstance, Locked
<1> QED BY <1>2, <1>3, <1>4 DEF LifecycleSafe

\* Wherever MojDb::open() fails and whatever close() and drop() meet, a closed database
\* has given everything back; nothing is closed before what needs it and never under
\* the schema lock of open() itself; and lockDir() and unlockDir() let one process at
\* a time have the directory, but for the race of removing the name first.
THEOREM LifecycleSafeAlways == LifeSpec => []LifecycleSafe
<1> QED BY LifeStart, LifeStep, LifeSafe, PTL DEF LifeSpec

-----------------------------------------------------------------------------
(* What the four engines charge (DbEngineData): an operation changes single
   entries of one shard, or drops the index entries of the main shard, and the
   transaction's offset follows the bytes of the main shard. *)

TwoShards == {MainShard, MediaShard}
EntryValues == {Absent} \cup Nat
EntryTables == [Entries -> EntryValues]

\* The bytes of an entry with value v, and of a table.
Charge(v) == IF v = Absent THEN 0 ELSE KeySize + v
Charges(t) == [e \in Entries |-> Charge(t[e])]
Total(t) == SumOver(Charges(t), Entries)

\* A store: a table per shard, whose index entries are empty.
Stores == {d \in [TwoShards -> EntryTables] :
             \A s \in TwoShards, o \in Objects : d[s][<<"idx", o>>] \in {Absent, 0}}

\* What holds throughout a transaction.
EntriesInv ==
  /\ engine \in {"level", "sandwich", "lmdb", "berkeley"}
  /\ data \in Stores /\ base \in Stores
  /\ offset \in Int /\ found = TRUE /\ foreign \in BOOLEAN
  /\ ~foreign => offset = Total(data[MainShard]) - Total(base[MainShard])

\* There are finitely many entries.
LEMMA EntriesFinite == IsFiniteSet(Entries)
<1>1. IsFiniteSet({"obj", "idx"})
  <2>1. IsFiniteSet({"obj"}) /\ IsFiniteSet({"idx"})
    BY FS_Singleton
  <2>2. {"obj", "idx"} = {"obj"} \cup {"idx"}
    OBVIOUS
  <2> QED BY <2>1, <2>2, FS_Union
<1> QED BY <1>1, FS_Product, EntriesAssumption DEF Entries, EntriesAssumption

\* The charge of a value is a number.
LEMMA ChargeInt == \A v \in EntryValues : Charge(v) \in Int
  BY EntriesAssumption DEF EntryValues, Charge, Absent, EntriesAssumption

\* The charges of a table's entries, and their sum.
LEMMA ChargesOf ==
  ASSUME NEW t \in EntryTables
  PROVE  /\ \A e \in Entries : Charges(t)[e] = Charge(t[e]) /\ Charges(t)[e] \in Int
         /\ Total(t) \in Int
<1>1. \A e \in Entries : Charges(t)[e] = Charge(t[e]) /\ t[e] \in EntryValues
  BY DEF Charges, EntryTables
<1>2. \A e \in Entries : Charges(t)[e] \in Int
  BY <1>1, ChargeInt
<1>3. Total(t) \in Int
  BY <1>2, EntriesFinite, SumRemove DEF Total
<1> QED BY <1>1, <1>2, <1>3

\* The bytes of a shard are the total of its table.
LEMMA SizeIsTotal ==
  ASSUME NEW d \in Stores, NEW s \in TwoShards
  PROVE  SizeOf(d, s) = Total(d[s])
<1> DEFINE t == d[s]
           S == {e \in Entries : t[e] # Absent}
<1>1. t \in EntryTables
  BY DEF Stores
<1>2. \A e \in S : Bytes(t)[e] \in Int /\ Charges(t)[e] = Bytes(t)[e]
  BY <1>1, ChargesOf DEF Bytes, Charge
<1>3. \A e \in Entries \ S : Charges(t)[e] = 0
  BY <1>1, ChargesOf DEF Charge
<1>4. S \in SUBSET Entries
  OBVIOUS
<1>5. SizeOf(d, s) = SumOver(Bytes(t), S)
  BY DEF SizeOf, SumOver
<1> HIDE DEF S, t
<1>6. SumOver(Bytes(t), S) = SumOver(Charges(t), Entries)
  BY <1>2, <1>3, <1>4, EntriesFinite, SumFilter
<1>7. SizeOf(d, s) = Total(t)
  BY <1>5, <1>6 DEF Total
<1> QED BY <1>7 DEF t

\* Writing one entry.
LEMMA StoreTotal ==
  ASSUME NEW d \in Stores, NEW s \in TwoShards, NEW e \in Entries, NEW v \in EntryValues,
         e[1] = "idx" => v \in {Absent, 0}
  PROVE  /\ StoreEntry(d, s, e, v) \in Stores
         /\ \A x \in Entries : StoreEntry(d, s, e, v)[s][x] = IF x = e THEN v ELSE d[s][x]
         /\ Total(StoreEntry(d, s, e, v)[MainShard]) =
              Total(d[MainShard]) + (IF s = MainShard THEN Charge(v) - Charge(d[s][e]) ELSE 0)
<1> DEFINE n == StoreEntry(d, s, e, v)
<1>0. d \in [TwoShards -> EntryTables] /\ \A x \in Entries : d[s][x] \in EntryValues
  BY DEF Stores, EntryTables
<1>1. /\ n = [d EXCEPT ![s] = [d[s] EXCEPT ![e] = v]]
      /\ DOMAIN n = TwoShards
      /\ \A r \in TwoShards \ {s} : n[r] = d[r]
      /\ n[s] = [d[s] EXCEPT ![e] = v]
  BY <1>0 DEF StoreEntry
<1> HIDE DEF n
<1>2. n[s] \in EntryTables /\ \A x \in Entries : n[s][x] = IF x = e THEN v ELSE d[s][x]
  BY <1>0, <1>1 DEF EntryTables
<1>3. n \in [TwoShards -> EntryTables]
  <2>1. \A r \in TwoShards : n[r] \in EntryTables
    BY <1>0, <1>1, <1>2
  <2>2. n = [d EXCEPT ![s] = n[s]]
    BY <1>1
  <2> QED BY <1>0, <1>2, <2>2
<1>4. \A r \in TwoShards, o \in Objects : n[r][<<"idx", o>>] \in {Absent, 0}
  <2> TAKE r \in TwoShards, o \in Objects
  <2>1. d[r][<<"idx", o>>] \in {Absent, 0} /\ <<"idx", o>> \in Entries
    BY DEF Stores, Entries
  <2>2. CASE r # s
    BY <1>1, <2>1, <2>2
  <2>3. CASE r = s
    <3>1. CASE <<"idx", o>> = e
      BY <1>2, <2>1, <2>3, <3>1
    <3>2. CASE <<"idx", o>> # e
      BY <1>2, <2>1, <2>3, <3>2
    <3> QED BY <3>1, <3>2
  <2> QED BY <2>2, <2>3
<1>5. n \in Stores
  BY <1>3, <1>4 DEF Stores
<1>6. CASE s = MainShard
  <2> DEFINE f == Charges(d[s])
             g == Charges(n[s])
  <2>1. d[s] \in EntryTables
    BY <1>0
  <2>2. \A x \in Entries : f[x] \in Int /\ f[x] = Charge(d[s][x])
    BY <2>1, ChargesOf
  <2>3. \A x \in Entries : g[x] \in Int /\ g[x] = Charge(n[s][x])
    BY <1>2, ChargesOf
  <2>4. Total(n[s]) = SumOver(g, Entries) /\ Total(d[s]) = SumOver(f, Entries)
    BY DEF Total
  <2> HIDE DEF f, g
  <2>5. \A x \in Entries \ {e} : g[x] = f[x]
    BY <1>2, <2>2, <2>3
  <2>6. SumOver(g, Entries) = SumOver(f, Entries) - f[e] + g[e]
    BY <2>2, <2>3, <2>5, EntriesFinite, SumUpdate
  <2>7. f[e] = Charge(d[s][e]) /\ g[e] = Charge(v) /\ f[e] \in Int /\ g[e] \in Int
    BY <1>2, <2>2, <2>3
  <2>8. Total(d[s]) \in Int
    BY <2>1, ChargesOf
  <2>9. Total(n[s]) = Total(d[s]) + (Charge(v) - Charge(d[s][e]))
    BY <2>4, <2>6, <2>7, <2>8
  <2>10. Total(n[MainShard]) = Total(d[MainShard]) + (Charge(v) - Charge(d[s][e]))
    BY <1>6, <2>9
  <2> QED BY <1>2, <1>5, <1>6, <2>10 DEF n
<1>7. CASE s # MainShard
  <2>1. n[MainShard] = d[MainShard] /\ d[MainShard] \in EntryTables
    BY <1>0, <1>1, <1>7 DEF TwoShards
  <2>2. Total(d[MainShard]) \in Int
    BY <2>1, ChargesOf
  <2>3. Total(n[MainShard]) = Total(d[MainShard]) + 0
    BY <2>1, <2>2
  <2> QED BY <1>2, <1>5, <1>7, <2>3 DEF n
<1> QED BY <1>6, <1>7

\* What each engine returns for one entry.
LEMMA EngineCalls ==
  ASSUME engine \in {"level", "sandwich", "lmdb", "berkeley"}, NEW d, NEW s \in EntryShards, NEW o \in Objects
  PROVE  /\ EngineGet(d, s, <<"obj", o>>) = d[s][<<"obj", o>>]
         /\ \A old, v \in EntryValues :
              EngineStore(d, s, o, old, v) =
                Result(StoreEntry(d, s, <<"obj", o>>, v),
                       IF s # MainShard THEN 0 ELSE v + (IF old = Absent THEN KeySize ELSE -old), TRUE)
         /\ IndexInsert(d, s, o) =
              Result(StoreEntry(d, s, <<"idx", o>>, 0), IF s # MainShard THEN 0 ELSE 0 + KeySize, TRUE)
         /\ EngineErase(d, s, o).data = StoreEntry(d, s, <<"obj", o>>, Absent)
         /\ EngineErase(d, s, o).offset = IF s = MainShard THEN -KeySize ELSE 0
         /\ d[s][<<"obj", o>>] # Absent => EngineErase(d, s, o).found = TRUE
         /\ IndexDel(d, s, o).data = StoreEntry(d, s, <<"idx", o>>, Absent)
         /\ IndexDel(d, s, o).offset = IF s = MainShard THEN -KeySize ELSE 0
         /\ d[s][<<"idx", o>>] # Absent => IndexDel(d, s, o).found = TRUE
<1> USE DEF By, Result
<1>1. engine # "sandwich" => s = MainShard
  BY DEF EntryShards
<1>2. EngineGet(d, s, <<"obj", o>>) = d[s][<<"obj", o>>]
  BY DEF EngineGet, LevelGet, SandwichGet, LmdbGet, BerkeleyGet
<1>3. ASSUME NEW old \in EntryValues, NEW v \in EntryValues
      PROVE  EngineStore(d, s, o, old, v) =
               Result(StoreEntry(d, s, <<"obj", o>>, v),
                      IF s # MainShard THEN 0 ELSE v + (IF old = Absent THEN KeySize ELSE -old), TRUE)
  BY <1>1 DEF EngineStore, LevelStore, SandwichStore, LmdbStore, BerkeleyStore, LevelPut, SandwichPut, LmdbPut, BerkeleyPut
<1>4. IndexInsert(d, s, o) =
        Result(StoreEntry(d, s, <<"idx", o>>, 0), IF s # MainShard THEN 0 ELSE 0 + KeySize, TRUE)
  BY <1>1 DEF IndexInsert, LevelIndexInsert, SandwichIndexInsert, LmdbIndexInsert, BerkeleyIndexInsert,
     LevelPut, SandwichPut, LmdbPut, BerkeleyPut
<1>5. /\ EngineErase(d, s, o).data = StoreEntry(d, s, <<"obj", o>>, Absent)
      /\ EngineErase(d, s, o).offset = IF s = MainShard THEN -KeySize ELSE 0
      /\ d[s][<<"obj", o>>] # Absent => EngineErase(d, s, o).found = TRUE
  BY <1>1 DEF EngineErase, LevelErase, SandwichErase, LmdbErase, BerkeleyErase, LevelDel, SandwichDel, LmdbDel, BerkeleyDel
<1>6. /\ IndexDel(d, s, o).data = StoreEntry(d, s, <<"idx", o>>, Absent)
      /\ IndexDel(d, s, o).offset = IF s = MainShard THEN -KeySize ELSE 0
      /\ d[s][<<"idx", o>>] # Absent => IndexDel(d, s, o).found = TRUE
  BY <1>1 DEF IndexDel, LevelIndexDel, SandwichIndexDel, LmdbIndexDel, BerkeleyIndexDel, LevelDel, SandwichDel, LmdbDel, BerkeleyDel
<1> QED BY <1>2, <1>3, <1>4, <1>5, <1>6

\* Objects have entries, in the shards that the engine has.
LEMMA EntryNames ==
  /\ \A o \in Objects : <<"obj", o>> \in Entries /\ <<"idx", o>> \in Entries /\ <<"obj", o>> # <<"idx", o>>
  /\ EntryShards \subseteq TwoShards
  /\ MainShard \in TwoShards
  BY DEF Entries, EntryShards, TwoShards

\* A put, of the object and of its index entry when it has none.
LEMMA EntriesPutKeeps ==
  ASSUME EntriesInv, NEW s \in EntryShards, NEW o \in Objects, NEW v \in 1..MaxValue, PutObject(s, o, v)
  PROVE  EntriesInv'
<1> DEFINE obj == <<"obj", o>>
           idx == <<"idx", o>>
           old == data[s][obj]
           put == StoreEntry(data, s, obj, v)
           n == IF s # MainShard THEN 0 ELSE v + (IF old = Absent THEN KeySize ELSE -old)
<1>1. /\ engine \in {"level", "sandwich", "lmdb", "berkeley"} /\ data \in Stores /\ base \in Stores
      /\ offset \in Int /\ found = TRUE /\ foreign \in BOOLEAN
  BY DEF EntriesInv
<1>2. s \in TwoShards /\ obj \in Entries /\ idx \in Entries /\ obj # idx /\ obj[1] # "idx" /\ v \in EntryValues /\ v # Absent
  BY EntryNames, EntriesAssumption DEF EntriesAssumption, EntryValues, Absent
<1>3. old \in EntryValues /\ data[s][idx] \in {Absent, 0}
  BY <1>1, <1>2 DEF Stores, EntryTables
<1>4. engine' = engine /\ UNCHANGED <<base, found, foreign>>
  BY DEF PutObject, Step
<1>5. /\ EngineGet(data, s, obj) = old
      /\ EngineStore(data, s, o, old, v) = Result(put, n, TRUE)
  BY <1>1, <1>2, <1>3, EngineCalls
<1>6. IndexInsert(put, s, o) = Result(StoreEntry(put, s, idx, 0), IF s # MainShard THEN 0 ELSE 0 + KeySize, TRUE)
  BY <1>1, EngineCalls
<1>7. IF data[s][idx] # Absent
      THEN data' = put /\ offset' = offset + n + 0
      ELSE /\ data' = StoreEntry(put, s, idx, 0)
           /\ offset' = offset + n + (IF s # MainShard THEN 0 ELSE 0 + KeySize)
  BY <1>5, <1>6 DEF PutObject, Result
<1>8. /\ put \in Stores /\ put[s][idx] = data[s][idx]
      /\ Total(put[MainShard]) = Total(data[MainShard]) + (IF s = MainShard THEN Charge(v) - Charge(old) ELSE 0)
  BY <1>1, <1>2, StoreTotal
<1>9. /\ StoreEntry(put, s, idx, 0) \in Stores
      /\ Total(StoreEntry(put, s, idx, 0)[MainShard]) =
           Total(put[MainShard]) + (IF s = MainShard THEN Charge(0) - Charge(data[s][idx]) ELSE 0)
  <2>1. 0 \in EntryValues /\ 0 \in {Absent, 0}
    BY DEF EntryValues
  <2> QED BY <1>2, <1>8, <2>1, StoreTotal
<1>10. n \in Int /\ n = IF s = MainShard THEN Charge(v) - Charge(old) ELSE 0
  BY <1>2, <1>3, EntriesAssumption DEF Charge, EntryValues, Absent, EntriesAssumption
<1>11. Total(data[MainShard]) \in Int /\ Total(base[MainShard]) \in Int
  BY <1>1, EntryNames, ChargesOf DEF Stores
<1> HIDE DEF n, put, old, obj, idx
<1>12. CASE data[s][idx] # Absent
  <2>1. data' = put /\ offset' = offset + n
    BY <1>1, <1>7, <1>10, <1>12
  <2>2. Total(put[MainShard]) = Total(data[MainShard]) + n
    BY <1>8, <1>10
  <2>3. data' \in Stores /\ offset' \in Int /\ Total(data'[MainShard]) = Total(data[MainShard]) + n
    BY <1>1, <1>8, <1>10, <2>1, <2>2
  <2>4. ~foreign => offset' = Total(data'[MainShard]) - Total(base[MainShard])
    BY <1>1, <1>10, <1>11, <2>1, <2>3 DEF EntriesInv
  <2> QED BY <1>1, <1>4, <2>3, <2>4 DEF EntriesInv
<1>13. CASE data[s][idx] = Absent
  <2> DEFINE m == IF s # MainShard THEN 0 ELSE 0 + KeySize
  <2>1. data' = StoreEntry(put, s, idx, 0) /\ offset' = offset + n + m
    BY <1>7, <1>13
  <2>2. m \in Int /\ m = IF s = MainShard THEN Charge(0) - Charge(Absent) ELSE 0
    BY EntriesAssumption DEF Charge, Absent, EntriesAssumption
  <2> HIDE DEF m
  <2>3. Total(data'[MainShard]) = Total(put[MainShard]) + m
    BY <1>9, <1>13, <2>1, <2>2
  <2>4. Total(put[MainShard]) = Total(data[MainShard]) + n
    BY <1>8, <1>10
  <2>5. Total(data'[MainShard]) = Total(data[MainShard]) + n + m
    BY <2>3, <2>4
  <2>6. data' \in Stores /\ offset' \in Int
    BY <1>1, <1>9, <1>10, <2>1, <2>2
  <2>7. ~foreign => offset' = Total(data'[MainShard]) - Total(base[MainShard])
    BY <1>1, <1>10, <1>11, <2>1, <2>2, <2>5 DEF EntriesInv
  <2> QED BY <1>1, <1>4, <2>6, <2>7 DEF EntriesInv
<1> QED BY <1>12, <1>13

\* A purge, of the index entry when there is one and of the object.
LEMMA EntriesPurgeKeeps ==
  ASSUME EntriesInv, NEW s \in EntryShards, NEW o \in Objects, Purge(s, o)
  PROVE  EntriesInv'
<1> DEFINE obj == <<"obj", o>>
           idx == <<"idx", o>>
           old == data[s][obj]
           has == data[s][idx] # Absent
           mid == IF has THEN StoreEntry(data, s, idx, Absent) ELSE data
           k == IF s = MainShard THEN -KeySize ELSE 0
           n == IF has THEN k ELSE 0
<1>1. /\ engine \in {"level", "sandwich", "lmdb", "berkeley"} /\ data \in Stores /\ base \in Stores
      /\ offset \in Int /\ found = TRUE /\ foreign \in BOOLEAN
  BY DEF EntriesInv
<1>2. s \in TwoShards /\ obj \in Entries /\ idx \in Entries /\ obj # idx /\ obj[1] # "idx" /\ Absent \in EntryValues
  BY EntryNames DEF EntryValues
<1>3. EngineGet(data, s, obj) = old
  BY <1>1, <1>2, EngineCalls
<1>4. old # Absent /\ engine' = engine /\ UNCHANGED base /\ foreign' = (foreign \/ s # MainShard)
  BY <1>3 DEF Purge, Step
<1>5. old \in Nat /\ data[s][idx] \in {Absent, 0}
  BY <1>1, <1>2, <1>4 DEF Stores, EntryTables, EntryValues
<1>6. /\ mid \in Stores /\ mid[s][obj] = old
      /\ Total(mid[MainShard]) = Total(data[MainShard]) + n
  <2>1. CASE has
    <3>1. /\ StoreEntry(data, s, idx, Absent) \in Stores
          /\ StoreEntry(data, s, idx, Absent)[s][obj] = old
          /\ Total(StoreEntry(data, s, idx, Absent)[MainShard]) =
               Total(data[MainShard]) + (IF s = MainShard THEN Charge(Absent) - Charge(data[s][idx]) ELSE 0)
      BY <1>1, <1>2, StoreTotal
    <3>2. data[s][idx] = 0
      BY <1>5, <2>1
    <3>3. n = IF s = MainShard THEN Charge(Absent) - Charge(data[s][idx]) ELSE 0
      BY <2>1, <3>2, EntriesAssumption DEF Charge, Absent, EntriesAssumption
    <3> HIDE DEF n
    <3> QED BY <2>1, <3>1, <3>3
  <2>2. CASE ~has
    <3>1. Total(data[MainShard]) \in Int
      BY <1>1, EntryNames, ChargesOf DEF Stores
    <3> QED BY <1>1, <2>2, <3>1
  <2> QED BY <2>1, <2>2
<1>7. /\ EngineErase(mid, s, o).data = StoreEntry(mid, s, obj, Absent)
      /\ EngineErase(mid, s, o).offset = k
      /\ EngineErase(mid, s, o).found = TRUE
  <2>1. mid[s][obj] # Absent
    BY <1>4, <1>6
  <2> HIDE DEF mid
  <2> QED BY <1>1, <2>1, EngineCalls
<1>8. /\ IndexDel(data, s, o).data = StoreEntry(data, s, idx, Absent)
      /\ IndexDel(data, s, o).offset = k
      /\ has => IndexDel(data, s, o).found = TRUE
  BY <1>1, EngineCalls
<1>9. /\ data' = StoreEntry(mid, s, obj, Absent)
      /\ offset' = offset + n + k - old
      /\ found' = TRUE
  <2> DEFINE ind == IF data[s][idx] = Absent THEN Result(data, 0, TRUE) ELSE IndexDel(data, s, o)
             del == EngineErase(ind.data, s, o)
  <2>1. /\ data' = del.data /\ offset' = offset + ind.offset + del.offset - old
        /\ found' = (ind.found /\ del.found)
    BY <1>3 DEF Purge
  <2>2. ind.data = mid /\ ind.offset = n /\ ind.found = TRUE
    BY <1>8 DEF Result
  <2> HIDE DEF ind, mid, n, k
  <2>3. del.data = StoreEntry(mid, s, obj, Absent) /\ del.offset = k /\ del.found = TRUE
    BY <1>7, <2>2
  <2> HIDE DEF del
  <2> QED BY <2>1, <2>2, <2>3
<1>10. /\ data' \in Stores
       /\ Total(data'[MainShard]) = Total(mid[MainShard]) + (IF s = MainShard THEN Charge(Absent) - Charge(old) ELSE 0)
  <2> HIDE DEF mid
  <2> QED BY <1>2, <1>6, <1>9, StoreTotal
<1>11. Total(data[MainShard]) \in Int /\ Total(base[MainShard]) \in Int
  BY <1>1, EntryNames, ChargesOf DEF Stores
<1>12. n \in Int /\ k \in Int
  BY EntriesAssumption DEF EntriesAssumption
<1>13. s = MainShard => k - old = Charge(Absent) - Charge(old)
  BY <1>4, <1>5, EntriesAssumption DEF Charge, Absent, EntriesAssumption
<1> HIDE DEF n, k, mid, has, old, obj, idx
<1>14. offset' \in Int
  BY <1>1, <1>5, <1>9, <1>12
<1>15. ~foreign' => offset' = Total(data'[MainShard]) - Total(base[MainShard])
  <2> SUFFICES ASSUME ~foreign, s = MainShard PROVE offset' = Total(data'[MainShard]) - Total(base[MainShard])
    BY <1>4
  <2>1. Total(data'[MainShard]) = Total(data[MainShard]) + n + (k - old)
    BY <1>6, <1>10, <1>13
  <2>2. offset = Total(data[MainShard]) - Total(base[MainShard])
    BY DEF EntriesInv
  <2> QED BY <1>1, <1>5, <1>9, <1>11, <1>12, <2>1, <2>2
<1> QED BY <1>1, <1>4, <1>9, <1>10, <1>14, <1>15 DEF EntriesInv

\* Dropping an index: what the main shard loses is the bytes of its index entries.
LEMMA EntriesDropKeeps == ASSUME EntriesInv, DropIndex PROVE EntriesInv'
<1> DEFINE t == data[MainShard]
           S == {e \in Entries : e[1] = "idx" /\ t[e] # Absent}
           u == [e \in Entries |-> IF e[1] = "idx" THEN Absent ELSE t[e]]
           k == SumOver(Bytes(t), S)
           z == [e \in Entries |-> IF e \in S THEN Bytes(t)[e] ELSE 0]
<1>1. /\ engine \in {"level", "sandwich", "lmdb", "berkeley"} /\ data \in Stores /\ base \in Stores
      /\ offset \in Int /\ found = TRUE /\ foreign \in BOOLEAN
  BY DEF EntriesInv
<1>2. t \in EntryTables /\ \A e \in Entries : t[e] \in EntryValues
  BY <1>1, EntryNames DEF Stores, EntryTables
<1>3. IndexEntries(data, MainShard) = S
  BY DEF IndexEntries
<1>4. EngineDrop(data) = CursorDropped(data, MainShard)
  BY <1>1 DEF EngineDrop, By, LevelDrop, SandwichDrop, LmdbDrop, BerkeleyDrop
<1>5. CursorDropped(data, MainShard) = Result([data EXCEPT ![MainShard] = u], -k, TRUE)
  <2>1. MapThenSumSet(LAMBDA e : Bytes(data[MainShard])[e], IndexEntries(data, MainShard)) = k
    BY <1>3 DEF SumOver
  <2>2. [data EXCEPT ![MainShard] = [e \in Entries |-> IF e[1] = "idx" THEN Absent ELSE @[e]]] = [data EXCEPT ![MainShard] = u]
    OBVIOUS
  <2> HIDE DEF k, u
  <2> QED BY <2>1, <2>2 DEF CursorDropped
<1>6. /\ data' = [data EXCEPT ![MainShard] = u] /\ offset' = offset - k
      /\ engine' = engine /\ UNCHANGED <<base, found, foreign>>
  <2>1. /\ data' = EngineDrop(data).data /\ offset' = offset + EngineDrop(data).offset
        /\ engine' = engine /\ UNCHANGED <<base, found, foreign>>
    BY DEF DropIndex, Step
  <2>2. EngineDrop(data).data = [data EXCEPT ![MainShard] = u] /\ EngineDrop(data).offset = -k
    BY <1>4, <1>5 DEF Result
  <2>3. k \in Int
    <3>1. \A e \in S : Bytes(t)[e] \in Int
      BY <1>2, EntriesAssumption DEF Bytes, EntryValues, EntriesAssumption
    <3>2. IsFiniteSet(S)
      BY EntriesFinite, FS_Subset
    <3> HIDE DEF S, t
    <3> QED BY <3>1, <3>2, SumRemove
  <2> HIDE DEF k, u
  <2> QED BY <1>1, <2>1, <2>2, <2>3
<1>7. u \in EntryTables
  BY <1>2 DEF EntryTables, EntryValues
<1>8. \A e \in S : Bytes(t)[e] \in Int /\ Charges(t)[e] = Bytes(t)[e]
  BY <1>2, ChargesOf DEF Bytes, Charge
<1>9. \A e \in Entries \ S : z[e] = 0
  OBVIOUS
<1>10. \A e \in S : z[e] = Bytes(t)[e]
  OBVIOUS
<1>11. \A e \in Entries : Charges(u)[e] \in Int /\ z[e] \in Int /\ Charges(t)[e] = Charges(u)[e] + z[e]
  <2> TAKE e \in Entries
  <2>1. /\ Charges(u)[e] = Charge(u[e]) /\ Charges(u)[e] \in Int
        /\ Charges(t)[e] = Charge(t[e]) /\ Charges(t)[e] \in Int
    BY <1>2, <1>7, ChargesOf
  <2>2. CASE e \in S
    <3>1. u[e] = Absent
      BY <2>2
    <3>2. Charges(u)[e] = 0
      BY <2>1, <3>1 DEF Charge
    <3>3. z[e] = Charges(t)[e]
      BY <1>8, <1>10, <2>2
    <3> HIDE DEF z, u, t, S
    <3> QED BY <2>1, <3>2, <3>3
  <2>3. CASE e \notin S
    <3>1. u[e] = t[e]
      BY <2>3
    <3>2. z[e] = 0
      BY <1>9, <2>3
    <3> HIDE DEF z, u, t, S
    <3> QED BY <2>1, <3>1, <3>2
  <2> QED BY <2>2, <2>3
<1>12. S \in SUBSET Entries
  OBVIOUS
<1> HIDE DEF z, u, t, S
<1>13. SumOver(Bytes(t), S) = SumOver(z, Entries)
  BY <1>8, <1>9, <1>10, <1>12, EntriesFinite, SumFilter
<1>14. SumOver(Charges(t), Entries) = SumOver(Charges(u), Entries) + SumOver(z, Entries)
  BY <1>11, EntriesFinite, SumAdd
<1>15. Total(t) = Total(u) + k /\ k \in Int /\ Total(t) \in Int /\ Total(u) \in Int
  <2>1. SumOver(z, Entries) \in Int
    BY <1>11, EntriesFinite, SumRemove
  <2> QED BY <1>2, <1>7, <1>13, <1>14, <2>1, ChargesOf DEF Total
<1> HIDE DEF k
<1>16. data'[MainShard] = u /\ data' \in Stores
  <2>1. data' \in [TwoShards -> EntryTables] /\ data'[MainShard] = u /\ \A r \in TwoShards \ {MainShard} : data'[r] = data[r]
    BY <1>1, <1>6, <1>7, EntryNames DEF Stores
  <2>2. \A r \in TwoShards, o \in Objects : data'[r][<<"idx", o>>] \in {Absent, 0}
    <3> TAKE r \in TwoShards, o \in Objects
    <3>1. CASE r = MainShard
      <4>1. u[<<"idx", o>>] = Absent
        BY EntryNames DEF u
      <4> QED BY <2>1, <3>1, <4>1
    <3>2. CASE r # MainShard
      BY <1>1, <2>1, <3>2 DEF Stores
    <3> QED BY <3>1, <3>2
  <2> QED BY <2>1, <2>2 DEF Stores
<1>17. offset' \in Int
  BY <1>1, <1>6, <1>15
<1>18. ~foreign' => offset' = Total(data'[MainShard]) - Total(base[MainShard])
  <2>1. Total(base[MainShard]) \in Int
    BY <1>1, EntryNames, ChargesOf DEF Stores
  <2>2. ~foreign => offset = Total(t) - Total(base[MainShard])
    BY DEF EntriesInv, t
  <2>3. Total(data'[MainShard]) = Total(t) - k
    BY <1>15, <1>16
  <2> QED BY <1>1, <1>6, <1>15, <2>1, <2>2, <2>3
<1> QED BY <1>1, <1>6, <1>16, <1>17, <1>18 DEF EntriesInv

\* At the start nothing is charged.
LEMMA EntriesInvInit == ASSUME EntriesInit PROVE EntriesInv
<1> DEFINE none == [e \in Entries |-> Absent]
<1>1. none \in EntryTables /\ \A o \in Objects : none[<<"idx", o>>] = Absent
  BY EntryNames DEF EntryTables, EntryValues
<1>2. data = [s \in TwoShards |-> none] /\ base = data
  BY DEF EntriesInit, TwoShards
<1> HIDE DEF none
<1>3. data \in Stores /\ base \in Stores
  BY <1>1, <1>2 DEF Stores
<1>4. Total(data[MainShard]) \in Int /\ base = data
  BY <1>2, <1>3, EntryNames, ChargesOf DEF Stores
<1>5. 0 = Total(data[MainShard]) - Total(base[MainShard])
  BY <1>4
<1>6. offset = Total(data[MainShard]) - Total(base[MainShard])
  BY <1>5 DEF EntriesInit
<1>7. offset \in Int
  BY DEF EntriesInit
<1>8. engine \in {"level", "sandwich", "lmdb", "berkeley"} /\ found = TRUE /\ foreign \in BOOLEAN
  BY Zenon DEF EntriesInit
<1> QED BY <1>3, <1>6, <1>7, <1>8, Zenon DEF EntriesInv

\* Every operation keeps the invariant.
LEMMA EntriesInvNext == ASSUME EntriesInv, [EntriesNext]_dataVars PROVE EntriesInv'
<1>1. ASSUME NEW s \in EntryShards, NEW o \in Objects, NEW v \in 1..MaxValue, PutObject(s, o, v) PROVE EntriesInv'
  BY <1>1, EntriesPutKeeps
<1>2. ASSUME NEW s \in EntryShards, NEW o \in Objects, Purge(s, o) PROVE EntriesInv'
  BY <1>2, EntriesPurgeKeeps
<1>3. CASE DropIndex
  BY <1>3, EntriesDropKeeps
<1>4. \A d \in Stores : 0 = Total(d[MainShard]) - Total(d[MainShard])
  BY EntryNames, ChargesOf DEF Stores
<1>5. CASE CommitEntries
  <2>1. data' = data /\ base' = data /\ offset' = 0 /\ foreign' = FALSE /\ found' = found /\ engine' = engine
    BY <1>5 DEF CommitEntries, Step
  <2>2. 0 = Total(data'[MainShard]) - Total(base'[MainShard])
    BY <1>4, <2>1 DEF EntriesInv
  <2>3. offset' = Total(data'[MainShard]) - Total(base'[MainShard])
    BY <2>1, <2>2
  <2>4. /\ engine' \in {"level", "sandwich", "lmdb", "berkeley"} /\ data' \in Stores /\ base' \in Stores
        /\ found' = TRUE /\ foreign' \in BOOLEAN
    BY <2>1, Zenon DEF EntriesInv
  <2>5. offset' \in Int
    BY <2>1
  <2> QED BY <2>3, <2>4, <2>5, Zenon DEF EntriesInv
<1>6. CASE AbortEntries
  <2>1. data' = base /\ base' = base /\ offset' = 0 /\ foreign' = FALSE /\ found' = found /\ engine' = engine
    BY <1>6 DEF AbortEntries, Step
  <2>2. 0 = Total(data'[MainShard]) - Total(base'[MainShard])
    BY <1>4, <2>1 DEF EntriesInv
  <2>3. offset' = Total(data'[MainShard]) - Total(base'[MainShard])
    BY <2>1, <2>2
  <2>4. /\ engine' \in {"level", "sandwich", "lmdb", "berkeley"} /\ data' \in Stores /\ base' \in Stores
        /\ found' = TRUE /\ foreign' \in BOOLEAN
    BY <2>1, Zenon DEF EntriesInv
  <2>5. offset' \in Int
    BY <2>1
  <2> QED BY <2>3, <2>4, <2>5, Zenon DEF EntriesInv
<1>7. CASE UNCHANGED dataVars
  BY <1>7 DEF dataVars, EntriesInv
<1> QED BY <1>1, <1>2, <1>3, <1>5, <1>6, <1>7 DEF EntriesNext

\* What a transaction charges to its quotas is what the main shard grows by, whatever
\* it puts, updates, purges and drops, in each of the four engines; and a purge
\* finds the object and the index entry it deletes.
THEOREM ChargesExactAlways == EntriesSpec => []ChargesExact
<1>1. EntriesInit => EntriesInv
  BY EntriesInvInit
<1>2. EntriesInv /\ [EntriesNext]_dataVars => EntriesInv'
  BY EntriesInvNext
<1>3. EntriesInv => ChargesExact
  <2> SUFFICES ASSUME EntriesInv PROVE OffsetIsGrowth /\ PurgeFinds
    BY DEF ChargesExact
  <2>1. SizeOf(data, MainShard) = Total(data[MainShard]) /\ SizeOf(base, MainShard) = Total(base[MainShard])
    BY EntryNames, SizeIsTotal DEF EntriesInv
  <2> QED BY <2>1 DEF EntriesInv, OffsetIsGrowth, PurgeFinds
<1> QED BY <1>1, <1>2, <1>3, PTL DEF EntriesSpec

-----------------------------------------------------------------------------
(* DbLevel: the iterator and its walk *)

\* An iterator stands on an entry of what it reads, or at an end, and neither of its
\* two positions has passed an entry that the other has still to come to.
PlacedFwd(c, t) ==
  /\ c.it \in c.snap \cup {AtEnd} /\ c.ins \in t.puts \cup {AtEnd}
  /\ \A x \in t.puts : x < c.ins => x < c.it
  /\ \A x \in c.snap \ (t.dels \cup t.puts) : x < c.it => x < c.ins

PlacedBwd(c, t) ==
  /\ c.it \in c.snap \cup {AtBegin} /\ c.ins \in t.puts \cup {AtBegin}
  /\ \A x \in t.puts : x > c.ins => x > c.it
  /\ \A x \in c.snap \ (t.dels \cup t.puts) : x > c.it => x > c.ins

Placed(c, t) == IF c.fwd THEN PlacedFwd(c, t) ELSE PlacedBwd(c, t)

\* Where an iterator is: the nearer of its two positions.
Ahead(c) == IF c.it <= c.ins THEN c.it ELSE c.ins
Behind(c) == IF c.it >= c.ins THEN c.it ELSE c.ins

\* What a walk has still to return lies at the iterator or beyond it, and at the
\* iterator only if the entry returned last was deleted under it; what it has
\* returned lies behind.
WalkFwd(c, w, t) ==
  /\ c.open /\ c.fwd /\ ~w.again /\ w.must \subseteq Visible(c, t)
  /\ \A x \in w.must \ w.seen : x >= Ahead(c) /\ (x = Ahead(c) => c.invalid)
  /\ w.elsewhere \/ \A x \in w.seen : x <= Ahead(c) /\ (c.invalid => x < Ahead(c))

WalkBwd(c, w, t) ==
  /\ c.open /\ ~c.fwd /\ ~w.again /\ w.must \subseteq Visible(c, t)
  /\ \A x \in w.must \ w.seen : x <= Behind(c) /\ (x = Behind(c) => c.invalid)
  /\ w.elsewhere \/ \A x \in w.seen : x >= Behind(c) /\ (c.invalid => x > Behind(c))

\* Dropping an index has left alone what lies outside, and is done with what lies
\* behind the iterator.
Dropping(c, w, t) ==
  /\ c.open /\ c.fwd /\ ~c.invalid /\ ~w.again
  /\ w.prefix \in Prefixes /\ w.others = Visible(c, t) \ w.prefix
  /\ \A x \in Visible(c, t) \cap w.prefix : x >= Ahead(c)
  /\ \E x \in w.prefix : x <= Ahead(c)

Dropped(c, w, t) == c.open /\ ~w.again /\ Visible(c, t) = w.others

WalkInv(c, w, t) ==
  /\ c.open => Placed(c, t)
  /\ ~w.again
  /\ w.mode = "fwd" => WalkFwd(c, w, t)
  /\ w.mode = "bwd" => WalkBwd(c, w, t)
  /\ w.mode = "delPrefix" => Dropping(c, w, t)
  /\ w.mode = "done" => Dropped(c, w, t)

Slots == AtBegin .. AtEnd
PartRec == {t \in [puts : SUBSET Keys, dels : SUBSET Keys] : t.puts \cap t.dels = {}}
CursorRec == [open : BOOLEAN, snap : SUBSET Keys, it : Slots, ins : Slots, fwd : BOOLEAN, invalid : BOOLEAN]
WalkRec ==
  [mode : {"none", "fwd", "bwd", "delPrefix", "done"}, must : SUBSET Keys, seen : SUBSET Keys,
   again : BOOLEAN, elsewhere : BOOLEAN, prefix : SUBSET Keys, others : SUBSET Keys]

LevelTypes ==
  /\ tables \in [Tables -> SUBSET Keys]
  /\ DOMAIN levelTxn \in SUBSET Tables /\ \A t \in DOMAIN levelTxn : levelTxn[t] \in PartRec
  /\ cursor \in CursorRec /\ walk \in WalkRec

LevelInv == LevelTypes /\ WalkInv(cursor, walk, PartOf("idx"))

-----------------------------------------------------------------------------
(* DbLevel: steps in a set *)

\* q is the first element of S beyond p, or the end; the last before p, or the
\* beginning.
IsNext(S, p, q) == q \in S \cup {AtEnd} /\ (q = AtEnd \/ q > p) /\ \A x \in S : x > p => x >= q
IsPrev(S, p, q) == q \in S \cup {AtBegin} /\ (q = AtBegin \/ q < p) /\ \A x \in S : x < p => x <= q

\* Keys are numbers between the two ends.
LEMMA KeyNumbers ==
  /\ LastKey \in Nat /\ AtBegin = 0 /\ AtEnd = LastKey + 1
  /\ \A x : x \in Keys <=> x \in Nat /\ x > AtBegin /\ x < AtEnd
  /\ \A x : x \in Slots <=> x \in Nat /\ x >= AtBegin /\ x <= AtEnd
<1>1. LastKey \in Nat
  BY LevelAssumption DEF LevelAssumption
<1> QED BY <1>1 DEF AtBegin, AtEnd, Keys, Slots

\* operator++ of both iterators goes to the next entry.
LEMMA SuccIs ==
  ASSUME NEW S \in SUBSET Keys, NEW p \in Int
  PROVE  IsNext(S, p, Succ(S, p))
<1> DEFINE R == {k \in S : k > p} \cup {AtEnd}
<1>1. R \in SUBSET Nat /\ R # {}
  BY KeyNumbers
<1>2. Min(R) \in R /\ \A y \in R : Min(R) <= y
  BY <1>1, MinIn
<1>3. Succ(S, p) = Min(R)
  BY DEF Succ
<1>4. \A x \in S : x \in Int
  BY KeyNumbers
<1> HIDE DEF R
<1>5. \A x \in S : x > p => x \in R
  BY DEF R
<1>6. (Min(R) \in S /\ Min(R) > p) \/ Min(R) = AtEnd
  BY <1>2 DEF R
<1>7. AtEnd \in Int
  BY KeyNumbers
<1> QED BY <1>2, <1>3, <1>4, <1>5, <1>6, <1>7 DEF IsNext

\* operator-- of both iterators goes to the previous entry.
LEMMA PredIs ==
  ASSUME NEW S \in SUBSET Keys, NEW p \in Int
  PROVE  IsPrev(S, p, Pred(S, p))
<1> DEFINE R == {k \in S : k < p} \cup {AtBegin}
<1>1. R \in SUBSET Nat /\ R # {}
  BY KeyNumbers
<1>2. IsFiniteSet(R)
  <2>1. R \subseteq 0 .. LastKey
    BY KeyNumbers
  <2>2. IsFiniteSet(0 .. LastKey)
    BY FS_Interval, KeyNumbers
  <2> QED BY <2>1, <2>2, FS_Subset
<1>3. Max(R) \in R /\ \A y \in R : y <= Max(R)
  BY <1>1, <1>2, MaxIn
<1>4. Pred(S, p) = Max(R)
  BY DEF Pred
<1>5. \A x \in S : x \in Int
  BY KeyNumbers
<1> HIDE DEF R
<1>6. \A x \in S : x < p => x \in R
  BY DEF R
<1>7. (Max(R) \in S /\ Max(R) < p) \/ Max(R) = AtBegin
  BY <1>3 DEF R
<1> QED BY <1>3, <1>4, <1>5, <1>6, <1>7 DEF IsPrev, AtBegin

-----------------------------------------------------------------------------
(* DbLevel: steps of the iterator *)

\* What only the movement of the positions changes.
SameBut(c, d) == d \in CursorRec /\ d.open = c.open /\ d.snap = c.snap

\* Skipping deleted entries ends at the next one that is not deleted.
LEMMA SkipIs ==
  ASSUME NEW c \in CursorRec, NEW dels \in SUBSET Keys, NEW p \in Slots
  PROVE  /\ c.fwd => IsNext(c.snap \ dels, p, Skip(c, dels, Succ(c.snap, p)))
         /\ ~c.fwd => IsPrev(c.snap \ dels, p, Skip(c, dels, Pred(c.snap, p)))
<1> DEFINE S == c.snap
           free == S \ dels
<1>1. S \in SUBSET Keys /\ free \in SUBSET S /\ p \in Int /\ \A x \in S : x \in free <=> x \notin dels
  BY KeyNumbers DEF CursorRec
<1>2. AtEnd \in Int /\ AtBegin \in Int /\ AtEnd \notin dels /\ AtBegin \notin dels
  BY KeyNumbers
<1>3. \A x \in S : x \in Int
  BY <1>1, KeyNumbers
<1>4. /\ c.fwd => \A q : Skip(c, dels, q) = (IF q \notin dels THEN q ELSE Succ(free, q))
      /\ ~c.fwd => \A q : Skip(c, dels, q) = (IF q \notin dels THEN q ELSE Pred(free, q))
  BY DEF Skip
<1>5. \A q \in Int : /\ IsNext(S, q, Succ(S, q)) /\ IsNext(free, q, Succ(free, q))
                     /\ IsPrev(S, q, Pred(S, q)) /\ IsPrev(free, q, Pred(free, q))
  BY <1>1, SuccIs, PredIs
<1> HIDE DEF S, free
<1>6. ASSUME c.fwd PROVE IsNext(free, p, Skip(c, dels, Succ(S, p)))
  <2>1. PICK q : q = Succ(S, p)
    OBVIOUS
  <2>2. IsNext(S, p, q)
    BY <1>1, <1>5, <2>1
  <2>3. q \in Int
    BY <2>2, <1>2, <1>3 DEF IsNext
  <2>4. CASE q \notin dels
    BY <1>1, <1>2, <1>4, <1>6, <2>1, <2>2, <2>4 DEF IsNext
  <2>5. CASE q \in dels
    <3>1. PICK r : r = Succ(free, q)
      OBVIOUS
    <3>2. IsNext(free, q, r)
      BY <1>5, <2>3, <3>1
    <3>3. q > p /\ q \in S
      BY <1>2, <2>2, <2>5 DEF IsNext
    <3>4. IsNext(free, p, r)
      <4>1. r \in free \cup {AtEnd} /\ (r = AtEnd \/ r > p)
        BY <1>1, <1>2, <1>3, <2>3, <3>2, <3>3 DEF IsNext
      <4>2. ASSUME NEW x \in free, x > p PROVE x >= r
        <5>1. x \in S /\ x \in Int /\ x >= q /\ x # q
          BY <1>1, <1>3, <2>2, <2>5, <4>2 DEF IsNext
        <5> QED BY <5>1, <2>3, <3>2 DEF IsNext
      <4> QED BY <4>1, <4>2 DEF IsNext
    <3> QED BY <1>4, <1>6, <2>1, <2>5, <3>1, <3>4
  <2> QED BY <2>4, <2>5
<1>7. ASSUME ~c.fwd PROVE IsPrev(free, p, Skip(c, dels, Pred(S, p)))
  <2>1. PICK q : q = Pred(S, p)
    OBVIOUS
  <2>2. IsPrev(S, p, q)
    BY <1>1, <1>5, <2>1
  <2>3. q \in Int
    BY <2>2, <1>2, <1>3 DEF IsPrev
  <2>4. CASE q \notin dels
    BY <1>1, <1>2, <1>4, <1>7, <2>1, <2>2, <2>4 DEF IsPrev
  <2>5. CASE q \in dels
    <3>1. PICK r : r = Pred(free, q)
      OBVIOUS
    <3>2. IsPrev(free, q, r)
      BY <1>5, <2>3, <3>1
    <3>3. q < p /\ q \in S
      BY <1>2, <2>2, <2>5 DEF IsPrev
    <3>4. IsPrev(free, p, r)
      <4>1. r \in free \cup {AtBegin} /\ (r = AtBegin \/ r < p)
        BY <1>1, <1>2, <1>3, <2>3, <3>2, <3>3 DEF IsPrev
      <4>2. ASSUME NEW x \in free, x < p PROVE x <= r
        <5>1. x \in S /\ x \in Int /\ x <= q /\ x # q
          BY <1>1, <1>3, <2>2, <2>5, <4>2 DEF IsPrev
        <5> QED BY <5>1, <2>3, <3>2 DEF IsPrev
      <4> QED BY <4>1, <4>2 DEF IsPrev
    <3> QED BY <1>4, <1>7, <2>1, <2>5, <3>1, <3>4
  <2> QED BY <2>4, <2>5
<1> QED BY <1>6, <1>7 DEF S, free

\* From p the walk goes on, and over nothing of S.
PassesFwd(S, p, q) == (p < AtEnd => q > p) /\ \A x \in S : x > p => x >= q
PassesBwd(S, p, q) == (p > AtBegin => q < p) /\ \A x \in S : x < p => x <= q

\* The nearer position moves, or both: neither passes what is there.
LEMMA CoreFwd ==
  ASSUME NEW c \in CursorRec, NEW d \in CursorRec, NEW t \in PartRec, PlacedFwd(c, t), d.snap = c.snap,
         c.it <= c.ins => IsNext(c.snap \ t.dels, c.it, d.it), ~(c.it <= c.ins) => d.it = c.it,
         c.ins <= c.it => IsNext(t.puts, c.ins, d.ins), ~(c.ins <= c.it) => d.ins = c.ins
  PROVE  PlacedFwd(d, t) /\ PassesFwd(Visible(c, t), Ahead(c), Ahead(d))
<1> DEFINE S == c.snap  P == t.puts  D == t.dels
           i == c.it  j == c.ins  ii == d.it  jj == d.ins
<1>1. /\ i \in Int /\ j \in Int /\ ii \in Int /\ jj \in Int /\ AtEnd \in Int
      /\ i <= AtEnd /\ j <= AtEnd /\ ii <= AtEnd /\ jj <= AtEnd
  BY KeyNumbers DEF CursorRec
<1>2. \A x \in S \cup P : x \in Int /\ x < AtEnd
  BY KeyNumbers DEF CursorRec, PartRec
<1>3. /\ i \in S \cup {AtEnd} /\ j \in P \cup {AtEnd}
      /\ \A x \in P : x < j => x < i
      /\ \A x \in S \ (D \cup P) : x < i => x < j
  BY DEF PlacedFwd
<1>4. /\ i <= j => /\ ii \in (S \ D) \cup {AtEnd} /\ (ii = AtEnd \/ ii > i)
                   /\ \A x \in S \ D : x > i => x >= ii
      /\ ~(i <= j) => ii = i
  BY DEF IsNext
<1>5. /\ j <= i => /\ jj \in P \cup {AtEnd} /\ (jj = AtEnd \/ jj > j)
                   /\ \A x \in P : x > j => x >= jj
      /\ ~(j <= i) => jj = j
  BY DEF IsNext
<1>6. /\ Ahead(c) = IF i <= j THEN i ELSE j
      /\ Ahead(d) = IF ii <= jj THEN ii ELSE jj
  BY DEF Ahead
<1>7. P \cap D = {}
  BY DEF PartRec
<1>8. \A x \in Visible(c, t) : x \in S \ D \/ x \in P
  BY DEF Visible
<1>9. PlacedFwd(d, t) <=> /\ ii \in S \cup {AtEnd} /\ jj \in P \cup {AtEnd}
                          /\ \A x \in P : x < jj => x < ii
                          /\ \A x \in S \ (D \cup P) : x < ii => x < jj
  BY DEF PlacedFwd
<1> HIDE DEF S, P, D, i, j, ii, jj
<1>10. ii \in S \cup {AtEnd} /\ jj \in P \cup {AtEnd} /\ ii >= i /\ jj >= j
  BY <1>1, <1>3, <1>4, <1>5
<1>11. ASSUME NEW x \in P, x < jj PROVE x < ii
  BY <1>1, <1>2, <1>3, <1>4, <1>5, <1>10, <1>11
<1>12. ASSUME NEW x \in S \ (D \cup P), x < ii PROVE x < jj
  BY <1>1, <1>2, <1>3, <1>4, <1>5, <1>10, <1>12
<1>13. Ahead(c) < AtEnd => Ahead(d) > Ahead(c)
  BY <1>1, <1>4, <1>5, <1>6
<1>14. ASSUME NEW x \in Visible(c, t), x > Ahead(c) PROVE x >= Ahead(d)
  <2>1. x \in S \cup P
    BY <1>8
  <2>2. x \in Int
    BY <1>2, <2>1
  <2>3. CASE x \in P
    BY <1>1, <1>3, <1>4, <1>5, <1>6, <1>14, <2>2, <2>3
  <2>4. CASE x \in S \ D /\ x \notin P
    BY <1>1, <1>3, <1>4, <1>5, <1>6, <1>14, <2>2, <2>4
  <2> QED BY <1>8, <2>3, <2>4
<1> QED BY <1>9, <1>10, <1>11, <1>12, <1>13, <1>14 DEF PassesFwd

\* operator++ of both positions on the record of an iterator.
LEMMA ItNextIs ==
  ASSUME NEW c \in CursorRec, c.fwd, NEW dels \in SUBSET Keys
  PROVE  /\ ItNext(c, dels) = [c EXCEPT !.it = ItNext(c, dels).it] /\ ItNext(c, dels).it \in Slots
         /\ IsNext(c.snap \ dels, c.it, ItNext(c, dels).it)
<1> DEFINE q == Skip(c, dels, Succ(c.snap, c.it))
<1>1. c.it \in Slots /\ c.snap \in SUBSET Keys
  BY DEF CursorRec
<1>2. IsNext(c.snap \ dels, c.it, q)
  BY <1>1, SkipIs
<1>3. ItNext(c, dels) = [c EXCEPT !.it = q]
  BY DEF ItNext
<1> HIDE DEF q
<1>4. q \in Slots
  BY <1>1, <1>2, KeyNumbers DEF IsNext
<1>5. ItNext(c, dels).it = q
  BY <1>3 DEF CursorRec
<1> QED BY <1>2, <1>3, <1>4, <1>5

\* The pending puts are walked without deletions.
LEMMA SuccPutIs ==
  ASSUME NEW t \in PartRec, NEW p \in Slots
  PROVE  SuccPut(t.puts, p) \in Slots /\ IsNext(t.puts, p, SuccPut(t.puts, p))
<1>1. t.puts \in SUBSET Keys /\ p \in Int
  BY KeyNumbers DEF PartRec
<1>2. IsNext(t.puts, p, SuccPut(t.puts, p))
  BY <1>1, SuccIs DEF SuccPut
<1> QED BY <1>1, <1>2, KeyNumbers DEF IsNext

\* A step forward.
LEMMA StepFwdIs ==
  ASSUME NEW c \in CursorRec, NEW t \in PartRec, c.fwd, PlacedFwd(c, t)
  PROVE  LET d == StepFwd(c, t)
         IN  /\ SameBut(c, d) /\ d.fwd /\ d.invalid = c.invalid
             /\ PlacedFwd(d, t) /\ PassesFwd(Visible(c, t), Ahead(c), Ahead(d))
<1> DEFINE n == ItNext(c, t.dels).it
           m == SuccPut(t.puts, c.ins)
           ii == IF c.it <= c.ins THEN n ELSE c.it
           jj == IF c.ins <= c.it THEN m ELSE c.ins
           d == [c EXCEPT !.it = ii, !.ins = jj]
<1>1. t.dels \in SUBSET Keys /\ c.it \in Slots /\ c.ins \in Slots
  BY DEF PartRec, CursorRec
<1>2. ItNext(c, t.dels) = [c EXCEPT !.it = n] /\ n \in Slots /\ IsNext(c.snap \ t.dels, c.it, n)
  BY <1>1, ItNextIs
<1>3. m \in Slots /\ IsNext(t.puts, c.ins, m)
  BY <1>1, SuccPutIs
<1>4. StepFwd(c, t) = d
  BY <1>2 DEF StepFwd, CursorRec
<1> HIDE DEF n, m
<1>5. ii \in Slots /\ jj \in Slots
  BY <1>1, <1>2, <1>3
<1> HIDE DEF ii, jj
<1>6. /\ d \in CursorRec /\ d.open = c.open /\ d.snap = c.snap /\ d.it = ii /\ d.ins = jj
      /\ d.fwd = c.fwd /\ d.invalid = c.invalid
  BY <1>5 DEF CursorRec
<1> HIDE DEF d
<1>7. PlacedFwd(d, t) /\ PassesFwd(Visible(c, t), Ahead(c), Ahead(d))
  <2>1. /\ c.it <= c.ins => IsNext(c.snap \ t.dels, c.it, d.it)
        /\ ~(c.it <= c.ins) => d.it = c.it
        /\ c.ins <= c.it => IsNext(t.puts, c.ins, d.ins)
        /\ ~(c.ins <= c.it) => d.ins = c.ins
    BY <1>2, <1>3, <1>6 DEF ii, jj
  <2> QED BY <1>6, <2>1, CoreFwd
<1> QED BY <1>4, <1>6, <1>7 DEF SameBut

\* The nearer position moves, or both: neither passes what is there.
LEMMA CoreBwd ==
  ASSUME NEW c \in CursorRec, NEW d \in CursorRec, NEW t \in PartRec, PlacedBwd(c, t), d.snap = c.snap,
         c.it >= c.ins => IsPrev(c.snap \ t.dels, c.it, d.it), ~(c.it >= c.ins) => d.it = c.it,
         c.ins >= c.it => IsPrev(t.puts, c.ins, d.ins), ~(c.ins >= c.it) => d.ins = c.ins
  PROVE  PlacedBwd(d, t) /\ PassesBwd(Visible(c, t), Behind(c), Behind(d))
<1> DEFINE S == c.snap  P == t.puts  D == t.dels
           i == c.it  j == c.ins  ii == d.it  jj == d.ins
<1>1. /\ i \in Int /\ j \in Int /\ ii \in Int /\ jj \in Int /\ AtBegin \in Int
      /\ i >= AtBegin /\ j >= AtBegin /\ ii >= AtBegin /\ jj >= AtBegin
  BY KeyNumbers DEF CursorRec
<1>2. \A x \in S \cup P : x \in Int /\ x > AtBegin
  BY KeyNumbers DEF CursorRec, PartRec
<1>3. /\ i \in S \cup {AtBegin} /\ j \in P \cup {AtBegin}
      /\ \A x \in P : x > j => x > i
      /\ \A x \in S \ (D \cup P) : x > i => x > j
  BY DEF PlacedBwd
<1>4. /\ i >= j => /\ ii \in (S \ D) \cup {AtBegin} /\ (ii = AtBegin \/ ii < i)
                   /\ \A x \in S \ D : x < i => x <= ii
      /\ ~(i >= j) => ii = i
  BY DEF IsPrev
<1>5. /\ j >= i => /\ jj \in P \cup {AtBegin} /\ (jj = AtBegin \/ jj < j)
                   /\ \A x \in P : x < j => x <= jj
      /\ ~(j >= i) => jj = j
  BY DEF IsPrev
<1>6. /\ Behind(c) = IF i >= j THEN i ELSE j
      /\ Behind(d) = IF ii >= jj THEN ii ELSE jj
  BY DEF Behind
<1>7. P \cap D = {}
  BY DEF PartRec
<1>8. \A x \in Visible(c, t) : x \in S \ D \/ x \in P
  BY DEF Visible
<1>9. PlacedBwd(d, t) <=> /\ ii \in S \cup {AtBegin} /\ jj \in P \cup {AtBegin}
                          /\ \A x \in P : x > jj => x > ii
                          /\ \A x \in S \ (D \cup P) : x > ii => x > jj
  BY DEF PlacedBwd
<1> HIDE DEF S, P, D, i, j, ii, jj
<1>10. ii \in S \cup {AtBegin} /\ jj \in P \cup {AtBegin} /\ ii <= i /\ jj <= j
  BY <1>1, <1>3, <1>4, <1>5
<1>11. ASSUME NEW x \in P, x > jj PROVE x > ii
  BY <1>1, <1>2, <1>3, <1>4, <1>5, <1>10, <1>11
<1>12. ASSUME NEW x \in S \ (D \cup P), x > ii PROVE x > jj
  BY <1>1, <1>2, <1>3, <1>4, <1>5, <1>10, <1>12
<1>13. Behind(c) > AtBegin => Behind(d) < Behind(c)
  BY <1>1, <1>4, <1>5, <1>6
<1>14. ASSUME NEW x \in Visible(c, t), x < Behind(c) PROVE x <= Behind(d)
  <2>1. x \in S \cup P
    BY <1>8
  <2>2. x \in Int
    BY <1>2, <2>1
  <2>3. CASE x \in P
    BY <1>1, <1>3, <1>4, <1>5, <1>6, <1>14, <2>2, <2>3
  <2>4. CASE x \in S \ D /\ x \notin P
    BY <1>1, <1>3, <1>4, <1>5, <1>6, <1>14, <2>2, <2>4
  <2> QED BY <1>8, <2>3, <2>4
<1> QED BY <1>9, <1>10, <1>11, <1>12, <1>13, <1>14 DEF PassesBwd

\* operator-- of both positions on the record of an iterator.
LEMMA ItPrevIs ==
  ASSUME NEW c \in CursorRec, ~c.fwd, NEW dels \in SUBSET Keys
  PROVE  /\ ItPrev(c, dels) = [c EXCEPT !.it = ItPrev(c, dels).it] /\ ItPrev(c, dels).it \in Slots
         /\ IsPrev(c.snap \ dels, c.it, ItPrev(c, dels).it)
<1> DEFINE q == Skip(c, dels, Pred(c.snap, c.it))
<1>1. c.it \in Slots /\ c.snap \in SUBSET Keys
  BY DEF CursorRec
<1>2. IsPrev(c.snap \ dels, c.it, q)
  BY <1>1, SkipIs
<1>3. ItPrev(c, dels) = [c EXCEPT !.it = q]
  BY DEF ItPrev
<1> HIDE DEF q
<1>4. q \in Slots
  BY <1>1, <1>2, KeyNumbers DEF IsPrev
<1>5. ItPrev(c, dels).it = q
  BY <1>3 DEF CursorRec
<1> QED BY <1>2, <1>3, <1>4, <1>5

\* The pending puts are walked without deletions.
LEMMA PredPutIs ==
  ASSUME NEW t \in PartRec, NEW p \in Slots
  PROVE  PredPut(t.puts, p) \in Slots /\ IsPrev(t.puts, p, PredPut(t.puts, p))
<1>1. t.puts \in SUBSET Keys /\ p \in Int
  BY KeyNumbers DEF PartRec
<1>2. IsPrev(t.puts, p, PredPut(t.puts, p))
  BY <1>1, PredIs DEF PredPut
<1> QED BY <1>1, <1>2, KeyNumbers DEF IsPrev

\* A step backward.
LEMMA StepBwdIs ==
  ASSUME NEW c \in CursorRec, NEW t \in PartRec, ~c.fwd, PlacedBwd(c, t)
  PROVE  LET d == StepBwd(c, t)
         IN  /\ SameBut(c, d) /\ ~d.fwd /\ d.invalid = c.invalid
             /\ PlacedBwd(d, t) /\ PassesBwd(Visible(c, t), Behind(c), Behind(d))
<1> DEFINE n == ItPrev(c, t.dels).it
           m == PredPut(t.puts, c.ins)
           ii == IF c.it >= c.ins THEN n ELSE c.it
           jj == IF c.ins >= c.it THEN m ELSE c.ins
           d == [c EXCEPT !.it = ii, !.ins = jj]
<1>1. t.dels \in SUBSET Keys /\ c.it \in Slots /\ c.ins \in Slots
  BY DEF PartRec, CursorRec
<1>2. ItPrev(c, t.dels) = [c EXCEPT !.it = n] /\ n \in Slots /\ IsPrev(c.snap \ t.dels, c.it, n)
  BY <1>1, ItPrevIs
<1>3. m \in Slots /\ IsPrev(t.puts, c.ins, m)
  BY <1>1, PredPutIs
<1>4. StepBwd(c, t) = d
  BY <1>2 DEF StepBwd, CursorRec
<1> HIDE DEF n, m
<1>5. ii \in Slots /\ jj \in Slots
  BY <1>1, <1>2, <1>3
<1> HIDE DEF ii, jj
<1>6. /\ d \in CursorRec /\ d.open = c.open /\ d.snap = c.snap /\ d.it = ii /\ d.ins = jj
      /\ d.fwd = c.fwd /\ d.invalid = c.invalid
  BY <1>5 DEF CursorRec
<1> HIDE DEF d
<1>7. PlacedBwd(d, t) /\ PassesBwd(Visible(c, t), Behind(c), Behind(d))
  <2>1. /\ c.it >= c.ins => IsPrev(c.snap \ t.dels, c.it, d.it)
        /\ ~(c.it >= c.ins) => d.it = c.it
        /\ c.ins >= c.it => IsPrev(t.puts, c.ins, d.ins)
        /\ ~(c.ins >= c.it) => d.ins = c.ins
    BY <1>2, <1>3, <1>6 DEF ii, jj
  <2> QED BY <1>6, <2>1, CoreBwd
<1> QED BY <1>4, <1>6, <1>7 DEF SameBut

\* The entry under an iterator comes from the puts when theirs is the nearer one.
LEMMA InTransactionIs ==
  ASSUME NEW c \in CursorRec
  PROVE  /\ c.fwd => (InTransaction(c) <=> c.it >= c.ins)
         /\ ~c.fwd => (InTransaction(c) <=> c.it <= c.ins)
<1>1. c.it \in Int /\ c.ins \in Int
  BY KeyNumbers DEF CursorRec
<1>2. c.fwd \in BOOLEAN
  BY DEF CursorRec
<1>3. c.fwd => (InTransaction(c) <=> c.it = c.ins \/ c.it > c.ins)
  BY <1>2, Zenon DEF InTransaction
<1>4. ASSUME ~c.fwd PROVE InTransaction(c) <=> c.it = c.ins \/ ~(c.it > c.ins)
  <2>1. c.fwd = FALSE
    BY <1>2, <1>4
  <2>2. InTransaction(c) = (c.it = c.ins \/ (c.it > c.ins) = FALSE)
    BY <2>1, Zenon DEF InTransaction
  <2>3. (c.it > c.ins) \in BOOLEAN
    BY <1>1
  <2>4. ((c.it > c.ins) = FALSE) <=> ~(c.it > c.ins)
    BY <2>3, Zenon
  <2> QED BY <2>2, <2>4, Zenon
<1> QED BY <1>1, <1>3, <1>4

\* What a forward iterator stands on is the nearer of its two entries.
LEMMA KeyFwdIs ==
  ASSUME NEW c \in CursorRec, NEW t \in PartRec, c.fwd, PlacedFwd(c, t)
  PROVE  /\ Ahead(c) \in Slots /\ Ahead(c) # AtBegin /\ KeyOf(c) = Ahead(c)
         /\ IsEnd(c) <=> Ahead(c) = AtEnd
         /\ IsValid(c) <=> ~c.invalid /\ Ahead(c) # AtEnd
         /\ ~IsBegin(c)
         /\ IsValid(c) /\ KeyOf(c) \notin t.dels
            => KeyOf(c) \in Visible(c, t) /\ (InTransaction(c) <=> KeyOf(c) \in t.puts)
<1> DEFINE S == c.snap  P == t.puts  D == t.dels  i == c.it  j == c.ins
<1>1. /\ i \in Slots /\ j \in Slots /\ S \in SUBSET Keys /\ P \in SUBSET Keys /\ P \cap D = {}
      /\ c.fwd \in BOOLEAN /\ c.invalid \in BOOLEAN
  BY DEF CursorRec, PartRec
<1>2. /\ i \in S \cup {AtEnd} /\ j \in P \cup {AtEnd}
      /\ \A x \in P : x < j => x < i
  BY DEF PlacedFwd
<1>3. Visible(c, t) = (S \cup P) \ D
  BY DEF Visible
<1>4. Ahead(c) = (IF i <= j THEN i ELSE j)
  BY DEF Ahead
<1>5. InTransaction(c) <=> i >= j
  BY InTransactionIs
<1>6. KeyOf(c) = (IF InTransaction(c) THEN j ELSE i)
  BY DEF KeyOf
<1>7. /\ IsEnd(c) <=> i = AtEnd /\ j = AtEnd
      /\ IsBegin(c) <=> i = AtBegin /\ j = AtBegin
      /\ IsValid(c) <=> ~c.invalid /\ (i \in Keys \/ j \in Keys)
  BY DEF IsEnd, IsBegin, IsValid
<1> HIDE DEF S, P, D, i, j
<1>9. Ahead(c) \in Slots /\ Ahead(c) # AtBegin
  BY <1>1, <1>2, <1>4, KeyNumbers
<1>10. KeyOf(c) = Ahead(c)
  BY <1>1, <1>4, <1>5, <1>6, KeyNumbers
<1>11. IsEnd(c) <=> Ahead(c) = AtEnd
  BY <1>1, <1>2, <1>4, <1>7, KeyNumbers
<1>12. IsValid(c) <=> ~c.invalid /\ Ahead(c) # AtEnd
  BY <1>1, <1>2, <1>4, <1>7, KeyNumbers
<1>13. ~IsBegin(c)
  BY <1>1, <1>2, <1>7, KeyNumbers
<1>14. ASSUME IsValid(c), KeyOf(c) \notin t.dels
       PROVE  KeyOf(c) \in Visible(c, t) /\ (InTransaction(c) <=> KeyOf(c) \in t.puts)
  <2>1. KeyOf(c) \notin D
    BY <1>14 DEF D
  <2>2. CASE InTransaction(c)
    <3>1. KeyOf(c) = j
      BY <1>6, <2>2
    <3>2. j \in P
      BY <1>2, <1>10, <1>12, <1>14, <3>1
    <3> QED BY <1>3, <2>1, <2>2, <3>1, <3>2 DEF P
  <2>3. CASE ~InTransaction(c)
    <3>1. KeyOf(c) = i
      BY <1>6, <2>3
    <3>2. i \in S
      BY <1>2, <1>10, <1>12, <1>14, <3>1
    <3>3. i \notin P
      BY <1>1, <1>2, <1>5, <2>3, KeyNumbers
    <3> QED BY <1>3, <2>1, <2>3, <3>1, <3>2, <3>3 DEF P
  <2> QED BY <2>2, <2>3
<1> QED BY <1>9, <1>10, <1>11, <1>12, <1>13, <1>14

\* A put tells a forward iterator, which comes to the new entry if it lies beyond it.
LEMMA NotifyPutFwdIs ==
  ASSUME NEW c \in CursorRec, NEW t \in PartRec, c.fwd, PlacedFwd(c, t), NEW k \in Keys,
         NEW u \in PartRec, u.puts = t.puts \cup {k}, u.dels = t.dels \ {k}
  PROVE  LET d == NotifyPut(c, u, k)
         IN  /\ SameBut(c, d) /\ d.fwd /\ d.invalid = c.invalid
             /\ PlacedFwd(d, u) /\ Ahead(d) = Ahead(c)
<1> DEFINE S == c.snap  P == t.puts  D == t.dels  i == c.it  j == c.ins
           PP == u.puts  DD == u.dels
           jj == IF k < i \/ ~(k < j) THEN j ELSE PredPut(u.puts, c.ins)
           d == [c EXCEPT !.ins = jj]
<1>1. /\ i \in Slots /\ j \in Slots /\ S \in SUBSET Keys /\ P \in SUBSET Keys /\ PP = P \cup {k} /\ DD = D \ {k}
  BY DEF CursorRec, PartRec
<1>2. /\ i \in S \cup {AtEnd} /\ j \in P \cup {AtEnd}
      /\ \A x \in P : x < j => x < i
      /\ \A x \in S \ (D \cup P) : x < i => x < j
  BY DEF PlacedFwd
<1>3. NotifyPut(c, u, k) = d
  <2>1. NotifyPut(c, u, k) = IF k < i \/ ~(k < j) THEN c ELSE [c EXCEPT !.ins = PredPut(u.puts, @)]
    BY <1>1, KeyNumbers DEF NotifyPut
  <2> QED BY <2>1 DEF CursorRec
<1>4. PredPut(u.puts, c.ins) \in Slots /\ IsPrev(u.puts, c.ins, PredPut(u.puts, c.ins))
  BY <1>1, PredPutIs
<1>5. CASE k < i \/ ~(k < j)
  <2>1. jj = j /\ d = c
    BY <1>5 DEF CursorRec
  <2> HIDE DEF d, jj
  <2>2. PlacedFwd(c, u) <=> /\ i \in S \cup {AtEnd} /\ j \in PP \cup {AtEnd}
                            /\ \A x \in PP : x < j => x < i
                            /\ \A x \in S \ (DD \cup PP) : x < i => x < j
    BY DEF PlacedFwd
  <2> HIDE DEF S, P, D, i, j, PP, DD
  <2>3. PlacedFwd(c, u)
    BY <1>1, <1>2, <1>5, <2>2, KeyNumbers
  <2> QED BY <1>3, <2>1, <2>3 DEF SameBut
<1>6. CASE ~(k < i \/ ~(k < j))
  <2>1. jj = PredPut(u.puts, c.ins)
    BY <1>6
  <2>2. IsPrev(u.puts, j, jj) /\ jj \in Slots
    BY <1>4, <2>1
  <2>3. jj \in PP \cup {AtBegin} /\ (jj = AtBegin \/ jj < j) /\ \A x \in PP : x < j => x <= jj
    BY <2>2 DEF IsPrev
  <2> HIDE DEF jj
  <2>4. d \in CursorRec /\ d.open = c.open /\ d.snap = c.snap /\ d.fwd = c.fwd /\ d.invalid = c.invalid /\ d.it = i /\ d.ins = jj
    BY <2>2 DEF CursorRec
  <2> HIDE DEF d
  <2>5. PlacedFwd(d, u) <=> /\ i \in S \cup {AtEnd} /\ jj \in PP \cup {AtEnd}
                            /\ \A x \in PP : x < jj => x < i
                            /\ \A x \in S \ (DD \cup PP) : x < i => x < jj
    BY <2>4 DEF PlacedFwd
  <2>6. Ahead(c) = (IF i <= j THEN i ELSE j) /\ Ahead(d) = (IF i <= jj THEN i ELSE jj)
    BY <2>4 DEF Ahead
  <2> HIDE DEF S, P, D, i, j, PP, DD
  <2>7. i <= k /\ k < j
    BY <1>1, <1>6, KeyNumbers
  <2>8. jj = k
    BY <1>1, <1>2, <2>2, <2>3, <2>7, KeyNumbers
  <2>9. PlacedFwd(d, u)
    BY <1>1, <1>2, <2>5, <2>7, <2>8, KeyNumbers
  <2>10. Ahead(d) = Ahead(c)
    BY <1>1, <2>6, <2>7, <2>8, KeyNumbers
  <2> QED BY <1>3, <2>4, <2>9, <2>10 DEF SameBut
<1> QED BY <1>5, <1>6

\* What a backward iterator stands on is the nearer of its two entries.
LEMMA KeyBwdIs ==
  ASSUME NEW c \in CursorRec, NEW t \in PartRec, ~c.fwd, PlacedBwd(c, t)
  PROVE  /\ Behind(c) \in Slots /\ Behind(c) # AtEnd /\ KeyOf(c) = Behind(c)
         /\ IsBegin(c) <=> Behind(c) = AtBegin
         /\ IsValid(c) <=> ~c.invalid /\ Behind(c) # AtBegin
         /\ ~IsEnd(c)
         /\ IsValid(c) /\ KeyOf(c) \notin t.dels
            => KeyOf(c) \in Visible(c, t) /\ (InTransaction(c) <=> KeyOf(c) \in t.puts)
<1> DEFINE S == c.snap  P == t.puts  D == t.dels  i == c.it  j == c.ins
<1>1. /\ i \in Slots /\ j \in Slots /\ S \in SUBSET Keys /\ P \in SUBSET Keys /\ P \cap D = {}
      /\ c.fwd \in BOOLEAN /\ c.invalid \in BOOLEAN
  BY DEF CursorRec, PartRec
<1>2. /\ i \in S \cup {AtBegin} /\ j \in P \cup {AtBegin}
      /\ \A x \in P : x > j => x > i
  BY DEF PlacedBwd
<1>3. Visible(c, t) = (S \cup P) \ D
  BY DEF Visible
<1>4. Behind(c) = (IF i >= j THEN i ELSE j)
  BY DEF Behind
<1>5. InTransaction(c) <=> i <= j
  BY InTransactionIs
<1>6. KeyOf(c) = (IF InTransaction(c) THEN j ELSE i)
  BY DEF KeyOf
<1>7. /\ IsBegin(c) <=> i = AtBegin /\ j = AtBegin
      /\ IsEnd(c) <=> i = AtEnd /\ j = AtEnd
      /\ IsValid(c) <=> ~c.invalid /\ (i \in Keys \/ j \in Keys)
  BY DEF IsBegin, IsEnd, IsValid
<1> HIDE DEF S, P, D, i, j
<1>9. Behind(c) \in Slots /\ Behind(c) # AtEnd
  BY <1>1, <1>2, <1>4, KeyNumbers
<1>10. KeyOf(c) = Behind(c)
  BY <1>1, <1>4, <1>5, <1>6, KeyNumbers
<1>11. IsBegin(c) <=> Behind(c) = AtBegin
  BY <1>1, <1>2, <1>4, <1>7, KeyNumbers
<1>12. IsValid(c) <=> ~c.invalid /\ Behind(c) # AtBegin
  BY <1>1, <1>2, <1>4, <1>7, KeyNumbers
<1>13. ~IsEnd(c)
  BY <1>1, <1>2, <1>7, KeyNumbers
<1>14. ASSUME IsValid(c), KeyOf(c) \notin t.dels
       PROVE  KeyOf(c) \in Visible(c, t) /\ (InTransaction(c) <=> KeyOf(c) \in t.puts)
  <2>1. KeyOf(c) \notin D
    BY <1>14 DEF D
  <2>2. CASE InTransaction(c)
    <3>1. KeyOf(c) = j
      BY <1>6, <2>2
    <3>2. j \in P
      BY <1>2, <1>10, <1>12, <1>14, <3>1
    <3> QED BY <1>3, <2>1, <2>2, <3>1, <3>2 DEF P
  <2>3. CASE ~InTransaction(c)
    <3>1. KeyOf(c) = i
      BY <1>6, <2>3
    <3>2. i \in S
      BY <1>2, <1>10, <1>12, <1>14, <3>1
    <3>3. i \notin P
      BY <1>1, <1>2, <1>5, <2>3, KeyNumbers
    <3> QED BY <1>3, <2>1, <2>3, <3>1, <3>2, <3>3 DEF P
  <2> QED BY <2>2, <2>3
<1> QED BY <1>9, <1>10, <1>11, <1>12, <1>13, <1>14

\* A put tells a backward iterator, which comes to the new entry if it lies beyond it.
LEMMA NotifyPutBwdIs ==
  ASSUME NEW c \in CursorRec, NEW t \in PartRec, ~c.fwd, PlacedBwd(c, t), NEW k \in Keys,
         NEW u \in PartRec, u.puts = t.puts \cup {k}, u.dels = t.dels \ {k}
  PROVE  LET d == NotifyPut(c, u, k)
         IN  /\ SameBut(c, d) /\ ~d.fwd /\ d.invalid = c.invalid
             /\ PlacedBwd(d, u) /\ Behind(d) = Behind(c)
<1> DEFINE S == c.snap  P == t.puts  D == t.dels  i == c.it  j == c.ins
           PP == u.puts  DD == u.dels
           jj == IF k > i \/ ~(k > j) THEN j ELSE SuccPut(u.puts, c.ins)
           d == [c EXCEPT !.ins = jj]
<1>1. /\ i \in Slots /\ j \in Slots /\ S \in SUBSET Keys /\ P \in SUBSET Keys /\ PP = P \cup {k} /\ DD = D \ {k}
  BY DEF CursorRec, PartRec
<1>2. /\ i \in S \cup {AtBegin} /\ j \in P \cup {AtBegin}
      /\ \A x \in P : x > j => x > i
      /\ \A x \in S \ (D \cup P) : x > i => x > j
  BY DEF PlacedBwd
<1>3. NotifyPut(c, u, k) = d
  <2>1. NotifyPut(c, u, k) = IF k > i \/ ~(k > j) THEN c ELSE [c EXCEPT !.ins = SuccPut(u.puts, @)]
    BY <1>1, KeyNumbers DEF NotifyPut
  <2> QED BY <2>1 DEF CursorRec
<1>4. SuccPut(u.puts, c.ins) \in Slots /\ IsNext(u.puts, c.ins, SuccPut(u.puts, c.ins))
  BY <1>1, SuccPutIs
<1>5. CASE k > i \/ ~(k > j)
  <2>1. jj = j /\ d = c
    BY <1>5 DEF CursorRec
  <2> HIDE DEF d, jj
  <2>2. PlacedBwd(c, u) <=> /\ i \in S \cup {AtBegin} /\ j \in PP \cup {AtBegin}
                            /\ \A x \in PP : x > j => x > i
                            /\ \A x \in S \ (DD \cup PP) : x > i => x > j
    BY DEF PlacedBwd
  <2> HIDE DEF S, P, D, i, j, PP, DD
  <2>3. PlacedBwd(c, u)
    BY <1>1, <1>2, <1>5, <2>2, KeyNumbers
  <2> QED BY <1>3, <2>1, <2>3 DEF SameBut
<1>6. CASE ~(k > i \/ ~(k > j))
  <2>1. jj = SuccPut(u.puts, c.ins)
    BY <1>6
  <2>2. IsNext(u.puts, j, jj) /\ jj \in Slots
    BY <1>4, <2>1
  <2>3. jj \in PP \cup {AtEnd} /\ (jj = AtEnd \/ jj > j) /\ \A x \in PP : x > j => x >= jj
    BY <2>2 DEF IsNext
  <2> HIDE DEF jj
  <2>4. d \in CursorRec /\ d.open = c.open /\ d.snap = c.snap /\ d.fwd = c.fwd /\ d.invalid = c.invalid /\ d.it = i /\ d.ins = jj
    BY <2>2 DEF CursorRec
  <2> HIDE DEF d
  <2>5. PlacedBwd(d, u) <=> /\ i \in S \cup {AtBegin} /\ jj \in PP \cup {AtBegin}
                            /\ \A x \in PP : x > jj => x > i
                            /\ \A x \in S \ (DD \cup PP) : x > i => x > jj
    BY <2>4 DEF PlacedBwd
  <2>6. Behind(c) = (IF i >= j THEN i ELSE j) /\ Behind(d) = (IF i >= jj THEN i ELSE jj)
    BY <2>4 DEF Behind
  <2> HIDE DEF S, P, D, i, j, PP, DD
  <2>7. i >= k /\ k > j
    BY <1>1, <1>6, KeyNumbers
  <2>8. jj = k
    BY <1>1, <1>2, <2>2, <2>3, <2>7, KeyNumbers
  <2>9. PlacedBwd(d, u)
    BY <1>1, <1>2, <2>5, <2>7, <2>8, KeyNumbers
  <2>10. Behind(d) = Behind(c)
    BY <1>1, <2>6, <2>7, <2>8, KeyNumbers
  <2> QED BY <1>3, <2>4, <2>9, <2>10 DEF SameBut
<1> QED BY <1>5, <1>6

\* A deletion tells a forward iterator: the pending entry under it gives way to the
\* next, and the iterator is marked.
LEMMA NotifyDeleteFwdIs ==
  ASSUME NEW c \in CursorRec, NEW t \in PartRec, c.fwd, PlacedFwd(c, t), NEW k \in Keys,
         NEW u \in PartRec, u.puts = t.puts \ {k}, u.dels = t.dels \cup {k}
  PROVE  LET d == NotifyDelete(c, t, k)
         IN  /\ SameBut(c, d) /\ d.fwd /\ PlacedFwd(d, u)
             /\ d = c \/ d.invalid
             /\ d = c \/ k # Ahead(c) => Ahead(d) = Ahead(c)
             /\ d # c /\ k = Ahead(c) => PassesFwd(Visible(c, t), Ahead(c), Ahead(d))
<1> DEFINE S == c.snap  P == t.puts  D == t.dels  i == c.it  j == c.ins
           PP == u.puts  DD == u.dels
           n == ItNext(c, t.dels).it
           m == SuccPut(t.puts, c.ins)
           ii == IF i = j THEN n ELSE i
           d == [c EXCEPT !.it = ii, !.ins = m, !.invalid = TRUE]
<1>1. /\ i \in Slots /\ j \in Slots /\ S \in SUBSET Keys /\ P \in SUBSET Keys /\ D \in SUBSET Keys
      /\ P \cap D = {} /\ PP = P \ {k} /\ DD = D \cup {k}
  BY DEF CursorRec, PartRec
<1>2. /\ i \in S \cup {AtEnd} /\ j \in P \cup {AtEnd}
      /\ \A x \in P : x < j => x < i
      /\ \A x \in S \ (D \cup P) : x < i => x < j
  BY DEF PlacedFwd
<1>3. ItNext(c, t.dels) = [c EXCEPT !.it = n] /\ n \in Slots /\ IsNext(S \ D, i, n)
  BY <1>1, ItNextIs
<1>4. m \in Slots /\ IsNext(P, j, m)
  BY <1>1, SuccPutIs
<1>5. Ahead(c) = (IF i <= j THEN i ELSE j)
  BY DEF Ahead
<1>6. CASE j # k
  <2>1. NotifyDelete(c, t, k) = c
    BY <1>6 DEF NotifyDelete
  <2>2. PlacedFwd(c, u) <=> /\ i \in S \cup {AtEnd} /\ j \in PP \cup {AtEnd}
                            /\ \A x \in PP : x < j => x < i
                            /\ \A x \in S \ (DD \cup PP) : x < i => x < j
    BY DEF PlacedFwd
  <2> HIDE DEF S, P, D, i, j, PP, DD
  <2>3. PlacedFwd(c, u)
    BY <1>1, <1>2, <1>6, <2>2, KeyNumbers
  <2> QED BY <2>1, <2>3 DEF SameBut
<1>7. CASE j = k
  <2>1. NotifyDelete(c, t, k) = d
    BY <1>3, <1>7 DEF NotifyDelete, CursorRec
  <2> HIDE DEF n, m
  <2>2. ii \in Slots
    BY <1>1, <1>3
  <2>3. i = j => IsNext(S \ D, i, ii)
    BY <1>3
  <2>4. i # j => ii = i
    OBVIOUS
  <2> HIDE DEF ii
  <2>5. d \in CursorRec /\ d.open = c.open /\ d.snap = c.snap /\ d.fwd = c.fwd /\ d.invalid /\ d.it = ii /\ d.ins = m
    BY <1>4, <2>2 DEF CursorRec
  <2> HIDE DEF d
  <2>6. PlacedFwd(d, u) <=> /\ ii \in S \cup {AtEnd} /\ m \in PP \cup {AtEnd}
                            /\ \A x \in PP : x < m => x < ii
                            /\ \A x \in S \ (DD \cup PP) : x < ii => x < m
    BY <2>5 DEF PlacedFwd
  <2>7. Ahead(d) = (IF ii <= m THEN ii ELSE m)
    BY <2>5 DEF Ahead
  <2>8. i = j => ii \in (S \ D) \cup {AtEnd} /\ (ii = AtEnd \/ ii > i) /\ \A x \in S \ D : x > i => x >= ii
    BY <2>3 DEF IsNext
  <2>9. m \in P \cup {AtEnd} /\ (m = AtEnd \/ m > j) /\ \A x \in P : x > j => x >= m
    BY <1>4 DEF IsNext
  <2>10. \A x \in Visible(c, t) : x \in S \ D \/ x \in P
    BY DEF Visible
  <2>11. m \in Slots
    BY <1>4
  <2> HIDE DEF S, P, D, i, j, PP, DD
  <2>12. /\ i \in Int /\ j \in Int /\ ii \in Int /\ m \in Int /\ AtEnd \in Int /\ j < AtEnd
         /\ i <= AtEnd /\ ii <= AtEnd /\ m <= AtEnd /\ m > j /\ ii >= i
         /\ \A x \in S \cup P : x \in Int /\ x < AtEnd
    BY <1>1, <1>7, <2>2, <2>4, <2>8, <2>9, <2>11, KeyNumbers
  <2>13. ii \in S \cup {AtEnd} /\ m \in PP \cup {AtEnd}
    BY <1>1, <1>2, <1>7, <2>4, <2>8, <2>9, <2>12
  <2>14. ASSUME NEW x \in PP, x < m PROVE x < ii
    BY <1>1, <1>2, <1>7, <2>4, <2>8, <2>9, <2>12, <2>14
  <2>15. ASSUME NEW x \in S \ (DD \cup PP), x < ii PROVE x < m
    <3>1. x \in S \ D /\ x \notin P /\ x # j
      BY <1>1, <1>7, <2>15
    <3> QED BY <1>1, <1>2, <2>4, <2>8, <2>12, <2>15, <3>1
  <2>16. PlacedFwd(d, u)
    BY <2>6, <2>13, <2>14, <2>15
  <2>17. ASSUME k # Ahead(c) PROVE Ahead(d) = Ahead(c)
    BY <1>5, <1>7, <2>4, <2>7, <2>12, <2>17
  <2>18. ASSUME k = Ahead(c) PROVE PassesFwd(Visible(c, t), Ahead(c), Ahead(d))
    <3>1. j <= i
      BY <1>5, <1>7, <2>12, <2>18
    <3>2. Ahead(d) > Ahead(c) \/ Ahead(c) = AtEnd
      BY <1>7, <2>4, <2>7, <2>8, <2>12, <2>18, <3>1
    <3>3. ASSUME NEW x \in Visible(c, t), x > Ahead(c) PROVE x >= Ahead(d)
      <4>1. x \in S \cup P /\ x > j
        BY <1>7, <2>10, <2>18, <3>3
      <4>2. x \in P => x >= m
        BY <2>9, <4>1
      <4>3. x \in S \ D /\ x \notin P => x >= ii
        BY <1>2, <2>4, <2>8, <2>12, <3>1, <4>1
      <4> QED BY <2>7, <2>10, <2>12, <4>1, <4>2, <4>3
    <3> QED BY <2>12, <3>2, <3>3, <2>7, <1>5, <1>7, <2>18 DEF PassesFwd
  <2> QED BY <2>1, <2>5, <2>16, <2>17, <2>18 DEF SameBut
<1> QED BY <1>6, <1>7

\* next(), of an iterator that runs forward.
LEMMA NextEntryIs ==
  ASSUME NEW c \in CursorRec, NEW t \in PartRec, c.fwd, PlacedFwd(c, t)
  PROVE  LET d == NextEntry(c, t)
         IN  /\ SameBut(c, d) /\ d.fwd /\ ~d.invalid /\ PlacedFwd(d, t)
             /\ c.invalid => Ahead(d) = Ahead(c)
             /\ ~c.invalid => PassesFwd(Visible(c, t), Ahead(c), Ahead(d))
<1> DEFINE j == [c EXCEPT !.fwd = c.fwd, !.invalid = FALSE]
<1>1. ~IsBegin(c)
  BY KeyFwdIs
<1>2. /\ j \in CursorRec /\ j.open = c.open /\ j.snap = c.snap /\ j.it = c.it /\ j.ins = c.ins
      /\ j.fwd = c.fwd /\ ~j.invalid
  BY DEF CursorRec
<1>3. NextEntry(c, t) = IF c.invalid THEN j ELSE StepFwd(j, t)
  <2>1. c.fwd \in BOOLEAN
    BY DEF CursorRec
  <2> QED BY <1>1, <2>1, <1>2 DEF NextEntry, CursorRec
<1> HIDE DEF j
<1>4. PlacedFwd(j, t) /\ Ahead(j) = Ahead(c) /\ Visible(j, t) = Visible(c, t)
  BY <1>2 DEF PlacedFwd, Ahead, Visible
<1>5. CASE c.invalid
  BY <1>2, <1>3, <1>4, <1>5 DEF SameBut
<1>6. CASE ~c.invalid
  <2>1. PICK d : d = StepFwd(j, t)
    OBVIOUS
  <2>2. /\ SameBut(j, d) /\ d.fwd /\ d.invalid = j.invalid
        /\ PlacedFwd(d, t) /\ PassesFwd(Visible(j, t), Ahead(j), Ahead(d))
    BY <1>2, <1>4, <2>1, StepFwdIs
  <2> QED BY <1>2, <1>3, <1>4, <1>6, <2>1, <2>2 DEF SameBut
<1> QED BY <1>5, <1>6

\* An iterator positioned from p on forward stands on what comes first.
PositionedFwd(c, t, p) ==
  c.fwd /\ ~c.invalid /\ IsNext(c.snap \ t.dels, p, c.it) /\ IsNext(t.puts, p, c.ins)

\* A positioned iterator is in place, and no visible entry beyond p lies before it.
LEMMA PositionedFwdIs ==
  ASSUME NEW c \in CursorRec, NEW t \in PartRec, NEW p \in Slots, PositionedFwd(c, t, p)
  PROVE  /\ PlacedFwd(c, t) /\ (Ahead(c) = AtEnd \/ Ahead(c) > p)
         /\ \A x \in Visible(c, t) : x > p => x >= Ahead(c)
<1> DEFINE S == c.snap  P == t.puts  D == t.dels  i == c.it  j == c.ins
<1>1. /\ i \in Slots /\ j \in Slots /\ S \in SUBSET Keys /\ P \in SUBSET Keys /\ D \in SUBSET Keys /\ P \cap D = {}
  BY DEF CursorRec, PartRec
<1>2. i \in (S \ D) \cup {AtEnd} /\ (i = AtEnd \/ i > p) /\ \A x \in S \ D : x > p => x >= i
  BY DEF PositionedFwd, IsNext
<1>3. j \in P \cup {AtEnd} /\ (j = AtEnd \/ j > p) /\ \A x \in P : x > p => x >= j
  BY DEF PositionedFwd, IsNext
<1>4. \A x \in Visible(c, t) : x \in S \ D \/ x \in P
  BY DEF Visible
<1>5. Ahead(c) = (IF i <= j THEN i ELSE j)
  BY DEF Ahead
<1>6. PlacedFwd(c, t) <=> /\ i \in S \cup {AtEnd} /\ j \in P \cup {AtEnd}
                          /\ \A x \in P : x < j => x < i
                          /\ \A x \in S \ (D \cup P) : x < i => x < j
  BY DEF PlacedFwd
<1> HIDE DEF S, P, D, i, j
<1>7. PlacedFwd(c, t)
  <2>1. ASSUME NEW x \in P, x < j PROVE x < i
    BY <1>1, <1>2, <1>3, <2>1, KeyNumbers
  <2>2. ASSUME NEW x \in S \ (D \cup P), x < i PROVE x < j
    BY <1>1, <1>2, <1>3, <2>2, KeyNumbers
  <2> QED BY <1>2, <1>3, <1>6, <2>1, <2>2
<1>8. Ahead(c) = AtEnd \/ Ahead(c) > p
  BY <1>1, <1>2, <1>3, <1>5, KeyNumbers
<1>9. \A x \in Visible(c, t) : x > p => x >= Ahead(c)
  BY <1>1, <1>2, <1>3, <1>4, <1>5, KeyNumbers
<1> QED BY <1>7, <1>8, <1>9

\* A deletion tells a backward iterator: the pending entry under it gives way to the
\* next, and the iterator is marked.
LEMMA NotifyDeleteBwdIs ==
  ASSUME NEW c \in CursorRec, NEW t \in PartRec, ~c.fwd, PlacedBwd(c, t), NEW k \in Keys,
         NEW u \in PartRec, u.puts = t.puts \ {k}, u.dels = t.dels \cup {k}
  PROVE  LET d == NotifyDelete(c, t, k)
         IN  /\ SameBut(c, d) /\ ~d.fwd /\ PlacedBwd(d, u)
             /\ d = c \/ d.invalid
             /\ d = c \/ k # Behind(c) => Behind(d) = Behind(c)
             /\ d # c /\ k = Behind(c) => PassesBwd(Visible(c, t), Behind(c), Behind(d))
<1> DEFINE S == c.snap  P == t.puts  D == t.dels  i == c.it  j == c.ins
           PP == u.puts  DD == u.dels
           n == ItPrev(c, t.dels).it
           m == PredPut(t.puts, c.ins)
           ii == IF i = j THEN n ELSE i
           d == [c EXCEPT !.it = ii, !.ins = m, !.invalid = TRUE]
<1>1. /\ i \in Slots /\ j \in Slots /\ S \in SUBSET Keys /\ P \in SUBSET Keys /\ D \in SUBSET Keys
      /\ P \cap D = {} /\ PP = P \ {k} /\ DD = D \cup {k}
  BY DEF CursorRec, PartRec
<1>2. /\ i \in S \cup {AtBegin} /\ j \in P \cup {AtBegin}
      /\ \A x \in P : x > j => x > i
      /\ \A x \in S \ (D \cup P) : x > i => x > j
  BY DEF PlacedBwd
<1>3. ItPrev(c, t.dels) = [c EXCEPT !.it = n] /\ n \in Slots /\ IsPrev(S \ D, i, n)
  BY <1>1, ItPrevIs
<1>4. m \in Slots /\ IsPrev(P, j, m)
  BY <1>1, PredPutIs
<1>5. Behind(c) = (IF i >= j THEN i ELSE j)
  BY DEF Behind
<1>6. CASE j # k
  <2>1. NotifyDelete(c, t, k) = c
    BY <1>6 DEF NotifyDelete
  <2>2. PlacedBwd(c, u) <=> /\ i \in S \cup {AtBegin} /\ j \in PP \cup {AtBegin}
                            /\ \A x \in PP : x > j => x > i
                            /\ \A x \in S \ (DD \cup PP) : x > i => x > j
    BY DEF PlacedBwd
  <2> HIDE DEF S, P, D, i, j, PP, DD
  <2>3. PlacedBwd(c, u)
    BY <1>1, <1>2, <1>6, <2>2, KeyNumbers
  <2> QED BY <2>1, <2>3 DEF SameBut
<1>7. CASE j = k
  <2>1. NotifyDelete(c, t, k) = d
    BY <1>3, <1>7 DEF NotifyDelete, CursorRec
  <2> HIDE DEF n, m
  <2>2. ii \in Slots
    BY <1>1, <1>3
  <2>3. i = j => IsPrev(S \ D, i, ii)
    BY <1>3
  <2>4. i # j => ii = i
    OBVIOUS
  <2> HIDE DEF ii
  <2>5. d \in CursorRec /\ d.open = c.open /\ d.snap = c.snap /\ d.fwd = c.fwd /\ d.invalid /\ d.it = ii /\ d.ins = m
    BY <1>4, <2>2 DEF CursorRec
  <2> HIDE DEF d
  <2>6. PlacedBwd(d, u) <=> /\ ii \in S \cup {AtBegin} /\ m \in PP \cup {AtBegin}
                            /\ \A x \in PP : x > m => x > ii
                            /\ \A x \in S \ (DD \cup PP) : x > ii => x > m
    BY <2>5 DEF PlacedBwd
  <2>7. Behind(d) = (IF ii >= m THEN ii ELSE m)
    BY <2>5 DEF Behind
  <2>8. i = j => ii \in (S \ D) \cup {AtBegin} /\ (ii = AtBegin \/ ii < i) /\ \A x \in S \ D : x < i => x <= ii
    BY <2>3 DEF IsPrev
  <2>9. m \in P \cup {AtBegin} /\ (m = AtBegin \/ m < j) /\ \A x \in P : x < j => x <= m
    BY <1>4 DEF IsPrev
  <2>10. \A x \in Visible(c, t) : x \in S \ D \/ x \in P
    BY DEF Visible
  <2>11. m \in Slots
    BY <1>4
  <2> HIDE DEF S, P, D, i, j, PP, DD
  <2>12. /\ i \in Int /\ j \in Int /\ ii \in Int /\ m \in Int /\ AtBegin \in Int /\ j > AtBegin
         /\ i >= AtBegin /\ ii >= AtBegin /\ m >= AtBegin /\ m < j /\ ii <= i
         /\ \A x \in S \cup P : x \in Int /\ x > AtBegin
    BY <1>1, <1>7, <2>2, <2>4, <2>8, <2>9, <2>11, KeyNumbers
  <2>13. ii \in S \cup {AtBegin} /\ m \in PP \cup {AtBegin}
    BY <1>1, <1>2, <1>7, <2>4, <2>8, <2>9, <2>12
  <2>14. ASSUME NEW x \in PP, x > m PROVE x > ii
    BY <1>1, <1>2, <1>7, <2>4, <2>8, <2>9, <2>12, <2>14
  <2>15. ASSUME NEW x \in S \ (DD \cup PP), x > ii PROVE x > m
    <3>1. x \in S \ D /\ x \notin P /\ x # j
      BY <1>1, <1>7, <2>15
    <3> QED BY <1>1, <1>2, <2>4, <2>8, <2>12, <2>15, <3>1
  <2>16. PlacedBwd(d, u)
    BY <2>6, <2>13, <2>14, <2>15
  <2>17. ASSUME k # Behind(c) PROVE Behind(d) = Behind(c)
    BY <1>5, <1>7, <2>4, <2>7, <2>12, <2>17
  <2>18. ASSUME k = Behind(c) PROVE PassesBwd(Visible(c, t), Behind(c), Behind(d))
    <3>1. j >= i
      BY <1>5, <1>7, <2>12, <2>18
    <3>2. Behind(d) < Behind(c) \/ Behind(c) = AtBegin
      BY <1>7, <2>4, <2>7, <2>8, <2>12, <2>18, <3>1
    <3>3. ASSUME NEW x \in Visible(c, t), x < Behind(c) PROVE x <= Behind(d)
      <4>1. x \in S \cup P /\ x < j
        BY <1>7, <2>10, <2>18, <3>3
      <4>2. x \in P => x <= m
        BY <2>9, <4>1
      <4>3. x \in S \ D /\ x \notin P => x <= ii
        BY <1>2, <2>4, <2>8, <2>12, <3>1, <4>1
      <4> QED BY <2>7, <2>10, <2>12, <4>1, <4>2, <4>3
    <3> QED BY <2>12, <3>2, <3>3, <2>7, <1>5, <1>7, <2>18 DEF PassesBwd
  <2> QED BY <2>1, <2>5, <2>16, <2>17, <2>18 DEF SameBut
<1> QED BY <1>6, <1>7

\* The next step of an iterator that runs backward.
LEMMA PrevEntryIs ==
  ASSUME NEW c \in CursorRec, NEW t \in PartRec, ~c.fwd, PlacedBwd(c, t)
  PROVE  LET d == PrevEntry(c, t)
         IN  /\ SameBut(c, d) /\ ~d.fwd /\ ~d.invalid /\ PlacedBwd(d, t)
             /\ c.invalid => Behind(d) = Behind(c)
             /\ ~c.invalid => PassesBwd(Visible(c, t), Behind(c), Behind(d))
<1> DEFINE j == [c EXCEPT !.fwd = c.fwd, !.invalid = FALSE]
<1>1. ~IsEnd(c)
  BY KeyBwdIs
<1>2. /\ j \in CursorRec /\ j.open = c.open /\ j.snap = c.snap /\ j.it = c.it /\ j.ins = c.ins
      /\ j.fwd = c.fwd /\ ~j.invalid
  BY DEF CursorRec
<1>3. PrevEntry(c, t) = IF c.invalid THEN j ELSE StepBwd(j, t)
  <2>1. c.fwd \in BOOLEAN
    BY DEF CursorRec
  <2> QED BY <1>1, <2>1, <1>2 DEF PrevEntry, CursorRec
<1> HIDE DEF j
<1>4. PlacedBwd(j, t) /\ Behind(j) = Behind(c) /\ Visible(j, t) = Visible(c, t)
  BY <1>2 DEF PlacedBwd, Behind, Visible
<1>5. CASE c.invalid
  BY <1>2, <1>3, <1>4, <1>5 DEF SameBut
<1>6. CASE ~c.invalid
  <2>1. PICK d : d = StepBwd(j, t)
    OBVIOUS
  <2>2. /\ SameBut(j, d) /\ ~d.fwd /\ d.invalid = j.invalid
        /\ PlacedBwd(d, t) /\ PassesBwd(Visible(j, t), Behind(j), Behind(d))
    BY <1>2, <1>4, <2>1, StepBwdIs
  <2> QED BY <1>2, <1>3, <1>4, <1>6, <2>1, <2>2 DEF SameBut
<1> QED BY <1>5, <1>6

\* An iterator positioned from p on backward stands on what comes first.
PositionedBwd(c, t, p) ==
  ~c.fwd /\ ~c.invalid /\ IsPrev(c.snap \ t.dels, p, c.it) /\ IsPrev(t.puts, p, c.ins)

\* The same backward.
LEMMA PositionedBwdIs ==
  ASSUME NEW c \in CursorRec, NEW t \in PartRec, NEW p \in Slots, PositionedBwd(c, t, p)
  PROVE  /\ PlacedBwd(c, t) /\ (Behind(c) = AtBegin \/ Behind(c) < p)
         /\ \A x \in Visible(c, t) : x < p => x <= Behind(c)
<1> DEFINE S == c.snap  P == t.puts  D == t.dels  i == c.it  j == c.ins
<1>1. /\ i \in Slots /\ j \in Slots /\ S \in SUBSET Keys /\ P \in SUBSET Keys /\ D \in SUBSET Keys /\ P \cap D = {}
  BY DEF CursorRec, PartRec
<1>2. i \in (S \ D) \cup {AtBegin} /\ (i = AtBegin \/ i < p) /\ \A x \in S \ D : x < p => x <= i
  BY DEF PositionedBwd, IsPrev
<1>3. j \in P \cup {AtBegin} /\ (j = AtBegin \/ j < p) /\ \A x \in P : x < p => x <= j
  BY DEF PositionedBwd, IsPrev
<1>4. \A x \in Visible(c, t) : x \in S \ D \/ x \in P
  BY DEF Visible
<1>5. Behind(c) = (IF i >= j THEN i ELSE j)
  BY DEF Behind
<1>6. PlacedBwd(c, t) <=> /\ i \in S \cup {AtBegin} /\ j \in P \cup {AtBegin}
                          /\ \A x \in P : x > j => x > i
                          /\ \A x \in S \ (D \cup P) : x > i => x > j
  BY DEF PlacedBwd
<1> HIDE DEF S, P, D, i, j
<1>7. PlacedBwd(c, t)
  <2>1. ASSUME NEW x \in P, x > j PROVE x > i
    BY <1>1, <1>2, <1>3, <2>1, KeyNumbers
  <2>2. ASSUME NEW x \in S \ (D \cup P), x > i PROVE x > j
    BY <1>1, <1>2, <1>3, <2>2, KeyNumbers
  <2> QED BY <1>2, <1>3, <1>6, <2>1, <2>2
<1>8. Behind(c) = AtBegin \/ Behind(c) < p
  BY <1>1, <1>2, <1>3, <1>5, KeyNumbers
<1>9. \A x \in Visible(c, t) : x < p => x <= Behind(c)
  BY <1>1, <1>2, <1>3, <1>4, <1>5, KeyNumbers
<1> QED BY <1>7, <1>8, <1>9

\* seek() stands on the first entry from a key on, first() on the first of all.
LEMMA SeekIs ==
  ASSUME NEW c \in CursorRec, NEW t \in PartRec, NEW k \in Slots, k # AtBegin
  PROVE  SameBut(c, Seek(c, t, k)) /\ PositionedFwd(Seek(c, t, k), t, k - 1)
<1> DEFINE j == [c EXCEPT !.fwd = TRUE, !.invalid = FALSE]
           n == Skip(j, t.dels, Succ(c.snap, k - 1))
           m == Succ(t.puts, k - 1)
           d == [c EXCEPT !.it = n, !.ins = m, !.fwd = TRUE, !.invalid = FALSE]
<1>1. k - 1 \in Slots /\ k - 1 \in Int /\ t.dels \in SUBSET Keys /\ t.puts \in SUBSET Keys
  BY KeyNumbers DEF PartRec
<1>2. j \in CursorRec /\ j.snap = c.snap /\ j.fwd
  BY DEF CursorRec
<1>3. Seek(c, t, k) = d
  BY DEF Seek, CursorRec
<1> HIDE DEF j
<1>4. IsNext(c.snap \ t.dels, k - 1, n)
  BY <1>1, <1>2, SkipIs
<1>5. IsNext(t.puts, k - 1, m)
  BY <1>1, SuccIs
<1> HIDE DEF n, m
<1>6. c.snap \in SUBSET Keys
  BY DEF CursorRec
<1>7. n \in Slots /\ m \in Slots
  BY <1>1, <1>4, <1>5, <1>6, KeyNumbers DEF IsNext
<1>8. /\ d \in CursorRec /\ d.open = c.open /\ d.snap = c.snap /\ d.it = n /\ d.ins = m
      /\ d.fwd /\ ~d.invalid
  BY <1>7 DEF CursorRec
<1> QED BY <1>3, <1>4, <1>5, <1>8 DEF SameBut, PositionedFwd

\* first() is a seek to the first key there is.
LEMMA FirstIs ==
  ASSUME NEW c \in CursorRec, NEW t \in PartRec
  PROVE  First(c, t) = Seek(c, t, 1)
<1>1. AtBegin = 1 - 1
  BY DEF AtBegin
<1>2. ToFirst(c.snap) = Succ(c.snap, 1 - 1) /\ ToFirst(t.puts) = Succ(t.puts, 1 - 1)
  BY <1>1 DEF ToFirst
<1>3. c = [open |-> c.open, snap |-> c.snap, it |-> c.it, ins |-> c.ins, fwd |-> c.fwd, invalid |-> c.invalid]
  BY DEF CursorRec
<1> QED BY <1>2, <1>3 DEF First, Seek

\* last() stands on the last entry.
LEMMA LastIs ==
  ASSUME NEW c \in CursorRec, NEW t \in PartRec
  PROVE  SameBut(c, Last(c, t)) /\ PositionedBwd(Last(c, t), t, AtEnd)
<1> DEFINE j == [c EXCEPT !.fwd = FALSE, !.invalid = FALSE]
           n == Skip(j, t.dels, Pred(c.snap, AtEnd))
           m == Pred(t.puts, AtEnd)
           d == [c EXCEPT !.it = n, !.ins = m, !.fwd = FALSE, !.invalid = FALSE]
<1>1. AtEnd \in Slots /\ AtEnd \in Int /\ t.dels \in SUBSET Keys /\ t.puts \in SUBSET Keys
  BY KeyNumbers DEF PartRec
<1>2. j \in CursorRec /\ j.snap = c.snap /\ ~j.fwd
  BY DEF CursorRec
<1>3. Last(c, t) = d
  BY DEF Last, ToLast, CursorRec
<1> HIDE DEF j
<1>4. IsPrev(c.snap \ t.dels, AtEnd, n)
  BY <1>1, <1>2, SkipIs
<1>5. IsPrev(t.puts, AtEnd, m)
  BY <1>1, PredIs
<1> HIDE DEF n, m
<1>6. c.snap \in SUBSET Keys
  BY DEF CursorRec
<1>7. n \in Slots /\ m \in Slots
  BY <1>1, <1>4, <1>5, <1>6, KeyNumbers DEF IsPrev
<1>8. /\ d \in CursorRec /\ d.open = c.open /\ d.snap = c.snap /\ d.it = n /\ d.ins = m
      /\ ~d.fwd /\ ~d.invalid
  BY <1>7 DEF CursorRec
<1> QED BY <1>3, <1>4, <1>5, <1>8 DEF SameBut, PositionedBwd

\* One position before another that is the first from k on, is the last before k.
LEMMA PrevOfNext ==
  ASSUME NEW S \in SUBSET Keys, NEW k \in Slots, k # AtBegin, NEW p, IsNext(S, k - 1, p), NEW q, IsPrev(S, p, q)
  PROVE  IsPrev(S, k, q) /\ q < k /\ p >= k
<1>1. p \in S \cup {AtEnd} /\ (p = AtEnd \/ p > k - 1) /\ \A x \in S : x > k - 1 => x >= p
  BY DEF IsNext
<1>2. q \in S \cup {AtBegin} /\ (q = AtBegin \/ q < p) /\ \A x \in S : x < p => x <= q
  BY DEF IsPrev
<1>3. p \in Int /\ q \in Int /\ p >= k
  BY <1>1, <1>2, KeyNumbers
<1>4. q < k
  BY <1>1, <1>2, <1>3, KeyNumbers
<1>5. \A x \in S : x < k => x <= q
  BY <1>1, <1>2, <1>3, KeyNumbers
<1> QED BY <1>2, <1>3, <1>4, <1>5 DEF IsPrev

\* A descending query seeks and steps back: it stands on the last entry before the
\* key, whichever position has to be turned.
LEMMA SeekPrevIs ==
  ASSUME NEW c \in CursorRec, NEW t \in PartRec, NEW k \in Slots, k # AtBegin
  PROVE  LET d == PrevEntry(Seek(c, t, k), t)
         IN  SameBut(c, d) /\ PositionedBwd(d, t, k)
<1> DEFINE S == c.snap \ t.dels  P == t.puts
<1>1. PICK s : s = Seek(c, t, k)
  OBVIOUS
<1>2. SameBut(c, s) /\ PositionedFwd(s, t, k - 1)
  BY <1>1, SeekIs
<1>3. s \in CursorRec /\ s.snap = c.snap /\ s.fwd /\ ~s.invalid /\ IsNext(S, k - 1, s.it) /\ IsNext(P, k - 1, s.ins)
  BY <1>2 DEF SameBut, PositionedFwd
<1>4. S \in SUBSET Keys /\ P \in SUBSET Keys /\ t.dels \in SUBSET Keys
  BY DEF CursorRec, PartRec
<1>5. s.it \in Slots /\ s.ins \in Slots /\ s.it >= k /\ s.ins >= k /\ k \in Int /\ k <= AtEnd
  BY <1>3, <1>4, KeyNumbers DEF IsNext, CursorRec
<1>6. CASE IsEnd(s)
  <2>1. PrevEntry(s, t) = Last(s, t)
    BY <1>6 DEF PrevEntry
  <2>2. SameBut(s, Last(s, t)) /\ PositionedBwd(Last(s, t), t, AtEnd)
    BY <1>3, LastIs
  <2>3. PICK d : d = Last(s, t)
    OBVIOUS
  <2>4. d.snap = c.snap /\ IsPrev(S, AtEnd, d.it) /\ IsPrev(P, AtEnd, d.ins) /\ ~d.fwd /\ ~d.invalid
    BY <2>2, <2>3, <1>3 DEF PositionedBwd, SameBut
  <2>5. IsPrev(S, k, d.it) /\ IsPrev(P, k, d.ins)
    BY <1>3, <1>4, <1>6, <2>4, PrevOfNext DEF IsEnd
  <2> QED BY <1>1, <1>2, <1>3, <2>1, <2>2, <2>3, <2>4, <2>5 DEF SameBut, PositionedBwd
<1>7. CASE ~IsEnd(s)
  <2> DEFINE n == ItPrev([s EXCEPT !.fwd = FALSE, !.invalid = FALSE], t.dels).it
             m == PredPut(P, s.ins)
  <2>1. PredPut(t.puts, s.ins) = m
    OBVIOUS
  <2>2. PICK j : j = [s EXCEPT !.fwd = FALSE, !.invalid = FALSE]
    OBVIOUS
  <2>3. /\ j \in CursorRec /\ j.open = s.open /\ j.snap = c.snap /\ j.it = s.it /\ j.ins = s.ins
        /\ ~j.fwd /\ ~j.invalid
    BY <1>3, <2>2 DEF CursorRec
  <2>4. IsPrev(S, k, n) /\ n < k /\ ItPrev(j, t.dels) = [j EXCEPT !.it = n] /\ n \in Slots
    <3>1. ItPrev(j, t.dels) = [j EXCEPT !.it = n] /\ n \in Slots /\ IsPrev(S, j.it, n)
      BY <1>4, <2>2, <2>3, ItPrevIs
    <3> QED BY <1>3, <1>4, <2>3, <3>1, PrevOfNext
  <2>5. IsPrev(P, k, m) /\ m < k /\ m \in Slots
    BY <1>3, <1>4, <1>5, PredPutIs, PrevOfNext
  <2> HIDE DEF n, m
  <2>6. PICK both : both = [j EXCEPT !.it = n, !.ins = m]
    OBVIOUS
  <2>7. PICK own : own = [j EXCEPT !.it = n]
    OBVIOUS
  <2>8. PICK put : put = [j EXCEPT !.ins = m]
    OBVIOUS
  <2>9. n \in Int /\ m \in Int /\ s.it \in Int /\ s.ins \in Int /\ n < s.it /\ n < s.ins /\ m < s.it /\ m < s.ins
    BY <1>5, <2>4, <2>5, KeyNumbers
  <2>10. /\ own \in CursorRec /\ own.it = n /\ own.ins = s.ins /\ put \in CursorRec /\ put.it = s.it /\ put.ins = m
         /\ both \in CursorRec /\ both.open = s.open /\ both.snap = c.snap /\ both.it = n /\ both.ins = m
         /\ ~both.fwd /\ ~both.invalid
    BY <2>3, <2>4, <2>5, <2>6, <2>7, <2>8 DEF CursorRec
  <2>11. StepBwd(own, t) = both
    <3>1. StepBwd(own, t) = [own EXCEPT !.ins = PredPut(t.puts, own.ins)]
      BY <2>9, <2>10 DEF StepBwd
    <3> QED BY <2>1, <2>3, <2>6, <2>7, <2>10, <3>1 DEF CursorRec
  <2>12. ItPrev(put, t.dels).it = n /\ ItPrev(put, t.dels) = [put EXCEPT !.it = n]
    BY <2>3, <2>4, <2>8, <2>10 DEF ItPrev, Skip, CursorRec
  <2>13. StepBwd(put, t) = both
    <3>1. StepBwd(put, t) = ItPrev(put, t.dels)
      BY <2>9, <2>10, <2>12 DEF StepBwd
    <3> QED BY <2>3, <2>6, <2>8, <2>12, <3>1 DEF CursorRec
  <2>14. StepBwd(j, t) = IF s.it > s.ins THEN own ELSE IF s.it < s.ins THEN put ELSE both
    <3>1. CASE s.it > s.ins
      BY <2>3, <2>4, <2>7, <2>9, <3>1 DEF StepBwd
    <3>2. CASE s.it < s.ins
      BY <2>1, <2>3, <2>8, <2>9, <3>2 DEF StepBwd
    <3>3. CASE s.it = s.ins
      <4>1. j.it >= j.ins /\ j.ins >= j.it /\ ItPrev(j, t.dels) = own
        BY <2>3, <2>4, <2>7, <2>9, <3>3
      <4>2. StepBwd(j, t) = [own EXCEPT !.ins = PredPut(t.puts, @)]
        BY <4>1 DEF StepBwd
      <4> QED BY <2>1, <2>3, <2>6, <2>7, <2>9, <2>10, <3>3, <4>2 DEF CursorRec
    <3> QED BY <2>9, <3>1, <3>2, <3>3
  <2>15. KeyOf(s) = (IF s.it <= s.ins THEN s.it ELSE s.ins) /\ KeyOf(j) = (IF s.it >= s.ins THEN s.it ELSE s.ins)
    BY <1>3, <2>3, <2>9, InTransactionIs DEF KeyOf
  <2>16. PrevEntry(s, t) = both
    <3> DEFINE turned == IF j.it = AtEnd THEN ItPrev(j, t.dels)
                         ELSE IF j.ins = AtEnd THEN [j EXCEPT !.ins = PredPut(t.puts, @)]
                         ELSE IF KeyOf(s) < KeyOf(j) THEN StepBwd(j, t)
                         ELSE j
    <3>1. PrevEntry(s, t) = StepBwd(turned, t)
      BY <1>3, <1>7, <2>2 DEF PrevEntry
    <3>2. [j EXCEPT !.ins = PredPut(t.puts, @)] = put
      BY <2>1, <2>3, <2>8
    <3>3. CASE j.it = AtEnd
      BY <2>4, <2>7, <2>11, <3>1, <3>3
    <3>4. CASE j.it # AtEnd /\ j.ins = AtEnd
      BY <2>13, <3>1, <3>2, <3>4
    <3>5. CASE j.it # AtEnd /\ j.ins # AtEnd /\ s.it # s.ins
      <4>1. KeyOf(s) < KeyOf(j)
        BY <2>9, <2>15, <3>5
      <4>2. turned = StepBwd(j, t)
        BY <3>5, <4>1
      <4>3. turned = own \/ turned = put
        BY <2>9, <2>14, <3>5, <4>2
      <4> QED BY <2>11, <2>13, <3>1, <4>3
    <3>6. CASE j.it # AtEnd /\ j.ins # AtEnd /\ s.it = s.ins
      <4>1. ~(KeyOf(s) < KeyOf(j))
        BY <2>9, <2>15, <3>6
      <4>2. turned = j
        BY <3>6, <4>1
      <4> QED BY <2>9, <2>14, <3>1, <3>6, <4>2
    <3> QED BY <3>3, <3>4, <3>5, <3>6
  <2> QED BY <1>1, <1>2, <2>4, <2>5, <2>10, <2>16 DEF SameBut, PositionedBwd
<1> QED BY <1>6, <1>7

\* A put changes neither where a walk is nor what it has still to return.
LEMMA PutWalkFwd ==
  ASSUME NEW c \in CursorRec, NEW t \in PartRec, NEW w \in WalkRec, PlacedFwd(c, t), WalkFwd(c, w, t),
         NEW k \in Keys, NEW u \in PartRec, u.puts = t.puts \cup {k}, u.dels = t.dels \ {k}
  PROVE  WalkFwd(NotifyPut(c, u, k), w, u)
<1>1. PICK d : d = NotifyPut(c, u, k)
  OBVIOUS
<1>2. c.fwd
  BY DEF WalkFwd
<1>3. /\ SameBut(c, d) /\ d.fwd /\ d.invalid = c.invalid
      /\ PlacedFwd(d, u) /\ Ahead(d) = Ahead(c)
  BY <1>1, <1>2, NotifyPutFwdIs
<1>4. d.open = c.open /\ d.snap = c.snap
  BY <1>3 DEF SameBut
<1>5. Visible(c, t) \subseteq Visible(d, u)
  BY <1>4 DEF Visible
<1>6. WalkFwd(d, w, u)
  BY <1>3, <1>4, <1>5 DEF WalkFwd
<1> QED BY <1>1, <1>6

\* After a deletion, the iterator is where it was, or beyond if it stood there.
LEMMA DeleteWalkFwd ==
  ASSUME NEW c \in CursorRec, NEW t \in PartRec, NEW w \in WalkRec, PlacedFwd(c, t), WalkFwd(c, w, t),
         NEW k \in Keys, NEW u \in PartRec, u.puts = t.puts \ {k}, u.dels = t.dels \cup {k},
         NEW v \in WalkRec, v.must = w.must \ {k}, v.seen = w.seen, v.again = w.again,
         v.elsewhere = (w.elsewhere \/ k # KeyOf(c))
  PROVE  WalkFwd(NotifyDelete(c, t, k), v, u)
<1>1. PICK d : d = NotifyDelete(c, t, k)
  OBVIOUS
<1>2. c.fwd /\ c.open /\ ~w.again /\ w.must \subseteq Visible(c, t)
  BY DEF WalkFwd
<1>3. /\ SameBut(c, d) /\ d.fwd /\ PlacedFwd(d, u)
      /\ d = c \/ d.invalid
      /\ d = c \/ k # Ahead(c) => Ahead(d) = Ahead(c)
      /\ d # c /\ k = Ahead(c) => PassesFwd(Visible(c, t), Ahead(c), Ahead(d))
  BY <1>1, <1>2, NotifyDeleteFwdIs
<1>4. d.open = c.open /\ d.snap = c.snap /\ d \in CursorRec
  BY <1>3 DEF SameBut
<1>5. v.must \subseteq Visible(d, u)
  BY <1>2, <1>4 DEF Visible
<1>6. Ahead(c) \in Int /\ Ahead(d) \in Int /\ KeyOf(c) = Ahead(c) /\ AtEnd \in Int
  BY <1>2, <1>3, <1>4, KeyFwdIs, KeyNumbers
<1>7. \A x \in w.must \cup w.seen : x \in Int
  BY KeyNumbers DEF WalkRec
<1>8. ASSUME NEW x \in v.must \ v.seen PROVE x >= Ahead(d) /\ (x = Ahead(d) => d.invalid)
  <2>1. x \in w.must \ w.seen /\ x # k /\ x \in Visible(c, t)
    BY <1>2
  <2>2. x >= Ahead(c) /\ (x = Ahead(c) => c.invalid)
    BY <2>1 DEF WalkFwd
  <2>3. CASE d = c
    BY <2>2, <2>3
  <2>4. CASE d # c /\ k # Ahead(c)
    BY <1>3, <2>2, <2>4
  <2>5. CASE d # c /\ k = Ahead(c)
    <3>1. x > Ahead(c)
      BY <1>6, <1>7, <2>1, <2>2, <2>5
    <3> QED BY <1>3, <2>1, <2>5, <3>1 DEF PassesFwd
  <2> QED BY <2>3, <2>4, <2>5
<1>9. ASSUME ~v.elsewhere, NEW x \in v.seen PROVE x <= Ahead(d) /\ (d.invalid => x < Ahead(d))
  <2>1. ~w.elsewhere /\ k = Ahead(c)
    BY <1>6, <1>9
  <2>2. x <= Ahead(c) /\ (c.invalid => x < Ahead(c))
    BY <1>9, <2>1 DEF WalkFwd
  <2>3. CASE d = c
    BY <2>2, <2>3
  <2>4. CASE d # c
    <3>1. Ahead(c) < AtEnd
      BY <2>1, KeyNumbers
    <3>2. Ahead(d) > Ahead(c)
      BY <1>3, <2>1, <2>4, <3>1 DEF PassesFwd
    <3> QED BY <1>6, <1>7, <1>9, <2>2, <3>2
  <2> QED BY <2>3, <2>4
<1>10. WalkFwd(d, v, u)
  BY <1>2, <1>3, <1>4, <1>5, <1>8, <1>9 DEF WalkFwd
<1> QED BY <1>1, <1>10

\* What a step forward returns is beyond what the walk returned before.
LEMMA ReturnedFwdIs ==
  ASSUME NEW d \in CursorRec, NEW t \in PartRec, NEW w \in WalkRec, d.open, d.fwd, ~d.invalid, PlacedFwd(d, t),
         ~w.again, w.must \subseteq Visible(d, t), \A x \in w.must \ w.seen : x >= Ahead(d),
         w.elsewhere \/ \A x \in w.seen : x < Ahead(d)
  PROVE  WalkFwd(d, Returned(d, w), t) /\ Returned(d, w) \in WalkRec /\ Returned(d, w).mode = w.mode
<1>1. KeyOf(d) = Ahead(d) /\ Ahead(d) \in Slots /\ Ahead(d) # AtBegin /\ (IsValid(d) <=> Ahead(d) # AtEnd)
  BY KeyFwdIs
<1>2. \A x \in w.seen \cup w.must : x \in Int /\ x # AtEnd
  BY KeyNumbers DEF WalkRec
<1>3. Ahead(d) \in Int
  BY <1>1, KeyNumbers
<1>4. CASE ~IsValid(d)
  <2>1. Returned(d, w) = w
    BY <1>4 DEF Returned
  <2>2. Ahead(d) = AtEnd
    BY <1>1, <1>4
  <2>3. \A x \in w.must \ w.seen : x >= Ahead(d) /\ x # Ahead(d)
    BY <1>2, <2>2
  <2>4. w.elsewhere \/ \A x \in w.seen : x <= Ahead(d)
    BY <1>2, <1>3
  <2>5. WalkFwd(d, w, t)
    BY <2>3, <2>4 DEF WalkFwd
  <2> QED BY <2>1, <2>5
<1>5. CASE IsValid(d)
  <2> DEFINE again == w.again \/ (Ahead(d) \in w.seen /\ ~w.elsewhere)
             v == [w EXCEPT !.seen = @ \cup {Ahead(d)}, !.again = again]
  <2>1. Returned(d, w) = v
    BY <1>1, <1>5 DEF Returned, WalkRec
  <2>2. Ahead(d) \in Keys
    BY <1>1, <1>5, KeyNumbers
  <2>3. again \in BOOLEAN
    BY DEF WalkRec
  <2>4. ~again
    BY <1>3
  <2> HIDE DEF again
  <2>5. /\ v \in WalkRec /\ v.mode = w.mode /\ v.must = w.must /\ v.seen = w.seen \cup {Ahead(d)}
        /\ v.elsewhere = w.elsewhere /\ v.again = again
    BY <2>2, <2>3 DEF WalkRec
  <2> HIDE DEF v
  <2>6. \A x \in v.must \ v.seen : x >= Ahead(d) /\ x # Ahead(d)
    BY <2>5
  <2>7. v.elsewhere \/ \A x \in v.seen : x <= Ahead(d)
    BY <1>2, <1>3, <2>5
  <2>8. WalkFwd(d, v, t)
    BY <2>4, <2>5, <2>6, <2>7 DEF WalkFwd
  <2> QED BY <2>1, <2>5, <2>8
<1> QED BY <1>4, <1>5

\* The next step of a walk.
LEMMA ForwardKeeps ==
  ASSUME NEW c \in CursorRec, NEW t \in PartRec, NEW w \in WalkRec, PlacedFwd(c, t), WalkFwd(c, w, t), ~IsEnd(c)
  PROVE  LET d == NextEntry(c, t)
         IN  /\ SameBut(c, d) /\ d.fwd /\ PlacedFwd(d, t)
             /\ WalkFwd(d, Returned(d, w), t) /\ Returned(d, w) \in WalkRec /\ Returned(d, w).mode = w.mode
<1>1. PICK d : d = NextEntry(c, t)
  OBVIOUS
<1>2. c.fwd /\ c.open /\ ~w.again /\ w.must \subseteq Visible(c, t)
  BY DEF WalkFwd
<1>3. /\ SameBut(c, d) /\ d.fwd /\ ~d.invalid /\ PlacedFwd(d, t)
      /\ c.invalid => Ahead(d) = Ahead(c)
      /\ ~c.invalid => PassesFwd(Visible(c, t), Ahead(c), Ahead(d))
  BY <1>1, <1>2, NextEntryIs
<1>4. d.open = c.open /\ d.snap = c.snap /\ d \in CursorRec
  BY <1>3 DEF SameBut
<1>5. Visible(d, t) = Visible(c, t)
  BY <1>4 DEF Visible
<1>6. Ahead(c) \in Int /\ Ahead(d) \in Int /\ Ahead(c) < AtEnd
  BY <1>2, <1>3, <1>4, KeyFwdIs, KeyNumbers
<1>7. \A x \in w.must \cup w.seen : x \in Int
  BY KeyNumbers DEF WalkRec
<1>8. ASSUME NEW x \in w.must \ w.seen PROVE x >= Ahead(d)
  <2>1. x >= Ahead(c) /\ (x = Ahead(c) => c.invalid)
    BY <1>8 DEF WalkFwd
  <2>2. CASE c.invalid
    BY <1>3, <2>1, <2>2
  <2>3. CASE ~c.invalid
    <3>1. x > Ahead(c)
      BY <1>6, <1>7, <2>1, <2>3
    <3> QED BY <1>2, <1>3, <2>3, <3>1 DEF PassesFwd
  <2> QED BY <2>2, <2>3
<1>9. ASSUME ~w.elsewhere, NEW x \in w.seen PROVE x < Ahead(d)
  <2>1. x <= Ahead(c) /\ (c.invalid => x < Ahead(c))
    BY <1>9 DEF WalkFwd
  <2>2. CASE c.invalid
    BY <1>3, <2>1, <2>2
  <2>3. CASE ~c.invalid
    <3>1. Ahead(d) > Ahead(c)
      BY <1>3, <1>6, <2>3 DEF PassesFwd
    <3> QED BY <1>6, <1>7, <2>1, <3>1
  <2> QED BY <2>2, <2>3
<1>10. WalkFwd(d, Returned(d, w), t) /\ Returned(d, w) \in WalkRec /\ Returned(d, w).mode = w.mode
  BY <1>2, <1>3, <1>4, <1>5, <1>8, <1>9, ReturnedFwdIs
<1> QED BY <1>1, <1>3, <1>10

\* The first step of a walk, which has returned nothing yet.
LEMMA StartFwdKeeps ==
  ASSUME NEW d \in CursorRec, NEW t \in PartRec, NEW w \in WalkRec, NEW p \in Slots,
         d.open, PositionedFwd(d, t, p), ~w.again, w.seen = {},
         w.must \subseteq Visible(d, t), \A x \in w.must : x > p
  PROVE  /\ d.fwd /\ PlacedFwd(d, t)
         /\ WalkFwd(d, Returned(d, w), t) /\ Returned(d, w) \in WalkRec /\ Returned(d, w).mode = w.mode
<1>1. d.fwd /\ ~d.invalid
  BY DEF PositionedFwd
<1>2. PlacedFwd(d, t) /\ \A x \in Visible(d, t) : x > p => x >= Ahead(d)
  BY PositionedFwdIs
<1>3. \A x \in w.must \ w.seen : x >= Ahead(d)
  BY <1>2
<1> QED BY <1>1, <1>2, <1>3, ReturnedFwdIs

\* A put changes neither where a walk is nor what it has still to return.
LEMMA PutWalkBwd ==
  ASSUME NEW c \in CursorRec, NEW t \in PartRec, NEW w \in WalkRec, PlacedBwd(c, t), WalkBwd(c, w, t),
         NEW k \in Keys, NEW u \in PartRec, u.puts = t.puts \cup {k}, u.dels = t.dels \ {k}
  PROVE  WalkBwd(NotifyPut(c, u, k), w, u)
<1>1. PICK d : d = NotifyPut(c, u, k)
  OBVIOUS
<1>2. ~c.fwd
  BY DEF WalkBwd
<1>3. /\ SameBut(c, d) /\ ~d.fwd /\ d.invalid = c.invalid
      /\ PlacedBwd(d, u) /\ Behind(d) = Behind(c)
  BY <1>1, <1>2, NotifyPutBwdIs
<1>4. d.open = c.open /\ d.snap = c.snap
  BY <1>3 DEF SameBut
<1>5. Visible(c, t) \subseteq Visible(d, u)
  BY <1>4 DEF Visible
<1>6. WalkBwd(d, w, u)
  BY <1>3, <1>4, <1>5 DEF WalkBwd
<1> QED BY <1>1, <1>6

\* After a deletion, the iterator is where it was, or beyond if it stood there.
LEMMA DeleteWalkBwd ==
  ASSUME NEW c \in CursorRec, NEW t \in PartRec, NEW w \in WalkRec, PlacedBwd(c, t), WalkBwd(c, w, t),
         NEW k \in Keys, NEW u \in PartRec, u.puts = t.puts \ {k}, u.dels = t.dels \cup {k},
         NEW v \in WalkRec, v.must = w.must \ {k}, v.seen = w.seen, v.again = w.again,
         v.elsewhere = (w.elsewhere \/ k # KeyOf(c))
  PROVE  WalkBwd(NotifyDelete(c, t, k), v, u)
<1>1. PICK d : d = NotifyDelete(c, t, k)
  OBVIOUS
<1>2. ~c.fwd /\ c.open /\ ~w.again /\ w.must \subseteq Visible(c, t)
  BY DEF WalkBwd
<1>3. /\ SameBut(c, d) /\ ~d.fwd /\ PlacedBwd(d, u)
      /\ d = c \/ d.invalid
      /\ d = c \/ k # Behind(c) => Behind(d) = Behind(c)
      /\ d # c /\ k = Behind(c) => PassesBwd(Visible(c, t), Behind(c), Behind(d))
  BY <1>1, <1>2, NotifyDeleteBwdIs
<1>4. d.open = c.open /\ d.snap = c.snap /\ d \in CursorRec
  BY <1>3 DEF SameBut
<1>5. v.must \subseteq Visible(d, u)
  BY <1>2, <1>4 DEF Visible
<1>6. Behind(c) \in Int /\ Behind(d) \in Int /\ KeyOf(c) = Behind(c) /\ AtBegin \in Int
  BY <1>2, <1>3, <1>4, KeyBwdIs, KeyNumbers
<1>7. \A x \in w.must \cup w.seen : x \in Int
  BY KeyNumbers DEF WalkRec
<1>8. ASSUME NEW x \in v.must \ v.seen PROVE x <= Behind(d) /\ (x = Behind(d) => d.invalid)
  <2>1. x \in w.must \ w.seen /\ x # k /\ x \in Visible(c, t)
    BY <1>2
  <2>2. x <= Behind(c) /\ (x = Behind(c) => c.invalid)
    BY <2>1 DEF WalkBwd
  <2>3. CASE d = c
    BY <2>2, <2>3
  <2>4. CASE d # c /\ k # Behind(c)
    BY <1>3, <2>2, <2>4
  <2>5. CASE d # c /\ k = Behind(c)
    <3>1. x < Behind(c)
      BY <1>6, <1>7, <2>1, <2>2, <2>5
    <3> QED BY <1>3, <2>1, <2>5, <3>1 DEF PassesBwd
  <2> QED BY <2>3, <2>4, <2>5
<1>9. ASSUME ~v.elsewhere, NEW x \in v.seen PROVE x >= Behind(d) /\ (d.invalid => x > Behind(d))
  <2>1. ~w.elsewhere /\ k = Behind(c)
    BY <1>6, <1>9
  <2>2. x >= Behind(c) /\ (c.invalid => x > Behind(c))
    BY <1>9, <2>1 DEF WalkBwd
  <2>3. CASE d = c
    BY <2>2, <2>3
  <2>4. CASE d # c
    <3>1. Behind(c) > AtBegin
      BY <2>1, KeyNumbers
    <3>2. Behind(d) < Behind(c)
      BY <1>3, <2>1, <2>4, <3>1 DEF PassesBwd
    <3> QED BY <1>6, <1>7, <1>9, <2>2, <3>2
  <2> QED BY <2>3, <2>4
<1>10. WalkBwd(d, v, u)
  BY <1>2, <1>3, <1>4, <1>5, <1>8, <1>9 DEF WalkBwd
<1> QED BY <1>1, <1>10

\* What a step backward returns is beyond what the walk returned before.
LEMMA ReturnedBwdIs ==
  ASSUME NEW d \in CursorRec, NEW t \in PartRec, NEW w \in WalkRec, d.open, ~d.fwd, ~d.invalid, PlacedBwd(d, t),
         ~w.again, w.must \subseteq Visible(d, t), \A x \in w.must \ w.seen : x <= Behind(d),
         w.elsewhere \/ \A x \in w.seen : x > Behind(d)
  PROVE  WalkBwd(d, Returned(d, w), t) /\ Returned(d, w) \in WalkRec /\ Returned(d, w).mode = w.mode
<1>1. KeyOf(d) = Behind(d) /\ Behind(d) \in Slots /\ Behind(d) # AtEnd /\ (IsValid(d) <=> Behind(d) # AtBegin)
  BY KeyBwdIs
<1>2. \A x \in w.seen \cup w.must : x \in Int /\ x # AtBegin
  BY KeyNumbers DEF WalkRec
<1>3. Behind(d) \in Int
  BY <1>1, KeyNumbers
<1>4. CASE ~IsValid(d)
  <2>1. Returned(d, w) = w
    BY <1>4 DEF Returned
  <2>2. Behind(d) = AtBegin
    BY <1>1, <1>4
  <2>3. \A x \in w.must \ w.seen : x <= Behind(d) /\ x # Behind(d)
    BY <1>2, <2>2
  <2>4. w.elsewhere \/ \A x \in w.seen : x >= Behind(d)
    BY <1>2, <1>3
  <2>5. WalkBwd(d, w, t)
    BY <2>3, <2>4 DEF WalkBwd
  <2> QED BY <2>1, <2>5
<1>5. CASE IsValid(d)
  <2> DEFINE again == w.again \/ (Behind(d) \in w.seen /\ ~w.elsewhere)
             v == [w EXCEPT !.seen = @ \cup {Behind(d)}, !.again = again]
  <2>1. Returned(d, w) = v
    BY <1>1, <1>5 DEF Returned, WalkRec
  <2>2. Behind(d) \in Keys
    BY <1>1, <1>5, KeyNumbers
  <2>3. again \in BOOLEAN
    BY DEF WalkRec
  <2>4. ~again
    BY <1>3
  <2> HIDE DEF again
  <2>5. /\ v \in WalkRec /\ v.mode = w.mode /\ v.must = w.must /\ v.seen = w.seen \cup {Behind(d)}
        /\ v.elsewhere = w.elsewhere /\ v.again = again
    BY <2>2, <2>3 DEF WalkRec
  <2> HIDE DEF v
  <2>6. \A x \in v.must \ v.seen : x <= Behind(d) /\ x # Behind(d)
    BY <2>5
  <2>7. v.elsewhere \/ \A x \in v.seen : x >= Behind(d)
    BY <1>2, <1>3, <2>5
  <2>8. WalkBwd(d, v, t)
    BY <2>4, <2>5, <2>6, <2>7 DEF WalkBwd
  <2> QED BY <2>1, <2>5, <2>8
<1> QED BY <1>4, <1>5

\* The next step of a walk.
LEMMA BackwardKeeps ==
  ASSUME NEW c \in CursorRec, NEW t \in PartRec, NEW w \in WalkRec, PlacedBwd(c, t), WalkBwd(c, w, t), ~IsBegin(c)
  PROVE  LET d == PrevEntry(c, t)
         IN  /\ SameBut(c, d) /\ ~d.fwd /\ PlacedBwd(d, t)
             /\ WalkBwd(d, Returned(d, w), t) /\ Returned(d, w) \in WalkRec /\ Returned(d, w).mode = w.mode
<1>1. PICK d : d = PrevEntry(c, t)
  OBVIOUS
<1>2. ~c.fwd /\ c.open /\ ~w.again /\ w.must \subseteq Visible(c, t)
  BY DEF WalkBwd
<1>3. /\ SameBut(c, d) /\ ~d.fwd /\ ~d.invalid /\ PlacedBwd(d, t)
      /\ c.invalid => Behind(d) = Behind(c)
      /\ ~c.invalid => PassesBwd(Visible(c, t), Behind(c), Behind(d))
  BY <1>1, <1>2, PrevEntryIs
<1>4. d.open = c.open /\ d.snap = c.snap /\ d \in CursorRec
  BY <1>3 DEF SameBut
<1>5. Visible(d, t) = Visible(c, t)
  BY <1>4 DEF Visible
<1>6. Behind(c) \in Int /\ Behind(d) \in Int /\ Behind(c) > AtBegin
  BY <1>2, <1>3, <1>4, KeyBwdIs, KeyNumbers
<1>7. \A x \in w.must \cup w.seen : x \in Int
  BY KeyNumbers DEF WalkRec
<1>8. ASSUME NEW x \in w.must \ w.seen PROVE x <= Behind(d)
  <2>1. x <= Behind(c) /\ (x = Behind(c) => c.invalid)
    BY <1>8 DEF WalkBwd
  <2>2. CASE c.invalid
    BY <1>3, <2>1, <2>2
  <2>3. CASE ~c.invalid
    <3>1. x < Behind(c)
      BY <1>6, <1>7, <2>1, <2>3
    <3> QED BY <1>2, <1>3, <2>3, <3>1 DEF PassesBwd
  <2> QED BY <2>2, <2>3
<1>9. ASSUME ~w.elsewhere, NEW x \in w.seen PROVE x > Behind(d)
  <2>1. x >= Behind(c) /\ (c.invalid => x > Behind(c))
    BY <1>9 DEF WalkBwd
  <2>2. CASE c.invalid
    BY <1>3, <2>1, <2>2
  <2>3. CASE ~c.invalid
    <3>1. Behind(d) < Behind(c)
      BY <1>3, <1>6, <2>3 DEF PassesBwd
    <3> QED BY <1>6, <1>7, <2>1, <3>1
  <2> QED BY <2>2, <2>3
<1>10. WalkBwd(d, Returned(d, w), t) /\ Returned(d, w) \in WalkRec /\ Returned(d, w).mode = w.mode
  BY <1>2, <1>3, <1>4, <1>5, <1>8, <1>9, ReturnedBwdIs
<1> QED BY <1>1, <1>3, <1>10

\* The first step of a walk, which has returned nothing yet.
LEMMA StartBwdKeeps ==
  ASSUME NEW d \in CursorRec, NEW t \in PartRec, NEW w \in WalkRec, NEW p \in Slots,
         d.open, PositionedBwd(d, t, p), ~w.again, w.seen = {},
         w.must \subseteq Visible(d, t), \A x \in w.must : x < p
  PROVE  /\ ~d.fwd /\ PlacedBwd(d, t)
         /\ WalkBwd(d, Returned(d, w), t) /\ Returned(d, w) \in WalkRec /\ Returned(d, w).mode = w.mode
<1>1. ~d.fwd /\ ~d.invalid
  BY DEF PositionedBwd
<1>2. PlacedBwd(d, t) /\ \A x \in Visible(d, t) : x < p => x <= Behind(d)
  BY PositionedBwdIs
<1>3. \A x \in w.must \ w.seen : x <= Behind(d)
  BY <1>2
<1> QED BY <1>1, <1>2, <1>3, ReturnedBwdIs

\* Dropping an index begins at the first entry that may have its prefix.
LEMMA StartDropKeeps ==
  ASSUME NEW c \in CursorRec, NEW t \in PartRec, c.open, NEW p \in Prefixes, NEW w,
         w = [NoWalk EXCEPT !.mode = "delPrefix", !.prefix = p, !.others = Visible(c, t) \ p]
  PROVE  LET d == Seek(c, t, Min(p))
         IN  SameBut(c, d) /\ d.fwd /\ PlacedFwd(d, t) /\ Dropping(d, w, t) /\ w \in WalkRec
<1>1. p \in SUBSET Keys /\ p # {}
  BY LevelAssumption DEF LevelAssumption
<1>2. Min(p) \in p /\ \A y \in p : Min(p) <= y
  <2>1. p \in SUBSET Nat
    BY <1>1, KeyNumbers
  <2> QED BY <1>1, <2>1, MinIn
<1>3. PICK k : k = Min(p)
  OBVIOUS
<1>4. k \in Slots /\ k # AtBegin /\ k - 1 \in Slots
  BY <1>1, <1>2, <1>3, KeyNumbers
<1>5. PICK d : d = Seek(c, t, k)
  OBVIOUS
<1>6. SameBut(c, d) /\ PositionedFwd(d, t, k - 1)
  BY <1>4, <1>5, SeekIs
<1>7. d \in CursorRec /\ d.open /\ d.snap = c.snap /\ d.fwd /\ ~d.invalid
  BY <1>6 DEF SameBut, PositionedFwd
<1>8. /\ PlacedFwd(d, t) /\ (Ahead(d) = AtEnd \/ Ahead(d) > k - 1)
      /\ \A x \in Visible(d, t) : x > k - 1 => x >= Ahead(d)
  BY <1>4, <1>6, <1>7, PositionedFwdIs
<1>9. Visible(d, t) = Visible(c, t) /\ Visible(c, t) \in SUBSET Keys
  BY <1>7 DEF Visible, CursorRec, PartRec
<1>10. /\ w \in WalkRec /\ ~w.again /\ w.prefix = p /\ w.others = Visible(c, t) \ p
  BY <1>1, <1>9 DEF NoWalk, WalkRec
<1>11. Ahead(d) \in Slots
  BY <1>7, <1>8, KeyFwdIs
<1>12. \A x \in Visible(d, t) \cap p : x >= Ahead(d)
  BY <1>1, <1>2, <1>3, <1>4, <1>8, KeyNumbers
<1>13. k \in p /\ k <= Ahead(d)
  BY <1>1, <1>2, <1>3, <1>4, <1>8, <1>11, KeyNumbers
<1>14. Dropping(d, w, t)
  BY <1>7, <1>9, <1>10, <1>12, <1>13 DEF Dropping
<1> QED BY <1>3, <1>5, <1>6, <1>7, <1>8, <1>10, <1>14

\* The entry under the iterator is deleted and the iterator goes on.
LEMMA DropPrefixKeeps ==
  ASSUME NEW c \in CursorRec, NEW t \in PartRec, NEW w \in WalkRec, PlacedFwd(c, t), Dropping(c, w, t),
         IsValid(c), KeyOf(c) \in w.prefix,
         NEW u \in PartRec, u.puts = t.puts \ {KeyOf(c)}, u.dels = t.dels \cup {KeyOf(c)}
  PROVE  LET d == NextEntry(NotifyDelete(c, t, KeyOf(c)), u)
         IN  SameBut(c, d) /\ d.fwd /\ PlacedFwd(d, u) /\ Dropping(d, w, u)
<1>1. /\ c.open /\ c.fwd /\ ~c.invalid /\ ~w.again
      /\ w.prefix \in Prefixes /\ w.others = Visible(c, t) \ w.prefix
      /\ \A x \in Visible(c, t) \cap w.prefix : x >= Ahead(c)
      /\ \E x \in w.prefix : x <= Ahead(c)
  BY DEF Dropping
<1>2. PICK k : k = KeyOf(c)
  OBVIOUS
<1>3. k = Ahead(c) /\ k \in Keys /\ k # AtEnd
  BY <1>1, <1>2, KeyFwdIs, KeyNumbers
<1>4. PICK e : e = NotifyDelete(c, t, k)
  OBVIOUS
<1>5. /\ SameBut(c, e) /\ e.fwd /\ PlacedFwd(e, u)
      /\ e = c \/ e.invalid
      /\ e = c \/ k # Ahead(c) => Ahead(e) = Ahead(c)
      /\ e # c /\ k = Ahead(c) => PassesFwd(Visible(c, t), Ahead(c), Ahead(e))
  BY <1>1, <1>2, <1>3, <1>4, NotifyDeleteFwdIs
<1>6. e \in CursorRec /\ e.open /\ e.snap = c.snap
  BY <1>1, <1>5 DEF SameBut
<1>7. Visible(e, u) = Visible(c, t) \ {k}
  BY <1>2, <1>6 DEF Visible
<1>8. PICK d : d = NextEntry(e, u)
  OBVIOUS
<1>9. Ahead(c) \in Int /\ Ahead(e) \in Int /\ AtEnd \in Int /\ Ahead(c) < AtEnd /\ \A x \in Visible(c, t) : x \in Int
  BY <1>1, <1>3, <1>5, <1>6, KeyFwdIs, KeyNumbers DEF Visible, CursorRec, PartRec
<1>10. SameBut(e, d) /\ d.fwd /\ ~d.invalid /\ PlacedFwd(d, u) /\ PassesFwd(Visible(e, u), Ahead(c), Ahead(d))
  <2>1. CASE e = c
    <3>1. /\ SameBut(e, d) /\ d.fwd /\ ~d.invalid /\ PlacedFwd(d, u)
          /\ ~e.invalid => PassesFwd(Visible(e, u), Ahead(e), Ahead(d))
      BY <1>5, <1>6, <1>8, NextEntryIs
    <3> QED BY <1>1, <2>1, <3>1
  <2>2. CASE e # c
    <3>1. e.invalid /\ PassesFwd(Visible(c, t), Ahead(c), Ahead(e))
      BY <1>3, <1>5, <2>2
    <3>2. SameBut(e, d) /\ d.fwd /\ ~d.invalid /\ PlacedFwd(d, u) /\ Ahead(d) = Ahead(e)
      BY <1>5, <1>6, <1>8, <3>1, NextEntryIs
    <3>3. PassesFwd(Visible(e, u), Ahead(c), Ahead(e))
      BY <1>7, <3>1 DEF PassesFwd
    <3> QED BY <3>2, <3>3
  <2> QED BY <2>1, <2>2
<1>11. d.open /\ d.snap = c.snap /\ d \in CursorRec
  BY <1>6, <1>10 DEF SameBut
<1>12. Visible(d, u) = Visible(c, t) \ {k}
  BY <1>7, <1>6, <1>11 DEF Visible
<1>13. w.others = Visible(d, u) \ w.prefix
  BY <1>1, <1>2, <1>12
<1>14. ASSUME NEW x \in Visible(d, u) \cap w.prefix PROVE x >= Ahead(d)
  <2>1. x \in Visible(c, t) /\ x # k /\ x >= Ahead(c) /\ x \in Visible(e, u)
    BY <1>1, <1>7, <1>12
  <2>2. x > Ahead(c)
    BY <1>3, <1>9, <2>1
  <2> QED BY <1>10, <2>1, <2>2 DEF PassesFwd
<1>15. \E x \in w.prefix : x <= Ahead(d)
  <2>1. Ahead(d) > Ahead(c)
    BY <1>9, <1>10 DEF PassesFwd
  <2>2. Ahead(d) \in Int
    BY <1>10, <1>11, KeyFwdIs, KeyNumbers
  <2> QED BY <1>2, <1>3, <1>9, <2>1, <2>2
<1>16. Dropping(d, w, u)
  BY <1>1, <1>10, <1>11, <1>13, <1>14, <1>15 DEF Dropping
<1>17. SameBut(c, d)
  BY <1>5, <1>10 DEF SameBut
<1> QED BY <1>2, <1>4, <1>8, <1>10, <1>16, <1>17

-----------------------------------------------------------------------------
(* DbLevel: steps of the transaction *)

\* tableTxn() finds the part of a table, or an empty one.
LEMMA PartsAre == ASSUME LevelTypes, NEW table PROVE PartOf(table) \in PartRec
<1>1. Fresh \in PartRec
  BY DEF Fresh, PartRec
<1> QED BY <1>1 DEF LevelTypes, PartOf

\* A write changes the part of its table only.
LEMMA WithPartIs ==
  ASSUME LevelTypes, NEW table \in Tables, NEW part \in PartRec, levelTxn' = WithPart(table, part)
  PROVE  /\ DOMAIN levelTxn' \in SUBSET Tables /\ \A x \in DOMAIN levelTxn' : levelTxn'[x] \in PartRec
         /\ PartOf("idx")' = IF table = "idx" THEN part ELSE PartOf("idx")
<1>1. DOMAIN levelTxn' = DOMAIN levelTxn \cup {table}
  BY DEF WithPart
<1>2. \A x \in DOMAIN levelTxn' : levelTxn'[x] = IF x = table THEN part ELSE levelTxn[x]
  BY <1>1 DEF WithPart
<1>3. DOMAIN levelTxn' \in SUBSET Tables /\ \A x \in DOMAIN levelTxn' : levelTxn'[x] \in PartRec
  BY <1>1, <1>2 DEF LevelTypes
<1>4. PartOf("idx")' = IF table = "idx" THEN part ELSE PartOf("idx")
  BY <1>1, <1>2 DEF PartOf
<1> QED BY <1>3, <1>4

\* The part of a table after a put and after a deletion of k.
IsPut(t, u, k) == u.puts = t.puts \cup {k} /\ u.dels = t.dels \ {k}
IsDelete(t, u, k) == u.puts = t.puts \ {k} /\ u.dels = t.dels \cup {k}

\* A put moves k from the deletions to the puts.
LEMMA PartPut ==
  ASSUME NEW t \in PartRec, NEW k \in Keys
  PROVE  LET u == [t EXCEPT !.puts = @ \cup {k}, !.dels = @ \ {k}] IN u \in PartRec /\ IsPut(t, u, k)
<1>1. /\ t \in [puts : SUBSET Keys, dels : SUBSET Keys]
      /\ t.puts \in SUBSET Keys /\ t.dels \in SUBSET Keys /\ t.puts \cap t.dels = {}
  BY DEF PartRec
<1> DEFINE u == [t EXCEPT !.puts = @ \cup {k}, !.dels = @ \ {k}]
<1>2. u.puts = t.puts \cup {k} /\ u.dels = t.dels \ {k}
  BY <1>1
<1>3. u \in [puts : SUBSET Keys, dels : SUBSET Keys]
  BY <1>1
<1> HIDE DEF u
<1>4. u.puts \cap u.dels = {}
  BY <1>1, <1>2
<1> QED BY <1>2, <1>3, <1>4 DEF PartRec, IsPut

\* A deletion moves k from the puts to the deletions.
LEMMA PartDelete ==
  ASSUME NEW t \in PartRec, NEW k \in Keys
  PROVE  LET u == [t EXCEPT !.puts = @ \ {k}, !.dels = @ \cup {k}] IN u \in PartRec /\ IsDelete(t, u, k)
<1>1. /\ t \in [puts : SUBSET Keys, dels : SUBSET Keys]
      /\ t.puts \in SUBSET Keys /\ t.dels \in SUBSET Keys /\ t.puts \cap t.dels = {}
  BY DEF PartRec
<1> DEFINE u == [t EXCEPT !.puts = @ \ {k}, !.dels = @ \cup {k}]
<1>2. u.puts = t.puts \ {k} /\ u.dels = t.dels \cup {k}
  BY <1>1
<1>3. u \in [puts : SUBSET Keys, dels : SUBSET Keys]
  BY <1>1
<1> HIDE DEF u
<1>4. u.puts \cap u.dels = {}
  BY <1>1, <1>2
<1> QED BY <1>2, <1>3, <1>4 DEF PartRec, IsDelete

\* Nothing has been returned and nothing is known of a cursor that is not walked.
LEMMA NoWalkIs ==
  /\ NoWalk \in WalkRec /\ NoWalk.mode = "none" /\ ~NoWalk.again
  /\ ClosedCursor \in CursorRec /\ ~ClosedCursor.open
<1>1. AtEnd \in Slots
  BY KeyNumbers
<1> QED BY <1>1 DEF NoWalk, WalkRec, ClosedCursor, CursorRec

\* The initial state.
LEMMA LevelInvInit == LevelInit => LevelInv
<1> SUFFICES ASSUME LevelInit PROVE LevelInv
  OBVIOUS
<1>1. levelTxn = <<>> /\ cursor = ClosedCursor /\ walk = NoWalk /\ tables \in [Tables -> SUBSET Keys]
  BY DEF LevelInit
<1>2. DOMAIN levelTxn = {}
  BY <1>1
<1>3. LevelTypes
  BY <1>1, <1>2, NoWalkIs DEF LevelTypes
<1>4. WalkInv(cursor, walk, PartOf("idx"))
  BY <1>1, NoWalkIs DEF WalkInv
<1> QED BY <1>3, <1>4 DEF LevelInv

\* The walk invariant after a put to the table of the cursor.
LEMMA PutWalk ==
  ASSUME NEW c \in CursorRec, NEW w \in WalkRec, NEW t \in PartRec, NEW u \in PartRec, NEW k \in Keys,
         WalkInv(c, w, t), IsPut(t, u, k), w.mode \notin {"delPrefix", "done"}, c.open
  PROVE  LET d == NotifyPut(c, u, k) IN d \in CursorRec /\ WalkInv(d, w, u)
<1>1. PICK d : d = NotifyPut(c, u, k)
  OBVIOUS
<1>2. ~w.again
  BY DEF WalkInv
<1>3. CASE c.fwd
  <2>1. PlacedFwd(c, t)
    BY <1>3 DEF WalkInv, Placed
  <2>2. d \in CursorRec /\ d.fwd /\ PlacedFwd(d, u)
    BY <1>1, <1>3, <2>1, NotifyPutFwdIs DEF IsPut, SameBut
  <2>3. w.mode # "bwd"
    BY <1>3 DEF WalkInv, WalkBwd
  <2>4. w.mode = "fwd" => WalkFwd(d, w, u)
    BY <1>1, <2>1, PutWalkFwd DEF WalkInv, IsPut
  <2> QED BY <1>1, <1>2, <2>2, <2>3, <2>4 DEF WalkInv, Placed
<1>4. CASE ~c.fwd
  <2>1. PlacedBwd(c, t)
    BY <1>4 DEF WalkInv, Placed
  <2>2. d \in CursorRec /\ ~d.fwd /\ PlacedBwd(d, u)
    BY <1>1, <1>4, <2>1, NotifyPutBwdIs DEF IsPut, SameBut
  <2>3. w.mode # "fwd"
    BY <1>4 DEF WalkInv, WalkFwd
  <2>4. w.mode = "bwd" => WalkBwd(d, w, u)
    BY <1>1, <2>1, PutWalkBwd DEF WalkInv, IsPut
  <2> QED BY <1>1, <1>2, <2>2, <2>3, <2>4 DEF WalkInv, Placed
<1> QED BY <1>3, <1>4

\* What a deletion does to a walk.
Spared(c, w, k) == [w EXCEPT !.must = @ \ {k}, !.elsewhere = @ \/ k # KeyOf(c)]

\* A deletion takes k from what a walk must return, and nothing from what it returned.
LEMMA SparedIs ==
  ASSUME NEW c, NEW w \in WalkRec, NEW k
  PROVE  LET v == Spared(c, w, k)
         IN  /\ v \in WalkRec /\ v.mode = w.mode /\ v.must = w.must \ {k} /\ v.seen = w.seen /\ v.again = w.again
             /\ v.elsewhere = (w.elsewhere \/ k # KeyOf(c))
<1> DEFINE e == w.elsewhere \/ k # KeyOf(c)
<1>1. e \in BOOLEAN
  BY DEF WalkRec
<1>2. Spared(c, w, k) = [w EXCEPT !.must = w.must \ {k}, !.elsewhere = e]
  BY DEF Spared, WalkRec
<1> HIDE DEF e
<1>3. LET v == [w EXCEPT !.must = w.must \ {k}, !.elsewhere = e]
      IN  /\ v \in WalkRec /\ v.mode = w.mode /\ v.must = w.must \ {k} /\ v.seen = w.seen /\ v.again = w.again
          /\ v.elsewhere = e
  BY <1>1 DEF WalkRec
<1> QED BY <1>2, <1>3 DEF e

\* The walk invariant after a deletion from the table of the cursor.
LEMMA DeleteWalk ==
  ASSUME NEW c \in CursorRec, NEW w \in WalkRec, NEW t \in PartRec, NEW u \in PartRec, NEW k \in Keys,
         WalkInv(c, w, t), IsDelete(t, u, k), w.mode \notin {"delPrefix", "done"}, c.open,
         NEW v \in WalkRec, v = (IF w.mode = "none" THEN w ELSE Spared(c, w, k))
  PROVE  LET d == NotifyDelete(c, t, k) IN d \in CursorRec /\ WalkInv(d, v, u)
<1>1. PICK d : d = NotifyDelete(c, t, k)
  OBVIOUS
<1>2. ~w.again
  BY DEF WalkInv
<1>3. w.mode # "none" => /\ v.mode = w.mode /\ v.must = w.must \ {k} /\ v.seen = w.seen /\ v.again = w.again
                         /\ v.elsewhere = (w.elsewhere \/ k # KeyOf(c))
  BY SparedIs
<1>4. v.mode = w.mode /\ ~v.again
  BY <1>2, <1>3
<1>5. CASE c.fwd
  <2>1. PlacedFwd(c, t)
    BY <1>5 DEF WalkInv, Placed
  <2>2. d \in CursorRec /\ d.fwd /\ PlacedFwd(d, u)
    BY <1>1, <1>5, <2>1, NotifyDeleteFwdIs DEF IsDelete, SameBut
  <2>3. w.mode # "bwd"
    BY <1>5 DEF WalkInv, WalkBwd
  <2>4. w.mode = "fwd" => WalkFwd(d, v, u)
    BY <1>1, <1>3, <2>1, DeleteWalkFwd DEF WalkInv, IsDelete
  <2> QED BY <1>1, <1>4, <2>2, <2>3, <2>4 DEF WalkInv, Placed
<1>6. CASE ~c.fwd
  <2>1. PlacedBwd(c, t)
    BY <1>6 DEF WalkInv, Placed
  <2>2. d \in CursorRec /\ ~d.fwd /\ PlacedBwd(d, u)
    BY <1>1, <1>6, <2>1, NotifyDeleteBwdIs DEF IsDelete, SameBut
  <2>3. w.mode # "fwd"
    BY <1>6 DEF WalkInv, WalkFwd
  <2>4. w.mode = "bwd" => WalkBwd(d, v, u)
    BY <1>1, <1>3, <2>1, DeleteWalkBwd DEF WalkInv, IsDelete
  <2> QED BY <1>1, <1>4, <2>2, <2>3, <2>4 DEF WalkInv, Placed
<1> QED BY <1>5, <1>6

\* What is not open is not walked.
LEMMA WalkedIsOpen == ASSUME NEW c, NEW w \in WalkRec, NEW t, WalkInv(c, w, t), ~c.open PROVE w.mode = "none"
  BY DEF WalkInv, WalkFwd, WalkBwd, Dropping, Dropped, WalkRec

\* Put keeps the invariant.
LEMMA LevelPutKeeps == ASSUME LevelInv, NEW table \in Tables, NEW k \in Keys, Put(table, k) PROVE LevelInv'
<1> DEFINE t == PartOf(table)
           u == [t EXCEPT !.puts = @ \cup {k}, !.dels = @ \ {k}]
           d == IF table = "idx" /\ cursor.open THEN NotifyPut(cursor, u, k) ELSE cursor
<1>1. /\ levelTxn' = WithPart(table, u) /\ cursor' = d /\ walk' = walk /\ tables' = tables
      /\ walk.mode \notin {"delPrefix", "done"}
  BY DEF Put
<1>2. /\ LevelTypes /\ WalkInv(cursor, walk, PartOf("idx"))
      /\ tables \in [Tables -> SUBSET Keys] /\ cursor \in CursorRec /\ walk \in WalkRec
  BY DEF LevelInv, LevelTypes
<1>3. t \in PartRec /\ PartOf("idx") \in PartRec
  BY <1>2, PartsAre
<1>4. u \in PartRec /\ IsPut(t, u, k)
  BY <1>3, PartPut
<1> HIDE DEF u
<1>5. /\ DOMAIN levelTxn' \in SUBSET Tables /\ \A x \in DOMAIN levelTxn' : levelTxn'[x] \in PartRec
      /\ PartOf("idx")' = IF table = "idx" THEN u ELSE PartOf("idx")
  BY <1>1, <1>2, <1>4, WithPartIs
<1>6. d \in CursorRec /\ WalkInv(d, walk, PartOf("idx")')
  <2>1. CASE table = "idx" /\ cursor.open
    <3>1. t = PartOf("idx") /\ d = NotifyPut(cursor, u, k) /\ PartOf("idx")' = u
      BY <1>5, <2>1
    <3> HIDE DEF t, d
    <3> QED BY <1>1, <1>2, <1>3, <1>4, <2>1, <3>1, PutWalk
  <2>2. CASE table = "idx" /\ ~cursor.open
    <3>1. d = cursor /\ walk.mode = "none"
      BY <1>2, <2>2, WalkedIsOpen
    <3> QED BY <1>2, <2>2, <3>1 DEF WalkInv
  <2>3. CASE table # "idx"
    BY <1>2, <1>5, <2>3
  <2> QED BY <2>1, <2>2, <2>3
<1>7. LevelTypes'
  BY <1>1, <1>2, <1>5, <1>6 DEF LevelTypes
<1> HIDE DEF d
<1>8. WalkInv(cursor, walk, PartOf("idx"))'
  BY <1>1, <1>6
<1> QED BY <1>7, <1>8 DEF LevelInv

\* Delete keeps the invariant.
LEMMA LevelDeleteKeeps == ASSUME LevelInv, NEW table \in Tables, NEW k \in Keys, Delete(table, k) PROVE LevelInv'
<1> DEFINE t == PartOf(table)
           u == [t EXCEPT !.puts = @ \ {k}, !.dels = @ \cup {k}]
           d == IF table = "idx" /\ cursor.open THEN NotifyDelete(cursor, t, k) ELSE cursor
           v == IF table = "idx" /\ walk.mode # "none" THEN Spared(cursor, walk, k) ELSE walk
<1>1. /\ levelTxn' = WithPart(table, u) /\ cursor' = d /\ walk' = v /\ tables' = tables
      /\ walk.mode \notin {"delPrefix", "done"}
  BY DEF Delete, Spared
<1>2. /\ LevelTypes /\ WalkInv(cursor, walk, PartOf("idx"))
      /\ tables \in [Tables -> SUBSET Keys] /\ cursor \in CursorRec /\ walk \in WalkRec
  BY DEF LevelInv, LevelTypes
<1>3. t \in PartRec /\ PartOf("idx") \in PartRec
  BY <1>2, PartsAre
<1>4. u \in PartRec /\ IsDelete(t, u, k)
  BY <1>3, PartDelete
<1> HIDE DEF u
<1>5. /\ DOMAIN levelTxn' \in SUBSET Tables /\ \A x \in DOMAIN levelTxn' : levelTxn'[x] \in PartRec
      /\ PartOf("idx")' = IF table = "idx" THEN u ELSE PartOf("idx")
  BY <1>1, <1>2, <1>4, WithPartIs
<1>6. v \in WalkRec
  BY <1>2, SparedIs
<1>7. d \in CursorRec /\ WalkInv(d, v, PartOf("idx")')
  <2>1. CASE table = "idx" /\ cursor.open
    <3>1. /\ t = PartOf("idx") /\ d = NotifyDelete(cursor, t, k) /\ PartOf("idx")' = u
          /\ v = IF walk.mode = "none" THEN walk ELSE Spared(cursor, walk, k)
      BY <1>5, <2>1
    <3> HIDE DEF t, d, v
    <3> QED BY <1>1, <1>2, <1>3, <1>4, <1>6, <2>1, <3>1, DeleteWalk
  <2>2. CASE table = "idx" /\ ~cursor.open
    <3>1. d = cursor /\ walk.mode = "none" /\ v = walk
      BY <1>2, <2>2, WalkedIsOpen
    <3> QED BY <1>2, <2>2, <3>1 DEF WalkInv
  <2>3. CASE table # "idx"
    BY <1>2, <1>5, <2>3
  <2> QED BY <2>1, <2>2, <2>3
<1> HIDE DEF d, v
<1>8. LevelTypes'
  BY <1>1, <1>2, <1>5, <1>6, <1>7 DEF LevelTypes
<1>9. WalkInv(cursor, walk, PartOf("idx"))'
  BY <1>1, <1>7
<1> QED BY <1>8, <1>9 DEF LevelInv

-----------------------------------------------------------------------------
(* DbLevel: steps of the cursor *)

\* A step that leaves the transaction alone keeps the invariant if it leaves the
\* cursor and the walk in order.
LEMMA CursorStepKeeps ==
  ASSUME LevelInv, levelTxn' = levelTxn, tables' = tables, cursor' \in CursorRec, walk' \in WalkRec,
         WalkInv(cursor', walk', PartOf("idx"))
  PROVE  LevelInv'
<1>1. LevelTypes'
  BY DEF LevelInv, LevelTypes
<1>2. PartOf("idx")' = PartOf("idx")
  BY DEF PartOf
<1>3. WalkInv(cursor, walk, PartOf("idx"))'
  BY <1>2
<1> QED BY <1>1, <1>3 DEF LevelInv

\* The end of the transaction closes the cursor.
LEMMA LevelEndKeeps ==
  ASSUME LevelInv, levelTxn' = <<>>, cursor' = ClosedCursor, walk' = NoWalk, tables' \in [Tables -> SUBSET Keys]
  PROVE  LevelInv'
<1>1. DOMAIN levelTxn' = {}
  OBVIOUS
<1>2. LevelTypes'
  BY <1>1, NoWalkIs DEF LevelTypes
<1>3. WalkInv(cursor, walk, PartOf("idx"))'
  BY NoWalkIs DEF WalkInv
<1> QED BY <1>2, <1>3 DEF LevelInv

\* Each batch writes its own table.
LEMMA LevelCommitKeeps == ASSUME LevelInv, LevelCommit PROVE LevelInv'
<1>1. LevelTypes
  BY DEF LevelInv
<1>2. PICK failed : Commits(failed)
  BY DEF LevelCommit
<1>3. \A x \in Tables : PartOf(x) \in PartRec
  BY <1>1, PartsAre
<1>4. \A x \in Tables : PartOf(x).puts \in SUBSET Keys
  BY <1>3 DEF PartRec
<1>5. \A x \in Tables : tables[x] \in SUBSET Keys
  BY <1>1 DEF LevelTypes
<1>6. tables' \in [Tables -> SUBSET Keys]
  BY <1>2, <1>4, <1>5 DEF Commits
<1> QED BY <1>6, LevelEndKeeps DEF LevelCommit

\* An abort forgets the writes and keeps the tables.
LEMMA LevelAbortKeeps == ASSUME LevelInv, LevelAbort PROVE LevelInv'
<1>1. tables' \in [Tables -> SUBSET Keys]
  BY DEF LevelAbort, LevelInv, LevelTypes
<1> QED BY <1>1, LevelEndKeeps DEF LevelAbort

\* What the invariant says of the cursor's own table.
LEMMA LevelFacts ==
  ASSUME LevelInv
  PROVE  /\ LevelTypes /\ cursor \in CursorRec /\ walk \in WalkRec /\ PartOf("idx") \in PartRec
         /\ WalkInv(cursor, walk, PartOf("idx"))
BY PartsAre DEF LevelInv, LevelTypes

\* A cursor is opened on the table's entries and the part the transaction has.
LEMMA OpenCursorKeeps == ASSUME LevelInv, OpenCursor PROVE LevelInv'
<1> DEFINE t == PartOf("idx")
           c == [ClosedCursor EXCEPT !.open = TRUE, !.snap = tables["idx"]]
<1>1. /\ LevelTypes /\ walk \in WalkRec /\ t \in PartRec /\ WalkInv(cursor, walk, t)
      /\ tables \in [Tables -> SUBSET Keys]
  BY LevelFacts DEF LevelTypes
<1>2. /\ levelTxn' = WithPart("idx", t) /\ cursor' = First(c, t) /\ walk' = walk /\ tables' = tables
      /\ walk.mode = "none"
  BY DEF OpenCursor
<1>3. "idx" \in Tables
  BY DEF Tables
<1> HIDE DEF t
<1>4. /\ DOMAIN levelTxn' \in SUBSET Tables /\ \A x \in DOMAIN levelTxn' : levelTxn'[x] \in PartRec
      /\ PartOf("idx")' = t
  BY <1>1, <1>2, <1>3, WithPartIs
<1>5. c \in CursorRec
  <2>1. tables["idx"] \in SUBSET Keys /\ AtEnd \in Slots
    BY <1>1, <1>3, KeyNumbers
  <2> QED BY <2>1 DEF ClosedCursor, CursorRec
<1> HIDE DEF c
<1>6. 1 \in Slots /\ 1 # AtBegin /\ 1 - 1 = AtBegin /\ AtBegin \in Slots
  BY KeyNumbers
<1>7. SameBut(c, cursor') /\ PositionedFwd(cursor', t, 1 - 1)
  BY <1>1, <1>2, <1>5, <1>6, FirstIs, SeekIs
<1>8. cursor' \in CursorRec /\ cursor'.fwd
  BY <1>7 DEF SameBut, PositionedFwd
<1>9. PlacedFwd(cursor', t)
  BY <1>1, <1>6, <1>7, <1>8, PositionedFwdIs
<1>10. WalkInv(cursor', walk', t)
  BY <1>1, <1>2, <1>8, <1>9 DEF WalkInv, Placed
<1>11. LevelTypes'
  BY <1>1, <1>2, <1>4, <1>8 DEF LevelTypes
<1>12. WalkInv(cursor, walk, PartOf("idx"))'
  BY <1>4, <1>10
<1> QED BY <1>11, <1>12 DEF LevelInv

\* Walks in one direction are in order with the walk in this direction.
LEMMA WalkFwdIn ==
  ASSUME NEW c, NEW w, NEW t, c.fwd, PlacedFwd(c, t), w.mode = "fwd", WalkFwd(c, w, t) PROVE WalkInv(c, w, t)
BY DEF WalkInv, Placed, WalkFwd

\* The same backward.
LEMMA WalkBwdIn ==
  ASSUME NEW c, NEW w, NEW t, ~c.fwd, PlacedBwd(c, t), w.mode = "bwd", WalkBwd(c, w, t) PROVE WalkInv(c, w, t)
BY DEF WalkInv, Placed, WalkBwd

\* A walk that starts has everything to return.
LEMMA StartedIs ==
  ASSUME NEW m \in {"fwd", "bwd"}, NEW must \in SUBSET Keys
  PROVE  LET w == [NoWalk EXCEPT !.mode = m, !.must = must]
         IN  w \in WalkRec /\ w.mode = m /\ w.must = must /\ ~w.again /\ w.seen = {}
BY DEF NoWalk, WalkRec

\* What a transaction sees of a table are keys.
LEMMA VisibleIn == ASSUME NEW c \in CursorRec, NEW t \in PartRec PROVE Visible(c, t) \in SUBSET Keys
BY DEF Visible, CursorRec, PartRec

\* A walk forward has all from its first key on to return.
LEMMA LevelStartFwdKeeps == ASSUME LevelInv, NEW k \in Keys, StartFwd(k) PROVE LevelInv'
<1> DEFINE t == PartOf("idx")
           must == {x \in Visible(cursor, t) : x >= k}
           w == [NoWalk EXCEPT !.mode = "fwd", !.must = must]
<1>1. cursor \in CursorRec /\ t \in PartRec
  BY LevelFacts
<1>2. /\ cursor' = IF k = 1 THEN First(cursor, t) ELSE Seek(cursor, t, k)
      /\ walk' = Returned(cursor', w) /\ tables' = tables /\ levelTxn' = levelTxn /\ cursor.open
  BY DEF StartFwd
<1> HIDE DEF t
<1>3. k \in Slots /\ k # AtBegin /\ k - 1 \in Slots /\ k \in Int
  BY KeyNumbers
<1>4. cursor' = Seek(cursor, t, k)
  BY <1>1, <1>2, FirstIs
<1>5. SameBut(cursor, cursor') /\ PositionedFwd(cursor', t, k - 1)
  BY <1>1, <1>3, <1>4, SeekIs
<1>6. cursor' \in CursorRec /\ cursor'.open /\ Visible(cursor', t) = Visible(cursor, t)
  BY <1>2, <1>5 DEF SameBut, Visible
<1>7. must \in SUBSET Keys /\ must \subseteq Visible(cursor', t) /\ \A x \in must : x > k - 1
  <2>1. Visible(cursor, t) \in SUBSET Keys
    BY <1>1, VisibleIn
  <2> QED BY <1>3, <1>6, <2>1, KeyNumbers
<1> HIDE DEF must
<1>8. w \in WalkRec /\ w.mode = "fwd" /\ w.must = must /\ ~w.again /\ w.seen = {}
  BY <1>7, StartedIs
<1> HIDE DEF w
<1>9. /\ cursor'.fwd /\ PlacedFwd(cursor', t)
      /\ WalkFwd(cursor', walk', t) /\ walk' \in WalkRec /\ walk'.mode = "fwd"
  BY <1>1, <1>2, <1>3, <1>5, <1>6, <1>7, <1>8, StartFwdKeeps
<1>10. WalkInv(cursor', walk', t)
  BY <1>9, WalkFwdIn
<1> QED BY <1>2, <1>6, <1>9, <1>10, CursorStepKeeps DEF t

\* A walk backward has all before its key to return.
LEMMA LevelStartBwdKeeps == ASSUME LevelInv, NEW k \in Slots, k # AtBegin, StartBwd(k) PROVE LevelInv'
<1> DEFINE t == PartOf("idx")
           must == {x \in Visible(cursor, t) : x < k}
           w == [NoWalk EXCEPT !.mode = "bwd", !.must = must]
<1>1. cursor \in CursorRec /\ t \in PartRec
  BY LevelFacts
<1>2. /\ cursor' = IF k = AtEnd THEN Last(cursor, t) ELSE PrevEntry(Seek(cursor, t, k), t)
      /\ walk' = Returned(cursor', w) /\ tables' = tables /\ levelTxn' = levelTxn /\ cursor.open
  BY DEF StartBwd
<1> HIDE DEF t
<1>3. SameBut(cursor, cursor') /\ PositionedBwd(cursor', t, k)
  <2>1. CASE k = AtEnd
    BY <1>1, <1>2, <2>1, LastIs
  <2>2. CASE k # AtEnd
    BY <1>1, <1>2, <2>2, SeekPrevIs
  <2> QED BY <2>1, <2>2
<1>4. cursor' \in CursorRec /\ cursor'.open /\ Visible(cursor', t) = Visible(cursor, t)
  BY <1>2, <1>3 DEF SameBut, Visible
<1>5. must \in SUBSET Keys /\ must \subseteq Visible(cursor', t) /\ \A x \in must : x < k
  <2>1. Visible(cursor, t) \in SUBSET Keys
    BY <1>1, VisibleIn
  <2> QED BY <1>4, <2>1
<1> HIDE DEF must
<1>6. w \in WalkRec /\ w.mode = "bwd" /\ w.must = must /\ ~w.again /\ w.seen = {}
  BY <1>5, StartedIs
<1> HIDE DEF w
<1>7. /\ ~cursor'.fwd /\ PlacedBwd(cursor', t)
      /\ WalkBwd(cursor', walk', t) /\ walk' \in WalkRec /\ walk'.mode = "bwd"
  BY <1>1, <1>2, <1>3, <1>4, <1>5, <1>6, StartBwdKeeps
<1>8. WalkInv(cursor', walk', t)
  BY <1>7, WalkBwdIn
<1> QED BY <1>2, <1>4, <1>7, <1>8, CursorStepKeeps DEF t

\* Forward keeps the invariant.
LEMMA LevelForwardKeeps == ASSUME LevelInv, Forward PROVE LevelInv'
<1> DEFINE t == PartOf("idx")
<1>1. cursor \in CursorRec /\ walk \in WalkRec /\ t \in PartRec /\ WalkInv(cursor, walk, t)
  BY LevelFacts
<1>2. /\ cursor' = NextEntry(cursor, t) /\ walk' = Returned(cursor', walk) /\ tables' = tables
      /\ levelTxn' = levelTxn /\ walk.mode = "fwd" /\ ~IsEnd(cursor)
  BY DEF Forward
<1> HIDE DEF t
<1>3. WalkFwd(cursor, walk, t) /\ PlacedFwd(cursor, t)
  BY <1>1, <1>2 DEF WalkInv, WalkFwd, Placed
<1>4. /\ SameBut(cursor, cursor') /\ cursor'.fwd /\ PlacedFwd(cursor', t)
      /\ WalkFwd(cursor', walk', t) /\ walk' \in WalkRec /\ walk'.mode = "fwd"
  BY <1>1, <1>2, <1>3, ForwardKeeps
<1>5. WalkInv(cursor', walk', t)
  BY <1>4, WalkFwdIn
<1>6. cursor' \in CursorRec
  BY <1>4 DEF SameBut
<1> QED BY <1>2, <1>4, <1>5, <1>6, CursorStepKeeps DEF t

\* Backward keeps the invariant.
LEMMA LevelBackwardKeeps == ASSUME LevelInv, Backward PROVE LevelInv'
<1> DEFINE t == PartOf("idx")
<1>1. cursor \in CursorRec /\ walk \in WalkRec /\ t \in PartRec /\ WalkInv(cursor, walk, t)
  BY LevelFacts
<1>2. /\ cursor' = PrevEntry(cursor, t) /\ walk' = Returned(cursor', walk) /\ tables' = tables
      /\ levelTxn' = levelTxn /\ walk.mode = "bwd" /\ ~IsBegin(cursor)
  BY DEF Backward
<1> HIDE DEF t
<1>3. WalkBwd(cursor, walk, t) /\ PlacedBwd(cursor, t)
  BY <1>1, <1>2 DEF WalkInv, WalkBwd, Placed
<1>4. /\ SameBut(cursor, cursor') /\ ~cursor'.fwd /\ PlacedBwd(cursor', t)
      /\ WalkBwd(cursor', walk', t) /\ walk' \in WalkRec /\ walk'.mode = "bwd"
  BY <1>1, <1>2, <1>3, BackwardKeeps
<1>5. WalkInv(cursor', walk', t)
  BY <1>4, WalkBwdIn
<1>6. cursor' \in CursorRec
  BY <1>4 DEF SameBut
<1> QED BY <1>2, <1>4, <1>5, <1>6, CursorStepKeeps DEF t

\* A walk that ends, and a cursor that closes, leave nothing to keep.
LEMMA EndWalkKeeps == ASSUME LevelInv, EndWalk PROVE LevelInv'
<1>1. NoWalk \in WalkRec /\ NoWalk.mode = "none" /\ ~NoWalk.again
  BY NoWalkIs
<1>2. cursor \in CursorRec /\ WalkInv(cursor, walk, PartOf("idx"))
  BY LevelFacts
<1>3. WalkInv(cursor', walk', PartOf("idx"))
  BY <1>1, <1>2 DEF EndWalk, WalkInv
<1> QED BY <1>1, <1>2, <1>3, CursorStepKeeps DEF EndWalk

\* A closed cursor reads nothing.
LEMMA CloseCursorKeeps == ASSUME LevelInv, CloseCursor PROVE LevelInv'
<1>1. ClosedCursor \in CursorRec /\ ~ClosedCursor.open
  BY NoWalkIs
<1>2. walk \in WalkRec /\ WalkInv(cursor, walk, PartOf("idx"))
  BY LevelFacts
<1>3. WalkInv(cursor', walk', PartOf("idx"))
  BY <1>1, <1>2 DEF CloseCursor, WalkInv
<1> QED BY <1>1, <1>2, <1>3, CursorStepKeeps DEF CloseCursor

\* Dropping an index starts at the first key of its prefix.
LEMMA StartDelPrefixKeeps == ASSUME LevelInv, NEW p \in Prefixes, StartDelPrefix(p) PROVE LevelInv'
<1> DEFINE t == PartOf("idx")
           w == [NoWalk EXCEPT !.mode = "delPrefix", !.prefix = p, !.others = Visible(cursor, t) \ p]
<1>1. cursor \in CursorRec /\ t \in PartRec
  BY LevelFacts
<1>2. cursor' = Seek(cursor, t, Min(p)) /\ walk' = w /\ tables' = tables /\ levelTxn' = levelTxn /\ cursor.open
  BY DEF StartDelPrefix
<1>3. w.mode = "delPrefix"
  BY DEF NoWalk
<1> HIDE DEF t
<1>4. SameBut(cursor, cursor') /\ cursor'.fwd /\ PlacedFwd(cursor', t) /\ Dropping(cursor', w, t) /\ w \in WalkRec
  BY <1>1, <1>2, StartDropKeeps
<1> HIDE DEF w
<1>5. WalkInv(cursor', walk', t)
  BY <1>2, <1>3, <1>4 DEF WalkInv, Placed, Dropping
<1>6. cursor' \in CursorRec
  BY <1>4 DEF SameBut
<1> QED BY <1>2, <1>4, <1>5, <1>6, CursorStepKeeps DEF t

\* Once the iterator has left the prefix no entry with it is left.
LEMMA DropDone ==
  ASSUME NEW c \in CursorRec, NEW t \in PartRec, NEW w \in WalkRec, PlacedFwd(c, t), Dropping(c, w, t),
         ~(IsValid(c) /\ KeyOf(c) \in w.prefix)
  PROVE  Visible(c, t) = w.others
<1>1. /\ c.fwd /\ ~c.invalid /\ w.prefix \in Prefixes /\ w.others = Visible(c, t) \ w.prefix
      /\ \A x \in Visible(c, t) \cap w.prefix : x >= Ahead(c)
  BY DEF Dropping
<1>2. PICK y \in w.prefix : y <= Ahead(c)
  BY DEF Dropping
<1>3. w.prefix \in SUBSET Keys /\ \A a, b \in w.prefix : a .. b \subseteq w.prefix
  BY <1>1, LevelAssumption DEF LevelAssumption
<1>4. Ahead(c) \in Slots /\ (Ahead(c) = AtEnd \/ Ahead(c) \notin w.prefix)
  BY <1>1, KeyFwdIs
<1>5. ASSUME NEW x \in Visible(c, t) \cap w.prefix PROVE FALSE
  <2>1. x \in w.prefix /\ x >= Ahead(c) /\ x \in Keys /\ y \in Keys
    BY <1>1, <1>2, <1>3
  <2>2. x \in Int /\ y \in Int /\ Ahead(c) \in Int /\ x < AtEnd
    BY <1>4, <2>1, KeyNumbers
  <2>3. Ahead(c) \in y .. x
    BY <1>2, <2>1, <2>2
  <2>4. Ahead(c) \in w.prefix
    BY <1>2, <1>3, <2>1, <2>3
  <2>5. Ahead(c) # AtEnd
    BY <1>3, <2>4, KeyNumbers
  <2> QED BY <1>4, <2>4, <2>5
<1> QED BY <1>1, <1>5

\* A step of delPrefix() deletes the entry under the iterator, or finds the prefix done.
LEMMA DelPrefixStepKeeps == ASSUME LevelInv, DelPrefixStep PROVE LevelInv'
<1> DEFINE t == PartOf("idx")
           k == KeyOf(cursor)
           u == [t EXCEPT !.puts = @ \ {k}, !.dels = @ \cup {k}]
<1>1. /\ LevelTypes /\ cursor \in CursorRec /\ walk \in WalkRec /\ t \in PartRec /\ WalkInv(cursor, walk, t)
      /\ tables \in [Tables -> SUBSET Keys]
  BY LevelFacts DEF LevelTypes
<1>2. walk.mode = "delPrefix" /\ tables' = tables
  BY DEF DelPrefixStep
<1>3. PlacedFwd(cursor, t) /\ Dropping(cursor, walk, t)
  BY <1>1, <1>2 DEF WalkInv, Dropping, Placed
<1>4. CASE IsValid(cursor) /\ k \in walk.prefix
  <2>1. levelTxn' = WithPart("idx", u) /\ cursor' = NextEntry(NotifyDelete(cursor, t, k), u) /\ walk' = walk
    BY <1>4 DEF DelPrefixStep
  <2>2. k \in Keys
    <3>1. walk.prefix \in SUBSET Keys
      BY <1>1 DEF WalkRec
    <3> QED BY <1>4, <3>1
  <2> HIDE DEF t
  <2>3. u \in PartRec /\ IsDelete(t, u, k)
    BY <1>1, <2>2, PartDelete
  <2> HIDE DEF u
  <2>4. "idx" \in Tables
    BY DEF Tables
  <2>5. /\ DOMAIN levelTxn' \in SUBSET Tables /\ \A x \in DOMAIN levelTxn' : levelTxn'[x] \in PartRec
        /\ PartOf("idx")' = u
    BY <1>1, <2>1, <2>3, <2>4, WithPartIs
  <2>6. /\ SameBut(cursor, cursor') /\ cursor'.fwd /\ PlacedFwd(cursor', u)
        /\ Dropping(cursor', walk, u)
    BY <1>1, <1>3, <1>4, <2>1, <2>3, DropPrefixKeeps DEF IsDelete
  <2>7. WalkInv(cursor', walk', u)
    BY <1>2, <2>1, <2>6 DEF WalkInv, Placed, Dropping
  <2>8. cursor' \in CursorRec
    BY <2>6 DEF SameBut
  <2>9. LevelTypes'
    BY <1>1, <1>2, <2>1, <2>5, <2>8 DEF LevelTypes
  <2>10. WalkInv(cursor, walk, PartOf("idx"))'
    BY <2>5, <2>7
  <2> QED BY <2>9, <2>10 DEF LevelInv
<1>5. CASE ~(IsValid(cursor) /\ k \in walk.prefix)
  <2>1. levelTxn' = levelTxn /\ cursor' = cursor /\ walk' = [walk EXCEPT !.mode = "done"]
    BY <1>5 DEF DelPrefixStep
  <2>2. walk' \in WalkRec /\ walk'.mode = "done" /\ walk'.again = walk.again /\ walk'.others = walk.others
    BY <1>1, <2>1 DEF WalkRec
  <2> HIDE DEF t
  <2>3. Visible(cursor, t) = walk.others
    BY <1>1, <1>3, <1>5, DropDone
  <2>4. WalkInv(cursor', walk', t)
    BY <1>3, <2>1, <2>2, <2>3 DEF WalkInv, Dropped, Dropping, Placed
  <2> QED BY <1>1, <1>2, <2>1, <2>2, <2>4, CursorStepKeeps DEF t
<1> QED BY <1>4, <1>5

\* The invariant is inductive.
LEMMA LevelInvStep == ASSUME LevelInv, [LevelNext]_levelVars PROVE LevelInv'
<1>1. CASE LevelNext
  <2>1. ASSUME NEW table \in Tables, NEW k \in Keys, Put(table, k) \/ Delete(table, k) PROVE LevelInv'
    BY <2>1, LevelPutKeeps, LevelDeleteKeeps
  <2>2. ASSUME NEW k \in Keys, StartFwd(k) \/ StartBwd(k + 1) PROVE LevelInv'
    <3>1. k + 1 \in Slots /\ k + 1 # AtBegin
      BY KeyNumbers
    <3> QED BY <2>2, <3>1, LevelStartFwdKeeps, LevelStartBwdKeeps
  <2>3. ASSUME NEW p \in Prefixes, StartDelPrefix(p) PROVE LevelInv'
    BY <2>3, StartDelPrefixKeeps
  <2> QED BY <1>1, <2>1, <2>2, <2>3, OpenCursorKeeps, LevelForwardKeeps, LevelBackwardKeeps, EndWalkKeeps,
             CloseCursorKeeps, DelPrefixStepKeeps, LevelCommitKeeps, LevelAbortKeeps DEF LevelNext
<1>2. CASE UNCHANGED levelVars
  <2>1. levelTxn' = levelTxn /\ tables' = tables /\ cursor' = cursor /\ walk' = walk
    BY <1>2 DEF levelVars
  <2> QED BY <2>1, LevelFacts, CursorStepKeeps
<1> QED BY <1>1, <1>2

-----------------------------------------------------------------------------
(* DbLevel: what the invariant says of a walk *)

\* What is not behind an iterator at its end has been returned.
LEMMA WalkIsComplete == LevelInv => WalkComplete
<1> SUFFICES ASSUME LevelInv PROVE WalkComplete
  OBVIOUS
<1> DEFINE t == PartOf("idx")
<1>1. cursor \in CursorRec /\ walk \in WalkRec /\ t \in PartRec /\ WalkInv(cursor, walk, t)
  BY LevelFacts
<1> HIDE DEF t
<1>2. \A x \in walk.must : x \in Keys
  BY <1>1 DEF WalkRec
<1>3. ASSUME walk.mode = "fwd", IsEnd(cursor) PROVE walk.must \subseteq walk.seen
  <2>1. WalkFwd(cursor, walk, t) /\ cursor.fwd /\ PlacedFwd(cursor, t)
    BY <1>1, <1>3 DEF WalkInv, WalkFwd, Placed
  <2>2. Ahead(cursor) = AtEnd
    BY <1>1, <1>3, <2>1, KeyFwdIs
  <2> QED BY <1>2, <2>1, <2>2, KeyNumbers DEF WalkFwd
<1>4. ASSUME walk.mode = "bwd", IsBegin(cursor) PROVE walk.must \subseteq walk.seen
  <2>1. WalkBwd(cursor, walk, t) /\ ~cursor.fwd /\ PlacedBwd(cursor, t)
    BY <1>1, <1>4 DEF WalkInv, WalkBwd, Placed
  <2>2. Behind(cursor) = AtBegin
    BY <1>1, <1>4, <2>1, KeyBwdIs
  <2> QED BY <1>2, <2>1, <2>2, KeyNumbers DEF WalkBwd
<1> QED BY <1>3, <1>4 DEF WalkComplete

\* The entry under the cursor is the nearer of two entries the transaction sees.
LEMMA WalkReadsOwn == LevelInv => ReadsOwnWrites
<1> SUFFICES ASSUME LevelInv, cursor.open, IsValid(cursor), KeyOf(cursor) \notin PartOf("idx").dels
             PROVE  /\ KeyOf(cursor) \in Visible(cursor, PartOf("idx"))
                    /\ InTransaction(cursor) <=> KeyOf(cursor) \in PartOf("idx").puts
  <2>1. InTransaction(cursor) \in BOOLEAN
    BY DEF InTransaction
  <2> QED BY <2>1 DEF ReadsOwnWrites
<1> DEFINE t == PartOf("idx")
<1>1. cursor \in CursorRec /\ t \in PartRec /\ Placed(cursor, t)
  BY LevelFacts DEF WalkInv
<1> QED BY <1>1, KeyFwdIs, KeyBwdIs DEF Placed

\* The invariant says all that WalkExact says.
LEMMA LevelInvIsExact == LevelInv => WalkExact
<1> SUFFICES ASSUME LevelInv PROVE WalkExact
  OBVIOUS
<1>1. WalkInv(cursor, walk, PartOf("idx"))
  BY LevelFacts
<1>2. WalkOnce
  BY <1>1 DEF WalkInv, WalkOnce
<1>3. DelPrefixExact
  BY <1>1 DEF WalkInv, Dropped, DelPrefixExact
<1> QED BY <1>2, <1>3, WalkIsComplete, WalkReadsOwn DEF WalkExact

\* A transaction that goes on writing while it walks an index forward or backward
\* still gets every entry that stays, none twice, each with its own value, and an
\* index dropped through such a walk loses its prefix and nothing else
\* (MojDbLevelTxnIterator: next(), prev(), notifyPut(), notifyDelete();
\* MojDbLevelCursor::delPrefix()).
THEOREM WalkExactAlways == LevelSpec => []WalkExact
<1>1. LevelInv /\ [LevelNext]_levelVars => LevelInv'
  BY LevelInvStep
<1> QED BY LevelInvInit, <1>1, LevelInvIsExact, PTL DEF LevelSpec

=============================================================================
