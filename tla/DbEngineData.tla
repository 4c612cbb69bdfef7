---------------------------- MODULE DbEngineData ----------------------------
(***************************************************************************)
(* What the four storage engines do with an entry, and what they charge    *)
(* for it: put, update, delete, read, and the deletion of an index, by the *)
(* databases, cursors and indexes of LevelDB, Sandwich, LMDB and Berkeley  *)
(* DB, called the way MojDb and MojDbIndex call them                       *)
(* within one transaction.  The transaction adds up the bytes it has       *)
(* written and removed (offsetQuota); the quota engine applies the sum.    *)
(*                                                                         *)
(* An entry is an object under its id or the object's entry in one index;  *)
(* every key has the size KeySize, an index entry has an empty value.  Only*)
(* Sandwich has more than the main shard.                                  *)
(***************************************************************************)
EXTENDS Integers, FiniteSets, FiniteSetsExt

CONSTANTS
  Objects,      \* object ids
  MainShard,    \* the main shard
  MediaShard,   \* a media shard
  KeySize,      \* size of a key
  MaxValue,     \* bound: size of a value
  MaxSteps      \* bound: operations of the transaction

EntriesAssumption ==
  /\ IsFiniteSet(Objects) /\ MainShard # MediaShard
  /\ KeySize \in Nat /\ MaxValue \in Nat /\ MaxSteps \in Nat

ASSUME EntriesAssumption

VARIABLES
  engine,   \* the engine in use
  data,     \* what the transaction sees, per shard and entry
  base,     \* what it started from
  offset,   \* the sum of its quota offsets
  found,    \* what the last delete reported
  foreign,  \* the transaction purged an object of a media shard
  steps     \* operations so far

dataVars == <<engine, data, base, offset, found, foreign, steps>>

Absent == -1
Entries == {"obj", "idx"} \X Objects
EntryShards == IF engine = "sandwich" THEN {MainShard, MediaShard} ELSE {MainShard}

\* The bytes of each entry, and of a shard.
Bytes(t) == [e \in Entries |-> KeySize + t[e]]
SizeOf(d, s) == MapThenSumSet(LAMBDA e : Bytes(d[s])[e], {e \in Entries : d[s][e] # Absent})

IndexEntries(d, s) == {e \in Entries : e[1] = "idx" /\ d[s][e] # Absent}

\* The result of an operation: the new contents, the bytes charged, what was
\* reported as found.
Result(d, n, f) == [data |-> d, offset |-> n, found |-> f]
StoreEntry(d, s, e, v) == [d EXCEPT ![s][e] = v]

-----------------------------------------------------------------------------
(* put: insert() charges the key too, update() gives the old value back.
   An index entry is inserted like an object, with an empty value. *)

LevelPut(d, s, e, old, v) ==
  Result(StoreEntry(d, s, e, v), v + (IF old = Absent THEN KeySize ELSE -old), TRUE)

\* Faulty variant: the bytes written to a media shard are charged.
SandwichPutAll(d, s, e, old, v) ==
  Result(StoreEntry(d, s, e, v), v + (IF old = Absent THEN KeySize ELSE -old), TRUE)

\* Only the main shard is charged.
SandwichPut(d, s, e, old, v) ==
  Result(StoreEntry(d, s, e, v), IF s # MainShard THEN 0 ELSE v + (IF old = Absent THEN KeySize ELSE -old), TRUE)

LmdbPut(d, s, e, old, v) ==
  Result(StoreEntry(d, s, e, v), v + (IF old = Absent THEN KeySize ELSE -old), TRUE)

BerkeleyPut(d, s, e, old, v) ==
  Result(StoreEntry(d, s, e, v), v + (IF old = Absent THEN KeySize ELSE -old), TRUE)

-----------------------------------------------------------------------------
(* del: the key is given back; MojDb gives the value of an object back.
   LevelDB does not know whether there was an entry. *)

LevelDel(d, s, e) == Result(StoreEntry(d, s, e, Absent), -KeySize, TRUE)

SandwichDel(d, s, e) == Result(StoreEntry(d, s, e, Absent), IF s = MainShard THEN -KeySize ELSE 0, TRUE)

LmdbDel(d, s, e) == Result(StoreEntry(d, s, e, Absent), -KeySize, d[s][e] # Absent)

BerkeleyDel(d, s, e) == Result(StoreEntry(d, s, e, Absent), -KeySize, d[s][e] # Absent)

-----------------------------------------------------------------------------
(* insert() and update() of an object, which differ in the old value, and
   del() by id, through put and del above. *)

LevelStore(d, s, o, old, v) == LevelPut(d, s, <<"obj", o>>, old, v)
SandwichStore(d, s, o, old, v) == SandwichPut(d, s, <<"obj", o>>, old, v)
LmdbStore(d, s, o, old, v) == LmdbPut(d, s, <<"obj", o>>, old, v)
BerkeleyStore(d, s, o, old, v) == BerkeleyPut(d, s, <<"obj", o>>, old, v)

LevelErase(d, s, o) == LevelDel(d, s, <<"obj", o>>)
SandwichErase(d, s, o) == SandwichDel(d, s, <<"obj", o>>)
LmdbErase(d, s, o) == LmdbDel(d, s, <<"obj", o>>)
BerkeleyErase(d, s, o) == BerkeleyDel(d, s, <<"obj", o>>)

-----------------------------------------------------------------------------
(* get, and the index entry of an object: insert() puts an empty value, del()
   is an error when the entry is not there. *)

LevelGet(d, s, e) == d[s][e]
SandwichGet(d, s, e) == d[s][e]
LmdbGet(d, s, e) == d[s][e]
BerkeleyGet(d, s, e) == d[s][e]

LevelIndexInsert(d, s, o) == LevelPut(d, s, <<"idx", o>>, Absent, 0)
SandwichIndexInsert(d, s, o) == SandwichPut(d, s, <<"idx", o>>, Absent, 0)
LmdbIndexInsert(d, s, o) == LmdbPut(d, s, <<"idx", o>>, Absent, 0)
BerkeleyIndexInsert(d, s, o) == BerkeleyPut(d, s, <<"idx", o>>, Absent, 0)

LevelIndexDel(d, s, o) == LevelDel(d, s, <<"idx", o>>)
SandwichIndexDel(d, s, o) == SandwichDel(d, s, <<"idx", o>>)
LmdbIndexDel(d, s, o) == LmdbDel(d, s, <<"idx", o>>)
BerkeleyIndexDel(d, s, o) == BerkeleyDel(d, s, <<"idx", o>>)

-----------------------------------------------------------------------------
(* Dropping an index: a cursor walks the entries with the index's prefix,
   deletes each and gives back its key and value. *)

CursorDropped(d, s) ==
  Result([d EXCEPT ![s] = [e \in Entries |-> IF e[1] = "idx" THEN Absent ELSE @[e]]],
         -MapThenSumSet(LAMBDA e : Bytes(d[s])[e], IndexEntries(d, s)), TRUE)

LevelDrop(d) == CursorDropped(d, MainShard)

\* delPrefix() walks the main shard only: the entries of a media shard stay.
SandwichDrop(d) == CursorDropped(d, MainShard)

LmdbDrop(d) == CursorDropped(d, MainShard)

BerkeleyDrop(d) == CursorDropped(d, MainShard)

\* The virtual calls.
By(level, sandwich, lmdb, berkeley) ==
  CASE engine = "level"    -> level
    [] engine = "sandwich" -> sandwich
    [] engine = "lmdb"     -> lmdb
    [] engine = "berkeley" -> berkeley

EngineStore(d, s, o, old, v) ==
  By(LevelStore(d, s, o, old, v), SandwichStore(d, s, o, old, v), LmdbStore(d, s, o, old, v), BerkeleyStore(d, s, o, old, v))
EngineGet(d, s, e) == By(LevelGet(d, s, e), SandwichGet(d, s, e), LmdbGet(d, s, e), BerkeleyGet(d, s, e))
EngineErase(d, s, o) == By(LevelErase(d, s, o), SandwichErase(d, s, o), LmdbErase(d, s, o), BerkeleyErase(d, s, o))
IndexInsert(d, s, o) ==
  By(LevelIndexInsert(d, s, o), SandwichIndexInsert(d, s, o), LmdbIndexInsert(d, s, o), BerkeleyIndexInsert(d, s, o))
IndexDel(d, s, o) == By(LevelIndexDel(d, s, o), SandwichIndexDel(d, s, o), LmdbIndexDel(d, s, o), BerkeleyIndexDel(d, s, o))
EngineDrop(d) == By(LevelDrop(d), SandwichDrop(d), LmdbDrop(d), BerkeleyDrop(d))

-----------------------------------------------------------------------------
(* The transaction, as MojDb drives it *)

Step == steps < MaxSteps /\ steps' = steps + 1 /\ UNCHANGED engine

\* putObj(): an object that is not there is inserted with its index entry,
\* one that is there is updated.
PutObject(s, o, v) ==
  LET old == EngineGet(data, s, <<"obj", o>>)
      put == EngineStore(data, s, o, old, v)
      ind == IF data[s][<<"idx", o>>] # Absent THEN Result(put.data, 0, TRUE)
             ELSE IndexInsert(put.data, s, o)
  IN  /\ Step
      /\ data' = ind.data /\ offset' = offset + put.offset + ind.offset
      /\ UNCHANGED <<base, found, foreign>>

\* delObj() with MojDbFlagPurge: the index entry goes, then the object, whose
\* value MojDb gives back whatever shard it was in.
Purge(s, o) ==
  LET old == EngineGet(data, s, <<"obj", o>>)
      ind == IF data[s][<<"idx", o>>] = Absent THEN Result(data, 0, TRUE) ELSE IndexDel(data, s, o)
      del == EngineErase(ind.data, s, o)
  IN  /\ Step /\ old # Absent
      /\ data' = del.data /\ offset' = offset + ind.offset + del.offset - old
      /\ found' = (ind.found /\ del.found)
      /\ foreign' = (foreign \/ s # MainShard)
      /\ UNCHANGED <<base>>

\* drop() of an index: every entry with its prefix.
DropIndex ==
  LET d == EngineDrop(data)
  IN  /\ Step
      /\ data' = d.data /\ offset' = offset + d.offset
      /\ UNCHANGED <<base, found, foreign>>

\* The transaction ends and the next one starts.
CommitEntries ==
  /\ Step
  /\ base' = data /\ offset' = 0 /\ foreign' = FALSE
  /\ UNCHANGED <<data, found>>
AbortEntries ==
  /\ Step
  /\ data' = base /\ offset' = 0 /\ foreign' = FALSE
  /\ UNCHANGED <<base, found>>

EntriesInit ==
  /\ engine \in {"level", "sandwich", "lmdb", "berkeley"}
  /\ data = [s \in {MainShard, MediaShard} |-> [e \in Entries |-> Absent]]
  /\ base = data
  /\ offset = 0 /\ found = TRUE /\ foreign = FALSE /\ steps = 0

EntriesNext ==
  \/ \E s \in EntryShards, o \in Objects, v \in 1..MaxValue : PutObject(s, o, v)
  \/ \E s \in EntryShards, o \in Objects : Purge(s, o)
  \/ DropIndex \/ CommitEntries \/ AbortEntries

EntriesSpec == EntriesInit /\ [][EntriesNext]_dataVars

-----------------------------------------------------------------------------
(* Properties *)

\* What a transaction charges is what the main shard grows by, for every
\* engine and every order of inserts, updates, purges and index drops, so that
\* the usage the quota engine keeps follows the bytes in the store.  A purge in
\* a media shard is excepted: MojDb gives back bytes that were never charged.
OffsetIsGrowth == ~foreign => offset = SizeOf(data, MainShard) - SizeOf(base, MainShard)

\* A purge finds the object and the index entry it deletes: an index takes a
\* missing entry for a corrupt index, MojDb a missing object for a lost one.
PurgeFinds == found

\* In every engine a transaction charges what the main shard grows by, and a purge
\* finds the object and the entry it deletes.
ChargesExact == OffsetIsGrowth /\ PurgeFinds
=============================================================================
