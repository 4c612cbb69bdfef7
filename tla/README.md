# db8 in TLA+

db8 is the object database of webOS: a service on the luna bus that keeps JSON
objects of declared kinds, indexes them, answers queries page by page, and
calls clients back when the answer of a query changes.  This directory holds
TLA+ models of its components, TLC configurations that check them on small
instances, and TLAPS proofs of the properties that matter most for every value
of the constants.

    tlc -workers 2 -config store_serial.cfg MCDbStore     # one run
    tlapm DbStore_proofs.tla                              # one proof

Source references are relative to the repository (`src/db`, `src/engine`, ...);
`PROJECT.json` maps every definition to the lines it models, lists the runs,
the faulty variants that show each property can fail, the findings, the
hazards and the theorems.

## 1. The system

    client --luna--> dispatcher threads (3) --> MojDbServiceHandler[Base]
                                                     |  MojDbReq (transaction, batch)
                                                     v
      MojDbKindEngine <-----------------------     MojDb  ---> MojDbQuotaEngine, ShardEngine
        MojDbKind --> MojDbIndex --> MojDbWatcher    |
              |            |                         v
              v            v                  MojDbStorageEngine / Txn / Seq
        schema, perms   MojDbIsamQuery  ----> leveldb | sandwich | lmdb | berkeleydb

| Component | State it keeps | Operations | What makes it correct |
|---|---|---|---|
| Object store (`MojDb`, `MojDbReq`) | objects with revisions; the request's transaction, batch depth, fixmode | put, merge, del, purge by id and by query; begin, commit, abort | named revisions are compared with what is replaced; no write is lost; an error reply means nothing was written; a write by query reaches every object |
| Index (`MojDbIndex`) | entries; pending keys per transaction; registered watchers and counts per domain | update, find, addWatch, cancelWatch, committed, close | entries are those of the objects; every change is reported |
| Watch (`MojDbWatcher`) | Invalid, Pending or Active; fire key, limit key | init, activate, fire, abandon, cancel, shardStatusChanged | delivered at most once, and whenever the answer changed |
| Query (`MojDbQuery`, `QueryPlan`, `IsamQuery`, `Cursor`) | ranges, position, count, ids already returned, end key | find, get, nextPage, count | pages are complete, ordered, without repeats |
| Search (`MojDbSearchCursor`, `SearchCache`) | cached id lists by query and update revision | find, load, sort, page | a cached answer is that of the present objects |
| Sequences (`MojDb*Seq`) | `m_next`, `m_allocated`, the stored page end | open, get, close | a value is given out once, across crashes |
| Engines | committed tables, transaction overlays, snapshots, the lazy sync, checkpoints | open, get, put, del, iterate, commit, compact, close | a transaction sees its own writes; an acknowledged commit is whole; what is opened is closed |
| Service, dispatcher, client | queues per sender, subscriptions, watchers, pending requests | queue, dispatch, invoke, retry, reply, cancel, close | bounded retries; one reply, in order; subscriptions end once |
| Kinds (`KindEngine`, `Kind`, `KindState`) | kinds, supers, indexes, tokens, schemas | putKind, delKind, update, reload | an index holds its kind's objects; the registry is what is stored; tokens are unique |
| Quotas, permissions | usage and limits; a table of grants | offset, apply, refresh; check | usage is the size of what is stored; grants stay in force |
| Shards and media | shard table, cache, mounted shards | mount, unmount, set mode, link kinds | records, mounts and links agree |
| Admin, space alert, profiling | purge stamps, incremental keys, levels | purge, dump, load, check | backups are complete; purge removes only old deletion markers |
| Core | containers, objects and their bytes, JSON, schemas, numbers, signals | - | copies stay apart; what is written is read back; bytes sort as objects |

**Who calls whom.**  A dispatcher thread runs `invoke()`, which opens a batch on
a `MojDbReq`, runs the callback, and ends the batch; only then does the
transaction commit.  `MojDb::putObj` takes a revision from a sequence, calls
`MojDbKindEngine::update`, which updates each index inside the transaction, and
writes the object.  `MojDbStorageTxn::commit` writes, then calls every index
that took part (`committed`), which collects the watchers whose ranges were
touched under its lock and fires them outside it.  A `find` registers its
watcher before it reads and activates it when its cursor closes.

**What is hard.**  Three dispatcher threads run requests side by side and the
default engines take no locks, so everything read in a request may be stale
when it commits.  The watch machinery drops the index lock before it takes a
watcher's mutex.  Sequences use relaxed atomics and must survive a kill and the
loss of unsynced writes.  Queries iterate a snapshot and join it with live
objects; cursors walk a transaction that goes on writing.  Commits span several
tables and shards, and writes by query several commits.  Registering a kind
changes a registry in memory and a database that may fail at any stage.
Devices come and go while their shards are written.  `PROJECT.json` lists these
hazards at their lines.

## 2. The modules

| Module | Models | Run by |
|---|---|---|
| `DbWatch` | watches, at the granularity of the code's critical sections | `MCDbWatch` |
| `DbSeq` | sequences, crashes, power failures | `MCDbEngine` |
| `DbStore` | put, merge, del, purge, batches, transactions, retries | `MCDbStore` |
| `DbStoreSpec` | the abstract store that `DbStore` implements: batches that take effect at once | `MCDbStore` |
| `DbQuery` | key encoding, query plan, iteration, pages | `MCDbQuery` |
| `DbSearch`, `Sorting` | search cursors, their loading pool and cache; quicksort | `MCDbQuery` |
| `DbKind` | kind registry, inheritance, index build and drop, permissions, failures, restarts | `MCDbKind`, `MCDbData` |
| `DbQuota` | quota offsets, limits, usage records | `MCDbKind`, `MCDbData` |
| `DbKindState` | the property tokens of a kind | `MCDbKind`, `MCDbData` |
| `DbShard` | shard records, id cache, media handler, mounts, kind links and versions | `MCDbShard` |
| `DbAdmin` | dump, load, purge, revision stamps, space alert | `MCDbShard` |
| `DbService` | dispatcher, message queues, handlers, retries, subscriptions, watchers on the bus | `MCDbService` |
| `DbClient` | requests sent over the bus, their replies, errors and cancels | `MCDbService` |
| `DbLevel` | LevelDB transactions and the cursor over one | `MCDbEngine` |
| `DbEngineData` | put, del, drop of the four engines, and what they charge to a quota | `MCDbEngine` |
| `DbSandwich` | the commit over several shards, the lazy updater, power failures | `MCDbEngine` |
| `DbBerkeley` | checkpoints and compaction | `MCDbEngine` |
| `DbEngineLife` | opening and closing the database and its engines, failures at every step, the lock file | `MCDbEngine` |
| `DbBatch` | del, purge, delKind and merge by query, batch by batch | `MCDbData` |
| `DbQueryData` | parsing queries, filters, property extraction, aggregates | `MCDbData` |
| `RbTree`, `SharedArray` | maps and sets; vectors and strings, copied on write | `MCDbData` |
| `ObjectValue`, `ObjectCode`, `ObjectFilter`, `ObjectItem` | objects and their order; their bytes and the stored header; select; writing and reading back | `MCDbData` |
| `Number`, `Json` | texts of numbers; the JSON writer and push parser | `MCDbData` |
| `Schema` | schema rules, and when a schema is in force | `MCDbData` |
| `DbWatch_proofs`, `DbService_proofs`, `DbClient_proofs` | the theorems of the three modules | - |
| `DbKind_proofs` | the theorems of `DbQuota` and `DbKindState` | - |
| `DbShard_proofs` | the theorems of `DbShard` and `DbAdmin` | - |
| `DbStore_proofs` | the theorems of `DbStore`, and that it implements `DbStoreSpec` | - |
| `DbEngine_proofs` | the theorems of `DbSeq`, `DbLevel`, `DbSandwich`, `DbBerkeley`, `DbEngineLife` and `DbEngineData` | - |
| `NatSetTheorems` | facts about least and greatest elements of sets of naturals, about folds over finite sets, and about sums | - |

Definitions whose comment begins "Faulty variant" are never part of a
specification.  Each is a plausible bug in the definition after it, and is there
to show that a property notices it.

**Several machines in one run.**  An MC module that hosts more than one
component has a variable `part`, chosen in the initial state: the behaviour is
about that component, and the variables of the others stay as they are.  The
state space is the sum of the components' state spaces, not their product; no
step of one is ever mixed with a step of another.  `MCDbData` hosts the kind
machinery together with the data structures under it.

### DbWatch

One index.  *Writer* threads run transactions (`Begin`, `Update`, `Abort`,
`CommitImpl`, `Committed`, `FireTrigger`, `Finish`) that move entries; *client*
threads run a query with a watch (`AddWatch`, `InitWatcher`, `OpenCursor`,
`FireFound`, `Activate`, `Cancel`); the schema thread closes the index
(`CloseIndex`, `Abandon`, `Closed`), and the shard engine announces shards
(`ShardSignal`, `ShardStatusChanged`).  Each critical section is one action;
the schema lock appears as `SchemaShared` and `SchemaExclusive`.  Keys are
numbers, since only their order matters; an update replaces at most one key by
at most one other.  `stale[w]` records that a commit changed the answer the
client of `w` has read, and `asserts` the assertions of the code that failed.
A call through the null `m_index` ends the process.

### DbSeq

`next`, `allocated` and the stored page end; `Check` reads `allocated` with a
relaxed load, which may return any earlier value; `Allocate` is the critical
section of the allocation mutex.  `disk` is what the main shard holds, and
`unsynced` the contents a power failure may leave: the log is cut after any of
the writes since the last sync.  `StoreInTxn` selects LMDB's sequence, which
stores the page end in the caller's transaction.

### DbStore

A request is a sequence of operations on objects of one kind with one index.  A
thread opens a transaction (`Invoke`, `Retry`), takes the operations one after
the other (`NextOp`, `ReadPrev`, `Unchanged`, `Save`, `SaveRejected`), and
commits or fails (`Commit`, `CommitFails`, `Failed`).  A transaction is an
overlay (`writes`, `ins`, `dels`) on the committed `objects` and `index`, read
through `View` and `IndexView`.  `Save` is the whole of `putObj`/`delObj`:
revision, index, object.  `Serial` selects engines that admit one write
transaction at a time; `Writers` says which threads' clients write an object,
and `Profiled` takes the path of `invokeCallbackProfiled`.  Reading the previous
version and writing the new one are two steps: this is where the threads
interleave.

`DbStoreSpec` says what clients may rely on, without transactions, indexes or
retries: a request runs its operations one after the other on the objects, with
increasing revisions, and takes effect at once; or it is refused and changes
nothing.  `DbStore!Serializable` is this specification under the mapping that
shows the objects when they are committed and the reply when it is sent.

### DbQuery, DbSearch, Sorting

In `DbQuery` keys are byte sequences, as in `MojDbKey`, because the interesting
mistakes are in the bytes: prefixes, terminators, carries at 0xFF, the
neighbouring indexes in the same table.  `Plan` turns a where clause and a page
into ranges; `Find` and `NextPage` open an iterator on a snapshot (`view`);
`NextRange`, `Exhausted`, `Skip` and `Return` are the branches of
`getKey`/`getImpl`; `Answer` gives the page's end.  Between any two of them an
object may be written (`Write`) and a shard switched (`ToggleShard`).
`Satisfies` is the independent meaning of a where clause that the ranges are
compared with.

`DbSearch` has clients that search page by page, a kind with a super kind, and a
writer whose transaction raises the update revision before it commits.  A
client looks into the cache, takes ids from the index, loads objects while
others write, sorts with the code's quicksort (`Sorting`, not stable, its pivots
those of the C library's generator), and stores the ids in the cache.

### DbKind, DbQuota, DbKindState

`DbKind` has the registry (kinds, supers, subs, indexes) beside the stored kind
objects, index ids and entries.  `PutKind`, `DelKind` and the permission handler
hold the schema lock and write through one transaction, so each is one action,
parameterised by the stage at which it fails; a failure undoes the database and
leaves the registry to `reloadKind()`.  A restart reads the kinds in any order
given (`LoadOrder`).  `DbQuota` follows a transaction's offsets through the check
against the limit, the usage records, the commit and the quota in memory; the
ghost `drifted` marks the lost updates that engines without locks allow.
`DbKindState` has writers that encode against a copy of the token table, ask for
tokens, and store the table in a transaction of its own before the object.

### DbShard, DbAdmin

`DbShard` follows a response of the bus through the media handler: the lookup
that finds or allocates a shard's id (`LookUp`), mounting under the schema lock
(`MountShard`), the record and its commit (`RecordActive`), dropping what kinds no
longer have (`LoadHashes`, `DelKindData`), the hashes and the link of their kind
(`ReadHashLink`, `LinkHashKind`, `SaveHash`), unmounting and recording
(`UnMountShard`, `RecordInactive`, `CacheInactive`).  Each of these may fail, as in
the code without undoing what came before.  Beside them clients put objects
(`CheckShard` looks an id up before any lock is taken, and it need not be
mounted), change modes and kinds, purge, and the service stops.

* The id cache is a `std::map` without a lock.  While the handler adds or removes an
  entry (`CacheMoves`) a client's lookup may miss another one; that lookup is one of
  the outcomes a data race may have, and a crash in it is a `Restart`.  `put` does not
  replace an entry and `update` does not add one.
* A job that fails leaves the shard mounted: in `update()` or `put()` of the record
  (`RecordFails`), in the commit (`RecordActive(FALSE)`), in the lookup of a device that
  is gone (`LookUpFails`), in the record of an unmounted shard (`InactiveFails`).
  The ghost `unrecorded` has these shards, `overtaken` says that a mount was not
  complete.
* `dropObject` leaves its request begun when it meets an object of another shard
  (`MojDbShardEngine.cpp:1507`), as do a few other returns on errors.  The job then
  goes on in the state "blocking" (it keeps the schema lock) or "leaked" (it shares
  it), commits nothing more, and may still put its link into the cache
  (`DropObjectStops`, `AbortRequest`).
* Simplified: objects in the main database are not there, but `DropObjectStops`, which
  they cause, may happen at any object; dropping the objects of one kind is one step
  where nothing stops it; `HandleRegister` takes one device at a time.

`DbAdmin` has writers that take a revision and commit it later, incremental dumps in
parts, loads in steps, purges in batches with the stamps that turn a day into a
revision, and space checks.  A purge batch that one of the two queries fills is
committed inside `delImpl` (`PurgeFilled`), and its state and stamps follow in the
next transaction (`StoreState`); any other batch is committed with them
(`PurgeBatch`).  `commitBatch` makes the request a batch, so that the last batch of
a scheduled purge, whose caller has none, is lost (`batched`).  The schema lock is
held from `begin` to the first commit, so that dumps, loads, writers and `putKind`
come between the batches of a purge and the transactions of a load.  A space check
sets its level when it is over, after a second look where its purge removed
something (`LevelsAfter`).  The dump is that of a service with `enableRootKind`; the
other one (`MojDbAdmin.cpp:840-937`) asks kind by kind, ignores the revision that it
is given, and is not modelled.

### DbService, DbClient

`DbService` has the queue of each sender, the dispatcher's threads, the handlers
(put, find with a watch, get), the retry after a deadlock, the service's map of
subscriptions, the `Watcher` of each message with its signal, cancels from the
bus thread, and the stop of the service.  Each section under a mutex is one
action.  The kind `watch` stands for `watch` and for `find` with a watch, `get` for
a call that asks for a subscription in vain; a call through the null message of
a finished `Watcher` sets `Down`.  `DbClient` is the other half of the binding:
requests in `m_requests`, replies in the order of the bus, errors, the caller's
cancel in any order with them.

### Engines

`DbLevel`: a transaction's writes per table, and the cursor that merges them with
a snapshot while the transaction goes on writing; the reference is the sorted
map.  `DbEngineData`: what each engine's put, update, delete and drop do and
charge, compared with the growth of what is stored.  `DbSandwich`: a log per
shard, a power failure cuts each log behind its synced part; the transaction
commits shard after shard, the main one last; the updater's thread copies what
is to be synced under its lock and syncs outside it.  `DbBerkeley`: the counter
of written bytes and its mutex, and compaction step by step beside writers.
`DbEngineLife`: the resources each engine acquires and in which order it gives
them back, after a failure at any step, in two processes on one directory.
`MojDb::drop()` is `Drop`: LevelDB's and Berkeley's engine close and drop every
database while kinds, permissions and quotas are open, the other two only their
sequences; the first error stops it with what is closed closed (`dropped`) and the
`MojDb` open.  What then uses a closed database ends as `KillProcess`.  A `flock()` that fails for
another reason than a held lock leaves the file to the destructor, which unlinks it
(`LockFails`).  LMDB makes its handle before `lockDir()`; the resource `env` is the
opened environment.

### Data

`DbBatch`: the loop of `MojDb::del`, whose batches are committed one by one, and
merge by query, which walks the index it changes, beside another writer.
`DbQueryData`: `addClause()` against the meaning of its calls, parsing and writing
of a query, the filter against the property extractor of the index, aggregates
against sums over the set.  `RbTree`: put and del on the way down, with copies
that share an `Impl`.  `SharedArray`: handles on counted buffers.  `ObjectCode`
keeps the markers, widths and sign tricks of the binary form over bytes of a
smaller base; `ObjectItem` reads it back call by call, whole or cut, through the
select filter.  `Json` is the push parser character by character.  `Number`
models lexer, rounding and overflow of decimals over a smaller width.  `Schema`
has the rules of `MojSchema`, compared with the meaning of a schema, and a
machine that says which schema is in force after a put, a failure, a restart.

## 3. The runs

| Run | Shows |
|---|---|
| `watch_limited` | a `MojDb::watch` and a limited ascending `find` beside one writer, cancels, shard announcements and a close: `RegistrationExact`, `NotifiedOnce`, `NoLostNotification`, `WatchFoundFires`, `CloseAbandonsAll` |
| `watch_unlimited` | two concurrent transactions and a descending query over two ranges without a limit: every change of the answer is `EventuallyNotified` under fairness |
| `watch_lost_desc` | *violation*: a descending limited query misses an update that moves its top entry down |
| `store_serial` | requests of two operations on two objects, serial transactions: `Serializable` (the refinement of `DbStoreSpec`), `IndexMatchesObjects`, `NeverInconsistent`, `NoLostUpdate` |
| `store_live` | the engines without locks, damaged indexes: every request is `Answered` |
| `store_lost_update` | *violation* of `CompareAndSwap`: two puts of the same revision both succeed |
| `query_pages` | every operator, both directions, page by page: `PagesExact`; searches beside a writer: `SearchExact` |
| `kinds_data` | kinds, failures and restarts: `EntriesExact`, `RegistryExact`, `GrantsInForce`; quotas: `UsageExact`; tokens: `TokensExact`; and the data under them: `TreesExact`, `ArraysExact`, `WritesByQueryExact`, `QueriesExact`, `ObjectsExact`, `JsonExact`, `SchemaExact` |
| `kinds_root` | *violation* of `RootFindsAll`: a kind that stops extending another leaves the indexes of `Object:1` |
| `shards` | devices, mounts, clients, restarts: `ShardsAgree`; backups and purges: `BackupsCover` |
| `service` | dispatcher, watches, cancels, stop: `RepliesExact`, `SubscriptionsEnd`, `Answered`; the client's side: `RequestsEnd` |
| `engines` | sequences: `SequenceExact`; LevelDB cursors: `WalkExact`; what the engines charge: `ChargesExact`; Sandwich: `CommitsKept`, `EventuallySynced`; Berkeley DB: `UpkeepDone`; opening and closing: `LifecycleSafe` |

A component's contract is one property, the conjunction of named parts that the
component's module defines and comments one by one (`WalkExact` is
`WalkComplete`, `WalkOnce`, `ReadsOwnWrites` and `DelPrefixExact` of `DbLevel`); to see
which part fails, give TLC the parts.  `AppliedAsAnswered`, `RevisionsGrow` and,
where writers exclude each other, `CompareAndSwap` of `DbStore` follow from
`Serializable`, whose abstract store refuses without a trace, compares revisions
and raises them.

The violations are disagreements between the code and what its comments, tests
or assertions say; `PROJECT.json` quotes both under "findings".  The passing
runs are chosen around them: `NoLostNotification` holds for ascending limited
queries with one transaction at a time, and for unlimited queries with any
number; the properties of the store hold where writers of an object exclude
each other; `EntriesExact` speaks about every kind but `Object:1`.

**Bounds.**  Two watchers, two threads or two transactions are enough for every
race in the code, which is always between one that acts and one that is
disturbed; a third only repeats the second.

* Watches: two index keys on each side of a limit of one give every position of
  a change relative to the limit.
* Store: requests of two operations make one operation see the first one's
  overlay, and let the second fail after the first wrote; `MaxRev` = 3 gives an
  object a version to be stale, one to be current and one to be written, and a
  batch two objects to write after another request.  Threads and objects are
  symmetric there (`Alike`), and no property of that run is a liveness property.
  Forced puts, which skip the revision checks, are in `store_live`.
* Queries: two objects, with no value, one, or an array of two; the values are
  null, two strings of which one is a prefix of the other, and an integer that
  ends in 0xFF, so that every operator meets a nested prefix, the first and the
  last key of the index, and a carry; limits of one, and of two where a query has
  several ranges or none, give pages that end in the middle, at the end, and beyond; `MaxWrites` objects are touched during a
  query, and properties speak about the others.  Searches: three objects, two of
  them equal in the sort order, pages of one, two clients (alike, `Symmetry`), two
  finds, not both of them distinct, and a write that moves, hides or deletes.
* Kinds: K may extend A or B and C extends K, so that an entry has to move up two
  levels when K changes; one object, two owners and an administrator, and room
  for every index to be created anew.  Quotas: two transactions, two kinds, sizes
  to 2, engines with and without locks.  Tokens: three properties for a table of
  two, two writers.
* Shards: two devices whose names have the same checksum, `MaxPrefix` = 1 so that
  a name has to be changed, one kind with two versions beside the kind of the hashes,
  one client, and three calls (`MaxCalls`: responses, puts and changes of mode
  together), enough to mount, write and pull out, or to mount both.  After a write
  from an outdated copy nothing new starts (`Undisturbed`): the properties except its
  shard from there on, and what was running still ends.  The guard is part of the
  specification, so the theorem too is about behaviours up to the first such write.
  Administration: two writers that commit in either order, batches of two (filled by
  one query or not), load steps of one, dumps of two records, six revisions (two
  deletions, the purge of both, and a marker that is put after it), one purge, load
  and dump at a time, and a space alert that finds the highest level.
* Service: one sender with two calls, one with a put, two threads, two retries, a
  stop.  Client: a single call, and a subscription with three replies.
* Engines: cursors over three keys and four operations (a key before, at and
  behind the cursor); two objects on two shards and five operations; two Sandwich
  clients and transactions over a main and a media shard; Berkeley checkpoints
  after 3 with writes of 0 to 2, compaction of five keys in windows of two; two
  processes that open three times; pages of two values, so that a thread overruns
  the page by one (`MaxNext` = 4: two pages and a restart).
* Data (handles are alike, `Alike`, as are the writers of tokens): trees of six keys (every case of the rebalancing), arrays to length 3 and
  capacity 4 so that they grow, share and shrink; four objects deleted in batches
  of two; bytes of base 4, which bring the edges of the four integer widths to 3,
  15 and 255; header names that sort between upper and lower case, as `_` does;
  JSON to depth 3 with a parser of that depth; decimals of two digits over 16
  bits; schemas over decimals of ten to the unit and 256 values.

The bounds are all guards, so no state is cut off half way through an operation.

**Deadlock** is checked in the runs of the store.  In the others the system comes
to rest: the watch runs when every client has its answer and the index is
closed, the others when the bounded number of requests, writes or openings is
used up, or an object is read to its end.  There waiting is covered by
properties instead: `Answered`, `EventuallySynced`, `NoSelfDeadlock`.

**Fairness.**  `DbWatch!Fairness`, `DbStore!FairSpec` and `DbService!FairSpec`
assume that a thread that is inside a call finishes it: the dispatcher's threads
are ordinary threads, the locks are held for bounded sections, and nothing in
these paths waits for another client.  `DbSandwich!Fairness` assumes the same of
the updater's thread, which waits for nothing but its event.  Nobody is assumed
to start a query, a transaction or a close, to commit, or to cancel.  Weak
fairness is enough, since a step of a call, once possible, is not taken away by
others.

### What the models showed beside the three findings

These are behaviours of the code met while modelling, each within the model (a
property excepts it, or a ghost variable marks it) unless said otherwise.

*Watches and store.*  A commit is hidden from a watcher of a limited query by
another transaction's pending key (`MojDbIndex.cpp:778`).  A shard announcement
invalidates a watcher before it is registered, whose `m_index` is null
(`MojDbWatcher.cpp:203`).  A profiled batch that fails commits its first half.
LMDB's cached page end survives an abort that rolls back the stored one.

*Kinds and quotas.*  A failed `putKind` over a deleted kind resurrects it
(`MojDb.cpp:1602`; `FailOverMarker`).  A super kind registered after its subs is
not built (`SupersFirst`).  `delKind` leaves grants in memory; a permission put
takes effect before its commit.  A usage update is lost on engines without
locks (`drifted`).  A kind put without a schema keeps the old one in force until
a restart.

*Shards and administration.*  The record of an unmounted shard is written from a
copy read before the unmount; `setShardMode` does the same, and either may undo
a kind link.  An aborted put leaves its link in the cache only, as do a failed
`putKind` and a request begun once more than it ends; a lookup that misses its entry
leaves a kind without a link (all of these in `disturbed`).  A record that is not
written leaves the shard mounted, and a lookup that fails for a device that is gone
leaves its shard mounted and forgets the device (`unrecorded`).  After an object of
another shard, the drop of outdated objects and the hashes of that mount are not
committed, and the schema lock is kept until the job ends.  A mount that
fails leaves the device in the handler's cache.  A commit with a lower revision
than one already dumped is missed by the next incremental dump
(`MojDb.cpp:900`, ghost `late`).  A batch of a purge that one query fills is
committed before the last purged revision is stored; a stop between the two leaves
no trace of it (`MojDbAdmin.cpp:1321`, ghost `unstored`).  The last batch of a
scheduled purge that had a full one is not committed.
A deletion purged before a dump saw it shows in the answer of `purgeStatus` only
until a dump is over: a younger deletion marker in that dump moves the key beyond
the last purged revision, and a client that did not ask before keeps the object
for good (ghost `missed`).

*Service.*  `Watcher::handleWatch` races a cancel from the bus and dereferences a
null message (`MojDbServiceHandler.cpp:1212`, `Down`).  A query that fails after its
watch is registered may fire it beside the error reply.  Handlers that reply
themselves (`putKind`, `delKind`, ...) answer before the batch commits.  A reply
slot may still be called after `cancel()` returned.

*Engines.*  A pending entry deleted away from the cursor makes `next()` return the
current entry again (`MojDbLevelTxnIterator.cpp:172`, ghost `elsewhere`).  Dropping
an index whose last entry is pending calls `next()` where the deletion has already
moved the iterator to its end: a debug build fails `MojAssert(!isEnd())`, a
release build stays there, as modelled.  `MojDb`
takes a purged object's size off the quota whatever its shard, Sandwich charges
the main shard only (ghost `foreign`).  In lazy mode nothing syncs a media shard.
An entry that is deleted while the snapshot's iterator stands on it, under the cursor
or ahead of it, is still returned (`ReadsOwnWrites` excepts the deleted keys).
`drop()` closes the databases under open kinds, permissions and quotas, and an error
half way leaves the `MojDb` open over closed databases (`dropped`).
A checkpoint resets a counter others add to meanwhile (ghost `lost`).  The lock
file is unlinked before it is closed, so two processes may hold it (ghost
`raced`); so does an instance whose `flock()` failed otherwise: its destructor removes
a name that it never had locked.

*Queries.*  The update revision rises before the write commits
(`MojDbKind.cpp:769`), so a search may cache the old answer under the new revision
until the next write.  Pages of a search depend on an unstable sort.  `del` by
query with `includeDeleted` meets the markers of its first batch again and stops
(`MojDb.cpp:1120`).  A caller that opened no batch loses what follows the last
`commitBatch` (`MojDb.cpp:1556`).  A filter on a list with `%` stops at the first
string; the filter's prefixes ignore case, the index's do not.  An aggregate's
type error is ignored for the first object of a group.

*Data.*  The select filter looks forward only: a selected property that sorts
before a header name is not returned, nor is one of two siblings whose paths
sort otherwise than their names (`MojObjectFilter.cpp:101`).  Bytes cut between two
values are read without an error.  JSON text after the value is not looked at,
trailing commas are taken, a leading 0 is octal, and objects nested deeper than
32 are written but not read back.  A decimal is rounded by one digit, 5 towards
zero.  An integer beyond a decimal's range is compared wrongly with `minimum`
and `maximum`.  A vector assigned to itself releases its buffer before it retains
it; an element of a vector pushed to it at its capacity is read after it is freed
(both outside the model, as no caller does so).

## 4. The proofs

All theorems are about the specifications above with arbitrary constants; what a
theorem assumes beyond the named assumptions of its module is part of its
statement.  The inductive invariants were first checked by TLC on the instances
of the runs.

**Watches** (`DbWatch_proofs`).  `WatchInv` is inductive: `Registered`,
`DomainsCounted` and `NotifiedOnce`, strengthened by `Fresh` (a client that has
not come back from `addWatch` was never called back) and `CloseOrder` (while an
index closes nobody registers, and who is registered has still to be
abandoned).  Without `Fresh` a late registration could follow a delivery;
without `CloseOrder` a watcher could join a vector already walked.  From it
follow `RegisteredAlways` and `DomainsCountedAlways` (together
`RegistrationExactAlways`), `NotifiedOnceAlways`, `CloseAbandonsAllAlways` and
`TypeCorrect`.  Each way a watcher leaves the index
is reduced to one lemma (`LeavesKeeps`).

`WatchFoundFiresAlways` needs no assumption either: `CursorsAlways` ties the
cursor of each client to its watcher, and a query that finds its limit key
already changed fires before it activates.

`NoLostNotificationAlways` assumes `Delivers`: every query is one whose limit
exceeds the number of keys, or there is a single writer and the query ascends
through its ranges.  The excluded cases are not a convenience of the proof:
`watch_lost_desc` shows a notification lost by a descending query, and a commit is
hidden from a limited query by a key another transaction has pending (section
3).  The argument: whatever commit made the answer stale, its trigger still
comes (`Coming`), or is already in the watcher, since the keys pending are
exactly those the commit adds or removes and the end key of the cursor bounds
the answer from above.

**Object store** (`DbStore_proofs`), assuming `Isolated`: transactions are serial or
every object has one writing thread, and no request is profiled.  Neither can be
dropped: `store_lost_update` shows the first, and a profiled batch that fails
commits its first half.
`StoreInv` adds to the agreement of the committed index and objects that each
transaction's *view* of them agrees (`ViewAgrees`), that the version it read is
still the one it sees (`PrevCurrent`) and the one that is committed
(`BaseCurrent`), and that overlays stay apart (`Exclusive`, `OverlayOwned`,
`RequestsOwned`).  A thread's step is split from what it leaves of the others
(`OthersUntouched`, `CommitOthers`).  Results: `StoreTypeCorrect`,
`IndexMatchesAlways`, `NeverInconsistentAlways`, `NoLostUpdateAlways`.

**Refinement** (`DbStore_proofs` too), under the same assumption:
`SerializableAlways` says that every behaviour of `DbStore` is one of `DbStoreSpec`
under the mapping of `Abstract`, whose batches take effect at once.
`RefineInv` says that what an open transaction sees is the end of a *path* of
stores that begins with the committed one and takes one operation of the request
at a time.  A commit of another thread is on other objects and moves the whole
path (`OthersCommit`); the path of a request that is answered leads into
`Outcomes`, the fold that the abstract store takes over a batch (`PathOutcome`).
So the commit is the abstract step, a reply is the abstract reply, and every
other step is a stutter (`Invisible`).  The fold over a batch is unfolded by an
explicit function on sets of positions (`FoldExists`, `FoldKeeps`), which takes no
induction theorem.

**Service** (`DbService_proofs`).  Two invariants, each inductive with the other
parts named in the module.

* `RepliesExactAlways` from `ServiceInv`.  One thread at a time works for a sender,
  and a sender's queue holds its requests in order (`QueuesInv`, `OrderInv`);
  `Flow` says at each point of each handler what has been sent; `TokenOf` says that
  a thread about to send the event of a watch is the only one, has found the watch
  off, and nobody sent the event before.  The last is what the `Watcher`'s mutex is
  there for, and what a second event would have to break.
* `SubscriptionsEndAlways` from `SubscriptionInv`.  Who holds a message and who is
  about to destroy it is counted out (`Kept`, `Reclaimed`, `DestroyedOnce`);
  what is subscribed has the slot of its cancel, had no reply yet, or was looked
  up for its cancel (`EndedBefore`); a cancel is queued once, behind its request,
  and turns the watch off (`CancelEnds`, `CancelsQueued`); and threads leave only
  when nothing is queued (`Drained`), so that a closed service has no subscription
  left.  Queries that failed after their watch was registered are excepted, as in
  the property.  Assumed: `ThreadsAssumption`, that the dispatcher has a thread
  (`MojDbLunaServiceApp` starts three); without one the queues would never be
  drained.

**Client** (`DbClient_proofs`).  `RequestsEndAlways`: the caller of a request gets every
reply in the order of the bus and none after the last, an open call is cancelled
once, and no request stays in the table after its last reply.  `ClientInv` says of
each request that what the bus has sent is what was handed over, what the
dispatching thread has in hand and what waits, in this order (`HandedInv`); that
replies are counted before they are handed over (`CountInv`); and that whoever took the
request out of the map, the caller or the dispatcher, cancels the call
(`RemovedInv`, `CancelInv`).

**Shards** (`DbShard_proofs`).  `ShardsAgreeAlways`: records, mounts, devices, kind
links and versions agree, for any number of devices, ids, clients and kinds,
responses and versions.  `ShardInv` follows the record of one shard through a response of
the media handler: a write that started from the stored record changes neither
its device nor its mode behind the handler (`WriteFacts`), one that did not, or one
that met the cache without its entry, is counted in `disturbed`; and what a response
has looked up therefore still holds when it writes (`OwnersInv`, `PluggedInv`, with
the shards of failed jobs excepted by `unrecorded`).  The other parts say which copy
each writer may hold (`RecordsInv`, `WritersInv`), which kinds are linked (`LinksInv`)
and how far the cache is from the stored record (`CacheInv`).  An id is allocated only when it has no
record (`AllocateIdFree`, the least free suffix and prefix).  `VersionsInv` holds
while one shard at a time is mounted (`overtaken`).  The attempt corrected the
property: that an unplugged device is unmounted was stated of every device, while
one whose record was overwritten from a stale copy can stay mounted when a further
response finds another record for it; the instance of the run was too small to
show that, and the property now says it as long as no record was overwritten so.

**Administration** (`DbShard_proofs` too).  `BackupsCoverAlways`, for any objects,
writers, batches, dump sizes, revisions and days.  `AdminInv` has three parts beside
the types.  `GivenOut`: every revision in use, also one a writer or the client's key
holds, was given out before.  `InOrder`: the order of revisions is the order of the
days they were given out on, also for what is not committed yet; this is what lets a
purge, which knows days only by its stamps, go by revisions.  `Covered`: what the
client's key says of its copy now, and what it will say when the running dump is
over; a pass of a dump reaches no revision of an object that it left out (`PassIs`).
The property says that a purged deletion can be seen in `purgeStatus` until the next
dump is over, not for good: a younger marker in that dump hides it (`missed`).  It
excepts what a purge committed ahead of its state until the state is stored
(`unstored`), and late commits (`late`): both are behaviours of the code that section
3 lists, and the theorem does not say that they cannot happen.

**Quotas and tokens** (`DbKind_proofs`).  `UsageExactAlways`, for any transactions, kinds
and sizes, with a quota that does not cover the kind of the quota objects themselves
(`QuotaKindOwned` = FALSE: otherwise `applyQuota()` adds the size of a put quota to a
usage that was read after the commit and has it already).  `QuotaInv`: the usage in memory is
the sum of what is stored less what transactions have committed and not yet added
(`UsedInv`); under locks a record about to be written was read from one that nobody
else writes (`LockedInv`); and what open transactions take away is there, so that no
record falls below zero (`RoomInv`).

`TokensExactAlways`, for any writers, properties and size of the table, where the table is
stored in a transaction of its own (`TokensInTxn` = FALSE: LMDB's build writes it in
the object's, whose abort leaves the table in memory ahead of the stored one).  By
`TokensInv` the table only grows and names nothing twice, so that every copy a writer
holds is a beginning of it (`Extends`), and what was encoded against an older copy
still stands (`Stands`).

**Engines** (`DbEngine_proofs`), module by module.

*Sequences*, assuming `Direct`: the page end is stored outside
the caller's transaction, as in the leveldb and sandwich engines.  `SeqInv` says
that every value taken by a thread, or carried by a record in any content a
power failure may leave, lies below the counter and, once given, below the page
end stored with it; so whatever is left on disk, the next incarnation starts
beyond what was used.  `UniqueValuesAlways`, `CachedIsStoredAlways` and
`CleanCloseResumesAlways` give `SequenceExactAlways`.

*Sandwich.*  `CommitsKeptAlways`, for any shards, clients and number of transactions.
`SandwichInv` says of each transaction where its parts are: in the logs of the
shards its commit is done with, in none of those it has still to do, and in the
main shard's only when every other is done.  A power failure cuts logs from the
end and ends all transactions, so that the order of the shards survives it.  Of the
lazy updater it says that a database with writes beyond its synced part has its
event set, was copied, or belongs to a commit that has yet to send its event.

*Berkeley DB.*  `UpkeepDoneAlways`.  `CheckpointInv` splits what is written since the
last checkpoint into the counter, the amounts of the threads between their commit
and their count (a sum over the threads, `PendingOf`), and what was lost when the
counter was reset.  `CompactInv` says that what was there throughout and lies
before the current window has been compacted, and that a window ends at its n-th
key.  Assumed are a finite set of threads, and a `checkpointMinKb` and a
`compactStepSize` of at least one, as in their defaults.

*Opening and closing.*  `LifecycleSafeAlways`, for any number of processes.  What a
process holds is a function of its place in the lists of `open()` and `close()`
(`PlaceInv`); the lists themselves, computed for each engine, are ordered so that a
stage comes after what it needs and goes before it (`ListsOrdered`), the databases that
`drop()` closed excepted.  The lock is
held by one process per inode, and a process whose inode is no longer the one that
the name leads to was counted in `raced`.

*Charges.*  `ChargesExactAlways`, for any objects, key size and values.  The size of a
shard is a sum over its entries; a put or a deletion changes one term
(`SumUpdate`), the deletion of an index takes out what its walk adds up
(`SumFilter`, `SumAdd`).  The four engines are shown to return the same results in
the main shard (`EngineCalls`); that index entries are empty, which gives their
deletion its fixed price, is part of the invariant.

*LevelDB cursors.*  `WalkExactAlways`, for any keys, prefixes and number of
operations (`LevelAssumption`: the keys of a prefix follow one another).  The merged
iterator has a position in the snapshot and one in the pending puts.  `Placed`
says that each stands on an entry or at an end, and that neither has passed an
entry the other has still to come to; `next()`, `prev()`, `seek()`, `notifyPut()`
and `notifyDelete()` keep it, and each step passes nothing that is visible
(`PassesFwd`).  Hence `WalkFwd`: what a walk has still to return lies at the nearer
position or beyond, and at it only if the entry returned last was deleted under
the cursor; what it has returned lies behind.  `Dropping` says of an index being
dropped that nothing with its prefix is left behind the iterator and nothing else
was touched.  The lemmas for the two directions mirror each other.

**Only model-checked**

* Liveness (`EventuallyNotified`, `Answered`, `EventuallySynced`), which needs
  ENABLED.
* What is recursive: the modules of data (`RbTree`, `SharedArray`, `ObjectCode`,
  `ObjectValue`, `ObjectFilter`, `ObjectItem`, `Json`, `Number`, `Schema`,
  `DbQueryData`) and `Sorting` with `DbSearch`.
* `PagesExact` of `DbQuery`, whose ranges are folds over sequences of values that
  need induction over data.
* `EntriesExact`, `RegistryExact`, `GrantsInForce` of `DbKind`, which speak of the
  closure of a kind's supers, a bounded recursion.

## 5. What is not modelled

`PROJECT.json` lists every component.  Left out for good:

* text collation and tokenizing, which are ICU's; a collated key is a key;
* the socket service, its encoding and the epoll reactor: the build leaves the
  service out and the daemon does not use the reactors;
* the command line tools, the log and operating system layers, statistics,
  argument schemas (their rules are `Schema`'s), hash functions and the hash
  table;
* allocation failures.

Left out of what is modelled: the dump of a service without `enableRootKind`; in
LevelDB's `commitImpl()` how open iterators are saved and restored; in Sandwich
commits without any sync (`sync` = 0) and that a thread reads `m_sandwiches` while
another mounts or unmounts; objects of the main database in `DbShard`; kinds with
more than one super, of which the permission check asks the first only
(`MojDbKind.cpp:675`).  `DbWatch` and `DbStore` have one kind with one index
and at most one key per object (`DbQuery` has arrays); indexes of several
properties; `count()`; wildcards in permissions; the order of the space alert's
levels beyond what triggers a purge; deadlock retries of anything but puts;
parsing of JSON without a length.  Of external code (LevelDB, LMDB, libdb, the
bus) only what the calls rely on is stated.

## 6. Plan

Done are the models, in the order: `DbWatch`, `DbSeq`, `DbStore`, `DbQuery`,
`DbStoreSpec`; kinds, quotas and tokens; shards and administration; service and
client; the engines; search; writes by query and query data; containers,
objects, texts and schemas.

To come:

1. Theorems: `RegistryExact`, `GrantsInForce` and `EntriesExact` of `DbKind`, for
   acyclic supers.
2. Models: indexes of several properties, permission wildcards, the rest of the
   reactors.

At most a dozen runs are kept, which is why components share a run.
