------------------------------ MODULE DbShard -------------------------------
(***************************************************************************)
(* Shards: databases on removable devices.  The media handler hears which  *)
(* devices there are and has the shard engine mount or unmount the shard   *)
(* of each, beside clients that write objects to shards, change a shard's  *)
(* mode, change kinds and purge.  A shard's record is stored and kept in   *)
(* the id cache; a writer reads it from one of the two, stores it and then *)
(* changes the cache, which has no lock of its own.  A request that begins *)
(* once more than it ends keeps the schema lock and commits nothing.       *)
(***************************************************************************)
EXTENDS Naturals, FiniteSets, FiniteSetsExt

CONSTANTS Devices, Kinds, Clients,
          HashKind,       \* KindHashMap:1, the kind of the hashes
          Crc(_, _),      \* Crc(d, n): computeId() of a device's name with suffix n
          MaxPrefix,      \* 127: prefixes tried before the name is changed
          MaxVersion,     \* bound: versions of a kind
          MaxCalls,       \* bound: responses, puts and changes of mode
          Nil

\* MojDbShardInfo: what a shard's record says, and the kinds linked to it.
ShardInfo == [device : Devices, active : BOOLEAN, transient : BOOLEAN, kinds : SUBSET (Kinds \cup {HashKind})]

ASSUME FiniteAssumption == IsFiniteSet(Devices) /\ IsFiniteSet(Kinds)
ASSUME PrefixAssumption == MaxPrefix \in Nat
ASSUME NilAssumption == Nil \notin ShardInfo

VARIABLES infos,      \* the stored ShardInfo1:1 objects, by shard id
          cache,      \* MojDbShardIdCache
          mounted,    \* MojDbSandwichEngine::m_sandwiches
          calls,      \* how many responses, puts and changes of mode have begun
          media,      \* MojDbMediaHandler::m_shardCache: the devices it has dealt with
          job,        \* what the media handler is doing
          client,     \* what each client is doing
          data,       \* on each shard: its objects, as <<kind, version of the kind>>
          hashes,     \* on each shard: the version of each kind that was last recorded
          version,    \* the version of each registered kind
          disturbed,  \* shards whose record two wrote at once, or a link to it was lost
          unrecorded, \* shards mounted or unmounted by a job that failed before its end
          overtaken   \* a mount was not complete before an error, a stop, a kind or a second mount

shardVars == <<infos, cache, mounted, calls, media, job, client, data, hashes, version,
               disturbed, unrecorded, overtaken>>

\* bound: suffixes that a name is tried with
Suffixes == 1 .. Cardinality(Devices)

\* A shard id: computeId() of a name, and a prefix.
Ids == {<<Crc(d, n), p>> : d \in Devices, n \in Suffixes, p \in 1 .. MaxPrefix}

\* MojDbShardInfo of a new shard.
NewInfo(d, active) == [device |-> d, active |-> active, transient |-> FALSE, kinds |-> {}]

\* Faulty variant: only mounted shards are taken into account.
IsIdExistMounted(id) == id \in mounted

IsIdExist(id) == cache[id] # Nil

\* MojDbShardIdCache: put() does not replace an entry, update() does not add one.
CachePut(id, info) == [cache EXCEPT ![id] = IF @ = Nil THEN info ELSE @]
CacheUpdate(id, info) == [cache EXCEPT ![id] = IF @ = Nil THEN @ ELSE info]
CacheDel(id) == [cache EXCEPT ![id] = Nil]

\* allocateId(): every prefix of the name's checksum, then of the name with a suffix,
\* until an id is free.
FreePrefixes(d, n) == {p \in 1 .. MaxPrefix : ~IsIdExist(<<Crc(d, n), p>>)}
CanAllocate(d) == \E n \in Suffixes : FreePrefixes(d, n) # {}
AllocateId(d) ==
    LET suffix == Min({n \in Suffixes : FreePrefixes(d, n) # {}})
    IN  <<Crc(d, suffix), Min(FreePrefixes(d, suffix))>>

\* getByDeviceUuid(): from the stored objects.
ByDevice(d) == {id \in Ids : infos[id] # Nil /\ infos[id].device = d}

\* getAllActive(): from the stored objects.
ActiveShards == {id \in Ids : infos[id] # Nil /\ infos[id].active}

\* checkShard(): a find passes over the objects of shards that the cache has as not active.
Visible == {id \in mounted : cache[id] # Nil => cache[id].active}

Resting == [pc |-> "idle", id |-> Nil, kind |-> Nil, read |-> Nil]

NoJob == [pc |-> "idle", new |-> {}, gone |-> {}, id |-> Nil, read |-> Nil, device |-> Nil, todo |-> {}]

\* The handler goes on with the next device.
NextDevice == [NoJob EXCEPT !.pc = "next", !.new = job.new \ {job.device}, !.gone = job.gone \ {job.device}]

Undisturbed == disturbed = {}   \* bound: nothing new starts after an outdated write

\* The schema lock.  "blocking" is a begin of dropObject() or of a failed merge that
\* had no end: the exclusive lock is kept; "leaked" is that of a find or put.
JobLocks == job.pc \in {"write", "blocking"}
JobShares == job.pc \in {"link", "save", "leaked"}
CanShare == ~JobLocks
CanLock == CanShare /\ ~JobShares /\ \A c \in Clients : client[c].pc \notin {"put", "link", "commit"}

\* A mount that is not complete.
Cleaning == {"write", "garbage", "drop", "hashes", "link", "save", "blocking", "leaked"}

\* An entry of the cache's map is being added or removed without a lock: another
\* thread's lookup may miss its own.
CacheMoves == job.pc \in {"insert", "erase"} \/ (job.pc = "write" /\ job.read = Nil)

\* The record of a shard is stored and not yet in the cache, or the other way round.
Halfway(id) ==
    \/ \E c \in Clients :
          client[c].id = id /\ (client[c].pc = "cache" \/ (client[c].pc = "commit" /\ client[c].read # Nil))
    \/ job.id = id /\ (job.pc \in {"insert", "update", "erase"} \/ (job.pc = "save" /\ job.read # Nil))

\* A write of the record starts from a copy that is outdated, or beside another.
Contended(id, copy) == infos[id] # copy \/ Halfway(id)

Disturb(id, when) == disturbed' = IF when THEN disturbed \cup {id} ELSE disturbed

\* linkShardAndKindId(): the kind joins the shard's list.
LinkedKinds(info, k) == [info EXCEPT !.kinds = @ \cup {k}]

-----------------------------------------------------------------------------
\* The media handler, one response at a time under its lock.
\* handleDeviceListResponse(): the new devices, then those that are gone.
HandleDeviceListResponse(devices) ==
    /\ job.pc = "idle"
    /\ devices # media
    /\ calls < MaxCalls /\ Undisturbed
    /\ calls' = calls + 1
    /\ job' = [job EXCEPT !.pc = "next", !.new = devices \ media, !.gone = media \ devices]
    /\ UNCHANGED <<infos, cache, mounted, media, client, data, hashes, version, disturbed, unrecorded, overtaken>>

\* handleRegister(): the device is being ejected or formatted.
HandleRegister(d) ==
    /\ job.pc = "idle"
    /\ d \in media
    /\ calls < MaxCalls /\ Undisturbed
    /\ calls' = calls + 1
    /\ job' = [job EXCEPT !.pc = "next", !.gone = {d}]
    /\ UNCHANGED <<infos, cache, mounted, media, client, data, hashes, version, disturbed, unrecorded, overtaken>>

HandlerDone ==
    /\ job.pc = "next"
    /\ job.new = {} /\ job.gone = {}
    /\ job' = NoJob
    /\ UNCHANGED <<infos, cache, mounted, calls, media, client, data, hashes, version, disturbed, unrecorded, overtaken>>

\* processShardInfo() begins: the device's shard is looked up in a transaction of its
\* own, or gets an id.  A device that appears is in the handler's cache from here on.
LookUp(d) ==
    /\ job.pc = "next"
    /\ d \in IF job.new # {} THEN job.new ELSE job.gone
    /\ ByDevice(d) # {} \/ CanAllocate(d)
    /\ \E id \in IF ByDevice(d) = {} THEN {AllocateId(d)} ELSE ByDevice(d) :
           job' = [job EXCEPT !.device = d, !.id = id, !.read = infos[id],
                              !.pc = IF d \in job.new THEN "mount" ELSE "unmount"]
    /\ media' = IF d \in job.new THEN media \cup {d} ELSE media
    /\ UNCHANGED <<infos, cache, mounted, calls, client, data, hashes, version, disturbed, unrecorded, overtaken>>

\* The lookup fails and the job ends; a device that is gone is forgotten all the same,
\* its shard mounted and active.
LookUpFails(d) ==
    /\ job.pc = "next"
    /\ d \in IF job.new # {} THEN job.new ELSE job.gone
    /\ media' = IF d \in job.new THEN media \cup {d} ELSE media \ {d}
    /\ unrecorded' = IF d \in job.new THEN unrecorded ELSE unrecorded \cup ByDevice(d)
    /\ job' = [job EXCEPT !.new = @ \ {d}, !.gone = @ \ {d}]
    /\ UNCHANGED <<infos, cache, mounted, calls, client, data, hashes, version, disturbed, overtaken>>

\* databasePrepare(): the directory of the database can be made and written, and
\* has room for it (ok).  A shard that is mounted already is refused.
DatabasePrepare(id, ok) == ok /\ id \notin mounted

\* Active: under the schema lock the database is prepared and mounted; a database that
\* cannot be prepared or opened ends the job.
MountShard(ok) ==
    /\ job.pc = "mount"
    /\ CanLock
    /\ IF DatabasePrepare(job.id, ok)
       THEN /\ mounted' = mounted \cup {job.id}
            /\ job' = [job EXCEPT !.pc = "write"]
            /\ overtaken' = (overtaken \/ mounted # {})
       ELSE job' = NextDevice /\ UNCHANGED <<mounted, overtaken>>
    /\ UNCHANGED <<infos, cache, calls, media, client, data, hashes, version, disturbed, unrecorded>>

\* What the record of a shard becomes.
Record(active) == IF job.read = Nil THEN NewInfo(job.device, active) ELSE [job.read EXCEPT !.active = active]

\* put() or update() of the record and of the cache, and the commit, which unlocks.
\* A commit that fails ends the job with the shard mounted and in the cache.
RecordActive(commit) ==
    /\ job.pc = "write"
    /\ cache' = IF job.read = Nil THEN CachePut(job.id, Record(TRUE)) ELSE CacheUpdate(job.id, Record(TRUE))
    /\ Disturb(job.id, Contended(job.id, job.read))
    /\ IF commit
       THEN /\ infos' = [infos EXCEPT ![job.id] = Record(TRUE)]
            /\ unrecorded' = unrecorded \ {job.id}
            /\ job' = [job EXCEPT !.pc = "garbage"]
            /\ UNCHANGED overtaken
       ELSE /\ unrecorded' = unrecorded \cup {job.id}
            /\ job' = NextDevice
            /\ overtaken' = TRUE
            /\ UNCHANGED infos
    /\ UNCHANGED <<mounted, calls, media, client, data, hashes, version>>

\* put() or update() of the record fails, and the job goes on with the shard mounted;
\* a failure after the merge or put began leaves the request locked for good.
RecordFails(pc) ==
    /\ job.pc = "write"
    /\ unrecorded' = unrecorded \cup {job.id}
    /\ overtaken' = TRUE
    /\ job' = [job EXCEPT !.pc = pc]
    /\ UNCHANGED <<infos, cache, mounted, calls, media, client, data, hashes, version, disturbed>>

\* Not active: unmounted under the schema lock, which is then released; that the
\* shard was not mounted is an error that is only remembered.
UnMountShard ==
    /\ job.pc = "unmount"
    /\ CanLock
    /\ mounted' = mounted \ {job.id}
    /\ job' = [job EXCEPT !.pc = "record"]
    /\ UNCHANGED <<infos, cache, calls, media, client, data, hashes, version, disturbed, unrecorded, overtaken>>

\* A shard that was marked transient.
ToRemove == job.read # Nil /\ job.read.transient

\* put() or update() of the record of an unmounted shard, up to its commit.
RecordInactive ==
    /\ job.pc = "record"
    /\ ~ToRemove
    /\ CanShare
    /\ infos' = [infos EXCEPT ![job.id] = Record(FALSE)]
    /\ Disturb(job.id, Contended(job.id, job.read))
    /\ unrecorded' = unrecorded \ {job.id}
    /\ job' = [job EXCEPT !.pc = IF job.read = Nil THEN "insert" ELSE "update", !.read = Record(FALSE)]
    /\ UNCHANGED <<cache, mounted, calls, media, client, data, hashes, version, overtaken>>

\* removeTransientShard(): the files of the shard, then its record.
RemoveTransientShard ==
    /\ job.pc = "record"
    /\ ToRemove
    /\ CanShare
    /\ data' = [data EXCEPT ![job.id] = {}]
    /\ hashes' = [hashes EXCEPT ![job.id] = [k \in Kinds |-> 0]]
    /\ infos' = [infos EXCEPT ![job.id] = Nil]
    /\ Disturb(job.id, Contended(job.id, job.read))
    /\ unrecorded' = unrecorded \ {job.id}
    /\ job' = [job EXCEPT !.pc = "erase", !.read = Nil]
    /\ UNCHANGED <<cache, mounted, calls, media, client, version, overtaken>>

\* The record is not written: the shard stays active in it, its files removed or not.
\* The handler forgets the device all the same.
InactiveFails(removed) ==
    /\ job.pc = "record"
    /\ removed => ToRemove
    /\ data' = IF removed THEN [data EXCEPT ![job.id] = {}] ELSE data
    /\ hashes' = IF removed THEN [hashes EXCEPT ![job.id] = [k \in Kinds |-> 0]] ELSE hashes
    /\ unrecorded' = unrecorded \cup {job.id}
    /\ media' = media \ {job.device}
    /\ job' = NextDevice
    /\ UNCHANGED <<infos, cache, mounted, calls, client, version, disturbed, overtaken>>

\* Then the cache, without a lock.
CacheInactive ==
    /\ \/ job.pc = "insert" /\ cache' = CachePut(job.id, job.read)
       \/ job.pc = "update" /\ cache' = CacheUpdate(job.id, job.read)
       \/ job.pc = "erase" /\ cache' = CacheDel(job.id)
    /\ media' = media \ {job.device}
    /\ job' = NextDevice
    /\ UNCHANGED <<infos, mounted, calls, client, data, hashes, version, disturbed, unrecorded, overtaken>>

-----------------------------------------------------------------------------
\* After a mount: the shard's objects of kinds that have changed are dropped, and
\* the hashes of all kinds recorded.  Each find, drop and put is in a transaction of
\* its own while nothing fails.

\* The hashes of the registered kinds, to be saved.
KindHashes == {<<job.id, k, version[k]>> : k \in Kinds}

\* KindHash::loadHashes(): those of every visible shard, as <<shard, kind, version>>;
\* when that fails, nothing is dropped, and the request may stay begun.
LoadHashes(pc) ==
    /\ job.pc = "garbage"
    /\ job' = [job EXCEPT !.pc = pc, !.todo =
                  IF pc = "drop" THEN {<<i, k, hashes[i][k]>> : i \in Visible, k \in Kinds} ELSE KindHashes]
    /\ overtaken' = (overtaken \/ pc # "drop" \/ job.id \notin Visible)
    /\ UNCHANGED <<infos, cache, mounted, calls, media, client, data, hashes, version, disturbed, unrecorded>>

Stale(h) == h[3] \notin {0, version[h[2]]}   \* 0: there is none

KeepHash(h) ==
    /\ job.pc = "drop" /\ h \in job.todo
    /\ ~Stale(h)
    /\ job' = [job EXCEPT !.todo = @ \ {h}]
    /\ UNCHANGED <<infos, cache, mounted, calls, media, client, data, hashes, version, disturbed, unrecorded, overtaken>>

OfKind(i, k) == {o \in data[i] : o[1] = k}

\* delKindData() finds no object of another shard: it drops what it finds, and the hash goes.
DelKindData(h) ==
    /\ job.pc = "drop" /\ h \in job.todo
    /\ Stale(h)
    /\ \A i \in Visible \ {job.id} : OfKind(i, h[2]) = {}
    /\ CanLock
    /\ data' = IF job.id \in Visible THEN [data EXCEPT ![job.id] = @ \ OfKind(job.id, h[2])] ELSE data
    /\ hashes' = [hashes EXCEPT ![h[1]][h[2]] = 0]
    /\ job' = [job EXCEPT !.todo = @ \ {h}]
    /\ overtaken' = (overtaken \/ job.id \notin Visible)
    /\ UNCHANGED <<infos, cache, mounted, calls, media, client, version, disturbed, unrecorded>>

\* An object of another shard or of the main database, or an error, when some (gone)
\* have been dropped.  dropObject() returns with the request begun once more than
\* ended, find() too; an error between two drops leaves it as it was.
DropObjectStops(h, gone, pc) ==
    /\ job.pc = "drop" /\ h \in job.todo
    /\ Stale(h)
    /\ CanLock
    /\ gone \subseteq (IF job.id \in Visible THEN OfKind(job.id, h[2]) ELSE {})
    /\ data' = [data EXCEPT ![job.id] = @ \ gone]
    /\ job' = [job EXCEPT !.pc = pc, !.todo = KindHashes]
    /\ overtaken' = TRUE
    /\ UNCHANGED <<infos, cache, mounted, calls, media, client, hashes, version, disturbed, unrecorded>>

GarbageDone ==
    /\ job.pc = "drop" /\ job.todo = {}
    /\ job' = [job EXCEPT !.pc = "hashes", !.todo = KindHashes]
    /\ UNCHANGED <<infos, cache, mounted, calls, media, client, data, hashes, version, disturbed, unrecorded, overtaken>>

\* KindHash::load() finds the kind's hash on any visible shard; save() changes it there,
\* or puts one on the shard it was asked for.
Holders(k) == {i \in Visible : hashes[i][k] # 0}

\* putKindsHashes(): for each kind a put of its hash, which links KindHashMap:1 to the
\* shard.  The link starts from the cache.
ReadHashLink ==
    /\ job.pc = "hashes" /\ job.todo # {}
    /\ IsIdExist(job.id)
    /\ job' = IF cache[job.id] = Nil \/ HashKind \in cache[job.id].kinds
              THEN [job EXCEPT !.pc = "save", !.read = Nil]
              ELSE [job EXCEPT !.pc = "link", !.read = cache[job.id]]
    /\ UNCHANGED <<infos, cache, mounted, calls, media, client, data, hashes, version, disturbed, unrecorded, overtaken>>

LinkHashKind ==
    /\ job.pc = "link"
    /\ infos[job.id] # Nil
    /\ cache' = CacheUpdate(job.id, LinkedKinds(job.read, HashKind))
    /\ Disturb(job.id, Contended(job.id, job.read))
    /\ job' = [job EXCEPT !.pc = "save"]
    /\ UNCHANGED <<infos, mounted, calls, media, client, data, hashes, version, unrecorded, overtaken>>

\* The put commits: the record with its link, if it has changed, and the hash.
SaveHash(h, target) ==
    /\ job.pc = "save" /\ h \in job.todo
    /\ target \in IF Holders(h[2]) = {} THEN {job.id} ELSE Holders(h[2])
    /\ hashes' = [hashes EXCEPT ![target][h[2]] = h[3]]
    /\ infos' = IF job.read = Nil THEN infos
                ELSE [infos EXCEPT ![job.id] = LinkedKinds(job.read, HashKind)]
    /\ job' = [job EXCEPT !.pc = "hashes", !.todo = @ \ {h}, !.read = Nil]
    /\ UNCHANGED <<cache, mounted, calls, media, client, data, version, disturbed, unrecorded, overtaken>>

\* A put of a hash fails, after its link is in the cache or before: the rest is not saved.
SaveHashFails ==
    /\ job.pc \in {"hashes", "link", "save"} /\ job.todo # {}
    /\ Disturb(job.id, job.pc = "save" /\ job.read # Nil)
    /\ job' = NextDevice
    /\ overtaken' = TRUE
    /\ UNCHANGED <<infos, cache, mounted, calls, media, client, data, hashes, version, unrecorded>>

HashesDone ==
    /\ job.pc = "hashes" /\ job.todo = {}
    /\ job' = NextDevice
    /\ UNCHANGED <<infos, cache, mounted, calls, media, client, data, hashes, version, disturbed, unrecorded, overtaken>>

\* A request that was begun once more than ended: nothing it writes is committed, but
\* the cache may have the link.  The job ends, and with it the request.
AbortRequest(linked) ==
    /\ job.pc \in {"blocking", "leaked"}
    /\ linked => infos[job.id] # Nil /\ cache[job.id] # Nil /\ HashKind \notin cache[job.id].kinds
    /\ cache' = IF linked THEN CacheUpdate(job.id, LinkedKinds(cache[job.id], HashKind)) ELSE cache
    /\ Disturb(job.id, linked)
    /\ job' = NextDevice
    /\ UNCHANGED <<infos, mounted, calls, media, client, data, hashes, version, unrecorded, overtaken>>

-----------------------------------------------------------------------------
\* Clients.

\* handleSetShardMode(): reads the cache, then update() in a request of its own.
ReadMode(c, id) ==
    /\ client[c].pc = "idle" /\ cache[id] # Nil /\ calls < MaxCalls /\ Undisturbed
    /\ client' = [client EXCEPT ![c] = [pc |-> "mode", id |-> id, kind |-> Nil, read |-> cache[id]]]
    /\ calls' = calls + 1
    /\ UNCHANGED <<infos, cache, mounted, media, job, data, hashes, version, disturbed, unrecorded, overtaken>>

\* The merge commits, or finds no record.
SetMode(c, transient) ==
    /\ client[c].pc = "mode"
    /\ CanShare
    /\ LET id == client[c].id
           info == [client[c].read EXCEPT !.transient = transient]
       IN  IF infos[id] = Nil
           THEN client' = [client EXCEPT ![c] = Resting] /\ UNCHANGED <<infos, disturbed>>
           ELSE /\ infos' = [infos EXCEPT ![id] = info]
                /\ Disturb(id, Contended(id, client[c].read))
                /\ client' = [client EXCEPT ![c].pc = "cache", ![c].read = info]
    /\ UNCHANGED <<cache, mounted, calls, media, job, data, hashes, version, unrecorded, overtaken>>

\* Then the cache, without a lock; the entry may be missed.
CacheMode(c, hit) ==
    /\ client[c].pc = "cache"
    /\ hit \/ CacheMoves
    /\ LET id == client[c].id
       IN  /\ cache' = IF hit THEN CacheUpdate(id, client[c].read) ELSE cache
           /\ Disturb(id, ~hit)
    /\ client' = [client EXCEPT ![c] = Resting]
    /\ UNCHANGED <<infos, mounted, calls, media, job, data, hashes, version, unrecorded, overtaken>>

\* MojDb::put() with a shard id: the id is looked up before the lock is taken.
CheckShard(c, id, k) ==
    /\ client[c].pc = "idle" /\ IsIdExist(id) /\ calls < MaxCalls /\ Undisturbed
    /\ client' = [client EXCEPT ![c] = [pc |-> "wait", id |-> id, kind |-> k, read |-> Nil]]
    /\ calls' = calls + 1
    /\ UNCHANGED <<infos, cache, mounted, media, job, data, hashes, version, disturbed, unrecorded, overtaken>>

\* beginReq() and putImpl(), which fails when the shard is not mounted.
PutObject(c) ==
    /\ client[c].pc = "wait"
    /\ CanShare
    /\ client' = [client EXCEPT ![c] = IF @.id \in mounted THEN [@ EXCEPT !.pc = "put"] ELSE Resting]
    /\ UNCHANGED <<infos, cache, mounted, calls, media, job, data, hashes, version, disturbed, unrecorded, overtaken>>

\* linkShardAndKindId() reads the cache; an entry it does not find stays unlinked, and
\* a link it finds may still be undone.
ReadLink(c, hit) ==
    /\ client[c].pc = "put"
    /\ hit \/ CacheMoves
    /\ LET info == cache[client[c].id]
           found == hit /\ info # Nil
           linked == found /\ client[c].kind \in info.kinds
       IN  /\ client' = [client EXCEPT ![c] =
                           IF found /\ ~linked THEN [@ EXCEPT !.pc = "link", !.read = info] ELSE [@ EXCEPT !.pc = "commit"]]
           /\ Disturb(client[c].id, ~found \/ (linked /\ infos[client[c].id] # info))
    /\ UNCHANGED <<infos, cache, mounted, calls, media, job, data, hashes, version, unrecorded, overtaken>>

\* update() in the put's transaction: the cache is changed at once.  Without a stored
\* record the put fails.
Link(c, hit) ==
    /\ client[c].pc = "link"
    /\ hit \/ CacheMoves
    /\ LET id == client[c].id
       IN  IF infos[id] = Nil
           THEN client' = [client EXCEPT ![c] = Resting] /\ UNCHANGED <<cache, disturbed>>
           ELSE /\ cache' = IF hit THEN CacheUpdate(id, LinkedKinds(client[c].read, client[c].kind)) ELSE cache
                /\ Disturb(id, ~hit \/ Contended(id, client[c].read))
                /\ client' = [client EXCEPT ![c].pc = "commit"]
    /\ UNCHANGED <<infos, mounted, calls, media, job, data, hashes, version, unrecorded, overtaken>>

\* The put commits the object, in the shard's database, and the record, in the main one,
\* or one of them, or none: an error (or another object of the put that fails) leaves
\* the link in the cache.
CommitPut(c, object, record) ==
    /\ client[c].pc = "commit"
    /\ LET id == client[c].id
           k == client[c].kind
           read == client[c].read
           info == LinkedKinds(read, k)
       IN  /\ record => read # Nil
           /\ data' = IF object THEN [data EXCEPT ![id] = @ \cup {<<k, version[k]>>}] ELSE data
           /\ infos' = IF record THEN [infos EXCEPT ![id] = info] ELSE infos
           /\ Disturb(id, read # Nil /\ ~record)
    /\ client' = [client EXCEPT ![c] = Resting]
    /\ UNCHANGED <<cache, mounted, calls, media, job, hashes, version, unrecorded, overtaken>>

\* putKindHash() links KindHashMap:1 to each active shard.
Unlinked == {s \in ActiveShards : cache[s] # Nil /\ HashKind \notin cache[s].kinds}
LinkHashes(f, S) == [s \in Ids |-> IF s \in S THEN LinkedKinds(cache[s], HashKind) ELSE f[s]]

\* putKind() of a changed kind, under the schema lock: the indexes are rebuilt over the
\* mounted shards and the hash saved, for each active one where there is none yet.
PutKind(k, target) ==
    /\ CanLock
    /\ version[k] < MaxVersion /\ Undisturbed
    /\ \A s \in ActiveShards : IsIdExist(s)
    /\ ActiveShards # {} => target \in IF Holders(k) # {} THEN Holders(k) ELSE ActiveShards \cap mounted
    /\ version' = [version EXCEPT ![k] = @ + 1]
    /\ data' = [s \in Ids |-> IF s \in mounted
                              THEN {IF o = <<k, version[k]>> THEN <<k, version[k] + 1>> ELSE o : o \in data[s]}
                              ELSE data[s]]
    /\ hashes' = IF ActiveShards = {} THEN hashes ELSE [hashes EXCEPT ![target][k] = version[k] + 1]
    /\ infos' = LinkHashes(infos, Unlinked) /\ cache' = LinkHashes(cache, Unlinked)
    /\ disturbed' = disturbed \cup {s \in Unlinked : Contended(s, cache[s])}
    /\ overtaken' = (overtaken \/ job.pc \in Cleaning)
    /\ UNCHANGED <<mounted, calls, media, job, client, unrecorded>>

\* A putKind() that fails leaves the links that it had made in the cache.
PutKindFails(S) ==
    /\ CanLock
    /\ S # {} /\ S \subseteq Unlinked /\ Undisturbed
    /\ cache' = LinkHashes(cache, S)
    /\ disturbed' = disturbed \cup S
    /\ UNCHANGED <<infos, mounted, calls, media, job, client, data, hashes, version, unrecorded, overtaken>>

\* purgeShardObjects(): shards that are not active and were not seen for long (any) are
\* picked, and their objects removed one by one afterwards.
PurgeShardObjects(c, id) ==
    /\ client[c].pc = "idle" /\ Undisturbed
    /\ infos[id] # Nil /\ ~infos[id].active
    /\ client' = [client EXCEPT ![c] = [pc |-> "purge", id |-> id, kind |-> Nil, read |-> Nil]]
    /\ UNCHANGED <<infos, cache, mounted, calls, media, job, data, hashes, version, disturbed, unrecorded, overtaken>>

\* removeShardObjects(): the objects of the linked kinds go, where the shard can be read;
\* an error leaves the rest.
RemoveShardObjects(c, gone) ==
    /\ client[c].pc = "purge"
    /\ CanShare
    /\ LET id == client[c].id
       IN  /\ gone \subseteq {o \in data[id] : id \in mounted /\ cache[id] # Nil /\ o[1] \in cache[id].kinds}
           /\ data' = [data EXCEPT ![id] = @ \ gone]
    /\ client' = [client EXCEPT ![c] = Resting]
    /\ UNCHANGED <<infos, cache, mounted, calls, media, job, hashes, version, disturbed, unrecorded, overtaken>>

\* A crash or a stop; init(): resetShards() and initCache().
Restart ==
    /\ Undisturbed
    /\ infos' = [id \in Ids |-> IF infos[id] = Nil THEN Nil ELSE [infos[id] EXCEPT !.active = FALSE]]
    /\ cache' = infos'
    /\ mounted' = {} /\ media' = {} /\ unrecorded' = {}
    /\ job' = NoJob
    /\ client' = [c \in Clients |-> Resting]
    /\ overtaken' = (overtaken \/ job.pc \in Cleaning)
    /\ UNCHANGED <<calls, data, hashes, version, disturbed>>

Init ==
    /\ infos = [id \in Ids |-> Nil] /\ cache = infos
    /\ mounted = {} /\ calls = 0 /\ media = {}
    /\ job = NoJob
    /\ client = [c \in Clients |-> Resting]
    /\ data = [id \in Ids |-> {}]
    /\ hashes = [id \in Ids |-> [k \in Kinds |-> 0]]
    /\ version = [k \in Kinds |-> 1]
    /\ disturbed = {} /\ unrecorded = {} /\ overtaken = FALSE

HandlerStep ==
    \/ \E d \in Devices : HandleRegister(d) \/ LookUp(d) \/ LookUpFails(d)
    \/ \E devices \in SUBSET Devices : HandleDeviceListResponse(devices)
    \/ HandlerDone
    \/ \E b \in BOOLEAN : MountShard(b) \/ RecordActive(b) \/ InactiveFails(b)
    \/ \E pc \in {"garbage", "blocking"} : RecordFails(pc)
    \/ UnMountShard \/ RecordInactive \/ RemoveTransientShard \/ CacheInactive

GarbageStep ==
    \/ \E pc \in {"drop", "hashes", "leaked"} : LoadHashes(pc)
    \/ \E h \in job.todo : KeepHash(h) \/ DelKindData(h)
    \/ \E h \in job.todo, pc \in {"hashes", "blocking", "leaked"} :
          \E gone \in SUBSET OfKind(job.id, h[2]) : DropObjectStops(h, gone, pc)
    \/ GarbageDone \/ ReadHashLink \/ LinkHashKind \/ SaveHashFails \/ HashesDone
    \/ \E h \in job.todo, target \in Ids : SaveHash(h, target)
    \/ \E linked \in BOOLEAN : AbortRequest(linked)

ClientStep(c) ==
    \/ \E id \in Ids : ReadMode(c, id) \/ PurgeShardObjects(c, id) \/ \E k \in Kinds : CheckShard(c, id, k)
    \/ \E b \in BOOLEAN : SetMode(c, b) \/ CacheMode(c, b) \/ ReadLink(c, b) \/ Link(c, b)
    \/ PutObject(c)
    \/ \E object, record \in BOOLEAN : CommitPut(c, object, record)
    \/ client[c].pc = "purge" /\ \E gone \in SUBSET data[client[c].id] : RemoveShardObjects(c, gone)

KindStep ==
    \/ \E k \in Kinds, target \in Ids : PutKind(k, target)
    \/ \E S \in SUBSET Ids : PutKindFails(S)

Next == HandlerStep \/ GarbageStep \/ (\E c \in Clients : ClientStep(c)) \/ KindStep \/ Restart

Spec == Init /\ [][Next]_shardVars

-----------------------------------------------------------------------------
\* Where two did not write one record at once, the cache is the stored record but for
\* a write that is halfway; and every mounted shard is recorded as active, unless its
\* job failed: checkShard() then hides no object of a mounted shard.
MountedIsActive ==
    \A id \in Ids \ (disturbed \cup unrecorded) :
        /\ Halfway(id) \/ cache[id] = infos[id]
        /\ id \in mounted /\ ~(job.pc = "write" /\ job.id = id) => infos[id] # Nil /\ infos[id].active

\* Between two responses nothing is mounted for a device that the media handler no
\* longer knows, and an unmounted shard is not active, unless a job failed before its
\* end.  A record written from an outdated copy may name another device, whose shard
\* the handler then takes it for.
UnpluggedIsUnmounted ==
    job.pc = "idle" =>
        /\ disturbed = {} => \A id \in mounted \ unrecorded : infos[id] # Nil /\ infos[id].device \in media
        /\ \A id \in Ids \ (disturbed \cup mounted \cup unrecorded) : infos[id] # Nil => ~infos[id].active

\* A device keeps its shard, and a shard its device: two devices with the same
\* checksum never share a record, so no device's objects are taken for another's.
DeviceKeepsShard ==
    /\ \A d \in Devices : Cardinality(ByDevice(d) \ disturbed) <= 1
    /\ job.device # Nil /\ infos[job.id] # Nil /\ job.id \notin disturbed => infos[job.id].device = job.device

\* Every kind with objects on a shard is in the shard's list, which is what a purge goes
\* by, unless two wrote the record at once or a link was missed.
KindsLinked ==
    \A id \in Ids \ disturbed : cache[id] # Nil => {o[1] : o \in data[id]} \subseteq cache[id].kinds

\* Once a mount is complete, the shard's objects are all of the present version of
\* their kind: what was written under another one, before the device went away,
\* has been dropped.
GarbageDropped ==
    (job.pc \in {"idle", "next"} /\ ~overtaken) =>
        \A s \in mounted : \A o \in data[s] : o[2] = version[o[1]]

\* What the shard records say, what is mounted and which devices there are agree,
\* the kinds of a shard's objects are linked to it, and a mounted shard has no
\* objects of outdated kinds, except where two wrote a record at once or a job failed:
\* beside pulled devices, clients and restarts, and after failed mounts.
ShardsAgree ==
    MountedIsActive /\ UnpluggedIsUnmounted /\ DeviceKeepsShard /\ KindsLinked /\ GarbageDropped
=============================================================================
