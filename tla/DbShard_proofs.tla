---------------------------- MODULE DbShard_proofs ----------------------------
(***************************************************************************)
(* Proof that shard records, the id cache, mounted shards, devices and     *)
(* kind versions agree, for any devices, kinds, clients, checksums and     *)
(* numbers of calls.  The argument follows the record of a shard: a write  *)
(* that started from what is stored, with no other write of the record     *)
(* halfway, changes neither its device nor whether it is active behind the *)
(* media handler's back, and what it still has to do, in the cache or in   *)
(* the database, remains right; any other write is counted as disturbed.   *)
(* What the media handler has looked up therefore still holds when it      *)
(* writes.                                                                 *)
(***************************************************************************)
EXTENDS DbShard, DbAdmin, NatSetTheorems

Records == ShardInfo \cup {Nil}

\* A job that has a copy of the record to write, or to write again; one that has
\* written it; and one that is at its shard at all.
Copying == {"mount", "unmount", "record", "write"}
Caching == {"insert", "update", "erase"}
Busy == Copying \cup Caching \cup Cleaning

JobRec ==
  [pc : Busy \cup {"idle", "next"}, new : SUBSET Devices, gone : SUBSET Devices,
   id : Ids \cup {Nil}, read : Records, device : Devices \cup {Nil}, todo : SUBSET (Ids \X Kinds \X Nat)]

Putting == {"put", "link", "commit"}

ClientRec ==
  [pc : Putting \cup {"idle", "mode", "cache", "wait", "purge"}, id : Ids \cup {Nil}, kind : Kinds \cup {Nil}, read : Records]

Objects == Kinds \X (Nat \ {0})

ShardTypes ==
  /\ infos \in [Ids -> Records] /\ cache \in [Ids -> Records]
  /\ mounted \in SUBSET Ids /\ media \in SUBSET Devices
  /\ disturbed \in SUBSET Ids /\ unrecorded \in SUBSET Ids
  /\ job \in JobRec
  /\ job.pc \in Busy => job.id \in Ids /\ job.device \in Devices
  /\ job.pc \notin Busy => job.device = Nil
  /\ job.pc \in {"insert", "update", "link"} => job.read \in ShardInfo
  /\ job.pc = "erase" => job.read = Nil
  /\ client \in [Clients -> ClientRec]
  /\ \A c \in Clients : client[c].pc # "idle" => client[c].id \in Ids
  /\ \A c \in Clients : client[c].pc \in {"mode", "cache", "link"} => client[c].read \in ShardInfo
  /\ \A c \in Clients : client[c].pc \in {"wait", "put"} => client[c].read = Nil
  /\ \A c \in Clients : client[c].pc \in Putting \cup {"wait"} => client[c].kind \in Kinds
  /\ data \in [Ids -> SUBSET Objects]
  /\ hashes \in [Ids -> [Kinds -> Nat]]
  /\ version \in [Kinds -> Nat \ {0}]
  /\ overtaken \in BOOLEAN

\* What is stored and what is in the cache: which of them have an entry, and which
\* have none for a shard that the job is about to record.
RecordsInv ==
  /\ \A i \in Ids : infos[i] # Nil /\ cache[i] = Nil => job.pc = "insert" /\ job.id = i
  /\ \A i \in Ids : infos[i] = Nil /\ cache[i] # Nil => i \in unrecorded \/ (job.pc = "erase" /\ job.id = i)
  /\ job.pc \in Copying => IF job.read = Nil THEN infos[job.id] = Nil /\ cache[job.id] = Nil ELSE infos[job.id] # Nil
  /\ job.pc = "insert" => cache[job.id] = Nil
  /\ job.pc \in {"insert", "update"} => infos[job.id] # Nil
  /\ job.pc = "erase" => infos[job.id] = Nil
  /\ job.pc \in Caching \cup {"record"} => job.id \notin mounted
  /\ job.pc \in Cleaning => job.id \in mounted

\* An undisturbed record has one writer halfway at most, and what it left to do is
\* still right.
HalfJob(i) == job.id = i /\ (job.pc \in Caching \/ (job.pc = "save" /\ job.read # Nil))
HalfClient(c, i) ==
  client[c].id = i /\ (client[c].pc = "cache" \/ (client[c].pc = "commit" /\ client[c].read # Nil))

WritersInv ==
  /\ \A i \in Ids \ disturbed : \A c, e \in Clients : HalfClient(c, i) /\ HalfClient(e, i) => c = e
  /\ \A i \in Ids \ disturbed : \A c \in Clients : ~(HalfClient(c, i) /\ HalfJob(i))
  /\ \A c \in Clients : client[c].pc = "cache" /\ client[c].id \notin disturbed => infos[client[c].id] = client[c].read
  /\ \A c \in Clients : client[c].pc = "commit" /\ client[c].id \notin disturbed =>
        /\ infos[client[c].id] # Nil
        /\ IF client[c].read = Nil THEN client[c].kind \in infos[client[c].id].kinds
           ELSE /\ infos[client[c].id] = client[c].read
                /\ cache[client[c].id] = LinkedKinds(client[c].read, client[c].kind)
  /\ job.pc \in Caching /\ job.id \notin disturbed => infos[job.id] = job.read
  /\ job.pc = "save" /\ job.read # Nil => infos[job.id] # Nil
  /\ job.pc = "save" /\ job.read # Nil /\ job.id \notin disturbed =>
        infos[job.id] = job.read /\ cache[job.id] = LinkedKinds(job.read, HashKind)
  /\ \A c \in Clients : client[c].pc = "commit" /\ client[c].read # Nil => infos[client[c].id] # Nil
  /\ \A c \in Clients : client[c].pc \in Putting => client[c].id \in mounted

\* The kinds of a shard's objects are in its stored record, whose kinds are in the cache.
LinksInv ==
  \A i \in Ids \ disturbed :
    /\ infos[i] = Nil => data[i] = {}
    /\ infos[i] # Nil => \A o \in data[i] : o[1] \in infos[i].kinds
    /\ infos[i] # Nil /\ cache[i] # Nil => infos[i].kinds \subseteq cache[i].kinds
    /\ infos[i] = Nil /\ cache[i] # Nil => cache[i].kinds = {} \/ (job.pc = "erase" /\ job.id = i)

\* A device has one record, and it is the one that the job looked up.
OwnersInv ==
  /\ \A a, b \in Ids \ disturbed :
        infos[a] # Nil /\ infos[b] # Nil /\ infos[a].device = infos[b].device => a = b
  /\ job.pc \in Busy /\ infos[job.id] # Nil /\ job.id \notin disturbed => infos[job.id].device = job.device
  /\ job.pc \in Copying /\ job.read # Nil => job.read.device = job.device
  /\ job.pc \in Copying /\ job.read = Nil =>
        \A i \in Ids \ disturbed : infos[i] # Nil => infos[i].device # job.device
  /\ job.pc = "erase" /\ disturbed = {} => \A i \in Ids : infos[i] # Nil => infos[i].device # job.device

\* What is mounted is recorded, active and plugged in, what is not mounted is inactive
\* but for the shard that is just being written off.
PluggedInv ==
  /\ job.pc \in {"mount", "write"} => job.device \in media
  /\ disturbed = {} => \A i \in mounted \ unrecorded : infos[i] # Nil => infos[i].device \in media
  /\ \A i \in Ids \ (disturbed \cup mounted \cup unrecorded) :
        infos[i] # Nil /\ infos[i].active => job.pc = "record" /\ job.id = i
  /\ \A i \in mounted \ disturbed :
        (job.pc = "write" /\ job.id = i) \/ (infos[i] # Nil /\ infos[i].active) \/ (i \in unrecorded /\ overtaken)

\* Where the cache differs from what is stored, someone is halfway.
CacheInv ==
  \A i \in Ids \ (disturbed \cup unrecorded) : Halfway(i) \/ cache[i] = infos[i]

Current(i, k) == \A o \in data[i] : o[1] = k => o[2] = version[k]

\* While one shard at a time is mounted: the recorded version of a kind is that of
\* the shard's objects, until the objects that are kept are recorded anew.
VersionsInv ==
  ~overtaken =>
    /\ job.pc \notin {"blocking", "leaked"}
    /\ \A a, b \in mounted : a = b
    /\ job.pc \notin {"write", "garbage", "drop"} => \A s \in mounted : \A k \in Kinds : Current(s, k)
    /\ \A i \in Ids : \A o \in data[i] :
          \/ o[2] = hashes[i][o[1]]
          \/ job.pc \in Cleaning /\ job.id = i /\ o[2] = version[o[1]]
    /\ job.pc \notin Cleaning => \A s \in mounted : \A k \in Kinds : hashes[s][k] = version[k]
    /\ job.pc = "drop" => \A h \in job.todo : h[1] = job.id /\ h[3] = hashes[job.id][h[2]]
    /\ job.pc = "drop" => \A k \in Kinds : Current(job.id, k) \/ <<job.id, k, hashes[job.id][k]>> \in job.todo
    /\ job.pc \in {"hashes", "link", "save"} => \A h \in job.todo : h[1] = job.id /\ h[3] = version[h[2]]
    /\ job.pc \in {"hashes", "link", "save"} =>
          \A k \in Kinds : hashes[job.id][k] = version[k] \/ <<job.id, k, version[k]>> \in job.todo

ShardInv ==
  ShardTypes /\ RecordsInv /\ WritersInv /\ LinksInv /\ OwnersInv /\ PluggedInv /\ CacheInv /\ VersionsInv

-----------------------------------------------------------------------------
\* allocateId() returns an id without a record.
LEMMA AllocateIdFree ==
  ASSUME NEW d \in Devices, CanAllocate(d)
  PROVE  AllocateId(d) \in Ids /\ cache[AllocateId(d)] = Nil
<1> DEFINE S == {n \in Suffixes : FreePrefixes(d, n) # {}}
           n == Min(S)
           p == Min(FreePrefixes(d, n))
<1>1. Suffixes \subseteq Nat
  BY DEF Suffixes
<1>2. n \in Suffixes /\ FreePrefixes(d, n) # {}
  <2>1. S \in SUBSET Nat /\ S # {}
    BY <1>1 DEF CanAllocate
  <2>2. n \in S
    BY <2>1, MinIn
  <2> QED BY <2>2
<1> HIDE DEF n
<1>3. p \in FreePrefixes(d, n)
  <2>1. FreePrefixes(d, n) \in SUBSET Nat
    BY DEF FreePrefixes
  <2> QED BY <1>2, <2>1, MinIn
<1> HIDE DEF p
<1>4. p \in 1 .. MaxPrefix /\ cache[<<Crc(d, n), p>>] = Nil
  BY <1>3 DEF FreePrefixes, IsIdExist
<1>5. <<Crc(d, n), p>> \in Ids
  BY <1>2, <1>4 DEF Ids
<1>6. AllocateId(d) = <<Crc(d, n), p>>
  BY DEF AllocateId, n, p
<1> QED BY <1>4, <1>5, <1>6


\* A record that becomes active or inactive.
LEMMA ActiveChanged ==
  ASSUME NEW r \in ShardInfo, NEW b \in BOOLEAN
  PROVE  /\ [r EXCEPT !.active = b] \in ShardInfo \ {Nil} /\ [r EXCEPT !.active = b].active = b
         /\ [r EXCEPT !.active = b].device = r.device /\ [r EXCEPT !.active = b].kinds = r.kinds
<1>1. [r EXCEPT !.active = b] \in ShardInfo
  BY DEF ShardInfo
<1> QED BY <1>1, NilAssumption DEF ShardInfo

\* A record that becomes transient, or no longer is.
LEMMA TransientChanged ==
  ASSUME NEW r \in ShardInfo, NEW b \in BOOLEAN
  PROVE  /\ [r EXCEPT !.transient = b] \in ShardInfo \ {Nil} /\ [r EXCEPT !.transient = b].active = r.active
         /\ [r EXCEPT !.transient = b].device = r.device /\ [r EXCEPT !.transient = b].kinds = r.kinds
<1>1. [r EXCEPT !.transient = b] \in ShardInfo
  BY DEF ShardInfo
<1> QED BY <1>1, NilAssumption DEF ShardInfo

\* A record with a further kind.
LEMMA LinkChanged ==
  ASSUME NEW r \in ShardInfo, NEW k \in Kinds \cup {HashKind}
  PROVE  /\ LinkedKinds(r, k) \in ShardInfo \ {Nil} /\ LinkedKinds(r, k).active = r.active
         /\ LinkedKinds(r, k).device = r.device /\ LinkedKinds(r, k).kinds = r.kinds \cup {k}
<1>1. LinkedKinds(r, k) \in ShardInfo
  BY DEF ShardInfo, LinkedKinds
<1> QED BY <1>1, NilAssumption DEF ShardInfo, LinkedKinds

\* The record of a new device.
LEMMA NewInfoType ==
  ASSUME NEW d \in Devices, NEW b \in BOOLEAN
  PROVE  /\ NewInfo(d, b) \in ShardInfo \ {Nil}
         /\ NewInfo(d, b).device = d /\ NewInfo(d, b).active = b /\ NewInfo(d, b).kinds = {}
<1>1. NewInfo(d, b) \in ShardInfo
  BY DEF NewInfo, ShardInfo
<1> QED BY <1>1, NilAssumption DEF NewInfo

\* What the job writes: a record of its device.
LEMMA RecordType ==
  ASSUME ShardTypes, job.device \in Devices, NEW b \in BOOLEAN
  PROVE  /\ Record(b) \in ShardInfo \ {Nil} /\ Record(b).active = b
         /\ job.read = Nil => Record(b).device = job.device /\ Record(b).kinds = {}
         /\ job.read # Nil => Record(b).device = job.read.device /\ Record(b).kinds = job.read.kinds
<1>1. CASE job.read = Nil
  BY <1>1, NewInfoType DEF Record
<1>2. CASE job.read # Nil
  <2>1. job.read \in ShardInfo
    BY <1>2 DEF ShardTypes, JobRec, Records
  <2>2. PICK r \in ShardInfo : r = job.read
    BY <2>1
  <2>3. Record(b) = [r EXCEPT !.active = b]
    BY <1>2, <2>2 DEF Record
  <2>4. /\ [r EXCEPT !.active = b] \in ShardInfo \ {Nil} /\ [r EXCEPT !.active = b].active = b
        /\ [r EXCEPT !.active = b].device = r.device /\ [r EXCEPT !.active = b].kinds = r.kinds
    BY <2>2, ActiveChanged
  <2> QED BY <1>2, <2>2, <2>3, <2>4
<1> QED BY <1>1, <1>2

\* No job.
LEMMA NoJobType == NoJob \in JobRec /\ NoJob.pc = "idle" /\ NoJob.device = Nil
  BY DEF NoJob, JobRec, Records

\* The next device: the job is at no shard.
LEMMA NextType ==
  ASSUME ShardTypes
  PROVE  NextDevice \in JobRec /\ NextDevice.pc = "next" /\ NextDevice.device = Nil
  BY DEF NextDevice, NoJob, JobRec, Records, ShardTypes

\* A client at rest.
LEMMA RestingType == Resting \in ClientRec /\ Resting.pc = "idle" /\ Resting.read = Nil
  BY DEF Resting, ClientRec, Records

-----------------------------------------------------------------------------
(* The initial states, and the steps that write no record *)

\* The invariant holds at the start.
LEMMA InitKeeps == Init => ShardInv
<1> SUFFICES ASSUME Init PROVE ShardInv
  OBVIOUS
<1>1. job \in JobRec /\ job.pc = "idle" /\ job.device = Nil
  BY NoJobType DEF Init
<1>2. client \in [Clients -> ClientRec] /\ \A c \in Clients : client[c].pc = "idle"
  BY RestingType DEF Init
<1>3. /\ \A i \in Ids : infos[i] = Nil /\ cache[i] = Nil /\ data[i] = {}
      /\ infos \in [Ids -> Records] /\ cache \in [Ids -> Records]
      /\ data \in [Ids -> SUBSET Objects] /\ version \in [Kinds -> Nat \ {0}]
      /\ mounted = {} /\ hashes \in [Ids -> [Kinds -> Nat]] /\ media = {} /\ disturbed = {} /\ unrecorded = {}
      /\ overtaken = FALSE
  BY DEF Init, Records
<1>4. ShardTypes
  BY <1>1, <1>2, <1>3 DEF ShardTypes, Busy, Copying, Caching, Cleaning, Putting
<1>5. RecordsInv
  BY <1>1, <1>3 DEF RecordsInv, Copying, Caching, Cleaning
<1>6. WritersInv
  BY <1>1, <1>2 DEF WritersInv, HalfClient, Caching, Putting
<1>7. LinksInv /\ OwnersInv /\ PluggedInv /\ CacheInv
  BY <1>1, <1>3 DEF LinksInv, OwnersInv, PluggedInv, CacheInv, Busy, Copying, Caching, Cleaning
<1>8. VersionsInv
  BY <1>1, <1>3 DEF VersionsInv, Cleaning
<1> QED BY <1>4, <1>5, <1>6, <1>7, <1>8 DEF ShardInv

\* The job has no copy of a record to write, and none halfway.
Away(j) == j.pc \notin Copying \cup Caching /\ ~(j.pc = "save" /\ j.read # Nil)

\* The job goes from one place where it is no writer to another.
LEMMA AwayKeeps ==
  ASSUME ShardInv, Away(job), Away(job)', job' \in JobRec,
         job'.pc \in Busy => job.pc \in Busy /\ job'.id = job.id /\ job'.device = job.device,
         job'.pc \notin Busy => job'.device = Nil,
         job'.pc = "link" => job'.read \in ShardInfo,
         UNCHANGED <<infos, cache, mounted, media, client, data, hashes, version, disturbed, unrecorded>>,
         overtaken' \in BOOLEAN, overtaken => overtaken', VersionsInv'
  PROVE  ShardInv'
<1> USE DEF ShardInv
<1>1. job.pc \in Busy => job.id \in Ids /\ job.device \in Devices
  BY DEF ShardTypes
<1>2. ShardTypes'
  BY <1>1 DEF ShardTypes, Away, Busy, Copying, Caching, Cleaning
<1>3. RecordsInv'
  BY DEF RecordsInv, Away, Busy, Copying, Caching, Cleaning
<1>4. WritersInv'
  BY DEF WritersInv, HalfJob, HalfClient, Away, Caching
<1>5. LinksInv' /\ OwnersInv'
  BY DEF LinksInv, OwnersInv, Away, Busy, Copying, Caching
<1>6. PluggedInv'
  BY DEF PluggedInv, Away, Copying
<1>7. CacheInv'
  BY DEF CacheInv, Halfway, Away, Caching
<1> QED BY <1>2, <1>3, <1>4, <1>5, <1>6, <1>7

\* A response begins while the job is at no shard.
LEMMA HandleDeviceListResponseKeeps ==
  ASSUME ShardInv, NEW devices \in SUBSET Devices, HandleDeviceListResponse(devices)
  PROVE  ShardInv'
<1> USE DEF ShardInv
<1>1. job' \in JobRec /\ job'.pc = "next" /\ job.pc = "idle" /\ job'.device = Nil
  BY DEF HandleDeviceListResponse, ShardTypes, JobRec, Busy, Copying, Caching, Cleaning
<1>2. VersionsInv'
  BY <1>1 DEF HandleDeviceListResponse, VersionsInv, Current, Cleaning
<1> QED BY <1>1, <1>2, AwayKeeps DEF HandleDeviceListResponse, Away, Busy, Copying, Caching, Cleaning, ShardTypes

\* A device that is ejected is dealt with like one that is gone.
LEMMA HandleRegisterKeeps ==
  ASSUME ShardInv, NEW d \in Devices, HandleRegister(d)
  PROVE  ShardInv'
<1> USE DEF ShardInv
<1>1. job' \in JobRec /\ job'.pc = "next" /\ job.pc = "idle" /\ job'.device = Nil
  BY DEF HandleRegister, ShardTypes, JobRec, Busy, Copying, Caching, Cleaning
<1>2. VersionsInv'
  BY <1>1 DEF HandleRegister, VersionsInv, Current, Cleaning
<1> QED BY <1>1, <1>2, AwayKeeps DEF HandleRegister, Away, Busy, Copying, Caching, Cleaning, ShardTypes

\* Between two responses the job is at no shard either.
LEMMA HandlerDoneKeeps ==
  ASSUME ShardInv, HandlerDone
  PROVE  ShardInv'
<1> USE DEF ShardInv
<1>1. job' \in JobRec /\ job'.pc = "idle" /\ job.pc = "next" /\ job'.device = Nil
  BY NoJobType DEF HandlerDone
<1>2. VersionsInv'
  BY <1>1 DEF HandlerDone, VersionsInv, Current, Cleaning
<1> QED BY <1>1, <1>2, AwayKeeps DEF HandlerDone, Away, Busy, Copying, Caching, Cleaning, ShardTypes

\* The shard of a device: the one whose record names it, or an id without a record.
LEMMA LookUpKeeps ==
  ASSUME ShardInv, NEW d \in Devices, LookUp(d)
  PROVE  ShardInv'
<1> USE DEF ShardInv
<1> DEFINE ids == IF ByDevice(d) = {} THEN {AllocateId(d)} ELSE ByDevice(d)
           pc == IF d \in job.new THEN "mount" ELSE "unmount"
<1>0. PICK id \in ids : job' = [job EXCEPT !.device = d, !.id = id, !.read = infos[id], !.pc = pc]
  BY DEF LookUp
<1>1. /\ job.pc = "next"
      /\ job' = [job EXCEPT !.device = d, !.id = id, !.read = infos[id], !.pc = pc]
      /\ media' = IF d \in job.new THEN media \cup {d} ELSE media
      /\ UNCHANGED <<infos, cache, mounted, client, data, hashes, version, disturbed, unrecorded, overtaken>>
      /\ ByDevice(d) # {} \/ CanAllocate(d)
  BY <1>0 DEF LookUp
<1>2. /\ id \in Ids
      /\ ByDevice(d) = {} => cache[id] = Nil
      /\ ByDevice(d) # {} => infos[id] # Nil /\ infos[id].device = d
  <2>1. CASE ByDevice(d) = {}
    BY <1>1, <2>1, AllocateIdFree
  <2>2. CASE ByDevice(d) # {}
    BY <2>2 DEF ByDevice
  <2> QED BY <2>1, <2>2
<1> HIDE DEF ids
<1>3. infos[id] \in Records /\ job \in JobRec
  BY <1>2 DEF ShardTypes
<1>4. /\ job' \in JobRec
      /\ job'.id = id /\ job'.device = d /\ job'.read = infos[id] /\ job'.pc \in {"mount", "unmount"}
      /\ job'.pc = "mount" => d \in media'
  BY <1>1, <1>2, <1>3 DEF JobRec, Busy, Copying
<1> HIDE DEF pc
<1>5. ShardTypes'
  <2>1. media' \in SUBSET Devices
    BY <1>1 DEF ShardTypes
  <2> QED BY <1>1, <1>2, <1>4, <2>1 DEF ShardTypes, Busy, Copying
<1>6. infos[id] = Nil => cache[id] = Nil /\ \A i \in Ids : infos[i] # Nil => infos[i].device # d
  BY <1>1, <1>2 DEF ByDevice
<1>7. RecordsInv'
  BY <1>1, <1>4, <1>6 DEF RecordsInv, Copying, Caching, Cleaning
<1>8. WritersInv'
  BY <1>1, <1>4 DEF WritersInv, HalfJob, HalfClient, Caching
<1>9. LinksInv' /\ CacheInv'
  BY <1>1, <1>4 DEF LinksInv, CacheInv, Halfway
<1>10. OwnersInv'
  <2>1. infos[id] # Nil => infos[id].device = d
    BY <1>1, <1>2 DEF RecordsInv
  <2> QED BY <1>1, <1>2, <1>4, <1>6, <2>1 DEF OwnersInv
<1>11. PluggedInv'
  BY <1>1, <1>4 DEF PluggedInv
<1>12. VersionsInv'
  BY <1>1, <1>4 DEF VersionsInv, Cleaning, Current
<1> QED BY <1>5, <1>7, <1>8, <1>9, <1>10, <1>11, <1>12

\* A device whose lookup fails is forgotten with a shard that may be mounted: that
\* shard counts as unrecorded.
LEMMA LookUpFailsKeeps ==
  ASSUME ShardInv, NEW d \in Devices, LookUpFails(d)
  PROVE  ShardInv'
<1> USE DEF ShardInv
<1>1. /\ job.pc = "next" /\ job'.pc = "next" /\ job' \in JobRec /\ job'.device = Nil
      /\ UNCHANGED <<infos, cache, mounted, client, data, hashes, version, disturbed, overtaken>>
      /\ unrecorded \subseteq unrecorded'
      /\ \A i \in Ids \ unrecorded' : infos[i] # Nil /\ infos[i].device \in media => infos[i].device \in media'
      /\ media' \in SUBSET Devices /\ unrecorded' \in SUBSET Ids
  BY DEF LookUpFails, ShardTypes, JobRec, Busy, Copying, Caching, Cleaning, ByDevice
<1>2. ShardTypes'
  BY <1>1 DEF ShardTypes, Busy, Copying, Caching, Cleaning
<1>3. RecordsInv'
  BY <1>1 DEF RecordsInv, Copying, Caching, Cleaning
<1>4. WritersInv'
  BY <1>1 DEF WritersInv, HalfJob, HalfClient, Caching
<1>5. LinksInv' /\ CacheInv'
  BY <1>1 DEF LinksInv, CacheInv, Halfway
<1>6. OwnersInv'
  BY <1>1 DEF OwnersInv, Busy, Copying, Caching, Cleaning
<1>7. PluggedInv'
  BY <1>1 DEF PluggedInv, ShardTypes
<1>8. VersionsInv'
  BY <1>1 DEF VersionsInv, Cleaning, Current
<1> QED BY <1>2, <1>3, <1>4, <1>5, <1>6, <1>7, <1>8

\* A job ends without a change: what it leaves mounted, stored or half done is what
\* the invariant allows to a job that is at no shard.
LEMMA MountFailsKeeps ==
  ASSUME ShardInv, job.pc = "mount", job' = NextDevice,
         UNCHANGED <<infos, cache, mounted, media, client, data, hashes, version, disturbed, unrecorded, overtaken>>
  PROVE  ShardInv'
<1> USE DEF ShardInv
<1>1. job' \in JobRec /\ job'.pc = "next" /\ job'.device = Nil
  BY NextType
<1>2. ShardTypes'
  BY <1>1 DEF ShardTypes, Busy, Copying, Caching, Cleaning
<1>3. RecordsInv'
  BY <1>1 DEF RecordsInv, Copying, Caching, Cleaning
<1>4. WritersInv'
  BY <1>1 DEF WritersInv, HalfJob, HalfClient, Caching
<1>5. LinksInv' /\ CacheInv'
  BY <1>1 DEF LinksInv, CacheInv, Halfway
<1>6. OwnersInv'
  BY <1>1 DEF OwnersInv, Busy, Copying, Caching, Cleaning
<1>7. PluggedInv'
  BY <1>1 DEF PluggedInv, ShardTypes
<1>8. VersionsInv'
  BY <1>1 DEF VersionsInv, Cleaning, Current
<1> QED BY <1>2, <1>3, <1>4, <1>5, <1>6, <1>7, <1>8

\* A shard is mounted before its record says so.
LEMMA MountShardKeeps ==
  ASSUME ShardInv, NEW ok \in BOOLEAN, MountShard(ok)
  PROVE  ShardInv'
<1> USE DEF ShardInv
<1>1. CASE ~DatabasePrepare(job.id, ok)
  BY <1>1, MountFailsKeeps DEF MountShard
<1>2. CASE DatabasePrepare(job.id, ok)
  <2>1. /\ job.pc = "mount" /\ CanLock /\ job.id \notin mounted
        /\ mounted' = mounted \cup {job.id}
        /\ job' = [job EXCEPT !.pc = "write"]
        /\ overtaken' = (overtaken \/ mounted # {})
        /\ UNCHANGED <<infos, cache, media, client, data, hashes, version, disturbed, unrecorded>>
    BY <1>2 DEF MountShard, DatabasePrepare
  <2>2. /\ job' \in JobRec /\ job'.pc = "write" /\ job.id \in Ids /\ job.device \in Devices
        /\ job'.id = job.id /\ job'.device = job.device /\ job'.read = job.read
    BY <2>1 DEF ShardTypes, JobRec, Busy, Copying, Caching, Cleaning
  <2>3. ShardTypes'
    BY <2>1, <2>2 DEF ShardTypes, Busy, Copying, Caching, Cleaning
  <2>4. RecordsInv'
    BY <2>1, <2>2 DEF RecordsInv, Copying, Caching, Cleaning
  <2>5. WritersInv'
    BY <2>1, <2>2 DEF WritersInv, HalfJob, HalfClient, Caching
  <2>6. LinksInv' /\ CacheInv'
    BY <2>1, <2>2 DEF LinksInv, CacheInv, Halfway
  <2>7. OwnersInv'
    BY <2>1, <2>2 DEF OwnersInv, Busy, Copying, Caching, Cleaning
  <2>8. PluggedInv'
    <3>1. job.device \in media /\ (infos[job.id] # Nil /\ job.id \notin disturbed => infos[job.id].device = job.device)
      BY <2>1 DEF PluggedInv, OwnersInv, Busy, Copying
    <3>2. disturbed = {} => \A i \in mounted' \ unrecorded : infos[i] # Nil => infos[i].device \in media
      BY <2>1, <3>1 DEF PluggedInv
    <3>3. \A i \in Ids \ (disturbed \cup mounted' \cup unrecorded) : infos[i] # Nil /\ infos[i].active => FALSE
      BY <2>1 DEF PluggedInv
    <3>4. \A i \in mounted' \ disturbed : i = job.id \/ (infos[i] # Nil /\ infos[i].active) \/ (i \in unrecorded /\ overtaken)
      BY <2>1 DEF PluggedInv
    <3>5. UNCHANGED <<infos, media, disturbed, unrecorded>> /\ (overtaken => overtaken')
      BY <2>1
    <3> QED BY <2>2, <3>1, <3>2, <3>3, <3>4, <3>5 DEF PluggedInv
  <2>9. VersionsInv'
    BY <2>1, <2>2 DEF VersionsInv, Cleaning, Current
  <2> QED BY <2>3, <2>4, <2>5, <2>6, <2>7, <2>8, <2>9
<1> QED BY <1>1, <1>2

\* A shard is unmounted before its record says so; no put is under way on it.
LEMMA UnMountShardKeeps ==
  ASSUME ShardInv, UnMountShard
  PROVE  ShardInv'
<1> USE DEF ShardInv
<1>1. /\ job.pc = "unmount" /\ CanLock
      /\ mounted' = mounted \ {job.id}
      /\ job' = [job EXCEPT !.pc = "record"]
      /\ UNCHANGED <<infos, cache, media, client, data, hashes, version, disturbed, unrecorded, overtaken>>
  BY DEF UnMountShard
<1>2. /\ job' \in JobRec /\ job'.pc = "record" /\ job.id \in Ids /\ job.device \in Devices
      /\ job'.id = job.id /\ job'.device = job.device /\ job'.read = job.read
  BY <1>1 DEF ShardTypes, JobRec, Busy, Copying, Caching, Cleaning
<1>3. ShardTypes'
  BY <1>1, <1>2 DEF ShardTypes, Busy, Copying, Caching, Cleaning
<1>4. RecordsInv'
  BY <1>1, <1>2 DEF RecordsInv, Copying, Caching, Cleaning
<1>5. WritersInv'
  BY <1>1, <1>2 DEF WritersInv, HalfJob, HalfClient, Caching, CanLock, Putting
<1>6. LinksInv' /\ CacheInv'
  BY <1>1, <1>2 DEF LinksInv, CacheInv, Halfway
<1>7. OwnersInv'
  BY <1>1, <1>2 DEF OwnersInv, Busy, Copying, Caching, Cleaning
<1>8. PluggedInv'
  BY <1>1, <1>2 DEF PluggedInv, OwnersInv, Busy, Copying
<1>9. VersionsInv'
  BY <1>1, <1>2 DEF VersionsInv, Cleaning, Current
<1> QED BY <1>3, <1>4, <1>5, <1>6, <1>7, <1>8, <1>9

\* The record of a mounted shard is written, in the cache and, unless the commit fails,
\* in the database.  A write that is not counted as disturbed started from the record.
LEMMA RecordActiveKeeps ==
  ASSUME ShardInv, NEW commit \in BOOLEAN, RecordActive(commit)
  PROVE  ShardInv'
<1> USE DEF ShardInv
<1> DEFINE id == job.id
           r == Record(TRUE)
<1>1. job.pc = "write" /\ id \in Ids /\ job.device \in Devices /\ id \in mounted
  BY DEF RecordActive, ShardTypes, RecordsInv, Busy, Cleaning
<1>2. /\ r \in ShardInfo \ {Nil} /\ r.active /\ r.device = job.device
      /\ job.read = Nil => r.kinds = {}
      /\ job.read # Nil => r.kinds = job.read.kinds
  <2>1. job.read # Nil => job.read.device = job.device
    BY <1>1 DEF OwnersInv, Copying
  <2> HIDE DEF r
  <2>2. /\ r \in ShardInfo \ {Nil} /\ r.active = TRUE
        /\ job.read = Nil => r.device = job.device /\ r.kinds = {}
        /\ job.read # Nil => r.device = job.read.device /\ r.kinds = job.read.kinds
    BY <1>1, RecordType DEF r
  <2> QED BY <2>1, <2>2
<1>3. cache' = [cache EXCEPT ![id] = r]
  <2>1. job.read = Nil => cache[id] = Nil
    BY <1>1 DEF RecordsInv, Copying
  <2>2. job.read # Nil => cache[id] # Nil
    BY <1>1 DEF RecordsInv, Copying
  <2> QED BY <2>1, <2>2 DEF RecordActive, CachePut, CacheUpdate
<1>4. /\ disturbed' \in SUBSET Ids /\ disturbed \subseteq disturbed'
      /\ \A i \in Ids \ disturbed' : i \notin disturbed
      /\ id \notin disturbed' => infos[id] = job.read /\ ~Halfway(id)
  BY <1>1 DEF RecordActive, Disturb, Contended, ShardTypes
<1>5. UNCHANGED <<mounted, media, client, data, hashes, version>>
  BY DEF RecordActive
<1>6. cache' \in [Ids -> Records] /\ cache'[id] = r /\ \A i \in Ids \ {id} : cache'[i] = cache[i]
  BY <1>1, <1>2, <1>3 DEF ShardTypes, Records
<1>7. \A c \in Clients : id \notin disturbed' => ~HalfClient(c, id)
  BY <1>4 DEF Halfway, HalfClient
<1>8. id \notin disturbed' => (job.read = Nil => data[id] = {}) /\ \A o \in data[id] : o[1] \in r.kinds
  BY <1>1, <1>2, <1>4 DEF LinksInv
<1>a. CASE commit
  <2>1. /\ infos' = [infos EXCEPT ![id] = r]
        /\ unrecorded' = unrecorded \ {id} /\ overtaken' = overtaken
        /\ job' = [job EXCEPT !.pc = "garbage"]
    BY <1>a DEF RecordActive
  <2> HIDE DEF r
  <2>2. infos' \in [Ids -> Records] /\ infos'[id] = r /\ \A i \in Ids \ {id} : infos'[i] = infos[i]
    BY <1>1, <1>2, <2>1 DEF ShardTypes, Records
  <2>3. /\ job' \in JobRec /\ job'.pc = "garbage" /\ job'.id = id /\ job'.device = job.device
        /\ job'.read = job.read
    BY <2>1, <1>1 DEF ShardTypes, JobRec, Busy, Copying, Caching, Cleaning
  <2> HIDE DEF id
  <2>4. ShardTypes'
    BY <1>1, <1>4, <1>5, <1>6, <2>1, <2>2, <2>3 DEF ShardTypes, Busy, Copying, Caching, Cleaning
  <2>5. RecordsInv'
    BY <1>1, <1>2, <1>5, <1>6, <2>1, <2>2, <2>3 DEF RecordsInv, Copying, Caching, Cleaning, id
  <2>6. WritersInv'
    <3>1. \A i \in Ids \ disturbed' : i # id => infos'[i] = infos[i] /\ cache'[i] = cache[i] /\ i \notin disturbed
      BY <1>4, <1>6, <2>2
    <3>2. \A c \in Clients : client[c].pc = "commit" /\ client[c].id = id /\ id \notin disturbed' =>
             client[c].read = Nil /\ infos'[id] # Nil /\ client[c].kind \in infos'[id].kinds
      BY <1>1, <1>2, <1>4, <1>7, <2>2 DEF WritersInv, HalfClient, id
    <3>3. \A c \in Clients : client[c].pc = "cache" /\ client[c].id = id => id \in disturbed'
      BY <1>7 DEF HalfClient
    <3>4. \A c \in Clients : client[c].pc = "commit" /\ client[c].read # Nil => infos'[client[c].id] # Nil
      BY <1>1, <1>2, <2>2 DEF WritersInv, ShardTypes, id
    <3>5. \A c \in Clients : client[c].pc # "idle" => client[c].id \in Ids
      BY DEF ShardTypes
    <3> QED BY <1>4, <1>5, <2>3, <3>1, <3>2, <3>3, <3>4, <3>5 DEF WritersInv, HalfJob, HalfClient, Caching
  <2>7. LinksInv'
    BY <1>1, <1>2, <1>4, <1>5, <1>6, <1>8, <2>2, <2>3 DEF LinksInv, id
  <2>8. OwnersInv'
    BY <1>1, <1>2, <1>4, <2>2, <2>3 DEF OwnersInv, Busy, Copying, Caching, Cleaning, id
  <2>9. PluggedInv'
    BY <1>1, <1>2, <1>4, <1>5, <2>1, <2>2, <2>3 DEF PluggedInv, id
  <2>10. CacheInv'
    BY <1>1, <1>4, <1>5, <1>6, <2>1, <2>2, <2>3 DEF CacheInv, Halfway, Caching, id
  <2>11. VersionsInv'
    BY <1>1, <1>5, <2>1, <2>3 DEF VersionsInv, Cleaning, Current, id
  <2> QED BY <2>4, <2>5, <2>6, <2>7, <2>8, <2>9, <2>10, <2>11
<1>b. CASE ~commit
  <2>1. /\ infos' = infos
        /\ unrecorded' = unrecorded \cup {id} /\ overtaken' = TRUE
        /\ job' = NextDevice
    BY <1>b DEF RecordActive
  <2> HIDE DEF r
  <2>3. job' \in JobRec /\ job'.pc = "next" /\ job'.device = Nil
    BY <2>1, NextType
  <2> HIDE DEF id
  <2>4. ShardTypes'
    BY <1>1, <1>4, <1>5, <1>6, <2>1, <2>3 DEF ShardTypes, Busy, Copying, Caching, Cleaning
  <2>5. RecordsInv'
    BY <1>1, <1>2, <1>5, <1>6, <2>1, <2>3 DEF RecordsInv, Copying, Caching, Cleaning, id
  <2>6. WritersInv'
    <3>1. \A i \in Ids \ disturbed' : i # id => infos'[i] = infos[i] /\ cache'[i] = cache[i] /\ i \notin disturbed
      BY <1>4, <1>6, <2>1
    <3>2. \A c \in Clients : client[c].pc = "commit" /\ client[c].id = id /\ id \notin disturbed' =>
             client[c].read = Nil /\ infos'[id] # Nil /\ client[c].kind \in infos'[id].kinds
      BY <1>1, <1>2, <1>4, <1>7, <2>1 DEF WritersInv, HalfClient, id
    <3>3. \A c \in Clients : client[c].pc = "cache" /\ client[c].id = id => id \in disturbed'
      BY <1>7 DEF HalfClient
    <3>4. \A c \in Clients : client[c].pc = "commit" /\ client[c].read # Nil => infos'[client[c].id] # Nil
      BY <1>1, <1>2, <2>1 DEF WritersInv, ShardTypes, id
    <3>5. \A c \in Clients : client[c].pc # "idle" => client[c].id \in Ids
      BY DEF ShardTypes
    <3> QED BY <1>4, <1>5, <2>3, <3>1, <3>2, <3>3, <3>4, <3>5 DEF WritersInv, HalfJob, HalfClient, Caching
  <2>7. LinksInv'
    BY <1>1, <1>2, <1>4, <1>5, <1>6, <1>8, <2>1, <2>3 DEF LinksInv, id
  <2>8. OwnersInv'
    BY <1>4, <2>1, <2>3 DEF OwnersInv, Busy, Copying, Caching, Cleaning
  <2>9. PluggedInv'
    BY <1>1, <1>4, <1>5, <2>1, <2>3 DEF PluggedInv, id
  <2>10. CacheInv'
    BY <1>1, <1>4, <1>5, <1>6, <2>1, <2>3 DEF CacheInv, Halfway, Caching, id
  <2>11. VersionsInv'
    BY <2>1 DEF VersionsInv
  <2> QED BY <2>4, <2>5, <2>6, <2>7, <2>8, <2>9, <2>10, <2>11
<1> QED BY <1>a, <1>b

\* The record of a mounted shard is not written: the shard counts as unrecorded.
LEMMA RecordFailsKeeps ==
  ASSUME ShardInv, NEW pc \in {"garbage", "blocking"}, RecordFails(pc)
  PROVE  ShardInv'
<1> USE DEF ShardInv
<1>1. /\ job.pc = "write" /\ unrecorded' = unrecorded \cup {job.id} /\ overtaken' = TRUE
      /\ job' = [job EXCEPT !.pc = pc]
      /\ UNCHANGED <<infos, cache, mounted, media, client, data, hashes, version, disturbed>>
  BY DEF RecordFails
<1>2. /\ job' \in JobRec /\ job'.pc \in {"garbage", "blocking"} /\ job'.id = job.id /\ job'.device = job.device
      /\ job'.read = job.read /\ job.id \in Ids /\ job.device \in Devices
  BY <1>1 DEF ShardTypes, JobRec, Busy, Copying, Caching, Cleaning
<1>3. ShardTypes'
  BY <1>1, <1>2 DEF ShardTypes, Busy, Copying, Caching, Cleaning
<1>4. RecordsInv'
  BY <1>1, <1>2 DEF RecordsInv, Copying, Caching, Cleaning
<1>5. WritersInv'
  BY <1>1, <1>2 DEF WritersInv, HalfJob, HalfClient, Caching
<1>6. LinksInv' /\ CacheInv'
  BY <1>1, <1>2 DEF LinksInv, CacheInv, Halfway
<1>7. OwnersInv'
  BY <1>1, <1>2 DEF OwnersInv, Busy, Copying, Caching, Cleaning
<1>8. PluggedInv'
  BY <1>1, <1>2 DEF PluggedInv
<1>9. VersionsInv'
  BY <1>1 DEF VersionsInv
<1> QED BY <1>3, <1>4, <1>5, <1>6, <1>7, <1>8, <1>9

\* The record of an unmounted shard is stored, and not yet in the cache.
LEMMA RecordInactiveKeeps ==
  ASSUME ShardInv, RecordInactive
  PROVE  ShardInv'
<1> USE DEF ShardInv
<1> DEFINE id == job.id
           r == Record(FALSE)
<1>1. job.pc = "record" /\ id \in Ids /\ job.device \in Devices /\ id \notin mounted
  BY DEF RecordInactive, ShardTypes, RecordsInv, Busy, Copying
<1>2. /\ r \in ShardInfo \ {Nil} /\ ~r.active /\ r.device = job.device
      /\ job.read = Nil => r.kinds = {}
      /\ job.read # Nil => r.kinds = job.read.kinds
  <2>1. job.read # Nil => job.read.device = job.device
    BY <1>1 DEF OwnersInv, Copying
  <2> HIDE DEF r
  <2>2. /\ r \in ShardInfo \ {Nil} /\ r.active = FALSE
        /\ job.read = Nil => r.device = job.device /\ r.kinds = {}
        /\ job.read # Nil => r.device = job.read.device /\ r.kinds = job.read.kinds
    BY <1>1, RecordType DEF r
  <2> QED BY <2>1, <2>2
<1>3. /\ infos' = [infos EXCEPT ![id] = r]
      /\ unrecorded' = unrecorded \ {id}
      /\ job' = [job EXCEPT !.pc = IF job.read = Nil THEN "insert" ELSE "update", !.read = r]
      /\ UNCHANGED <<cache, mounted, media, client, data, hashes, version, overtaken>>
  BY DEF RecordInactive
<1>4. /\ disturbed' \in SUBSET Ids /\ disturbed \subseteq disturbed'
      /\ id \notin disturbed' => infos[id] = job.read /\ ~Halfway(id)
  BY <1>1 DEF RecordInactive, Disturb, Contended, ShardTypes
<1> HIDE DEF r
<1>5. infos' \in [Ids -> Records] /\ infos'[id] = r /\ \A i \in Ids \ {id} : infos'[i] = infos[i]
  BY <1>1, <1>2, <1>3 DEF ShardTypes, Records
<1>6. /\ job' \in JobRec /\ job'.id = id /\ job'.device = job.device /\ job'.read = r
      /\ job'.pc \in {"insert", "update"} /\ (job'.pc = "insert" <=> job.read = Nil)
  BY <1>1, <1>2, <1>3 DEF ShardTypes, JobRec, Records, Busy, Copying, Caching, Cleaning
<1>7. \A c \in Clients : id \notin disturbed' => ~HalfClient(c, id)
  BY <1>4 DEF Halfway, HalfClient
<1>8. id \notin disturbed' => (job.read = Nil => data[id] = {}) /\ \A o \in data[id] : o[1] \in r.kinds
  BY <1>1, <1>2, <1>4 DEF LinksInv
<1> HIDE DEF id
<1>9. ShardTypes'
  BY <1>1, <1>2, <1>3, <1>4, <1>5, <1>6 DEF ShardTypes, Busy, Copying, Caching, Cleaning
<1>10. RecordsInv'
  BY <1>1, <1>2, <1>3, <1>5, <1>6 DEF RecordsInv, Copying, Caching, Cleaning, id
<1>11. WritersInv'
  BY <1>1, <1>2, <1>3, <1>4, <1>5, <1>6, <1>7 DEF WritersInv, HalfJob, HalfClient, Caching, Putting, id
<1>12. LinksInv'
  BY <1>1, <1>2, <1>3, <1>4, <1>5, <1>6, <1>8 DEF LinksInv, id
<1>13. OwnersInv'
  BY <1>1, <1>2, <1>4, <1>5, <1>6 DEF OwnersInv, Busy, Copying, Caching, Cleaning, id
<1>14. PluggedInv'
  BY <1>1, <1>2, <1>3, <1>4, <1>5, <1>6 DEF PluggedInv, id
<1>15. CacheInv'
  BY <1>1, <1>3, <1>4, <1>5, <1>6 DEF CacheInv, Halfway, Caching, id
<1>16. VersionsInv'
  BY <1>1, <1>3, <1>6 DEF VersionsInv, Cleaning, Current, id
<1> QED BY <1>9, <1>10, <1>11, <1>12, <1>13, <1>14, <1>15, <1>16

\* A transient shard goes with its objects and its record, and is still in the cache.
LEMMA RemoveTransientShardKeeps ==
  ASSUME ShardInv, RemoveTransientShard
  PROVE  ShardInv'
<1> USE DEF ShardInv
<1> DEFINE id == job.id
<1>1. job.pc = "record" /\ id \in Ids /\ job.device \in Devices /\ id \notin mounted /\ job.read # Nil
      /\ infos[id] # Nil
  BY DEF RemoveTransientShard, ToRemove, ShardTypes, RecordsInv, Busy, Copying
<1>2. /\ infos' = [infos EXCEPT ![id] = Nil]
      /\ data' = [data EXCEPT ![id] = {}]
      /\ hashes' = [hashes EXCEPT ![id] = [k \in Kinds |-> 0]]
      /\ unrecorded' = unrecorded \ {id}
      /\ job' = [job EXCEPT !.pc = "erase", !.read = Nil]
      /\ UNCHANGED <<cache, mounted, media, client, version, overtaken>>
  BY DEF RemoveTransientShard
<1>3. /\ disturbed' \in SUBSET Ids /\ disturbed \subseteq disturbed'
      /\ id \notin disturbed' => infos[id] = job.read /\ ~Halfway(id)
  BY <1>1 DEF RemoveTransientShard, Disturb, Contended, ShardTypes
<1>4. infos' \in [Ids -> Records] /\ infos'[id] = Nil /\ \A i \in Ids \ {id} : infos'[i] = infos[i]
  BY <1>1, <1>2 DEF ShardTypes, Records
<1>5. data' \in [Ids -> SUBSET Objects] /\ data'[id] = {} /\ \A i \in Ids \ {id} : data'[i] = data[i]
  BY <1>1, <1>2 DEF ShardTypes
<1>6. hashes' \in [Ids -> [Kinds -> Nat]] /\ \A i \in Ids \ {id} : hashes'[i] = hashes[i]
  BY <1>1, <1>2 DEF ShardTypes
<1>7. job' \in JobRec /\ job'.id = id /\ job'.device = job.device /\ job'.read = Nil /\ job'.pc = "erase"
  BY <1>1, <1>2 DEF ShardTypes, JobRec, Records, Busy, Copying, Caching, Cleaning
<1>8. \A c \in Clients : id \notin disturbed' => ~HalfClient(c, id)
  BY <1>3 DEF Halfway, HalfClient
<1> HIDE DEF id
<1>9. ShardTypes'
  BY <1>1, <1>2, <1>3, <1>4, <1>5, <1>6, <1>7 DEF ShardTypes, Busy, Copying, Caching, Cleaning
<1>10. RecordsInv'
  BY <1>1, <1>2, <1>4, <1>7 DEF RecordsInv, Copying, Caching, Cleaning, id
<1>11. WritersInv'
  BY <1>1, <1>2, <1>3, <1>4, <1>7, <1>8 DEF WritersInv, HalfJob, HalfClient, Caching, Putting, id
<1>12. LinksInv'
  BY <1>1, <1>2, <1>3, <1>4, <1>5, <1>7 DEF LinksInv, id
<1>13. OwnersInv'
  BY <1>1, <1>3, <1>4, <1>7 DEF OwnersInv, Busy, Copying, Caching, Cleaning, id
<1>14. PluggedInv'
  BY <1>1, <1>2, <1>3, <1>4, <1>7 DEF PluggedInv, id
<1>15. CacheInv'
  BY <1>1, <1>2, <1>3, <1>4, <1>7 DEF CacheInv, Halfway, Caching, id
<1>16. VersionsInv'
  BY <1>1, <1>2, <1>5, <1>6, <1>7 DEF VersionsInv, Cleaning, Current, id
<1> QED BY <1>9, <1>10, <1>11, <1>12, <1>13, <1>14, <1>15, <1>16

\* The record of an unmounted shard is not written: the shard counts as unrecorded.
LEMMA InactiveFailsKeeps ==
  ASSUME ShardInv, NEW removed \in BOOLEAN, InactiveFails(removed)
  PROVE  ShardInv'
<1> USE DEF ShardInv
<1> DEFINE id == job.id
<1>1. job.pc = "record" /\ id \in Ids /\ job.device \in Devices /\ id \notin mounted
  BY DEF InactiveFails, ShardTypes, RecordsInv, Busy, Copying
<1>2. /\ unrecorded' = unrecorded \cup {id} /\ media' = media \ {job.device} /\ job' = NextDevice
      /\ UNCHANGED <<infos, cache, mounted, client, version, disturbed, overtaken>>
  BY DEF InactiveFails
<1>3. job' \in JobRec /\ job'.pc = "next" /\ job'.device = Nil
  BY <1>2, NextType
<1>4. /\ data' \in [Ids -> SUBSET Objects] /\ \A i \in Ids \ {id} : data'[i] = data[i]
      /\ data'[id] = {} \/ (data' = data /\ hashes' = hashes)
  BY <1>1 DEF InactiveFails, ShardTypes
<1>5. hashes' \in [Ids -> [Kinds -> Nat]] /\ \A i \in Ids \ {id} : hashes'[i] = hashes[i]
  BY <1>1 DEF InactiveFails, ShardTypes
<1>6. disturbed = {} => \A i \in mounted : infos[i] # Nil => infos[i].device # job.device
  BY <1>1 DEF OwnersInv, RecordsInv, ShardTypes, Busy, Copying
<1> HIDE DEF id
<1>9. ShardTypes'
  BY <1>1, <1>2, <1>3, <1>4, <1>5 DEF ShardTypes, Busy, Copying, Caching, Cleaning
<1>10. RecordsInv'
  BY <1>1, <1>2, <1>3 DEF RecordsInv, Copying, Caching, Cleaning, id
<1>11. WritersInv'
  BY <1>1, <1>2, <1>3 DEF WritersInv, HalfJob, HalfClient, Caching
<1>12. LinksInv'
  BY <1>1, <1>2, <1>3, <1>4 DEF LinksInv
<1>13. OwnersInv'
  BY <1>2, <1>3 DEF OwnersInv, Busy, Copying, Caching, Cleaning
<1>14. PluggedInv'
  BY <1>1, <1>2, <1>3, <1>6 DEF PluggedInv, ShardTypes, id
<1>15. CacheInv'
  BY <1>1, <1>2, <1>3 DEF CacheInv, Halfway
<1>16. VersionsInv'
  <2>1. \A i \in Ids : data'[i] \subseteq data[i] /\ (data'[i] = {} \/ hashes'[i] = hashes[i])
    BY <1>4, <1>5
  <2>2. \A s \in mounted : s \in Ids /\ hashes'[s] = hashes[s] /\ data'[s] = data[s]
    BY <1>1, <1>4, <1>5 DEF ShardTypes
  <2> QED BY <1>1, <1>2, <1>3, <2>1, <2>2 DEF VersionsInv, Cleaning, Current
<1> QED BY <1>9, <1>10, <1>11, <1>12, <1>13, <1>14, <1>15, <1>16

\* The cache follows the record that was stored.
LEMMA CacheInactiveKeeps ==
  ASSUME ShardInv, CacheInactive
  PROVE  ShardInv'
<1> USE DEF ShardInv
<1> DEFINE id == job.id
<1>1. job.pc \in Caching /\ id \in Ids /\ job.device \in Devices /\ id \notin mounted /\ job.read \in Records
  BY DEF CacheInactive, ShardTypes, RecordsInv, JobRec, Busy, Caching
<1>2. media' = media \ {job.device} /\ job' = NextDevice
      /\ UNCHANGED <<infos, mounted, client, data, hashes, version, disturbed, unrecorded, overtaken>>
  BY DEF CacheInactive
<1>3. job' \in JobRec /\ job'.pc = "next" /\ job'.device = Nil
  BY <1>2, NextType
<1>4. (job.read = Nil <=> infos[id] = Nil) /\ (job.pc = "erase" <=> job.read = Nil)
  BY <1>1, NilAssumption DEF RecordsInv, ShardTypes, Caching
<1>5. cache' = [cache EXCEPT ![id] = job.read]
  <2>1. CASE job.pc = "insert"
    BY <2>1 DEF CacheInactive, CachePut, RecordsInv
  <2>2. CASE job.pc = "update"
    <3>1. cache[id] # Nil
      BY <1>1, <2>2 DEF RecordsInv
    <3> QED BY <2>2, <3>1 DEF CacheInactive, CacheUpdate
  <2>3. CASE job.pc = "erase"
    BY <1>4, <2>3 DEF CacheInactive, CacheDel
  <2> QED BY <1>1, <2>1, <2>2, <2>3 DEF Caching
<1>6. cache' \in [Ids -> Records] /\ cache'[id] = job.read /\ \A i \in Ids \ {id} : cache'[i] = cache[i]
  BY <1>1, <1>5 DEF ShardTypes
<1>7. id \notin disturbed => infos[id] = job.read /\ \A c \in Clients : ~HalfClient(c, id)
  BY <1>1 DEF WritersInv, HalfJob
<1>8. disturbed = {} => \A i \in mounted : infos[i] # Nil => infos[i].device # job.device
  BY <1>1, <1>4 DEF OwnersInv, ShardTypes, Busy, Caching
<1> HIDE DEF id
<1>9. ShardTypes'
  BY <1>1, <1>2, <1>3, <1>6 DEF ShardTypes, Busy, Copying, Caching, Cleaning
<1>10. RecordsInv'
  BY <1>1, <1>2, <1>3, <1>4, <1>6 DEF RecordsInv, Copying, Caching, Cleaning, id
<1>11. WritersInv'
  <2>1. \A c \in Clients : client[c].id = id /\ id \notin disturbed => ~(client[c].pc = "commit" /\ client[c].read # Nil)
    BY <1>7 DEF HalfClient
  <2>2. \A c \in Clients : client[c].pc = "commit" /\ client[c].id \notin disturbed /\ client[c].read # Nil =>
           client[c].id \in Ids \ {id}
    BY <2>1 DEF ShardTypes
  <2>3. \A c \in Clients : client[c].pc = "commit" /\ client[c].id \notin disturbed /\ client[c].read # Nil =>
           cache'[client[c].id] = LinkedKinds(client[c].read, client[c].kind)
    BY <1>6, <2>2 DEF WritersInv
  <2> QED BY <1>2, <1>3, <2>3 DEF WritersInv, HalfJob, HalfClient, Caching
<1>12. LinksInv'
  BY <1>1, <1>2, <1>3, <1>4, <1>6, <1>7 DEF LinksInv, id
<1>13. OwnersInv'
  BY <1>2, <1>3 DEF OwnersInv, Busy, Copying, Caching, Cleaning
<1>14. PluggedInv'
  BY <1>1, <1>2, <1>3, <1>8 DEF PluggedInv, ShardTypes, Caching
<1>15. CacheInv'
  BY <1>1, <1>2, <1>3, <1>6, <1>7 DEF CacheInv, Halfway, Caching, id
<1>16. VersionsInv'
  BY <1>1, <1>2, <1>3 DEF VersionsInv, Cleaning, Caching, Current
<1> QED BY <1>9, <1>10, <1>11, <1>12, <1>13, <1>14, <1>15, <1>16

-----------------------------------------------------------------------------
(* After a mount *)

\* Only the mounted shard is visible while there is one.
LEMMA OneMounted ==
  ASSUME ShardInv, ~overtaken, job.pc \in Cleaning
  PROVE  job.id \in mounted /\ mounted = {job.id} /\ Visible \subseteq {job.id}
         /\ job.id \in Ids /\ job.device \in Devices
<1>1. job.id \in mounted /\ job.id \in Ids /\ job.device \in Devices
  BY DEF ShardInv, RecordsInv, ShardTypes, Busy
<1>2. \A a, b \in mounted : a = b
  BY DEF ShardInv, VersionsInv
<1> QED BY <1>1, <1>2 DEF Visible

\* The hashes of the kinds.
LEMMA KindHashesType ==
  ASSUME ShardTypes, job.id \in Ids
  PROVE  KindHashes \in SUBSET (Ids \X Kinds \X Nat)
  BY DEF KindHashes, ShardTypes

\* The hashes that are read are those of the shard.
LEMMA LoadHashesKeeps ==
  ASSUME ShardInv, NEW pc \in {"drop", "hashes", "leaked"}, LoadHashes(pc)
  PROVE  ShardInv'
<1> USE DEF ShardInv
<1> DEFINE todo == IF pc = "drop" THEN {<<i, k, hashes[i][k]>> : i \in Visible, k \in Kinds} ELSE KindHashes
<1>1. /\ job.pc = "garbage" /\ job' = [job EXCEPT !.pc = pc, !.todo = todo]
      /\ overtaken' = (overtaken \/ pc # "drop" \/ job.id \notin Visible)
      /\ UNCHANGED <<infos, cache, mounted, media, client, data, hashes, version, disturbed, unrecorded>>
  BY DEF LoadHashes
<1>2. job.id \in Ids /\ job.device \in Devices
  BY <1>1 DEF ShardTypes, Busy, Cleaning
<1>3. todo \in SUBSET (Ids \X Kinds \X Nat)
  <2>1. Visible \subseteq Ids
    BY DEF Visible, ShardTypes
  <2>2. {<<i, k, hashes[i][k]>> : i \in Visible, k \in Kinds} \in SUBSET (Ids \X Kinds \X Nat)
    BY <2>1 DEF ShardTypes
  <2> QED BY <1>2, <2>2, KindHashesType
<1>4. ~overtaken' => todo = {<<i, k, hashes[i][k]>> : i \in {job.id}, k \in Kinds}
  <2> SUFFICES ASSUME ~overtaken' PROVE todo = {<<i, k, hashes[i][k]>> : i \in {job.id}, k \in Kinds}
    OBVIOUS
  <2>1. ~overtaken /\ pc = "drop" /\ job.id \in Visible
    BY <1>1
  <2>2. Visible = {job.id}
    BY <1>1, <2>1, OneMounted DEF Cleaning
  <2> QED BY <2>1, <2>2
<1>5. ~overtaken' => /\ \A h \in todo : h[1] = job.id /\ h[3] = hashes[job.id][h[2]]
                     /\ \A k \in Kinds : <<job.id, k, hashes[job.id][k]>> \in todo
  <2> HIDE DEF todo
  <2> QED BY <1>4
<1> HIDE DEF todo
<1>6. /\ job' \in JobRec /\ job'.pc = pc /\ job'.id = job.id /\ job'.device = job.device /\ job'.todo = todo
      /\ job'.read = job.read
  BY <1>1, <1>3 DEF ShardTypes, JobRec, Busy, Copying, Caching, Cleaning
<1>7. VersionsInv'
  <2>1. ASSUME ~overtaken' PROVE ~overtaken /\ pc = "drop"
    BY <1>1, <2>1
  <2> QED BY <1>1, <1>4, <1>5, <1>6, <2>1 DEF VersionsInv, Cleaning, Current
<1> QED BY <1>1, <1>6, <1>7, AwayKeeps DEF Away, Busy, Copying, Caching, Cleaning, ShardTypes

\* A kind whose recorded version is the present one, or that has none, has no
\* outdated objects.
LEMMA KeepHashKeeps ==
  ASSUME ShardInv, NEW h \in job.todo, KeepHash(h)
  PROVE  ShardInv'
<1> USE DEF ShardInv
<1>1. /\ job.pc = "drop" /\ ~Stale(h) /\ job' = [job EXCEPT !.todo = @ \ {h}]
      /\ UNCHANGED <<infos, cache, mounted, media, client, data, hashes, version, disturbed, unrecorded, overtaken>>
  BY DEF KeepHash
<1>2. /\ job' \in JobRec /\ job'.pc = "drop" /\ job'.id = job.id /\ job'.device = job.device
      /\ job'.todo = job.todo \ {h}
  BY <1>1 DEF ShardTypes, JobRec
<1>3. VersionsInv'
  <2> SUFFICES ASSUME ~overtaken PROVE VersionsInv'
    BY <1>1 DEF VersionsInv
  <2>1. job.id \in Ids /\ mounted = {job.id}
    BY <1>1, OneMounted DEF Cleaning
  <2>2. h \in Ids \X Kinds \X Nat /\ h[1] = job.id /\ h[3] = hashes[job.id][h[2]]
    BY <1>1 DEF VersionsInv, ShardTypes, JobRec
  <2>3. \A o \in data[job.id] : o \in Objects /\ (o[2] = hashes[job.id][o[1]] \/ o[2] = version[o[1]])
    BY <1>1, <2>1 DEF VersionsInv, ShardTypes
  <2>4. Current(job.id, h[2])
    BY <1>1, <2>2, <2>3 DEF Current, Stale, Objects
  <2>5. ASSUME NEW k \in Kinds
        PROVE  Current(job.id, k) \/ <<job.id, k, hashes[job.id][k]>> \in job.todo \ {h}
    <3>1. CASE k = h[2]
      BY <2>4, <3>1
    <3>2. CASE k # h[2]
      <4>1. <<job.id, k, hashes[job.id][k]>> # h
        BY <2>2, <3>2
      <4> QED BY <1>1, <4>1 DEF VersionsInv
    <3> QED BY <3>1, <3>2
  <2> QED BY <1>1, <1>2, <2>5 DEF VersionsInv, Cleaning, Current
<1> QED BY <1>1, <1>2, <1>3, AwayKeeps DEF Away, Busy, Copying, Caching, Cleaning, ShardTypes

\* Objects of a shard go while the job is at no record, and hashes change.
LEMMA ObjectsGoKeeps ==
  ASSUME ShardInv, Away(job), Away(job)', job' \in JobRec,
         job'.pc \in Busy => job.pc \in Busy /\ job'.id = job.id /\ job'.device = job.device,
         job'.pc \notin Busy => job'.device = Nil, job'.pc # "link",
         data' \in [Ids -> SUBSET Objects], \A i \in Ids : data'[i] \subseteq data[i],
         hashes' \in [Ids -> [Kinds -> Nat]],
         UNCHANGED <<infos, cache, mounted, media, client, version, disturbed, unrecorded>>,
         overtaken' \in BOOLEAN, overtaken => overtaken', VersionsInv'
  PROVE  ShardInv'
<1> USE DEF ShardInv
<1>1. job.pc \in Busy => job.id \in Ids /\ job.device \in Devices
  BY DEF ShardTypes
<1>2. ShardTypes'
  BY <1>1 DEF ShardTypes, Away, Busy, Copying, Caching, Cleaning
<1>3. RecordsInv'
  BY DEF RecordsInv, Away, Busy, Copying, Caching, Cleaning
<1>4. WritersInv'
  BY DEF WritersInv, HalfJob, HalfClient, Away, Caching
<1>5. LinksInv' /\ OwnersInv'
  BY DEF LinksInv, OwnersInv, Away, Busy, Copying, Caching
<1>6. PluggedInv'
  BY DEF PluggedInv, Away, Copying
<1>7. CacheInv'
  BY DEF CacheInv, Halfway, Away, Caching
<1> QED BY <1>2, <1>3, <1>4, <1>5, <1>6, <1>7

\* The objects of a changed kind are dropped, and its hash with them.
LEMMA DelKindDataKeeps ==
  ASSUME ShardInv, NEW h \in job.todo, DelKindData(h)
  PROVE  ShardInv'
<1> USE DEF ShardInv
<1>1. /\ job.pc = "drop" /\ job' = [job EXCEPT !.todo = @ \ {h}]
      /\ data' = IF job.id \in Visible THEN [data EXCEPT ![job.id] = @ \ OfKind(job.id, h[2])] ELSE data
      /\ hashes' = [hashes EXCEPT ![h[1]][h[2]] = 0]
      /\ overtaken' = (overtaken \/ job.id \notin Visible)
      /\ UNCHANGED <<infos, cache, mounted, media, client, version, disturbed, unrecorded>>
  BY DEF DelKindData
<1>2. /\ job' \in JobRec /\ job'.pc = "drop" /\ job'.id = job.id /\ job'.device = job.device
      /\ job'.todo = job.todo \ {h} /\ job.id \in Ids /\ h \in Ids \X Kinds \X Nat
  BY <1>1 DEF ShardTypes, JobRec, Busy, Cleaning
<1>3. data' \in [Ids -> SUBSET Objects] /\ \A i \in Ids : data'[i] \subseteq data[i]
  BY <1>1, <1>2 DEF ShardTypes
<1>4. hashes' \in [Ids -> [Kinds -> Nat]]
  BY <1>1, <1>2 DEF ShardTypes
<1>5. VersionsInv'
  <2> SUFFICES ASSUME ~overtaken' PROVE VersionsInv'
    BY DEF VersionsInv
  <2>1. ~overtaken /\ job.id \in Visible
    BY <1>1
  <2>2. mounted = {job.id}
    BY <1>1, <2>1, OneMounted DEF Cleaning
  <2>3. h[1] = job.id /\ h[3] = hashes[job.id][h[2]]
    BY <1>1, <2>1 DEF VersionsInv
  <2>4. /\ data'[job.id] = data[job.id] \ OfKind(job.id, h[2])
        /\ \A i \in Ids \ {job.id} : data'[i] = data[i] /\ hashes'[i] = hashes[i]
        /\ \A k \in Kinds \ {h[2]} : hashes'[job.id][k] = hashes[job.id][k]
    BY <1>1, <1>2, <2>1, <2>3 DEF ShardTypes
  <2>5. ASSUME NEW i \in Ids, NEW o \in data'[i]
        PROVE  o[2] = hashes'[i][o[1]] \/ (i = job.id /\ o[2] = version[o[1]])
    <3>1. o \in data[i] /\ o[1] \in Kinds
      BY <1>3, <2>5 DEF ShardTypes, Objects
    <3>2. o[2] = hashes[i][o[1]] \/ (i = job.id /\ o[2] = version[o[1]])
      BY <2>1, <3>1 DEF VersionsInv
    <3>3. i = job.id => o[1] # h[2]
      BY <2>4, <3>1 DEF OfKind
    <3> QED BY <2>4, <3>1, <3>2, <3>3
  <2>6. ASSUME NEW g \in job.todo \ {h} PROVE g[1] = job.id /\ g[3] = hashes'[job.id][g[2]]
    <3>1. g \in Ids \X Kinds \X Nat
      BY DEF ShardTypes, JobRec
    <3>2. g[1] = job.id /\ g[3] = hashes[job.id][g[2]]
      BY <1>1, <2>1 DEF VersionsInv
    <3>3. g[2] # h[2]
      BY <1>2, <2>3, <2>6, <3>1, <3>2
    <3> QED BY <2>4, <3>1, <3>2, <3>3
  <2>7. ASSUME NEW k \in Kinds
        PROVE  Current(job.id, k)' \/ <<job.id, k, hashes'[job.id][k]>> \in job.todo \ {h}
    <3>1. CASE k = h[2]
      BY <1>1, <1>2, <2>4, <3>1 DEF Current, OfKind
    <3>2. CASE k # h[2]
      <4>1. <<job.id, k, hashes[job.id][k]>> # h
        BY <1>2, <3>2
      <4>2. Current(job.id, k) \/ <<job.id, k, hashes[job.id][k]>> \in job.todo
        BY <1>1, <2>1 DEF VersionsInv
      <4>3. Current(job.id, k) => Current(job.id, k)'
        BY <1>1, <1>2, <1>3 DEF Current
      <4> QED BY <2>4, <3>2, <4>1, <4>2, <4>3
    <3> QED BY <3>1, <3>2
  <2> QED BY <1>1, <1>2, <2>1, <2>2, <2>5, <2>6, <2>7 DEF VersionsInv, Cleaning
<1> QED BY <1>1, <1>2, <1>3, <1>4, <1>5, ObjectsGoKeeps DEF Away, Busy, Copying, Caching, Cleaning, ShardTypes

\* Some objects are dropped; nothing is said of versions after that.
LEMMA DropObjectStopsKeeps ==
  ASSUME ShardInv, NEW h \in job.todo, NEW pc \in {"hashes", "blocking", "leaked"}, NEW gone,
         DropObjectStops(h, gone, pc)
  PROVE  ShardInv'
<1> USE DEF ShardInv
<1>1. /\ job.pc = "drop" /\ job' = [job EXCEPT !.pc = pc, !.todo = KindHashes]
      /\ data' = [data EXCEPT ![job.id] = @ \ gone] /\ overtaken' = TRUE
      /\ UNCHANGED <<infos, cache, mounted, media, client, hashes, version, disturbed, unrecorded>>
  BY DEF DropObjectStops
<1>2. job.id \in Ids
  BY <1>1 DEF ShardTypes, Busy, Cleaning
<1>3. /\ job' \in JobRec /\ job'.pc = pc /\ job'.id = job.id /\ job'.device = job.device
  BY <1>1, <1>2, KindHashesType DEF ShardTypes, JobRec, Busy, Copying, Caching, Cleaning
<1>4. data' \in [Ids -> SUBSET Objects] /\ \A i \in Ids : data'[i] \subseteq data[i]
  BY <1>1, <1>2 DEF ShardTypes
<1>5. VersionsInv'
  BY <1>1 DEF VersionsInv
<1> QED BY <1>1, <1>3, <1>4, <1>5, ObjectsGoKeeps DEF Away, Busy, Copying, Caching, Cleaning, ShardTypes

\* When all hashes have been looked at, every object is of the present version.
LEMMA GarbageDoneKeeps ==
  ASSUME ShardInv, GarbageDone
  PROVE  ShardInv'
<1> USE DEF ShardInv
<1>1. /\ job.pc = "drop" /\ job.todo = {} /\ job' = [job EXCEPT !.pc = "hashes", !.todo = KindHashes]
      /\ UNCHANGED <<infos, cache, mounted, media, client, data, hashes, version, disturbed, unrecorded, overtaken>>
  BY DEF GarbageDone
<1>2. job.id \in Ids
  BY <1>1 DEF ShardTypes, Busy, Cleaning
<1>3. /\ job' \in JobRec /\ job'.pc = "hashes" /\ job'.id = job.id /\ job'.device = job.device
      /\ job'.todo = KindHashes
  BY <1>1, <1>2, KindHashesType DEF ShardTypes, JobRec, Busy, Copying, Caching, Cleaning
<1>4. VersionsInv'
  <2> SUFFICES ASSUME ~overtaken PROVE VersionsInv'
    BY <1>1 DEF VersionsInv
  <2>1. mounted = {job.id}
    BY <1>1, OneMounted DEF Cleaning
  <2>2. \A k \in Kinds : Current(job.id, k)
    BY <1>1 DEF VersionsInv
  <2>3. \A h \in KindHashes : h[1] = job.id /\ h[3] = version[h[2]]
    BY DEF KindHashes
  <2>4. \A k \in Kinds : <<job.id, k, version[k]>> \in KindHashes
    BY DEF KindHashes
  <2> QED BY <1>1, <1>3, <2>1, <2>2, <2>3, <2>4 DEF VersionsInv, Cleaning, Current
<1> QED BY <1>1, <1>3, <1>4, AwayKeeps DEF Away, Busy, Copying, Caching, Cleaning, ShardTypes

\* The copy of the record that a link starts from.
LEMMA ReadHashLinkKeeps ==
  ASSUME ShardInv, ReadHashLink
  PROVE  ShardInv'
<1> USE DEF ShardInv
<1>1. /\ job.pc = "hashes" /\ cache[job.id] # Nil
      /\ \/ job' = [job EXCEPT !.pc = "save", !.read = Nil]
         \/ job' = [job EXCEPT !.pc = "link", !.read = cache[job.id]]
      /\ UNCHANGED <<infos, cache, mounted, media, client, data, hashes, version, disturbed, unrecorded, overtaken>>
  BY DEF ReadHashLink, IsIdExist
<1>2. job.id \in Ids /\ cache[job.id] \in ShardInfo
  BY <1>1 DEF ShardTypes, Records, Busy, Cleaning
<1>3. /\ job' \in JobRec /\ job'.id = job.id /\ job'.device = job.device /\ job'.todo = job.todo
      /\ \/ job'.pc = "save" /\ job'.read = Nil
         \/ job'.pc = "link" /\ job'.read \in ShardInfo
  BY <1>1, <1>2 DEF ShardTypes, JobRec, Records, Busy, Copying, Caching, Cleaning
<1>4. VersionsInv'
  BY <1>1, <1>3 DEF VersionsInv, Cleaning, Current
<1> QED BY <1>1, <1>3, <1>4, AwayKeeps DEF Away, Busy, Copying, Caching, Cleaning, ShardTypes

\* The link is in the cache and not yet stored.
LEMMA LinkHashKindKeeps ==
  ASSUME ShardInv, LinkHashKind
  PROVE  ShardInv'
<1> USE DEF ShardInv
<1> DEFINE id == job.id
           r == LinkedKinds(job.read, HashKind)
<1>1. /\ job.pc = "link" /\ infos[id] # Nil /\ id \in Ids /\ job.device \in Devices /\ id \in mounted
      /\ job.read \in ShardInfo
  BY DEF LinkHashKind, ShardTypes, RecordsInv, Busy, Cleaning
<1>2. r \in ShardInfo \ {Nil} /\ r.kinds = job.read.kinds \cup {HashKind} /\ job.read # Nil
  BY <1>1, LinkChanged, NilAssumption
<1> HIDE DEF r
<1>3. cache' = [cache EXCEPT ![id] = r]
  <2>1. cache[id] # Nil
    BY <1>1 DEF RecordsInv
  <2> QED BY <2>1 DEF LinkHashKind, CacheUpdate, r
<1>4. /\ job' = [job EXCEPT !.pc = "save"]
      /\ UNCHANGED <<infos, mounted, media, client, data, hashes, version, unrecorded, overtaken>>
  BY DEF LinkHashKind
<1>5. /\ disturbed' \in SUBSET Ids /\ disturbed \subseteq disturbed'
      /\ id \notin disturbed' => infos[id] = job.read /\ ~Halfway(id)
  BY <1>1 DEF LinkHashKind, Disturb, Contended, ShardTypes
<1>6. cache' \in [Ids -> Records] /\ cache'[id] = r /\ \A i \in Ids \ {id} : cache'[i] = cache[i]
  BY <1>1, <1>2, <1>3 DEF ShardTypes, Records
<1>7. /\ job' \in JobRec /\ job'.id = id /\ job'.device = job.device /\ job'.read = job.read /\ job'.pc = "save"
      /\ job'.todo = job.todo
  BY <1>1, <1>4 DEF ShardTypes, JobRec, Records, Busy, Copying, Caching, Cleaning
<1>8. \A c \in Clients : id \notin disturbed' => ~HalfClient(c, id)
  BY <1>5 DEF Halfway, HalfClient
<1> HIDE DEF id
<1>9. ShardTypes'
  BY <1>1, <1>4, <1>5, <1>6, <1>7 DEF ShardTypes, Busy, Copying, Caching, Cleaning
<1>10. RecordsInv'
  BY <1>1, <1>2, <1>4, <1>6, <1>7 DEF RecordsInv, Copying, Caching, Cleaning, id
<1>11. WritersInv'
  <2>1. \A c \in Clients : client[c].pc = "commit" /\ client[c].id \notin disturbed' /\ client[c].read # Nil =>
           client[c].id \in Ids \ {id}
    BY <1>8 DEF HalfClient, ShardTypes
  <2>2. \A c \in Clients : client[c].pc = "commit" /\ client[c].id \notin disturbed' /\ client[c].read # Nil =>
           cache'[client[c].id] = LinkedKinds(client[c].read, client[c].kind)
    BY <1>5, <1>6, <2>1 DEF WritersInv
  <2>3. \A i \in Ids \ disturbed' : \A c \in Clients : ~(HalfClient(c, i)' /\ HalfJob(i)')
    BY <1>4, <1>7, <1>8 DEF HalfClient, HalfJob
  <2>4. \A i \in Ids \ disturbed' : \A c, e \in Clients : HalfClient(c, i)' /\ HalfClient(e, i)' => c = e
    BY <1>4, <1>5 DEF HalfClient, WritersInv
  <2> QED BY <1>1, <1>4, <1>5, <1>6, <1>7, <2>2, <2>3, <2>4 DEF WritersInv, Caching, id, r
<1>12. LinksInv'
  BY <1>1, <1>2, <1>4, <1>5, <1>6, <1>7 DEF LinksInv, id
<1>13. OwnersInv'
  BY <1>1, <1>4, <1>5, <1>7 DEF OwnersInv, Busy, Copying, Caching, Cleaning, id
<1>14. PluggedInv'
  BY <1>1, <1>4, <1>5, <1>7 DEF PluggedInv
<1>15. CacheInv'
  BY <1>1, <1>2, <1>4, <1>5, <1>6, <1>7 DEF CacheInv, Halfway, Caching, id
<1>16. VersionsInv'
  BY <1>1, <1>4, <1>7 DEF VersionsInv, Cleaning, Current, id
<1> QED BY <1>9, <1>10, <1>11, <1>12, <1>13, <1>14, <1>15, <1>16

\* The stored record gets the link that the cache has, and the hash is the present
\* version of the kind, which all objects have.
LEMMA SaveHashKeeps ==
  ASSUME ShardInv, NEW h \in job.todo, NEW target \in Ids, SaveHash(h, target)
  PROVE  ShardInv'
<1> USE DEF ShardInv
<1> DEFINE id == job.id
           r == LinkedKinds(job.read, HashKind)
<1>1. job.pc = "save" /\ id \in Ids /\ job.device \in Devices /\ id \in mounted /\ h \in Ids \X Kinds \X Nat
  BY DEF SaveHash, ShardTypes, RecordsInv, JobRec, Busy, Cleaning
<1>2. job.read # Nil => /\ r \in ShardInfo \ {Nil} /\ r.kinds = job.read.kinds \cup {HashKind}
                        /\ r.active = job.read.active /\ r.device = job.read.device /\ infos[id] # Nil
  <2>1. job.read # Nil => job.read \in ShardInfo
    BY DEF ShardTypes, JobRec, Records
  <2>2. job.read # Nil => infos[id] # Nil
    BY <1>1 DEF WritersInv
  <2> QED BY <2>1, <2>2, LinkChanged
<1> HIDE DEF r
<1>3. /\ infos' = IF job.read = Nil THEN infos ELSE [infos EXCEPT ![id] = r]
      /\ hashes' = [hashes EXCEPT ![target][h[2]] = h[3]]
      /\ job' = [job EXCEPT !.pc = "hashes", !.todo = @ \ {h}, !.read = Nil]
      /\ UNCHANGED <<cache, mounted, media, client, data, version, disturbed, unrecorded, overtaken>>
  BY DEF SaveHash, r
<1>4. job.read # Nil /\ id \notin disturbed =>
        infos[id] = job.read /\ cache[id] = r /\ \A c \in Clients : ~HalfClient(c, id)
  BY <1>1 DEF WritersInv, HalfJob, r
<1>5. /\ infos' \in [Ids -> Records] /\ \A i \in Ids \ {id} : infos'[i] = infos[i]
      /\ job.read = Nil => infos' = infos
      /\ job.read # Nil => infos'[id] = r /\ infos'[id] # Nil
  BY <1>1, <1>2, <1>3 DEF ShardTypes, Records
<1>6. hashes' \in [Ids -> [Kinds -> Nat]]
  BY <1>1, <1>3 DEF ShardTypes
<1>7. /\ job' \in JobRec /\ job'.id = id /\ job'.device = job.device /\ job'.read = Nil /\ job'.pc = "hashes"
      /\ job'.todo = job.todo \ {h}
  BY <1>1, <1>3 DEF ShardTypes, JobRec, Records, Busy, Copying, Caching, Cleaning
<1>8. \A i \in Ids \ disturbed : /\ infos'[i] = Nil <=> infos[i] = Nil
                                 /\ infos[i] # Nil => /\ infos'[i].device = infos[i].device
                                                      /\ infos'[i].active = infos[i].active
                                                      /\ infos[i].kinds \subseteq infos'[i].kinds
  BY <1>2, <1>4, <1>5
<1> HIDE DEF id
<1>9. ShardTypes'
  BY <1>1, <1>3, <1>5, <1>6, <1>7 DEF ShardTypes, Busy, Copying, Caching, Cleaning
<1>10. RecordsInv'
  BY <1>1, <1>2, <1>3, <1>5, <1>7 DEF RecordsInv, Copying, Caching, Cleaning, id
<1>11. WritersInv'
  <2>1. \A c \in Clients : client[c].pc \in {"cache", "commit"} => client[c].id \in Ids
    BY DEF ShardTypes
  <2>2. \A i \in Ids \ disturbed : i = id /\ (\E c \in Clients : HalfClient(c, i)) => infos' = infos
    BY <1>4, <1>5
  <2>3. \A c \in Clients : client[c].pc = "cache" /\ client[c].id \notin disturbed => infos'[client[c].id] = client[c].read
    BY <1>5, <2>1, <2>2 DEF WritersInv, HalfClient
  <2>4. \A c \in Clients : client[c].pc = "commit" /\ client[c].id \notin disturbed =>
        /\ infos'[client[c].id] # Nil
        /\ IF client[c].read = Nil THEN client[c].kind \in infos'[client[c].id].kinds
           ELSE infos'[client[c].id] = client[c].read
    BY <1>5, <1>8, <2>1, <2>2 DEF WritersInv, HalfClient
  <2>5. \A c \in Clients : client[c].pc = "commit" /\ client[c].read # Nil => infos'[client[c].id] # Nil
    BY <1>2, <1>5, <2>1 DEF WritersInv, id
  <2> QED BY <1>3, <1>7, <2>3, <2>4, <2>5 DEF WritersInv, HalfJob, HalfClient, Caching
<1>12. LinksInv'
  BY <1>1, <1>2, <1>3, <1>4, <1>5, <1>7, <1>8 DEF LinksInv, id
<1>13. OwnersInv'
  BY <1>1, <1>3, <1>7, <1>8 DEF OwnersInv, Busy, Copying, Caching, Cleaning, id
<1>14. PluggedInv'
  BY <1>1, <1>3, <1>7, <1>8 DEF PluggedInv, ShardTypes
<1>15. CacheInv'
  BY <1>1, <1>3, <1>4, <1>5, <1>7 DEF CacheInv, Halfway, Caching, id
<1>16. VersionsInv'
  <2> SUFFICES ASSUME ~overtaken PROVE VersionsInv'
    BY <1>3 DEF VersionsInv
  <2>1. mounted = {id} /\ Visible \subseteq {id}
    BY <1>1, OneMounted DEF Cleaning, id
  <2>2. target = id
    BY <2>1 DEF SaveHash, Holders, id
  <2>3. h[1] = id /\ h[3] = version[h[2]]
    BY <1>1 DEF VersionsInv, id
  <2>4. /\ hashes'[id][h[2]] = version[h[2]]
        /\ \A k \in Kinds \ {h[2]} : hashes'[id][k] = hashes[id][k]
        /\ \A i \in Ids \ {id} : hashes'[i] = hashes[i]
    BY <1>1, <1>3, <2>2, <2>3 DEF ShardTypes
  <2>5. \A k \in Kinds : Current(id, k)
    BY <1>1, <2>1 DEF VersionsInv
  <2>6. \A i \in Ids : \A o \in data[i] : o[2] = hashes'[i][o[1]] \/ (i = id /\ o[2] = version[o[1]])
    <3>1. \A o \in data[id] : o[2] = version[o[1]]
      BY <1>1, <2>5 DEF Current, ShardTypes, Objects
    <3>2. \A i \in Ids \ {id} : \A o \in data[i] : o[2] = hashes[i][o[1]]
      BY DEF VersionsInv, id
    <3> QED BY <2>4, <3>1, <3>2
  <2>7. \A g \in job.todo : g[1] = id /\ g[3] = version[g[2]]
    BY <1>1 DEF VersionsInv, id
  <2>8. ASSUME NEW k \in Kinds PROVE hashes'[id][k] = version[k] \/ <<id, k, version[k]>> \in job.todo \ {h}
    <3>1. CASE k = h[2]
      BY <2>4, <3>1
    <3>2. CASE k # h[2]
      <4>1. <<id, k, version[k]>> # h
        BY <3>2
      <4> QED BY <1>1, <2>4, <3>2, <4>1 DEF VersionsInv, id
    <3> QED BY <3>1, <3>2
  <2> QED BY <1>1, <1>3, <1>7, <2>1, <2>5, <2>6, <2>7, <2>8 DEF VersionsInv, Cleaning, Current
<1> QED BY <1>9, <1>10, <1>11, <1>12, <1>13, <1>14, <1>15, <1>16

\* A link in the cache that is not stored is counted as disturbed.
LEMMA SaveHashFailsKeeps ==
  ASSUME ShardInv, SaveHashFails
  PROVE  ShardInv'
<1> USE DEF ShardInv
<1>1. /\ job.pc \in {"hashes", "link", "save"} /\ job' = NextDevice /\ overtaken' = TRUE
      /\ UNCHANGED <<infos, cache, mounted, media, client, data, hashes, version, unrecorded>>
  BY DEF SaveHashFails
<1>2. job' \in JobRec /\ job'.pc = "next" /\ job'.device = Nil /\ job.id \in Ids
  BY <1>1, NextType DEF ShardTypes, Busy, Cleaning
<1>3. /\ disturbed' \in SUBSET Ids /\ disturbed \subseteq disturbed'
      /\ job.id \notin disturbed' => ~(job.pc = "save" /\ job.read # Nil)
  BY <1>2 DEF SaveHashFails, Disturb, ShardTypes
<1>4. ShardTypes'
  BY <1>1, <1>2, <1>3 DEF ShardTypes, Busy, Copying, Caching, Cleaning
<1>5. RecordsInv'
  BY <1>1, <1>2 DEF RecordsInv, Copying, Caching, Cleaning
<1>6. WritersInv'
  BY <1>1, <1>2, <1>3 DEF WritersInv, HalfJob, HalfClient, Caching
<1>7. LinksInv' /\ OwnersInv'
  BY <1>1, <1>2, <1>3 DEF LinksInv, OwnersInv, Busy, Copying, Caching, Cleaning
<1>8. PluggedInv'
  BY <1>1, <1>2, <1>3 DEF PluggedInv
<1>9. CacheInv'
  BY <1>1, <1>2, <1>3 DEF CacheInv, Halfway, Caching
<1>10. VersionsInv'
  BY <1>1 DEF VersionsInv
<1> QED BY <1>4, <1>5, <1>6, <1>7, <1>8, <1>9, <1>10

\* Every hash is the present version once all are saved.
LEMMA HashesDoneKeeps ==
  ASSUME ShardInv, HashesDone
  PROVE  ShardInv'
<1> USE DEF ShardInv
<1>1. /\ job.pc = "hashes" /\ job.todo = {} /\ job' = NextDevice
      /\ UNCHANGED <<infos, cache, mounted, media, client, data, hashes, version, disturbed, unrecorded, overtaken>>
  BY DEF HashesDone
<1>2. job' \in JobRec /\ job'.pc = "next" /\ job'.device = Nil
  BY <1>1, NextType
<1>3. VersionsInv'
  <2> SUFFICES ASSUME ~overtaken PROVE VersionsInv'
    BY <1>1 DEF VersionsInv
  <2>1. mounted = {job.id}
    BY <1>1, OneMounted DEF Cleaning
  <2>2. \A k \in Kinds : hashes[job.id][k] = version[k]
    BY <1>1 DEF VersionsInv
  <2>3. \A i \in Ids : \A o \in data[i] : o[1] \in Kinds
    BY DEF ShardTypes, Objects
  <2> QED BY <1>1, <1>2, <2>1, <2>2, <2>3 DEF VersionsInv, Cleaning, Current
<1> QED BY <1>1, <1>2, <1>3, AwayKeeps DEF Away, Busy, Copying, Caching, Cleaning, ShardTypes

\* A request that commits nothing leaves at most a link in the cache.
LEMMA AbortRequestKeeps ==
  ASSUME ShardInv, NEW linked \in BOOLEAN, AbortRequest(linked)
  PROVE  ShardInv'
<1> USE DEF ShardInv
<1> DEFINE id == job.id
<1>1. /\ job.pc \in {"blocking", "leaked"} /\ job' = NextDevice
      /\ UNCHANGED <<infos, mounted, media, client, data, hashes, version, unrecorded, overtaken>>
  BY DEF AbortRequest
<1>2. job' \in JobRec /\ job'.pc = "next" /\ job'.device = Nil /\ id \in Ids
  BY <1>1, NextType DEF ShardTypes, Busy, Cleaning
<1>3. /\ disturbed' \in SUBSET Ids /\ disturbed \subseteq disturbed'
      /\ id \notin disturbed' => cache' = cache
  BY <1>2 DEF AbortRequest, Disturb, ShardTypes
<1>4. /\ cache' \in [Ids -> Records] /\ \A i \in Ids \ {id} : cache'[i] = cache[i]
      /\ cache'[id] = Nil <=> cache[id] = Nil
  <2>1. CASE ~linked
    BY <2>1 DEF AbortRequest, ShardTypes
  <2>2. CASE linked
    <3> DEFINE r == LinkedKinds(cache[id], HashKind)
    <3>1. cache[id] \in ShardInfo
      BY <1>2, <2>2 DEF AbortRequest, IsIdExist, ShardTypes, Records
    <3>2. r \in ShardInfo \ {Nil}
      BY <3>1, LinkChanged
    <3>3. cache' = [cache EXCEPT ![id] = r]
      BY <2>2, <3>1, NilAssumption DEF AbortRequest, CacheUpdate
    <3> HIDE DEF r
    <3> QED BY <1>2, <3>1, <3>2, <3>3, NilAssumption DEF ShardTypes, Records
  <2> QED BY <2>1, <2>2
<1>5. \A i \in Ids \ disturbed' : i \in Ids \ disturbed /\ cache'[i] = cache[i]
  BY <1>3, <1>4
<1> HIDE DEF id
<1>6. ShardTypes'
  BY <1>1, <1>2, <1>3, <1>4 DEF ShardTypes, Busy, Copying, Caching, Cleaning
<1>7. RecordsInv'
  BY <1>1, <1>2, <1>4 DEF RecordsInv, Copying, Caching, Cleaning
<1>8. WritersInv'
  <2>1. \A c \in Clients : client[c].pc = "commit" => client[c].id \in Ids
    BY DEF ShardTypes
  <2> QED BY <1>1, <1>2, <1>3, <1>5, <2>1 DEF WritersInv, HalfJob, HalfClient, Caching
<1>9. LinksInv' /\ OwnersInv'
  BY <1>1, <1>2, <1>3, <1>5 DEF LinksInv, OwnersInv, Busy, Copying, Caching, Cleaning
<1>10. PluggedInv'
  BY <1>1, <1>2, <1>3 DEF PluggedInv
<1>11. CacheInv'
  BY <1>1, <1>2, <1>3, <1>5 DEF CacheInv, Halfway, Caching
<1>12. VersionsInv'
  BY <1>1 DEF VersionsInv
<1> QED BY <1>6, <1>7, <1>8, <1>9, <1>10, <1>11, <1>12

-----------------------------------------------------------------------------
(* Clients *)

\* A client that has nothing halfway.
Clear(r) == r.pc # "cache" /\ ~(r.pc = "commit" /\ r.read # Nil)

\* A client goes from one place where it has nothing halfway to another; objects may go.
LEMMA ClientKeeps ==
  ASSUME ShardInv, NEW c \in Clients, NEW r \in ClientRec, client' = [client EXCEPT ![c] = r],
         Clear(client[c]), Clear(r),
         r.pc # "idle" => r.id \in Ids,
         r.pc \in {"mode", "link"} => r.read \in ShardInfo,
         r.pc \in {"wait", "put"} => r.read = Nil,
         r.pc \in Putting \cup {"wait"} => r.kind \in Kinds,
         r.pc \in Putting => r.id \in mounted,
         r.pc = "commit" /\ r.id \notin disturbed' => infos[r.id] # Nil /\ r.kind \in infos[r.id].kinds,
         disturbed' \in SUBSET Ids, disturbed \subseteq disturbed',
         data' \in [Ids -> SUBSET Objects], \A i \in Ids : data'[i] \subseteq data[i],
         UNCHANGED <<infos, cache, mounted, media, job, hashes, version, unrecorded, overtaken>>
  PROVE  ShardInv'
<1> USE DEF ShardInv
<1>1. client \in [Clients -> ClientRec]
  BY DEF ShardTypes
<1>2. client' \in [Clients -> ClientRec] /\ client'[c] = r /\ \A e \in Clients \ {c} : client'[e] = client[e]
  BY <1>1
<1>3. ShardTypes'
  BY <1>1, <1>2 DEF ShardTypes, Clear
<1>4. RecordsInv'
  BY DEF RecordsInv
<1>5. \A e \in Clients, i \in Ids : HalfClient(e, i)' <=> HalfClient(e, i)
  BY <1>2 DEF HalfClient, Clear
<1>6. WritersInv'
  <2>1. /\ \A i \in Ids \ disturbed' : \A d, e \in Clients : HalfClient(d, i)' /\ HalfClient(e, i)' => d = e
        /\ \A i \in Ids \ disturbed' : \A e \in Clients : ~(HalfClient(e, i) /\ HalfJob(i))'
    BY <1>5 DEF WritersInv, HalfJob
  <2>2. ASSUME NEW e \in Clients
        PROVE  /\ client'[e].pc = "cache" /\ client'[e].id \notin disturbed' => infos[client'[e].id] = client'[e].read
               /\ client'[e].pc = "commit" /\ client'[e].id \notin disturbed' =>
                    /\ infos[client'[e].id] # Nil
                    /\ IF client'[e].read = Nil THEN client'[e].kind \in infos[client'[e].id].kinds
                       ELSE /\ infos[client'[e].id] = client'[e].read
                            /\ cache[client'[e].id] = LinkedKinds(client'[e].read, client'[e].kind)
               /\ client'[e].pc = "commit" /\ client'[e].read # Nil => infos[client'[e].id] # Nil
               /\ client'[e].pc \in Putting => client'[e].id \in mounted
    <3>1. CASE e = c
      BY <1>2, <3>1 DEF Clear
    <3>2. CASE e # c
      BY <1>2, <3>2 DEF WritersInv
    <3> QED BY <3>1, <3>2
  <2> QED BY <2>1, <2>2 DEF WritersInv
<1>7. LinksInv' /\ OwnersInv'
  BY DEF LinksInv, OwnersInv
<1>8. PluggedInv'
  BY DEF PluggedInv
<1>9. CacheInv'
  <2>1. \A i \in Ids : Halfway(i)' <=> Halfway(i)
    BY <1>5 DEF Halfway, HalfClient
  <2> QED BY <2>1 DEF CacheInv
<1>10. VersionsInv'
  <2>1. \A i \in Ids, k \in Kinds : Current(i, k) => Current(i, k)'
    BY DEF Current
  <2>2. mounted \subseteq Ids /\ (job.pc = "drop" => job.id \in Ids)
    BY DEF ShardTypes, Busy, Cleaning
  <2> QED BY <2>1, <2>2 DEF VersionsInv
<1> QED BY <1>3, <1>4, <1>6, <1>7, <1>8, <1>9, <1>10

\* A mode is set from a copy of the cache's entry.
LEMMA ReadModeKeeps ==
  ASSUME ShardInv, NEW c \in Clients, NEW id \in Ids, ReadMode(c, id)
  PROVE  ShardInv'
<1> DEFINE r == [pc |-> "mode", id |-> id, kind |-> Nil, read |-> cache[id]]
<1>1. cache[id] \in ShardInfo /\ client[c].pc = "idle" /\ ShardTypes
  BY DEF ReadMode, ShardInv, ShardTypes, Records
<1>2. r \in ClientRec /\ r.pc = "mode" /\ r.id = id /\ r.read \in ShardInfo
  BY <1>1 DEF ClientRec, Records
<1>3. client' = [client EXCEPT ![c] = r]
      /\ UNCHANGED <<infos, cache, mounted, media, job, data, hashes, version, disturbed, unrecorded, overtaken>>
  BY DEF ReadMode
<1> HIDE DEF r
<1> QED BY <1>1, <1>2, <1>3, ClientKeeps DEF Clear, Putting, ShardTypes

\* A put to a shard that the cache has.
LEMMA CheckShardKeeps ==
  ASSUME ShardInv, NEW c \in Clients, NEW id \in Ids, NEW k \in Kinds, CheckShard(c, id, k)
  PROVE  ShardInv'
<1> DEFINE r == [pc |-> "wait", id |-> id, kind |-> k, read |-> Nil]
<1>1. client[c].pc = "idle" /\ ShardTypes
  BY DEF CheckShard, ShardInv
<1>2. r \in ClientRec /\ r.pc = "wait" /\ r.id = id /\ r.read = Nil /\ r.kind = k
  BY <1>1 DEF ClientRec, Records
<1>3. client' = [client EXCEPT ![c] = r]
      /\ UNCHANGED <<infos, cache, mounted, media, job, data, hashes, version, disturbed, unrecorded, overtaken>>
  BY DEF CheckShard
<1> HIDE DEF r
<1> QED BY <1>1, <1>2, <1>3, ClientKeeps DEF Clear, Putting, ShardTypes

\* A put starts on a mounted shard.
LEMMA PutObjectKeeps ==
  ASSUME ShardInv, NEW c \in Clients, PutObject(c)
  PROVE  ShardInv'
<1> DEFINE r == IF client[c].id \in mounted THEN [client[c] EXCEPT !.pc = "put"] ELSE Resting
<1>1. client[c].pc = "wait" /\ ShardTypes /\ client[c] \in ClientRec
      /\ client[c].id \in Ids /\ client[c].kind \in Kinds /\ client[c].read = Nil
  BY DEF PutObject, ShardInv, ShardTypes, Putting
<1>2. /\ r \in ClientRec /\ r.pc \in {"put", "idle"} /\ r.read = Nil
      /\ r.pc = "put" => r.id = client[c].id /\ r.kind = client[c].kind /\ r.id \in mounted
  BY <1>1, RestingType DEF ClientRec, Records, Putting
<1>3. client' = [client EXCEPT ![c] = r]
      /\ UNCHANGED <<infos, cache, mounted, media, job, data, hashes, version, disturbed, unrecorded, overtaken>>
  BY DEF PutObject
<1> HIDE DEF r
<1> QED BY <1>1, <1>2, <1>3, ClientKeeps DEF Clear, Putting, ShardTypes

\* A put that finds its kind linked, in a record that is the stored one.
LEMMA ReadLinkKeeps ==
  ASSUME ShardInv, NEW c \in Clients, NEW hit \in BOOLEAN, ReadLink(c, hit)
  PROVE  ShardInv'
<1> DEFINE info == cache[client[c].id]
           found == hit /\ info # Nil
           linked == found /\ client[c].kind \in info.kinds
           r == IF found /\ ~linked THEN [client[c] EXCEPT !.pc = "link", !.read = info]
                ELSE [client[c] EXCEPT !.pc = "commit"]
<1>1. client[c].pc = "put" /\ ShardTypes /\ client[c] \in ClientRec
      /\ client[c].id \in Ids /\ client[c].id \in mounted /\ client[c].kind \in Kinds /\ client[c].read = Nil
  BY DEF ReadLink, ShardInv, ShardTypes, Putting, WritersInv
<1>2. info \in Records
  BY <1>1 DEF ShardTypes
<1>3. client' = [client EXCEPT ![c] = r]
      /\ disturbed' = (IF ~found \/ (linked /\ infos[client[c].id] # info) THEN disturbed \cup {client[c].id} ELSE disturbed)
      /\ UNCHANGED <<infos, cache, mounted, media, job, data, hashes, version, unrecorded, overtaken>>
  BY DEF ReadLink, Disturb
<1>4. disturbed' \in SUBSET Ids /\ disturbed \subseteq disturbed'
  BY <1>1, <1>3 DEF ShardTypes
<1>5. CASE found /\ ~linked
  <2>1. r = [client[c] EXCEPT !.pc = "link", !.read = info]
    BY <1>5
  <2>2. info \in ShardInfo
    BY <1>2, <1>5 DEF Records
  <2> HIDE DEF info, found, linked
  <2>3. r \in ClientRec /\ r.pc = "link" /\ r.id = client[c].id /\ r.kind = client[c].kind /\ r.read = info
    BY <1>1, <1>2, <2>1 DEF ClientRec, Putting
  <2> HIDE DEF r
  <2> QED BY <1>1, <1>3, <1>4, <2>2, <2>3, ClientKeeps DEF Clear, Putting, ShardTypes
<1>6. CASE ~(found /\ ~linked)
  <2>1. r = [client[c] EXCEPT !.pc = "commit"]
    BY <1>6
  <2>2. r \in ClientRec /\ r.pc = "commit" /\ r.id = client[c].id /\ r.kind = client[c].kind /\ r.read = Nil
    BY <1>1, <2>1 DEF ClientRec, Putting
  <2>3. r.id \notin disturbed' => infos[r.id] # Nil /\ r.kind \in infos[r.id].kinds
    BY <1>3, <1>6, <2>2
  <2> HIDE DEF r, info, found, linked
  <2> QED BY <1>1, <1>3, <1>4, <2>2, <2>3, ClientKeeps DEF Clear, Putting, ShardTypes
<1> QED BY <1>5, <1>6

\* The mode is stored, and not yet in the cache.
LEMMA SetModeKeeps ==
  ASSUME ShardInv, NEW c \in Clients, NEW transient \in BOOLEAN, SetMode(c, transient)
  PROVE  ShardInv'
<1> USE DEF ShardInv
<1> DEFINE id == client[c].id
           read == client[c].read
           info == [read EXCEPT !.transient = transient]
<1>1. /\ client[c].pc = "mode" /\ client[c] \in ClientRec /\ id \in Ids /\ read \in ShardInfo
      /\ UNCHANGED <<cache, mounted, media, job, data, hashes, version, unrecorded, overtaken>>
  BY DEF SetMode, ShardTypes
<1>2. CASE infos[id] = Nil
  <2>1. client' = [client EXCEPT ![c] = Resting] /\ UNCHANGED <<infos, disturbed>>
    BY <1>2 DEF SetMode
  <2> QED BY <1>1, <2>1, RestingType, ClientKeeps DEF Clear, Putting, ShardTypes
<1>3. CASE infos[id] # Nil
  <2>1. /\ infos' = [infos EXCEPT ![id] = info]
        /\ client' = [client EXCEPT ![c].pc = "cache", ![c].read = info]
    BY <1>3 DEF SetMode
  <2>2. info \in ShardInfo \ {Nil} /\ info.active = read.active /\ info.device = read.device /\ info.kinds = read.kinds
    BY <1>1, TransientChanged
  <2>3. /\ disturbed' \in SUBSET Ids /\ disturbed \subseteq disturbed'
        /\ id \notin disturbed' => infos[id] = read /\ ~Halfway(id)
    BY <1>1, <1>3 DEF SetMode, Disturb, Contended, ShardTypes
  <2> HIDE DEF info
  <2>4. infos' \in [Ids -> Records] /\ infos'[id] = info /\ \A i \in Ids \ {id} : infos'[i] = infos[i]
    BY <1>1, <2>1, <2>2 DEF ShardTypes, Records
  <2>5. /\ client' \in [Clients -> ClientRec] /\ \A e \in Clients \ {c} : client'[e] = client[e]
        /\ client'[c].pc = "cache" /\ client'[c].id = id /\ client'[c].read = info
    BY <1>1, <2>1, <2>2 DEF ShardTypes, ClientRec, Records
  <2>6. \A e \in Clients : id \notin disturbed' => ~HalfClient(e, id) /\ ~HalfJob(id)
    BY <2>3 DEF Halfway, HalfClient, HalfJob, Caching
  <2>7. \A i \in Ids : /\ infos'[i] = Nil <=> infos[i] = Nil
                       /\ i \notin disturbed' /\ infos[i] # Nil =>
                            /\ infos'[i].device = infos[i].device
                            /\ infos'[i].active = infos[i].active
                            /\ infos'[i].kinds = infos[i].kinds
    BY <1>3, <2>2, <2>3, <2>4
  <2> HIDE DEF id, read
  <2>8. ShardTypes'
    BY <1>1, <2>2, <2>3, <2>4, <2>5 DEF ShardTypes, Putting
  <2>9. RecordsInv'
    BY <1>1, <2>7 DEF RecordsInv, ShardTypes, Busy, Copying, Caching, Cleaning
  <2>10. WritersInv'
    <3>1. \A e \in Clients, i \in Ids : HalfClient(e, i)' <=> (e = c /\ i = id) \/ HalfClient(e, i)
      BY <1>1, <2>5 DEF HalfClient, id
    <3>2. /\ \A i \in Ids \ disturbed' : \A d, e \in Clients : HalfClient(d, i)' /\ HalfClient(e, i)' => d = e
          /\ \A i \in Ids \ disturbed' : \A e \in Clients : ~(HalfClient(e, i)' /\ HalfJob(i))
      BY <2>3, <2>6, <3>1 DEF WritersInv
    <3>3. ASSUME NEW e \in Clients \ {c}
          PROVE  /\ client[e].pc = "cache" /\ client[e].id \notin disturbed' => infos'[client[e].id] = client[e].read
                 /\ client[e].pc = "commit" /\ client[e].id \notin disturbed' =>
                      /\ infos'[client[e].id] # Nil
                      /\ IF client[e].read = Nil THEN client[e].kind \in infos'[client[e].id].kinds
                         ELSE infos'[client[e].id] = client[e].read
                 /\ client[e].pc = "commit" /\ client[e].read # Nil => infos'[client[e].id] # Nil
      <4>1. client[e].pc # "idle" => client[e].id \in Ids
        BY DEF ShardTypes
      <4>2. (client[e].pc = "cache" \/ (client[e].pc = "commit" /\ client[e].read # Nil))
            => (client[e].id = id => id \in disturbed')
        BY <2>6 DEF HalfClient
      <4> QED BY <2>3, <2>4, <2>7, <4>1, <4>2 DEF WritersInv
    <3>4. /\ job.pc \in Caching /\ job.id \notin disturbed' => infos'[job.id] = job.read
          /\ job.pc = "save" /\ job.read # Nil => infos'[job.id] # Nil
          /\ job.pc = "save" /\ job.read # Nil /\ job.id \notin disturbed' => infos'[job.id] = job.read
      <4>1. job.pc \in Caching \cup {"save"} => job.id \in Ids
        BY DEF ShardTypes, Busy, Caching, Cleaning
      <4>2. job.pc \in Caching \/ (job.pc = "save" /\ job.read # Nil) => (job.id = id => id \in disturbed')
        BY <2>6 DEF HalfJob
      <4> QED BY <2>3, <2>4, <2>7, <4>1, <4>2 DEF WritersInv
    <3> QED BY <1>1, <2>3, <2>4, <2>5, <3>2, <3>3, <3>4 DEF WritersInv, HalfJob, Putting
  <2>11. LinksInv'
    BY <1>1, <2>3, <2>7 DEF LinksInv
  <2>12. OwnersInv'
    BY <1>1, <2>3, <2>7 DEF OwnersInv, ShardTypes, Busy
  <2>13. PluggedInv'
    BY <1>1, <2>3, <2>7 DEF PluggedInv, ShardTypes
  <2>14. CacheInv'
    <3>1. \A i \in Ids : i = id => Halfway(i)'
      BY <2>5 DEF Halfway
    <3>2. \A i \in Ids \ {id} : Halfway(i) => Halfway(i)'
      BY <1>1, <2>5 DEF Halfway, id
    <3> QED BY <1>1, <2>3, <2>4, <3>1, <3>2 DEF CacheInv
  <2>15. VersionsInv'
    BY <1>1 DEF VersionsInv, Current
  <2> QED BY <2>8, <2>9, <2>10, <2>11, <2>12, <2>13, <2>14, <2>15
<1> QED BY <1>2, <1>3

\* The cache follows the mode that was stored.
LEMMA CacheModeKeeps ==
  ASSUME ShardInv, NEW c \in Clients, NEW hit \in BOOLEAN, CacheMode(c, hit)
  PROVE  ShardInv'
<1> USE DEF ShardInv
<1> DEFINE id == client[c].id
           read == client[c].read
<1>1. /\ client[c].pc = "cache" /\ id \in Ids /\ read \in ShardInfo
      /\ client' = [client EXCEPT ![c] = Resting]
      /\ UNCHANGED <<infos, mounted, media, job, data, hashes, version, unrecorded, overtaken>>
  BY DEF CacheMode, ShardTypes
<1>2. /\ disturbed' \in SUBSET Ids /\ disturbed \subseteq disturbed'
      /\ id \notin disturbed' => hit
  BY <1>1 DEF CacheMode, Disturb, ShardTypes
<1>3. /\ cache' \in [Ids -> Records] /\ \A i \in Ids \ {id} : cache'[i] = cache[i]
      /\ cache'[id] = Nil <=> cache[id] = Nil
      /\ hit /\ cache[id] # Nil => cache'[id] = read
  BY <1>1, NilAssumption DEF CacheMode, CacheUpdate, ShardTypes, Records
<1>4. id \notin disturbed' => infos[id] = read /\ cache'[id] = read
                              /\ ~HalfJob(id) /\ \A e \in Clients : HalfClient(e, id) => e = c
  <2> SUFFICES ASSUME id \notin disturbed'
               PROVE  infos[id] = read /\ cache'[id] = read
                      /\ ~HalfJob(id) /\ \A e \in Clients : HalfClient(e, id) => e = c
    OBVIOUS
  <2>1. id \notin disturbed /\ HalfClient(c, id)
    BY <1>1, <1>2 DEF HalfClient
  <2>2. infos[id] = read /\ ~HalfJob(id) /\ \A e \in Clients : HalfClient(e, id) => e = c
    BY <1>1, <2>1 DEF WritersInv
  <2>3. cache[id] # Nil
    BY <1>1, <2>2, NilAssumption DEF RecordsInv, HalfJob, Caching
  <2> QED BY <1>2, <1>3, <2>2, <2>3
<1>5. /\ client' \in [Clients -> ClientRec] /\ \A e \in Clients \ {c} : client'[e] = client[e]
      /\ client'[c].pc = "idle"
  BY <1>1, RestingType DEF ShardTypes
<1> HIDE DEF id, read
<1>6. ShardTypes'
  BY <1>1, <1>2, <1>3, <1>5 DEF ShardTypes, Putting
<1>7. RecordsInv'
  BY <1>1, <1>3 DEF RecordsInv, ShardTypes, Busy, Copying, Caching, Cleaning
<1>8. WritersInv'
  <2>1. \A e \in Clients, i \in Ids : HalfClient(e, i)' => HalfClient(e, i)
    BY <1>1, <1>5 DEF HalfClient
  <2>2. ASSUME NEW e \in Clients \ {c}, client[e].pc = "commit", client[e].id \notin disturbed', client[e].read # Nil
        PROVE  cache'[client[e].id] = LinkedKinds(client[e].read, client[e].kind)
    <3>1. client[e].id \in Ids /\ client[e].id # id
      BY <1>4, <2>2 DEF ShardTypes, HalfClient
    <3> QED BY <1>2, <1>3, <2>2, <3>1 DEF WritersInv
  <2>3. job.pc = "save" /\ job.read # Nil /\ job.id \notin disturbed' => cache'[job.id] = LinkedKinds(job.read, HashKind)
    <3>1. job.pc = "save" => job.id \in Ids
      BY DEF ShardTypes, Busy, Cleaning
    <3> QED BY <1>2, <1>3, <1>4, <3>1 DEF WritersInv, HalfJob
  <2>4. /\ \A i \in Ids \ disturbed' : \A d, e \in Clients : HalfClient(d, i)' /\ HalfClient(e, i)' => d = e
        /\ \A i \in Ids \ disturbed' : \A e \in Clients : ~(HalfClient(e, i)' /\ HalfJob(i))
    BY <1>2, <2>1 DEF WritersInv
  <2>5. \A e \in Clients : client'[e].pc # "idle" => e # c /\ client'[e] = client[e]
    BY <1>5
  <2> QED BY <1>1, <1>2, <2>2, <2>3, <2>4, <2>5 DEF WritersInv, HalfJob, Putting
<1>9. LinksInv'
  BY <1>1, <1>2, <1>3, <1>4 DEF LinksInv
<1>10. OwnersInv' /\ PluggedInv'
  BY <1>1, <1>2 DEF OwnersInv, PluggedInv
<1>11. CacheInv'
  <2>1. \A i \in Ids \ {id} : Halfway(i) => Halfway(i)'
    BY <1>1, <1>5 DEF Halfway, id
  <2> QED BY <1>1, <1>2, <1>3, <1>4, <2>1 DEF CacheInv
<1>12. VersionsInv'
  BY <1>1 DEF VersionsInv, Current
<1> QED BY <1>6, <1>7, <1>8, <1>9, <1>10, <1>11, <1>12

\* The link of a put is in the cache and not yet stored.
LEMMA LinkKeeps ==
  ASSUME ShardInv, NEW c \in Clients, NEW hit \in BOOLEAN, Link(c, hit)
  PROVE  ShardInv'
<1> USE DEF ShardInv
<1> DEFINE id == client[c].id
           read == client[c].read
           r == LinkedKinds(read, client[c].kind)
<1>1. /\ client[c].pc = "link" /\ client[c] \in ClientRec /\ id \in Ids /\ id \in mounted
      /\ read \in ShardInfo /\ client[c].kind \in Kinds
      /\ UNCHANGED <<infos, mounted, media, job, data, hashes, version, unrecorded, overtaken>>
  BY DEF Link, ShardTypes, WritersInv, Putting
<1>2. CASE infos[id] = Nil
  <2>1. client' = [client EXCEPT ![c] = Resting] /\ UNCHANGED <<cache, disturbed>>
    BY <1>2 DEF Link
  <2> QED BY <1>1, <2>1, RestingType, ClientKeeps DEF Clear, Putting, ShardTypes
<1>3. CASE infos[id] # Nil
  <2>1. /\ cache' = IF hit THEN CacheUpdate(id, r) ELSE cache
        /\ client' = [client EXCEPT ![c].pc = "commit"]
    BY <1>3 DEF Link
  <2>2. r \in ShardInfo \ {Nil} /\ r.kinds = read.kinds \cup {client[c].kind} /\ read # Nil
    BY <1>1, LinkChanged, NilAssumption
  <2> HIDE DEF r
  <2>3. /\ disturbed' \in SUBSET Ids /\ disturbed \subseteq disturbed'
        /\ id \notin disturbed' => hit /\ infos[id] = read /\ ~Halfway(id)
    BY <1>1, <1>3 DEF Link, Disturb, Contended, ShardTypes
  <2>4. /\ cache' \in [Ids -> Records] /\ \A i \in Ids \ {id} : cache'[i] = cache[i]
        /\ cache'[id] = Nil <=> cache[id] = Nil
        /\ hit /\ cache[id] # Nil => cache'[id] = r
    BY <1>1, <2>1, <2>2 DEF CacheUpdate, ShardTypes, Records
  <2>5. id \notin disturbed' => cache'[id] = r
    <3>1. ~Halfway(id) => cache[id] # Nil
      BY <1>1, <1>3 DEF RecordsInv, Halfway
    <3> QED BY <2>3, <2>4, <3>1
  <2>6. /\ client' \in [Clients -> ClientRec] /\ \A e \in Clients \ {c} : client'[e] = client[e]
        /\ client'[c].pc = "commit" /\ client'[c].id = id /\ client'[c].read = read
        /\ client'[c].kind = client[c].kind
    BY <1>1, <2>1 DEF ShardTypes, ClientRec, Putting
  <2>7. \A e \in Clients : id \notin disturbed' => ~HalfClient(e, id) /\ ~HalfJob(id)
    BY <2>3 DEF Halfway, HalfClient, HalfJob, Caching
  <2> HIDE DEF id, read
  <2>8. ShardTypes'
    BY <1>1, <2>2, <2>3, <2>4, <2>6 DEF ShardTypes, Putting
  <2>9. RecordsInv'
    BY <1>1, <2>4 DEF RecordsInv, ShardTypes, Busy, Copying, Caching, Cleaning
  <2>10. WritersInv'
    <3>1. \A e \in Clients, i \in Ids : HalfClient(e, i)' <=> (e = c /\ i = id) \/ HalfClient(e, i)
      BY <1>1, <2>2, <2>6 DEF HalfClient, id
    <3>2. /\ \A i \in Ids \ disturbed' : \A d, e \in Clients : HalfClient(d, i)' /\ HalfClient(e, i)' => d = e
          /\ \A i \in Ids \ disturbed' : \A e \in Clients : ~(HalfClient(e, i)' /\ HalfJob(i))
      BY <2>3, <2>7, <3>1 DEF WritersInv
    <3>3. ASSUME NEW e \in Clients \ {c}, client[e].pc = "commit", client[e].id \notin disturbed', client[e].read # Nil
          PROVE  cache'[client[e].id] = LinkedKinds(client[e].read, client[e].kind)
      <4>1. client[e].id \in Ids /\ client[e].id # id
        BY <2>7, <3>3 DEF ShardTypes, HalfClient
      <4> QED BY <2>3, <2>4, <3>3, <4>1 DEF WritersInv
    <3>4. job.pc = "save" /\ job.read # Nil /\ job.id \notin disturbed' => cache'[job.id] = LinkedKinds(job.read, HashKind)
      <4>1. job.pc = "save" => job.id \in Ids
        BY DEF ShardTypes, Busy, Cleaning
      <4> QED BY <2>3, <2>4, <2>7, <4>1 DEF WritersInv, HalfJob
    <3>5. \A e \in Clients : e = c \/ (e \in Clients \ {c} /\ client'[e] = client[e])
      BY <2>6
    <3>6. id \notin disturbed' => infos[id] = read /\ cache'[id] = LinkedKinds(read, client[c].kind)
      BY <2>3, <2>5 DEF r
    <3> QED BY <1>1, <1>3, <2>2, <2>3, <2>6, <3>2, <3>3, <3>4, <3>5, <3>6 DEF WritersInv, HalfJob, Putting
  <2>11. LinksInv'
    BY <1>1, <1>3, <2>2, <2>3, <2>4, <2>5 DEF LinksInv
  <2>12. OwnersInv' /\ PluggedInv'
    BY <1>1, <2>3 DEF OwnersInv, PluggedInv
  <2>13. CacheInv'
    <3>1. \A i \in Ids : i = id => Halfway(i)'
      BY <2>2, <2>6 DEF Halfway
    <3>2. \A i \in Ids \ {id} : Halfway(i) => Halfway(i)'
      BY <1>1, <2>6 DEF Halfway, id
    <3> QED BY <1>1, <2>3, <2>4, <3>1, <3>2 DEF CacheInv
  <2>14. VersionsInv'
    BY <1>1 DEF VersionsInv, Current
  <2> QED BY <2>8, <2>9, <2>10, <2>11, <2>12, <2>13, <2>14
<1> QED BY <1>2, <1>3

\* A put commits its object, and the link with it, or what is missing is counted.
LEMMA CommitPutKeeps ==
  ASSUME ShardInv, NEW c \in Clients, NEW stored \in BOOLEAN, NEW record \in BOOLEAN, CommitPut(c, stored, record)
  PROVE  ShardInv'
<1> USE DEF ShardInv
<1> DEFINE id == client[c].id
           k == client[c].kind
           read == client[c].read
           r == LinkedKinds(read, k)
<1>1. /\ client[c].pc = "commit" /\ id \in Ids /\ id \in mounted /\ k \in Kinds /\ read \in Records
      /\ record => read # Nil
      /\ client' = [client EXCEPT ![c] = Resting]
      /\ UNCHANGED <<cache, mounted, media, job, hashes, version, unrecorded, overtaken>>
  BY DEF CommitPut, ShardTypes, WritersInv, Putting, ClientRec
<1>2. /\ data' = IF stored THEN [data EXCEPT ![id] = @ \cup {<<k, version[k]>>}] ELSE data
      /\ infos' = IF record THEN [infos EXCEPT ![id] = r] ELSE infos
  BY DEF CommitPut
<1>3. read # Nil => /\ r \in ShardInfo \ {Nil} /\ r.kinds = read.kinds \cup {k}
                    /\ r.active = read.active /\ r.device = read.device /\ infos[id] # Nil
  <2>1. read # Nil => read \in ShardInfo
    BY <1>1 DEF Records
  <2>2. read # Nil => infos[id] # Nil
    BY <1>1 DEF WritersInv
  <2> QED BY <1>1, <2>1, <2>2, LinkChanged
<1>4. /\ disturbed' \in SUBSET Ids /\ disturbed \subseteq disturbed'
      /\ id \notin disturbed' => ~(read # Nil /\ ~record)
  BY <1>1 DEF CommitPut, Disturb, ShardTypes
<1>5. id \notin disturbed' => infos[id] # Nil
                              /\ IF read = Nil THEN k \in infos[id].kinds ELSE infos[id] = read /\ cache[id] = r
  BY <1>1, <1>4 DEF WritersInv
<1>6. id \notin disturbed' /\ read # Nil => ~HalfJob(id) /\ \A e \in Clients : HalfClient(e, id) => e = c
  <2>1. read # Nil => HalfClient(c, id)
    BY <1>1 DEF HalfClient
  <2> QED BY <1>1, <1>4, <2>1 DEF WritersInv
<1> HIDE DEF r
<1>7. /\ infos' \in [Ids -> Records] /\ \A i \in Ids \ {id} : infos'[i] = infos[i]
      /\ ~record => infos' = infos
      /\ record => infos'[id] = r
  BY <1>1, <1>2, <1>3 DEF ShardTypes, Records
<1>8. \A i \in Ids : /\ infos'[i] = Nil <=> infos[i] = Nil
                     /\ i \notin disturbed' /\ infos[i] # Nil =>
                          /\ infos'[i].device = infos[i].device
                          /\ infos'[i].active = infos[i].active
                          /\ infos[i].kinds \subseteq infos'[i].kinds
  BY <1>1, <1>3, <1>4, <1>5, <1>7
<1>9. /\ client' \in [Clients -> ClientRec] /\ \A e \in Clients \ {c} : client'[e] = client[e]
      /\ client'[c].pc = "idle"
  BY <1>1, RestingType DEF ShardTypes
<1>10. <<k, version[k]>> \in Objects
  BY <1>1 DEF ShardTypes, Objects
<1>11. /\ data' \in [Ids -> SUBSET Objects] /\ \A i \in Ids \ {id} : data'[i] = data[i]
       /\ data'[id] \subseteq data[id] \cup {<<k, version[k]>>}
  BY <1>1, <1>2, <1>10 DEF ShardTypes
<1> HIDE DEF id, read, k
<1>12. ShardTypes'
  BY <1>1, <1>4, <1>7, <1>9, <1>11 DEF ShardTypes, Putting
<1>13. RecordsInv'
  BY <1>1, <1>8 DEF RecordsInv, ShardTypes, Busy, Copying, Caching, Cleaning
<1>14. WritersInv'
  <2>1. \A e \in Clients, i \in Ids : HalfClient(e, i)' => HalfClient(e, i)
    BY <1>1, <1>9 DEF HalfClient
  <2>2. /\ \A i \in Ids \ disturbed' : \A d, e \in Clients : HalfClient(d, i)' /\ HalfClient(e, i)' => d = e
        /\ \A i \in Ids \ disturbed' : \A e \in Clients : ~(HalfClient(e, i)' /\ HalfJob(i))
    BY <1>4, <2>1 DEF WritersInv
  <2>3. ASSUME NEW e \in Clients \ {c}
        PROVE  /\ client[e].pc = "cache" /\ client[e].id \notin disturbed' => infos'[client[e].id] = client[e].read
               /\ client[e].pc = "commit" /\ client[e].id \notin disturbed' =>
                    /\ infos'[client[e].id] # Nil
                    /\ IF client[e].read = Nil THEN client[e].kind \in infos'[client[e].id].kinds
                       ELSE infos'[client[e].id] = client[e].read
               /\ client[e].pc = "commit" /\ client[e].read # Nil => infos'[client[e].id] # Nil
    <3>1. client[e].pc # "idle" => client[e].id \in Ids
      BY DEF ShardTypes
    <3>2. client[e].pc = "cache" \/ (client[e].pc = "commit" /\ client[e].read # Nil)
          => (client[e].id = id /\ record => id \in disturbed')
      BY <1>1, <1>6 DEF HalfClient
    <3> QED BY <1>4, <1>7, <1>8, <3>1, <3>2 DEF WritersInv
  <2>4. /\ job.pc \in Caching /\ job.id \notin disturbed' => infos'[job.id] = job.read
        /\ job.pc = "save" /\ job.read # Nil => infos'[job.id] # Nil
        /\ job.pc = "save" /\ job.read # Nil /\ job.id \notin disturbed' => infos'[job.id] = job.read
    <3>1. job.pc \in Caching \cup {"save"} => job.id \in Ids
      BY DEF ShardTypes, Busy, Caching, Cleaning
    <3>2. job.pc \in Caching \/ (job.pc = "save" /\ job.read # Nil) => (job.id = id /\ record => id \in disturbed')
      BY <1>1, <1>6 DEF HalfJob
    <3> QED BY <1>4, <1>7, <1>8, <3>1, <3>2 DEF WritersInv
  <2>5. \A e \in Clients : client'[e].pc # "idle" => e \in Clients \ {c} /\ client'[e] = client[e]
    BY <1>9
  <2> QED BY <1>1, <1>4, <2>2, <2>3, <2>4, <2>5 DEF WritersInv, HalfJob, Putting
<1>15. LinksInv'
  <2>1. ASSUME NEW i \in Ids \ disturbed'
        PROVE  /\ infos'[i] = Nil => data'[i] = {}
               /\ infos'[i] # Nil => \A o \in data'[i] : o[1] \in infos'[i].kinds
               /\ infos'[i] # Nil /\ cache[i] # Nil => infos'[i].kinds \subseteq cache[i].kinds
               /\ infos'[i] = Nil /\ cache[i] # Nil => cache[i].kinds = {} \/ (job.pc = "erase" /\ job.id = i)
    <3>1. CASE i # id
      BY <1>4, <1>7, <1>11, <3>1 DEF LinksInv
    <3>2. CASE i = id
      <4>1. infos[id] # Nil /\ infos'[id] # Nil /\ k \in infos'[id].kinds
        BY <1>1, <1>3, <1>4, <1>5, <1>7, <3>2
      <4>2. \A o \in data[id] : o[1] \in infos'[id].kinds
        BY <1>1, <1>4, <1>8, <3>2, <4>1 DEF LinksInv
      <4>3. cache[id] # Nil => infos'[id].kinds \subseteq cache[id].kinds
        BY <1>1, <1>4, <1>5, <1>7, <3>2, <4>1 DEF LinksInv
      <4> QED BY <1>11, <3>2, <4>1, <4>2, <4>3
    <3> QED BY <3>1, <3>2
  <2> QED BY <1>1, <2>1 DEF LinksInv
<1>16. OwnersInv'
  BY <1>1, <1>4, <1>8 DEF OwnersInv, ShardTypes, Busy
<1>17. PluggedInv'
  BY <1>1, <1>4, <1>8 DEF PluggedInv, ShardTypes
<1>18. CacheInv'
  <2>1. \A i \in Ids \ {id} : Halfway(i) => Halfway(i)'
    BY <1>1, <1>9 DEF Halfway, id
  <2>2. id \notin disturbed' /\ read = Nil /\ Halfway(id) => \A i \in Ids : i = id => Halfway(i)'
    BY <1>1, <1>9 DEF Halfway, id, read
  <2>3. id \notin disturbed' /\ read # Nil => cache[id] = infos'[id]
    BY <1>4, <1>5, <1>7
  <2> QED BY <1>1, <1>4, <1>7, <2>1, <2>2, <2>3 DEF CacheInv
<1>19. VersionsInv'
  <2> SUFFICES ASSUME ~overtaken PROVE VersionsInv'
    BY <1>1 DEF VersionsInv
  <2>1. mounted = {id}
    BY <1>1 DEF VersionsInv
  <2>2. job.pc \in Cleaning => job.id = id
    BY <1>1, <2>1 DEF RecordsInv
  <2>3. ASSUME NEW i \in Ids, NEW o \in data'[i]
        PROVE  o[2] = hashes[i][o[1]] \/ (job.pc \in Cleaning /\ job.id = i /\ o[2] = version[o[1]])
    <3>1. CASE o \in data[i]
      BY <3>1 DEF VersionsInv
    <3>2. CASE o \notin data[i]
      <4>1. i = id /\ o = <<k, version[k]>>
        BY <1>11, <3>2
      <4> QED BY <1>1, <2>1, <2>2, <4>1 DEF VersionsInv
    <3> QED BY <3>1, <3>2
  <2>4. \A i \in Ids, kk \in Kinds : Current(i, kk) => Current(i, kk)'
    <3>1. \A i \in Ids : \A o \in data'[i] : o \in data[i] \/ o[2] = version[o[1]]
      BY <1>11
    <3> QED BY <1>1, <3>1 DEF Current
  <2>5. mounted \subseteq Ids /\ (job.pc = "drop" => job.id \in Ids)
    BY DEF ShardTypes, Busy, Cleaning
  <2> QED BY <1>1, <2>3, <2>4, <2>5 DEF VersionsInv
<1> QED BY <1>12, <1>13, <1>14, <1>15, <1>16, <1>17, <1>18, <1>19

\* A purge picks a shard.
LEMMA PurgeShardObjectsKeeps ==
  ASSUME ShardInv, NEW c \in Clients, NEW id \in Ids, PurgeShardObjects(c, id)
  PROVE  ShardInv'
<1> DEFINE r == [pc |-> "purge", id |-> id, kind |-> Nil, read |-> Nil]
<1>1. client[c].pc = "idle" /\ ShardTypes
  BY DEF PurgeShardObjects, ShardInv
<1>2. r \in ClientRec /\ r.pc = "purge" /\ r.id = id /\ r.read = Nil
  BY <1>1 DEF ClientRec, Records
<1>3. client' = [client EXCEPT ![c] = r]
      /\ UNCHANGED <<infos, cache, mounted, media, job, data, hashes, version, disturbed, unrecorded, overtaken>>
  BY DEF PurgeShardObjects
<1> HIDE DEF r
<1> QED BY <1>1, <1>2, <1>3, ClientKeeps DEF Clear, Putting, ShardTypes

\* A purge removes objects.
LEMMA RemoveShardObjectsKeeps ==
  ASSUME ShardInv, NEW c \in Clients, NEW gone, RemoveShardObjects(c, gone)
  PROVE  ShardInv'
<1>1. client[c].pc = "purge" /\ ShardTypes /\ client[c].id \in Ids
  BY DEF RemoveShardObjects, ShardInv, ShardTypes
<1>2. data' = [data EXCEPT ![client[c].id] = @ \ gone] /\ client' = [client EXCEPT ![c] = Resting]
      /\ UNCHANGED <<infos, cache, mounted, media, job, hashes, version, disturbed, unrecorded, overtaken>>
  BY DEF RemoveShardObjects
<1>3. data' \in [Ids -> SUBSET Objects] /\ \A i \in Ids : data'[i] \subseteq data[i]
  BY <1>1, <1>2 DEF ShardTypes
<1> QED BY <1>1, <1>2, <1>3, RestingType, ClientKeeps DEF Clear, Putting, ShardTypes

-----------------------------------------------------------------------------
(* Kinds and restarts *)

\* KindHashMap:1 is linked to shards, in the cache and perhaps in the database.
LEMMA LinkHashesType ==
  ASSUME ShardTypes, NEW f \in [Ids -> Records], NEW S \in SUBSET Unlinked
  PROVE  /\ LinkHashes(f, S) \in [Ids -> Records]
         /\ \A i \in Ids \ S : LinkHashes(f, S)[i] = f[i]
         /\ \A i \in S : /\ i \in Ids /\ infos[i] # Nil /\ cache[i] # Nil
                         /\ LinkHashes(f, S)[i] = LinkedKinds(cache[i], HashKind) /\ LinkHashes(f, S)[i] # Nil
                         /\ LinkHashes(f, S)[i].active = cache[i].active
                         /\ LinkHashes(f, S)[i].device = cache[i].device
                         /\ LinkHashes(f, S)[i].kinds = cache[i].kinds \cup {HashKind}
<1>1. \A i \in S : i \in Ids /\ infos[i] # Nil /\ cache[i] # Nil /\ cache[i] \in ShardInfo
  BY DEF Unlinked, ActiveShards, ShardTypes, Records
<1>2. ASSUME NEW i \in S
      PROVE  LET r == LinkedKinds(cache[i], HashKind) IN
             r \in ShardInfo \ {Nil} /\ r.active = cache[i].active /\ r.device = cache[i].device
             /\ r.kinds = cache[i].kinds \cup {HashKind}
  BY <1>1, LinkChanged
<1>3. LinkHashes(f, S) = [s \in Ids |-> IF s \in S THEN LinkedKinds(cache[s], HashKind) ELSE f[s]]
  BY DEF LinkHashes
<1>4. \A i \in Ids : LinkHashes(f, S)[i] = IF i \in S THEN LinkedKinds(cache[i], HashKind) ELSE f[i]
  BY <1>3
<1>5. LinkHashes(f, S) \in [Ids -> Records]
  <2>1. \A i \in Ids : (IF i \in S THEN LinkedKinds(cache[i], HashKind) ELSE f[i]) \in Records
    BY <1>2 DEF Records
  <2> QED BY <1>3, <2>1
<1> QED BY <1>1, <1>2, <1>4, <1>5

\* A kind that fails leaves links in the cache, which are counted.
LEMMA PutKindFailsKeeps ==
  ASSUME ShardInv, NEW S \in SUBSET Ids, PutKindFails(S)
  PROVE  ShardInv'
<1> USE DEF ShardInv
<1>1. /\ CanLock /\ S \in SUBSET Unlinked /\ disturbed' = disturbed \cup S
      /\ cache' = LinkHashes(cache, S)
      /\ UNCHANGED <<infos, mounted, media, job, client, data, hashes, version, unrecorded, overtaken>>
  BY DEF PutKindFails
<1>2. /\ cache' \in [Ids -> Records]
      /\ \A i \in Ids \ disturbed' : i \in Ids \ disturbed /\ cache'[i] = cache[i]
      /\ \A i \in Ids : cache'[i] = Nil <=> cache[i] = Nil
      /\ disturbed' \in SUBSET Ids
  <2>1. cache \in [Ids -> Records]
    BY DEF ShardTypes
  <2> QED BY <1>1, <2>1, LinkHashesType DEF ShardTypes
<1>3. ShardTypes'
  BY <1>1, <1>2 DEF ShardTypes
<1>4. RecordsInv'
  BY <1>1, <1>2 DEF RecordsInv, ShardTypes, Busy, Copying, Caching
<1>5. WritersInv'
  <2>1. \A c \in Clients : client[c].pc = "commit" => client[c].id \in Ids
    BY DEF ShardTypes
  <2>2. job.pc = "save" => job.id \in Ids
    BY DEF ShardTypes, Busy, Cleaning
  <2> QED BY <1>1, <1>2, <2>1, <2>2 DEF WritersInv, HalfJob, HalfClient
<1>6. LinksInv' /\ OwnersInv'
  BY <1>1, <1>2 DEF LinksInv, OwnersInv
<1>7. PluggedInv'
  BY <1>1 DEF PluggedInv
<1>8. CacheInv'
  BY <1>1, <1>2 DEF CacheInv, Halfway
<1>9. VersionsInv'
  BY <1>1 DEF VersionsInv, Current
<1> QED BY <1>3, <1>4, <1>5, <1>6, <1>7, <1>8, <1>9

\* A changed kind: its objects on the mounted shard and its hash become the new version.
LEMMA PutKindKeeps ==
  ASSUME ShardInv, NEW k \in Kinds, NEW target \in Ids, PutKind(k, target)
  PROVE  ShardInv'
<1> USE DEF ShardInv
<1> DEFINE New(o) == IF o = <<k, version[k]>> THEN <<k, version[k] + 1>> ELSE o
<1>1. /\ CanLock /\ disturbed = {}
      /\ version' = [version EXCEPT ![k] = @ + 1]
      /\ data' = [s \in Ids |-> IF s \in mounted THEN {New(o) : o \in data[s]} ELSE data[s]]
      /\ hashes' = IF ActiveShards = {} THEN hashes ELSE [hashes EXCEPT ![target][k] = version[k] + 1]
      /\ infos' = LinkHashes(infos, Unlinked) /\ cache' = LinkHashes(cache, Unlinked)
      /\ disturbed' = disturbed \cup {s \in Unlinked : Contended(s, cache[s])}
      /\ overtaken' = (overtaken \/ job.pc \in Cleaning)
      /\ UNCHANGED <<mounted, media, job, client, unrecorded>>
  BY DEF PutKind, Undisturbed
<1>2. /\ job.pc \notin {"write", "blocking", "link", "save", "leaked"}
      /\ \A c \in Clients : client[c].pc \notin Putting
  BY <1>1 DEF CanLock, CanShare, JobLocks, JobShares, Putting
<1>3. /\ infos' \in [Ids -> Records] /\ cache' \in [Ids -> Records]
      /\ \A i \in Ids \ Unlinked : infos'[i] = infos[i] /\ cache'[i] = cache[i]
      /\ \A i \in Unlinked : /\ i \in Ids /\ infos[i] # Nil /\ cache[i] # Nil
                             /\ infos'[i] = cache'[i] /\ infos'[i] # Nil
                             /\ infos'[i].active = cache[i].active /\ infos'[i].device = cache[i].device
                             /\ infos'[i].kinds = cache[i].kinds \cup {HashKind}
  <2>1. infos \in [Ids -> Records] /\ cache \in [Ids -> Records]
    BY DEF ShardTypes
  <2> QED BY <1>1, <2>1, LinkHashesType
<1>4. /\ disturbed' \in SUBSET Ids /\ disturbed \subseteq disturbed'
      /\ \A i \in Unlinked : i \notin disturbed' => infos[i] = cache[i] /\ ~Halfway(i)
  BY <1>1, <1>3 DEF Contended, ShardTypes
<1>5. \A i \in Ids : /\ infos'[i] = Nil <=> infos[i] = Nil
                     /\ cache'[i] = Nil <=> cache[i] = Nil
                     /\ i \notin disturbed' /\ infos[i] # Nil =>
                          /\ infos'[i].device = infos[i].device
                          /\ infos'[i].active = infos[i].active
                          /\ infos[i].kinds \subseteq infos'[i].kinds
  BY <1>3, <1>4
<1>6. version' \in [Kinds -> Nat \ {0}] /\ version'[k] = version[k] + 1
      /\ \A kk \in Kinds \ {k} : version'[kk] = version[kk]
  BY <1>1 DEF ShardTypes
<1>7. \A i \in Ids : \A o \in data[i] : /\ o \in Objects
                                        /\ New(o) \in Objects /\ New(o)[1] = o[1]
                                        /\ o[2] = version[o[1]] => New(o)[2] = version'[o[1]]
  BY <1>6 DEF ShardTypes, Objects
<1>8. /\ \A i \in mounted : i \in Ids /\ data'[i] = {New(o) : o \in data[i]}
      /\ \A i \in Ids \ mounted : data'[i] = data[i]
  BY <1>1 DEF ShardTypes
<1> HIDE DEF New
<1>9. data' \in [Ids -> SUBSET Objects]
  <2>1. \A i \in Ids : (IF i \in mounted THEN {New(o) : o \in data[i]} ELSE data[i]) \in SUBSET Objects
    BY <1>7
  <2> QED BY <1>1, <2>1
<1>10. hashes' \in [Ids -> [Kinds -> Nat]]
  BY <1>1 DEF ShardTypes
<1>11. ShardTypes'
  BY <1>1, <1>3, <1>4, <1>6, <1>9, <1>10 DEF ShardTypes
<1>12. RecordsInv'
  BY <1>1, <1>5 DEF RecordsInv, ShardTypes, Busy, Copying, Caching, Cleaning
<1>13. WritersInv'
  <2>1. \A c \in Clients : client[c].pc = "cache" => client[c].id \in Ids
    BY DEF ShardTypes
  <2>2. job.pc \in Caching => job.id \in Ids
    BY DEF ShardTypes, Busy
  <2>3. ASSUME NEW c \in Clients, client[c].pc = "cache", client[c].id \notin disturbed'
        PROVE  infos'[client[c].id] = client[c].read
    <3>1. client[c].id \notin Unlinked
      BY <1>4, <2>3 DEF Halfway
    <3> QED BY <1>3, <1>4, <2>1, <2>3, <3>1 DEF WritersInv
  <2>4. ASSUME job.pc \in Caching, job.id \notin disturbed' PROVE infos'[job.id] = job.read
    <3>1. job.id \notin Unlinked
      BY <1>4, <2>4 DEF Halfway, Caching
    <3> QED BY <1>3, <1>4, <2>2, <2>4, <3>1 DEF WritersInv
  <2> QED BY <1>1, <1>2, <1>4, <2>3, <2>4 DEF WritersInv, HalfJob, HalfClient, Putting
<1>14. LinksInv'
  <2>1. ASSUME NEW i \in Ids \ disturbed'
        PROVE  /\ infos'[i] = Nil => data'[i] = {}
               /\ infos'[i] # Nil => \A o \in data'[i] : o[1] \in infos'[i].kinds
               /\ infos'[i] # Nil /\ cache'[i] # Nil => infos'[i].kinds \subseteq cache'[i].kinds
               /\ infos'[i] = Nil /\ cache'[i] # Nil => cache'[i].kinds = {} \/ (job.pc = "erase" /\ job.id = i)
    <3>1. \A o \in data'[i] : \E p \in data[i] : o[1] = p[1]
      BY <1>7, <1>8
    <3>2. infos[i] = Nil => data'[i] = {}
      BY <1>4, <3>1 DEF LinksInv
    <3>3. infos[i] # Nil => \A o \in data'[i] : o[1] \in infos'[i].kinds
      BY <1>4, <1>5, <3>1 DEF LinksInv
    <3> QED BY <1>3, <1>4, <1>5, <3>2, <3>3 DEF LinksInv
  <2> QED BY <1>1, <2>1 DEF LinksInv
<1>15. OwnersInv'
  BY <1>1, <1>4, <1>5 DEF OwnersInv, ShardTypes, Busy
<1>16. PluggedInv'
  BY <1>1, <1>4, <1>5 DEF PluggedInv, ShardTypes
<1>17. CacheInv'
  <2>1. \A i \in Ids : Halfway(i)' <=> Halfway(i)
    BY <1>1 DEF Halfway
  <2> QED BY <1>1, <1>3, <1>4, <2>1 DEF CacheInv
<1>18. VersionsInv'
  <2> SUFFICES ASSUME ~overtaken' PROVE VersionsInv'
    BY DEF VersionsInv
  <2>1. ~overtaken /\ job.pc \notin Cleaning
    BY <1>1
  <2>2. /\ \A a, b \in mounted : a = b
        /\ \A s \in mounted : \A kk \in Kinds : Current(s, kk) /\ hashes[s][kk] = version[kk]
    BY <2>1 DEF VersionsInv, Cleaning
  <2>3. mounted \subseteq ActiveShards
    BY <1>1, <2>1 DEF PluggedInv, ActiveShards, ShardTypes, Cleaning
  <2>4. ActiveShards # {} => mounted = {target}
    <3>1. ActiveShards # {} => target \in Holders(k) \cup mounted
      BY DEF PutKind
    <3>2. Holders(k) \subseteq mounted
      BY DEF Holders, Visible
    <3> QED BY <2>2, <3>1, <3>2
  <2>5. /\ \A s \in mounted : /\ hashes'[s][k] = version[k] + 1
                              /\ \A kk \in Kinds \ {k} : hashes'[s][kk] = hashes[s][kk]
        /\ \A i \in Ids \ mounted : hashes'[i] = hashes[i]
    BY <1>1, <2>3, <2>4 DEF ShardTypes
  <2>6. \A s \in mounted : \A kk \in Kinds : hashes'[s][kk] = version'[kk]
    BY <1>6, <2>2, <2>5
  <2>7. \A s \in mounted : \A o \in data'[s] : o[1] \in Kinds /\ o[2] = version'[o[1]]
    <3>1. \A s \in mounted : \A o \in data[s] : o[1] \in Kinds /\ o[2] = version[o[1]]
      BY <1>7, <1>8, <2>2 DEF Current, Objects
    <3> QED BY <1>7, <1>8, <3>1
  <2>8. \A i \in Ids : \A o \in data'[i] : o[2] = hashes'[i][o[1]]
    <3>1. ASSUME NEW i \in Ids \ mounted, NEW o \in data'[i] PROVE o[2] = hashes'[i][o[1]]
      BY <1>8, <2>1, <2>5 DEF VersionsInv
    <3> QED BY <2>6, <2>7, <3>1
  <2> QED BY <1>1, <2>1, <2>2, <2>6, <2>7, <2>8 DEF VersionsInv, Current, Cleaning
<1> QED BY <1>11, <1>12, <1>13, <1>14, <1>15, <1>16, <1>17, <1>18

\* A restart: nothing is mounted, every record is inactive, the cache is read anew.
LEMMA RestartKeeps ==
  ASSUME ShardInv, Restart
  PROVE  ShardInv'
<1> USE DEF ShardInv
<1>1. /\ disturbed = {}
      /\ infos' = [id \in Ids |-> IF infos[id] = Nil THEN Nil ELSE [infos[id] EXCEPT !.active = FALSE]]
      /\ cache' = infos' /\ mounted' = {} /\ media' = {} /\ unrecorded' = {}
      /\ job' = NoJob
      /\ client' = [c \in Clients |-> Resting]
      /\ overtaken' = (overtaken \/ job.pc \in Cleaning)
      /\ UNCHANGED <<data, hashes, version, disturbed>>
  BY DEF Restart, Undisturbed
<1>2. job' \in JobRec /\ job'.pc = "idle" /\ job'.device = Nil
  BY <1>1, NoJobType
<1>3. client' \in [Clients -> ClientRec] /\ \A c \in Clients : client'[c].pc = "idle"
  BY <1>1, RestingType
<1>4. /\ infos' \in [Ids -> Records]
      /\ \A i \in Ids : /\ infos'[i] = Nil <=> infos[i] = Nil
                        /\ infos[i] # Nil => /\ ~infos'[i].active /\ infos'[i].device = infos[i].device
                                             /\ infos'[i].kinds = infos[i].kinds
  <2>1. ASSUME NEW i \in Ids, infos[i] # Nil
        PROVE  /\ infos'[i] \in ShardInfo \ {Nil} /\ ~infos'[i].active /\ infos'[i].device = infos[i].device
               /\ infos'[i].kinds = infos[i].kinds
    <3>1. infos'[i] = [infos[i] EXCEPT !.active = FALSE]
      BY <1>1, <2>1
    <3>2. PICK r \in ShardInfo : r = infos[i]
      BY <2>1 DEF ShardTypes, Records
    <3>3. [r EXCEPT !.active = FALSE] \in ShardInfo \ {Nil} /\ [r EXCEPT !.active = FALSE].active = FALSE
          /\ [r EXCEPT !.active = FALSE].device = r.device /\ [r EXCEPT !.active = FALSE].kinds = r.kinds
      BY ActiveChanged
    <3> QED BY <3>1, <3>2, <3>3
  <2>2. \A i \in Ids : infos[i] = Nil => infos'[i] = Nil
    BY <1>1
  <2>3. infos' = [i \in Ids |-> infos'[i]]
    BY <1>1
  <2> QED BY <2>1, <2>2, <2>3 DEF Records
<1>5. ShardTypes'
  BY <1>1, <1>2, <1>3, <1>4 DEF ShardTypes, Busy, Copying, Caching, Cleaning, Putting
<1>6. RecordsInv'
  BY <1>1, <1>2 DEF RecordsInv, Copying, Caching, Cleaning
<1>7. WritersInv'
  BY <1>2, <1>3 DEF WritersInv, HalfClient, Caching, Putting
<1>8. LinksInv'
  BY <1>1, <1>4 DEF LinksInv
<1>9. OwnersInv' /\ PluggedInv'
  BY <1>1, <1>2, <1>4 DEF OwnersInv, PluggedInv, Busy, Copying, Caching, Cleaning
<1>10. CacheInv'
  BY <1>1 DEF CacheInv
<1>11. VersionsInv'
  BY <1>1, <1>2 DEF VersionsInv, Cleaning
<1> QED BY <1>5, <1>6, <1>7, <1>8, <1>9, <1>10, <1>11

-----------------------------------------------------------------------------
(* The theorems *)

\* Every step of the media handler keeps the invariant.
LEMMA HandlerStepKeeps == ASSUME ShardInv, HandlerStep PROVE ShardInv'
<1>1. ASSUME NEW d \in Devices, HandleRegister(d) \/ LookUp(d) \/ LookUpFails(d) PROVE ShardInv'
  BY <1>1, HandleRegisterKeeps, LookUpKeeps, LookUpFailsKeeps
<1>2. ASSUME NEW devices \in SUBSET Devices, HandleDeviceListResponse(devices) PROVE ShardInv'
  BY <1>2, HandleDeviceListResponseKeeps
<1>3. ASSUME NEW b \in BOOLEAN, MountShard(b) \/ RecordActive(b) \/ InactiveFails(b) PROVE ShardInv'
  BY <1>3, MountShardKeeps, RecordActiveKeeps, InactiveFailsKeeps
<1>4. ASSUME NEW pc \in {"garbage", "blocking"}, RecordFails(pc) PROVE ShardInv'
  BY <1>4, RecordFailsKeeps
<1> QED BY <1>1, <1>2, <1>3, <1>4, HandlerDoneKeeps, UnMountShardKeeps, RecordInactiveKeeps,
           RemoveTransientShardKeeps, CacheInactiveKeeps DEF HandlerStep

\* Every step after a mount keeps the invariant.
LEMMA GarbageStepKeeps == ASSUME ShardInv, GarbageStep PROVE ShardInv'
<1>1. ASSUME NEW pc \in {"drop", "hashes", "leaked"}, LoadHashes(pc) PROVE ShardInv'
  BY <1>1, LoadHashesKeeps
<1>2. ASSUME NEW h \in job.todo, KeepHash(h) \/ DelKindData(h) PROVE ShardInv'
  BY <1>2, KeepHashKeeps, DelKindDataKeeps
<1>3. ASSUME NEW h \in job.todo, NEW pc \in {"hashes", "blocking", "leaked"},
             NEW gone \in SUBSET OfKind(job.id, h[2]), DropObjectStops(h, gone, pc) PROVE ShardInv'
  BY <1>3, DropObjectStopsKeeps
<1>4. ASSUME NEW h \in job.todo, NEW target \in Ids, SaveHash(h, target) PROVE ShardInv'
  BY <1>4, SaveHashKeeps
<1>5. ASSUME NEW linked \in BOOLEAN, AbortRequest(linked) PROVE ShardInv'
  BY <1>5, AbortRequestKeeps
<1> QED BY <1>1, <1>2, <1>3, <1>4, <1>5, GarbageDoneKeeps, ReadHashLinkKeeps, LinkHashKindKeeps,
           SaveHashFailsKeeps, HashesDoneKeeps DEF GarbageStep

\* Every step of a client keeps the invariant.
LEMMA ClientStepKeeps == ASSUME ShardInv, NEW c \in Clients, ClientStep(c) PROVE ShardInv'
<1>1. ASSUME NEW id \in Ids, ReadMode(c, id) \/ PurgeShardObjects(c, id) PROVE ShardInv'
  BY <1>1, ReadModeKeeps, PurgeShardObjectsKeeps
<1>2. ASSUME NEW id \in Ids, NEW k \in Kinds, CheckShard(c, id, k) PROVE ShardInv'
  BY <1>2, CheckShardKeeps
<1>3. ASSUME NEW b \in BOOLEAN, SetMode(c, b) \/ CacheMode(c, b) PROVE ShardInv'
  BY <1>3, SetModeKeeps, CacheModeKeeps
<1>4. ASSUME NEW b \in BOOLEAN, ReadLink(c, b) \/ Link(c, b) PROVE ShardInv'
  BY <1>4, ReadLinkKeeps, LinkKeeps
<1>5. ASSUME NEW stored \in BOOLEAN, NEW record \in BOOLEAN, CommitPut(c, stored, record) PROVE ShardInv'
  BY <1>5, CommitPutKeeps
<1>6. ASSUME NEW gone \in SUBSET data[client[c].id], RemoveShardObjects(c, gone) PROVE ShardInv'
  BY <1>6, RemoveShardObjectsKeeps
<1> QED BY <1>1, <1>2, <1>3, <1>4, <1>5, <1>6, PutObjectKeeps DEF ClientStep

\* Every step keeps the invariant.
LEMMA NextKeeps == ShardInv /\ [Next]_shardVars => ShardInv'
<1> SUFFICES ASSUME ShardInv, [Next]_shardVars PROVE ShardInv'
  OBVIOUS
<1>1. CASE UNCHANGED shardVars
  <2> USE <1>1 DEF shardVars, ShardInv
  <2>1. ShardTypes' /\ RecordsInv' /\ LinksInv' /\ OwnersInv' /\ PluggedInv'
    BY DEF ShardTypes, RecordsInv, LinksInv, OwnersInv, PluggedInv
  <2>2. WritersInv' /\ CacheInv' /\ VersionsInv'
    BY DEF WritersInv, HalfJob, HalfClient, CacheInv, Halfway, VersionsInv, Current
  <2> QED BY <2>1, <2>2
<1>2. ASSUME NEW k \in Kinds, NEW target \in Ids, PutKind(k, target) PROVE ShardInv'
  BY <1>2, PutKindKeeps
<1>3. ASSUME NEW S \in SUBSET Ids, PutKindFails(S) PROVE ShardInv'
  BY <1>3, PutKindFailsKeeps
<1> QED BY <1>1, <1>2, <1>3, HandlerStepKeeps, GarbageStepKeeps, ClientStepKeeps, RestartKeeps DEF Next, KindStep

\* Whatever the devices, kinds, clients and checksums are: an undisturbed record has
\* one writer halfway at most, which started from the record itself, and the recorded
\* versions are those of the objects.
THEOREM ShardInvAlways == Spec => []ShardInv
<1> QED BY InitKeeps, NextKeeps, PTL DEF Spec

\* The shard records (MojDbShardEngine), its cache, what the engine has mounted and the
\* devices of the media handler agree, each kind on a shard is linked, and a mounted
\* shard has no objects of outdated kinds, except where two wrote a record at once or
\* a job failed.
THEOREM ShardsAgreeAlways == Spec => []ShardsAgree
<1>1. ShardInv => ShardsAgree
  <2> SUFFICES ASSUME ShardInv PROVE ShardsAgree
    OBVIOUS
  <2> USE DEF ShardInv
  <2>1. MountedIsActive
    BY DEF MountedIsActive, CacheInv, PluggedInv
  <2>2. UnpluggedIsUnmounted
    BY DEF UnpluggedIsUnmounted, PluggedInv, ShardTypes
  <2>3. DeviceKeepsShard
    <3>1. ASSUME NEW d \in Devices PROVE Cardinality(ByDevice(d) \ disturbed) <= 1
      <4> DEFINE S == ByDevice(d) \ disturbed
      <4>1. \A a, b \in S : a = b
        BY DEF OwnersInv, ByDevice
      <4>2. S = {} \/ \E a \in S : S = {a}
        BY <4>1
      <4> HIDE DEF S
      <4>3. Cardinality(S) = 0 \/ Cardinality(S) = 1
        BY <4>2, FS_EmptySet, FS_Singleton
      <4>4. Cardinality(S) <= 1
        BY <4>3
      <4> QED BY <4>4 DEF S
    <3> QED BY <3>1 DEF DeviceKeepsShard, OwnersInv, ShardTypes
  <2>4. KindsLinked
    <3>1. ASSUME NEW i \in Ids \ disturbed, cache[i] # Nil, NEW o \in data[i] PROVE o[1] \in cache[i].kinds
      BY <3>1 DEF LinksInv
    <3>2. ASSUME NEW i \in Ids \ disturbed, cache[i] # Nil PROVE {o[1] : o \in data[i]} \subseteq cache[i].kinds
      BY <3>1, <3>2
    <3> QED BY <3>2 DEF KindsLinked
  <2>5. GarbageDropped
    BY DEF GarbageDropped, VersionsInv, Current, ShardTypes, Objects
  <2> QED BY <2>1, <2>2, <2>3, <2>4, <2>5 DEF ShardsAgree
<1> QED BY <1>1, ShardInvAlways, PTL

-----------------------------------------------------------------------------
(***************************************************************************)
(* Backups and purges.  A revision is given out once and commits later, so *)
(* the argument is about the order of revisions: it is the order of days,  *)
(* also for what is not committed yet, and neither a client's key nor a    *)
(* purge goes beyond the revisions that were given out.                    *)
(***************************************************************************)

\* Objects, stamps and the purge's other points in time: a revision and the day it
\* was given out.
ObjectRec == [rev : Nat, del : BOOLEAN, day : Nat]
PointRec == [rev : Nat, day : Nat]
PurgeRec == [pc : {"idle", "begun", "batch", "state"}, rev : Nat, day : Nat, window : Nat, own : PointRec,
             gone : SUBSET ObjIds, batched : BOOLEAN, alert : Levels \cup {None}, removed : BOOLEAN]

AdminTypes ==
  /\ rev \in Nat /\ kindRev \in Nat /\ day \in Nat /\ lastPurged \in Nat /\ kindCopy \in Nat
  /\ object \in [ObjIds -> ObjectRec \cup {None}] /\ copy \in [ObjIds -> ObjectRec \cup {None}]
  /\ writer \in [Writers -> [id : ObjIds, new : ObjectRec] \cup {None}]
  /\ stamps \in SUBSET PointRec /\ IsFiniteSet(stamps)
  /\ purge \in PurgeRec /\ level \in Levels \cup {None}
  /\ dump \in [pc : {"idle", "deleted"}, newRev : Nat, room : Int]
  /\ key \in [rev : Nat, del : Nat]
  /\ load \in SUBSET (ObjIds \X BOOLEAN \X BOOLEAN)
  /\ late \in SUBSET ObjIds /\ missed \in SUBSET ObjIds /\ unstored \in SUBSET ObjIds

\* The points a purge goes by: the stamps, its own, and the one it found.
Points == stamps \cup (IF purge.pc # "idle" THEN {purge.own, [rev |-> purge.rev, day |-> purge.day]} ELSE {})

\* Every revision in use was given out before.
GivenOut ==
  /\ \A id \in ObjIds : object[id] # None => object[id].rev \in 1 .. rev /\ object[id].day <= day
  /\ \A w \in Writers : writer[w] # None => writer[w].new.rev \in 1 .. rev /\ writer[w].new.day <= day
  /\ \A s \in Points : s.rev <= rev /\ s.day <= day
  /\ kindRev <= rev /\ lastPurged <= rev
  /\ key.rev <= rev /\ key.del <= rev /\ dump.newRev <= rev
  /\ dump.pc = "idle" => dump.newRev = 0

\* The order of revisions is the order of days, also for what is not committed; a
\* purge stores revisions that only grow.
InOrder ==
  /\ \A s, t \in Points : s.rev <= t.rev => s.day <= t.day
  /\ \A id \in ObjIds, s \in Points : object[id] # None /\ object[id].rev <= s.rev => object[id].day <= s.day
  /\ \A w \in Writers, s \in Points : writer[w] # None /\ writer[w].new.rev <= s.rev => writer[w].new.day <= s.day
  /\ \A s \in Points : lastPurged <= s.rev
  /\ purge.pc # "idle" => purge.rev <= purge.own.rev /\ purge.day + purge.window <= day

\* What the client's key says, what it will say when the dump is over, and what the
\* state of a batch that is not stored yet will show.
Covered ==
  /\ \A id \in Synced \ late :
        /\ Live(object[id]) /\ (object[id].rev <= key.rev \/ object[id].rev <= dump.newRev) => copy[id] = object[id]
        /\ Marker(object[id]) /\ object[id].rev <= key.del => ~Live(copy[id])
  /\ kindRev <= key.rev \/ dump.pc = "deleted" => kindCopy = kindRev
  /\ PurgeIsVisible
  /\ \A id \in (Synced \cap purge.gone) \ (late \cup missed) :
        object[id] = None /\ Live(copy[id]) => purge.rev > key.del

AdminInv == AdminTypes /\ GivenOut /\ InOrder /\ Covered

-----------------------------------------------------------------------------
\* A pass that is not cut short wrote all it wanted; it reached none of what it
\* left out.
IsPass(p, wanted) ==
  /\ p.ids \in SUBSET wanted /\ IsFiniteSet(p.ids)
  /\ p.rev \in 0 .. rev /\ p.full \in BOOLEAN
  /\ \A id \in wanted : object[id].rev <= p.rev => id \in p.ids
  /\ ~p.full => p.ids = wanted

\* One pass of a dump writes the first records by revision, and its part of the
\* incremental key covers exactly those (dumpImpl(), insertIncrementalKey()).
LEMMA PassIs ==
  ASSUME AdminAssumption, NEW wanted \in SUBSET ObjIds, NEW room \in Int, rev \in Nat,
         \A id \in wanted : object[id] \in ObjectRec /\ object[id].rev \in 1 .. rev
  PROVE  IsPass(Pass(wanted, room), wanted)
<1> DEFINE first(id) == {i \in wanted : object[i].rev < object[id].rev}
           ids == {id \in wanted : Cardinality(first(id)) < room}
           revs == {object[id].rev : id \in ids}
           p == [ids |-> ids, rev |-> Reached(ids), full |-> ids # wanted]
<1>1. IsFiniteSet(wanted) /\ IsFiniteSet(ids)
  <2>1. IsFiniteSet(wanted)
    BY FS_Subset DEF AdminAssumption
  <2> QED BY <2>1, FS_Subset
<1>2. \A r \in revs : r \in Nat /\ r \in 0 .. rev
  <2>1. ids \in SUBSET wanted
    OBVIOUS
  <2> HIDE DEF ids
  <2> QED BY <2>1
<1>3. IsFiniteSet(revs)
  <2> HIDE DEF revs
  <2> QED BY <1>2, FS_BoundedSetOfNaturals
<1>4. \A id \in ids, i \in wanted : object[i].rev <= object[id].rev => i \in ids
  <2> SUFFICES ASSUME NEW id \in ids, NEW i \in wanted, object[i].rev <= object[id].rev
               PROVE  Cardinality(first(i)) < room
    OBVIOUS
  <2>1. first(i) \in SUBSET first(id) /\ first(id) \in SUBSET wanted
    <3>1. object[id].rev \in Nat /\ object[i].rev \in Nat
      OBVIOUS
    <3>2. \A j \in wanted : object[j].rev \in Nat
      OBVIOUS
    <3> QED BY <3>1, <3>2
  <2>2. Cardinality(first(id)) < room
    OBVIOUS
  <2> HIDE DEF first, ids
  <2>3. IsFiniteSet(first(id))
    BY <2>1, <1>1, FS_Subset
  <2>4. Cardinality(first(i)) <= Cardinality(first(id)) /\ Cardinality(first(i)) \in Nat /\ Cardinality(first(id)) \in Nat
    BY <2>1, <2>3, FS_Subset, FS_CardinalityType
  <2> QED BY <2>2, <2>4
<1>5. Reached(ids) \in 0 .. rev /\ \A i \in wanted : object[i].rev <= Reached(ids) => i \in ids
  <2>1. CASE ids = {}
    <3>1. Reached(ids) = 0
      BY <2>1 DEF Reached
    <3>2. \A i \in wanted : ~(object[i].rev <= 0)
      OBVIOUS
    <3> HIDE DEF ids
    <3> QED BY <3>1, <3>2
  <2>2. CASE ids # {}
    <3>1. Reached(ids) = Max(revs)
      BY <2>2 DEF Reached
    <3>2. revs # {} /\ revs \in SUBSET Nat
      BY <2>2, <1>2
    <3> HIDE DEF revs
    <3>3. Max(revs) \in revs
      BY <3>2, <1>3, MaxIn
    <3> USE DEF revs
    <3>4. PICK id \in ids : object[id].rev = Max(revs)
      BY <3>3
    <3> HIDE DEF ids, revs
    <3>5. Max(revs) \in 0 .. rev
      BY <3>3, <1>2
    <3> QED BY <3>1, <3>4, <3>5, <1>4
  <2> QED BY <2>1, <2>2
<1>6. Pass(wanted, room) = p
  BY DEF Pass
<1>7. IsPass(p, wanted)
  <2> HIDE DEF first
  <2> HIDE DEF ids
  <2>0. ids \in SUBSET wanted
    BY DEF ids
  <2>1. p.ids = ids /\ p.rev = Reached(ids) /\ p.full = (ids # wanted)
    BY Zenon
  <2>2. p.full \in BOOLEAN /\ (~p.full => p.ids = wanted)
    BY <2>1, Zenon
  <2> HIDE DEF p
  <2> QED BY <2>0, <2>1, <2>2, <1>1, <1>5 DEF IsPass
<1> QED BY <1>6, <1>7

-----------------------------------------------------------------------------
\* A client's backups start empty, and so does the database.
LEMMA AdminInvInit == ASSUME AdminAssumption, AdminInit PROVE AdminInv
<1> USE DEF AdminInit
<1>1. AdminTypes
  BY FS_EmptySet DEF AdminTypes, NoPurge, NoDump, PointRec, PurgeRec
<1>2. GivenOut /\ InOrder
  BY DEF GivenOut, InOrder, Points, NoPurge, NoDump
<1>3. Covered
  BY DEF Covered, PurgeIsVisible, Live, Marker, NoDump, NoPurge, AdminAssumption
<1> QED BY <1>1, <1>2, <1>3 DEF AdminInv

\* A write that is prepared takes a revision beyond all that were given out.
LEMMA TakeRevKeeps ==
  ASSUME AdminAssumption, AdminInv, NEW w \in Writers, NEW id \in ObjIds, NEW del \in BOOLEAN, TakeRev(w, id, del)
  PROVE  AdminInv'
<1> USE DEF AdminInv, TakeRev, Object
<1> DEFINE taken == IF del THEN day ELSE 0
<1>0. taken \in Nat /\ taken <= day
  BY DEF AdminTypes
<1>1. [rev |-> rev + 1, del |-> del, day |-> taken] \in ObjectRec
  BY <1>0 DEF AdminTypes, ObjectRec
<1>2. writer' \in [Writers -> [id : ObjIds, new : ObjectRec] \cup {None}]
  BY <1>1 DEF AdminTypes
<1>3. AdminTypes'
  BY <1>2 DEF AdminTypes
<1>4. Points' = Points
  BY DEF Points
<1>5. \A v \in Writers : writer'[v] = IF v = w THEN [id |-> id, new |-> [rev |-> rev + 1, del |-> del, day |-> taken]] ELSE writer[v]
  BY DEF AdminTypes
<1> HIDE DEF taken
<1>6. GivenOut'
  <2>1. \A v \in Writers : writer'[v] # None => writer'[v].new.rev \in 1 .. rev' /\ writer'[v].new.day <= day'
    BY <1>0, <1>5 DEF GivenOut, AdminTypes
  <2>2. \A i \in ObjIds : object[i] # None => object[i].rev \in 1 .. rev'
    BY DEF GivenOut, AdminTypes
  <2>3. \A s \in Points : s.rev <= rev'
    BY DEF GivenOut, AdminTypes, Points, PointRec, PurgeRec
  <2>4. kindRev <= rev' /\ lastPurged <= rev' /\ key.rev <= rev' /\ key.del <= rev' /\ dump.newRev <= rev'
    BY DEF GivenOut, AdminTypes
  <2> QED BY <1>4, <2>1, <2>2, <2>3, <2>4 DEF GivenOut
<1>7. InOrder'
  BY <1>4, <1>5 DEF GivenOut, InOrder, AdminTypes, Points, PointRec, PurgeRec
<1>8. Covered'
  BY DEF Covered, PurgeIsVisible, Live, Marker
<1> QED BY <1>3, <1>6, <1>7, <1>8

\* A commit that comes after a dump has passed its revision is counted as late.
LEMMA CommitKeeps ==
  ASSUME AdminAssumption, AdminInv, NEW w \in Writers, NEW ok \in BOOLEAN, Commit(w, ok)
  PROVE  AdminInv'
<1> USE DEF AdminInv
<1> DEFINE id == writer[w].id
           new == writer[w].new
<1>1. id \in ObjIds /\ new \in ObjectRec /\ new # None
  BY DEF Commit, AdminTypes, AdminAssumption, ObjectRec
<1>2. /\ \A i \in ObjIds : object'[i] = object[i] \/ (i = id /\ object'[i] = new /\ ok)
      /\ object' \in [ObjIds -> ObjectRec \cup {None}]
  BY <1>1 DEF Commit, AdminTypes
<1>3. /\ writer' \in [Writers -> [id : ObjIds, new : ObjectRec] \cup {None}]
      /\ \A v \in Writers : writer'[v] # None => writer'[v] = writer[v]
  BY DEF Commit, AdminTypes
<1>4. /\ late' \in SUBSET ObjIds /\ late \in SUBSET late'
      /\ ok /\ new.del /\ new.rev <= key.del => id \in late'
      /\ ok /\ ~new.del /\ (new.rev <= key.rev \/ new.rev <= dump.newRev) => id \in late'
  <2>1. new.rev \in Nat /\ key.rev \in Nat /\ key.del \in Nat /\ dump.newRev \in Nat
    BY <1>1 DEF AdminTypes, ObjectRec
  <2> QED BY <1>1, <2>1 DEF Commit, AdminTypes
<1>5. UNCHANGED <<rev, kindRev, day, stamps, lastPurged, purge, level, dump, key, copy, kindCopy, load, dumps, missed, unstored>>
  BY DEF Commit
<1>6. Points' = Points
  BY <1>5 DEF Points
<1>7. new.rev \in 1 .. rev /\ new.day <= day /\ \A s \in Points : new.rev <= s.rev => new.day <= s.day
  BY DEF Commit, GivenOut, InOrder
<1>8. AdminTypes'
  BY <1>2, <1>3, <1>4, <1>5 DEF AdminTypes
<1> HIDE DEF new, id
<1>9. GivenOut'
  BY <1>2, <1>3, <1>5, <1>6, <1>7 DEF GivenOut
<1>10. InOrder'
  BY <1>2, <1>3, <1>5, <1>6, <1>7 DEF InOrder
<1>11. Covered'
  <2>1. ASSUME NEW i \in Synced \ late'
        PROVE  /\ Live(object'[i]) /\ (object'[i].rev <= key.rev \/ object'[i].rev <= dump.newRev) => copy[i] = object'[i]
               /\ Marker(object'[i]) /\ object'[i].rev <= key.del => ~Live(copy[i])
    <3>1. i \in Synced \ late /\ i \in ObjIds
      BY <1>4 DEF AdminAssumption
    <3>2. CASE object'[i] = object[i]
      BY <3>1, <3>2 DEF Covered
    <3>3. CASE i = id /\ object'[i] = new /\ ok
      BY <3>3, <1>4 DEF Live, Marker
    <3> QED BY <3>1, <3>2, <3>3, <1>2
  <2>2. PurgeIsVisible'
    <3> SUFFICES ASSUME NEW i \in Synced \ (late \cup missed \cup unstored), object'[i] = None, Live(copy[i]) PROVE lastPurged > key.del
      BY <1>4, <1>5 DEF PurgeIsVisible, Live
    <3>1. object[i] = None
      BY <1>1, <1>2 DEF AdminAssumption
    <3> QED BY <3>1 DEF Covered, PurgeIsVisible
  <2>3. (kindRev <= key.rev \/ dump.pc = "deleted" => kindCopy = kindRev)'
    BY <1>5 DEF Covered
  <2>4. ASSUME NEW i \in (Synced \cap purge.gone) \ (late' \cup missed), object'[i] = None, Live(copy[i])
        PROVE  purge.rev > key.del
    <3>1. object[i] = None /\ i \notin late
      BY <1>1, <1>2, <1>4, <2>4 DEF AdminAssumption
    <3> QED BY <2>4, <3>1 DEF Covered
  <2> QED BY <1>5, <2>1, <2>2, <2>3, <2>4 DEF Covered, Live, Marker
<1> QED BY <1>8, <1>9, <1>10, <1>11

\* A kind that is put takes a revision that no client's key has reached.
LEMMA PutKindRevKeeps == ASSUME AdminAssumption, AdminInv, PutKindRev PROVE AdminInv'
<1> USE DEF AdminInv, PutKindRev
<1>1. AdminTypes'
  BY DEF AdminTypes
<1>2. Points' = Points
  BY DEF Points
<1>3. GivenOut'
  <2>1. \A i \in ObjIds : object[i] # None => object[i].rev \in 1 .. rev'
    BY DEF GivenOut, AdminTypes
  <2>2. \A v \in Writers : writer[v] # None => writer[v].new.rev \in 1 .. rev'
    BY DEF GivenOut, AdminTypes
  <2>3. \A s \in Points : s.rev <= rev'
    BY DEF GivenOut, AdminTypes, Points, PointRec, PurgeRec
  <2>4. kindRev' <= rev' /\ lastPurged <= rev' /\ key.rev <= rev' /\ key.del <= rev' /\ dump.newRev <= rev'
    BY DEF GivenOut, AdminTypes
  <2> QED BY <1>2, <2>1, <2>2, <2>3, <2>4 DEF GivenOut
<1>4. InOrder'
  BY <1>2 DEF InOrder
<1>5. Covered'
  <2>1. ~(kindRev' <= key.rev) /\ dump.pc # "deleted"
    BY DEF Exclusive, AdminTypes, GivenOut
  <2> QED BY <2>1 DEF Covered, PurgeIsVisible, Live, Marker
<1> QED BY <1>1, <1>3, <1>4, <1>5

\* The clock goes on, also while a purge counts its window.
LEMMA NextDayKeeps == ASSUME AdminAssumption, AdminInv, NextDay PROVE AdminInv'
<1> USE DEF AdminInv, NextDay
<1>1. AdminTypes'
  BY DEF AdminTypes
<1>2. Points' = Points
  BY DEF Points
<1>3. GivenOut'
  <2>1. \A i \in ObjIds : object[i] # None => object[i].day <= day'
    BY DEF GivenOut, AdminTypes, ObjectRec
  <2>2. \A v \in Writers : writer[v] # None => writer[v].new.day <= day'
    BY DEF GivenOut, AdminTypes, ObjectRec
  <2>3. \A s \in Points : s.day <= day'
    BY DEF GivenOut, AdminTypes, Points, PointRec, PurgeRec
  <2> QED BY <1>2, <2>1, <2>2, <2>3 DEF GivenOut
<1>4. InOrder'
  <2>1. purge.pc # "idle" => purge.day + purge.window <= day'
    BY DEF InOrder, AdminTypes, PurgeRec
  <2> QED BY <1>2, <2>1 DEF InOrder
<1>5. Covered'
  BY DEF Covered, PurgeIsVisible, Live, Marker
<1> QED BY <1>1, <1>3, <1>4, <1>5

\* A crash forgets the purge, the dump and what was not committed.
LEMMA CrashKeeps == ASSUME AdminAssumption, AdminInv, Crash PROVE AdminInv'
<1> USE DEF AdminInv, Crash
<1>1. AdminTypes'
  BY DEF AdminTypes, NoPurge, NoDump, PointRec, PurgeRec
<1>2. Points' \in SUBSET Points
  BY DEF Points, NoPurge
<1>3. GivenOut'
  BY <1>2 DEF GivenOut, NoDump, AdminTypes
<1>4. InOrder'
  BY <1>2 DEF InOrder, NoPurge
<1>5. Covered'
  <2>1. \A id \in Synced \ late : Live(object[id]) => ~(object[id].rev <= 0)
    BY DEF GivenOut, AdminTypes, Live, AdminAssumption, ObjectRec
  <2>2. dump'.newRev = 0 /\ dump'.pc = "idle" /\ purge'.gone = {}
    BY DEF NoDump, NoPurge
  <2> QED BY <2>1, <2>2 DEF Covered, PurgeIsVisible, Live, Marker
<1> QED BY <1>1, <1>3, <1>4, <1>5

\* Among the stamps there is one that no other is newer than.
LEMMA NewestStamp ==
  ASSUME NEW old \in SUBSET PointRec, IsFiniteSet(old), old # {},
         \A s, t \in old : s.rev <= t.rev => s.day <= t.day
  PROVE  \E s \in old : \A t \in old : s.day > t.day \/ (s.day = t.day /\ s.rev >= t.rev)
<1> DEFINE revs == {s.rev : s \in old}
           top == CHOOSE r \in revs : \A q \in revs : r >= q
<1>1. \A r \in revs : r \in Nat
  BY DEF PointRec
<1>2. IsFiniteSet(revs)
  <2> DEFINE f == [s \in old |-> s.rev]
  <2>1. f \in Surjection(old, revs)
    BY DEF Surjection
  <2> HIDE DEF f, revs
  <2> QED BY <2>1, FS_Surjection
<1>3. revs # {}
  OBVIOUS
<1>4. PICK s \in old : \A r \in revs : s.rev >= r
  <2> HIDE DEF revs
  <2>1. Max(revs) \in revs /\ \A r \in revs : r <= Max(revs)
    BY <1>1, <1>2, <1>3, MaxIn
  <2>2. \A r \in revs : Max(revs) >= r
    BY <2>1, <1>1
  <2> QED BY <2>1, <2>2 DEF revs
<1>5. ASSUME NEW t \in old PROVE s.day > t.day \/ (s.day = t.day /\ s.rev >= t.rev)
  <2>1. s.rev \in Nat /\ t.rev \in Nat /\ s.day \in Nat /\ t.day \in Nat
    BY DEF PointRec
  <2>2. s.rev >= t.rev
    BY <1>4
  <2>3. t.day <= s.day
    BY <2>1, <2>2
  <2> QED BY <2>1, <2>2, <2>3
<1> QED BY <1>5

\* A purge that begins finds a stamp whose revision and day the order holds for, if
\* there is one that is old enough.
LEMMA BeginPurgeKeeps ==
  ASSUME AdminAssumption, AdminInv, NEW window \in Nat, NEW batched \in BOOLEAN, NEW alert \in Levels \cup {None},
         BeginPurge(window, batched, alert),
         UNCHANGED <<object, kindRev, writer, day, lastPurged, dump, key, copy, kindCopy, load, dumps, late, missed, unstored>>
  PROVE  AdminInv'
<1> USE DEF AdminInv
<1> DEFINE own == [rev |-> rev + 1, day |-> day]
           all == stamps \cup {own}
           old == OldStamps(all, window)
           found == CHOOSE s \in old : \A t \in old : s.day > t.day \/ (s.day = t.day /\ s.rev >= t.rev)
<1>1. /\ purge.pc = "idle" /\ rev' = rev + 1
      /\ \/ stamps' = all /\ purge' = purge
         \/ /\ old # {}
            /\ purge' = [NoPurge EXCEPT !.pc = "begun", !.rev = found.rev, !.day = found.day, !.window = window,
                                        !.own = own, !.batched = batched, !.alert = alert]
            /\ stamps' = stamps
      /\ level' \in {level, alert}
  BY DEF BeginPurge
<1>2. own \in PointRec /\ own.rev = rev + 1 /\ own.day = day /\ rev \in Nat /\ day \in Nat
  BY DEF PointRec, AdminTypes
<1>3. Points = stamps
  BY <1>1 DEF Points
<1>4. stamps \in SUBSET PointRec /\ IsFiniteSet(stamps)
  BY DEF AdminTypes
<1> HIDE DEF own
<1>5. /\ all \in SUBSET PointRec /\ IsFiniteSet(all)
      /\ \A s \in all : s.rev \in 0 .. rev' /\ s.day \in 0 .. day /\ lastPurged <= s.rev
      /\ \A s, t \in all : s.rev <= t.rev => s.day <= t.day
  <2>1. all \in SUBSET PointRec /\ IsFiniteSet(all)
    BY <1>2, <1>4, FS_AddElement
  <2>2. \A s \in stamps : s.rev \in 0 .. rev /\ s.day \in 0 .. day /\ lastPurged <= s.rev
    BY <1>3, <1>4 DEF GivenOut, InOrder, PointRec
  <2>3. lastPurged <= own.rev
    BY <1>2 DEF GivenOut, AdminTypes
  <2>4. \A s \in all : s.rev \in 0 .. rev' /\ s.day \in 0 .. day /\ lastPurged <= s.rev
    BY <1>1, <1>2, <2>2, <2>3
  <2>5. \A s, t \in stamps : s.rev <= t.rev => s.day <= t.day
    BY <1>3 DEF InOrder
  <2>6. \A s \in stamps : s.day <= own.day /\ ~(own.rev <= s.rev)
    BY <1>2, <2>2
  <2>7. own.day <= own.day
    BY <1>2
  <2> QED BY <2>1, <2>4, <2>5, <2>6, <2>7
<1>6. old # {} => found \in all /\ found.day + window <= day
  <2>0. old \in SUBSET all /\ \A s \in old : s.day + window <= day
    BY DEF OldStamps
  <2>1. SUFFICES ASSUME old # {} PROVE found \in old
    BY <2>0
  <2> HIDE DEF all, old
  <2>2. IsFiniteSet(old) /\ old \in SUBSET PointRec
    BY <2>0, <1>5, FS_Subset
  <2>3. \A s, t \in old : s.rev <= t.rev => s.day <= t.day
    BY <2>0, <1>5
  <2>4. \E s \in old : \A t \in old : s.day > t.day \/ (s.day = t.day /\ s.rev >= t.rev)
    BY <2>1, <2>2, <2>3, NewestStamp
  <2> QED BY <2>4
<1>7. own \in all
  OBVIOUS
<1>8. /\ Points' \in SUBSET all /\ stamps' \in SUBSET all /\ IsFiniteSet(stamps')
      /\ purge' \in PurgeRec
      /\ purge'.pc # "idle" => purge'.rev <= purge'.own.rev /\ purge'.day + purge'.window <= day
      /\ purge' = purge \/ purge'.gone = {}
  <2> HIDE DEF old, found
  <2>1. CASE stamps' = all /\ purge' = purge
    BY <1>1, <1>5, <2>1 DEF Points, AdminTypes
  <2>2. CASE /\ old # {}
             /\ purge' = [NoPurge EXCEPT !.pc = "begun", !.rev = found.rev, !.day = found.day, !.window = window,
                                         !.own = own, !.batched = batched, !.alert = alert]
             /\ stamps' = stamps
    <3>1. found \in all /\ found \in PointRec
      BY <1>5, <1>6, <2>2
    <3>2. /\ purge'.pc = "begun" /\ purge'.rev = found.rev /\ purge'.day = found.day
          /\ purge'.window = window /\ purge'.own = own /\ purge'.gone = {}
          /\ purge'.batched = batched /\ purge'.alert = alert /\ purge'.removed = FALSE
          /\ purge' = [pc |-> "begun", rev |-> found.rev, day |-> found.day, window |-> window, own |-> own,
                       gone |-> {}, batched |-> batched, alert |-> alert, removed |-> FALSE]
      BY <2>2 DEF NoPurge
    <3>3. [rev |-> found.rev, day |-> found.day] = found
      BY <3>1 DEF PointRec
    <3>4. Points' = stamps \cup {own, found}
      BY <2>2, <3>2, <3>3 DEF Points
    <3>5. found.rev <= own.rev
      BY <3>1, <1>1, <1>2, <1>5
    <3> HIDE DEF all
    <3>6. purge' \in PurgeRec
      BY <3>1, <3>2, <1>2 DEF PointRec, PurgeRec
    <3>7. stamps \in SUBSET all
      BY DEF all
    <3> QED BY <2>2, <3>1, <3>2, <3>4, <3>5, <3>6, <3>7, <1>4, <1>6, <1>7
  <2> QED BY <1>1, <2>1, <2>2
<1> HIDE DEF all, old, found
<1>9. AdminTypes'
  BY <1>1, <1>2, <1>5, <1>8 DEF AdminTypes
<1>10. GivenOut'
  <2>1. \A i \in ObjIds : object[i] # None => object[i].rev \in 1 .. rev'
    BY <1>1 DEF GivenOut, AdminTypes
  <2>2. \A v \in Writers : writer[v] # None => writer[v].new.rev \in 1 .. rev'
    BY <1>1 DEF GivenOut, AdminTypes
  <2>3. \A s \in Points' : s.rev <= rev' /\ s.day <= day
    BY <1>5, <1>8
  <2>4. kindRev <= rev' /\ lastPurged <= rev' /\ key.rev <= rev' /\ key.del <= rev' /\ dump.newRev <= rev'
    BY <1>1 DEF GivenOut, AdminTypes
  <2> QED BY <2>1, <2>2, <2>3, <2>4 DEF GivenOut
<1>11. InOrder'
  <2>1. \A i \in ObjIds, s \in Points' : object[i] # None /\ object[i].rev <= s.rev => object[i].day <= s.day
    <3> SUFFICES ASSUME NEW i \in ObjIds, NEW s \in all, object[i] # None, object[i].rev <= s.rev
                 PROVE  object[i].day <= s.day
      BY <1>8
    <3>1. object[i].day <= day
      BY DEF GivenOut
    <3> QED BY <3>1, <1>2, <1>3 DEF InOrder, all
  <2>2. \A v \in Writers, s \in Points' : writer[v] # None /\ writer[v].new.rev <= s.rev => writer[v].new.day <= s.day
    <3> SUFFICES ASSUME NEW v \in Writers, NEW s \in all, writer[v] # None, writer[v].new.rev <= s.rev
                 PROVE  writer[v].new.day <= s.day
      BY <1>8
    <3>1. writer[v].new.day <= day
      BY DEF GivenOut
    <3> QED BY <3>1, <1>2, <1>3 DEF InOrder, all
  <2> QED BY <2>1, <2>2, <1>5, <1>8 DEF InOrder
<1>12. Covered'
  <2>1. \A id \in (Synced \cap purge'.gone) \ (late \cup missed) :
            object[id] = None /\ Live(copy[id]) => purge'.rev > key.del
    <3>1. CASE purge' = purge
      BY <3>1 DEF Covered
    <3>2. CASE purge'.gone = {}
      BY <3>2
    <3> QED BY <1>8, <3>1, <3>2
  <2> HIDE DEF found, old
  <2> QED BY <2>1 DEF Covered, PurgeIsVisible, Live, Marker
<1> QED BY <1>9, <1>10, <1>11, <1>12

\* The batch is made of markers up to the revision that the purge found.
LEMMA BatchIs ==
  ASSUME AdminAssumption, AdminInv
  PROVE  /\ Batch \in SUBSET ObjIds /\ IsFiniteSet(Batch) /\ (Batch # {} => Cardinality(Batch) > 0)
         /\ \A id \in Batch : Marker(object[id]) /\ object[id].rev <= purge.rev
<1>1. Batch \in SUBSET Due
  BY DEF Batch
<1>2. Due \in SUBSET ObjIds /\ \A id \in Due : Marker(object[id]) /\ object[id].rev <= purge.rev
  BY DEF Due
<1>3. IsFiniteSet(Batch)
  BY <1>1, <1>2, FS_Subset DEF AdminAssumption
<1>4. Batch # {} => Cardinality(Batch) > 0
  BY <1>3, FS_EmptySet, FS_CardinalityType
<1> QED BY <1>1, <1>2, <1>3, <1>4

\* A step of a purge that removes markers up to its revision, stores that revision only
\* with the removal of the older stamps, and leaves what is purged visible, keeps the
\* invariant.
LEMMA RemovalKeeps ==
  ASSUME AdminAssumption, AdminInv, purge.pc # "idle", NEW gone \in SUBSET ObjIds,
         \A id \in gone : Marker(object[id]),
         object' = Without(gone),
         stamps' \in SUBSET (stamps \cup OwnStamp),
         \/ lastPurged' = lastPurged
         \/ lastPurged' = purge.rev /\ \A s \in stamps' : s.day > purge.day,
         purge' \in PurgeRec, level' \in Levels \cup {None}, unstored' \in SUBSET ObjIds,
         \/ purge'.pc = "idle"
         \/ purge'.rev = purge.rev /\ purge'.day = purge.day /\ purge'.window = purge.window /\ purge'.own = purge.own,
         UNCHANGED <<rev, kindRev, writer, day, dump, key, copy, kindCopy, load, dumps, late, missed>>,
         PurgeIsVisible',
         \A id \in (Synced \cap purge'.gone) \ (late \cup missed) :
             object'[id] = None /\ Live(copy[id]) => purge'.rev > key.del
  PROVE  AdminInv'
<1> USE DEF AdminInv
<1> DEFINE found == [rev |-> purge.rev, day |-> purge.day]
<1>1. purge.rev \in Nat /\ purge.day \in Nat /\ purge.own \in PointRec /\ lastPurged \in Nat
  BY DEF AdminTypes, PurgeRec
<1>2. /\ purge.own \in Points /\ found \in Points /\ stamps \cup OwnStamp \in SUBSET Points
      /\ found.rev = purge.rev /\ found.day = purge.day
      /\ Points \in SUBSET PointRec
  BY <1>1 DEF Points, PointRec, AdminTypes, OwnStamp
<1>3. lastPurged <= purge.rev /\ purge.rev <= rev /\ purge.rev <= purge.own.rev
  BY <1>2 DEF InOrder, GivenOut
<1>4. ASSUME NEW s \in Points, s.day > purge.day PROVE purge.rev <= s.rev
  <2>1. s.rev <= found.rev => s.day <= found.day
    BY <1>2 DEF InOrder
  <2>2. s.rev \in Nat /\ s.day \in Nat
    BY <1>2 DEF PointRec
  <2> QED BY <1>4, <2>1, <2>2, <1>1, <1>2
<1>5. Points' \in SUBSET (stamps' \cup {purge.own, found}) /\ Points' \in SUBSET Points
  BY <1>2 DEF Points
<1> HIDE DEF found
<1>6. IsFiniteSet(stamps') /\ stamps' \in SUBSET PointRec
  <2>1. IsFiniteSet(stamps \cup OwnStamp)
    <3>1. OwnStamp = {} \/ OwnStamp = {purge.own}
      BY DEF OwnStamp
    <3>2. IsFiniteSet(stamps) /\ IsFiniteSet(stamps \cup {purge.own}) /\ stamps \cup {} = stamps
      BY FS_AddElement DEF AdminTypes
    <3> QED BY <3>1, <3>2
  <2> QED BY <2>1, <1>2, FS_Subset
<1>7. /\ lastPurged' \in Nat /\ lastPurged <= lastPurged' /\ lastPurged' <= rev
      /\ \A s \in Points' : lastPurged' <= s.rev
  <2>1. CASE lastPurged' = lastPurged
    BY <2>1, <1>1, <1>5 DEF GivenOut, InOrder
  <2>2. CASE lastPurged' = purge.rev /\ \A s \in stamps' : s.day > purge.day
    <3>1. \A s \in stamps' : purge.rev <= s.rev
      BY <2>2, <1>2, <1>4
    <3>2. purge.rev <= found.rev
      BY <1>1, <1>2
    <3> QED BY <2>2, <3>1, <3>2, <1>1, <1>3, <1>5
  <2> QED BY <2>1, <2>2
<1>8. \A id \in ObjIds : object'[id] = None \/ (object'[id] = object[id] /\ id \notin gone)
  BY DEF Without
<1>9. object' \in [ObjIds -> ObjectRec \cup {None}]
  BY DEF Without, AdminTypes
<1>10. AdminTypes'
  BY <1>6, <1>7, <1>9 DEF AdminTypes
<1>11. GivenOut'
  BY <1>5, <1>7, <1>8 DEF GivenOut
<1>12. InOrder'
  BY <1>5, <1>7, <1>8 DEF InOrder
<1>13. Covered'
  <2>1. \A id \in Synced : object'[id] = None \/ object'[id] = object[id]
    BY <1>8 DEF AdminAssumption
  <2> QED BY <2>1 DEF Covered, Live, Marker
<1> QED BY <1>10, <1>11, <1>12, <1>13

\* What a batch takes was beyond the client's key, or its files know that it is gone.
LEMMA TakenIsNew ==
  ASSUME AdminAssumption, AdminInv, NEW id \in Synced \ late, id \in Batch, Live(copy[id])
  PROVE  purge.rev > key.del
<1>1. Marker(object[id]) /\ object[id].rev <= purge.rev /\ id \in ObjIds
  BY BatchIs DEF AdminAssumption
<1>2. ~(object[id].rev <= key.del)
  BY <1>1 DEF AdminInv, Covered
<1>3. object[id].rev \in Nat /\ purge.rev \in Nat /\ key.del \in Nat
  BY <1>1 DEF AdminInv, AdminTypes, GivenOut, Marker, PurgeRec
<1> QED BY <1>1, <1>2, <1>3

\* A batch that one query fills is committed before its state.
LEMMA PurgeFilledKeeps == ASSUME AdminAssumption, AdminInv, PurgeFilled PROVE AdminInv'
<1> USE DEF AdminInv
<1>1. /\ purge.pc \in {"begun", "batch"}
      /\ object' = Without(Batch)
      /\ stamps' = stamps \cup OwnStamp
      /\ unstored' = unstored \cup Batch
      /\ purge' = [purge EXCEPT !.pc = "state", !.gone = Batch, !.removed = TRUE]
      /\ UNCHANGED <<rev, kindRev, writer, day, lastPurged, level, dump, key, copy, kindCopy, load, dumps, late, missed>>
  BY DEF PurgeFilled
<1>2. Batch \in SUBSET ObjIds /\ \A id \in Batch : Marker(object[id])
  BY BatchIs
<1>3. purge' \in PurgeRec /\ purge'.gone = Batch /\ purge'.rev = purge.rev /\ purge'.day = purge.day
      /\ purge'.window = purge.window /\ purge'.own = purge.own
  BY <1>1, <1>2 DEF AdminTypes, PurgeRec
<1>4. level' \in Levels \cup {None} /\ unstored' \in SUBSET ObjIds
  BY <1>1, <1>2 DEF AdminTypes
<1>5. \A id \in ObjIds : object'[id] = IF id \in Batch THEN None ELSE object[id]
  BY <1>1 DEF Without
<1> HIDE DEF AdminInv
<1>6. PurgeIsVisible'
  <2> SUFFICES ASSUME NEW id \in Synced \ (late \cup missed \cup unstored'), object'[id] = None, Live(copy[id])
               PROVE  lastPurged > key.del
    BY <1>1 DEF PurgeIsVisible, Live
  <2>1. object[id] = None /\ id \notin unstored
    BY <1>1, <1>5 DEF AdminAssumption
  <2> QED BY <2>1 DEF AdminInv, Covered, PurgeIsVisible
<1>7. \A id \in (Synced \cap purge'.gone) \ (late \cup missed) : object'[id] = None /\ Live(copy[id]) => purge'.rev > key.del
  BY <1>3, TakenIsNew
<1>8. purge.pc # "idle" /\ stamps' \in SUBSET (stamps \cup OwnStamp) /\ lastPurged' = lastPurged
  BY <1>1
<1> QED BY <1>1, <1>2, <1>3, <1>4, <1>6, <1>7, <1>8, RemovalKeeps

\* Its state covers what it took, unless a dump was over in between.
LEMMA StoreStateKeeps == ASSUME AdminAssumption, AdminInv, StoreState PROVE AdminInv'
<1> USE DEF AdminInv
<1>1. /\ purge.pc = "state"
      /\ lastPurged' = IF Cardinality(purge.gone) > 0 THEN purge.rev ELSE lastPurged
      /\ stamps' = {s \in stamps : s.day > purge.day}
      /\ unstored' = unstored \ purge.gone
      /\ purge' = [purge EXCEPT !.pc = "batch", !.gone = {}]
      /\ UNCHANGED <<rev, object, kindRev, writer, day, level, dump, key, copy, kindCopy, load, dumps, late, missed>>
  BY DEF StoreState, StorePurged, OlderGone
<1>2. purge' \in PurgeRec /\ purge'.gone = {} /\ purge'.rev = purge.rev /\ purge'.day = purge.day
      /\ purge'.window = purge.window /\ purge'.own = purge.own
  BY <1>1 DEF AdminTypes, PurgeRec
<1>3. level' \in Levels \cup {None} /\ unstored' \in SUBSET ObjIds
  BY <1>1 DEF AdminTypes
<1>4. object' = Without({})
  BY <1>1 DEF Without, AdminTypes
<1>5. purge.gone # {} => Cardinality(purge.gone) > 0
  <2>1. IsFiniteSet(purge.gone)
    BY FS_Subset DEF AdminAssumption, AdminTypes, PurgeRec
  <2> QED BY <2>1, FS_EmptySet, FS_CardinalityType
<1>6. lastPurged' = lastPurged \/ (lastPurged' = purge.rev /\ \A s \in stamps' : s.day > purge.day)
  BY <1>1
<1>7. PurgeIsVisible'
  <2> SUFFICES ASSUME NEW id \in Synced \ (late \cup missed \cup unstored'), object[id] = None, Live(copy[id])
               PROVE  lastPurged' > key.del
    BY <1>1 DEF PurgeIsVisible, Live
  <2>1. CASE id \in purge.gone
    <3>1. purge.rev > key.del
      BY <2>1 DEF Covered
    <3> QED BY <2>1, <3>1, <1>1, <1>5
  <2>2. CASE id \notin purge.gone
    <3>1. lastPurged > key.del
      BY <2>2, <1>1 DEF Covered, PurgeIsVisible
    <3>2. lastPurged <= purge.rev
      <4>1. [rev |-> purge.rev, day |-> purge.day] \in Points
        BY <1>1 DEF Points
      <4> QED BY <4>1 DEF InOrder
    <3>3. lastPurged \in Nat /\ purge.rev \in Nat /\ key.del \in Nat
      BY DEF AdminTypes, PurgeRec
    <3> QED BY <3>1, <3>2, <3>3, <1>6
  <2> QED BY <2>1, <2>2
<1> HIDE DEF AdminInv
<1>8. purge.pc # "idle" /\ stamps' \in SUBSET (stamps \cup OwnStamp)
  BY <1>1
<1> QED BY <1>1, <1>2, <1>3, <1>4, <1>6, <1>7, <1>8, RemovalKeeps

\* Another batch is committed with its state, or not at all.
LEMMA PurgeBatchKeeps == ASSUME AdminAssumption, AdminInv, PurgeBatch PROVE AdminInv'
<1> USE DEF AdminInv
<1>1. /\ purge.pc # "idle"
      /\ \/ UNCHANGED <<object, lastPurged, stamps, unstored>>
         \/ /\ object' = Without(Batch)
            /\ lastPurged' = IF Cardinality(Batch) > 0 THEN purge.rev ELSE lastPurged
            /\ stamps' = {s \in stamps \cup OwnStamp : s.day > purge.day}
            /\ unstored' = unstored \ Batch
      /\ purge' = NoPurge \/ purge' = [purge EXCEPT !.pc = "batch", !.removed = TRUE]
      /\ level' \in LevelsAfter(Batch # {}) \cup {level}
      /\ UNCHANGED <<rev, kindRev, writer, day, dump, key, copy, kindCopy, load, dumps, late, missed>>
  BY DEF PurgeBatch, StorePurged, OlderGone
<1>2. /\ Batch \in SUBSET ObjIds /\ (Batch # {} => Cardinality(Batch) > 0)
      /\ \A id \in Batch : Marker(object[id])
  BY BatchIs
<1>3. /\ purge' \in PurgeRec
      /\ purge'.gone = {} \/ (purge'.gone = purge.gone /\ purge'.rev = purge.rev)
      /\ \/ purge'.pc = "idle"
         \/ purge'.rev = purge.rev /\ purge'.day = purge.day /\ purge'.window = purge.window /\ purge'.own = purge.own
  <2>1. CASE purge' = NoPurge
    <3>1. NoPurge \in PurgeRec /\ NoPurge.pc = "idle" /\ NoPurge.gone = {}
      BY DEF PurgeRec, NoPurge, PointRec
    <3> QED BY <2>1, <3>1
  <2>2. CASE purge' = [purge EXCEPT !.pc = "batch", !.removed = TRUE]
    BY <2>2 DEF AdminTypes, PurgeRec
  <2> QED BY <1>1, <2>1, <2>2
<1>4. level' \in Levels \cup {None} /\ unstored' \in SUBSET ObjIds
  BY <1>1, <1>2 DEF AdminTypes, LevelsAfter, PurgeRec
<1>5. PICK gone \in {{}, Batch} : object' = Without(gone)
  <2>1. CASE UNCHANGED object
    BY <2>1 DEF Without, AdminTypes
  <2> QED BY <1>1, <2>1
<1>6. lastPurged' = lastPurged \/ (lastPurged' = purge.rev /\ \A s \in stamps' : s.day > purge.day)
  BY <1>1
<1>7. stamps' \in SUBSET (stamps \cup OwnStamp)
  BY <1>1
<1>8. /\ lastPurged <= lastPurged' /\ lastPurged \in Nat /\ lastPurged' \in Nat /\ key.del \in Nat
  <2>1. lastPurged <= purge.rev
    <3>1. [rev |-> purge.rev, day |-> purge.day] \in Points
      BY <1>1 DEF Points
    <3> QED BY <3>1 DEF InOrder
  <2> QED BY <2>1, <1>6 DEF AdminTypes, PurgeRec
<1>9. PurgeIsVisible'
  <2> SUFFICES ASSUME NEW id \in Synced \ (late \cup missed \cup unstored'), object'[id] = None, Live(copy[id])
               PROVE  lastPurged' > key.del
    BY <1>1 DEF PurgeIsVisible, Live
  <2>0. id \in ObjIds
    BY DEF AdminAssumption
  <2>1. CASE object[id] = None /\ id \notin unstored
    <3>1. lastPurged > key.del
      BY <2>1 DEF Covered, PurgeIsVisible
    <3> QED BY <3>1, <1>8
  <2>2. CASE ~(object[id] = None /\ id \notin unstored)
    <3>1. id \in Batch /\ object' = Without(Batch) /\ lastPurged' = IF Cardinality(Batch) > 0 THEN purge.rev ELSE lastPurged
      BY <2>0, <2>2, <1>1 DEF Without
    <3>2. purge.rev > key.del
      BY <3>1, TakenIsNew
    <3> QED BY <3>1, <3>2, <1>2
  <2> QED BY <2>1, <2>2
<1>10. \A id \in (Synced \cap purge'.gone) \ (late \cup missed) : object'[id] = None /\ Live(copy[id]) => purge'.rev > key.del
  <2> SUFFICES ASSUME NEW id \in (Synced \cap purge.gone) \ (late \cup missed), object'[id] = None, Live(copy[id])
               PROVE  purge.rev > key.del
    BY <1>3
  <2>1. CASE object[id] = None
    BY <2>1 DEF Covered
  <2>2. CASE object[id] # None
    <3>1. id \in Batch
      BY <2>2, <1>1 DEF Without, AdminAssumption
    <3> QED BY <3>1, TakenIsNew
  <2> QED BY <2>1, <2>2
<1> HIDE DEF AdminInv
<1>11. gone \in SUBSET ObjIds /\ \A id \in gone : Marker(object[id])
  BY <1>2
<1> QED BY <1>1, <1>3, <1>4, <1>5, <1>6, <1>7, <1>9, <1>10, <1>11, RemovalKeeps

\* A purge that fails leaves what it has committed.
LEMMA PurgeFailsKeeps == ASSUME AdminAssumption, AdminInv, PurgeFails PROVE AdminInv'
<1>1. /\ purge.pc # "idle" /\ purge' = NoPurge
      /\ UNCHANGED <<rev, object, kindRev, writer, day, stamps, lastPurged, level, dump, key, copy, kindCopy, load, dumps, late, missed, unstored>>
  BY DEF PurgeFails
<1>2. object' = Without({})
  BY <1>1 DEF Without, AdminInv, AdminTypes
<1>3. purge' \in PurgeRec /\ purge'.pc = "idle" /\ purge'.gone = {}
  BY <1>1 DEF NoPurge, PurgeRec, PointRec
<1>4. level' \in Levels \cup {None} /\ unstored' \in SUBSET ObjIds
  BY <1>1 DEF AdminInv, AdminTypes
<1>5. PurgeIsVisible'
  BY <1>1 DEF AdminInv, Covered, PurgeIsVisible, Live
<1> QED BY <1>1, <1>2, <1>3, <1>4, <1>5, RemovalKeeps

\* The first half of a dump writes the live objects that its part of the key will
\* cover, and the kind.
LEMMA DumpLiveKeeps == ASSUME AdminAssumption, AdminInv, DumpLive PROVE AdminInv'
<1> USE DEF AdminInv
<1> DEFINE kind == IF kindRev > key.rev THEN 1 ELSE 0
           wanted == {id \in Synced : Live(object[id]) /\ object[id].rev > key.rev}
           p == Pass(wanted, MaxBytes - kind)
<1>1. /\ dump.pc = "idle"
      /\ copy' = Copied(p.ids)
      /\ kindCopy' = IF kind = 1 THEN kindRev ELSE kindCopy
      /\ \/ /\ p.full
            /\ key' = [key EXCEPT !.rev = IF p.ids = {} THEN key.rev ELSE p.rev]
            /\ dump' = dump
         \/ /\ ~p.full
            /\ dump' = [pc |-> "deleted", newRev |-> p.rev, room |-> (MaxBytes - kind) - Cardinality(p.ids)]
            /\ key' = key
      /\ UNCHANGED <<rev, object, kindRev, writer, day, stamps, lastPurged, purge, level, load, late, missed, unstored>>
  BY DEF DumpLive
<1>2. MaxBytes - kind \in Int
  BY DEF AdminAssumption
<1>3. /\ rev \in Nat /\ kindRev \in Nat /\ key.rev \in Nat /\ key.del \in Nat
      /\ key \in [rev : Nat, del : Nat]
  BY DEF AdminTypes
<1>4. /\ wanted \in SUBSET ObjIds /\ wanted \in SUBSET Synced
      /\ \A id \in wanted : object[id] \in ObjectRec /\ object[id].rev \in 1 .. rev /\ Live(object[id])
      /\ \A id \in Synced : Live(object[id]) /\ ~(object[id].rev <= key.rev) => id \in wanted
  <2>1. \A id \in ObjIds : Live(object[id]) => object[id] \in ObjectRec /\ object[id].rev \in 1 .. rev
    BY DEF AdminTypes, GivenOut, Live
  <2>2. \A id \in ObjIds : Live(object[id]) => object[id].rev \in Nat
    BY <2>1 DEF ObjectRec
  <2> QED BY <2>1, <2>2, <1>3 DEF AdminAssumption
<1> HIDE DEF wanted, kind
<1>5. IsPass(p, wanted)
  BY <1>2, <1>3, <1>4, PassIs
<1>6. /\ p.ids \in SUBSET wanted /\ p.rev \in 0 .. rev /\ Cardinality(p.ids) \in Int
      /\ \A id \in wanted : object[id].rev <= p.rev => id \in p.ids
      /\ ~p.full => p.ids = wanted
  BY <1>5, FS_CardinalityType DEF IsPass
<1> HIDE DEF p
<1>7. /\ copy' \in [ObjIds -> ObjectRec \cup {None}]
      /\ \A id \in ObjIds : copy'[id] = IF id \in p.ids THEN object[id] ELSE copy[id]
  BY <1>1 DEF Copied, AdminTypes
<1>8. /\ key' \in [rev : Nat, del : Nat] /\ key'.del = key.del
      /\ dump' \in [pc : {"idle", "deleted"}, newRev : Nat, room : Int]
      /\ dump'.newRev <= rev /\ key'.rev <= rev
      /\ dump'.pc = "idle" => dump'.newRev = 0
      /\ dump'.pc = "deleted" => dump'.newRev = p.rev /\ key' = key
      /\ key'.rev = key.rev \/ (key'.rev = p.rev /\ dump'.pc = "idle")
  <2>1. dump.pc = "idle" /\ dump.newRev = 0 /\ dump \in [pc : {"idle", "deleted"}, newRev : Nat, room : Int] /\ key.rev <= rev
    BY <1>1 DEF AdminTypes, GivenOut
  <2>2. CASE p.full
    BY <2>1, <2>2, <1>1, <1>3, <1>6
  <2>3. CASE ~p.full
    <3>1. (MaxBytes - kind) - Cardinality(p.ids) \in Int
      BY <1>2, <1>6
    <3> QED BY <2>1, <2>3, <3>1, <1>1, <1>3, <1>6
  <2> QED BY <2>2, <2>3
<1>9. kindCopy' \in Nat /\ kindCopy' = IF kindRev > key.rev THEN kindRev ELSE kindCopy
  BY <1>1, <1>3 DEF kind, AdminTypes
<1>10. AdminTypes'
  BY <1>1, <1>7, <1>8, <1>9 DEF AdminTypes
<1>11. Points' = Points
  BY <1>1 DEF Points
<1>12. GivenOut'
  BY <1>1, <1>8, <1>11 DEF GivenOut
<1>13. InOrder'
  BY <1>1, <1>11 DEF InOrder
<1>14. Covered'
  <2>1. ASSUME NEW id \in Synced \ late, Live(object[id]), object[id].rev <= key'.rev \/ object[id].rev <= dump'.newRev
        PROVE  copy'[id] = object[id]
    <3>1. id \in ObjIds /\ object[id].rev \in 1 .. rev
      BY <2>1 DEF AdminAssumption, GivenOut, Live
    <3>2. object[id].rev <= key.rev \/ object[id].rev <= p.rev
      BY <2>1, <3>1, <1>8
    <3>3. CASE object[id].rev <= key.rev
      BY <2>1, <3>1, <3>3, <1>7 DEF Covered
    <3>4. CASE ~(object[id].rev <= key.rev) /\ object[id].rev <= p.rev
      BY <2>1, <3>1, <3>4, <1>4, <1>6, <1>7
    <3> QED BY <3>2, <3>3, <3>4
  <2>2. ASSUME NEW id \in Synced \ late, Marker(object[id]), object[id].rev <= key.del
        PROVE  ~Live(copy'[id])
    <3>1. id \in ObjIds /\ id \notin p.ids
      BY <2>2, <1>4, <1>6 DEF AdminAssumption, Live, Marker
    <3> QED BY <2>2, <3>1, <1>7 DEF Covered
  <2>3. kindCopy' = kindRev
    BY <1>3, <1>9 DEF Covered
  <2>4. ASSUME NEW id \in Synced \ (late \cup missed \cup unstored), object[id] = None, Live(copy'[id])
        PROVE  lastPurged > key.del
    <3>1. id \in ObjIds /\ id \notin p.ids
      BY <2>4, <1>4, <1>6 DEF AdminAssumption, Live
    <3> QED BY <2>4, <3>1, <1>7 DEF Covered, PurgeIsVisible
  <2>5. ASSUME NEW id \in (Synced \cap purge.gone) \ (late \cup missed), object[id] = None, Live(copy'[id])
        PROVE  purge.rev > key.del
    <3>1. id \in ObjIds /\ id \notin p.ids
      BY <2>5, <1>4, <1>6 DEF AdminAssumption, Live
    <3> QED BY <2>5, <3>1, <1>7 DEF Covered
  <2> QED BY <2>1, <2>2, <2>3, <2>4, <2>5, <1>1, <1>8 DEF Covered, PurgeIsVisible, Live, Marker
<1> QED BY <1>10, <1>12, <1>13, <1>14

\* The second half writes the markers that its part of the key will cover; a purge
\* that it missed stays hidden from then on.
LEMMA DumpDeletedKeeps == ASSUME AdminAssumption, AdminInv, DumpDeleted PROVE AdminInv'
<1> USE DEF AdminInv
<1> DEFINE wanted == {id \in Synced : Marker(object[id]) /\ object[id].rev > key.del}
           p == Pass(wanted, dump.room)
<1>1. /\ dump.pc = "deleted"
      /\ copy' = Copied(p.ids)
      /\ key' = [rev |-> IF p.full /\ dump.newRev = 0 THEN key.rev ELSE dump.newRev,
                 del |-> IF p.full /\ p.ids = {} THEN key.del ELSE p.rev]
      /\ dump' = NoDump
      /\ missed' = missed \cup {id \in Synced : object[id] = None /\ Live(copy[id])}
      /\ UNCHANGED <<kindCopy, rev, object, kindRev, writer, day, stamps, lastPurged, purge, level, load, dumps, late, unstored>>
  BY DEF DumpDeleted
<1>2. /\ rev \in Nat /\ key.rev \in Nat /\ key.del \in Nat /\ dump.newRev \in Nat /\ dump.room \in Int
      /\ key.rev <= rev /\ key.del <= rev /\ dump.newRev <= rev
  BY DEF AdminTypes, GivenOut
<1>3. /\ wanted \in SUBSET ObjIds /\ wanted \in SUBSET Synced
      /\ \A id \in wanted : object[id] \in ObjectRec /\ object[id].rev \in 1 .. rev /\ Marker(object[id])
      /\ \A id \in Synced : Marker(object[id]) /\ ~(object[id].rev <= key.del) => id \in wanted
  <2>1. \A id \in ObjIds : Marker(object[id]) => object[id] \in ObjectRec /\ object[id].rev \in 1 .. rev
    BY DEF AdminTypes, GivenOut, Marker
  <2>2. \A id \in ObjIds : Marker(object[id]) => object[id].rev \in Nat
    BY <2>1 DEF ObjectRec
  <2> QED BY <2>1, <2>2, <1>2 DEF AdminAssumption
<1> HIDE DEF wanted
<1>4. IsPass(p, wanted)
  BY <1>2, <1>3, PassIs
<1>5. /\ p.ids \in SUBSET wanted /\ p.rev \in 0 .. rev
      /\ \A id \in wanted : object[id].rev <= p.rev => id \in p.ids
  BY <1>4 DEF IsPass
<1> HIDE DEF p
<1>6. /\ copy' \in [ObjIds -> ObjectRec \cup {None}]
      /\ \A id \in ObjIds : copy'[id] = IF id \in p.ids THEN object[id] ELSE copy[id]
  BY <1>1 DEF Copied, AdminTypes
<1>7. /\ key' \in [rev : Nat, del : Nat] /\ key'.rev <= rev /\ key'.del <= rev
      /\ key'.rev \in {key.rev, dump.newRev} /\ key'.del \in {key.del, p.rev}
  BY <1>1, <1>2, <1>5
<1>8. missed' \in SUBSET ObjIds
  BY <1>1 DEF AdminTypes, AdminAssumption
<1>9. dump' \in [pc : {"idle", "deleted"}, newRev : Nat, room : Int] /\ dump'.pc = "idle" /\ dump'.newRev = 0
  BY <1>1 DEF NoDump
<1>10. AdminTypes'
  BY <1>1, <1>6, <1>7, <1>8, <1>9 DEF AdminTypes
<1>11. Points' = Points
  BY <1>1 DEF Points
<1>12. GivenOut'
  BY <1>1, <1>2, <1>7, <1>9, <1>11 DEF GivenOut
<1>13. InOrder'
  BY <1>1, <1>11 DEF InOrder
<1>14. Covered'
  <2>1. ASSUME NEW id \in Synced \ late, Live(object[id]), object[id].rev <= key'.rev \/ object[id].rev <= dump'.newRev
        PROVE  copy'[id] = object[id]
    <3>1. id \in ObjIds /\ object[id].rev \in 1 .. rev /\ id \notin p.ids
      BY <2>1, <1>3, <1>5 DEF AdminAssumption, GivenOut, Live, Marker
    <3>2. object[id].rev <= key.rev \/ object[id].rev <= dump.newRev
      BY <2>1, <3>1, <1>7, <1>9
    <3> QED BY <2>1, <3>1, <3>2, <1>6 DEF Covered
  <2>2. ASSUME NEW id \in Synced \ late, Marker(object[id]), object[id].rev <= key'.del
        PROVE  ~Live(copy'[id])
    <3>1. id \in ObjIds
      BY DEF AdminAssumption
    <3>2. CASE id \in p.ids
      BY <2>2, <3>1, <3>2, <1>6 DEF Live, Marker
    <3>3. CASE id \notin p.ids
      <4>1. object[id].rev <= key.del
        BY <2>2, <3>3, <1>3, <1>5, <1>7
      <4> QED BY <2>2, <3>1, <3>3, <4>1, <1>6 DEF Covered
    <3> QED BY <3>2, <3>3
  <2>3. kindCopy = kindRev
    BY <1>1 DEF Covered
  <2>4. PurgeIsVisible'
    <3> SUFFICES ASSUME NEW id \in Synced \ (late \cup missed' \cup unstored), object[id] = None, Live(copy'[id]) PROVE FALSE
      BY <1>1 DEF PurgeIsVisible, Live
    <3>1. id \in ObjIds /\ id \notin p.ids
      BY <1>3, <1>5 DEF AdminAssumption, Marker
    <3> QED BY <3>1, <1>1, <1>6
  <2>5. ASSUME NEW id \in (Synced \cap purge.gone) \ (late \cup missed'), object[id] = None, Live(copy'[id]) PROVE FALSE
    <3>1. id \in ObjIds /\ id \notin p.ids
      BY <2>5, <1>3, <1>5 DEF AdminAssumption, Marker
    <3> QED BY <2>5, <3>1, <1>1, <1>6
  <2> QED BY <2>1, <2>2, <2>3, <2>4, <2>5, <1>1, <1>7, <1>9 DEF Covered, Live, Marker
<1> QED BY <1>10, <1>12, <1>13, <1>14

\* A load takes what the backup files hold.
LEMMA BeginLoadKeeps ==
  ASSUME AdminAssumption, AdminInv, NEW restoring \in BOOLEAN, BeginLoad(restoring)
  PROVE  AdminInv'
<1> USE DEF AdminInv, BeginLoad
<1>1. AdminTypes'
  <2>1. ASSUME NEW id \in Synced, copy[id] # None
        PROVE  <<id, restoring, copy[id].del>> \in ObjIds \X BOOLEAN \X BOOLEAN
    <3>1. id \in ObjIds /\ copy[id] \in ObjectRec
      BY <2>1 DEF AdminTypes, AdminAssumption
    <3> QED BY <3>1 DEF ObjectRec
  <2>2. load' \in SUBSET (ObjIds \X BOOLEAN \X BOOLEAN)
    BY <2>1
  <2> QED BY <2>2 DEF AdminTypes
<1>2. Points' = Points
  BY DEF Points
<1>3. GivenOut' /\ InOrder'
  BY <1>2 DEF GivenOut, InOrder
<1>4. Covered'
  BY DEF Covered, PurgeIsVisible, Live, Marker
<1> QED BY <1>1, <1>3, <1>4

\* The records of a load are finitely many.
LEMMA FiniteProduct ==
  ASSUME NEW A, NEW B, NEW C, IsFiniteSet(A), IsFiniteSet(B), IsFiniteSet(C) PROVE IsFiniteSet(A \X B \X C)
<1>1. IsFiniteSet((A \X B) \X C)
  BY FS_Product
<1> DEFINE f == [t \in (A \X B) \X C |-> <<t[1][1], t[1][2], t[2]>>]
<1>2. f \in Surjection((A \X B) \X C, A \X B \X C)
  <2>1. f \in [(A \X B) \X C -> A \X B \X C]
    OBVIOUS
  <2>2. ASSUME NEW u \in A \X B \X C PROVE \E t \in (A \X B) \X C : f[t] = u
    <3>1. <<<<u[1], u[2]>>, u[3]>> \in (A \X B) \X C /\ f[<<<<u[1], u[2]>>, u[3]>>] = u
      OBVIOUS
    <3> QED BY <3>1
  <2> HIDE DEF f
  <2> QED BY <2>1, <2>2 DEF Surjection
<1> HIDE DEF f
<1> QED BY <1>1, <1>2, FS_Surjection

\* What a load puts takes revisions that no client's key has reached; it removes
\* nothing without a marker.
LEMMA LoadStepKeeps == ASSUME AdminAssumption, AdminInv, LoadStep PROVE AdminInv'
<1> USE DEF AdminInv
<1>1. PICK batch \in SUBSET load :
         /\ batch # {} /\ (Cardinality(batch) = LoadStepSize \/ batch = load)
         /\ Cardinality(batch) <= LoadStepSize
         /\ \E nth \in [batch -> 1 .. Cardinality(batch)] :
                object' = [id \in ObjIds |->
                               IF \E b \in batch : b[1] = id
                               THEN LET b == CHOOSE b \in batch : b[1] = id IN Loaded(id, b[2], b[3], rev + nth[b])
                               ELSE object[id]]
         /\ rev' = rev + Cardinality(batch)
         /\ load' = load \ batch
  BY DEF LoadStep
<1> DEFINE record(id) == CHOOSE b \in batch : b[1] = id
<1>2. PICK nth \in [batch -> 1 .. Cardinality(batch)] :
         object' = [id \in ObjIds |-> IF \E b \in batch : b[1] = id
                                      THEN Loaded(id, record(id)[2], record(id)[3], rev + nth[record(id)])
                                      ELSE object[id]]
  BY <1>1
<1>3. /\ Exclusive
      /\ UNCHANGED <<kindRev, writer, day, stamps, lastPurged, purge, level, dump, key, copy, kindCopy, dumps, late, missed, unstored>>
  BY DEF LoadStep
<1>4. rev' \in Nat /\ rev <= rev' /\ rev \in Nat /\ day \in Nat /\ Cardinality(batch) \in Nat
  <2>1. IsFiniteSet(load)
    <3>1. IsFiniteSet(ObjIds \X BOOLEAN \X BOOLEAN)
      <4>1. IsFiniteSet(BOOLEAN)
        <5>1. IsFiniteSet({TRUE}) /\ IsFiniteSet({FALSE})
          BY FS_Singleton
        <5>2. BOOLEAN = {TRUE} \cup {FALSE}
          OBVIOUS
        <5>3. IsFiniteSet({TRUE} \cup {FALSE})
          BY <5>1, FS_AddElement
        <5> QED BY <5>2, <5>3
      <4> QED BY <4>1, FiniteProduct DEF AdminAssumption
    <3> QED BY <3>1, FS_Subset DEF AdminTypes
  <2>2. Cardinality(batch) \in Nat
    BY <2>1, FS_Subset, FS_CardinalityType
  <2> QED BY <2>2, <1>1 DEF AdminTypes
<1>5. \A id \in ObjIds :
         \/ object'[id] = object[id]
         \/ /\ object'[id] \in ObjectRec
            /\ object'[id].rev \in 1 .. rev' /\ object'[id].rev > rev
            /\ object'[id].day <= day
  <2> SUFFICES ASSUME NEW id \in ObjIds, object'[id] # object[id]
               PROVE  /\ object'[id] \in ObjectRec
                      /\ object'[id].rev \in 1 .. rev' /\ object'[id].rev > rev
                      /\ object'[id].day <= day
    OBVIOUS
  <2>1. PICK b \in batch : object'[id] = Loaded(id, b[2], b[3], rev + nth[b])
    BY <1>2
  <2>2. nth[b] \in 1 .. Cardinality(batch)
    BY <2>1
  <2>3. rev + nth[b] \in 1 .. rev' /\ rev + nth[b] > rev /\ rev + nth[b] \in Nat
    BY <2>2, <1>1, <1>4
  <2>4. b \in ObjIds \X BOOLEAN \X BOOLEAN
    BY <2>1, <1>1 DEF AdminTypes
  <2>5. b[3] \in BOOLEAN
    BY <2>4
  <2>6. PICK del \in BOOLEAN : object'[id] = [rev |-> rev + nth[b], del |-> del, day |-> IF del THEN day ELSE 0]
    BY <2>1, <2>5 DEF Loaded, Object
  <2>7. (IF del THEN day ELSE 0) \in Nat /\ (IF del THEN day ELSE 0) <= day
    BY <1>4
  <2> QED BY <2>3, <2>6, <2>7 DEF ObjectRec
<1>6. AdminTypes'
  <2>1. object' \in [ObjIds -> ObjectRec \cup {None}]
    BY <1>2, <1>5 DEF AdminTypes
  <2> QED BY <2>1, <1>1, <1>3, <1>4 DEF AdminTypes
<1>7. Points' = Points
  BY <1>3 DEF Points
<1>8. Points \in SUBSET PointRec
  BY DEF Points, PointRec, AdminTypes, PurgeRec
<1>9. GivenOut'
  <2>1. \A id \in ObjIds : object'[id] # None => object'[id].rev \in 1 .. rev' /\ object'[id].day <= day
    BY <1>4, <1>5 DEF GivenOut
  <2>2. \A v \in Writers : writer[v] # None => writer[v].new.rev \in 1 .. rev'
    BY <1>4 DEF GivenOut
  <2>3. \A s \in Points : s.rev <= rev'
    BY <1>4, <1>8 DEF GivenOut, PointRec
  <2>4. kindRev <= rev' /\ lastPurged <= rev' /\ key.rev <= rev' /\ key.del <= rev' /\ dump.newRev <= rev'
    BY <1>4 DEF GivenOut, AdminTypes
  <2> QED BY <1>3, <1>7, <2>1, <2>2, <2>3, <2>4 DEF GivenOut
<1>10. InOrder'
  <2>1. ASSUME NEW id \in ObjIds, NEW s \in Points, object'[id] # None, object'[id].rev <= s.rev
        PROVE  object'[id].day <= s.day
    <3>1. CASE object'[id] = object[id]
      BY <2>1, <3>1 DEF InOrder
    <3>2. CASE object'[id] \in ObjectRec /\ object'[id].rev > rev
      <4>1. s.rev <= rev /\ s.rev \in Nat /\ object'[id].rev \in Nat
        BY <1>8, <3>2 DEF GivenOut, PointRec, ObjectRec
      <4> QED BY <2>1, <3>2, <4>1, <1>4
    <3> QED BY <3>1, <3>2, <1>5
  <2> QED BY <2>1, <1>3, <1>7 DEF InOrder
<1>11. Covered'
  <2>1. ASSUME NEW id \in Synced \ late
        PROVE  \/ object'[id] = object[id]
               \/ object'[id] # None /\ ~(object'[id].rev <= key.rev) /\ ~(object'[id].rev <= key.del) /\ ~(object'[id].rev <= dump.newRev)
    <3>1. id \in ObjIds
      BY DEF AdminAssumption
    <3>2. CASE object'[id] \in ObjectRec /\ object'[id].rev > rev
      <4>1. object'[id].rev \in Nat /\ object'[id] # None
        BY <3>2 DEF ObjectRec, AdminAssumption
      <4> QED BY <3>2, <4>1, <1>4 DEF GivenOut, AdminTypes
    <3> QED BY <3>1, <3>2, <1>5
  <2>2. PurgeIsVisible'
    <3> SUFFICES ASSUME NEW id \in Synced \ (late \cup missed \cup unstored), object'[id] = None, Live(copy[id])
                 PROVE  lastPurged > key.del
      BY <1>3 DEF PurgeIsVisible, Live
    <3>1. object[id] = None
      BY <2>1
    <3> QED BY <3>1 DEF Covered, PurgeIsVisible
  <2>3. \A id \in (Synced \cap purge.gone) \ (late \cup missed) :
            object'[id] = None /\ Live(copy[id]) => purge.rev > key.del
    BY <2>1 DEF Covered
  <2> QED BY <2>1, <2>2, <2>3, <1>3 DEF Covered, Live, Marker
<1> QED BY <1>6, <1>9, <1>10, <1>11

\* Every step keeps the invariant.
LEMMA AdminInvStep == ASSUME AdminAssumption, AdminInv, [AdminNext]_adminVars PROVE AdminInv'
<1>1. CASE UNCHANGED adminVars
  <2>1. Points' = Points
    BY <1>1 DEF adminVars, Points
  <2>2. AdminTypes' /\ GivenOut' /\ InOrder'
    BY <1>1, <2>1 DEF adminVars, AdminInv, AdminTypes, GivenOut, InOrder
  <2>3. Covered'
    BY <1>1 DEF adminVars, AdminInv, Covered, PurgeIsVisible, Live, Marker
  <2> QED BY <2>2, <2>3 DEF AdminInv
<1>2. ASSUME NEW w \in Writers, NEW id \in ObjIds, NEW del \in BOOLEAN, TakeRev(w, id, del) PROVE AdminInv'
  BY <1>2, TakeRevKeeps
<1>3. ASSUME NEW w \in Writers, NEW ok \in BOOLEAN, Commit(w, ok) PROVE AdminInv'
  BY <1>3, CommitKeeps
<1>4. ASSUME NEW window \in Windows, NEW batched \in BOOLEAN, Purge(window, batched) PROVE AdminInv'
  <2>1. window \in Nat /\ None \in Levels \cup {None}
    BY DEF AdminAssumption
  <2>2. BeginPurge(window, batched, None)
        /\ UNCHANGED <<object, kindRev, writer, day, lastPurged, dump, key, copy, kindCopy, load, dumps, late, missed, unstored>>
    BY <1>4 DEF Purge
  <2> QED BY <2>1, <2>2, BeginPurgeKeeps
<1>5. ASSUME NEW now \in Levels, SpaceCheck(now) PROVE AdminInv'
  <2>1. CASE now > 0
    <3> DEFINE window == IF now > 1 THEN 0 ELSE 1
    <3>1. window \in Nat /\ BeginPurge(window, TRUE, now) /\ now \in Levels \cup {None}
      BY <1>5, <2>1 DEF SpaceCheck
    <3> HIDE DEF window
    <3> QED BY <1>5, <3>1, BeginPurgeKeeps DEF SpaceCheck
  <2>2. CASE ~(now > 0)
    <3>1. UNCHANGED <<rev, object, kindRev, writer, day, stamps, lastPurged, purge, dump, key, copy, kindCopy, load, dumps, late, missed, unstored>>
      BY <1>5, <2>2 DEF SpaceCheck
    <3>2. Points' = Points
      BY <3>1 DEF Points
    <3>3. AdminTypes' /\ GivenOut' /\ InOrder'
      BY <1>5, <2>2, <3>1, <3>2 DEF AdminInv, AdminTypes, GivenOut, InOrder, SpaceCheck
    <3>4. Covered'
      BY <3>1 DEF AdminInv, Covered, PurgeIsVisible, Live, Marker
    <3> QED BY <3>3, <3>4 DEF AdminInv
  <2> QED BY <2>1, <2>2
<1>6. ASSUME NEW restoring \in BOOLEAN, BeginLoad(restoring) PROVE AdminInv'
  BY <1>6, BeginLoadKeeps
<1> QED BY <1>1, <1>2, <1>3, <1>4, <1>5, <1>6, PutKindRevKeeps, NextDayKeeps,
           PurgeFilledKeeps, StoreStateKeeps, PurgeBatchKeeps, PurgeFailsKeeps,
           DumpLiveKeeps, DumpDeletedKeeps, LoadStepKeeps, CrashKeeps
    DEF AdminNext

\* Whatever the writers, objects, batch and dump sizes and bounds are: what a backup
\* client's incremental key says it has is in its files, a purge it has not seen shows
\* in the last purged revision, and a purge takes no marker within its window
\* (MojDb::dump(), load(), restore() and purge()).
THEOREM BackupsCoverAlways == AdminSpec => []BackupsCover
<1>1. AdminInit => AdminInv
  BY AdminAssumption, AdminInvInit
<1>2. AdminInv /\ [AdminNext]_adminVars => AdminInv'
  BY AdminAssumption, AdminInvStep
<1>3. AdminInv => BackupsCover
  <2> SUFFICES ASSUME AdminInv PROVE BackupsCover
    OBVIOUS
  <2> USE DEF AdminInv
  <2>1. BackupCovers
    BY DEF Covered, BackupCovers
  <2>2. PurgeIsVisible
    BY DEF Covered
  <2>3. PurgeOnlyOld
    <3> SUFFICES ASSUME purge.pc # "idle", NEW id \in ObjIds, Marker(object[id]), object[id].rev <= purge.rev
                 PROVE  object[id].day + purge.window <= day
      BY DEF PurgeOnlyOld
    <3> DEFINE found == [rev |-> purge.rev, day |-> purge.day]
    <3>1. found \in Points
      BY DEF Points
    <3>2. object[id].day <= purge.day
      BY <3>1 DEF InOrder, Marker
    <3>3. object[id].day \in Nat /\ purge.day \in Nat /\ purge.window \in Nat /\ day \in Nat
      BY DEF AdminTypes, Marker, ObjectRec, PurgeRec
    <3>4. purge.day + purge.window <= day
      BY DEF InOrder
    <3> QED BY <3>2, <3>3, <3>4
  <2> QED BY <2>1, <2>2, <2>3 DEF BackupsCover
<1> QED BY <1>1, <1>2, <1>3, PTL DEF AdminSpec
=============================================================================
