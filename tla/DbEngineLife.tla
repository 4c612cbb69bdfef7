---------------------------- MODULE DbEngineLife ----------------------------
(***************************************************************************)
(* Opening and closing the database: MojDb::open() acquires one thing after*)
(* the other, any of which may fail, and MojDb::close() gives back what it *)
(* has, in its own order, going on after errors.  Several processes may be *)
(* started on the same directory, which is guarded by a lock file.         *)
(*                                                                         *)
(* What a process holds is a set of named resources; each engine has its   *)
(* own list of what it opens and in which order it closes it.              *)
(***************************************************************************)
EXTENDS Integers, FiniteSets, Sequences

CONSTANTS
  Processes,    \* processes started on the directory
  MaxOpens      \* bound on the calls of open

ASSUME MaxOpensAssumption == MaxOpens \in Nat

VARIABLES
  kind,       \* the storage engine in use
  version,    \* what the version file says
  process,    \* each process: phase, position in its list, resources, error
  lockFile,   \* the inode the lock file's name leads to, 0 without a file
  inodes,     \* inodes so far
  raced,      \* a lock file was removed while another process had it open
  opens       \* calls of open so far

lifeVars == <<kind, version, process, lockFile, inodes, raced, opens>>

\* inode is the file behind m_lockFile, locked whether the process has its lock;
\* dropped is what drop() closed in the engine.
Idle == [phase |-> "closed", at |-> 1, held |-> {}, err |-> FALSE, inode |-> 0, locked |-> FALSE,
         dropped |-> {}]

-----------------------------------------------------------------------------
(* The lists of the four engines *)

LevelOpens    == <<"openLock", "lock", "seqDb", "indexDb">>
SandwichOpens == <<"openLock", "lock", "bottom", "seqDb", "indexDb">>
LmdbEnvOpens  == <<"openLock", "lock", "env">>  \* mdb_env_open(); its handle is made earlier
LmdbOpens     == LmdbEnvOpens \o <<"seqDb", "indexDb">>
BerkeleyEnvOpens == <<"openLock", "lock", "env">>
BerkeleyOpens == BerkeleyEnvOpens \o <<"seqDb", "indexDb">>

\* close(): the databases, then the environment, which removes and closes the
\* lock file.  LevelDB under Sandwich goes when the engine is destroyed; it has
\* a lock of its own.
LevelCloses    == <<"seqDb", "indexDb", "lock">>
SandwichCloses == <<"seqDb", "indexDb", "lock", "bottom">>
LmdbEnvCloses  == <<"env", "lock">>
LmdbCloses     == <<"seqDb", "indexDb">> \o LmdbEnvCloses
BerkeleyEnvCloses == <<"env", "lock">>
BerkeleyCloses == <<"seqDb", "indexDb">> \o BerkeleyEnvCloses

EngineOpens ==
  CASE kind = "level" -> LevelOpens [] kind = "sandwich" -> SandwichOpens
    [] kind = "lmdb" -> LmdbOpens   [] kind = "berkeley" -> BerkeleyOpens
EngineCloses ==
  CASE kind = "level" -> LevelCloses [] kind = "sandwich" -> SandwichCloses
    [] kind = "lmdb" -> LmdbCloses   [] kind = "berkeley" -> BerkeleyCloses

\* MojDb::open(): the version, the engine, and within one request the object
\* database, the id sequence and the engines for kinds, permissions and quotas.
OpenList ==
  <<"version">> \o EngineOpens \o
  <<"request", "objDb", "idSeq", "kinds", "permissions", "quotas", "shards", "endRequest">>

\* MojDb::close()
CloseList == <<"quotas", "permissions", "kinds", "idSeq", "objDb">> \o EngineCloses

\* What using, and closing, a resource takes: sequences store their value in
\* seqDb, kinds close the indexes in indexDb and a sequence, databases live in
\* an environment.  The files are only touched under the lock.
Needs(r) ==
  LET base == IF kind = "sandwich" THEN {"bottom"} ELSE IF kind = "level" THEN {"lock"} ELSE {"env"}
  IN  CASE r \in {"seqDb", "indexDb", "objDb"} -> base
        [] r = "env"         -> {"lock"}
        [] r = "idSeq"       -> {"seqDb"}
        [] r = "kinds"       -> {"seqDb", "indexDb", "objDb"}
        [] r \in {"permissions", "quotas"} -> {"objDb", "kinds"}
        [] OTHER -> {}

-----------------------------------------------------------------------------
(* Opening *)

Goes(p, state) == process' = [process EXCEPT ![p] = state]

\* requireNotOpen()
OpenDb(p) ==
  /\ process[p].phase = "closed" /\ opens < MaxOpens
  /\ opens' = opens + 1
  /\ Goes(p, [Idle EXCEPT !.phase = "opening"])
  /\ UNCHANGED <<kind, version, lockFile, inodes, raced>>

Stage(p) == OpenList[process[p].at]
Advance(s) == IF s.at = Len(OpenList) THEN [s EXCEPT !.phase = "open", !.at = 1] ELSE [s EXCEPT !.at = @ + 1]

\* checkDbVersion(): a file that is missing or unreadable is written anew, a
\* file with another version is an error.
CheckDbVersion(p) ==
  /\ process[p].phase = "opening" /\ Stage(p) = "version" /\ version # "other"
  /\ version' = "current"
  /\ Goes(p, Advance(process[p]))
  /\ UNCHANGED <<kind, lockFile, inodes, raced, opens>>

\* lockDir(), first half: the file is opened, or created under a new inode.
OpenLockFile(p) ==
  /\ process[p].phase = "opening" /\ Stage(p) = "openLock"
  /\ inodes' = IF lockFile = 0 THEN inodes + 1 ELSE inodes
  /\ lockFile' = IF lockFile = 0 THEN inodes' ELSE lockFile
  /\ Goes(p, Advance([process[p] EXCEPT !.inode = lockFile']))
  /\ UNCHANGED <<kind, version, raced, opens>>

LockedBy(i) == {q \in Processes : process[q].locked /\ process[q].inode = i}

\* lockDir(), second half: flock() without waiting.
LockDir(p) ==
  /\ process[p].phase = "opening" /\ Stage(p) = "lock"
  /\ LockedBy(process[p].inode) = {}
  /\ Goes(p, Advance([process[p] EXCEPT !.locked = TRUE, !.held = @ \cup {"lock"}]))
  /\ UNCHANGED <<kind, version, lockFile, inodes, raced, opens>>

\* lockDir() fails: the file is closed and stays, open() fails.
LockedOut(p) ==
  /\ process[p].phase = "opening" /\ Stage(p) = "lock"
  /\ LockedBy(process[p].inode) # {}
  /\ Goes(p, [process[p] EXCEPT !.phase = "closing", !.at = 1, !.err = TRUE, !.inode = 0])
  /\ UNCHANGED <<kind, version, lockFile, inodes, raced, opens>>

\* flock() fails for another reason: m_lockFile stays open, and the destructor of
\* the environment removes the name of a lock that it never had.
LockFails(p) ==
  /\ process[p].phase = "opening" /\ Stage(p) = "lock"
  /\ lockFile' = 0
  /\ raced' = (raced \/ \E q \in Processes \ {p} : process[q].inode # 0)
  /\ Goes(p, [process[p] EXCEPT !.phase = "closing", !.at = 1, !.err = TRUE, !.inode = 0])
  /\ UNCHANGED <<kind, version, inodes, opens>>

\* LevelDB does not open a database that another process has open.
Free(r) == r = "bottom" => \A q \in Processes : "bottom" \notin process[q].held

\* What is opened is held.  The request takes the schema lock and a transaction
\* and gives both back.
Holding(held, r) ==
  CASE r = "endRequest" -> held \ {"request"} [] r = "shards" -> held [] OTHER -> held \cup {r}

Acquire(p) ==
  LET r == Stage(p)
  IN  /\ process[p].phase = "opening" /\ r \notin {"version", "openLock", "lock"}
      /\ Free(r)
      /\ Goes(p, Advance([process[p] EXCEPT !.held = Holding(@, r)]))
      /\ UNCHANGED <<kind, version, lockFile, inodes, raced, opens>>

\* A step of open() fails: the request is destroyed, then MojAutoCloser closes.
Fail(p) ==
  /\ process[p].phase = "opening" /\ Stage(p) # "lock"
  /\ Goes(p, [process[p] EXCEPT !.phase = "closing", !.at = 1, !.err = TRUE, !.held = @ \ {"request"}])
  /\ UNCHANGED <<kind, version, lockFile, inodes, raced, opens>>

-----------------------------------------------------------------------------
(* Closing *)

CloseDb(p) ==
  /\ process[p].phase = "open"
  /\ Goes(p, [process[p] EXCEPT !.phase = "closing", !.at = 1])
  /\ UNCHANGED <<kind, version, lockFile, inodes, raced, opens>>

EngineDbs == {"seqDb", "indexDb", "objDb"}

\* What the engine's drop() closes, in its order: LMDB and Sandwich only their
\* sequences, LevelDB and Berkeley DB all databases too, while the kinds, the
\* permissions and the quotas are still open.
DropList ==
  IF kind \in {"level", "berkeley"} THEN <<"idSeq", "seqDb", "indexDb", "objDb">> ELSE <<"idSeq">>

\* MojDb::drop(): the engine drops, the request ends, the database is closed.
\* The first error ends it: what was closed stays closed in an open database.
Drop(p) ==
  /\ process[p].phase = "open"
  /\ \E n \in 0..Len(DropList) :
       LET gone == process[p].held \cap {DropList[i] : i \in 1..n}
           left == [process[p] EXCEPT !.held = @ \ gone, !.dropped = @ \cup gone]
       IN  \/ Goes(p, left)
           \/ n = Len(DropList) /\ Goes(p, [left EXCEPT !.phase = "closing", !.at = 1])
  /\ UNCHANGED <<kind, version, lockFile, inodes, raced, opens>>

Closed(s) == IF s.at = Len(CloseList) THEN [s EXCEPT !.phase = "closed", !.at = 1] ELSE [s EXCEPT !.at = @ + 1]

\* Faulty variant: the first error ends close().
ReleaseStops(p) ==
  LET r == CloseList[process[p].at]
  IN  /\ process[p].phase = "closing" /\ "request" \notin process[p].held
      /\ ~(r = "lock" /\ process[p].locked)
      /\ \E bad \in BOOLEAN :
           Goes(p, IF bad THEN [process[p] EXCEPT !.phase = "closed", !.held = @ \ {r}]
                   ELSE Closed([process[p] EXCEPT !.held = @ \ {r}]))
      /\ UNCHANGED <<kind, version, lockFile, inodes, raced, opens>>

\* One step of close(), under the schema lock, which goes on after an error.
Release(p) ==
  LET r == CloseList[process[p].at]
  IN  /\ process[p].phase = "closing" /\ "request" \notin process[p].held
      /\ ~(r = "lock" /\ process[p].locked)
      /\ \E bad \in BOOLEAN :
           Goes(p, Closed([process[p] EXCEPT !.held = @ \ {r}, !.err = @ \/ bad,
                                             !.inode = IF r = "lock" THEN 0 ELSE @]))
      /\ UNCHANGED <<kind, version, lockFile, inodes, raced, opens>>

\* unlockDir(): the name is removed, whatever file it leads to, then the file
\* is closed.
UnlinkLock(p) ==
  /\ process[p].phase = "closing" /\ CloseList[process[p].at] = "lock" /\ process[p].locked
  /\ lockFile' = 0
  /\ raced' = (raced \/ \E q \in Processes \ {p} : process[q].inode # 0)
  /\ Goes(p, [process[p] EXCEPT !.locked = FALSE])
  /\ UNCHANGED <<kind, version, inodes, opens>>

\* The process is killed: the system closes its files, the lock file stays.
KillProcess(p) ==
  /\ process[p].phase # "closed"
  /\ Goes(p, Idle)
  /\ UNCHANGED <<kind, version, lockFile, inodes, raced, opens>>

LifeInit ==
  /\ kind \in {"level", "sandwich", "lmdb", "berkeley"}
  /\ version \in {"absent", "current", "other"}
  /\ process = [p \in Processes |-> Idle]
  /\ lockFile = 0 /\ inodes = 0 /\ raced = FALSE /\ opens = 0

LifeNext ==
  \E p \in Processes :
    \/ OpenDb(p) \/ CheckDbVersion(p) \/ OpenLockFile(p) \/ LockDir(p) \/ LockedOut(p) \/ LockFails(p)
    \/ Acquire(p) \/ Fail(p) \/ CloseDb(p) \/ Drop(p) \/ Release(p) \/ UnlinkLock(p) \/ KillProcess(p)

LifeSpec == LifeInit /\ [][LifeNext]_lifeVars

-----------------------------------------------------------------------------
(* Properties *)

\* A closed database has given everything back: wherever open() failed and
\* whatever close() met, no lock, environment or database is left behind.
NothingLeft ==
  \A p \in Processes : process[p].phase = "closed" => process[p].held = {} /\ process[p].inode = 0

\* Nothing is closed before what still needs it: the sequences can store their
\* values and the indexes are closed in an open environment.  Only drop() breaks
\* the order: the databases it closes may be missing under what is closed later.
NeedsHeld ==
  \A p \in Processes : \A r \in process[p].held :
    Needs(r) \subseteq process[p].held \cup (process[p].dropped \cap EngineDbs)

\* close() never runs in a thread that still has the request of open(): it
\* would wait for the schema lock that the thread itself holds.
NoSelfDeadlock ==
  \A p \in Processes : process[p].phase = "closing" => "request" \notin process[p].held

\* Two processes never have the directory locked, unless a process removed the
\* lock file while another had it open: unlockDir() removes the name first, and
\* removes one that it never locked where flock() failed.
OneInstance == ~raced => Cardinality({p \in Processes : process[p].locked}) <= 1

\* A process that failed to open or was closed holds nothing, nothing is released
\* before what needs it except the databases that drop() closes, closing never waits
\* for a lock that it holds itself, and one process at a time has the directory.
LifecycleSafe == NothingLeft /\ NeedsHeld /\ NoSelfDeadlock /\ OneInstance
=============================================================================
