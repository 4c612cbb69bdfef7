------------------------------ MODULE DbAdmin -------------------------------
(***************************************************************************)
(* Backups, restores and purges beside clients that write.  Every write    *)
(* takes a revision and commits it later.  A backup dumps what has a       *)
(* revision beyond the client's incremental key, live objects first, then  *)
(* deletion markers, in two queries; a purge removes deletion markers up   *)
(* to the revision that was current a number of days ago, batch by batch,  *)
(* with a commit after each, and before a batch's state is stored where    *)
(* one query fills it.                                                     *)
(*                                                                         *)
(* The dump is that of a service with enableRootKind: without it dumpImpl  *)
(* (MojDbAdmin.cpp:840) asks kind by kind and ignores the incremental key. *)
(* One dump, one load and one purge at a time, and fewer stamps than a     *)
(* batch holds.                                                            *)
(***************************************************************************)
EXTENDS Naturals, FiniteSets, FiniteSetsExt

CONSTANTS Writers, ObjIds,
          Synced,          \* the ids of objects whose kind is backed up
          AutoBatchSize,   \* objects that a purge removes in one transaction
          MaxBytes,        \* records that fit into one dump
          LoadStepSize,    \* records that a load commits at a time
          Windows,         \* days to keep deletion markers: what callers ask for
          Levels,          \* the space alert levels that checks find, of 0 .. 3
          MaxRev, MaxDay,  \* bounds: revisions and days
          MaxDumps,        \* bound: dumps, and loads
          None             \* no object, no writer, no check

AdminAssumption ==
    /\ IsFiniteSet(ObjIds) /\ Synced \subseteq ObjIds
    /\ AutoBatchSize \in Nat \ {0} /\ MaxBytes \in Nat \ {0} /\ LoadStepSize \in Nat \ {0}
    /\ Windows \subseteq Nat /\ Levels \subseteq 0 .. 3
    /\ None \notin [rev : Nat, del : BOOLEAN, day : Nat]
    /\ None \notin [id : ObjIds, new : [rev : Nat, del : BOOLEAN, day : Nat]]

ASSUME AdminAssumption

VARIABLES rev,        \* the last revision given out
          object,     \* the committed objects
          kindRev,    \* the revision of the objects' kind
          writer,     \* what each writer is about to commit
          day,        \* the clock
          stamps,     \* the RevTimestamp:1 objects
          lastPurged, \* the LastPurgedRev state; 0 when there is none
          purge,      \* the purge in progress
          level,      \* MojDbSpaceAlert::m_spaceAlertLevel: 0 none to 3 high; None before a check
          dump,       \* the dump in progress
          key,        \* the backup client's incremental key; 0 for a part it has not
          copy,       \* what the backup files hold, in the order they were written
          kindCopy,   \* and the revision of the kind in them
          load,       \* records still to be loaded
          dumps,      \* how many dumps and loads there were
          late,       \* ids committed after a dump had passed their revision
          missed,     \* ids whose purge purgeStatus() showed until a dump was over
          unstored    \* ids purged by a batch whose state is not stored

adminVars == <<rev, object, kindRev, writer, day, stamps, lastPurged, purge, level, dump, key, copy, kindCopy, load, dumps, late, missed, unstored>>

\* batched: the caller's request is a batch already; alert: the level that a space
\* check purges for; removed: whether it has removed a marker.
NoPurge == [pc |-> "idle", rev |-> 0, day |-> 0, window |-> 0, own |-> [rev |-> 0, day |-> 0], gone |-> {},
            batched |-> TRUE, alert |-> None, removed |-> FALSE]

NoDump == [pc |-> "idle", newRev |-> 0, room |-> 0]

\* day: when a deletion took its revision, 0 for what is not deleted.
Object(r, del) == [rev |-> r, del |-> del, day |-> IF del THEN day ELSE 0]

Live(o) == o # None /\ ~o.del

Marker(o) == o # None /\ o.del

\* The schema lock: writers, dumps and purges share it until they commit, putKind and
\* the transactions of a load need it alone.
Exclusive == (\A w \in Writers : writer[w] = None) /\ dump.pc = "idle" /\ purge.pc # "begun"

-----------------------------------------------------------------------------
\* A put or a delete takes its revision when it is prepared ...
TakeRev(w, id, del) ==
    /\ writer[w] = None
    /\ rev < MaxRev /\ late = {}
    /\ del => Live(object[id])
    /\ \A v \in Writers : writer[v] # None => writer[v].id # id     \* the engine locks the object
    /\ rev' = rev + 1
    /\ writer' = [writer EXCEPT ![w] = [id |-> id, new |-> Object(rev + 1, del)]]
    /\ UNCHANGED <<object, kindRev, day, stamps, lastPurged, purge, level, dump, key, copy, kindCopy, load, dumps, late, missed, unstored>>

\* ... and commits, or fails.
Commit(w, ok) ==
    /\ writer[w] # None
    /\ LET id == writer[w].id
           new == writer[w].new
           passed == IF new.del THEN key.del
                     ELSE IF dump.newRev > key.rev THEN dump.newRev ELSE key.rev
       IN  /\ object' = IF ok THEN [object EXCEPT ![id] = new] ELSE object
           /\ late' = IF ok /\ new.rev <= passed THEN late \cup {id} ELSE late
    /\ writer' = [writer EXCEPT ![w] = None]
    /\ UNCHANGED <<rev, kindRev, day, stamps, lastPurged, purge, level, dump, key, copy, kindCopy, load, dumps, missed, unstored>>

PutKindRev ==
    /\ Exclusive
    /\ rev < MaxRev /\ late = {}
    /\ rev' = rev + 1
    /\ kindRev' = rev + 1
    /\ UNCHANGED <<object, writer, day, stamps, lastPurged, purge, level, dump, key, copy, kindCopy, load, dumps, late, missed, unstored>>

NextDay ==
    /\ day < MaxDay
    /\ day' = day + 1
    /\ UNCHANGED <<rev, object, kindRev, writer, stamps, lastPurged, purge, level, dump, key, copy, kindCopy, load, dumps, late, missed, unstored>>

-----------------------------------------------------------------------------
\* The stamps that are at least window days old.
OldStamps(all, window) == {s \in all : s.day + window <= day}

\* purge() begins: a stamp for now, which the first batch commits, and the newest
\* one that is old enough.  Without one the stamp is all there is to commit.
BeginPurge(window, batched, alert) ==
    LET own == [rev |-> rev + 1, day |-> day]
        old == OldStamps(stamps \cup {own}, window)
        found == CHOOSE s \in old : \A t \in old : s.day > t.day \/ (s.day = t.day /\ s.rev >= t.rev)
    IN  /\ purge.pc = "idle"
        /\ rev < MaxRev /\ late = {}
        /\ rev' = rev + 1
        /\ IF old = {}
           THEN /\ stamps' = stamps \cup {own} /\ UNCHANGED purge
                /\ level' = IF alert = None THEN level ELSE alert
           ELSE /\ purge' = [NoPurge EXCEPT !.pc = "begun", !.rev = found.rev, !.day = found.day, !.window = window,
                                            !.own = own, !.batched = batched, !.alert = alert]
                /\ UNCHANGED <<stamps, level>>

\* A client's purge in the batch of its request, or the scheduled one in none.
Purge(window, batched) ==
    /\ BeginPurge(window, batched, None)
    /\ UNCHANGED <<object, kindRev, writer, day, lastPurged, dump, key, copy, kindCopy, load, dumps, late, missed, unstored>>

\* doSpaceCheck(): a higher level than "none" that is new purges all markers, or
\* at the lowest level all but the last day's.
SpaceCheck(now) ==
    /\ now # level /\ purge.alert = None
    /\ IF now > 0 THEN BeginPurge(IF now > 1 THEN 0 ELSE 1, TRUE, now)
       ELSE level' = now /\ UNCHANGED <<rev, stamps, purge>>
    /\ UNCHANGED <<object, kindRev, writer, day, lastPurged, dump, key, copy, kindCopy, load, dumps, late, missed, unstored>>

\* A space check ends with its purge; one that removed something looks again.
LevelsAfter(removed) ==
    IF purge.alert = None THEN {level} ELSE IF purge.removed \/ removed THEN Levels ELSE {purge.alert}

\* Faulty variant: the state is stored once, by the batch that is the last.
StorePurgedLast(count) == IF count \in 1 .. AutoBatchSize - 1 THEN purge.rev ELSE lastPurged

\* updateState(LastPurgedRevKey): by every batch that removed something.
StorePurged(count) == IF count > 0 THEN purge.rev ELSE lastPurged

\* The order of the two queries of purgeImpl(): what is synced, then the rest.
PurgedFirst(a, b) ==
    IF (a \in Synced) # (b \in Synced) THEN a \in Synced ELSE object[a].rev < object[b].rev

\* purgeImpl(): the first markers up to the revision found.
Due == {id \in ObjIds : Marker(object[id]) /\ object[id].rev <= purge.rev}
Batch == {id \in Due : Cardinality({i \in Due : PurgedFirst(i, id)}) < AutoBatchSize}

\* One query that fills the batch has it committed by delImpl(), before the state.
FilledByOne(gone) ==
    Cardinality(gone) = AutoBatchSize /\ (gone \subseteq Synced \/ gone \cap Synced = {})

\* Waits for the locks of the writers.
MayRemove(gone) == \A w \in Writers : writer[w] # None => writer[w].id \notin gone

Without(gone) == [id \in ObjIds |-> IF id \in gone THEN None ELSE object[id]]

OwnStamp == IF purge.pc = "begun" THEN {purge.own} ELSE {}
OlderGone(all) == {s \in all : s.day > purge.day}

PurgeFilled ==
    /\ purge.pc \in {"begun", "batch"}
    /\ FilledByOne(Batch) /\ MayRemove(Due)
    /\ object' = Without(Batch)
    /\ stamps' = stamps \cup OwnStamp
    /\ unstored' = unstored \cup Batch
    /\ purge' = [purge EXCEPT !.pc = "state", !.gone = Batch, !.removed = TRUE]
    /\ UNCHANGED <<rev, kindRev, writer, day, lastPurged, level, dump, key, copy, kindCopy, load, dumps, late, missed>>

\* The rest of such a batch: the state, the stamps up to the one found, and a commit.
StoreState ==
    /\ purge.pc = "state"
    /\ lastPurged' = StorePurged(Cardinality(purge.gone))
    /\ stamps' = OlderGone(stamps)
    /\ unstored' = unstored \ purge.gone
    /\ purge' = [purge EXCEPT !.pc = "batch", !.gone = {}]
    /\ UNCHANGED <<rev, object, kindRev, writer, day, level, dump, key, copy, kindCopy, load, dumps, late, missed>>

\* Any other batch is committed with its state and the stamps.  A full one is followed
\* by another; commitBatch() has made the request a batch by then, so that without the
\* caller's batch nobody commits the last one.
PurgeBatch ==
    /\ purge.pc \in {"begun", "batch"}
    /\ ~FilledByOne(Batch) /\ MayRemove(Due)
    /\ LET last == Cardinality(Batch) < AutoBatchSize
       IN  /\ IF last /\ purge.pc = "batch" /\ ~purge.batched
              THEN UNCHANGED <<object, lastPurged, stamps, unstored>>
              ELSE /\ object' = Without(Batch)
                   /\ lastPurged' = StorePurged(Cardinality(Batch))
                   /\ stamps' = OlderGone(stamps \cup OwnStamp)
                   /\ unstored' = unstored \ Batch
           /\ purge' = IF last THEN NoPurge ELSE [purge EXCEPT !.pc = "batch", !.removed = TRUE]
           /\ level' \in IF last THEN LevelsAfter(Batch # {}) ELSE {level}
    /\ UNCHANGED <<rev, kindRev, writer, day, dump, key, copy, kindCopy, load, dumps, late, missed>>

\* An error ends the purge, and a space check without a new level.
PurgeFails ==
    /\ purge.pc # "idle"
    /\ purge' = NoPurge
    /\ UNCHANGED <<rev, object, kindRev, writer, day, stamps, lastPurged, level, dump, key, copy, kindCopy, load, dumps, late, missed, unstored>>

-----------------------------------------------------------------------------
\* insertIncrementalKey(): the revision of the last object written; none, if none was.
Reached(ids) == IF ids = {} THEN 0 ELSE Max({object[id].rev : id \in ids})

\* One pass of dumpImpl() over the objects of wanted, by revision, into what room
\* there is: what it wrote, how far it came, and whether the dump is full.
Pass(wanted, room) ==
    LET ids == {id \in wanted : Cardinality({i \in wanted : object[i].rev < object[id].rev}) < room}
    IN  [ids |-> ids, rev |-> Reached(ids), full |-> ids # wanted]

Copied(ids) == [id \in ObjIds |-> IF id \in ids THEN object[id] ELSE copy[id]]

\* dump(): the kind when it is newer than the key (a dump it does not fit into
\* fails), then the live objects.  Full: the key moves by what was written.
DumpLive ==
    /\ dump.pc = "idle" /\ late = {}
    /\ dumps < MaxDumps
    /\ dumps' = dumps + 1
    /\ LET kind == IF kindRev > key.rev THEN 1 ELSE 0
           p == Pass({id \in Synced : Live(object[id]) /\ object[id].rev > key.rev}, MaxBytes - kind)
       IN  /\ copy' = Copied(p.ids)
           /\ kindCopy' = IF kind = 1 THEN kindRev ELSE kindCopy
           /\ IF p.full
              THEN /\ key' = [key EXCEPT !.rev = IF p.ids = {} THEN key.rev ELSE p.rev]
                   /\ UNCHANGED dump
              ELSE /\ dump' = [pc |-> "deleted", newRev |-> p.rev, room |-> (MaxBytes - kind) - Cardinality(p.ids)]
                   /\ UNCHANGED key
    /\ UNCHANGED <<rev, object, kindRev, writer, day, stamps, lastPurged, purge, level, load, late, missed, unstored>>

\* The deletion markers.  A part of the key for which nothing was written is left
\* out of the answer, unless the dump is full: the next one starts over with it.
DumpDeleted ==
    /\ dump.pc = "deleted"
    /\ LET p == Pass({id \in Synced : Marker(object[id]) /\ object[id].rev > key.del}, dump.room)
       IN  /\ copy' = Copied(p.ids)
           /\ key' = [rev |-> IF p.full /\ dump.newRev = 0 THEN key.rev ELSE dump.newRev,
                      del |-> IF p.full /\ p.ids = {} THEN key.del ELSE p.rev]
    /\ dump' = NoDump
    /\ missed' = missed \cup {id \in Synced : object[id] = None /\ Live(copy[id])}
    /\ UNCHANGED <<kindCopy, rev, object, kindRev, writer, day, stamps, lastPurged, purge, level, load, dumps, late, unstored>>

-----------------------------------------------------------------------------
\* load() and restore() of the backup files there are, as <<id, restoring, deleted>>,
\* under the exclusive lock, which is released between the transactions.
BeginLoad(restoring) ==
    /\ load = {} /\ late = {}
    /\ dumps < MaxDumps
    /\ dumps' = dumps + 1
    /\ load' = {<<id, restoring, copy[id].del>> : id \in {i \in Synced : copy[i] # None}}
    /\ UNCHANGED <<rev, object, kindRev, writer, day, stamps, lastPurged, purge, level, dump, key, copy, kindCopy, late, missed, unstored>>

\* loadRestoreImpl() adds an object that does not exist, or that was deleted;
\* loadImpl() puts and deletes whatever is there.
Loaded(id, restoring, del, r) ==
    IF restoring THEN IF del \/ Live(object[id]) THEN object[id] ELSE Object(r, FALSE)
    ELSE IF del /\ object[id] = None THEN None ELSE Object(r, del)

LoadStep ==
    /\ Exclusive
    /\ \E batch \in SUBSET load :
           /\ batch # {} /\ (Cardinality(batch) = LoadStepSize \/ batch = load)
           /\ Cardinality(batch) <= LoadStepSize
           /\ rev + Cardinality(batch) <= MaxRev
           /\ \E nth \in [batch -> 1 .. Cardinality(batch)] :
                  /\ \A b, c \in batch : nth[b] = nth[c] => b = c
                  /\ object' = [id \in ObjIds |->
                                    IF \E b \in batch : b[1] = id
                                    THEN LET b == CHOOSE b \in batch : b[1] = id IN Loaded(id, b[2], b[3], rev + nth[b])
                                    ELSE object[id]]
           /\ rev' = rev + Cardinality(batch)
           /\ load' = load \ batch
    /\ UNCHANGED <<kindRev, writer, day, stamps, lastPurged, purge, level, dump, key, copy, kindCopy, dumps, late, missed, unstored>>

\* The service stops: what was committed stays, and the backup client its key.
Crash ==
    /\ purge.pc # "idle" \/ load # {} \/ dump.pc # "idle"
    /\ writer' = [w \in Writers |-> None]
    /\ purge' = NoPurge /\ dump' = NoDump /\ load' = {} /\ level' = None
    /\ UNCHANGED <<rev, object, kindRev, day, stamps, lastPurged, key, copy, kindCopy, dumps, late, missed, unstored>>

AdminInit ==
    /\ rev = 1 /\ kindRev = 1
    /\ object = [id \in ObjIds |-> None]
    /\ writer = [w \in Writers |-> None]
    /\ day = 1 /\ stamps = {} /\ lastPurged = 0
    /\ purge = NoPurge /\ level = None /\ dump = NoDump
    /\ key = [rev |-> 0, del |-> 0]
    /\ copy = [id \in ObjIds |-> None] /\ kindCopy = 0
    /\ load = {} /\ dumps = 0 /\ late = {} /\ missed = {} /\ unstored = {}

AdminNext ==
    \/ \E w \in Writers, id \in ObjIds, del \in BOOLEAN : TakeRev(w, id, del)
    \/ \E w \in Writers, ok \in BOOLEAN : Commit(w, ok)
    \/ PutKindRev \/ NextDay
    \/ \E window \in Windows, batched \in BOOLEAN : Purge(window, batched)
    \/ \E now \in Levels : SpaceCheck(now)
    \/ PurgeFilled \/ StoreState \/ PurgeBatch \/ PurgeFails \/ DumpLive \/ DumpDeleted
    \/ \E restoring \in BOOLEAN : BeginLoad(restoring)
    \/ LoadStep \/ Crash

AdminSpec == AdminInit /\ [][AdminNext]_adminVars

-----------------------------------------------------------------------------
\* What the client's key says it has, the backup has: each object up to the key's
\* revision as it is, no live copy of what was deleted up to the key's deleted
\* revision, and the kind.  Only a commit that came after a dump had passed its
\* revision escapes.
BackupCovers ==
    /\ \A id \in Synced \ late :
           /\ Live(object[id]) /\ object[id].rev <= key.rev => copy[id] = object[id]
           /\ Marker(object[id]) /\ object[id].rev <= key.del => ~Live(copy[id])
    /\ kindRev <= key.rev => kindCopy = kindRev

\* A deletion that was purged before a dump saw it shows in purgeStatus() until the
\* next dump is over: the last purged revision is beyond the client's key, also when
\* a purge stops between two batches.  One that stops after a batch that one query
\* filled, before it stores the state, leaves no trace of that batch.
PurgeIsVisible ==
    \A id \in Synced \ (late \cup missed \cup unstored) :
        object[id] = None /\ Live(copy[id]) => lastPurged > key.del

\* A purge takes no deletion marker that is younger than its window, counted from
\* when the deletion took its revision, although it goes by revisions alone.
PurgeOnlyOld ==
    purge.pc # "idle" =>
        \A id \in ObjIds : Marker(object[id]) /\ object[id].rev <= purge.rev => object[id].day + purge.window <= day

\* An incremental backup holds every change up to its key, a purge that has removed
\* a deletion marker and stored its state can be seen before the next dump, and only
\* markers of the revisions before the window are removed.
BackupsCover == BackupCovers /\ PurgeIsVisible /\ PurgeOnlyOld
=============================================================================
