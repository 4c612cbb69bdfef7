------------------------------- MODULE DbKind -------------------------------
(***************************************************************************)
(* Kinds: the registry MojDbKindEngine keeps in memory, the kind objects,  *)
(* index ids and index entries it keeps in the database, and the two ways  *)
(* they can drift apart: a registration that fails half way, and a change  *)
(* of the inheritance graph that has to move entries between indexes.      *)
(*                                                                         *)
(* putKind, delKind and the permission handler hold the schema lock for    *)
(* writing, and write through one storage transaction, so each of them is  *)
(* one step whose failure (at the named stage of the code) undoes the      *)
(* database and leaves the registry to reloadKind().  An object has one    *)
(* key per index, which changes only with its _del flag.                   *)
(***************************************************************************)
EXTENDS Naturals, FiniteSets, Sequences, SequencesExt

CONSTANTS Kinds,       \* ids of the kinds clients register
          Root,        \* Object:1
          Objs,        \* ids of objects
          Owners,      \* owners of kinds; also the callers that are not admin
          Admin,       \* a caller with admin rights
          KindObjects,     \* KindObjects[k]: the kind objects clients may put for k
          LoadOrder,   \* the order in which loadKinds() meets the kinds
          GrantKinds,  \* the kinds clients put permissions on
          SupersFirst, \* clients register a kind only after the kinds it extends
          FailOverMarker, \* a putKind() of a kind that was deleted may fail
          MaxIndexId,  \* bound: ids drawn from the index id sequence
          Nil

VARIABLES rootKind,   \* m_enableRootKind; m_enablePurge follows it
          kinds,      \* m_kinds: the registered kinds and their state
          disk,       \* the committed database
          perms,      \* m_types of the permission engine: kinds with a grant
          indexSeq    \* the index id sequence (not transactional)

kindVars == <<rootKind, kinds, disk, perms, indexSeq>>

AllKinds == Kinds \cup {Root}
Callers == Owners \cup {Admin}

IdIndex == [name |-> "_id", incDel |-> TRUE]

\* A new MojDbKind: no supers, no subs, no indexes.
NewKind == [owner |-> Nil, superIds |-> <<>>, supers |-> <<>>, subs |-> {},
            indexObjects |-> {}, indexes |-> [n \in {} |-> Nil], updating |-> FALSE]

\* Changes a function at one point, which it may not have had before.
With(f, k, v) == [x \in DOMAIN f \cup {k} |-> IF x = k THEN v ELSE f[x]]

Without(f, k) == [x \in DOMAIN f \ {k} |-> f[x]]

-----------------------------------------------------------------------------
\* The inheritance graph of a registry m.

\* extends(): the kinds that k is or inherits from.
Above(m, k) ==
    LET up[n \in 0 .. Cardinality(AllKinds)] ==
            IF n = 0 THEN {k}
            ELSE LET below == up[n - 1]
                 IN  below \cup UNION {ToSet(m[j].supers) : j \in below}
    IN  up[Cardinality(AllKinds)]

RemoveKind(vec, k) == SelectSeq(vec, LAMBDA x : x # k)

\* A cycle is ignored; the first real super replaces the root kind.
AddSuper(m, k, s) ==
    IF k \in Above(m, s) THEN m
    ELSE LET m1 == IF m[k].supers # <<>> /\ Head(m[k].supers) = Root
                   THEN [m EXCEPT ![Root].subs = @ \ {k}, ![k].supers = <<>>]
                   ELSE m
         IN  [m1 EXCEPT ![k].supers = Append(@, s), ![s].subs = @ \cup {k}]

\* Both directions: k leaves its supers, and its subs lose it.
ClearSupers(m, k) ==
    [j \in DOMAIN m |->
        [m[j] EXCEPT !.subs = IF j = k THEN {} ELSE @ \ {k},
                     !.supers = IF j = k THEN <<>> ELSE RemoveKind(@, k)]]

\* The kinds of vec1, among the registered ones, that vec2 does not have.
DiffSupers(m, vec1, vec2) ==
    SelectSeq(vec1, LAMBDA x : x \in DOMAIN m /\ x \notin ToSet(vec2))

\* subKinds(): a kind is listed below its first super only.
SubKinds(m) ==
    LET listed[n \in 0 .. Cardinality(AllKinds)] ==
            IF n = 0 THEN {Root}
            ELSE LET parents == listed[n - 1]
                 IN  parents \cup
                     {k \in DOMAIN m : \E p \in parents :
                         k \in m[p].subs /\ m[k].supers # <<>> /\ m[k].supers[1] = p}
    IN  listed[Cardinality(AllKinds)] \ {Root}

-----------------------------------------------------------------------------
\* Index entries.  d is a database, m a registry, o an object.

\* includeObj(): a deleted object only in an index that includes deleted ones.
IncludeObj(index, obj) == obj # Nil /\ (index.incDel \/ ~obj.del)

\* MojDbIndex::update() of every index of the kinds ks for old -> new.
IndexUpdate(d, m, ks, o, new, old) ==
    LET ixs == {m[k].indexes[n] : <<k, n>> \in
                   {<<k, n>> \in ks \X {"_id", "p"} : n \in DOMAIN m[k].indexes}}
        del == {i \in ixs : IncludeObj(i, old) /\ ~IncludeObj(i, new)}
        ins == {i \in ixs : /\ IncludeObj(i, new)
                            /\ ~IncludeObj(i, old) \/ old.del # new.del}
    IN  [d EXCEPT !.entries = (@ \ {<<i.id, o>> : i \in del})
                                 \cup {<<i.id, o>> : i \in ins}]

\* updateIndexes(): k, then each super the walk has not met yet.
UpdateIndexes(m, k, seen) == {k} \cup (Above(m, k) \ seen)

\* find() of everything of kind k, through its _id index.
Find(d, m, k, incDel) ==
    {o \in Objs : /\ "_id" \in DOMAIN m[k].indexes
                  /\ <<m[k].indexes["_id"].id, o>> \in d.entries
                  /\ incDel \/ ~d.objs[o].del}

\* build(): an index created by this transaction is filled before it commits.
Build(d, index, objs) ==
    [d EXCEPT !.entries = @ \cup {<<index.id, o>> : o \in {o \in objs : IncludeObj(index, d.objs[o])}}]

\* Faulty variant: the new index is ready, and empty.
PreCommitSkipsBuild(d, m, k) == d

\* handlePreCommit() of the indexes of k that are not ready.
PreCommit(d, m, k) ==
    LET new == {n \in DOMAIN m[k].indexes : ~m[k].indexes[n].ready}
    IN  IF new = {} THEN d
        ELSE Build(d, m[k].indexes["p"],
                   Find(d, m, k, m[k].indexes["p"].incDel))

\* handlePostCommit(): every index can answer queries.
PostCommit(m, k) ==
    [m EXCEPT ![k].indexes = [n \in DOMAIN @ |-> [@[n] EXCEPT !.ready = TRUE]]]

\* MojDbKindState::delIndex() and MojDbIndex::drop() of the named indexes.
DropIndexes(d, k, indexes, names) ==
    [d EXCEPT !.ids[k] = [n \in DOMAIN @ \ names |-> @[n]],
              !.entries = {e \in @ : \A n \in names : e[1] # indexes[n].id}]

-----------------------------------------------------------------------------
\* configure(): s is [m, d, seq], the registry, the transaction and the sequence.

\* MojDbKindState::id(): the stored id of an index's name, or the next of the sequence.
IndexId(s, k, name) == IF name \in DOMAIN s.d.ids[k] THEN s.d.ids[k][name] ELSE s.seq

\* openIndex(): only an index whose id is new is not ready.
OpenIndex(s, k, obj) ==
    LET created == obj.name \notin DOMAIN s.d.ids[k]
        id == IndexId(s, k, obj.name)
    IN  [s EXCEPT !.d.ids[k] = With(@, obj.name, id),
                  !.seq = IF created THEN @ + 1 ELSE @,
                  !.m[k].indexes = With(@, obj.name,
                      [id |-> id, incDel |-> obj.incDel,
                       ready |-> ~created \/ obj.name = "_id"])]

\* Drops what the new kind object does not have, then opens what is new.
ConfigureIndexes(s, k, objs) ==
    LET toDrop == {i.name : i \in s.m[k].indexObjects \ objs}
        toAdd  == objs \ s.m[k].indexObjects
        s1 == [s EXCEPT !.d = DropIndexes(@, k, s.m[k].indexes, toDrop),
                        !.m[k].indexes = [n \in DOMAIN @ \ toDrop |-> @[n]],
                        !.m[k].indexObjects = objs]
    IN  FoldLeft(LAMBDA x, i : OpenIndex(x, k, i), s1, SetToSeq(toAdd))

\* The entries of the objects of k move from the supers it leaves to those it
\* joins: one walk up from each, which the top kind of never skips.
MoveEntries(d, m, k, added, removed) ==
    LET in   == UNION {Above(m, a) : a \in ToSet(added)}
        out  == UNION {UpdateIndexes(m, b, in) : b \in ToSet(removed)}
        Move(x, o) == IndexUpdate(IndexUpdate(x, m, in, o, x.objs[o], Nil),
                                  m, out, o, Nil, x.objs[o])
    IN  FoldLeft(LAMBDA x, o : Move(x, o), d, SetToSeq(Find(d, m, k, TRUE)))

UpdateSupers(s, k, superIds) ==
    LET old    == s.m[k].superIds
        others == DOMAIN s.m \ {k}
        d1 == IF s.m[k].updating
              THEN MoveEntries(s.d, s.m, k, DiffSupers(s.m, superIds, old), DiffSupers(s.m, old, superIds))
              ELSE s.d
        m1 == ClearSupers([s.m EXCEPT ![k].superIds = superIds], k)
        m2 == FoldLeft(LAMBDA x, a : IF a \in others THEN AddSuper(x, k, a) ELSE x, m1, superIds)
        m3 == FoldLeft(LAMBDA x, j : AddSuper(x, j, k), m2,
                       SetToSeq({j \in others : k \in ToSet(s.m[j].superIds)}))
    IN  [s EXCEPT !.d = d1,
                  !.m = IF m3[k].supers = <<>> /\ Root \in others
                        THEN AddSuper(m3, k, Root) ELSE m3]

\* configure() up to the stage that fails: the owner and the schema first, then
\* the indexes, the supers and the revision sets.  m_owner is set at once; a
\* permission, schema or index that is refused ("early") leaves the rest alone.
Configure(s, k, conf, stage) ==
    LET s0 == [s EXCEPT !.m[k].owner = conf.owner]
        s1 == ConfigureIndexes(s0, k, conf.indexes \cup {IdIndex})
        s2 == UpdateSupers(s1, k, conf.extends)
    IN  IF stage = "early" THEN s0
        ELSE IF stage = "revset" THEN s2
        ELSE [s2 EXCEPT !.m[k].updating = TRUE]

\* createKind(): a new object is configured; it is registered if that succeeds.
CreateKind(s, k, conf, stage) ==
    Configure([s EXCEPT !.m = With(@, k, NewKind)], k, conf, stage)

\* MojDbKindEngine::putKind().
EnginePutKind(s, k, conf, stage) ==
    IF k \in DOMAIN s.m THEN Configure(s, k, conf, stage)
    ELSE CreateKind(s, k, conf, stage)

\* drop() and close(): the indexes go, the graph forgets the kind.
EngineDelKind(s, k) ==
    IF k \notin DOMAIN s.m THEN s
    ELSE [s EXCEPT !.d = DropIndexes(@, k, s.m[k].indexes, DOMAIN s.m[k].indexes),
                   !.m = Without(ClearSupers(@, k), k)]

-----------------------------------------------------------------------------
\* Permissions.

\* checkPermission() for OpKindUpdate: the owner the kind object names, or admin.
MayUpdate(owner, caller) == caller \in {Admin, owner}

\* configure(): only admin can change the owner of a registered kind.
MayConfigure(m, k, conf, caller) ==
    /\ k \in DOMAIN m /\ m[k].owner # conf.owner => caller = Admin
    /\ MayUpdate(conf.owner, caller)

\* Faulty variant: a grant on a kind does not reach the kinds that extend it.
ObjectPermissionOwn(m, granted, k) == k \in granted

\* objectPermission(): a kind that says nothing asks its first super.
ObjectPermission(m, granted, k) ==
    LET ask[n \in 0 .. Cardinality(AllKinds), j \in AllKinds] ==
            \/ j \in granted
            \/ n > 0 /\ m[j].supers # <<>> /\ ask[n - 1, m[j].supers[1]]
    IN  ask[Cardinality(AllKinds), k]

-----------------------------------------------------------------------------
\* The database object of a kind: Nil, live or (where deletion leaves a
\* marker, which is where purging is enabled) deleted.
LiveConf(d, k) == IF d.conf[k] = Nil \/ d.conf[k].del THEN Nil ELSE d.conf[k].obj

\* MojDb::reloadKind() reads the kind object by id, deleted or not: s is what
\* the failed operation left in memory, over the database as it was.
ReloadKind(s, k) ==
    IF disk.conf[k] # Nil
    THEN LET m1 == IF k \in DOMAIN s.m THEN Without(ClearSupers(s.m, k), k) ELSE s.m
             s1 == CreateKind([s EXCEPT !.m = m1], k, disk.conf[k].obj, "none")
         IN  [s1 EXCEPT !.d = PreCommit(s1.d, s1.m, k), !.m = PostCommit(s1.m, k)]
    ELSE EngineDelKind(s, k)

\* Faulty variant: the registry keeps what the failed request did to it.
CommitKindNoReload(s, k, stage) ==
    IF stage = "none"
    THEN [s EXCEPT !.m = IF k \in DOMAIN s.m THEN PostCommit(s.m, k) ELSE @,
                   !.d = IF k \in DOMAIN s.m THEN PreCommit(s.d, s.m, k) ELSE @]
    ELSE [s EXCEPT !.d = disk]

\* commitKind(): commit, or abort and reload.
CommitKind(s, k, stage) ==
    IF stage = "none"
    THEN [s EXCEPT !.m = IF k \in DOMAIN s.m THEN PostCommit(s.m, k) ELSE @,
                   !.d = IF k \in DOMAIN s.m THEN PreCommit(s.d, s.m, k) ELSE @]
    ELSE ReloadKind([s EXCEPT !.d = disk], k)

State == [m |-> kinds, d |-> disk, seq |-> indexSeq]

Become(s) ==
    /\ s.seq <= MaxIndexId + 1
    /\ kinds' = s.m
    /\ disk' = s.d
    /\ indexSeq' = s.seq

Stages == {"none", "early", "revset", "commit"}

\* MojDb::putKind().  A kind object equal to the stored one changes nothing; a
\* caller who may not configure the kind fails early.
PutKind(k, conf, caller, stage) ==
    /\ conf \in KindObjects[k]
    /\ LiveConf(disk, k) # conf
    /\ SupersFirst => ToSet(conf.extends) \subseteq DOMAIN kinds
    /\ (~FailOverMarker /\ disk.conf[k] # Nil /\ LiveConf(disk, k) = Nil)
           => (stage = "none" /\ MayConfigure(kinds, k, conf, caller))
    /\ MayConfigure(kinds, k, conf, caller) \/ stage = "early"
    /\ LET s0 == [State EXCEPT !.d.conf[k] = [obj |-> conf, del |-> FALSE]]
           s1 == EnginePutKind(s0, k, conf, stage)
       IN  Become(CommitKind(s1, k, stage))
    /\ UNCHANGED <<rootKind, perms>>

\* delKind() purges every object it finds in the kind.
PurgeObjects(d, m, k) ==
    FoldLeft(LAMBDA x, o : [IndexUpdate(x, m, UpdateIndexes(m, x.objs[o].kind, {}), o, Nil, x.objs[o])
                               EXCEPT !.objs[o] = Nil],
             d, SetToSeq(Find(d, m, k, TRUE)))

\* MojDb::delKind(): refused while kinds extend it.  The stored permissions on
\* the kind go too; the permission engine keeps its own.
DelKind(k, caller, stage) ==
    /\ k \in DOMAIN kinds /\ k # Root
    /\ kinds[k].subs = {}
    /\ MayUpdate(kinds[k].owner, caller)
    /\ disk.conf[k] # Nil
    /\ stage \in {"none", "commit"}
    /\ LET d1 == PurgeObjects(disk, kinds, k)
           d2 == [d1 EXCEPT !.perms = @ \ {k},
                            !.conf[k] = IF rootKind THEN [@ EXCEPT !.del = TRUE] ELSE Nil]
           s1 == EngineDelKind([State EXCEPT !.d = d2], k)
       IN  Become(CommitKind(s1, k, stage))
    /\ UNCHANGED <<rootKind, perms>>

\* putObj() of an object that is new, old, deleted or of another kind.
Put(o, k) ==
    /\ k \in DOMAIN kinds \ {Root}
    /\ LET old == disk.objs[o]
           new == [kind |-> k, del |-> FALSE]
           up(x) == UpdateIndexes(kinds, x, {})
           d1 == IF old # Nil /\ old.kind # k
                 THEN IndexUpdate(IndexUpdate(disk, kinds, up(old.kind), o, Nil, old),
                                  kinds, up(k), o, new, Nil)
                 ELSE IndexUpdate(disk, kinds, up(k), o, new, old)
       IN  disk' = [d1 EXCEPT !.objs[o] = new]
    /\ UNCHANGED <<rootKind, kinds, perms, indexSeq>>

\* delObj(): a marker where the database may purge later, else the object goes.
Del(o) ==
    /\ disk.objs[o] # Nil /\ ~disk.objs[o].del
    /\ LET old == disk.objs[o]
           new == IF rootKind THEN [old EXCEPT !.del = TRUE] ELSE Nil
       IN  disk' = [IndexUpdate(disk, kinds, UpdateIndexes(kinds, old.kind, {}), o, new, old)
                       EXCEPT !.objs[o] = new]
    /\ UNCHANGED <<rootKind, kinds, perms, indexSeq>>

\* MojDbPermissionEngine::put(): in memory before the commit that may fail.
PutPermission(k, caller, stage) ==
    /\ k \in DOMAIN kinds
    /\ MayUpdate(kinds[k].owner, caller)
    /\ stage \in {"none", "commit"}
    /\ perms' = perms \cup {k}
    /\ disk' = IF stage = "none" THEN [disk EXCEPT !.perms = @ \cup {k}] ELSE disk
    /\ UNCHANGED <<rootKind, kinds, indexSeq>>

\* open(): the built-in root kind, then every live kind object in id order.
Load(d) ==
    LET m0 == IF rootKind
              THEN (Root :> [NewKind EXCEPT
                       !.indexes = [n \in DOMAIN d.ids[Root] |->
                                       [id |-> d.ids[Root][n], incDel |-> TRUE, ready |-> TRUE]],
                       !.indexObjects = {IdIndex, [name |-> "p", incDel |-> TRUE]},
                       !.owner = Admin])
              ELSE [n \in {} |-> Nil]
        load(s, k) == IF LiveConf(d, k) = Nil THEN s
                      ELSE CreateKind(s, k, LiveConf(d, k), "none")
    IN  FoldLeft(load, [m |-> m0, d |-> d, seq |-> indexSeq], LoadOrder)

\* The process ends, by a close or a crash, and opens the database again.
Restart ==
    /\ kinds' = Load(disk).m
    /\ perms' = disk.perms
    /\ UNCHANGED <<rootKind, disk, indexSeq>>

-----------------------------------------------------------------------------
\* Root is 1 and 2 in the index id space when it exists.
Init ==
    /\ rootKind \in BOOLEAN
    /\ indexSeq = 3
    /\ perms = {}
    /\ disk = [conf |-> [k \in Kinds |-> Nil],
               ids |-> [k \in AllKinds |-> IF k = Root THEN [n \in {"_id", "p"} |-> IF n = "_id" THEN 1 ELSE 2]
                                           ELSE [n \in {} |-> Nil]],
               entries |-> {}, perms |-> {}, objs |-> [o \in Objs |-> Nil]]
    /\ kinds = Load(disk).m

Next ==
    \/ \E k \in Kinds, caller \in Callers, stage \in Stages :
           \E conf \in KindObjects[k] : PutKind(k, conf, caller, stage)
    \/ \E k \in Kinds, caller \in Callers, stage \in Stages : DelKind(k, caller, stage)
    \/ \E o \in Objs, k \in Kinds : Put(o, k)
    \/ \E o \in Objs : Del(o)
    \/ \E k \in GrantKinds, caller \in Callers, stage \in Stages : PutPermission(k, caller, stage)
    \/ Restart

Spec == Init /\ [][Next]_kindVars
-----------------------------------------------------------------------------
\* Properties.

\* The kinds that k inherits from according to the stored kind objects.
Declared(k) ==
    LET up[n \in 0 .. Cardinality(Kinds)] ==
            IF n = 0 THEN {k}
            ELSE LET below == up[n - 1]
                 IN  below \cup UNION {IF LiveConf(disk, j) = Nil THEN {}
                                       ELSE ToSet(LiveConf(disk, j).extends) : j \in below}
    IN  up[Cardinality(Kinds)]

\* What an index of kind k has to hold.
Expected(k, index) ==
    {o \in Objs : IncludeObj(index, disk.objs[o]) /\ k \in Declared(disk.objs[o].kind)}

Entries(index) == {e[2] : e \in {e \in disk.entries : e[1] = index.id}}

TypeOK ==
    /\ rootKind \in BOOLEAN
    /\ DOMAIN kinds \subseteq AllKinds
    /\ perms \subseteq Kinds
    /\ indexSeq \in 1 .. MaxIndexId + 1
    /\ \A k, j \in AllKinds : \A n \in DOMAIN disk.ids[k], i \in DOMAIN disk.ids[j] :
           disk.ids[k][n] < indexSeq /\ (disk.ids[k][n] = disk.ids[j][i] => k = j /\ n = i)
    /\ \A k \in DOMAIN kinds : kinds[k].subs \subseteq Kinds /\ ToSet(kinds[k].supers) \subseteq AllKinds

\* A query on a kind finds exactly the objects of the kind and of the kinds that
\* extend it, through every index: after any sequence of putKind() (new and
\* changed indexes, new and changed supers, failed at any stage), delKind(),
\* writes and restarts.
IndexExact ==
    \A k \in DOMAIN kinds \ {Root} : \A n \in DOMAIN kinds[k].indexes :
        LET i == kinds[k].indexes[n]
        IN  Entries(i) = Expected(k, i)

\* stats with verify: no entry of an index of a registered kind or of the root
\* kind leads to an object that is gone, and every entry belongs to an index that
\* the index id table names, so dropped indexes and kinds leave nothing behind.
NoStaleEntries ==
    \A e \in disk.entries :
        /\ disk.objs[e[2]] # Nil
        /\ \E k \in AllKinds : \E n \in DOMAIN disk.ids[k] : disk.ids[k][n] = e[1]

\* Indexes hold the entries they should and no others are left behind, whatever
\* happened to kinds, supers and index definitions; and no two indexes have the
\* same id.
EntriesExact == TypeOK /\ IndexExact /\ NoStaleEntries

\* The registry in memory is the one the stored kind objects describe, also after
\* a putKind() or delKind() that failed and was reloaded: same owner, supers and
\* indexes, all of them ready.  A kind is registered only if its object is stored.
RegistryMatchesDisk ==
    /\ \A k \in Kinds : LiveConf(disk, k) # Nil =>
           /\ k \in DOMAIN kinds
           /\ LET conf == LiveConf(disk, k)
                  sups == ToSet(conf.extends) \cap DOMAIN kinds
              IN  /\ kinds[k].owner = conf.owner
                  /\ kinds[k].indexObjects = conf.indexes \cup {IdIndex}
                  /\ [n \in DOMAIN kinds[k].indexes |-> kinds[k].indexes[n].id] = disk.ids[k]
                  /\ \A n \in DOMAIN kinds[k].indexes : kinds[k].indexes[n].ready
                  /\ ToSet(kinds[k].supers) =
                         IF sups = {} /\ rootKind THEN {Root} ELSE sups
    /\ \A k \in DOMAIN kinds \ {Root} : LiveConf(disk, k) # Nil

\* getKinds() lists every registered kind, below the root kind.
RootListsKinds == rootKind => SubKinds(kinds) = DOMAIN kinds \ {Root}

\* The registry is what the stored kind objects describe, the root kind's list of
\* all kinds included, after failures, reloads and restarts.
RegistryExact == RegistryMatchesDisk /\ RootListsKinds

\* A grant that is stored for a kind is in force for that kind and for the kinds
\* that extend it, whatever happened to the registry in between.
GrantsInForce ==
    \A k \in DOMAIN kinds \ {Root} :
        Declared(k) \cap disk.perms # {}
            => ObjectPermission(kinds, perms, k)

\* A query on Object:1 finds every object.
RootFindsAll ==
    rootKind => \A n \in DOMAIN kinds[Root].indexes :
        {o \in Objs : disk.objs[o] # Nil} \subseteq Entries(kinds[Root].indexes[n])
=============================================================================
