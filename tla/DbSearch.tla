------------------------------ MODULE DbSearch ------------------------------
(***************************************************************************)
(* A search (MojDbSearchCursor): all matching ids are taken from the index,*)
(* the objects are loaded by a pool of threads, filtered, sorted, made     *)
(* distinct and reversed, and a page of them is returned.  The sorted ids  *)
(* are kept in the kind's search cache (MojDbSearchCache) under the query  *)
(* and the kind's update revision, which every write of an object raises   *)
(* before it commits; later pages are read from the cache.                 *)
(*                                                                         *)
(* Every object is of the kind Sub, which extends Super.  An object is its *)
(* value of the order property, 0 when it is not there.                    *)
(***************************************************************************)
EXTENDS Sorting, SequencesExt, FiniteSetsExt

CONSTANTS
  Ids,        \* object ids, positive numbers
  Starts,     \* the stores a behaviour starts from
  Values,     \* values of the order property that are written, positive numbers
  Hidden,     \* the value the query filter rejects
  Clients,    \* searching threads
  Queries,    \* from, desc, distinct, immediate, limit
  MaxWrites,  \* bound: object writes
  MaxFinds    \* bound: searches

VARIABLES
  objects,    \* the committed objects
  writer,     \* the writing thread and its pending write
  rev,        \* m_updateRev of each kind
  cache,      \* the entries of the search caches
  client,     \* the searches
  writes,     \* writes so far
  finds       \* searches so far

searchVars == <<objects, writer, rev, cache, client, writes, finds>>

Super == "super"
Sub == "sub"
Undefined == 0
NoPage == 0

Rest == [phase |-> "idle", query |-> CHOOSE q \in Queries : TRUE, page |-> NoPage, view |-> [i \in Ids |-> 0],
         seen |-> 0, rev |-> 0, racy |-> FALSE, todo |-> <<>>, got |-> [i \in Ids |-> 0], items |-> <<>>,
         cached |-> FALSE, lost |-> FALSE, tied |-> FALSE, touched |-> {}, out |-> <<>>, last |-> <<>>]

Item(i, v) == [id |-> i, val |-> v]
Is(c, phase) == client[c].phase = phase
Goes(c, state) == client' = [client EXCEPT ![c] = state]

\* The history of a client: objects written since its search began.
Touch(i) == [c \in Clients |-> IF Is(c, "idle") THEN client[c] ELSE [client[c] EXCEPT !.touched = @ \cup {i}]]

-----------------------------------------------------------------------------
(* The writer *)

\* Faulty variant: only the object's own kind notices the write.
PreUpdateOwn(i, v) ==
  /\ writer.phase = "idle" /\ writes < MaxWrites /\ objects[i] # v
  /\ writer' = [phase |-> "updating", id |-> i, val |-> v]
  /\ rev' = [rev EXCEPT ![Sub] = @ + 1]
  /\ writes' = writes + 1
  /\ UNCHANGED <<objects, cache, client, finds>>

\* preUpdate(): the kind and its supers count the write, before it is made.
PreUpdate(i, v) ==
  /\ writer.phase = "idle" /\ writes < MaxWrites /\ objects[i] # v
  /\ writer' = [phase |-> "updating", id |-> i, val |-> v]
  /\ rev' = [k \in {Super, Sub} |-> rev[k] + 1]
  /\ writes' = writes + 1
  /\ UNCHANGED <<objects, cache, client, finds>>

CommitWrite ==
  /\ writer.phase = "updating"
  /\ objects' = [objects EXCEPT ![writer.id] = writer.val]
  /\ client' = Touch(writer.id)
  /\ writer' = [phase |-> "idle", id |-> 0, val |-> 0]
  /\ UNCHANGED <<rev, cache, writes, finds>>

AbortWrite ==
  /\ writer.phase = "updating"
  /\ writer' = [phase |-> "idle", id |-> 0, val |-> 0]
  /\ UNCHANGED <<objects, rev, cache, client, writes, finds>>

-----------------------------------------------------------------------------
(* The cache *)

\* contain() and getIdSet(); a key is the query as toObject() writes it, which
\* leaves immediateReturn out, without page and limit, and the revision.
Key(q) == [q EXCEPT !.immediate = FALSE, !.limit = 0]
Entries(q, r) == {e \in cache : Key(e.query) = Key(q) /\ e.rev = r}
Contain(q, r) == Entries(q, r) # {}
GetIdSet(q, r) == IF Contain(q, r) THEN (CHOOSE e \in Entries(q, r) : TRUE).ids ELSE <<>>

\* The kind's entries; each kind has a cache of its own.
DestroyCache(kind) == {e \in cache : e.query.from # kind}

\* wipeWholeCache(), when a shard changes its status.
WipeWholeCache ==
  /\ cache # {}
  /\ cache' = {}
  /\ UNCHANGED <<objects, writer, rev, client, writes, finds>>

-----------------------------------------------------------------------------
(* Opening a search, or its next page *)

\* find() opens the storage query, whose iterator sees the index as it is now.
OpenQuery(c, state) ==
  Goes(c, [state EXCEPT !.phase = "open", !.view = objects, !.seen = rev[state.query.from],
                            !.racy = (writer.phase = "updating")])

Find(c, q) ==
  /\ Is(c, "idle") \/ Is(c, "done") \/ Is(c, "error")
  /\ finds < MaxFinds
  /\ OpenQuery(c, [Rest EXCEPT !.query = q])
  /\ finds' = finds + 1
  /\ UNCHANGED <<objects, writer, rev, cache, writes>>

\* The client asks with the page it was given.
NextPage(c) ==
  /\ Is(c, "paged")
  /\ OpenQuery(c, [client[c] EXCEPT !.last = <<>>])
  /\ UNCHANGED <<objects, writer, rev, cache, writes, finds>>

-----------------------------------------------------------------------------
(* Loading *)

\* The index's order: by value, then id.
Before(a, b) == a.val < b.val \/ (a.val = b.val /\ a.id < b.id)
InView(view) == SetToSortSeq({Item(i, view[i]) : i \in {j \in Ids : view[j] # 0}}, Before)
IdsOf(items) == [n \in DOMAIN items |-> items[n].id]
WalkOrder(s) == IdsOf(IF s.query.desc THEN Reverse(InView(s.view)) ELSE InView(s.view))

\* begin(): the revision is read, and the cache asked for it.
Begin(c) ==
  LET s == client[c]
      r == rev[s.query.from]
      in == Contain(s.query, r)
  IN  /\ Is(c, "open")
      /\ Goes(c, [s EXCEPT !.rev = r, !.cached = in, !.view = Rest.view, !.seen = 0,
                           !.racy = @ \/ s.seen # r \/ writer.phase = "updating",
                           !.phase = IF in THEN "hit" ELSE IF s.query.immediate THEN "walking" ELSE "loading",
                           !.todo = IF in THEN <<>> ELSE WalkOrder(s)])
      /\ UNCHANGED <<objects, writer, rev, cache, writes, finds>>

\* loadFromCache() takes the ids; the entry may be gone by now.
TakeIds(c) ==
  LET s == client[c]
      ids == GetIdSet(s.query, s.rev)
  IN  /\ Is(c, "hit")
      /\ Goes(c, [s EXCEPT !.phase = "cached", !.todo = ids,
                           !.lost = @ \/ ~\E e \in Entries(s.query, s.rev) : ~e.racy])
      /\ UNCHANGED <<objects, writer, rev, cache, writes, finds>>

\* The walk has not come to the page yet.
BeforePage(s) == s.page # NoPage /\ s.items = <<>> /\ s.page # Head(s.todo)

\* loadFromCache(): one more object than the page holds; ids whose object is
\* gone are passed, the ids after that become items without an object.
ReadCached(c) ==
  LET s == client[c]
      i == Head(s.todo)
  IN  /\ Is(c, "cached") /\ s.todo # <<>>
      /\ Goes(c, CASE i = Undefined      -> [s EXCEPT !.phase = "error"]
                   [] i # Undefined /\ (objects[i] = 0 \/ BeforePage(s)) -> [s EXCEPT !.todo = Tail(@)]
                   [] i # Undefined /\ objects[i] # 0 /\ ~BeforePage(s) /\ Len(s.items) <= s.query.limit ->
                        [s EXCEPT !.todo = Tail(@), !.items = Append(@, Item(i, objects[i]))]
                   [] OTHER -> [s EXCEPT !.todo = <<>>,
                                         !.items = @ \o [n \in DOMAIN s.todo |-> Item(Undefined, 0)]])
      /\ UNCHANGED <<objects, writer, rev, cache, writes, finds>>

\* loadWithImmediateReturn(): in index order until there is one object more
\* than the page holds; an entry whose object is gone is an error.
WalkEnds(s) ==
  LET at == SelectInSeq(s.items, LAMBDA x : x.id = s.page)
  IN  IF s.page = NoPage THEN Len(s.items) >= s.query.limit + 1
      ELSE at # 0 /\ Len(s.items) > at /\ Len(s.items) >= at + s.query.limit + 1

ReadWalked(c) ==
  LET s == client[c]
      i == Head(s.todo)
  IN  /\ Is(c, "walking") /\ s.todo # <<>> /\ ~WalkEnds(s)
      /\ Goes(c, CASE objects[i] = 0      -> [s EXCEPT !.phase = "error"]
                   [] objects[i] = Hidden -> [s EXCEPT !.todo = Tail(@)]
                   [] OTHER -> [s EXCEPT !.todo = Tail(@), !.items = Append(@, Item(i, objects[i]))])
      /\ UNCHANGED <<objects, writer, rev, cache, writes, finds>>

\* searchThread_callee(): the pool's threads read the ids in any order.  The
\* first error is kept and reported when all are done.
Worker(c, i) ==
  LET s == client[c]
  IN  /\ Is(c, "loading") /\ \E n \in DOMAIN s.todo : s.todo[n] = i
      /\ Goes(c, [s EXCEPT !.todo = SelectSeq(@, LAMBDA j : j # i),
                           !.got[i] = IF objects[i] \in {0, Hidden} THEN 0 ELSE objects[i],
                           !.lost = @ \/ objects[i] = 0,
                           !.last = IF objects[i] = 0 THEN <<Item(Undefined, 0)>> ELSE @])
      /\ UNCHANGED <<objects, writer, rev, cache, writes, finds>>

-----------------------------------------------------------------------------
(* Sorting and paging *)

\* loadObjects() gives the items in the order of their ids, sort() sorts them
\* by value.
Sort(got) ==
  QuickSort(SetToSortSeq({Item(i, got[i]) : i \in {j \in Ids : got[j] # 0}}, LAMBDA x, y : x.id < y.id))

\* Two items have the same value.
Tied(items) == \E m, n \in DOMAIN items : m # n /\ items[m].val = items[n].val

\* distinct(): of neighbours with equal keys the first stays.
Distinct(items) ==
  SelectSeq(items, LAMBDA x : ~\E n \in 2..Len(items) : items[n] = x /\ items[n - 1].val = x.val)

\* load() without the cache.
Loaded(s) ==
  LET sorted == Sort(s.got)
      unique == IF s.query.distinct THEN Distinct(sorted) ELSE sorted
  IN  IF s.query.desc THEN Reverse(unique) ELSE unique

\* setPagePosition(): the page starts at its id; a page that is not found is
\* empty and stays the next page.
SetPagePosition(items, page, limit) ==
  LET at == SelectInSeq(items, LAMBDA x : x.id = page)
  IN  CASE at = 0 -> [from |-> Len(items) + 1, to |-> Len(items), page |-> page]
        [] at # 0 /\ limit >= Len(items) - at + 1 -> [from |-> at, to |-> Len(items), page |-> NoPage]
        [] OTHER -> [from |-> at, to |-> at + limit - 1, page |-> items[at + limit].id]

FirstPage(items, limit) ==
  IF limit >= Len(items) THEN [from |-> 1, to |-> Len(items), page |-> NoPage]
  ELSE [from |-> 1, to |-> limit, page |-> items[limit + 1].id]

\* The page is answered, with the next one, and the cursor closed.
Answered(s) ==
  [s EXCEPT !.rev = 0, !.racy = FALSE, !.items = <<>>, !.cached = FALSE,
            !.phase = IF s.page = NoPage \/ s.lost THEN "done" ELSE "paged"]

\* The end of load(): the page is placed; a first page that is not the last
\* one goes into the cache.  get() then returns the page's items.
Place(c) ==
  LET s     == client[c]
      items == IF Is(c, "loading") THEN Loaded(s) ELSE s.items
      pos   == IF s.page = NoPage THEN FirstPage(items, s.query.limit)
               ELSE SetPagePosition(items, s.page, s.query.limit)
      keep  == s.page = NoPage /\ pos.page # NoPage /\ ~s.query.immediate
  IN  /\ \/ Is(c, "loading") /\ s.todo = <<>> /\ s.last # <<Item(Undefined, 0)>>
         \/ Is(c, "cached") /\ s.todo = <<>>
         \/ Is(c, "walking") /\ (s.todo = <<>> \/ WalkEnds(s))
      /\ LET placed == [s EXCEPT !.todo = <<>>, !.got = Rest.got, !.items = items, !.page = pos.page,
                           !.tied = @ \/ (Is(c, "loading") /\ Tied(Sort(s.got))),
                           !.lost = @ \/ s.page \in s.touched \/ (s.page # NoPage /\ pos.from > Len(items)),
                           !.out = @ \o SubSeq(items, pos.from, pos.to), !.last = SubSeq(items, pos.from, pos.to)]
         IN  Goes(c, IF keep THEN [placed EXCEPT !.phase = "keep"] ELSE Answered(placed))
      /\ UNCHANGED <<objects, writer, rev, cache, writes, finds>>

WorkersFailed(c) ==
  /\ Is(c, "loading") /\ client[c].todo = <<>> /\ client[c].last = <<Item(Undefined, 0)>>
  /\ Goes(c, [client[c] EXCEPT !.phase = "error"])
  /\ UNCHANGED <<objects, writer, rev, cache, writes, finds>>

\* updateCache(): not when the key is there; otherwise the kind's entries go
\* and the new one is added, under two locks.
DropOld(c) ==
  LET s == client[c]
  IN  /\ Is(c, "keep")
      /\ cache' = IF Contain(s.query, s.rev) THEN cache ELSE DestroyCache(s.query.from)
      /\ Goes(c, IF Contain(s.query, s.rev) THEN Answered(s) ELSE [s EXCEPT !.phase = "create"])
      /\ UNCHANGED <<objects, writer, rev, writes, finds>>

\* getIds(), createCache(): insert() leaves an entry that is there alone.
CreateCache(c) ==
  LET s == client[c]
  IN  /\ Is(c, "create")
      /\ cache' = IF Contain(s.query, s.rev) THEN cache
                  ELSE cache \cup {[query |-> s.query, rev |-> s.rev, racy |-> s.racy \/ s.cached,
                                    ids |-> IdsOf(s.items)]}
      /\ Goes(c, Answered(s))
      /\ UNCHANGED <<objects, writer, rev, writes, finds>>

Init ==
  /\ objects \in Starts
  /\ writer = [phase |-> "idle", id |-> 0, val |-> 0]
  /\ rev = [k \in {Super, Sub} |-> 0]
  /\ cache = {} /\ client = [c \in Clients |-> Rest]
  /\ writes = 0 /\ finds = 0

Next ==
  \/ \E i \in Ids, v \in Values \cup {0} : PreUpdate(i, v)
  \/ CommitWrite \/ AbortWrite \/ WipeWholeCache
  \/ \E c \in Clients :
       \/ \E q \in Queries : Find(c, q)
       \/ \E i \in Ids : Worker(c, i)
       \/ NextPage(c) \/ Begin(c) \/ TakeIds(c) \/ ReadCached(c) \/ ReadWalked(c) \/ Place(c) \/ WorkersFailed(c)
       \/ DropOld(c) \/ CreateCache(c)

-----------------------------------------------------------------------------
(* Properties *)

Matching == {i \in Ids : objects[i] \notin {0, Hidden}}
Fresh(q) == Loaded([Rest EXCEPT !.query = q, !.got = [i \in Ids |-> IF i \in Matching THEN objects[i] ELSE 0]])

\* The cache is up to date: an entry under a kind's present revision has the
\* ids that a search would find now.  Excepted are a write under way, and
\* entries of a search that ran beside one: the revision is raised before the
\* write commits, so such a search stores the old ids under the new revision.
CacheFresh ==
  writer.phase = "idle" =>
    \A e \in cache : e.rev = rev[e.query.from] /\ ~e.racy =>
      e.ids = IdsOf(Fresh(e.query))

\* Over all its pages a search returns every object that matched all the time,
\* or, for a distinct search beside no write, one with its value.  Excepted are
\* searches whose page started at an object that changed or went, searches that
\* a racy cache entry served, or one that was gone when they took it, and
\* searches with equal values beside a write: they are sorted in another order
\* when there is one object more or less.
SearchComplete ==
  \A c \in Clients : LET s == client[c] IN
    Is(c, "done") /\ ~s.lost /\ ~(s.tied /\ s.touched # {}) =>
      \A i \in (IF s.query.distinct /\ s.touched # {} THEN {} ELSE Matching \ s.touched) :
        \E n \in DOMAIN s.out : s.out[n].id = i \/ (s.query.distinct /\ s.out[n].val = objects[i])

\* No object comes twice, in one page or in two, with the same exceptions.
NoRepeat ==
  \A c \in Clients : ~client[c].lost /\ ~(client[c].tied /\ client[c].touched # {}) =>
    \A m, n \in DOMAIN client[c].out :
      client[c].out[m].id = client[c].out[n].id /\ client[c].out[m].id \notin client[c].touched => m = n

\* A distinct search beside no write returns no value twice, in one page or
\* in two.
DistinctValues ==
  \A c \in Clients : client[c].query.distinct /\ client[c].touched = {} =>
    \A m, n \in DOMAIN client[c].out : client[c].out[m].val = client[c].out[n].val => m = n
=============================================================================
