------------------------------- MODULE DbQuery -------------------------------
(***************************************************************************)
(* A find, page by page: the where clause becomes ranges of index keys     *)
(* (MojDbQueryPlan), the ranges are walked in order (MojDbIsamQuery on the *)
(* iterator of the sandwich engine), each entry is joined with its object, *)
(* and a full page hands the client the key where the next one starts.     *)
(*                                                                         *)
(* The iterator sees the index as it was when the page was opened; the     *)
(* objects and the shards' states are read as they are, while other        *)
(* threads write.                                                          *)
(*                                                                         *)
(* Keys are byte sequences, as in MojDbKey: the index's id, the encoded    *)
(* value of the indexed property, the encoded object id.                   *)
(***************************************************************************)
EXTENDS Integers, SequencesExt, FiniteSetsExt

CONSTANTS
  Ids,        \* object ids, as bytes
  Values,     \* encoded values of the indexed property
  Tags,       \* the sets of values an object may have there (arrays)
  Queries,    \* the queries a client may make
  IndexId,    \* the index's id
  MaxByte,    \* MojUInt8Max
  MaxWrites   \* bound on the objects written during a query

VARIABLES
  objects,    \* each object's values; none when it is not there
  inactive,   \* objects on shards that are not active
  phase,      \* of the client: no query yet, between queries, reading, between pages
  query,      \* the client's query
  page,       \* the key its next page starts at; empty for the first
  view,       \* the index as the open iterator sees it
  ranges,     \* MojDbQueryPlan::m_ranges
  iter,       \* m_iter: the range being walked
  seeking,    \* m_state is StateSeek
  cur,        \* m_keyData: the iterator's last key
  count,      \* m_count
  insertedIds, \* m_insertedIds
  endKey,     \* m_endKey
  results,    \* history: the index keys of what the client got, over all pages
  touched     \* history: objects written since the query began

data   == <<objects, inactive, touched>>
cursor == <<view, ranges, iter, seeking, cur, count, insertedIds, endKey>>
vars   == <<objects, inactive, phase, query, page, view, ranges, iter, seeking, cur, count,
            insertedIds, endKey, results, touched>>

-----------------------------------------------------------------------------
(* Keys *)

\* MojLexicalCompare.
Less(a, b) ==
  \/ IsStrictPrefix(a, b)
  \/ \E i \in DOMAIN a \cap DOMAIN b : a[i] < b[i] /\ \A j \in 1..i - 1 : a[j] = b[j]

\* The least key beyond every key that k is a prefix of.
Increment(k) ==
  LET small == {i \in DOMAIN k : k[i] < MaxByte}
  IN IF small = {} THEN <<>> ELSE [SubSeq(k, 1, Max(small)) EXCEPT ![Max(small)] = @ + 1]

StringMarker == 4
NullValue    == <<1>>
IdBytes(id)  == <<StringMarker, id, 0>>
Key(v, id)   == <<IndexId>> \o v \o IdBytes(id)
IdOf(k)      == k[Len(k) - 1]

\* Entries of other indexes, which share the engine's table.
Neighbours == {<<IndexId - 1>> \o NullValue \o IdBytes(1), <<IndexId + 1>> \o NullValue \o IdBytes(1)}

IndexKeys == UNION {{Key(v, id) : v \in objects[id]} : id \in Ids}

-----------------------------------------------------------------------------
(* From a query to ranges *)

\* A where clause as addClause() builds it: an equality or prefix with one or
\* several values, a lower bound, an upper bound, or both; "any" stands for a
\* query that only orders by the property.
Clauses ==
  LET Vals == (SUBSET Values) \ {{}}
      One  == {{v} : v \in Values}
  IN {[lowerOp |-> "any", lower |-> {NullValue}, upperOp |-> "none", upper |-> NullValue]}
     \cup [lowerOp : {"=", "%"}, lower : Vals, upperOp : {"none"}, upper : {NullValue}]
     \cup [lowerOp : {"!=", ">", ">="}, lower : One, upperOp : {"none"}, upper : {NullValue}]
     \cup [lowerOp : {">", ">="}, lower : One, upperOp : {"<", "<="}, upper : Values]
     \cup [lowerOp : {"none"}, lower : {{NullValue}}, upperOp : {"<", "<="}, upper : Values]

KeyRange(l, u) == [lower |-> l, upper |-> u]

\* pushVal(): the index's id and one value.
BoundKey(v) == <<IndexId>> \o v

\* OpPrefix: without the string's terminator.
Unterminated(k) == IF k[Len(k)] = 0 THEN Front(k) ELSE k

UpperKey(c) ==
  CASE c.upperOp = "none" -> Increment(<<IndexId>>)
    [] c.upperOp = "<="   -> Increment(BoundKey(c.upper))
    [] c.upperOp = "<"    -> BoundKey(c.upper)

\* The ranges of one value of the clause.
RangesFromKeys(c, v) ==
  CASE c.lowerOp = "="                 -> <<KeyRange(BoundKey(v), Increment(BoundKey(v)))>>
    [] c.lowerOp = "%"                 -> <<KeyRange(BoundKey(v), Increment(Unterminated(BoundKey(v))))>>
    [] c.lowerOp = "!="                -> <<KeyRange(<<IndexId>>, BoundKey(v)),
                                            KeyRange(Increment(BoundKey(v)), Increment(<<IndexId>>))>>
    [] c.lowerOp = ">"                 -> <<KeyRange(Increment(BoundKey(v)), UpperKey(c))>>
    [] c.lowerOp \in {">=", "none"}    -> <<KeyRange(BoundKey(v), UpperKey(c))>>

ContainsKey(r, k) == (r.lower = <<>> \/ ~Less(k, r.lower)) /\ (r.upper = <<>> \/ Less(k, r.upper))

ContainsRange(r, s) == ContainsKey(r, s.lower) /\ (r.upper = <<>> \/ ~Less(r.upper, s.upper))

\* The range lies before the page.
BeforePage(r, p, desc) ==
  IF desc THEN r.lower # <<>> /\ ~Less(r.lower, p) ELSE r.upper # <<>> /\ Less(r.upper, p)

\* The page starts inside the range, or before it.
FromPage(r, p, desc) ==
  IF desc THEN IF r.upper = <<>> \/ Less(p, r.upper) THEN [r EXCEPT !.upper = p] ELSE r
          ELSE IF r.lower = <<>> \/ ~Less(p, r.lower) THEN [r EXCEPT !.lower = p] ELSE r

\* addRange(): cut to the page, and not inside the range before.
AddRange(q, p, rs, r) ==
  LET cut == IF p = <<>> THEN r ELSE FromPage(r, p, q.desc)
  IN IF (p # <<>> /\ BeforePage(r, p, q.desc)) \/ (rs # <<>> /\ ContainsRange(Last(rs), cut))
     THEN rs ELSE Append(rs, cut)

BuildRanges(q) ==
  LET c == q.clause
  IN IF c.lowerOp = "any" THEN <<KeyRange(<<IndexId>>, Increment(<<IndexId>>))>>
     ELSE FlattenSeq([i \in 1..Cardinality(c.lower) |->
                        RangesFromKeys(c, SetToSortSeq(c.lower, Less)[i])])

\* MojDbQueryPlan::init.
Plan(q, p) ==
  LET Add(rs, r) == AddRange(q, p, rs, r)
      rs         == FoldLeft(Add, <<>>, BuildRanges(q))
  IN IF q.desc THEN Reverse(rs) ELSE rs

-----------------------------------------------------------------------------
(* Walking the ranges *)

\* The plan is made and the iterator opened.
Open(q, p) ==
  /\ phase' = "open" /\ query' = q /\ page' = p
  /\ ranges' = Plan(q, p)
  /\ view' \in {IndexKeys, IndexKeys \cup Neighbours}
  /\ iter' = 1 /\ seeking' = TRUE /\ cur' = <<>>
  /\ count' = 0 /\ insertedIds' = {} /\ endKey' = <<>>

\* The client asks, once or again.
Find ==
  /\ phase \in {"new", "idle"}
  /\ Open(query, <<>>)
  /\ results' = <<>> /\ touched' = {}
  /\ UNCHANGED <<objects, inactive>>

\* The client asks for the next page of the same query.
NextPage ==
  /\ phase = "paged"
  /\ Open(query, page)
  /\ UNCHANGED <<data, results>>

LimitEnforced == count >= query.limit

First(S) == CHOOSE k \in S : \A l \in S : l = k \/ IF query.desc THEN Less(l, k) ELSE Less(k, l)

NextTargets == {k \in view : IF query.desc THEN Less(k, cur) ELSE Less(cur, k)}

\* seek(): the iterator may stand in the next range already; otherwise it goes
\* to the range's first key, in the query's direction.
SeekTargets(r) ==
  LET start == IF query.desc THEN r.upper ELSE r.lower
  IN IF cur # <<>> /\ (Less(cur, start) <=> query.desc) THEN {cur}
     ELSE {k \in view : start = <<>> \/ (Less(k, start) <=> query.desc)}

Targets == IF seeking THEN SeekTargets(ranges[iter]) ELSE NextTargets

\* match(): the key is not past the range's far end.
Match(k) ==
  LET end == IF query.desc THEN ranges[iter].lower ELSE ranges[iter].upper
  IN end = <<>> \/ (~Less(k, end) <=> query.desc)

Reading == phase = "open" /\ iter <= Len(ranges) /\ ~LimitEnforced

\* There are no more keys in the index: no range has any.
Exhausted ==
  /\ Reading /\ Targets = {}
  /\ iter' = Len(ranges) + 1 /\ seeking' = FALSE
  /\ UNCHANGED <<data, phase, query, page, view, ranges, cur, count, insertedIds, endKey, results>>

\* The key fell outside the range: on to the next one.
NextRange ==
  /\ Reading /\ Targets # {} /\ ~Match(First(Targets))
  /\ cur' = First(Targets) /\ seeking' = TRUE /\ iter' = iter + 1
  /\ UNCHANGED <<data, phase, query, page, view, ranges, count, insertedIds, endKey, results>>

\* An entry that is passed over: its shard is not active, its object is gone
\* (a ghost key), or the page has the object already.
Skipped(id) == id \in inactive \/ objects[id] = {} \/ id \in insertedIds

Skip ==
  /\ Reading /\ Targets # {} /\ Match(First(Targets))
  /\ Skipped(IdOf(First(Targets)))
  /\ cur' = First(Targets) /\ seeking' = FALSE
  /\ UNCHANGED <<data, phase, query, page, view, ranges, iter, count, insertedIds, endKey, results>>

\* Faulty variant: the page ends at the last key returned, in both directions.
SaveEndKeyAt(k) == k

\* saveEndKey(): where the next page starts.
SaveEndKey(k) == IF query.desc THEN k ELSE Increment(k)

\* An object is returned; a full page keeps its end.
Return ==
  /\ Reading /\ Targets # {} /\ Match(First(Targets))
  /\ ~Skipped(IdOf(First(Targets)))
  /\ LET k == First(Targets)
     IN /\ cur' = k /\ seeking' = FALSE
        /\ count' = count + 1
        /\ insertedIds' = insertedIds \cup {IdOf(k)}
        /\ endKey' = IF count + 1 >= query.limit THEN SaveEndKey(k) ELSE endKey
        /\ results' = Append(results, k)
  /\ UNCHANGED <<data, phase, query, page, view, ranges, iter>>

\* The page is answered: nextPage() gives its end if it is full.
Answer ==
  /\ phase = "open" /\ (iter > Len(ranges) \/ LimitEnforced)
  /\ page' = IF LimitEnforced THEN endKey ELSE <<>>
  /\ phase' = IF page' = <<>> THEN "idle" ELSE "paged"
  /\ view' = {} /\ ranges' = <<>> /\ iter' = 1 /\ seeking' = FALSE /\ cur' = <<>>
  /\ insertedIds' = {} /\ endKey' = <<>> /\ count' = 0
  /\ UNCHANGED <<data, query, results>>

-----------------------------------------------------------------------------
(* Other threads; at most MaxWrites objects change during a query *)

\* An object is put, changed or purged.
Write(id, vals) ==
  /\ id \notin touched /\ Cardinality(touched) < MaxWrites /\ objects[id] # vals
  /\ objects' = [objects EXCEPT ![id] = vals]
  /\ touched' = touched \cup {id}
  /\ UNCHANGED <<inactive, phase, query, page, cursor, results>>

\* A shard is activated or deactivated.
ToggleShard(id) ==
  /\ id \notin touched /\ Cardinality(touched) < MaxWrites
  /\ inactive' = IF id \in inactive THEN inactive \ {id} ELSE inactive \cup {id}
  /\ touched' = touched \cup {id}
  /\ UNCHANGED <<objects, phase, query, page, cursor, results>>

Init ==
  /\ objects \in [Ids -> Tags] /\ inactive = {} /\ touched = {}
  /\ phase = "new" /\ query \in Queries /\ page = <<>>
  /\ view = {} /\ ranges = <<>> /\ iter = 1 /\ seeking = FALSE /\ cur = <<>>
  /\ count = 0 /\ insertedIds = {} /\ endKey = <<>> /\ results = <<>>

Next ==
  \/ Find \/ NextPage \/ Exhausted \/ NextRange \/ Skip \/ Return \/ Answer
  \/ \E id \in Ids : ToggleShard(id) \/ \E vals \in Tags : Write(id, vals)

Spec == Init /\ [][Next]_vars

-----------------------------------------------------------------------------
(* Properties *)

Bytes    == Seq(0..MaxByte)

\* The state has its types; the walk stays within the plan.
TypeOK ==
  /\ objects \in [Ids -> SUBSET Values] /\ inactive \subseteq Ids /\ touched \subseteq Ids
  /\ phase \in {"new", "idle", "open", "paged"} /\ query \in Queries
  /\ page \in Bytes /\ cur \in Bytes /\ endKey \in Bytes
  /\ \A k \in view : k \in Bytes
  /\ iter \in 1..Len(ranges) + 1 /\ seeking \in BOOLEAN
  /\ count \in 0..query.limit /\ insertedIds \subseteq Ids

\* What a where clause means, on values.
Satisfies(v, c) ==
  /\ CASE c.lowerOp \in {"any", "none"} -> TRUE
       [] c.lowerOp = "="  -> v \in c.lower
       [] c.lowerOp = "%"  -> \E p \in c.lower : IsPrefix(Unterminated(p), v)
       [] c.lowerOp = "!=" -> v \notin c.lower
       [] c.lowerOp = ">"  -> \A l \in c.lower : Less(l, v)
       [] c.lowerOp = ">=" -> \A l \in c.lower : ~Less(v, l)
  /\ c.upperOp = "<"  => Less(v, c.upper)
  /\ c.upperOp = "<=" => ~Less(c.upper, v)

\* Every entry a find walks over is one of this index whose value satisfies
\* the where clause (MojDbQueryPlan::rangesFromKeys against the operators).
OnlyMatching ==
  \A i \in DOMAIN results :
    \E v \in Values, id \in Ids : results[i] = Key(v, id) /\ Satisfies(v, query.clause)

\* When the last page is read, every object that satisfied the query from the
\* first page on has been returned, whatever was written between and during
\* the pages.
FindComplete ==
  phase = "idle" =>
    \A id \in Ids \ (touched \cup inactive) :
      (\E v \in objects[id] : Satisfies(v, query.clause)) =>
        \E i \in DOMAIN results : IdOf(results[i]) = id

\* Over all the pages the entries come in index order, or in its reverse, and
\* none comes twice.
InOrder ==
  \A i \in 1..Len(results) - 1 :
    IF query.desc THEN Less(results[i + 1], results[i]) ELSE Less(results[i], results[i + 1])

\* A page has no object twice, though an array gives an object several keys.
OncePerPage == Cardinality(insertedIds) = count

\* A query that is read page by page beside writers returns every matching object
\* that nobody touched, only matching ones, in order, none twice on a page.
PagesExact == TypeOK /\ OnlyMatching /\ FindComplete /\ InOrder /\ OncePerPage
=============================================================================
