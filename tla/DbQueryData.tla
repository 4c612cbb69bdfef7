---------------------------- MODULE DbQueryData -----------------------------
(***************************************************************************)
(* What a query says and what is done with it outside the index: parsing   *)
(* a query (MojDbQuery), testing objects against its filter                *)
(* (MojDbQueryFilter), extracting the values of a property for the indexes *)
(* (MojDbPropExtractor), and aggregating the objects found                 *)
(* (MojDbAggregateFilter).  case picks the one a behaviour is about.       *)
(*                                                                         *)
(* A value is a pair of its type and its contents: "int" a number, "str" a *)
(* sequence of letters, "arr" a sequence of values, "obj" a function from  *)
(* property names.  The letters 1 and 2 have the upper cases 3 and 4.      *)
(***************************************************************************)
EXTENDS Integers, SequencesExt, FiniteSetsExt, Folds

CONSTANTS
  Requests,     \* the query objects that are parsed
  Filters,      \* filter clauses, with the path of the property
  Objects,      \* the objects that are tested
  Samples,      \* values that are compared with the meaning of clauses
  Arrivals,     \* the objects that are aggregated
  Aggregations  \* op, the operations; desc

VARIABLES
  case,         \* "query", "filter" or "aggregate"
  request, filter, object,
  agg,          \* the aggregation
  groups,       \* m_groupAggregateMap
  failed,       \* an error was returned
  seen          \* history: the objects aggregated, in order

dataVars == <<case, request, filter, object, agg, groups, failed, seen>>

Error == [error |-> TRUE]
NoVal == <<"none", 0>>

-----------------------------------------------------------------------------
(* Values *)

TypeOrder(v) == CASE v[1] = "none" -> -1 [] v[1] = "obj" -> 1 [] v[1] = "arr" -> 2 [] v[1] = "str" -> 3 [] v[1] = "bool" -> 4 [] v[1] = "int" -> 6

LexLess(s, t) ==
  \/ Len(s) < Len(t) /\ IsPrefix(s, t)
  \/ \E i \in 1..Min({Len(s), Len(t)}) : s[i] < t[i] /\ \A j \in 1..(i - 1) : s[j] = t[j]

\* MojObject::compare(): by type first.
Less(v, w) ==
  \/ TypeOrder(v) < TypeOrder(w)
  \/ v[1] = "int" /\ w[1] = "int" /\ v[2] < w[2]
  \/ v[1] = "str" /\ w[1] = "str" /\ LexLess(v[2], w[2])

Upper(s) == [i \in DOMAIN s |-> IF s[i] <= 2 THEN s[i] + 2 ELSE s[i]]

-----------------------------------------------------------------------------
(* Clauses *)

NoClause == [lowerOp |-> "none", lower |-> NoVal, upperOp |-> "none", upper |-> NoVal, coll |-> "none"]

\* setLower(), setUpper(): once each, and with one collation.
SetLower(c, op, val, coll) ==
  IF c.lowerOp # "none" \/ (c.coll # "none" /\ c.coll # coll) THEN Error
  ELSE [c EXCEPT !.lowerOp = op, !.lower = val, !.coll = coll]

SetUpper(c, op, val, coll) ==
  IF c.upperOp # "none" \/ (c.coll # "none" /\ c.coll # coll) THEN Error
  ELSE [c EXCEPT !.upperOp = op, !.upper = val, !.coll = coll]

\* createClause(), updateClause(): only a lower and an upper bound go together.
CreateClause(op, val, coll) ==
  IF op \in {"<", "<="} THEN SetUpper(NoClause, op, val, coll) ELSE SetLower(NoClause, op, val, coll)

\* Faulty variant: a second bound on the same side replaces the first.
UpdateClauseLast(c, op, val, coll) ==
  CASE op \in {"<", "<="} -> IF c.lowerOp \in {"none", ">", ">="} THEN [c EXCEPT !.upperOp = op, !.upper = val] ELSE Error
    [] op \in {">", ">="} -> IF c.upperOp \in {"none", "<", "<="} /\ c.lowerOp \in {"none", ">", ">="}
                             THEN [c EXCEPT !.lowerOp = op, !.lower = val] ELSE Error
    [] OTHER -> Error

UpdateClause(c, op, val, coll) ==
  CASE op \in {"<", "<="} -> IF c.lowerOp \in {"none", ">", ">="} THEN SetUpper(c, op, val, coll) ELSE Error
    [] op \in {">", ">="} -> IF c.upperOp \in {"none", "<", "<="} THEN SetLower(c, op, val, coll) ELSE Error
    [] OTHER -> Error

\* addClause(): only =, % and %% take an array.
AddClause(map, call) ==
  LET c == IF call.prop \in DOMAIN map THEN UpdateClause(map[call.prop], call.op, call.val, call.coll)
           ELSE CreateClause(call.op, call.val, call.coll)
  IN  IF (call.val[1] = "arr" /\ call.op \notin {"=", "%", "%%"}) \/ c = Error THEN Error
      ELSE [p \in DOMAIN map \cup {call.prop} |-> IF p = call.prop THEN c ELSE map[p]]

\* addClauses().
AddClauses(map, calls) ==
  FoldLeft(LAMBDA m, call : IF m = Error THEN Error ELSE AddClause(m, call), map, calls)

-----------------------------------------------------------------------------
(* Queries from and to objects *)

Bits == 16          \* of MojUInt32: 32 in the code, more than TLC's integers have
LimitDefault == 2^Bits - 1
EmptyMap == [p \in {} |-> NoClause]
Undefined == "undefined"
EmptyQuery == [select |-> {}, where |-> EmptyMap, filter |-> EmptyMap, order |-> "", distinct |-> "", desc |-> FALSE,
               limit |-> LimitDefault, immediate |-> FALSE, aggregate |-> FALSE]

IncludeDeletedCall == [prop |-> "_del", op |-> "=", val |-> <<"arr", <<<<"bool", 0>>, <<"bool", 1>>>>>>, coll |-> "none"]

\* What the query returns, in the order it is parsed: aggregates, or one
\* distinct property, which is selected and ordered by, or the properties.
Returned(r) ==
  CASE r.aggregate -> [EmptyQuery EXCEPT !.aggregate = TRUE]
    [] ~r.aggregate /\ r.distinct # "" -> [EmptyQuery EXCEPT !.distinct = r.distinct, !.select = {r.distinct}, !.order = r.distinct]
    [] OTHER -> IF r.select = {"none"} THEN Error
                ELSE [EmptyQuery EXCEPT !.select = r.select, !.order = r.order]

\* The limit: required with immediateReturn, which checks no sign; it is cast
\* to an unsigned number.
LimitOf(r) ==
  CASE r.immediate # Undefined /\ (r.order # "" \/ r.distinct # "" \/ r.aggregate) -> -1
    [] r.immediate # Undefined /\ r.limit = <<>> -> -1
    [] r.immediate = Undefined /\ r.limit # <<>> /\ r.limit[1] < 0 -> -1
    [] r.limit = <<>> -> LimitDefault
    [] OTHER -> r.limit[1] % 2^Bits

\* fromObject().
FromObject(r) ==
  LET base   == Returned(r)
      where  == AddClauses(EmptyMap, r.where)
      filt   == AddClauses(EmptyMap, r.filter)
      limit  == LimitOf(r)
      all    == IF where # Error /\ r.includeDeleted THEN AddClause(where, IncludeDeletedCall) ELSE where
  IN  IF base = Error \/ filt = Error \/ all = Error \/ limit = -1 THEN Error
      ELSE [base EXCEPT !.where = all, !.filter = filt, !.desc = r.desc, !.limit = limit,
                        !.immediate = (r.immediate = "true")]

\* appendClause(): the lower bound, then the upper bound of each property.
AppendClause(p, op, val, coll) == IF op = "none" THEN <<>> ELSE <<[prop |-> p, op |-> op, val |-> val, coll |-> coll]>>

AppendClauses(map) ==
  FoldLeft(LAMBDA s, p : s \o AppendClause(p, map[p].lowerOp, map[p].lower, map[p].coll)
                           \o AppendClause(p, map[p].upperOp, map[p].upper, map[p].coll), <<>>, SetToSeq(DOMAIN map))

\* toObject(): immediateReturn and the aggregates are not written.
ToObject(q) ==
  [select |-> q.select, where |-> AppendClauses(q.where), filter |-> AppendClauses(q.filter), order |-> q.order,
   distinct |-> q.distinct, desc |-> q.desc, limit |-> IF q.limit = LimitDefault THEN <<>> ELSE <<q.limit>>,
   immediate |-> Undefined, aggregate |-> FALSE, includeDeleted |-> FALSE]

\* validate(): one property with another operator than =, one with an array.
Validate(q) ==
  /\ Cardinality({p \in DOMAIN q.where : q.where[p].lowerOp # "="}) <= 1
  /\ Cardinality({p \in DOMAIN q.where \ {"_del"} : q.where[p].lower[1] = "arr"}) <= 1
  /\ \A p \in DOMAIN q.filter : q.filter[p].lowerOp # "?"

-----------------------------------------------------------------------------
(* Filters *)

\* findSubString(): where a string has another in it, of any case; -1 for
\* nowhere, and for an empty one.
FindIn(s, t) ==
  LET at == {i \in 0..(Len(s) - Len(t)) : Upper(SubSeq(s, i + 1, i + Len(t))) = Upper(t)}
  IN  IF s = <<>> \/ t = <<>> \/ at = {} THEN -1 ELSE Min(at)

Prefixed(v, t) == v[1] = "str" /\ t[1] = "str" /\ (FindIn(v[2], t[2]) = 0 \/ (v[2] = <<>> /\ t[2] = <<>>))
HasSubString(v, t) == v[1] = "str" /\ t[1] = "str" /\ FindIn(v[2], t[2]) >= 0

\* A list is searched up to the first string that is found: the prefix is not
\* looked for any further when that one is found elsewhere.
FirstIn(v, list) == SelectInSeq(list, LAMBDA t : HasSubString(v, t))
PrefixedBy(v, t) ==
  IF t[1] # "arr" THEN Prefixed(v, t)
  ELSE LET n == FirstIn(v, t[2])
       IN  IF n # 0 THEN Prefixed(v, t[2][n]) ELSE t[2] # <<>> /\ Prefixed(v, t[2][Len(t[2])])

TestLower(c, v) ==
  CASE c.lowerOp = "none" -> TRUE
    [] c.lowerOp = "="    -> IF c.lower[1] = "arr" THEN \E n \in DOMAIN c.lower[2] : v = c.lower[2][n] ELSE v = c.lower
    [] c.lowerOp = "!="   -> v # c.lower
    [] c.lowerOp = ">"    -> Less(c.lower, v)
    [] c.lowerOp = ">="   -> ~Less(v, c.lower)
    [] c.lowerOp = "%%"   -> IF c.lower[1] = "arr" THEN FirstIn(v, c.lower[2]) # 0 ELSE HasSubString(v, c.lower)
    [] c.lowerOp = "%"    -> PrefixedBy(v, c.lower)

TestUpper(c, v) ==
  CASE c.upperOp = "none" -> TRUE
    [] c.upperOp = "<"    -> Less(v, c.upper)
    [] c.upperOp = "<="   -> ~Less(c.upper, v)

HasProp(v, p) == v[1] = "obj" /\ p \in DOMAIN v[2]

\* findValue(): the values at the end of a path, through every array on it.
\* (Objects in an array at the end also lose their _id.)
RECURSIVE FindValue(_, _)
FindValue(v, path) ==
  CASE path # <<>> /\ v[1] = "arr" -> FoldLeft(LAMBDA s, w : s \o FindValue(w, path), <<>>, v[2])
    [] path # <<>> /\ v[1] # "arr" -> IF HasProp(v, path[1]) THEN FindValue(v[2][path[1]], Tail(path)) ELSE <<>>
    [] path = <<>> /\ v[1] = "arr" -> v[2]
    [] OTHER -> <<v>>

\* test(): one value satisfies the clause, its lower and its upper bound.
Test(c, path, v) == \E n \in DOMAIN FindValue(v, path) : TestLower(c, FindValue(v, path)[n]) /\ TestUpper(c, FindValue(v, path)[n])

\* valsImpl(), handleVal(): the values of a property that are indexed.
RECURSIVE ValsImpl(_, _)
ValsImpl(v, path) ==
  LET handle(w) == IF Len(path) = 1 THEN {w} ELSE ValsImpl(w, Tail(path))
  IN  CASE path[1] = "*" -> IF v[1] = "obj" THEN UNION {handle(v[2][p]) : p \in DOMAIN v[2]} ELSE {}
        [] path[1] # "*" /\ ~HasProp(v, path[1]) -> {}
        [] OTHER -> IF v[2][path[1]][1] = "arr" THEN UNION {handle(v[2][path[1]][2][n]) : n \in DOMAIN v[2][path[1]][2]}
                    ELSE handle(v[2][path[1]])

-----------------------------------------------------------------------------
(* Aggregates *)

Number(v) == IF v[1] = "int" THEN v[2] ELSE 0

\* initAggregateInfo(); its type error is not looked at.
InitInfo(o) == [count |-> 1, min |-> o.val, first |-> o, max |-> o.val, last |-> o, sum |-> Number(o.val), avg |-> <<Number(o.val), 1>>]

\* One more object of the group.
Added(info, o) ==
  LET op    == agg.op
      n     == IF op \cap {"count", "avg"} # {} THEN info.count + 1 ELSE info.count
      lower == op \cap {"min", "first"} # {} /\ Less(o.val, info.first.val)
      upper == op \cap {"max", "last"} # {} /\ Less(info.last.val, o.val)
      sum   == info.sum + Number(o.val)
  IN  [count |-> n,
       min   |-> IF lower THEN o.val ELSE info.min, first |-> IF lower THEN o ELSE info.first,
       max   |-> IF upper THEN o.val ELSE info.max, last  |-> IF upper THEN o ELSE info.last,
       sum   |-> IF op \cap {"sum", "avg"} # {} THEN sum ELSE info.sum,
       avg   |-> IF op \cap {"sum", "avg"} # {} THEN <<sum, n>> ELSE info.avg]

\* aggregateImpl(): into one group; an object without the property makes the
\* group only.
AggregateImpl(gs, o, g) ==
  LET info == IF o.val = NoVal THEN {} ELSE {IF g \in DOMAIN gs /\ gs[g] # {} THEN Added(CHOOSE x \in gs[g] : TRUE, o) ELSE InitInfo(o)}
      new  == IF o.val = NoVal /\ g \in DOMAIN gs THEN gs[g] ELSE info
  IN  [h \in DOMAIN gs \cup {g} |-> IF h = g THEN new ELSE gs[h]]

\* The groups of an object: one for each element of an array.
GroupsOf(o) == IF o.group[1] = "arr" THEN o.group[2] ELSE <<o.group>>

Summing == agg.op \cap {"sum", "avg"} # {}

\* aggregate(): a value that is no number cannot be added.
Aggregate(o) ==
  LET bad == \E n \in DOMAIN GroupsOf(o) : Summing /\ o.val \notin {NoVal} /\ o.val[1] # "int"
                 /\ (\/ GroupsOf(o)[n] \in DOMAIN groups /\ groups[GroupsOf(o)[n]] # {}
                     \/ \E m \in 1..(n - 1) : GroupsOf(o)[m] = GroupsOf(o)[n])
  IN  /\ case = "aggregate" /\ ~failed
      /\ \A n \in DOMAIN seen : seen[n].id # o.id
      /\ seen' = Append(seen, o)
      /\ failed' = bad
      /\ groups' = IF bad THEN groups ELSE FoldLeft(LAMBDA gs, g : AggregateImpl(gs, o, g), groups, GroupsOf(o))
      /\ UNCHANGED <<case, request, filter, object, agg>>

\* visit(): what is asked for, group by group.
Visible(info) ==
  [k \in agg.op |-> CASE k = "count" -> <<"int", info.count>> [] k = "min" -> info.min [] k = "max" -> info.max
                      [] k = "first" -> info.first.val [] k = "last" -> info.last.val
                      [] k = "sum" -> <<"int", info.sum>> [] k = "avg" -> <<"avg", info.avg>>]
Visit ==
  LET order == SetToSortSeq(DOMAIN groups, Less)
      rows  == [n \in DOMAIN order |-> <<order[n], {Visible(x) : x \in groups[order[n]]}>>]
  IN  IF agg.desc THEN Reverse(rows) ELSE rows

-----------------------------------------------------------------------------

Init ==
  /\ case \in {"query", "filter", "aggregate"}
  /\ request \in (IF case = "query" THEN Requests ELSE {CHOOSE r \in Requests : TRUE})
  /\ filter \in (IF case = "filter" THEN Filters ELSE {CHOOSE f \in Filters : TRUE})
  /\ object \in (IF case = "filter" THEN Objects ELSE {CHOOSE o \in Objects : TRUE})
  /\ agg \in (IF case = "aggregate" THEN Aggregations ELSE {CHOOSE a \in Aggregations : TRUE})
  /\ groups = [g \in {} |-> {}] /\ seen = <<>> /\ failed = FALSE

Next == \E o \in Arrivals : Aggregate(o)

-----------------------------------------------------------------------------
(* Properties *)

Accepts(c, v) == TestLower(c, v) /\ TestUpper(c, v)
CallAccepts(call, v) == Accepts(CreateClause(call.op, call.val, "none"), v)

\* The clauses a query holds mean what was asked: a value satisfies the clause
\* of a property when it satisfies each condition on that property, in
\* whatever order and on whichever side they were given.
ClausesMean ==
  case = "query" => LET q == FromObject(request) IN
    q # Error => \A p \in DOMAIN q.where \ {"_del"} : \A v \in Samples :
      Accepts(q.where[p], v) <=> \A n \in DOMAIN request.where : request.where[n].prop = p => CallAccepts(request.where[n], v)

\* A query that is written as an object and read again, as for the search
\* cache's key and a remote client, is the same query; immediateReturn and
\* aggregates are not written.
QueryRoundTrip ==
  case = "query" => LET q == FromObject(request) IN
    q # Error /\ ~q.aggregate => FromObject(ToObject(q)) = [q EXCEPT !.immediate = FALSE]

\* A filter on a property accepts an object when a query of an index on it
\* would find it, whatever arrays of objects are on the path.  Excepted are
\* arrays within arrays, which only a filter looks through.
RECURSIVE Nested(_)
Nested(v) ==
  \/ v[1] = "arr" /\ \E n \in DOMAIN v[2] : v[2][n][1] = "arr" \/ Nested(v[2][n])
  \/ v[1] = "obj" /\ \E p \in DOMAIN v[2] : Nested(v[2][p])
FilterAsIndex ==
  case = "filter" /\ ~Nested(object) =>
    (Test(filter.clause, filter.path, object) <=> \E v \in ValsImpl(object, filter.path) : Accepts(filter.clause, v))

Occurrences(g) == {x \in (DOMAIN seen) \X (1..2) : x[2] \in DOMAIN GroupsOf(seen[x[1]]) /\ GroupsOf(seen[x[1]])[x[2]] = g}
Valued(g) == {x \in Occurrences(g) : seen[x[1]].val # NoVal}
ValueAt(x) == seen[x[1]].val
Total(g) == FoldSet(LAMBDA x, s : Number(ValueAt(x)) + s, 0, Valued(g))
Least(g) == CHOOSE v \in {ValueAt(x) : x \in Valued(g)} : \A x \in Valued(g) : ~Less(ValueAt(x), v)
Greatest(g) == CHOOSE v \in {ValueAt(x) : x \in Valued(g)} : \A x \in Valued(g) : ~Less(v, ValueAt(x))
Expected(g) ==
  IF Valued(g) = {} THEN {}
  ELSE {[k \in agg.op |-> CASE k = "count" -> <<"int", Cardinality(Valued(g))>>
                            [] k \in {"min", "first"} -> Least(g) [] k \in {"max", "last"} -> Greatest(g)
                            [] k = "sum" -> <<"int", Total(g)>> [] k = "avg" -> <<"avg", <<Total(g), Cardinality(Valued(g))>>>>]}

\* The aggregates do not depend on the order in which the objects came: each
\* group has the count, extremes, sum and average of its objects, an object
\* counted once for each place it has in the group.
AggregatesExact ==
  case = "aggregate" /\ ~failed =>
    LET keys == UNION {ToSet(GroupsOf(seen[n])) : n \in DOMAIN seen}
        order == SetToSortSeq(keys, LAMBDA g, h : IF agg.desc THEN Less(h, g) ELSE Less(g, h))
    IN  Visit = [n \in DOMAIN order |-> <<order[n], Expected(order[n])>>]
=============================================================================
