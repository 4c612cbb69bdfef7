------------------------------ MODULE MCDbData ------------------------------
(***************************************************************************)
(* The kind machinery (MCDbKind) and the data structures under the         *)
(* database on small instances: red-black trees, shared vectors and        *)
(* strings, queries that write in batches, query requests with filters and *)
(* aggregates, stored objects, JSON text and schemas.  Each is a machine   *)
(* of its own; a behaviour is about one of them, part, and the variables   *)
(* of the others are Unused throughout.                                    *)
(***************************************************************************)
EXTENDS MCDbKind, TLC

CONSTANTS h1, h2

VARIABLES
  impl, impls, treeContent,
  arrayMode, mem, arrayContent,
  store, kindThere, req, view, puts, touched,
  case, request, clause, object, agg, groups, failed, seen,
  itemMode, phase, value, names, select, bytes, cut, reader, filter, builder,
  source, text, whole, at, parser, result, over,
  schemaStored, rule, answered

treeVars   == <<impl, impls, treeContent>>
arrayVars  == <<arrayMode, mem, arrayContent>>
batchVars  == <<store, kindThere, req, view, puts, touched>>
queryVars  == <<case, request, clause, object, agg, groups, failed, seen>>
itemVars   == <<itemMode, phase, value, names, select, bytes, cut, reader, filter, builder>>
jsonVars   == <<source, text, whole, at, parser, result, over>>
schemaVars == <<schemaStored, rule, answered>>
coreVars   == <<treeVars, arrayVars, batchVars, queryVars, itemVars, jsonVars, schemaVars>>

Undef  == <<"undef", 0>>
Nothing == <<"null", 0>>
Truth(t) == <<"bool", t>>
Dec(r) == <<"dec", r>>
Num(n) == <<"int", n>>
Str(s) == <<"str", s>>
Arr(s) == <<"arr", s>>
Obj(s) == <<"obj", s>>

UpTo2(S) == {<<>>} \cup {<<x>> : x \in S} \cup {<<x, y>> : x, y \in S}

-----------------------------------------------------------------------------
(* Trees: six keys, one of them with two values.                           *)

Tree == INSTANCE RbTree WITH
  Pairs <- {<<k, 1>> : k \in 1..6} \cup {<<2, 2>>}, Handles <- {h1, h2}, MaxBoth <- 2, content <- treeContent

Array == INSTANCE SharedArray WITH
  Handles <- {h1, h2}, Elems <- 2, InitialSize <- 2, MaxLen <- 3, MaxCapacity <- 4,
  mode <- arrayMode, content <- arrayContent

-----------------------------------------------------------------------------
(* Queries that write: four objects, batches of two.                       *)

WriteOp(op, limit, val, batched, includeDeleted) ==
  [op |-> op, limit |-> limit, value |-> val, batched |-> batched, includeDeleted |-> includeDeleted]

WriteOps ==
  {WriteOp("del", 1000, 0, TRUE, FALSE), WriteOp("del", 1000, 0, FALSE, FALSE), WriteOp("del", 1, 0, TRUE, FALSE),
   WriteOp("del", 3, 0, TRUE, TRUE), WriteOp("del", 1000, 0, TRUE, TRUE), WriteOp("purge", 1000, 0, TRUE, TRUE),
   WriteOp("delKind", 1000, 0, TRUE, TRUE), WriteOp("merge", 1000, 2, TRUE, FALSE)}

Batch == INSTANCE DbBatch WITH
  Ids <- 1..4, Values <- {1, 2}, AutoBatchSize <- 2, Ops <- WriteOps, Starts <- [1..4 -> {-1, 1, 2}], MaxPuts <- 1,
  kind <- kindThere

-----------------------------------------------------------------------------
(* Query requests.                                                         *)

NoVal == <<"none", 0>>

Call(p, op, val, coll) == [prop |-> p, op |-> op, val |-> val, coll |-> coll]

WhereCalls ==
  {Call("a", op, v, c) : op \in {"=", "!=", "<", "<=", ">", ">="}, v \in {Num(1), Num(2)}, c \in {"none", "primary"}}
  \cup {Call("a", op, Arr(<<Num(1), Num(3)>>), "none") : op \in {"=", ">", "%"}}
  \cup {Call("b", "<", Num(2), "none"), Call("_del", "=", Num(1), "none")}

PlainRequest ==
  [select |-> {}, where |-> <<>>, filter |-> <<>>, order |-> "", distinct |-> "", desc |-> FALSE,
   limit |-> <<>>, immediate |-> "undefined", aggregate |-> FALSE, includeDeleted |-> FALSE]

\* One or two where calls, or three; and the other parts of a query.
QueryRequests ==
  {[PlainRequest EXCEPT !.where = w, !.includeDeleted = d] : d \in BOOLEAN, w \in UpTo2(WhereCalls) \ {<<>>}}
  \cup {[PlainRequest EXCEPT !.where = <<x, y, z>>] :
          x, y, z \in {c \in WhereCalls : c.coll = "none" /\ c.val = Num(1) /\ c.op \in {"<", ">", ">="}}}
  \cup [select : {{}, {"none"}, {"a", "b"}}, where : {<<>>}, filter : {<<>>, <<Call("b", ">", Num(1), "none")>>},
        order : {"", "b"}, distinct : {"", "a"}, desc : BOOLEAN, limit : {<<>>, <<1>>, <<-1>>},
        immediate : {"undefined", "true", "false"}, aggregate : BOOLEAN, includeDeleted : {FALSE}]

Clause(lo, l, uo, u) == [lowerOp |-> lo, lower |-> l, upperOp |-> uo, upper |-> u, coll |-> "none"]

QueryFilters ==
  {[path |-> p, clause |-> c] :
     p \in {<<"a">>, <<"a", "b">>},
     c \in {Clause("=", Num(1), "none", NoVal), Clause("=", Arr(<<Num(1), Str(<<1>>)>>), "none", NoVal),
            Clause("!=", Num(1), "none", NoVal), Clause(">", Num(1), "<=", Num(2)),
            Clause(">=", Str(<<1, 2>>), "<", Num(2)), Clause("%", Str(<<1>>), "none", NoVal),
            Clause("%", Arr(<<Str(<<4>>), Str(<<1>>)>>), "none", NoVal), Clause("%%", Str(<<2>>), "none", NoVal),
            Clause("%%", Arr(<<Str(<<2>>), Str(<<3>>)>>), "none", NoVal)}}

PlainValues == {Num(1), Num(2), Str(<<1, 2>>), Str(<<>>), Str(<<3>>)}
FlatValues  == PlainValues \cup {Arr(l) : l \in UpTo2(PlainValues)}
Holding(p, v) == Obj([n \in {p} |-> v])
NoProps == Obj([n \in {} |-> 0])

FilteredObjects ==
  LET inner == {NoProps} \cup {Holding("b", v) : v \in FlatValues}
      pairs == {Arr(<<x, y>>) : x \in {Num(1)} \cup inner, y \in {Holding("b", w) : w \in {Num(2), Arr(<<Num(1)>>)}}}
  IN  {Holding("a", v) : v \in FlatValues \cup inner \cup pairs} \cup {NoProps, Holding("a", Arr(<<Arr(<<Num(1)>>)>>))}

Arrival(id, group, val) == [id |-> id, group |-> group, val |-> val]

AggregatedObjects ==
  {Arrival(1, Num(1), Num(3)), Arrival(2, Num(1), Num(1)), Arrival(3, Arr(<<Num(1), Num(2)>>), Num(2)),
   Arrival(4, NoVal, Str(<<1>>)), Arrival(5, Num(2), NoVal), Arrival(6, Arr(<<Num(2), Num(2)>>), Str(<<2>>))}

AggregateOps == {"count", "min", "max", "first", "last", "sum", "avg"}

QueryData == INSTANCE DbQueryData WITH
  Requests <- QueryRequests, Filters <- QueryFilters, Objects <- FilteredObjects,
  Samples <- {Num(0), Num(1), Num(2), Num(3), Str(<<1>>)}, Arrivals <- AggregatedObjects,
  Aggregations <- [op : {AggregateOps, {"min", "last"}} \cup {{op} : op \in AggregateOps}, desc : BOOLEAN],
  filter <- clause

-----------------------------------------------------------------------------
(* Stored objects: bytes of four values, names of at most two bytes; the   *)
(* header names sort between A and a.                                      *)

nameA == <<5>>
nameB == <<6>>
nameAB == <<5, 1>>
upperA == <<3>>
DelKey == <<4, 7>>
IdKey == <<4, 8>>
KindKey == <<4, 9>>
RevKey == <<4, 10>>
NewerType == <<"ext", <<0, 2>>>>

OneProp(n, v) == Obj(<<<<n, v>>>>)
PropsAB(v, w) == Obj(<<<<nameA, v>>, <<nameB, w>>>>)

WrittenScalars ==
  {Undef, Nothing, Truth(TRUE), Truth(FALSE), Str(<<>>), Str(<<5>>), Str(<<5, 5>>), Str(<<6>>), NewerType}
  \cup {Dec(r) : r \in {-5, -1, 0, 1, 256}}
  \cup {Num(n) : n \in {-32768, -16, -1, 0, 1, 3, 4, 15, 16, 255, 256, 32767}}

WrittenValues ==
  LET few == {Undef, Nothing, Num(-1), Num(4), Str(<<5>>), NewerType}
      nested == {Arr(<<>>), Obj(<<>>), Arr(<<Num(4)>>)}
  IN  WrittenScalars \cup {Arr(s) : s \in UpTo2(few)} \cup {Obj(<<>>)}
      \cup {OneProp(n, x) : n \in {nameA, nameB}, x \in few} \cup {PropsAB(x, y) : x, y \in few}
      \cup {Arr(<<x, Num(1)>>) : x \in nested \cup {OneProp(nameA, Nothing)}}
      \cup {PropsAB(x, Num(1)) : x \in nested \cup {OneProp(nameB, Nothing)}}

Header(id, kind, rev, del) == [id |-> id, kind |-> kind, rev |-> rev, del |-> del]

StoredBodies ==
  LET inner == {Num(1), PropsAB(Num(1), Num(2)), OneProp(nameB, Arr(<<Nothing>>)),
                Arr(<<OneProp(nameA, Num(1)), Num(3), PropsAB(OneProp(nameB, Nothing), Num(2))>>),
                Arr(<<Arr(<<OneProp(nameA, Num(1))>>), OneProp(nameB, Num(2))>>)}
  IN  {OneProp(nameA, x) : x \in inner} \cup {PropsAB(x, y) : x, y \in inner}
      \cup {Obj(<<<<upperA, Num(1)>>, <<nameA, NewerType>>, <<nameB, Num(2)>>>>),
            Obj(<<<<nameA, OneProp(nameB, Num(1))>>, <<nameAB, Num(2)>>>>)}

SelectedPaths ==
  {{}, {<<nameA>>}, {<<nameB>>}, {<<nameA, nameA>>}, {<<nameA, nameB>>}, {<<nameA, nameA>>, <<nameA, nameB>>},
   {<<nameA, nameA>>, <<nameB>>}, {<<nameA, nameB>>, <<nameB, nameA>>}, {<<nameA>>, <<nameA, nameB>>},
   {<<IdKey>>, <<RevKey>>, <<nameB, nameB>>}, {<<nameA, nameA, nameB>>}, {<<upperA>>},
   {<<nameA, nameB>>, <<nameAB>>}, {<<DelKey>>}}

Item == INSTANCE ObjectItem WITH
  Base <- 4, MaxTokens <- 3, HeaderVersion <- 1, Dot <- 2, Kinds <- <<<<5>>, <<6>>>>, Values <- WrittenValues,
  Headers <- {Header(Num(1), <<5>>, 5, FALSE), Header(Num(1), <<5>>, 5, TRUE), Header(Str(<<5>>), <<6>>, 300, FALSE)},
  Bodies <- StoredBodies, TokenSets <- {<<>>, <<nameA>>, <<nameB, nameAB, <<7>>>>}, Selects <- SelectedPaths,
  mode <- itemMode

-----------------------------------------------------------------------------
(* JSON: characters are their codes (97 a, 98 b, 34 and 92 the ones that   *)
(* are escaped, 47 and 42 those of comments, 48 to 57 digits).             *)

textA == <<97>>
textB == <<98>>
JsonTexts == {<<>>, textA, <<34>>, <<92, 97>>, <<10>>, <<1, 47>>, <<97, 195, 169>>}

JsonPairs(v, w) == Obj(<<<<textA, v>>, <<textB, w>>>>)

JsonValues ==
  LET scalars == {Nothing, Truth(TRUE), Truth(FALSE)} \cup {Str(t) : t \in JsonTexts}
                 \cup {Num(n) : n \in {0, 7, -10, 32767, -32768}} \cup {Dec(r) : r \in {0, 5, -5, 50, 100, 1234, -32767}}
      few == {Num(12), Dec(105), Str(textA), Nothing, Arr(<<>>), Obj(<<>>)}
  IN  scalars \cup {Arr(s) : s \in UpTo2(few)} \cup {OneProp(textA, x) : x \in few} \cup {JsonPairs(x, y) : x, y \in few}
      \cup {Arr(<<x>>) : x \in scalars \cup {Undef}} \cup {OneProp(t, Num(1)) : t \in JsonTexts \ {<<>>}}
      \cup {Arr(<<x, OneProp(textA, x)>>) : x \in {Arr(<<Num(1)>>), OneProp(textA, Arr(<<>>)), Arr(<<Arr(<<Nothing>>)>>)}}

\* Numbers with a sign, a magnitude, a fraction and an exponent, and texts
\* that are octal, out of range or no numbers.
JsonNumbers ==
  LET digits == {48, 49, 53, 57}
      magnitudes == (UpTo2(digits) \ {<<>>}) \cup {<<49, 48, 48, 53>>, <<49, 48, 48, 48, 48, 48, 49>>}
      fractions == {<<x>> : x \in digits} \cup {<<x, 48, y>> : x, y \in digits} \cup {<<53, 53, 48>>}
      exponents == {<<>>, <<101, 50>>, <<69, 45, 49>>, <<101, 43, 48, 51>>, <<101, 45, 53>>}
  IN  {s \o m \o <<46>> \o f \o e : s \in {<<>>, <<45>>}, m \in magnitudes, f \in fractions, e \in exponents}
      \cup {<<48, 49, 50>>, <<48, 57>>, <<45>>, <<49, 45, 50>>, <<49, 46>>, <<49, 101>>, <<45, 46, 53>>,
            <<49, 101, 57, 57, 57>>, <<49, 48, 48, 46, 49, 46>>, <<57, 57, 57, 57, 57, 57, 57>>}

JsonText == INSTANCE Json WITH
  MaxDepth <- 3, Precision <- 2, UInt64Max <- 65535, IntMax <- 99, PowMax <- 4, JsonValues <- JsonValues,
  Fillers <- {<<32>>, <<10, 9>>, <<47, 42, 120, 42, 42, 47>>, <<47, 47, 120, 10>>}, NumberTexts <- JsonNumbers

-----------------------------------------------------------------------------
(* Schemas: every rule, alone and under a property, a nested schema or a   *)
(* tuple.                                                                  *)

EmptySchema == [k \in {} |-> 0]
Typed(t) == "type" :> <<"type", t>>
TypedAs(l) == "type" :> <<"list", l>>
Properties(ps) == "properties" :> ps
pa == <<1>>
pb == <<2>>
pc == <<3>>

LeafSchemas ==
  {Typed("integer"), Typed("any"), Typed("number") @@ ("minimum" :> Num(2)), Typed("string") @@ ("maxLength" :> 1),
   TypedAs(<<<<"type", "string">>,
             <<"schema", Typed("number") @@ ("maximum" :> Dec(25)) @@ ("maximumCanEqual" :> FALSE)>>>>),
   "disallow" :> <<"list", <<<<"type", "null">>, <<"type", "string">>>>>>, "enum" :> <<Num(1), Str(<<1>>)>>,
   "divisibleBy" :> 2, "divisibleBy" :> 0, ("minimum" :> Dec(15)) @@ ("minimumCanEqual" :> FALSE),
   "pattern" :> {Str(<<1>>), Str(<<2, 1>>)}, ("requires" :> pb) @@ ("minLength" :> 1),
   "items" :> <<"list", <<<<"type", "integer">>, <<"schema", "maximum" :> Num(2)>>>>>>,
   ("items" :> <<"list", <<<<"type", "integer">>>>>>) @@ ("additionalProperties" :> <<"schema", Typed("string")>>),
   ("items" :> <<"schema", Typed("number")>>) @@ ("minItems" :> 1) @@ ("maxItems" :> 2), "uniqueItems" :> TRUE,
   ("uniqueItems" :> FALSE) @@ ("maxItems" :> 1)}

KindSchemas ==
  LET presence == {EmptySchema, "optional" :> FALSE, "required" :> TRUE, ("optional" :> TRUE) @@ ("required" :> TRUE)}
      extra == {EmptySchema, "additionalProperties" :> <<"bool", FALSE>>,
                "additionalProperties" :> <<"schema", Typed("string")>>}
      nested == Properties(<<<<pb, Typed("integer") @@ ("required" :> TRUE)>>>>)
  IN  {Properties(<<<<pb, l>>>>) : l \in LeafSchemas}
      \cup {Properties(<<<<pa, o>>, <<pb, Typed("integer") @@ o2>>>>) @@ e : o, o2 \in presence, e \in extra}
      \cup {Properties(<<<<pa, nested>>, <<pc, l>>>>) : l \in LeafSchemas}
      \cup {"additionalProperties" :> <<"bool", FALSE>>, Typed("array"),
            TypedAs(<<<<"type", "array">>, <<"schema", Typed("bogus")>>>>)}

PutObjects ==
  LET nested == OneProp(pb, Num(1))
      vals == {Nothing, Truth(TRUE), Num(-2), Num(1), Num(2), Num(40), Dec(15), Dec(20), Dec(25), Dec(-20), Str(<<>>),
               Str(<<1>>), Str(<<2, 1>>), Arr(<<>>), Arr(<<Num(1)>>), Arr(<<Num(1), Num(1)>>), Arr(<<Num(1), Num(3)>>),
               Arr(<<Num(1), Str(<<1>>)>>), Arr(<<Num(1), Num(2), Str(<<1>>)>>), Obj(<<>>), nested}
  IN  {Obj(<<>>), Num(1), Arr(<<>>)} \cup {OneProp(p, v) : p \in {pa, pb, pc}, v \in vals}
      \cup {Obj(<<<<pa, v>>, <<pb, w>>>>) : v \in {Num(1), Str(<<1>>), nested}, w \in vals}
      \cup {Obj(<<<<pa, nested>>, <<pb, Num(1)>>, <<pc, w>>>>) : w \in vals}

KindSchema == INSTANCE Schema WITH
  Numerator <- 10, Width <- 256, NoSchema <- ("none" :> TRUE), Schemas <- KindSchemas, Objects <- PutObjects,
  stored <- schemaStored

-----------------------------------------------------------------------------
Unused == <<"unused">>

TreeIdle   == impl = Unused /\ impls = Unused /\ treeContent = Unused
ArrayIdle  == arrayMode = Unused /\ mem = Unused /\ arrayContent = Unused
BatchIdle  == /\ store = Unused /\ kindThere = Unused /\ req = Unused
              /\ view = Unused /\ puts = Unused /\ touched = Unused
QueryIdle  == /\ case = Unused /\ request = Unused /\ clause = Unused /\ object = Unused
              /\ agg = Unused /\ groups = Unused /\ failed = Unused /\ seen = Unused
ItemIdle   == /\ itemMode = Unused /\ phase = Unused /\ value = Unused /\ names = Unused /\ select = Unused
              /\ bytes = Unused /\ cut = Unused /\ reader = Unused /\ filter = Unused /\ builder = Unused
JsonIdle   == /\ source = Unused /\ text = Unused /\ whole = Unused /\ at = Unused
              /\ parser = Unused /\ result = Unused /\ over = Unused
SchemaIdle == schemaStored = Unused /\ rule = Unused /\ answered = Unused

CoreParts == {"tree", "array", "batch", "query", "item", "json", "schema"}

CoreInit(p) ==
  /\ IF p = "tree" THEN Tree!Init ELSE TreeIdle
  /\ IF p = "array" THEN Array!Init ELSE ArrayIdle
  /\ IF p = "batch" THEN Batch!Init ELSE BatchIdle
  /\ IF p = "query" THEN QueryData!Init ELSE QueryIdle
  /\ IF p = "item" THEN Item!Init ELSE ItemIdle
  /\ IF p = "json" THEN JsonText!JsonInit ELSE JsonIdle
  /\ IF p = "schema" THEN KindSchema!SchemaInit ELSE SchemaIdle

CoreNext(p) ==
  \/ p = "tree" /\ Tree!Next /\ UNCHANGED <<arrayVars, batchVars, queryVars, itemVars, jsonVars, schemaVars>>
  \/ p = "array" /\ Array!Next /\ UNCHANGED <<treeVars, batchVars, queryVars, itemVars, jsonVars, schemaVars>>
  \/ p = "batch" /\ Batch!Next /\ UNCHANGED <<treeVars, arrayVars, queryVars, itemVars, jsonVars, schemaVars>>
  \/ p = "query" /\ QueryData!Next /\ UNCHANGED <<treeVars, arrayVars, batchVars, itemVars, jsonVars, schemaVars>>
  \/ p = "item" /\ Item!ItemNext /\ UNCHANGED <<treeVars, arrayVars, batchVars, queryVars, jsonVars, schemaVars>>
  \/ p = "json" /\ JsonText!JsonNext /\ UNCHANGED <<treeVars, arrayVars, batchVars, queryVars, itemVars, schemaVars>>
  \/ p = "schema" /\ KindSchema!SchemaNext /\ UNCHANGED <<treeVars, arrayVars, batchVars, queryVars, itemVars, jsonVars>>

-----------------------------------------------------------------------------
(* All of them. *)

DataInit ==
    /\ part \in {"kinds", "quota", "tokens"} \cup CoreParts
    /\ CoreInit(part)
    /\ Init /\ QuotaInit /\ TokensInit
    /\ part # "kinds" => ~rootKind
    /\ part # "quota" => ~locking /\ size = 1

CoreStep == CoreNext(part) /\ UNCHANGED <<kindVars, quotaVars, tokenVars, part>>

DataNext == (MCNext /\ UNCHANGED coreVars) \/ CoreStep

DataSpec == DataInit /\ [][DataNext]_<<kindVars, quotaVars, tokenVars, coreVars, part>>

\* The two trees or arrays, and the two writers of tokens, are alike.
Alike == Permutations({h1, h2}) \cup Permutations({w1, w2})

\* Maps and sets (RbTree): after any sequence of puts, deletions and copies the
\* trees are balanced search trees, a copy never sees what another handle wrote,
\* bounds and differences are those of the key sets, and an Impl is freed exactly
\* when its last handle goes.
TreesExact ==
    part = "tree" => Tree!Balanced /\ Tree!CopiesApart /\ Tree!BoundsExact /\ Tree!DiffExact /\ Tree!RefsCounted

\* Vectors and strings (SharedArray): every handle holds what was done through it
\* and nothing that was done through others, reference counts say who shares a
\* buffer, and a string is terminated wherever its buffer came from.
ArraysExact == part = "array" => Array!ContentExact /\ Array!RefsExact /\ Array!Terminated

\* Queries that write (DbBatch): a delete by query that succeeds has deleted all
\* that matched throughout and counts what it deleted, a kind that is gone left no
\* object, and a merge meets no object twice, beside other writers.
WritesByQueryExact ==
    part = "batch" => Batch!DelComplete /\ Batch!CountExact /\ Batch!KindEmpty /\ Batch!MergeOnce

\* Query requests (DbQueryData): the clauses of a query mean the conjunction of
\* the where calls in any order, a query survives being written and parsed, a
\* filter accepts what an index on the property would find, and aggregates are
\* those of the set of objects, whatever the order they arrive in.
QueriesExact ==
    part = "query" => /\ QueryData!ClausesMean /\ QueryData!QueryRoundTrip
                      /\ QueryData!FilterAsIndex /\ QueryData!AggregatesExact

\* Stored objects (ObjectItem): a record is read back as it was written, through
\* tokens and header; a record cut inside a value is not taken for a whole one;
\* a select returns the selected properties; and the bytes of two values compare
\* as the values do, which the indexes rely on.
ObjectsExact ==
    part = "item" => Item!ReadBack /\ Item!CutNotTaken /\ Item!SelectExact /\ Item!BytesSortAsObjects

\* JSON (Json, Number): what the writer writes the parser reads back, with white
\* space and comments anywhere; a text that is cut is refused; and a number is
\* read as the nearest decimal or refused.
JsonExact == part = "json" => JsonText!JsonReadBack /\ JsonText!JsonCutRefused /\ JsonText!NumberNear

\* Schemas (Schema): MojSchema accepts the objects its schema describes, and the
\* schema in force is the stored one after failed puts and restarts.
SchemaExact == part = "schema" => KindSchema!SchemaExact /\ KindSchema!SchemaInForce
=============================================================================
