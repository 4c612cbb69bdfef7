---------------------------- MODULE ObjectValue ----------------------------
(***************************************************************************)
(* MojObject values, their order, the walk that hands them to a visitor    *)
(* (MojObject::visit) and the visitor that builds one (MojObjectBuilder).  *)
(*                                                                         *)
(* A value is <<type, contents>>.  A text is a sequence of characters,     *)
(* numbers from 1 up.  The contents of an object are its properties        *)
(* <<name, value>> in the order of their names, as the property map keeps  *)
(* them.  An event is <<method, argument>>, one call of a visitor.         *)
(***************************************************************************)
EXTENDS Integers, Sequences, FiniteSets, SequencesExt

Undefined == <<"undef", 0>>
Null      == <<"null", 0>>
Bool(b)   == <<"bool", b>>
Dec(rep)  == <<"dec", rep>>
Num(n)    == <<"int", n>>
Str(text) == <<"str", text>>
Arr(s)    == <<"arr", s>>
Obj(s)    == <<"obj", s>>

\* MojObject::Type: the numbers the order of two types is taken from.
TypeRank(v) ==
    CASE v[1] = "undef" -> 0 [] v[1] = "null" -> 1 [] v[1] = "obj" -> 2
      [] v[1] = "arr" -> 3 [] v[1] = "str" -> 4 [] v[1] = "bool" -> 5
      [] v[1] = "dec" -> 6 [] v[1] = "int" -> 7

Sign(n) == IF n < 0 THEN -1 ELSE IF n > 0 THEN 1 ELSE 0

\* strcmp(), memcmp(): the first difference decides, then the length.
CompareText(s, t) ==
    LET differ == {i \in DOMAIN s \cap DOMAIN t : s[i] # t[i]}
        first == CHOOSE i \in differ : \A j \in differ : i <= j
    IN  IF differ = {} THEN Sign(Len(s) - Len(t)) ELSE Sign(s[first] - t[first])

RECURSIVE Compare(_, _), CompareItems(_, _)

\* Arrays and property maps are compared item by item, then by length.
CompareItems(s, t) ==
    IF s = <<>> \/ t = <<>> THEN Sign(Len(s) - Len(t))
    ELSE LET c == Compare(Head(s), Head(t))
         IN  IF c # 0 THEN c ELSE CompareItems(Tail(s), Tail(t))

CompareProps(s, t) ==
    LET Items(p) == FlattenSeq([i \in DOMAIN p |-> <<Str(p[i][1]), p[i][2]>>])
    IN  CompareItems(Items(s), Items(t))

\* MojObject::compare(): first by type, then within the type.
Compare(a, b) ==
    IF a[1] # b[1] THEN TypeRank(a) - TypeRank(b)
    ELSE CASE a[1] \in {"undef", "null"} -> 0
           [] a[1] = "bool" -> IF a[2] = b[2] THEN 0 ELSE IF a[2] THEN 1 ELSE -1
           [] a[1] \in {"dec", "int"} -> Sign(a[2] - b[2])
           [] a[1] = "str" -> CompareText(a[2], b[2])
           [] a[1] = "arr" -> CompareItems(a[2], b[2])
           [] a[1] = "obj" -> CompareProps(a[2], b[2])

-----------------------------------------------------------------------------
\* put(): the target becomes an object if it is something else.
Put(o, name, v) ==
    LET props == IF o[1] = "obj" THEN o[2] ELSE <<>>
        Before(p) == CompareText(p[1], name) < 0
        After(p) == CompareText(p[1], name) > 0
    IN  Obj(SelectSeq(props, Before) \o <<<<name, v>>>> \o SelectSeq(props, After))

\* push(): the target becomes an array if it is something else.
Push(o, v) == Arr(Append(IF o[1] = "arr" THEN o[2] ELSE <<>>, v))

Has(o, name) == o[1] = "obj" /\ \E i \in DOMAIN o[2] : o[2][i][1] = name

\* get(): Undefined when there is no such property.
Get(o, name) == IF Has(o, name) THEN o[2][CHOOSE i \in DOMAIN o[2] : o[2][i][1] = name][2] ELSE Undefined

Del(o, name) == LET Other(p) == p[1] # name IN IF o[1] = "obj" THEN Obj(SelectSeq(o[2], Other)) ELSE o

-----------------------------------------------------------------------------
RECURSIVE Visit(_)

VisitArray(s) == <<<<"beginArray", 0>>>> \o FlattenSeq([i \in DOMAIN s |-> Visit(s[i])]) \o <<<<"endArray", 0>>>>

VisitObject(s) ==
    <<<<"beginObject", 0>>>>
    \o FlattenSeq([i \in DOMAIN s |-> <<<<"propName", s[i][1]>>>> \o Visit(s[i][2])])
    \o <<<<"endObject", 0>>>>

\* MojObject::visit(): an undefined value is visited as null.
Visit(v) ==
    CASE v[1] = "arr" -> VisitArray(v[2])
      [] v[1] = "obj" -> VisitObject(v[2])
      [] v[1] = "undef" -> <<<<"value", Null>>>>
      [] OTHER -> <<<<"value", v>>>>

-----------------------------------------------------------------------------
NoBuilder == [stack |-> <<>>, name |-> <<>>, obj |-> Undefined]

BuildValue(b, v) ==
    IF b.stack = <<>> THEN [b EXCEPT !.obj = v]
    ELSE LET top == Last(b.stack).obj
         IN  [b EXCEPT !.stack[Len(b.stack)].obj = IF top[1] = "obj" THEN Put(top, b.name, v) ELSE Push(top, v)]

BuildPush(b, empty) == [b EXCEPT !.stack = Append(@, [obj |-> empty, name |-> b.name])]

BuildPop(b) ==
    LET top == Last(b.stack)
    IN  BuildValue([b EXCEPT !.stack = Front(@), !.name = top.name], top.obj)

Build(b, e) ==
    CASE e[1] = "beginObject" -> BuildPush(b, Obj(<<>>))
      [] e[1] = "beginArray" -> BuildPush(b, Arr(<<>>))
      [] e[1] \in {"endObject", "endArray"} -> BuildPop(b)
      [] e[1] = "propName" -> [b EXCEPT !.name = e[2]]
      [] e[1] = "value" -> BuildValue(b, e[2])

BuildAll(b, events) == FoldLeft(Build, b, events)
=============================================================================
