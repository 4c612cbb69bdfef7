---------------------------- MODULE ObjectFilter ----------------------------
(***************************************************************************)
(* MojObjectFilter: the visitor behind a query's select.  It stands        *)
(* between what reads a stored object and the visitor that takes the       *)
(* result, and passes on the events of the selected properties.            *)
(*                                                                         *)
(* A path is a sequence of names; its text joins them with the character   *)
(* Dot.  A node is [name, children]; a node without children takes the     *)
(* whole property.  A state is what the filter knows about the container   *)
(* it is in: its node (NoNode if nothing of it is selected by name), the   *)
(* child the walk has come to, how many more values to pass on, whether    *)
(* the container's begin event was passed on, and whether it is an array.  *)
(***************************************************************************)
EXTENDS ObjectValue

CONSTANT Dot

\* MojSizeMax: more values than a container has.
SizeMax == 1000

NoNode == [name |-> <<0>>, children |-> <<>>]

NewNode(name) == [name |-> name, children |-> <<>>]

PathText(path) == Tail(FlattenSeq([i \in DOMAIN path |-> <<Dot>> \o path[i]]))

RECURSIVE AddPath(_, _)

\* A path ends where a shorter one took the whole property.
AddPath(node, path) ==
    LET at == {i \in DOMAIN node.children : node.children[i].name = Head(path)}
        i == CHOOSE j \in at : TRUE
    IN  IF path = <<>> THEN node
        ELSE IF at = {} THEN [node EXCEPT !.children = Append(@, AddPath(NewNode(Head(path)), Tail(path)))]
        ELSE IF node.children[i].children = <<>> THEN node
        ELSE [node EXCEPT !.children[i] = AddPath(node.children[i], Tail(path))]

\* init(): the paths in the order of their texts, which is the set's order.
InitFilter(select) ==
    FoldLeft(AddPath, NewNode(<<>>), SetToSortSeq(select, LAMBDA p, q : CompareText(PathText(p), PathText(q)) < 0))

\* setVisitor()
NewFilter(select) ==
    LET root == InitFilter(select)
    IN  [stack |-> <<>>, next |-> root,
         state |-> [node |-> root, child |-> 1, count |-> 0, included |-> TRUE, array |-> FALSE]]

-----------------------------------------------------------------------------
(* An operation gives the filter after it and the events it passes on.     *)

Begin(f, array) ==
    LET size == Len(f.stack) + 1
        included == f.state.count # 0 \/ size = 1
    IN  [filter |-> [f EXCEPT !.stack = Append(@, f.state),
                              !.state = [node |-> f.next, child |-> 1,
                                         count |-> IF f.state.count >= 1 THEN SizeMax ELSE 0,
                                         included |-> included, array |-> array]],
         events |-> IF included THEN <<<<IF array THEN "beginArray" ELSE "beginObject", 0>>>> ELSE <<>>]

CountDown(state) == [state EXCEPT !.count = IF @ > 0 THEN @ - 1 ELSE 0]

End(f, array) ==
    [filter |-> [stack |-> Front(f.stack), next |-> f.state.node, state |-> CountDown(Last(f.stack))],
     events |-> IF f.state.included THEN <<<<IF array THEN "endArray" ELSE "endObject", 0>>>> ELSE <<>>]

\* includeParents(): the begin events held back, from the outermost in, each
\* with its name unless it stands in an array.
IncludeParents(f) ==
    LET states == f.stack \o <<f.state>>
        Include(i) ==
            IF states[i].included THEN <<>>
            ELSE (IF states[i - 1].array THEN <<>> ELSE <<<<"propName", states[i].node.name>>>>)
                 \o <<<<IF states[i].array THEN "beginArray" ELSE "beginObject", 0>>>>
    IN  [filter |-> [f EXCEPT !.stack = [i \in DOMAIN f.stack |-> [f.stack[i] EXCEPT !.included = TRUE]],
                              !.state.included = TRUE],
         events |-> FlattenSeq([i \in DOMAIN states |-> Include(i)])]

\* propName(): the walk moves on to the first child that is not smaller.
FirstNotBefore(children, from, name) ==
    CHOOSE i \in from .. Len(children) + 1 :
        /\ i <= Len(children) => CompareText(children[i].name, name) >= 0
        /\ \A j \in from .. i - 1 : CompareText(children[j].name, name) < 0

MoveTo(f, children, k, found) ==
    [f EXCEPT !.next = IF found /\ children[k].children # <<>> THEN children[k] ELSE NoNode,
              !.state.child = k,
              !.state.count = IF found /\ children[k].children = <<>> THEN 1 ELSE 0]

MoveOn(f, children, k, name) == MoveTo(f, children, k, k <= Len(children) /\ children[k].name = name)

PassName(f, name) ==
    IF f.state.count = 0 THEN [filter |-> f, events |-> <<>>]
    ELSE LET parents == IF f.state.included THEN [filter |-> f, events |-> <<>>] ELSE IncludeParents(f)
         IN  [parents EXCEPT !.events = Append(@, <<"propName", name>>)]

PropName(f, name) ==
    LET children == f.state.node.children
    IN  PassName(IF f.state.node = NoNode THEN [f EXCEPT !.next = NoNode]
                 ELSE MoveOn(f, children, FirstNotBefore(children, f.state.child, name), name), name)

Value(f, v) ==
    [filter |-> [f EXCEPT !.state = CountDown(@)],
     events |-> IF f.state.count > 0 THEN <<<<"value", v>>>> ELSE <<>>]

Filter(f, e) ==
    CASE e[1] \in {"beginObject", "beginArray"} -> Begin(f, e[1] = "beginArray")
      [] e[1] \in {"endObject", "endArray"} -> End(f, e[1] = "endArray")
      [] e[1] = "propName" -> PropName(f, e[2])
      [] e[1] = "value" -> Value(f, e[2])

FilterAll(f, events) ==
    FoldLeft(LAMBDA a, e : LET s == Filter(a.filter, e) IN [filter |-> s.filter, events |-> a.events \o s.events],
             [filter |-> f, events |-> <<>>], events)

-----------------------------------------------------------------------------
(* What a select means, for the properties.                                *)

RECURSIVE Projection(_, _)

\* At most one value: what is left of v when only the paths are kept.  A
\* container that nothing selected is left in disappears.
Projection(v, paths) ==
    LET Below(name) == {Tail(p) : p \in {q \in paths : Head(q) = name}}
        OfProp(p) ==
            IF Below(p[1]) = {} THEN <<>>
            ELSE IF <<>> \in Below(p[1]) THEN <<p>>
            ELSE LET kept == Projection(p[2], Below(p[1])) IN IF kept = <<>> THEN <<>> ELSE <<<<p[1], kept[1]>>>>
        parts == CASE v[1] = "obj" -> FlattenSeq([i \in DOMAIN v[2] |-> OfProp(v[2][i])])
                   [] v[1] = "arr" -> FlattenSeq([i \in DOMAIN v[2] |-> Projection(v[2][i], paths)])
                   [] OTHER -> <<>>
    IN  IF parts = <<>> THEN <<>> ELSE <<<<v[1], parts>>>>

\* The result of a select on an object: the outermost object always stays.
Projected(obj, select) ==
    LET kept == Projection(obj, select) IN IF kept = <<>> THEN Obj(<<>>) ELSE kept[1]
=============================================================================
