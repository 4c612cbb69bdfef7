----------------------------- MODULE ObjectItem -----------------------------
(***************************************************************************)
(* Objects on their way into a store and out of it.  A behaviour takes one *)
(* object, writes it, and reads it back call by call (MojObjectReader::    *)
(* next), either as plain bytes (MojObject::toBytes, fromBytes: keys and   *)
(* values) or as a stored record with a header and the kind's token set    *)
(* (MojDb*Item), through the filter of a select into a builder.  What is   *)
(* read may have been cut short.                                           *)
(***************************************************************************)
EXTENDS ObjectCode, ObjectFilter

CONSTANTS Values,     \* objects written as plain bytes
          Headers,    \* headers of stored records
          Bodies,     \* the objects of stored records
          TokenSets,  \* token sets at the time of the write
          Selects     \* sets of paths

VARIABLES mode,     \* "bytes" or "item"
          phase,    \* "write", "header", "read", "done"
          value,    \* what is written
          names,    \* the kind's token set
          select,   \* the query's select, {} for none
          bytes,    \* what was written, as much of it as is left
          cut,      \* it was cut short
          reader, filter, builder

itemVars == <<mode, phase, value, names, select, bytes, cut, reader, filter, builder>>

NoFilter == [stack |-> <<>>, next |-> NoNode, state |-> <<>>]

Init ==
    /\ phase = "write" /\ bytes = <<>> /\ cut = FALSE
    /\ reader = NewReader /\ builder = NoBuilder /\ filter = NoFilter
    /\ \/ mode = "bytes" /\ value \in Values /\ names = NoTokens /\ select = {}
       \/ /\ mode = "item" /\ names \in TokenSets /\ select \in Selects
          /\ \E h \in Headers, b \in Bodies : value = AddTo(h, b)

Cuts(all) == {SubSeq(all, 1, n) : n \in 0..Len(all)}

\* toBytes(), fromObject()
WriteBytes ==
    /\ phase = "write" /\ mode = "bytes" /\ phase' = "read"
    /\ bytes' \in Cuts(ToBytes(value))
    /\ cut' = (bytes' # ToBytes(value))
    /\ UNCHANGED <<mode, value, names, select, reader, filter, builder>>

\* MojDbStorageDatabase::put of an object (MojDb::putObj): the header is
\* taken out of it and written first; new names are given tokens.
WriteItem ==
    LET parts == ExtractFrom(value)
        written == WriteAll([bytes |-> HeaderBytes(parts.header), names |-> names, populate |-> TRUE], parts.obj)
    IN  /\ phase = "write" /\ mode = "item" /\ phase' = "header"
        /\ bytes' \in (IF select = {} THEN Cuts(written.bytes) ELSE {written.bytes})
        /\ cut' = (bytes' # written.bytes)
        /\ names' = written.names
        /\ UNCHANGED <<mode, value, select, reader, filter, builder>>

\* Hands events to the visitor, through a filter if there is a select.
Take(f, events) ==
    \E passed \in {IF select = {} THEN [filter |-> f, events |-> events] ELSE FilterAll(f, events)} :
        filter' = passed.filter /\ builder' = BuildAll(builder, passed.events)

\* MojDbObjectHeader::visit(): the object's own begin is then kept back.
VisitHeader ==
    /\ phase = "header"
    /\ \E read \in {ReadHeader(Get(value, IdKey), bytes)} :
        /\ reader' = [read.reader EXCEPT !.skip = TRUE]
        /\ IF read.reader.err # "none" THEN phase' = "done" /\ UNCHANGED <<filter, builder>>
           ELSE /\ phase' = "read"
                /\ Take(IF select = {} THEN NoFilter ELSE NewFilter(select), HeaderEvents(read.header))
    /\ UNCHANGED <<mode, value, names, select, bytes, cut>>

\* One call of next() by read().
ReadNext ==
    /\ phase = "read" /\ HasNext(reader, bytes)
    /\ \E read \in {Next(reader, bytes, names)} :
        /\ reader' = read.reader
        /\ Take(filter, read.events)
        /\ phase' = IF read.reader.err = "none" THEN "read" ELSE "done"
    /\ UNCHANGED <<mode, value, names, select, bytes, cut>>

\* read() ends with the bytes, whatever the reader still expects.
ReadEnd ==
    /\ phase = "read" /\ ~HasNext(reader, bytes) /\ phase' = "done"
    /\ UNCHANGED <<mode, value, names, select, bytes, cut, reader, filter, builder>>

ItemNext == WriteBytes \/ WriteItem \/ VisitHeader \/ ReadNext \/ ReadEnd

-----------------------------------------------------------------------------
RECURSIVE Known(_)

\* The object as this version knows it: undefined is null, and what a newer
\* version wrote as an extension is not there.
Known(v) ==
    LET New(x) == x[1] # "ext"
        NewProp(p) == p[2][1] # "ext"
    IN  CASE v[1] = "undef" -> Null
          [] v[1] = "ext" -> Undefined
          [] v[1] = "arr" -> LET s == SelectSeq(v[2], New) IN Arr([i \in DOMAIN s |-> Known(s[i])])
          [] v[1] = "obj" -> LET s == SelectSeq(v[2], NewProp) IN Obj([i \in DOMAIN s |-> <<s[i][1], Known(s[i][2])>>])
          [] OTHER -> v

\* A select's siblings sort alike as names and as the texts of their paths.
TextsOrdered(paths) ==
    \A p, q \in paths :
        LET differ == {i \in DOMAIN p \cap DOMAIN q : p[i] # q[i]}
            i == CHOOSE j \in differ : \A k \in differ : j <= k
        IN  differ # {} => CompareText(p[i], q[i]) = CompareText(PathText(p), PathText(q))

\* No selected property is visited after a header property that sorts behind it.
HeaderOrdered(paths) ==
    \A p \in paths : p[1] \in {IdKey, KindKey, RevKey} \/ CompareText(p[1], RevKey) > 0

\* What is read back is what was written: integers of every width and sign,
\* decimals, texts with and without a token, whether the token was there or
\* is new or did not fit, nested containers, the header; what a newer version
\* added is passed over without disturbing what stands around it.
ReadBack ==
    phase = "done" /\ ~cut /\ select = {} => reader.err = "none" /\ builder.obj = Known(value)

\* A record cut short never reads as an object: read() reports an error or
\* leaves the builder without one (it does not look whether a container is
\* still open).
CutNotTaken ==
    phase = "done" /\ cut => reader.err # "none" \/ builder.obj = Undefined

\* Comparing two serialized objects byte by byte gives what comparing the
\* objects gives: indexes keep their keys in serialized form.
BytesSortAsObjects ==
    phase = "write" /\ mode = "bytes" /\ Known(value) = value =>
        \A v \in Values : Known(v) = v => Sign(Compare(value, v)) = CompareText(ToBytes(value), ToBytes(v))

\* A select returns the selected properties of a stored object and nothing
\* else, through arrays and nested objects, although the filter only looks
\* forward.  It does look only forward: a property that sorts before the
\* header's, or siblings whose paths sort in another order than their names,
\* are not always found, and are left out here.
SelectExact ==
    phase = "done" /\ ~cut /\ select # {} /\ TextsOrdered(select) /\ HeaderOrdered(select) =>
        reader.err = "none" /\ builder.obj = Projected(Known(value), select)
=============================================================================
