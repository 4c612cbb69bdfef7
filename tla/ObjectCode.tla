----------------------------- MODULE ObjectCode -----------------------------
(***************************************************************************)
(* The binary form of objects (MojObjectWriter, MojObjectReader over       *)
(* MojDataWriter, MojDataReader) and the header stored before an object    *)
(* (MojDbObjectHeader).                                                    *)
(*                                                                         *)
(* A byte is a marker, a token, a character or a digit.  Digits have base  *)
(* Base instead of 256, which puts the edges of the four integer widths    *)
(* within reach: with Base 4 a UInt8 ends at 3, a UInt16 at 15, a UInt32   *)
(* at 255 and an Int64 at 4^8 / 2.  A text never holds the character 0.    *)
(***************************************************************************)
EXTENDS ObjectValue

CONSTANTS Base,        \* the digits of a byte
          MaxTokens,   \* names a token set can hold
          HeaderVersion

\* MojObjectWriter::Marker
MarkerObjectEnd == 0
MarkerNull == 1
MarkerObjectBegin == 2
MarkerArrayBegin == 3
MarkerString == 4
MarkerFalse == 5
MarkerTrue == 6
MarkerNegativeDecimal == 7
MarkerPositiveDecimal == 8
MarkerNegativeInt == 9
MarkerZeroInt == 10
MarkerUInt8 == 11
MarkerUInt16 == 12
MarkerUInt32 == 13
MarkerInt64 == 14
MarkerExtension == 15
MarkerHeaderEnd == 16
TokenStartMarker == 32
InvalidToken == 0

-----------------------------------------------------------------------------
\* Big endian digits; of a negative number its two's complement.
Digits(n, width) == [i \in 1..width |-> (n \div Base^(width - i)) % Base]

UnsignedOf(digits) ==
    LET w == Len(digits) IN FoldLeft(LAMBDA n, d : Base * n + d, 0, [i \in 1..w |-> digits[i]])

SignedOf(digits) ==
    LET n == UnsignedOf(digits) half == (Base^Len(digits)) \div 2
    IN  IF n < half THEN n ELSE n - 2 * half

\* MojObjectWriter::intValue(): the narrowest width that holds the number.
IntBytes(n) ==
    CASE n < 0 -> <<MarkerNegativeInt>> \o Digits(n, 8)
      [] n = 0 -> <<MarkerZeroInt>>
      [] n > 0 /\ n < Base -> <<MarkerUInt8>> \o Digits(n, 1)
      [] n >= Base /\ n < Base^2 -> <<MarkerUInt16>> \o Digits(n, 2)
      [] n >= Base^2 /\ n < Base^4 -> <<MarkerUInt32>> \o Digits(n, 4)
      [] n >= Base^4 -> <<MarkerInt64>> \o Digits(n, 8)

\* Faulty variant: one marker for all decimals.
DecimalBytesPlain(rep) == <<MarkerPositiveDecimal>> \o Digits(rep, 8)

DecimalBytes(rep) ==
    <<IF rep < 0 THEN MarkerNegativeDecimal ELSE MarkerPositiveDecimal>> \o Digits(rep, 8)

TextBytes(text) == <<MarkerString>> \o text \o <<0>>

-----------------------------------------------------------------------------
(***************************************************************************)
(* A token set is a sequence of names, or NoTokens, which is no token set  *)
(* because no text holds a 0.  A name's token is its place; a name that is *)
(* met for the first time gets one while there is room                     *)
(* (MojDbKindState::addToken, see DbKindState).                            *)
(***************************************************************************)
NoTokens == <<<<0>>>>

TokenFromString(names, text, add) ==
    IF names = NoTokens THEN [token |-> InvalidToken, names |-> names]
    ELSE IF \E i \in DOMAIN names : names[i] = text
    THEN [token |-> TokenStartMarker + (CHOOSE i \in DOMAIN names : names[i] = text) - 1, names |-> names]
    ELSE IF add /\ Len(names) < MaxTokens
    THEN [token |-> TokenStartMarker + Len(names), names |-> Append(names, text)]
    ELSE [token |-> InvalidToken, names |-> names]

\* A writer is [bytes, names, populate].
WriteText(w, text, add) ==
    LET t == TokenFromString(w.names, text, add)
    IN  [w EXCEPT !.names = t.names,
                  !.bytes = @ \o (IF t.token # InvalidToken THEN <<t.token>> ELSE TextBytes(text))]

\* "ext" is a value of a newer version, which this writer never writes: a
\* marker, the length as a UInt32 and that many bytes.
WriteScalar(w, v) ==
    CASE v[1] = "null" -> [w EXCEPT !.bytes = Append(@, MarkerNull)]
      [] v[1] = "bool" -> [w EXCEPT !.bytes = Append(@, IF v[2] THEN MarkerTrue ELSE MarkerFalse)]
      [] v[1] = "int" -> [w EXCEPT !.bytes = @ \o IntBytes(v[2])]
      [] v[1] = "dec" -> [w EXCEPT !.bytes = @ \o DecimalBytes(v[2])]
      [] v[1] = "str" -> WriteText(w, v[2], FALSE)
      [] v[1] = "ext" -> [w EXCEPT !.bytes = @ \o <<MarkerExtension>> \o Digits(Len(v[2]), 4) \o v[2]]

Write(w, e) ==
    CASE e[1] = "beginObject" -> [w EXCEPT !.bytes = Append(@, MarkerObjectBegin)]
      [] e[1] = "beginArray" -> [w EXCEPT !.bytes = Append(@, MarkerArrayBegin)]
      [] e[1] \in {"endObject", "endArray"} -> [w EXCEPT !.bytes = Append(@, MarkerObjectEnd)]
      [] e[1] = "propName" -> WriteText(w, e[2], w.populate)
      [] e[1] = "value" -> WriteScalar(w, e[2])

WriteAll(w, v) == FoldLeft(Write, w, Visit(v))

\* MojObject::toBytes()
ToBytes(v) == WriteAll([bytes |-> <<>>, names |-> NoTokens, populate |-> FALSE], v).bytes

-----------------------------------------------------------------------------
(***************************************************************************)
(* A reader is [pos, stack, skip, err]: the bytes read, what is expected   *)
(* at each level, whether the next beginObject() is kept from the visitor, *)
(* and the error that stopped it.  Next is one call of next(): it reads    *)
(* one value, name or end and reports at most one event.                   *)
(***************************************************************************)
NewReader == [pos |-> 0, stack |-> <<>>, skip |-> FALSE, err |-> "none"]

HasNext(r, bytes) == r.pos < Len(bytes)

Fails(r, err) == [reader |-> [r EXCEPT !.err = err], events |-> <<>>]

Reads(r, n, events) == [reader |-> [r EXCEPT !.pos = @ + n], events |-> events]

\* readInt(), readDecimal(): width digits, then the event.
ReadDigits(r, bytes, width, Event(_)) ==
    IF Len(bytes) - r.pos < width THEN Fails(r, "eof")
    ELSE Reads(r, width, Event(SubSeq(bytes, r.pos + 1, r.pos + width)))

ReadInt(r, bytes, marker) ==
    LET Unsigned(d) == <<<<"value", Num(UnsignedOf(d))>>>>
        Signed(d) == <<<<"value", Num(SignedOf(d))>>>>
    IN  CASE marker = MarkerZeroInt -> Reads(r, 0, <<<<"value", Num(0)>>>>)
          [] marker = MarkerUInt8 -> ReadDigits(r, bytes, 1, Unsigned)
          [] marker = MarkerUInt16 -> ReadDigits(r, bytes, 2, Unsigned)
          [] marker = MarkerUInt32 -> ReadDigits(r, bytes, 4, Unsigned)
          [] marker \in {MarkerNegativeInt, MarkerInt64} -> ReadDigits(r, bytes, 8, Signed)

\* Where the 0 stands that ends a text; 0 if there is none.
TextEnd(r, bytes) ==
    LET ends == {i \in r.pos + 1 .. Len(bytes) : bytes[i] = 0}
    IN  IF ends = {} THEN 0 ELSE CHOOSE i \in ends : \A j \in ends : i <= j

\* readString(): up to the next 0, which must be there.
ReadText(r, bytes, Event(_)) ==
    LET end == TextEnd(r, bytes)
    IN  IF end = 0 THEN Fails(r, "eof") ELSE Reads(r, end - r.pos, Event(SubSeq(bytes, r.pos + 1, end - 1)))

\* stringFromToken()
ReadToken(r, token, names, Event(_)) ==
    IF names = NoTokens THEN Fails(r, "marker")
    ELSE IF token < TokenStartMarker \/ token - TokenStartMarker >= Len(names) THEN Fails(r, "token")
    ELSE Reads(r, 0, Event(names[token - TokenStartMarker + 1]))

ReadExtension(r, bytes) ==
    LET size == UnsignedOf(SubSeq(bytes, r.pos + 1, r.pos + 4))
    IN  IF Len(bytes) - r.pos < 4 \/ Len(bytes) - r.pos - 4 < size THEN Fails(r, "eof")
        ELSE Reads(r, 4 + size, <<>>)

ReadValue(r, bytes, marker, names) ==
    CASE marker = MarkerObjectBegin ->
           Reads([r EXCEPT !.stack = Append(@, "object"), !.skip = FALSE], 0,
                 IF r.skip THEN <<>> ELSE <<<<"beginObject", 0>>>>)
      [] marker = MarkerArrayBegin ->
           Reads([r EXCEPT !.stack = Append(@, "array")], 0, <<<<"beginArray", 0>>>>)
      [] marker = MarkerString -> ReadText(r, bytes, LAMBDA t : <<<<"value", Str(t)>>>>)
      [] marker = MarkerNull -> Reads(r, 0, <<<<"value", Null>>>>)
      [] marker \in {MarkerTrue, MarkerFalse} -> Reads(r, 0, <<<<"value", Bool(marker = MarkerTrue)>>>>)
      [] marker \in {MarkerNegativeDecimal, MarkerPositiveDecimal} ->
           ReadDigits(r, bytes, 8, LAMBDA d : <<<<"value", Dec(SignedOf(d))>>>>)
      [] marker \in MarkerNegativeInt..MarkerInt64 -> ReadInt(r, bytes, marker)
      [] marker = MarkerExtension -> ReadExtension(r, bytes)
      [] OTHER -> ReadToken(r, marker, names, LAMBDA t : <<<<"value", Str(t)>>>>)

ReadProp(r, bytes, marker, names) ==
    LET Named(t) == <<<<"propName", t>>>>
        value == [r EXCEPT !.stack = Append(@, "value")]
    IN  CASE marker = MarkerObjectEnd -> Reads([r EXCEPT !.stack = Front(@)], 0, <<<<"endObject", 0>>>>)
          [] marker = MarkerString -> ReadText(value, bytes, Named)
          [] OTHER -> ReadToken(value, marker, names, Named)

\* next(): an element of an array pushes the value it expects and starts over.
Next(r, bytes, names) ==
    LET stack == IF r.stack = <<>> THEN <<"value">> ELSE r.stack
        marker == bytes[r.pos + 1]
        began == [r EXCEPT !.stack = stack, !.pos = @ + 1]
    IN  IF ~HasNext(r, bytes) THEN Fails([r EXCEPT !.stack = stack], "eof")
        ELSE CASE Last(stack) = "value" -> ReadValue([began EXCEPT !.stack = Front(@)], bytes, marker, names)
               [] Last(stack) = "object" -> ReadProp(began, bytes, marker, names)
               [] Last(stack) = "array" /\ marker = MarkerObjectEnd ->
                    Reads([began EXCEPT !.stack = Front(@)], 0, <<<<"endArray", 0>>>>)
               [] OTHER -> ReadValue(began, bytes, marker, names)

-----------------------------------------------------------------------------
(***************************************************************************)
(* The header: version, token of the kind, revision, deleted or not, end.  *)
(* The id is the record's key.  A kind's token is its place in Kinds.      *)
(***************************************************************************)
CONSTANTS IdKey, RevKey, KindKey, DelKey, Kinds

\* addTo()
AddTo(h, obj) ==
    LET o == Put(Put(Put(obj, IdKey, h.id), RevKey, Num(h.rev)), KindKey, Str(h.kind))
    IN  IF h.del THEN Put(o, DelKey, Bool(TRUE)) ELSE o

\* extractFrom(): _del stays in the object.
ExtractFrom(obj) ==
    [header |-> [id |-> Get(obj, IdKey), kind |-> Get(obj, KindKey)[2], rev |-> Get(obj, RevKey)[2],
                 del |-> Get(obj, DelKey) = Bool(TRUE)],
     obj |-> Del(Del(Del(obj, IdKey), KindKey), RevKey)]

HeaderBytes(h) ==
    <<HeaderVersion>> \o IntBytes(CHOOSE i \in DOMAIN Kinds : Kinds[i] = h.kind) \o IntBytes(h.rev)
    \o (IF h.del THEN <<MarkerTrue>> ELSE <<>>) \o <<MarkerHeaderEnd>>

AtHeaderEnd(r, bytes) == HasNext(r, bytes) /\ bytes[r.pos + 1] = MarkerHeaderEnd

\* Fields of a newer version are read and dropped.
RECURSIVE SkipToHeaderEnd(_, _)
SkipToHeaderEnd(r, bytes) ==
    IF r.err # "none" \/ AtHeaderEnd(r, bytes) THEN r
    ELSE SkipToHeaderEnd(Next(r, bytes, NoTokens).reader, bytes)

\* MojDbObjectHeader::read(), field by field: the header and the reader
\* behind it, or the error.
HeaderFails(err) == [header |-> [id |-> Undefined, kind |-> <<>>, rev |-> 0, del |-> FALSE],
                     reader |-> [NewReader EXCEPT !.err = err]]

Field(read) == BuildAll(NoBuilder, read.events).obj[2]

ReadHeaderEnd(h, r) ==
    IF r.err # "none" THEN HeaderFails(r.err) ELSE [header |-> h, reader |-> [r EXCEPT !.pos = @ + 1]]

ReadDel(h, bytes, del) ==
    IF del.reader.err # "none" THEN HeaderFails(del.reader.err)
    ELSE ReadHeaderEnd([h EXCEPT !.del = Field(del)], SkipToHeaderEnd(del.reader, bytes))

ReadRev(h, bytes, rev) ==
    IF rev.reader.err # "none" THEN HeaderFails(rev.reader.err)
    ELSE IF AtHeaderEnd(rev.reader, bytes) THEN ReadHeaderEnd([h EXCEPT !.rev = Field(rev)], rev.reader)
    ELSE ReadDel([h EXCEPT !.rev = Field(rev)], bytes, Next(rev.reader, bytes, NoTokens))

ReadKind(id, bytes, kind) ==
    IF kind.reader.err # "none" THEN HeaderFails(kind.reader.err)
    ELSE IF Field(kind) \notin DOMAIN Kinds THEN HeaderFails("kind")
    ELSE ReadRev([id |-> id, kind |-> Kinds[Field(kind)], rev |-> 0, del |-> FALSE],
                 bytes, Next(kind.reader, bytes, NoTokens))

ReadHeader(id, bytes) ==
    IF bytes = <<>> THEN HeaderFails("eof")
    ELSE IF bytes[1] # HeaderVersion THEN HeaderFails("version")
    ELSE ReadKind(id, bytes, Next([NewReader EXCEPT !.pos = 1], bytes, NoTokens))

\* MojDbObjectHeader::visit(): what the visitor is told before the object.
HeaderEvents(h) ==
    <<<<"beginObject", 0>>, <<"propName", IdKey>>>> \o Visit(h.id)
    \o <<<<"propName", KindKey>>, <<"value", Str(h.kind)>>, <<"propName", RevKey>>, <<"value", Num(h.rev)>>>>
    \o (IF h.del THEN <<<<"propName", DelKey>>, <<"value", Bool(TRUE)>>>> ELSE <<>>)
=============================================================================
