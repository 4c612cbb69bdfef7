-------------------------------- MODULE Json --------------------------------
(***************************************************************************)
(* JSON texts of objects: MojJsonWriter, and MojJsonParser as the push     *)
(* parser it is: characters come in one by one, and what is known between  *)
(* two of them is one record per nesting level and a few registers.        *)
(* A behaviour writes one value, has its text laid out or cut, and parses  *)
(* it into a builder; or it parses the text of a number.                   *)
(***************************************************************************)
EXTENDS ObjectValue, Number

CONSTANTS MaxDepth,    \* levels the parser has records for (32 in the code)
          JsonValues,  \* values written
          Fillers,     \* white space and comments, put between two tokens
          NumberTexts

Newline == 10
Space == 32
Quote == 34
Star == 42
Comma == 44
Slash == 47
Colon == 58
OpenBracket == 91
Backslash == 92
CloseBracket == 93
OpenBrace == 123
CloseBrace == 125
Nul == 0

NullText == <<110, 117, 108, 108>>
TrueText == <<116, 114, 117, 101>>
FalseText == <<102, 97, 108, 115, 101>>

\* The control characters with an escape of their own, and its letter.
Escapes == <<<<8, 98>>, <<9, 116>>, <<10, 110>>, <<12, 102>>, <<13, 114>>>>

-----------------------------------------------------------------------------
HexText(n) == [i \in 1..4 |-> LET d == (n \div 16^(4 - i)) % 16 IN IF d < 10 THEN Zero + d ELSE 55 + d]

\* One character of a text as writeString() writes it.
EscapeChar(c) ==
    LET own == {i \in DOMAIN Escapes : Escapes[i][1] = c}
    IN  CASE c \in {Quote, Backslash} -> <<Backslash, c>>
          [] c < 32 /\ own # {} -> <<Backslash, Escapes[CHOOSE i \in own : TRUE][2]>>
          [] c < 32 /\ own = {} -> <<Backslash, 117>> \o HexText(c)
          [] OTHER -> <<c>>

WriteString(text) == <<Quote>> \o FlattenSeq([i \in DOMAIN text |-> EscapeChar(text[i])]) \o <<Quote>>

ScalarText(v) ==
    CASE v[1] = "null" -> NullText
      [] v[1] = "bool" -> IF v[2] THEN TrueText ELSE FalseText
      [] v[1] = "int" -> IntText(v[2])
      [] v[1] = "dec" -> DecimalText(v[2])
      [] v[1] = "str" -> WriteString(v[2])

\* The tokens a visitor call writes; the comma before it is due when the
\* last thing written was a value.
TokensOf(e) ==
    CASE e[1] = "beginObject" -> <<<<OpenBrace>>>>
      [] e[1] = "beginArray" -> <<<<OpenBracket>>>>
      [] e[1] = "endObject" -> <<<<CloseBrace>>>>
      [] e[1] = "endArray" -> <<<<CloseBracket>>>>
      [] e[1] = "propName" -> <<WriteString(e[2]), <<Colon>>>>
      [] e[1] = "value" -> <<ScalarText(e[2])>>

\* MojJsonWriter: writeComma() and the calls of the visitor.
WriteTokens(w, e) ==
    LET ends == e[1] \in {"endObject", "endArray"}
        comma == w.comma /\ ~ends
    IN  [tokens |-> w.tokens \o (IF comma THEN <<<<Comma>>>> ELSE <<>>) \o TokensOf(e),
         comma |-> ends \/ e[1] = "value"]

\* toJson(), as the sequence of its tokens.
JsonTokens(v) == FoldLeft(WriteTokens, [tokens |-> <<>>, comma |-> FALSE], Visit(v)).tokens

-----------------------------------------------------------------------------
(***************************************************************************)
(* The parser: recs[d] is the record [state, saved] of level d - 1, str    *)
(* the text or number collected, pos the place in a keyword or an escape,  *)
(* match the keyword, ucs the character of an escape, decimal whether the  *)
(* number has a point or an exponent.                                      *)
(***************************************************************************)
Rec(state, saved) == [state |-> state, saved |-> saved]

NewParser == [recs |-> <<Rec("eatWhitespace", "start")>>, str |-> <<>>, pos |-> 0, match |-> <<>>,
              ucs |-> 0, decimal |-> FALSE, err |-> "none", done |-> FALSE]

State(p) == Last(p.recs).state

SetState(p, state) == [p EXCEPT !.recs[Len(p.recs)].state = state]

\* white space and comments may follow, then the state saved
Await(p, saved) == [p EXCEPT !.recs[Len(p.recs)] = Rec("eatWhitespace", saved)]

Finish(p) == Await(p, "finish")

PErr(p, err) == [p |-> [p EXCEPT !.err = err], events |-> <<>>, redo |-> FALSE]
Ate(p, events) == [p |-> p, events |-> events, redo |-> FALSE]
Redo(p, events) == [p |-> p, events |-> events, redo |-> TRUE]

IsSpace(c) == c = Space \/ c \in 9..13

EatWhitespace(p, c) ==
    IF IsSpace(c) THEN Ate(p, <<>>)
    ELSE IF c = Slash THEN Ate(SetState(p, "commentStart"), <<>>)
    ELSE Redo(SetState(p, Last(p.recs).saved), <<>>)

\* StateStart: the first character of a value.
Start(p, c) ==
    CASE c = OpenBrace -> Ate(Await(p, "objFieldStart"), <<<<"beginObject", 0>>>>)
      [] c = OpenBracket -> Ate(Await(p, "array"), <<<<"beginArray", 0>>>>)
      [] c = Head(NullText) -> Redo([SetState(p, "null") EXCEPT !.pos = 0, !.match = NullText], <<>>)
      [] c = Quote -> Ate([SetState(p, "string") EXCEPT !.str = <<>>], <<>>)
      [] c \in {Head(TrueText), Head(FalseText)} ->
           Redo([SetState(p, "bool") EXCEPT !.pos = 0, !.match = IF c = Head(TrueText) THEN TrueText ELSE FalseText], <<>>)
      [] IsDigit(c) \/ c = Minus -> Redo([SetState(p, "number") EXCEPT !.str = <<>>, !.decimal = FALSE], <<>>)
      [] c = Nul -> Ate(p, <<>>)
      [] OTHER -> PErr(p, "unexpected")

\* A value has ended: back to the level around it, or done.
Finished(p) == IF Len(p.recs) = 1 THEN Ate([p EXCEPT !.done = TRUE], <<>>) ELSE Redo([p EXCEPT !.recs = Front(@)], <<>>)

\* StateNull, StateBool: one more character of the keyword.
Keyword(p, c) ==
    LET pos == p.pos + 1
        v == IF p.match = NullText THEN Null ELSE Bool(p.match = TrueText)
    IN  IF c # p.match[pos] THEN PErr(p, "keyword")
        ELSE IF pos < Len(p.match) THEN Ate([p EXCEPT !.pos = pos], <<>>)
        ELSE Ate(Finish([p EXCEPT !.pos = pos]), <<<<"value", v>>>>)

InComment(p, c) ==
    CASE State(p) = "commentStart" ->
           IF c = Star THEN Ate(SetState(p, "comment"), <<>>)
           ELSE IF c = Slash THEN Ate(SetState(p, "commentEol"), <<>>) ELSE PErr(p, "comment")
      [] State(p) = "comment" -> Ate(IF c = Star THEN SetState(p, "commentEnd") ELSE p, <<>>)
      [] State(p) = "commentEol" -> Ate(IF c = Newline THEN SetState(p, "eatWhitespace") ELSE p, <<>>)
      [] State(p) = "commentEnd" ->
           IF c = Slash THEN Ate(SetState(p, "eatWhitespace"), <<>>) ELSE Redo(SetState(p, "comment"), <<>>)

\* StateString, StateObjField: a text, or the name of a property.
InText(p, c) ==
    LET state == State(p)
    IN  CASE c = Quote /\ state = "string" -> Ate(Finish(p), <<<<"value", Str(p.str)>>>>)
          [] c = Quote /\ state = "objField" -> Ate(Await(p, "objFieldEnd"), <<<<"propName", p.str>>>>)
          [] c = Backslash -> Ate([p EXCEPT !.recs[Len(p.recs)] = Rec("stringEscape", state)], <<>>)
          [] OTHER -> Ate([p EXCEPT !.str = Append(@, c)], <<>>)

Unescaped(p, chars) == Ate(SetState([p EXCEPT !.str = @ \o chars], Last(p.recs).saved), <<>>)

InEscape(p, c) ==
    LET own == {i \in DOMAIN Escapes : Escapes[i][2] = c}
    IN  CASE c = 117 -> Ate([SetState(p, "escapeUnicode") EXCEPT !.ucs = 0, !.pos = 0], <<>>)
          [] c \in {Quote, Backslash, Slash} -> Unescaped(p, <<c>>)
          [] own # {} -> Unescaped(p, <<Escapes[CHOOSE i \in own : TRUE][1]>>)
          [] OTHER -> PErr(p, "escape")

HexDigit(c) == IF IsDigit(c) THEN c - Zero ELSE IF c \in 65..70 THEN c - 55 ELSE IF c \in 97..102 THEN c - 87 ELSE -1

Utf8(n) ==
    CASE n < 128 -> <<n>>
      [] n >= 128 /\ n < 2048 -> <<192 + (n \div 64), 128 + (n % 64)>>
      [] n >= 2048 -> <<224 + (n \div 4096), 128 + ((n \div 64) % 64), 128 + (n % 64)>>

InUnicode(p, c) ==
    LET ucs == p.ucs + HexDigit(c) * 16^(3 - p.pos)
    IN  IF HexDigit(c) < 0 THEN PErr(p, "escape")
        ELSE IF p.pos < 3 THEN Ate([p EXCEPT !.ucs = ucs, !.pos = @ + 1], <<>>)
        ELSE IF ucs = 0 THEN PErr(p, "escape")
        ELSE Unescaped([p EXCEPT !.ucs = ucs, !.pos = 4], Utf8(ucs))

\* StateNumber: ends with the first character no number has.
InNumber(p, c) ==
    LET dec == ParseDecimal(p.str)
        int == ParseInt(p.str)
    IN  CASE c \in {Point, LowerE, UpperE} -> Ate([p EXCEPT !.decimal = TRUE, !.str = Append(@, c)], <<>>)
          [] IsDigit(c) \/ c \in {Plus, Minus} -> Ate([p EXCEPT !.str = Append(@, c)], <<>>)
          [] OTHER -> IF p.decimal
                      THEN IF dec.ok THEN Redo(Finish(p), <<<<"value", Dec(dec.rep)>>>>) ELSE PErr(p, "decimal")
                      ELSE IF int.ok THEN Redo(Finish(p), <<<<"value", Num(int.val)>>>>) ELSE PErr(p, "int")

\* push(): a level of its own for the value that follows.
PushLevel(p) ==
    IF Len(p.recs) >= MaxDepth THEN PErr(p, "maxDepth")
    ELSE Redo([p EXCEPT !.recs = Append(@, Rec("eatWhitespace", "start"))], <<>>)

InArray(p, c) ==
    CASE c = CloseBracket -> Ate(Finish(p), <<<<"endArray", 0>>>>)
      [] State(p) = "array" /\ c # CloseBracket -> PushLevel(SetState(p, "arraySep"))
      [] State(p) = "arraySep" /\ c = Comma -> Ate(Await(p, "array"), <<>>)
      [] OTHER -> PErr(p, "array")

InObject(p, c) ==
    LET state == State(p)
    IN  CASE c = CloseBrace /\ state \in {"objFieldStart", "objSep"} -> Ate(Finish(p), <<<<"endObject", 0>>>>)
          [] c = Quote /\ state = "objFieldStart" -> Ate([SetState(p, "objField") EXCEPT !.str = <<>>], <<>>)
          [] c = Colon /\ state = "objFieldEnd" -> Ate(Await(p, "objValue"), <<>>)
          [] state = "objValue" -> PushLevel(Await(p, "objSep"))
          [] c = Comma /\ state = "objSep" -> Ate(Await(p, "objFieldStart"), <<>>)
          [] OTHER -> PErr(p, "object")

\* The switch of parseChunk().
Switch(p, c) ==
    CASE State(p) = "eatWhitespace" -> EatWhitespace(p, c)
      [] State(p) = "start" -> Start(p, c)
      [] State(p) = "finish" -> Finished(p)
      [] State(p) \in {"null", "bool"} -> Keyword(p, c)
      [] State(p) \in {"commentStart", "comment", "commentEol", "commentEnd"} -> InComment(p, c)
      [] State(p) \in {"string", "objField"} -> InText(p, c)
      [] State(p) = "stringEscape" -> InEscape(p, c)
      [] State(p) = "escapeUnicode" -> InUnicode(p, c)
      [] State(p) = "number" -> InNumber(p, c)
      [] State(p) \in {"array", "arraySep"} -> InArray(p, c)
      [] OTHER -> InObject(p, c)

\* One character: the switch, over again until the character is used up.
RECURSIVE ParseChar(_, _)
ParseChar(p, c) ==
    LET Go(once) == IF once.redo THEN [ParseChar(once.p, c) EXCEPT !.events = once.events \o @]
                    ELSE [p |-> once.p, events |-> once.events]
    IN  Go(Switch(p, c))

\* finished()
IsFinished(p) == State(p) = "finish" /\ Len(p.recs) = 1

-----------------------------------------------------------------------------
VARIABLES source,   \* the value written, Undefined for the text of a number
          text,     \* the text to parse
          whole,    \* it is all of it
          at,       \* characters parsed
          parser, result,
          over      \* parse() has returned

jsonVars == <<source, text, whole, at, parser, result, over>>

\* A text, all of it or cut between two tokens, with a filler between two.
Layouts(tokens) ==
    LET n == Len(tokens)
        Part(i, j) == FlattenSeq(SubSeq(tokens, i, j))
    IN  {[text |-> Part(1, n), whole |-> TRUE]}
        \cup {[text |-> Part(1, k), whole |-> FALSE] : k \in 0..(n - 1)}
        \cup {[text |-> Part(1, k) \o f \o Part(k + 1, n), whole |-> TRUE] : k \in 0..n, f \in Fillers}

JsonInit ==
    /\ at = 0 /\ parser = NewParser /\ result = NoBuilder /\ over = FALSE
    /\ \/ /\ source \in JsonValues
          /\ \E l \in Layouts(JsonTokens(source)) : text = l.text /\ whole = l.whole
       \/ source = Undefined /\ whole = TRUE /\ text \in NumberTexts

\* parseChunk(): one character of it.
ParseChunk ==
    /\ ~over /\ at < Len(text) /\ parser.err = "none" /\ ~parser.done
    /\ at' = at + 1
    /\ \E step \in {ParseChar(parser, text[at + 1])} : parser' = step.p /\ result' = BuildAll(result, step.events)
    /\ UNCHANGED <<source, text, whole, over>>

\* parse(): the end of the text is parsed as a 0, then the value must be
\* finished.  What follows a finished value is not looked at.
ParseEnd ==
    /\ ~over /\ over' = TRUE
    /\ parser.err # "none" \/ parser.done \/ at = Len(text)
    /\ IF parser.err # "none" THEN UNCHANGED <<parser, result>>
       ELSE \E ended \in {IF parser.done THEN [p |-> parser, events |-> <<>>] ELSE ParseChar(parser, Nul)} :
              /\ parser' = IF ended.p.err = "none" /\ ~IsFinished(ended.p) THEN [ended.p EXCEPT !.err = "eof"] ELSE ended.p
              /\ result' = BuildAll(result, ended.events)
    /\ UNCHANGED <<source, text, whole, at>>

JsonNext == ParseChunk \/ ParseEnd

-----------------------------------------------------------------------------
RECURSIVE Nesting(_)

\* The levels the parser needs below the value's own.
Nesting(v) ==
    LET inner == CASE v[1] = "arr" -> {Nesting(v[2][i]) : i \in DOMAIN v[2]}
                   [] v[1] = "obj" -> {Nesting(v[2][i][2]) : i \in DOMAIN v[2]}
                   [] OTHER -> {}
    IN  IF inner = {} THEN 0 ELSE 1 + (CHOOSE n \in inner : \A m \in inner : m <= n)

Written == over /\ source # Undefined

RECURSIVE Read(_)

\* As it is read back: undefined is written as null.
Read(v) ==
    CASE v[1] = "undef" -> Null
      [] v[1] = "arr" -> Arr([i \in DOMAIN v[2] |-> Read(v[2][i])])
      [] v[1] = "obj" -> Obj([i \in DOMAIN v[2] |-> <<v[2][i][1], Read(v[2][i][2])>>])
      [] OTHER -> v

\* What was written is read back, the types of its numbers included, with
\* white space and comments between any two tokens of it; unless it is nested
\* deeper than the parser has levels: then it is refused.
JsonReadBack ==
    Written /\ whole =>
        IF Nesting(source) < MaxDepth THEN parser.err = "none" /\ result.obj = Read(source)
        ELSE parser.err = "maxDepth"

\* A text cut between two tokens is refused, and no object comes of it.
JsonCutRefused ==
    Written /\ ~whole => parser.err # "none" /\ result.obj = Undefined

\* The text of a number with a point or an exponent becomes the decimal
\* nearest to it, up to the digit toDecimal() looks at (less than 0.6 units of
\* the last place off), or is refused; except when zeros inside the magnitude
\* make realignValue() wrap around.
NumberNear ==
    over /\ source = Undefined /\ parser.err = "none" /\ result.obj[1] = "dec" =>
        LET marks == {i \in DOMAIN text : text[i] \in {LowerE, UpperE}}
            mark == IF marks = {} THEN Len(text) + 1 ELSE CHOOSE i \in marks : TRUE
            mantissa == SelectSeq(SubSeq(text, 1, mark - 1), IsDigit)
            points == {i \in 1..(mark - 1) : text[i] = Point}
            fraction == IF points = {} THEN 0 ELSE mark - 1 - (CHOOSE i \in points : TRUE)
            exponent == IF marks = {} THEN 0 ELSE
                LET e == SubSeq(text, mark + 1, Len(text))
                    ds == SelectSeq(e, IsDigit)
                    n == FoldLeft(LAMBDA v, c : 10 * v + (c - Zero), 0, ds)
                IN  IF e[1] = Minus THEN -n ELSE n
            abs == FoldLeft(LAMBDA v, c : 10 * v + (c - Zero), 0, mantissa)
            shift == Precision + exponent - fraction
            rep == IF result.obj[2] < 0 THEN -result.obj[2] ELSE result.obj[2]
            Abs(x) == IF x < 0 THEN -x ELSE x
        IN  ~LexAll(text).wrapped =>
              /\ abs # 0 /\ rep # 0 => (text[1] = Minus) = (result.obj[2] < 0)
              /\ IF shift >= 0 THEN rep = abs * Pow10(shift)
                 ELSE 10 * Abs(abs - rep * Pow10(-shift)) < 6 * Pow10(-shift)
=============================================================================
