------------------------------- MODULE Schema -------------------------------
(***************************************************************************)
(* MojSchema: the rules a kind's schema lays on its objects, and when a    *)
(* schema is in force (MojDbKind::configure, update).                      *)
(*                                                                         *)
(* A schema is a function from the keys it has to their arguments.  Where  *)
(* a key takes a type or a schema the argument is <<"type", name>> or      *)
(* <<"schema", schema>>, a list of those is <<"list", sequence>>; that of  *)
(* additionalProperties may be <<"bool", b>>.  properties is a sequence of *)
(* <<name, schema>> in name order.  pattern is the set of texts the        *)
(* regular expression matches.  Decimals hold Width values, Numerator to   *)
(* the unit.                                                               *)
(***************************************************************************)
EXTENDS ObjectValue

CONSTANTS Numerator, Width,
          Schemas,   \* schemas a kind is put with
          Objects,   \* objects that are put
          NoSchema

TypesOf(name) ==
    CASE name = "null" -> {"null"} [] name = "object" -> {"obj"} [] name = "array" -> {"arr"}
      [] name = "string" -> {"str"} [] name = "boolean" -> {"bool"} [] name = "integer" -> {"int"}
      [] name = "number" -> {"dec", "int"} [] OTHER -> {}

\* m_rep of a decimal made of an integer: the product is not checked.
Wrap(n) == ((n + (Width \div 2)) % Width) - (Width \div 2)

DecimalValue(v) == IF v[1] = "dec" THEN v[2] ELSE Wrap(v[2] * Numerator)

\* The order in which SchemaRule::fromObject() adds the rules.
RuleOrder == <<"properties", "type", "disallow", "items", "pattern", "requires", "minimum", "maximum", "minItems",
               "maxItems", "uniqueItems", "minLength", "maxLength", "enum", "divisibleBy">>

HasRule(s, key) ==
    CASE key = "properties" -> {"properties", "additionalProperties"} \cap DOMAIN s # {}
      [] key = "uniqueItems" -> key \in DOMAIN s /\ s[key]
      [] OTHER -> key \in DOMAIN s

RulesOf(s) == LET Present(key) == HasRule(s, key) IN SelectSeq(RuleOrder, Present)

\* optional() of a rule: "optional" counts before "required".
IsOptional(s) ==
    IF "optional" \in DOMAIN s THEN s["optional"] ELSE "required" \in DOMAIN s => ~s["required"]

RECURSIVE Wellformed(_)

WellformedArg(arg) ==
    CASE arg[1] = "type" -> TypesOf(arg[2]) # {}
      [] arg[1] = "schema" -> Wellformed(arg[2])
      [] arg[1] = "list" -> \A i \in DOMAIN arg[2] : IF arg[2][i][1] = "type" THEN TypesOf(arg[2][i][2]) # {}
                                                     ELSE Wellformed(arg[2][i][2])
      [] arg[1] = "bool" -> TRUE

\* fromObject(): an unknown type is an error, at any depth.
Wellformed(s) ==
    /\ \A key \in DOMAIN s \cap {"type", "disallow", "items", "additionalProperties"} : WellformedArg(s[key])
    /\ "properties" \in DOMAIN s => \A i \in DOMAIN s["properties"] : Wellformed(s["properties"][i][2])

-----------------------------------------------------------------------------
(* A rule takes whether the result was valid so far and gives whether it   *)
(* is: only a union makes an invalid result valid again.                   *)

RECURSIVE Validate(_, _, _, _)

ValidateArg(arg, v, parent, valid) ==
    IF arg[1] = "type" THEN valid /\ v[1] \in TypesOf(arg[2]) ELSE Validate(arg[2], v, parent, valid)

UnionType(list, v, parent) == \E i \in DOMAIN list : ValidateArg(list[i], v, parent, TRUE)

TypeRule(arg, v, parent, valid) ==
    IF arg[1] = "list" THEN UnionType(arg[2], v, parent) ELSE ValidateArg(arg, v, parent, valid)

DisallowRule(arg, v, parent, valid) == valid /\ ~TypeRule(arg, v, parent, TRUE)

AdditionalRule(s, v, parent, valid) ==
    IF "additionalProperties" \notin DOMAIN s THEN valid
    ELSE LET arg == s["additionalProperties"]
         IN  IF arg[1] = "bool" THEN valid /\ arg[2] ELSE Validate(arg[2], v, parent, valid)

\* Faulty variant: a property of the schema that the object does not have is skipped with the object's next one.
RECURSIVE WalkPropsBoth(_, _, _, _, _)
WalkPropsBoth(s, props, rest, v, valid) ==
    LET order == IF props = <<>> THEN 1 ELSE IF rest = <<>> THEN -1 ELSE CompareText(props[1][1], rest[1][1])
    IN  IF ~valid \/ (props = <<>> /\ rest = <<>>) THEN valid
        ELSE IF order > 0 THEN WalkPropsBoth(s, props, Tail(rest), v, AdditionalRule(s, rest[1][2], v, valid))
        ELSE IF order < 0
        THEN WalkPropsBoth(s, Tail(props), IF rest = <<>> THEN rest ELSE Tail(rest), v, IsOptional(props[1][2]))
        ELSE WalkPropsBoth(s, Tail(props), Tail(rest), v, Validate(props[1][2], rest[1][2], v, valid))

\* PropertiesRule::validate(): the schema's properties and the object's,
\* walked together in the order of their names.
RECURSIVE WalkProps(_, _, _, _, _)
WalkProps(s, props, rest, v, valid) ==
    LET order == IF props = <<>> THEN 1 ELSE IF rest = <<>> THEN -1 ELSE CompareText(props[1][1], rest[1][1])
    IN  IF ~valid \/ (props = <<>> /\ rest = <<>>) THEN valid
        ELSE IF order > 0 THEN WalkProps(s, props, Tail(rest), v, AdditionalRule(s, rest[1][2], v, valid))
        ELSE IF order < 0 THEN WalkProps(s, Tail(props), rest, v, IsOptional(props[1][2]))
        ELSE WalkProps(s, Tail(props), Tail(rest), v, Validate(props[1][2], rest[1][2], v, valid))

PropertiesRule(s, v, valid) ==
    WalkProps(s, IF "properties" \in DOMAIN s THEN s["properties"] ELSE <<>>,
              IF v[1] = "obj" THEN v[2] ELSE <<>>, v, valid)

\* TupleItemsRule::validate(): too few items are refused; those beyond the
\* tuple are for the additional rule.
RECURSIVE WalkTuple(_, _, _, _, _)
WalkTuple(s, list, rest, v, valid) ==
    CASE ~valid -> FALSE
      [] valid /\ rest = <<>> -> list = <<>>
      [] valid /\ rest # <<>> /\ list = <<>> -> WalkTuple(s, list, Tail(rest), v, AdditionalRule(s, rest[1], v, valid))
      [] OTHER -> WalkTuple(s, Tail(list), Tail(rest), v, ValidateArg(list[1], rest[1], v, valid))

ItemsRule(s, v, valid) ==
    LET arg == s["items"]
    IN  IF v[1] # "arr" THEN valid
        ELSE IF arg[1] = "list" THEN WalkTuple(s, arg[2], v[2], v, valid)
        ELSE FoldLeft(LAMBDA ok, x : IF ok THEN Validate(arg[2], x, v, ok) ELSE ok, valid, v[2])

\* CompRule: minimum and maximum, compared as decimals.
CompRule(s, key, v, valid) ==
    LET flag == IF key = "minimum" THEN "minimumCanEqual" ELSE "maximumCanEqual"
        canEqual == flag \in DOMAIN s => s[flag]
        diff == DecimalValue(v) - DecimalValue(s[key])
        in == IF key = "minimum" THEN diff > 0 ELSE diff < 0
    IN  IF v[1] \in {"int", "dec"} THEN valid /\ (in \/ (canEqual /\ diff = 0)) ELSE valid

PatternRule(texts, v, valid) == valid /\ v \in texts

RequiresRule(name, parent, valid) == valid /\ Has(parent, name)

ArrayLenRule(key, n, v, valid) ==
    valid /\ (v[1] = "arr" => IF key = "minItems" THEN Len(v[2]) >= n ELSE Len(v[2]) <= n)

StringLenRule(key, n, v, valid) ==
    valid /\ (v[1] = "str" => IF key = "minLength" THEN Len(v[2]) >= n ELSE Len(v[2]) <= n)

EnumRule(vals, v, valid) == valid /\ \E i \in DOMAIN vals : Compare(vals[i], v) = 0

UniqueItemsRule(v, valid) ==
    valid /\ (v[1] = "arr" => \A i, j \in DOMAIN v[2] : i < j => Compare(v[2][i], v[2][j]) # 0)

\* magnitude() of a decimal, towards zero.
IntValue(v) ==
    IF v[1] = "int" THEN v[2] ELSE IF v[2] < 0 THEN -((-v[2]) \div Numerator) ELSE v[2] \div Numerator

DivisibleRule(m, v, valid) ==
    IF v[1] \notin {"int", "dec"} THEN valid
    ELSE valid /\ m # 0 /\ IntValue(v) % m = 0 /\ (v[1] = "dec" => IntValue(v) * Numerator = v[2])

ValidateRule(key, s, v, parent, valid) ==
    CASE key = "properties" -> PropertiesRule(s, v, valid)
      [] key = "type" -> TypeRule(s["type"], v, parent, valid)
      [] key = "disallow" -> DisallowRule(s["disallow"], v, parent, valid)
      [] key = "items" -> ItemsRule(s, v, valid)
      [] key = "pattern" -> PatternRule(s[key], v, valid)
      [] key = "requires" -> RequiresRule(s[key], parent, valid)
      [] key \in {"minimum", "maximum"} -> CompRule(s, key, v, valid)
      [] key \in {"minItems", "maxItems"} -> ArrayLenRule(key, s[key], v, valid)
      [] key = "uniqueItems" -> UniqueItemsRule(v, valid)
      [] key \in {"minLength", "maxLength"} -> StringLenRule(key, s[key], v, valid)
      [] key = "enum" -> EnumRule(s[key], v, valid)
      [] key = "divisibleBy" -> DivisibleRule(s["divisibleBy"], v, valid)

\* SchemaRule::validate(): the rules one after the other, to the first that fails.
Validate(s, v, parent, valid) ==
    FoldLeft(LAMBDA r, key : IF r.stop THEN r
                             ELSE LET ok == ValidateRule(key, s, v, parent, r.valid) IN [valid |-> ok, stop |-> ~ok],
             [valid |-> valid, stop |-> FALSE], RulesOf(s)).valid

-----------------------------------------------------------------------------
VARIABLES stored,   \* the schema of the stored kind object, or NoSchema
          rule,     \* the schema in force, or NoSchema
          answered  \* the object put and the answer; a behaviour ends with it

schemaVars == <<stored, rule, answered>>

SchemaInit == stored = NoSchema /\ rule = NoSchema /\ answered = {}

\* reloadKind(): a new kind is made from the stored object.
AfterFailure(s) == stored

\* putKind(): a kind object without a schema leaves the one in force alone.
PutKind ==
    \E s \in Schemas \cup {NoSchema}, fails \in BOOLEAN :
        /\ answered = {} /\ UNCHANGED answered
        /\ IF fails \/ (s # NoSchema /\ ~Wellformed(s)) THEN stored' = stored /\ rule' = AfterFailure(s)
           ELSE stored' = s /\ rule' = IF s = NoSchema THEN rule ELSE s

Restart == answered = {} /\ rule' = stored /\ UNCHANGED <<stored, answered>>

\* MojDbKind::update() of an object that is put.
PutObject ==
    \E v \in Objects :
        /\ answered = {}
        /\ answered' = {<<v, rule = NoSchema \/ Validate(rule, v, Undefined, TRUE)>>}
        /\ UNCHANGED <<stored, rule>>

SchemaNext == PutKind \/ Restart \/ PutObject

-----------------------------------------------------------------------------
(* What a schema means, for the properties.                                *)

RECURSIVE Meets(_, _, _)

MeetsArg(arg, v, parent) ==
    CASE arg[1] = "type" -> v[1] \in TypesOf(arg[2])
      [] arg[1] = "schema" -> Meets(arg[2], v, parent)
      [] arg[1] = "list" -> \E i \in DOMAIN arg[2] : IF arg[2][i][1] = "type" THEN v[1] \in TypesOf(arg[2][i][2])
                                                     ELSE Meets(arg[2][i][2], v, parent)

\* Numbers as exact multiples of 1 / Numerator.
ExactValue(v) == IF v[1] = "dec" THEN v[2] ELSE v[2] * Numerator

MeetsExtra(s, v, parent) ==
    "additionalProperties" \in DOMAIN s =>
        LET arg == s["additionalProperties"] IN IF arg[1] = "bool" THEN arg[2] ELSE Meets(arg[2], v, parent)

MeetsProps(s, v) ==
    LET props == IF "properties" \in DOMAIN s THEN s["properties"] ELSE <<>>
        named == {props[i][1] : i \in DOMAIN props}
    IN  /\ \A i \in DOMAIN props :
             IF Has(v, props[i][1]) THEN Meets(props[i][2], Get(v, props[i][1]), v) ELSE IsOptional(props[i][2])
        /\ v[1] = "obj" => \A i \in DOMAIN v[2] : v[2][i][1] \notin named => MeetsExtra(s, v[2][i][2], v)

MeetsItems(s, v) ==
    LET arg == s["items"]
    IN  v[1] = "arr" =>
          IF arg[1] = "list"
          THEN /\ Len(v[2]) >= Len(arg[2])
               /\ \A i \in DOMAIN v[2] : IF i <= Len(arg[2]) THEN MeetsArg(arg[2][i], v[2][i], v) ELSE MeetsExtra(s, v[2][i], v)
          ELSE \A i \in DOMAIN v[2] : Meets(arg[2], v[2][i], v)

MeetsLimits(s, v) ==
    /\ v[1] \in {"int", "dec"} =>
         /\ "minimum" \in DOMAIN s =>
              \/ ExactValue(v) > ExactValue(s["minimum"])
              \/ ExactValue(v) = ExactValue(s["minimum"]) /\ ("minimumCanEqual" \in DOMAIN s => s["minimumCanEqual"])
         /\ "maximum" \in DOMAIN s =>
              \/ ExactValue(v) < ExactValue(s["maximum"])
              \/ ExactValue(v) = ExactValue(s["maximum"]) /\ ("maximumCanEqual" \in DOMAIN s => s["maximumCanEqual"])
         /\ "divisibleBy" \in DOMAIN s => s["divisibleBy"] # 0 /\ ExactValue(v) % (s["divisibleBy"] * Numerator) = 0
    /\ v[1] = "arr" =>
         /\ "minItems" \in DOMAIN s => Len(v[2]) >= s["minItems"]
         /\ "maxItems" \in DOMAIN s => Len(v[2]) <= s["maxItems"]
         /\ "uniqueItems" \in DOMAIN s /\ s["uniqueItems"] => \A i, j \in DOMAIN v[2] : v[2][i] = v[2][j] => i = j
    /\ v[1] = "str" =>
         /\ "minLength" \in DOMAIN s => Len(v[2]) >= s["minLength"]
         /\ "maxLength" \in DOMAIN s => Len(v[2]) <= s["maxLength"]

\* All that the schema asks of a value, each key for itself.
Meets(s, v, parent) ==
    /\ {"properties", "additionalProperties"} \cap DOMAIN s # {} => MeetsProps(s, v)
    /\ "type" \in DOMAIN s => MeetsArg(s["type"], v, parent)
    /\ "disallow" \in DOMAIN s => ~MeetsArg(s["disallow"], v, parent)
    /\ "items" \in DOMAIN s => MeetsItems(s, v)
    /\ "pattern" \in DOMAIN s => v \in s["pattern"]
    /\ "requires" \in DOMAIN s => Has(parent, s["requires"])
    /\ "enum" \in DOMAIN s => \E i \in DOMAIN s["enum"] : s["enum"][i] = v
    /\ MeetsLimits(s, v)

RECURSIVE Representable(_)

\* No integer in the object is beyond what a decimal can hold.
Representable(v) ==
    CASE v[1] = "int" -> Wrap(v[2] * Numerator) = v[2] * Numerator
      [] v[1] = "arr" -> \A i \in DOMAIN v[2] : Representable(v[2][i])
      [] v[1] = "obj" -> \A i \in DOMAIN v[2] : Representable(v[2][i][2])
      [] OTHER -> TRUE

\* A put is answered as the schema in force asks, each of its keys taken for
\* itself, whatever order the rules run in and wherever they nest (an integer
\* too large for a decimal is compared wrongly with a minimum or maximum).
SchemaExact ==
    \A a \in answered : rule # NoSchema /\ Representable(a[1]) => a[2] = Meets(rule, a[1], Undefined)

\* While the stored kind has a schema, it is that schema that objects are
\* held to: after a put of the kind that failed, and after a restart.  (A kind
\* put without a schema keeps the old one in force until the next restart.)
SchemaInForce == stored # NoSchema => rule = stored
=============================================================================
