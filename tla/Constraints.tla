----------------------------- MODULE Constraints -----------------------------
(***************************************************************************)
(* The schema of one field, and what it says of the field's values.        *)
(* schemaForField of src/generator/openapi.go writes the base schema,      *)
(* applyValidation of validate.go adds keywords for the rules of           *)
(* protoc-gen-validate (PGV), and the ogen.field options are written over  *)
(* both.  The second half says what the rules allow (PGV), what the schema *)
(* admits (JSON Schema) and what the converters make of a value on its way *)
(* (src/convert), so that the two can be compared.  A field may also be    *)
(* left out of the JSON object, or be null: the service then sees its zero *)
(* value, whatever the rules say of that.                                  *)
(*                                                                         *)
(* A schema is a partial function from keywords to their values.  Numbers  *)
(* of any kind are integers, strings are sequences, bytes are their number *)
(* and an enum value is its number.  `beyond` is what the rules that are   *)
(* never read refuse (not_in of numbers and strings, not_contains, lengths *)
(* in bytes, const, in and affixes of bytes; all rules of timestamps,      *)
(* durations and Any, where refusing None is `required`).  A pattern is    *)
(* the set of strings it matches.                                          *)
(*                                                                         *)
(* A field has a `presence` of its own if it is declared optional or is a  *)
(* wrapper (google.protobuf.StringValue and its like).  `enumJson`,        *)
(* `format` and `nullable` are the options of ogen.field, `requiredOption` *)
(* its required, or message.required beside rules of another type.         *)
(***************************************************************************)
EXTENDS Integers, FiniteSets, SequencesExt

CONSTANTS
  None,         \* a rule or an option that is not set, a field without a value
  Chars,        \* the characters of strings
  Fields,       \* the fields considered, see FieldOK
  Scalars(_),   \* the values of a field of a kind
  EnumValues,   \* the numbers that the enum declares
  Conforming,   \* the strings of each well-known format
  Spellings,    \* ways of writing a key that is no string: "plain", others, "word"
  MaxSize       \* bound of the lists and maps that are compared

Numbers == {"int32", "uint32", "double", "int64", "uint64"}
Wide == {"int64", "uint64"}
Kinds == Numbers \cup {"bool", "string", "bytes", "enum", "time", "message"}
Labels == {"one", "list", "map"}
KeyKinds == {"int32", "uint32", "int64", "uint64", "bool", "string"}

NumberRules ==
  [type: {"number"}, const: Int \cup {None}, in: SUBSET Int,
   lt: Int \cup {None}, lte: Int \cup {None}, gt: Int \cup {None}, gte: Int \cup {None},
   beyond: SUBSET Int, ignoreEmpty: BOOLEAN]

Lower(r) == IF r.gt # None THEN r.gt ELSE r.gte
Upper(r) == IF r.lt # None THEN r.lt ELSE r.lte

(* What PGV accepts: one bound on each side, not equal, and const alone.   *)
NumberRulesOK(r) ==
  /\ r \in NumberRules
  /\ None \in {r.gt, r.gte} /\ None \in {r.lt, r.lte}
  /\ Lower(r) # None => Lower(r) # Upper(r)
  /\ r.const # None => r.in = {} /\ Lower(r) = None /\ Upper(r) = None

Length == {None} \cup Nat

BoolRules == [type: {"bool"}, const: {None} \cup BOOLEAN]

StringRules ==
  [type: {"string"}, const: {None} \cup Seq(Chars), in: SUBSET Seq(Chars),
   len: Length, minLen: Length, maxLen: Length, pattern: {None} \cup SUBSET Seq(Chars),
   prefix: Seq(Chars), suffix: Seq(Chars), contains: Seq(Chars),
   wellKnown: {None} \cup DOMAIN Conforming, beyond: SUBSET Seq(Chars), ignoreEmpty: BOOLEAN]

(* A length excludes a minimum and a maximum.                              *)
StringRulesOK(r) ==
  r \in StringRules /\ (r.len # None => r.minLen = None /\ r.maxLen = None)

BytesRules ==
  [type: {"bytes"}, len: Length, minLen: Length, maxLen: Length,
   pattern: {None} \cup SUBSET Nat, beyond: SUBSET Nat, ignoreEmpty: BOOLEAN]

EnumRules == [type: {"enum"}, const: {None} \cup Int, in: SUBSET Int, notIn: SUBSET Int]

MessageRules == [type: {"message"}, required: BOOLEAN]

UnreadRules == [type: {"unread"}, beyond: SUBSET (Scalars("time") \cup {None})]

(* Rules are of the type of what they are for.                             *)
RulesOK(r, k) ==
  \/ r = None
  \/ k \in Numbers /\ NumberRulesOK(r)
  \/ k = "bool" /\ r \in BoolRules
  \/ k = "string" /\ StringRulesOK(r)
  \/ k = "bytes" /\ r \in BytesRules
  \/ k = "enum" /\ r \in EnumRules
  \/ k = "message" /\ r \in MessageRules
  \/ k = "time" /\ r \in UnreadRules

FieldOK(f) ==
  /\ f.kind \in Kinds /\ f.label \in Labels /\ f.version \in {"3.0", "3.1"}
  /\ f.key \in KeyKinds
  /\ f.label = "one" => RulesOK(f.rules, f.kind)
  /\ f.label # "one" /\ f.rules # None =>
       /\ f.rules.type = f.label /\ f.rules.min \in Length /\ f.rules.max \in Length
       /\ RulesOK(f.rules.elem, f.kind)
       /\ f.label = "map" => RulesOK(f.rules.keys, f.key)
  /\ f.presence \in {"none", "optional", "wrapper"}
  /\ f.presence # "none" => f.label = "one" /\ f.kind \notin {"message", "time"}
  /\ f.presence = "wrapper" => f.kind # "enum"
  /\ f.enumJson # None => f.label = "one"
  /\ f.format # None =>
       f.label = "one" /\ f.kind = "string" /\ f.format \in DOMAIN Conforming \ {"address"}
  /\ f.nullable \in {None} \cup BOOLEAN
  /\ f.nullable # None =>
       f.label = "one" /\ f.kind # "message" /\ (f.kind = "bytes" => f.presence = "wrapper")

(* The numbers of a type.                                                  *)
NumbersOf(k) == IF k \in {"uint32", "uint64"} THEN Nat ELSE Int

ASSUME ConstraintsAssumption ==
  /\ \A f \in Fields : FieldOK(f)
  /\ None \notin Int /\ None \notin BOOLEAN
  /\ None \notin NumberRules /\ None \notin BoolRules
  /\ None \notin StringRules /\ None \notin EnumRules

(* The values that are compared are of their types, and None is no value.  *)
ASSUME ScalarsAssumption ==
  /\ \A k \in Numbers : Scalars(k) \subseteq NumbersOf(k)
  /\ Scalars("bool") \subseteq BOOLEAN /\ Scalars("string") \subseteq Seq(Chars)
  /\ Scalars("bytes") \subseteq Nat /\ Scalars("enum") \subseteq EnumValues
  /\ \A k \in Kinds : None \notin Scalars(k)
  /\ MaxSize \in Nat

VARIABLES
  field,      \* the field
  phase,      \* where the rendering of the field is
  schema,     \* its schema, but for nullable
  nullable,   \* the keyword nullable of the schema
  elem,       \* the schema under items or additionalProperties
  names,      \* the schema under propertyNames
  required    \* whether the message lists the field as required

vars == <<field, phase, schema, nullable, elem, names, required>>

Put(s, keyword, v) ==
  [k \in DOMAIN s \cup {keyword} |-> IF k = keyword THEN v ELSE s[k]]

Empty == [k \in {} |-> None]

Has(s, keyword) == keyword \in DOMAIN s

-----------------------------------------------------------------------------
(* JSON, and how a value is written.                                       *)
Number(n) == [json |-> "number", of |-> n]
String(s) == [json |-> "string", of |-> s]
Bool(b) == [json |-> "boolean", of |-> b]

Json(k, asString, v) ==
  CASE k = "bool" -> Bool(v)
    [] k \in Wide \cup {"string", "bytes", "time"} -> String(v)
    [] k = "enum" /\ asString -> String(v)
    [] OTHER -> Number(v)

EnumSchema(asString) ==
  [type |-> IF asString THEN "string" ELSE "number",
   enum |-> {Json("enum", asString, v) : v \in EnumValues}]

(* The base schema of one value.  A message is a reference.                *)
ScalarSchema(k, asString) ==
  CASE k \in {"int32", "double"} -> [type |-> "number"]
    [] k = "uint32" -> [type |-> "number", minimum |-> 0]
    [] k = "bool" -> [type |-> "boolean"]
    [] k = "enum" -> EnumSchema(asString)
    [] k = "message" -> [ref |-> TRUE]
    [] OTHER -> [type |-> "string"]

-----------------------------------------------------------------------------
(* From rules to keywords.                                                 *)

(* Faulty variant of SetBound: the exclusive bound of OpenAPI 3.1 only.    *)
SetBound31Only(s, inclusive, exclusive, v, strict, version) ==
  IF v = None THEN s
  ELSE IF strict THEN Put(s, exclusive, IF version = "3.1" THEN v ELSE TRUE)
  ELSE Put(s, inclusive, v)

(* OpenAPI 3.0 marks a bound as exclusive, 3.1 has a keyword for it.       *)
SetBound(s, inclusive, exclusive, v, strict, version) ==
  IF v = None THEN s
  ELSE IF ~strict THEN Put(s, inclusive, v)
  ELSE IF version = "3.1" THEN Put(s, exclusive, v)
  ELSE Put(Put(s, inclusive, v), exclusive, TRUE)

ApplyIn(s, values) == IF values = {} THEN s ELSE Put(s, "enum", values)

ApplyNumericRules(s, r, version) ==
  LET a == SetBound(s, "minimum", "exclusiveMinimum", r.gte, FALSE, version)
      b == SetBound(a, "minimum", "exclusiveMinimum", r.gt, TRUE, version)
      c == SetBound(b, "maximum", "exclusiveMaximum", r.lte, FALSE, version)
      d == SetBound(c, "maximum", "exclusiveMaximum", r.lt, TRUE, version)
  IN  IF r.const # None THEN Put(s, "enum", {Number(r.const)})
      ELSE ApplyIn(d, {Number(n) : n \in r.in})

PutIfSet(s, keyword, v) == IF v = None THEN s ELSE Put(s, keyword, v)

ApplyLengths(s, r) ==
  PutIfSet(PutIfSet(PutIfSet(PutIfSet(s,
    "minLength", r.len), "maxLength", r.len), "minLength", r.minLen), "maxLength", r.maxLen)

(* One anchored expression: the prefix, anything, the suffix.              *)
AffixPattern(r) == [prefix |-> r.prefix, suffix |-> r.suffix, contains |-> r.contains]

ApplyPattern(s, r) ==
  IF r.pattern # None THEN Put(s, "pattern", [matches |-> r.pattern])
  ELSE IF r.prefix = <<>> /\ r.suffix = <<>> /\ r.contains = <<>> THEN s
  ELSE Put(s, "pattern", AffixPattern(r))

(* An address, host name or ip, has no format of OpenAPI.                  *)
StringFormat(r) == IF r.wellKnown = "address" THEN None ELSE r.wellKnown

ApplyStringRules(s, r) ==
  LET b == ApplyIn(ApplyPattern(ApplyLengths(s, r), r), {String(v) : v \in r.in})
  IN  IF r.const # None THEN Put(s, "enum", {String(r.const)})
      ELSE IF Has(b, "format") THEN b ELSE PutIfSet(b, "format", StringFormat(r))

ApplyBytesRules(s, r) ==
  LET a == ApplyLengths(s, r)
  IN  IF r.pattern = None THEN a ELSE Put(a, "pattern", [matches |-> r.pattern])

(* Faulty variant of ApplyEnumRules: the values are written as numbers.    *)
ApplyEnumRulesAsNumbers(s, r, asString) ==
  IF r.const = None /\ r.in = {} /\ r.notIn = {} THEN s
  ELSE Put(s, "enum", {Number(v) : v \in {e \in EnumValues :
         IF r.const # None THEN e = r.const ELSE (r.in # {} => e \in r.in) /\ e \notin r.notIn}})

ApplyEnumRules(s, r, asString) ==
  LET allowed == {v \in EnumValues :
                    IF r.const # None THEN v = r.const
                    ELSE (r.in # {} => v \in r.in) /\ v \notin r.notIn}
  IN  IF r.const = None /\ r.in = {} /\ r.notIn = {} THEN s
      ELSE Put(s, "enum", {Json("enum", asString, v) : v \in allowed})

(* The rules of one value, of an item, or of a key or value of a map.      *)
ApplyFieldRules(s, r, asString, version) ==
  IF r = None THEN s ELSE
  CASE r.type = "number" -> ApplyNumericRules(s, r, version)
    [] r.type = "bool" -> IF r.const = None THEN s ELSE Put(s, "enum", {Bool(r.const)})
    [] r.type = "string" -> ApplyStringRules(s, r)
    [] r.type = "bytes" -> ApplyBytesRules(s, r)
    [] r.type = "enum" -> ApplyEnumRules(s, r, asString)
    [] OTHER -> s

-----------------------------------------------------------------------------
Init ==
  /\ field \in Fields
  /\ phase = "field"
  /\ schema = Empty /\ elem = Empty /\ names = Empty
  /\ nullable = None /\ required = FALSE

(* The value of a map is a field of its own, without options.             *)
AsString == field.label # "map" /\ field.enumAsString

SchemaForField ==
  /\ phase = "field"
  /\ phase' = "rules"
  /\ nullable' = IF field.presence = "wrapper" THEN TRUE ELSE None
  /\ IF field.label = "one"
     THEN schema' = ScalarSchema(field.kind, AsString) /\ UNCHANGED elem
     ELSE /\ schema' = [type |-> IF field.label = "list" THEN "array" ELSE "object"]
          /\ elem' = ScalarSchema(field.kind, AsString)
  /\ UNCHANGED <<field, names, required>>

ApplyValidation ==
  /\ phase = "rules" /\ field.label = "one"
  /\ phase' = "options"
  /\ schema' = ApplyFieldRules(schema, field.rules, AsString, field.version)
  /\ UNCHANGED <<field, nullable, elem, names, required>>

NoValidation ==
  /\ phase = "rules" /\ field.label # "one" /\ field.rules = None
  /\ phase' = "options"
  /\ UNCHANGED <<field, schema, nullable, elem, names, required>>

ApplyRepeatedRules ==
  /\ phase = "rules" /\ field.label = "list" /\ field.rules # None
  /\ phase' = "options"
  /\ LET sizes == PutIfSet(PutIfSet(schema, "minItems", field.rules.min),
                           "maxItems", field.rules.max)
     IN  schema' = IF field.rules.unique THEN Put(sizes, "uniqueItems", TRUE) ELSE sizes
  /\ elem' = ApplyFieldRules(elem, field.rules.elem, AsString, field.version)
  /\ UNCHANGED <<field, nullable, names, required>>

(* Only OpenAPI 3.1 can say something of keys.                             *)
ApplyMapRules ==
  /\ phase = "rules" /\ field.label = "map" /\ field.rules # None
  /\ phase' = "options"
  /\ schema' = PutIfSet(PutIfSet(schema, "minProperties", field.rules.min),
                        "maxProperties", field.rules.max)
  /\ elem' = ApplyFieldRules(elem, field.rules.elem, AsString, field.version)
  /\ names' = IF field.version = "3.1"
              THEN ApplyFieldRules(names, field.rules.keys, FALSE, field.version)
              ELSE names
  /\ UNCHANGED <<field, nullable, required>>

(* The field's own options replace what the base and the rules wrote.      *)
ApplySchemaOptions ==
  /\ phase = "options"
  /\ phase' = "required"
  /\ schema' = PutIfSet(PutIfSet(schema, "enum", field.enumJson), "format", field.format)
  /\ nullable' = IF field.nullable = None THEN nullable ELSE field.nullable
  /\ UNCHANGED <<field, elem, names, required>>

(* A list or a map has rules of another type than a message has.           *)
ValidateRequired ==
  field.rules # None /\ field.rules.type = "message" /\ field.rules.required

FieldRequired ==
  /\ phase = "required"
  /\ phase' = "done"
  /\ required' = (field.requiredOption \/ ValidateRequired)
  /\ UNCHANGED <<field, schema, nullable, elem, names>>

Next ==
  \/ SchemaForField \/ ApplyValidation \/ NoValidation
  \/ ApplyRepeatedRules \/ ApplyMapRules
  \/ ApplySchemaOptions \/ FieldRequired

Spec == Init /\ [][Next]_vars

-----------------------------------------------------------------------------
(* What the rules allow.  Bounds in reverse mean what lies outside them.   *)
Reversed(r) == None \notin {Lower(r), Upper(r)} /\ Upper(r) < Lower(r)

InRange(r, v) ==
  LET above == (r.gt # None => v > r.gt) /\ (r.gte # None => v >= r.gte)
      below == (r.lt # None => v < r.lt) /\ (r.lte # None => v <= r.lte)
  IN  IF Reversed(r) THEN above \/ below ELSE above /\ below

Within(n, least, most) == (least # None => n >= least) /\ (most # None => n <= most)

LengthsAllow(r, n) == (r.len # None => n = r.len) /\ Within(n, r.minLen, r.maxLen)

Occurs(part, v) == \E i, j \in 0 .. Len(v) : part = SubSeq(v, i + 1, j)

OneOfSet(r) == r.const # None \/ r.in # {}

OneOf(r, v) == (r.const # None => v = r.const) /\ (r.in # {} => v \in r.in)

Allows(r, v) ==
  IF r = None THEN TRUE ELSE
  CASE r.type = "number" ->
         \/ r.ignoreEmpty /\ v = 0
         \/ OneOf(r, v) /\ InRange(r, v) /\ v \notin r.beyond
    [] r.type = "bool" -> r.const # None => v = r.const
    [] r.type = "string" ->
         \/ r.ignoreEmpty /\ v = <<>>
         \/ /\ OneOf(r, v) /\ LengthsAllow(r, Len(v)) /\ v \notin r.beyond
            /\ r.pattern # None => v \in r.pattern
            /\ IsPrefix(r.prefix, v) /\ IsSuffix(r.suffix, v) /\ Occurs(r.contains, v)
            /\ r.wellKnown # None => v \in Conforming[r.wellKnown]
    [] r.type = "bytes" ->
         \/ r.ignoreEmpty /\ v = 0
         \/ /\ LengthsAllow(r, v) /\ v \notin r.beyond
            /\ r.pattern # None => v \in r.pattern
    [] r.type = "enum" -> OneOf(r, v) /\ v \notin r.notIn
    [] r.type = "message" -> r.required => v # None
    [] OTHER -> v \notin r.beyond

AllowsList(r, l) ==
  \/ r = None
  \/ r.ignoreEmpty /\ l = <<>>
  \/ /\ Within(Len(l), r.min, r.max)
     /\ r.unique => \A i, j \in DOMAIN l : l[i] = l[j] => i = j
     /\ \A i \in DOMAIN l : Allows(r.elem, l[i])

AllowsMap(r, m) ==
  \/ r = None
  \/ r.ignoreEmpty /\ DOMAIN m = {}
  \/ /\ Within(Cardinality(DOMAIN m), r.min, r.max)
     /\ \A k \in DOMAIN m : Allows(r.keys, k) /\ Allows(r.elem, m[k])

(* The enum option takes the place of const and in, the format option that *)
(* of a well-known rule: options win over rules.                           *)
WithoutEnum(r) ==
  IF r = None \/ r.type \in {"message", "unread"} THEN r
  ELSE CASE r.type \in {"number", "string"} -> [r EXCEPT !.const = None, !.in = {}]
         [] r.type = "bool" -> [r EXCEPT !.const = None]
         [] r.type = "enum" -> [r EXCEPT !.const = None, !.in = {}, !.notIn = {}]
         [] OTHER -> r

WithoutFormat(r) ==
  IF r # None /\ r.type = "string" THEN [r EXCEPT !.wellKnown = None] ELSE r

Overridden(r) ==
  LET q == IF field.format = None THEN r ELSE WithoutFormat(r)
  IN  IF field.enumJson = None THEN q ELSE WithoutEnum(q)

(* Whether a JSON value is one of an enum keyword.                         *)
Listed(values, j) == \E e \in values : e.json = j.json /\ e.of = j.of

(* A field with presence may be unset, and its rules then say nothing but  *)
(* required.                                                               *)
HasPresence == field.presence # "none" \/ field.kind \in {"message", "time"}

AllowsOne(v) ==
  IF v = None
  THEN ~field.requiredOption /\ (field.presence = "none" => Allows(field.rules, v))
  ELSE /\ Allows(Overridden(field.rules), v)
       /\ field.enumJson # None => Listed(field.enumJson, Json(field.kind, AsString, v))
       /\ field.format # None => v \in Conforming[field.format]

(* Whether the field may hold the value, by its rules and options.         *)
FieldAllows(v) ==
  CASE field.label = "list" -> AllowsList(field.rules, v)
    [] field.label = "map" -> AllowsMap(field.rules, v)
    [] field.label = "one" -> AllowsOne(v)

-----------------------------------------------------------------------------
(* What a schema admits.  Bytes are written in base64.                     *)
TextLength(k, v) == IF k = "bytes" THEN 4 * ((v + 2) \div 3) ELSE Len(v)

Matches(pattern, k, v) ==
  IF Has(pattern, "matches")
  THEN (IF k = "bytes" THEN TextLength(k, v) ELSE v) \in pattern.matches
  ELSE /\ IsPrefix(pattern.prefix, v) /\ IsSuffix(pattern.suffix, v)
       /\ Len(pattern.prefix) + Len(pattern.suffix) <= Len(v)
       /\ Occurs(pattern.contains, v)

AdmitsNumber(s, n, version) ==
  /\ Has(s, "minimum") => n >= s.minimum
  /\ Has(s, "maximum") => n <= s.maximum
  /\ IF version = "3.1"
     THEN /\ Has(s, "exclusiveMinimum") => n > s.exclusiveMinimum
          /\ Has(s, "exclusiveMaximum") => n < s.exclusiveMaximum
     ELSE /\ {"minimum", "exclusiveMinimum"} \subseteq DOMAIN s => n # s.minimum
          /\ {"maximum", "exclusiveMaximum"} \subseteq DOMAIN s => n # s.maximum

AdmitsText(s, k, v) ==
  /\ Has(s, "minLength") => TextLength(k, v) >= s.minLength
  /\ Has(s, "maxLength") => TextLength(k, v) <= s.maxLength
  /\ Has(s, "pattern") => Matches(s.pattern, k, v)
  /\ Has(s, "format") => v \in Conforming[s.format]

AdmitsJson(s, k, j, version) ==
  /\ Has(s, "type") => j.json = s.type
  /\ Has(s, "enum") => Listed(s.enum, j)
  /\ j.json = "number" => AdmitsNumber(s, j.of, version)
  /\ j.json = "string" => AdmitsText(s, k, j.of)

SizeAdmits(s, n, least, most) ==
  (Has(s, least) => n >= s[least]) /\ (Has(s, most) => n <= s[most])

AdmitsElem(v) == AdmitsJson(elem, field.kind, Json(field.kind, AsString, v), field.version)

AdmitsKey(text) == AdmitsJson(names, field.key, String(text), field.version)

ValueAdmits(x) ==
  CASE field.label = "list" ->
         /\ SizeAdmits(schema, Len(x), "minItems", "maxItems")
         /\ Has(schema, "uniqueItems") => \A i, j \in DOMAIN x : x[i] = x[j] => i = j
         /\ \A i \in DOMAIN x : AdmitsElem(x[i])
    [] field.label = "map" ->
         /\ SizeAdmits(schema, Cardinality(DOMAIN x), "minProperties", "maxProperties")
         /\ \A k \in DOMAIN x : AdmitsKey(k) /\ AdmitsElem(x[k])
    [] field.label = "one" ->
         AdmitsJson(schema, field.kind, Json(field.kind, AsString, x), field.version)

(* The forms of a field in a JSON object: it is not there, it is null, or  *)
(* it has a value.                                                         *)
Absent == [is |-> "absent"]
Null == [is |-> "null"]
Written(x) == [is |-> "value", of |-> x]

(* Whether the document admits the field, in the form it has.  Null is     *)
(* admitted where nullable says so, in both versions, as ogen reads it.    *)
FieldAdmits(w) ==
  CASE w.is = "absent" -> ~required
    [] w.is = "null" -> nullable = TRUE
    [] w.is = "value" -> ValueAdmits(w.of)

-----------------------------------------------------------------------------
(* The converters: a key that is not a string is formatted on the way out  *)
(* and parsed on the way in, everything else is copied one to one.  Which  *)
(* of the entries that share a parsed key stays is Go's order of a map.    *)
KeyText(k) == IF field.key = "string" THEN k ELSE <<k, "plain">>

MapKey(m) ==
  [text \in {KeyText(k) : k \in DOMAIN m} |->
     m[CHOOSE k \in DOMAIN m : KeyText(k) = text]]

Parsed(w) == {text[1] : text \in DOMAIN w}

MapKeyErr(w) ==
  IF \E text \in DOMAIN w : text[2] = "word" THEN {}
  ELSE {m \in [Parsed(w) -> {w[text] : text \in DOMAIN w}] :
          \A k \in Parsed(w) : \E text \in DOMAIN w : text[1] = k /\ m[k] = w[text]}

(* What may be written of a value.  A nil slice is an empty list too, and  *)
(* is not written.  Optional bytes are a slice of ogen without presence.   *)
ToOgen(v) ==
  CASE field.label = "list" -> {Written(v)} \cup (IF v = <<>> THEN {Absent} ELSE {})
    [] field.label = "map" -> {Written(MapKey(v))}
    [] field.label = "one" ->
         IF v # None THEN {Written(v)}
         ELSE IF field.kind = "bytes" /\ field.presence = "optional" THEN {Written(0)}
         ELSE {Absent}

(* What the service sees of a field that the converter does not set.       *)
Zero ==
  CASE field.label = "list" -> <<>>
    [] field.label = "map" -> Empty
    [] field.label = "one" ->
         IF HasPresence THEN None
         ELSE IF field.kind = "bool" THEN FALSE
         ELSE IF field.kind = "string" THEN <<>>
         ELSE 0

(* What the converter may make of it; nothing, if it fails.                *)
FromOgen(w) ==
  IF w.is # "value" THEN {Zero}
  ELSE IF field.label = "map" /\ field.key # "string" THEN MapKeyErr(w.of)
  ELSE {w.of}

MapsFrom(keys) ==
  UNION {[K -> Scalars(field.kind)] :
           K \in {S \in SUBSET keys : IsFiniteSet(S) /\ Cardinality(S) <= MaxSize}}

Texts == IF field.key = "string" THEN Scalars("string")
         ELSE Scalars(field.key) \X Spellings

Shapes(keys) ==
  CASE field.label = "list" -> BoundedSeq(Scalars(field.kind), MaxSize)
    [] field.label = "map" -> MapsFrom(keys)
    [] field.label = "one" -> Scalars(field.kind)

(* The values of the field for the service, and its forms in JSON.         *)
Values ==
  Shapes(Scalars(field.key)) \cup
    (IF field.label = "one" /\ HasPresence THEN {None} ELSE {})

Forms == {Absent, Null} \cup {Written(x) : x \in Shapes(Texts)}

-----------------------------------------------------------------------------
(* Where the keywords cannot say, or do not say, what the rules do.        *)

(* Bounds in reverse are written as an empty range; the const of a 64-bit  *)
(* number or of a key is compared with a string; a prefix and a suffix may *)
(* overlap; bytes are counted in base64; ignore_empty is not read.         *)
Tightened(r, k) ==
  IF r = None THEN FALSE ELSE
  CASE r.type = "number" ->
         \/ r.ignoreEmpty
         \/ Reversed(r) /\ k \notin Wide
         \/ OneOfSet(r) /\ k \in Wide
    [] r.type = "string" ->
         \/ r.ignoreEmpty
         \/ r.pattern = None /\ <<>> \notin {r.prefix, r.suffix}
    [] r.type = "bytes" ->
         r.ignoreEmpty \/ r.pattern # None \/ r.len # None \/ r.maxLen # None
    [] r.type = "bool" -> r.const # None /\ k # "bool"
    [] OTHER -> FALSE

(* A rule is never read; a 64-bit number has bounds on its string; const,  *)
(* or a pattern, hides the rules beside it.                                *)
Loosened(r, k) ==
  IF r = None THEN FALSE ELSE
  CASE r.type = "number" ->
         \/ r.beyond # {}
         \/ {Lower(r), Upper(r)} # {None} /\ k \in Wide
    [] r.type = "string" ->
         \/ r.beyond # {} \/ r.wellKnown = "address"
         \/ r.const # None /\ ~Allows(r, r.const)
         \/ r.pattern # None /\ {r.prefix, r.suffix, r.contains} # {<<>>}
    [] r.type = "bytes" ->
         r.beyond # {} \/ r.pattern # None \/ r.len # None \/ r.minLen # None
    [] r.type = "enum" -> r.const # None /\ ~Allows(r, r.const)
    [] r.type = "unread" -> TRUE
    [] OTHER -> FALSE

(* Keys are strings in JSON, as 64-bit numbers are.                        *)
KeyKind == IF field.key = "string" THEN "string" ELSE "int64"

(* Unset optional bytes are written as empty ones, and ogen's validators   *)
(* refuse the nil slice of a list that is required.                        *)
Stricter ==
  \/ field.label = "one" /\ field.kind = "bytes" /\ field.presence = "optional"
  \/ field.label = "list" /\ field.requiredOption /\ AllowsList(field.rules, <<>>)
  \/ field.label = "one" /\ Tightened(Overridden(field.rules), field.kind)
  \/ /\ field.label # "one" /\ field.rules # None
     /\ field.rules.ignoreEmpty \/ Tightened(field.rules.elem, field.kind)
  \/ /\ field.label = "map" /\ field.rules # None
     /\ field.version = "3.1" /\ Tightened(field.rules.keys, KeyKind)

(* A field that is not required may be left out, one that is nullable may  *)
(* be null, and no rule is checked of the zero value it then has.          *)
CanBeLeftOut ==
  \/ ~field.requiredOption /\ ~ValidateRequired
  \/ field.nullable = TRUE
  \/ field.nullable = None /\ field.presence = "wrapper"

Looser ==
  \/ CanBeLeftOut /\ ~FieldAllows(Zero)
  \/ /\ field.label = "one"
     /\ \/ Loosened(Overridden(field.rules), field.kind)
        \/ /\ field.enumJson # None /\ field.kind = "string"
           /\ field.rules # None /\ field.rules.const # None
  \/ /\ field.label # "one" /\ field.rules # None
     /\ Loosened(field.rules.elem, field.kind)
  \/ /\ field.label = "map" /\ field.rules # None
     /\ \/ field.rules.keys # None /\ field.version = "3.0"
        \/ Loosened(field.rules.keys, KeyKind)
        \/ field.key # "string" /\ field.rules.min # None

-----------------------------------------------------------------------------
(* What must hold *)

(* Every value that the rules of the field allow can be sent: the document *)
(* admits each form in which it may be written, and it is read back        *)
(* unchanged.  Rules and fields for which this fails are named by Stricter.*)
NeverRefuses ==
  phase = "done" /\ ~Stricter =>
    \A v \in Values :
      FieldAllows(v) => \A w \in ToOgen(v) : FieldAdmits(w) /\ FromOgen(w) = {v}

(* What the document admits, a field that is left out or null included,    *)
(* reaches the service as a value that the rules of the field allow, or    *)
(* not at all: ogen's validators stand for PGV's, that the server never    *)
(* runs.  Rules and fields for which they do not are named by Looser.      *)
NeverAdmits ==
  phase = "done" /\ ~Looser =>
    \A w \in Forms : FieldAdmits(w) => \A v \in FromOgen(w) : FieldAllows(v)
=============================================================================
