------------------------------ MODULE Payloads ------------------------------
(***************************************************************************)
(* The messages of the generated example (src/example/gen) in their three  *)
(* forms, and what the generated code does between them: the converters    *)
(* (ToOgen, FromOgen) between protobuf and ogen, the JSON codecs (Encode,  *)
(* Decode) between ogen and the wire, and the validators.                  *)
(*                                                                         *)
(* A message is a function from its JSON field names to classes of values. *)
(*   "zero"  the type's zero value        "good"  any other legal value    *)
(*   "bad"   of the field's type, but refused by the schema                *)
(*   "odd"   of another type or, in protobuf, without an ogen counterpart  *)
(* A field without a value is "nil" in protobuf; "unset" (an Opt), "null"  *)
(* (a null OptNil or raw JSON) or "nil" (a nil slice) in ogen; "absent" or *)
(* "null" on the wire.  "hollow" is a BytesValue around nil bytes.         *)
(*                                                                         *)
(* The kind of a field is the treatment that the generators gave it.       *)
(***************************************************************************)
EXTENDS Naturals

CONSTANTS
  None,    \* a nil message, an empty body
  Odd,     \* JSON that is not a document of the expected fields
  Failed   \* an error instead of a value

Classes == {"nil", "hollow", "unset", "null", "absent", "zero", "good", "bad", "odd"}

ASSUME PayloadsAssumption == \A m \in {None, Odd, Failed} : m \notin Classes

Required == {"plain", "uuid", "items"}            \* not an Opt, not a slice
Slices == {"list", "bytes", "json", "value", "items"}
Nullable == {"nilable", "url", "nilBytes"}        \* an OptNil
Implicit == {"opt", "enum", "variant"}            \* proto3 without presence
Enums == {"enum", "variant", "enums"}

(* What the fields of a zero struct hold.                                  *)
ZeroField(k) ==
  CASE k = "uuid" -> "good" [] k = "plain" -> "zero"
    [] k \in Slices \cup {"enums"} -> "nil"
    [] OTHER -> "unset"

ZeroStruct(kinds) == [f \in DOMAIN kinds |-> ZeroField(kinds[f])]

-----------------------------------------------------------------------------
(* What a field can hold: in ogen's struct, on the wire and in protobuf's  *)
(* struct.  "bad" is for the fields that the schema has rules for.         *)
OgenField(k) ==
  CASE k = "plain" -> {"zero", "good"}
    [] k = "uuid" -> {"good"}
    [] k \in {"uuidMember", "variant"} -> {"unset", "good"}
    [] k \in {"opt", "presence", "map", "capped", "mask", "enum"} -> {"unset", "zero", "good"}
    [] k = "nilBytes" -> {"unset", "null", "nil", "zero", "good"}
    [] k \in {"nilable", "url"} -> {"unset", "null", "zero", "good"}
    [] k \in {"list", "items", "bytes", "enums"} -> {"nil", "zero", "good"}
    [] k = "value" -> {"nil", "null", "zero", "good"}
    [] OTHER -> {"nil", "null", "zero", "good", "odd"}

WireField(k) ==
  {"absent", "null", "good"} \cup
  CASE k \in {"uuid", "uuidMember", "variant"} -> {"odd"}
    [] k = "value" -> {"zero"}
    [] OTHER -> {"zero", "odd"}

ProtoField(k) ==
  CASE k \in {"plain", "opt"} -> {"zero", "good"}
    [] k \in {"uuid", "enum", "variant"} -> {"zero", "good", "odd"}
    [] k \in {"presence", "nilable", "list", "map", "mask", "bytes"} -> {"nil", "zero", "good"}
    [] k = "nilBytes" -> {"nil", "hollow", "zero", "good"}
    [] k = "value" -> {"nil", "null", "zero", "good", "odd"}
    [] OTHER -> {"nil", "zero", "good", "odd"}

Structs(kinds) == [DOMAIN kinds -> Classes]

Breaks(m, f, ruled) == m[f] = "bad" /\ f \in ruled

OgenMessages(kinds, ruled) ==
  {m \in Structs(kinds) :
     \A f \in DOMAIN kinds : m[f] \in OgenField(kinds[f]) \/ Breaks(m, f, ruled)}

WireMessages(kinds, ruled) ==
  {m \in Structs(kinds) :
     \A f \in DOMAIN kinds : m[f] \in WireField(kinds[f]) \/ Breaks(m, f, ruled)}

ProtoMessages(kinds, ruled) ==
  {m \in Structs(kinds) :
     \A f \in DOMAIN kinds : m[f] \in ProtoField(kinds[f]) \/ Breaks(m, f, ruled)}

-----------------------------------------------------------------------------
(* Protobuf to ogen.  A uuid is parsed, an enum looked up (a variant has   *)
(* none for its zero value), a well-known JSON type marshalled.            *)
Converts(k, v) == v # "odd" /\ (v = "zero" => k \notin {"uuid", "uuidMember", "variant"})

(* Faulty variant of ToOgenField: an absent field is set as well.          *)
ToOgenAlwaysSet(k, v) ==
  IF v # "nil" THEN v ELSE IF k \in Slices THEN "nil" ELSE "zero"

(* A map is set even when it is nil; a list keeps its nil.                 *)
ToOgenField(k, v) ==
  IF v # "nil" THEN (IF v = "hollow" THEN "nil" ELSE v)
  ELSE CASE k \in {"map", "capped"} -> "zero"
         [] k \in Slices \cup {"enums"} -> "nil"
         [] OTHER -> "unset"

ToOgen(kinds, src) ==
  IF \A f \in DOMAIN kinds : Converts(kinds[f], src[f])
  THEN [f \in DOMAIN kinds |-> ToOgenField(kinds[f], src[f])]
  ELSE Failed

(* Ogen to protobuf.  A mask without paths is nil.                         *)
FromOgenField(k, v) ==
  IF v \in {"unset", "null", "nil"} THEN (IF k \in Implicit THEN "zero" ELSE "nil")
  ELSE IF v = "zero" /\ k = "mask" THEN "nil"
  ELSE v

(* Raw JSON is parsed here for the first time, an enum's string mapped.    *)
ConvertsBack(k, v) == v # "odd" /\ (v = "bad" => k \notin Enums)

FromOgen(kinds, src) ==
  IF \A f \in DOMAIN kinds : ConvertsBack(kinds[f], src[f])
  THEN [f \in DOMAIN kinds |-> FromOgenField(kinds[f], src[f])]
  ELSE Failed

(* A flattened oneof is assigned member by member: the last one set stays. *)
Overwritten(src, members, f) ==
  \E i, j \in DOMAIN members : i < j /\ members[i] = f /\ src[members[j]] # "unset"

-----------------------------------------------------------------------------
(* Ogen to the wire and back.  Base64 of nil bytes is null.                *)
EncodeField(k, v) ==
  CASE v = "unset" -> "absent"
    [] v = "nil" -> IF k \in {"bytes", "nilBytes"} THEN "null"
                    ELSE IF k = "items" THEN "zero" ELSE "absent"
    [] OTHER -> v

Encode(kinds, src) == [f \in DOMAIN kinds |-> EncodeField(kinds[f], src[f])]

(* Faulty variant of Decodes: null is never accepted.                      *)
DecodesNoNull(k, c) ==
  /\ c = "absent" => k \notin Required
  /\ c # "null"
  /\ c = "odd" => k \in {"json", "value"}
  /\ c = "bad" => k # "capped"

(* A capped map counts its entries here, not in Validate.                  *)
Decodes(k, c) ==
  /\ c = "absent" => k \notin Required
  /\ c = "null" => k \in Nullable \cup {"bytes", "json", "value"}
  /\ c = "odd" => k \in {"json", "value"}
  /\ c = "bad" => k # "capped"

DecodeField(k, c) ==
  CASE c = "absent" -> IF k \in Slices \cup {"enums"} THEN "nil" ELSE "unset"
    [] c = "null" /\ k = "bytes" -> "nil"
    [] OTHER -> c

Decode(kinds, j) ==
  IF j \notin {None, Odd, Failed} /\ \A f \in DOMAIN kinds : Decodes(kinds[f], j[f])
  THEN [f \in DOMAIN kinds |-> DecodeField(kinds[f], j[f])]
  ELSE Failed

(* The schema's constraints: the fields that have one, and those whose     *)
(* zero value breaks it.                                                   *)
Valid(v, checked, nonzero) ==
  /\ \A f \in checked : v[f] # "bad"
  /\ \A f \in nonzero : v[f] # "zero"

-----------------------------------------------------------------------------
(* Two fields are the same also when both are blank: without a value, or   *)
(* zero where the kind knows no presence; null is no value.                *)
HasPresence == {"presence", "plain", "uuidMember", "json", "value"} \cup Nullable

Blank(k, v) ==
  \/ v \in {"nil", "hollow", "unset", "null", "absent"}
  \/ v = "zero" /\ k \notin HasPresence

Same(k, v, w) == v = w \/ (Blank(k, v) /\ Blank(k, w))

SameMessage(kinds, x, y) == \A f \in DOMAIN kinds : Same(kinds[f], x[f], y[f])

(* A message as the document has it.  Raw JSON and bytes may be null.      *)
FieldsConform(kinds, nonzero, j) ==
  /\ j \notin {None, Odd}
  /\ \A f \in DOMAIN kinds :
       /\ j[f] \notin {"bad", "odd"}
       /\ j[f] = "absent" => kinds[f] \notin Required
       /\ j[f] = "null" => kinds[f] \in Nullable \cup {"json", "value", "bytes"}
       /\ f \in nonzero => j[f] # "zero"
=============================================================================
