---------------------------- MODULE MCConstraints ----------------------------
(* Small fields for Constraints: each kind of value with the rules of its   *)
(* type in all combinations that can matter, alone, in lists and in maps,   *)
(* with and without presence, and with the options that replace what the    *)
(* rules wrote, for both versions of OpenAPI.                               *)
EXTENDS Constraints

MCScalars(k) ==
  CASE k \in {"int32", "double", "int64"} -> -1 .. 4
    [] k \in {"uint32", "uint64"} -> 0 .. 4
    [] k = "bool" -> BOOLEAN
    [] k = "string" -> BoundedSeq(Chars, 3)
    [] k = "bytes" -> 0 .. 4
    [] k = "enum" -> 0 .. 2
    [] k = "time" -> 0 .. 2
    [] k = "message" -> {"some"}

MCEnumValues == 0 .. 2

MCConforming ==
  [x \in {"email", "uri", "address"} |->
     CASE x = "email" -> {<<"a", "b">>}
       [] x = "uri" -> {<<"b", "a">>, <<"a">>}
       [] x = "address" -> {<<"a">>, <<"b">>}]

NoNumberRules ==
  [type |-> "number", const |-> None, in |-> {}, lt |-> None, lte |-> None,
   gt |-> None, gte |-> None, beyond |-> {}, ignoreEmpty |-> FALSE]

Bounds == {None, 1, 3}

Ranges ==
  {r \in {[NoNumberRules EXCEPT !.lt = a, !.lte = b, !.gt = c, !.gte = d] :
            a, b, c, d \in Bounds} : NumberRulesOK(r)}

NumberFieldRules ==
  {[NoNumberRules EXCEPT !.const = n] : n \in {0, 1}}
  \cup {[r EXCEPT !.in = i, !.beyond = x, !.ignoreEmpty = e] :
          r \in Ranges, i \in {{}, {1, 2}}, x \in {{}, {2}}, e \in BOOLEAN}

NoStringRules ==
  [type |-> "string", const |-> None, in |-> {}, len |-> None, minLen |-> None,
   maxLen |-> None, pattern |-> None, prefix |-> <<>>, suffix |-> <<>>,
   contains |-> <<>>, wellKnown |-> None, beyond |-> {}, ignoreEmpty |-> FALSE]

Lengths == {<<None, None, None>>, <<2, None, None>>, <<None, 1, None>>,
            <<None, None, 2>>, <<None, 1, 2>>}

WithLength(r, l) == [r EXCEPT !.len = l[1], !.minLen = l[2], !.maxLen = l[3]]

StringFieldRules ==
  {WithLength([NoStringRules EXCEPT !.prefix = p, !.suffix = s, !.contains = c,
                 !.pattern = x, !.in = i], l) :
     p \in {<<>>, <<"a">>}, s \in {<<>>, <<"a">>, <<"a", "b">>}, c \in {<<>>, <<"b", "b">>},
     x \in {None, {<<"a">>, <<"a", "b">>, <<>>}}, i \in {{}, {<<"a">>, <<"b", "b">>}},
     l \in Lengths}
  \cup {[NoStringRules EXCEPT !.const = v, !.prefix = p, !.ignoreEmpty = e] :
          v \in {<<>>, <<"a">>, <<"b">>}, p \in {<<>>, <<"a">>}, e \in BOOLEAN}
  \cup {[NoStringRules EXCEPT !.wellKnown = w, !.beyond = x, !.minLen = m, !.ignoreEmpty = e] :
          w \in {None, "email", "address"}, x \in {{}, {<<"a">>}}, m \in {None, 1},
          e \in BOOLEAN}

BytesFieldRules ==
  {WithLength([type |-> "bytes", len |-> None, minLen |-> None, maxLen |-> None,
               pattern |-> p, beyond |-> x, ignoreEmpty |-> e], l) :
     p \in {None, {3, 4}}, x \in {{}, {1}}, e \in BOOLEAN,
     l \in Lengths \cup {<<4, None, None>>, <<None, 2, None>>}}

EnumFieldRules ==
  {[type |-> "enum", const |-> c, in |-> i, notIn |-> n] :
     c \in {None, 1}, i \in {{}, {0, 1}, {1, 2}}, n \in {{}, {0}, {1}}}

FieldRules(k) ==
  {None} \cup
  CASE k \in Numbers -> NumberFieldRules
    [] k = "bool" -> {[type |-> "bool", const |-> c] : c \in BOOLEAN \cup {None}}
    [] k = "string" -> StringFieldRules
    [] k = "bytes" -> BytesFieldRules
    [] k = "enum" -> EnumFieldRules
    [] k = "time" -> {[type |-> "unread", beyond |-> x] : x \in {{}, {1}, {None}}}
    [] k = "message" -> {[type |-> "message", required |-> b] : b \in BOOLEAN}

(* Of the rules of a type, some for what is inside lists and maps.         *)
ElemRules(k) ==
  {None} \cup
  CASE k \in Numbers -> {[NoNumberRules EXCEPT !.gt = 1], [NoNumberRules EXCEPT !.const = 1],
                         [NoNumberRules EXCEPT !.gt = 3, !.lt = 1]}
    [] k = "string" -> {[NoStringRules EXCEPT !.minLen = 1], [NoStringRules EXCEPT !.prefix = <<"a">>],
                        [NoStringRules EXCEPT !.beyond = {<<"a">>}]}
    [] k = "bytes" -> {WithLength([type |-> "bytes", len |-> None, minLen |-> None, maxLen |-> None,
                                   pattern |-> None, beyond |-> {}, ignoreEmpty |-> FALSE],
                                  <<None, n, None>>) : n \in {None, 1}}
    [] k = "enum" -> {[type |-> "enum", const |-> None, in |-> {}, notIn |-> {0}]}
    [] k = "bool" -> {[type |-> "bool", const |-> TRUE]}
    [] OTHER -> {}

Sizes == {<<None, None>>, <<1, None>>, <<None, 1>>, <<2, 2>>}

Field(v, k, label, key, s, r, j, q) ==
  [version |-> v, kind |-> k, label |-> label, key |-> key, enumAsString |-> s,
   rules |-> r, enumJson |-> j, requiredOption |-> q,
   presence |-> "none", format |-> None, nullable |-> None]

Versions == {"3.0", "3.1"}

Singles ==
  UNION {{Field(v, k, "one", "string", FALSE, r, None, FALSE) :
            v \in Versions, r \in FieldRules(k)} : k \in Kinds \ {"enum", "uint64"}}
  \cup {Field(v, "enum", "one", "string", s, r, None, FALSE) :
          v \in Versions, r \in FieldRules("enum"), s \in BOOLEAN}
  \cup UNION {{Field("3.1", k, "one", "string", FALSE, r, None, TRUE) :
                 r \in FieldRules(k)} : k \in {"message", "time", "int32", "bool"}}

(* A presence of its own, or null for a value.  The converter of a field   *)
(* that is optional and required, and never null, does not compile.        *)
Presences ==
  UNION {{f \in {[Field(v, k, "one", "string", FALSE, r, None, q)
                  EXCEPT !.presence = p, !.nullable = n] :
                    v \in Versions, r \in ElemRules(k), q \in BOOLEAN,
                    p \in {"none", "optional"} \cup (IF k = "enum" THEN {} ELSE {"wrapper"}),
                    n \in {None, TRUE, FALSE}} :
            f.presence = "optional" /\ f.requiredOption => f.nullable = TRUE} :
         k \in {"int32", "int64", "string", "bool", "enum"}}
  \cup {[Field("3.0", "bytes", "one", "string", FALSE, r, None, q) EXCEPT !.presence = p] :
          r \in ElemRules("bytes"), q \in BOOLEAN, p \in {"none", "optional", "wrapper"}}
  \cup {[Field("3.1", "time", "one", "string", FALSE, r, None, q) EXCEPT !.nullable = n] :
          r \in FieldRules("time"), q \in BOOLEAN, n \in BOOLEAN}

(* A format option over the rules, and with an enum option.                *)
Formatted ==
  {[Field(v, "string", "one", "string", FALSE, r, j, q) EXCEPT !.format = f] :
     v \in Versions, q \in BOOLEAN, f \in {"email", "uri"},
     j \in {None, {String(<<"a">>), String(<<"a", "b">>)}},
     r \in ElemRules("string") \cup
            {[NoStringRules EXCEPT !.const = c, !.wellKnown = w, !.minLen = m] :
               c \in {None, <<"a">>, <<"a", "b">>}, w \in {None, "email", "address"},
               m \in {None, 2}}}

(* An enum option over the rules.                                          *)
Overriding ==
  UNION {{Field(v, k, "one", "string", FALSE, r,
            {Json(k, FALSE, x) : x \in IF k = "string" THEN {<<"a">>, <<"b">>} ELSE {0, 2}}, FALSE) :
            v \in Versions,
            r \in ElemRules(k) \cup
                   IF k # "string" THEN {}
                   ELSE {[NoStringRules EXCEPT !.const = <<"a">>, !.prefix = <<"a">>]}} :
         k \in {"int32", "int64", "string", "enum"}}

Lists ==
  UNION {{Field(v, k, "list", "string", s, r, None, q) :
            v \in Versions, q \in BOOLEAN, s \in (IF k = "enum" THEN BOOLEAN ELSE {FALSE}),
            r \in {None} \cup
              {[type |-> "list", min |-> x[1], max |-> x[2], unique |-> u, elem |-> e,
                ignoreEmpty |-> g] :
               x \in Sizes, u \in BOOLEAN, e \in ElemRules(k), g \in BOOLEAN}} :
         k \in {"int32", "int64", "enum", "bytes"}}

Maps ==
  UNION {{Field(v, k, "map", key, TRUE, r, None, q) :
            v \in Versions, q \in BOOLEAN,
            r \in {None} \cup
              {[type |-> "map", min |-> x[1], max |-> x[2], keys |-> y, elem |-> e,
                ignoreEmpty |-> g] :
               x \in Sizes, y \in ElemRules(key), e \in ElemRules(k), g \in BOOLEAN}} :
         k \in {"enum", "bool", "int64"}, key \in {"string", "uint32", "bool"}}

MCFields == Singles \cup Presences \cup Overriding \cup Formatted \cup Lists \cup Maps
=============================================================================
