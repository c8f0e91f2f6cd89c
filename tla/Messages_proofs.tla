--------------------------- MODULE Messages_proofs ---------------------------
(***************************************************************************)
(* TLAPS proofs about Payloads and Messages: what the converters, codecs   *)
(* and validators of the generated example do to a message, whatever its   *)
(* fields and whatever they hold.                                          *)
(***************************************************************************)
EXTENDS Messages, TLAPS

-----------------------------------------------------------------------------
(* One field *)

\* Being the same is an equivalence.
LEMMA SameChain ==
  ASSUME NEW k, NEW u, NEW v, NEW w, Same(k, u, v), Same(k, v, w)
  PROVE  Same(k, u, w)
<1>1. CASE u = v
  BY <1>1
<1>2. CASE v = w
  BY <1>2
<1>3. CASE Blank(k, u) /\ Blank(k, w)
  BY <1>3 DEF Same
<1>. QED
  BY <1>1, <1>2, <1>3 DEF Same

\* No conversion of a field, and no codec, changes what it says.
LEMMA ToOgenSame == ASSUME NEW k, NEW v PROVE Same(k, v, ToOgenField(k, v))
<1>1. CASE v = "hollow"
  BY <1>1 DEF ToOgenField, Same, Blank
<1>2. CASE v \notin {"hollow", "nil"}
  BY <1>2 DEF ToOgenField, Same
<1>3. CASE v = "nil"
  <2>1. k \in {"map", "capped"} => ToOgenField(k, v) = "zero" /\ k \notin HasPresence
    BY <1>3 DEF ToOgenField, HasPresence, Nullable, Slices
  <2>2. k \notin {"map", "capped"} => ToOgenField(k, v) \in {"nil", "unset"}
    BY <1>3 DEF ToOgenField, Slices
  <2>. QED
    BY <1>3, <2>1, <2>2 DEF Same, Blank
<1>. QED
  BY <1>1, <1>2, <1>3

LEMMA FromOgenSame == ASSUME NEW k, NEW v PROVE Same(k, v, FromOgenField(k, v))
BY DEF FromOgenField, Same, Blank, HasPresence, Implicit, Nullable

LEMMA EncodeSame == ASSUME NEW k, NEW v PROVE Same(k, v, EncodeField(k, v))
BY DEF EncodeField, Same, Blank, HasPresence, Nullable

LEMMA DecodeSame == ASSUME NEW k, NEW v PROVE Same(k, v, DecodeField(k, v))
BY DEF DecodeField, Same, Blank, HasPresence

LEMMA WireSame ==
  ASSUME NEW k, NEW v PROVE Same(k, v, DecodeField(k, EncodeField(k, v)))
<1>. DEFINE c == EncodeField(k, v)
<1>1. Same(k, v, c) /\ Same(k, c, DecodeField(k, c))
  BY EncodeSame, DecodeSame
<1>. QED
  BY <1>1, SameChain

\* A refused value stays one, and nothing else becomes one.
LEMMA OgenRefused ==
  ASSUME NEW k, NEW v
  PROVE  /\ ToOgenField(k, v) = "bad" <=> v = "bad"
         /\ FromOgenField(k, v) = "bad" <=> v = "bad"
         /\ ToOgenField(k, v) = "odd" <=> v = "odd"
         /\ FromOgenField(k, v) = "odd" <=> v = "odd"
<1>1. ToOgenField(k, v) = v \/ (v \in {"hollow", "nil"}
                                 /\ ToOgenField(k, v) \in {"nil", "zero", "unset"})
  BY DEF ToOgenField
<1>2. FromOgenField(k, v) = v \/ (v \in {"unset", "null", "nil", "zero"}
                                   /\ FromOgenField(k, v) \in {"nil", "zero"})
  BY DEF FromOgenField
<1>. QED
  BY <1>1, <1>2

LEMMA WireRefused ==
  ASSUME NEW k, NEW v
  PROVE  /\ EncodeField(k, v) = "bad" <=> v = "bad"
         /\ DecodeField(k, v) = "bad" <=> v = "bad"
         /\ EncodeField(k, v) = "odd" <=> v = "odd"
         /\ DecodeField(k, v) = "odd" <=> v = "odd"
         /\ DecodeField(k, v) = "zero" <=> v = "zero"
         /\ k # "items" => (EncodeField(k, v) = "zero" <=> v = "zero")
<1>1. EncodeField(k, v) = v \/ (v \in {"unset", "nil"} /\
        EncodeField(k, v) \in {"absent", "null"} \cup (IF k = "items" THEN {"zero"} ELSE {}))
  BY DEF EncodeField
<1>2. DecodeField(k, v) = v \/ (v \in {"absent", "null"}
                                 /\ DecodeField(k, v) \in {"nil", "unset"})
  BY DEF DecodeField
<1>. QED
  BY <1>1, <1>2

\* The forms of a value are values.
LEMMA FieldClasses ==
  ASSUME NEW k, NEW v \in Classes
  PROVE  /\ ToOgenField(k, v) \in Classes /\ FromOgenField(k, v) \in Classes
         /\ EncodeField(k, v) \in Classes /\ DecodeField(k, v) \in Classes
BY DEF ToOgenField, FromOgenField, EncodeField, DecodeField, Classes

-----------------------------------------------------------------------------
(* A message of any type *)

\* The forms of a message are messages.
LEMMA Forms ==
  ASSUME NEW kinds, NEW m \in Structs(kinds)
  PROVE  /\ Encode(kinds, m) \in Structs(kinds)
         /\ Decode(kinds, m) # Failed => Decode(kinds, m) \in Structs(kinds)
         /\ ToOgen(kinds, m) # Failed => ToOgen(kinds, m) \in Structs(kinds)
         /\ FromOgen(kinds, m) # Failed => FromOgen(kinds, m) \in Structs(kinds)
<1>1. \A f \in DOMAIN kinds : m[f] \in Classes
  BY DEF Structs
<1>. QED
  BY <1>1, FieldClasses DEF Structs, Encode, Decode, ToOgen, FromOgen

\* A body that is decoded is a message whose fields all are.
LEMMA DecodedFields ==
  ASSUME NEW kinds, NEW j, Decode(kinds, j) # Failed
  PROVE  /\ j \notin {None, Odd, Failed}
         /\ \A f \in DOMAIN kinds :
              /\ Decodes(kinds[f], j[f])
              /\ Decode(kinds, j)[f] = DecodeField(kinds[f], j[f])
BY DEF Decode

LEMMA EncodedFields ==
  ASSUME NEW kinds, NEW m
  PROVE  \A f \in DOMAIN kinds : Encode(kinds, m)[f] = EncodeField(kinds[f], m[f])
BY DEF Encode

LEMMA ConvertedFields ==
  ASSUME NEW kinds, NEW m, FromOgen(kinds, m) # Failed
  PROVE  \A f \in DOMAIN kinds :
           /\ m[f] # "odd"
           /\ FromOgen(kinds, m)[f] = FromOgenField(kinds[f], m[f])
BY DEF FromOgen, ConvertsBack

\* What is decoded, is not refused by a rule and is converted conforms to the
\* document.
LEMMA AcceptedConforms ==
  ASSUME NEW kinds, NEW j, NEW nonzero, Decode(kinds, j) # Failed,
         \A f \in DOMAIN kinds :
           /\ Decode(kinds, j)[f] \notin {"bad", "odd"}
           /\ f \in nonzero => Decode(kinds, j)[f] # "zero"
  PROVE  FieldsConform(kinds, nonzero, j)
<1>1. ASSUME NEW f \in DOMAIN kinds
      PROVE  /\ j[f] \notin {"bad", "odd"}
             /\ j[f] = "absent" => kinds[f] \notin Required
             /\ j[f] = "null" => kinds[f] \in Nullable \cup {"json", "value", "bytes"}
             /\ f \in nonzero => j[f] # "zero"
  <2>1. Decodes(kinds[f], j[f]) /\ Decode(kinds, j)[f] = DecodeField(kinds[f], j[f])
    BY DecodedFields
  <2>. QED
    BY <2>1, WireRefused DEF Decodes
<1>. QED
  BY <1>1, DecodedFields DEF FieldsConform

\* And a message that conforms is decoded, to one that no rule refuses.
LEMMA ConformingDecodes ==
  ASSUME NEW kinds, NEW j \in Structs(kinds), NEW nonzero,
         FieldsConform(kinds, nonzero, j), Failed \notin Structs(kinds)
  PROVE  /\ Decode(kinds, j) \in Structs(kinds) /\ Decode(kinds, j) # Failed
         /\ \A f \in DOMAIN kinds :
              /\ Decode(kinds, j)[f] \notin {"bad", "odd"}
              /\ f \in nonzero => Decode(kinds, j)[f] # "zero"
<1>1. /\ j \notin {None, Odd, Failed}
      /\ \A f \in DOMAIN kinds : Decodes(kinds[f], j[f])
  BY DEF FieldsConform, Decodes
<1>2. Decode(kinds, j) = [f \in DOMAIN kinds |-> DecodeField(kinds[f], j[f])]
  BY <1>1 DEF Decode
<1>3. Decode(kinds, j) \in Structs(kinds)
  BY <1>2, FieldClasses DEF Structs
<1>. QED
  BY <1>2, <1>3, WireRefused DEF FieldsConform

\* A message that no rule refuses is converted.
LEMMA FlawlessConverts ==
  ASSUME NEW kinds, NEW m \in Structs(kinds), Failed \notin Structs(kinds),
         \A f \in DOMAIN kinds : m[f] \notin {"bad", "odd"}
  PROVE  FromOgen(kinds, m) \in Structs(kinds) /\ FromOgen(kinds, m) # Failed
<1>1. FromOgen(kinds, m) = [f \in DOMAIN kinds |-> FromOgenField(kinds[f], m[f])]
  BY DEF FromOgen, ConvertsBack
<1>. QED
  BY <1>1, FieldClasses DEF Structs

\* A body says what the message says that is decoded and converted from it.
LEMMA ReceivedSame ==
  ASSUME NEW kinds, NEW j, Decode(kinds, j) # Failed,
         FromOgen(kinds, Decode(kinds, j)) # Failed
  PROVE  SameMessage(kinds, j, FromOgen(kinds, Decode(kinds, j)))
<1>. DEFINE v == Decode(kinds, j)
            p == FromOgen(kinds, v)
<1>1. \A f \in DOMAIN kinds :
        v[f] = DecodeField(kinds[f], j[f]) /\ p[f] = FromOgenField(kinds[f], v[f])
  BY DecodedFields, ConvertedFields
<1>. HIDE DEF v, p
<1>2. ASSUME NEW f \in DOMAIN kinds PROVE Same(kinds[f], j[f], p[f])
  BY <1>1, DecodeSame, FromOgenSame, SameChain
<1>3. SameMessage(kinds, j, p)
  BY <1>2 DEF SameMessage
<1>. QED
  BY <1>3 DEF p, v

\* The wire says what the message does that is encoded.
LEMMA EncodedSame ==
  ASSUME NEW kinds, NEW m PROVE SameMessage(kinds, m, Encode(kinds, m))
BY EncodedFields, EncodeSame DEF SameMessage

LEMMA SameMessageChain ==
  ASSUME NEW kinds, NEW x, NEW y, NEW z, SameMessage(kinds, x, y), SameMessage(kinds, y, z)
  PROVE  SameMessage(kinds, x, z)
BY SameChain DEF SameMessage

\* What the server converts, validates and encodes the client decodes, to a
\* message that the same rules accept.
LEMMA SentIsRead ==
  ASSUME NEW kinds, NEW r, NEW checked, NEW nonzero,
         checked \subseteq DOMAIN kinds, nonzero \subseteq DOMAIN kinds,
         Valid(r, checked, nonzero), \A f \in nonzero : kinds[f] # "items",
         Encode(kinds, r) \in Structs(kinds), Failed \notin Structs(kinds),
         Encode(kinds, r) \notin {None, Odd},
         \A f \in DOMAIN kinds : Decodes(kinds[f], EncodeField(kinds[f], r[f]))
  PROVE  /\ Decode(kinds, Encode(kinds, r)) # Failed
         /\ Valid(Decode(kinds, Encode(kinds, r)), checked, nonzero)
         /\ SameMessage(kinds, r, Decode(kinds, Encode(kinds, r)))
<1>. DEFINE j == Encode(kinds, r)
            v == Decode(kinds, j)
<1>1. \A f \in DOMAIN kinds : j[f] = EncodeField(kinds[f], r[f])
  BY EncodedFields
<1>2. v = [f \in DOMAIN kinds |-> DecodeField(kinds[f], j[f])]
  BY <1>1 DEF Decode
<1>. HIDE DEF j
<1>3. \A f \in DOMAIN kinds : j[f] \in Classes
  BY DEF j, Structs
<1>4. v \in Structs(kinds)
  BY <1>2, <1>3, FieldClasses DEF Structs
<1>5. \A f \in DOMAIN kinds : v[f] = DecodeField(kinds[f], EncodeField(kinds[f], r[f]))
  BY <1>1, <1>2
<1>. HIDE DEF v
<1>6. Valid(v, checked, nonzero)
  BY <1>5, WireRefused DEF Valid
<1>7. SameMessage(kinds, r, v)
  BY <1>5, WireSame DEF SameMessage
<1>. QED
  BY <1>4, <1>6, <1>7 DEF v, j

-----------------------------------------------------------------------------
(* Messages on the wire *)

LEMMA WireClasses ==
  ASSUME NEW kinds, NEW ruled, NEW j \in WireMessages(kinds, ruled)
  PROVE  /\ j \in Structs(kinds)
         /\ \A f \in DOMAIN kinds :
              /\ j[f] \in {"absent", "null", "zero", "good", "odd", "bad"}
              /\ j[f] = "bad" => f \in ruled
<1>1. j \in Structs(kinds) /\ \A f \in DOMAIN kinds :
        j[f] \in WireField(kinds[f]) \/ Breaks(j, f, ruled)
  BY DEF WireMessages
<1>2. \A f \in DOMAIN kinds : WireField(kinds[f]) \subseteq {"absent", "null", "zero", "good", "odd"}
  BY DEF WireField
<1>. QED
  BY <1>1, <1>2 DEF Breaks

\* A message of the typed client goes on the wire as the document's types
\* allow.
LEMMA EncodedFieldWire ==
  ASSUME NEW k, NEW v \in OgenField(k)
  PROVE  EncodeField(k, v) \in WireField(k)
<1>1. CASE v \in {"unset", "nil"}
  <2>1. k \notin {"plain", "uuid"} /\ (k = "items" => v = "nil")
    BY <1>1 DEF OgenField
  <2>2. EncodeField(k, v) \in {"absent", "null"} \/ (k = "items" /\ EncodeField(k, v) = "zero")
    BY <1>1 DEF EncodeField
  <2>. QED
    BY <2>1, <2>2 DEF WireField
<1>2. CASE v \notin {"unset", "nil"}
  <2>1. EncodeField(k, v) = v
    BY <1>2 DEF EncodeField
  <2>2. v \in {"null", "good"} \/ (v = "zero" /\ k \notin {"uuid", "uuidMember", "variant"})
          \/ (v = "odd" /\ k \notin {"uuid", "uuidMember", "variant", "value"})
    BY <1>2 DEF OgenField
  <2>. QED
    BY <2>1, <2>2 DEF WireField
<1>. QED
  BY <1>1, <1>2

LEMMA EncodedWire ==
  ASSUME NEW kinds, NEW ruled, NEW m \in OgenMessages(kinds, ruled)
  PROVE  Encode(kinds, m) \in WireMessages(kinds, ruled)
<1>. DEFINE j == Encode(kinds, m)
<1>1. m \in Structs(kinds) /\ \A f \in DOMAIN kinds :
        m[f] \in OgenField(kinds[f]) \/ Breaks(m, f, ruled)
  BY DEF OgenMessages
<1>2. j \in Structs(kinds) /\ \A f \in DOMAIN kinds : j[f] = EncodeField(kinds[f], m[f])
  BY <1>1, Forms, EncodedFields
<1>. HIDE DEF j
<1>3. ASSUME NEW f \in DOMAIN kinds PROVE j[f] \in WireField(kinds[f]) \/ Breaks(j, f, ruled)
  BY <1>1, <1>2, EncodedFieldWire, WireRefused DEF Breaks
<1>4. j \in WireMessages(kinds, ruled)
  BY <1>2, <1>3 DEF WireMessages
<1>. QED
  BY <1>4 DEF j

\* A body that is no message is not decoded.
LEMMA NoMessageDecoded ==
  ASSUME NEW kinds, NEW j \in {None, Odd, Failed}
  PROVE  Decode(kinds, j) = Failed
BY DEF Decode

\* A body is decoded, validated and converted if it is what the document
\* describes, and only then.
LEMMA ReceivedConforms ==
  ASSUME NEW kinds, NEW ruled, NEW j \in {None, Odd} \cup WireMessages(kinds, ruled),
         NEW checked, NEW nonzero, checked \subseteq DOMAIN kinds, nonzero \subseteq DOMAIN kinds,
         \A f \in ruled : f \in checked \/ kinds[f] = "capped",
         Failed \notin Structs(kinds)
  PROVE  FieldsConform(kinds, nonzero, j) <=>
           /\ Decode(kinds, j) # Failed
           /\ Valid(Decode(kinds, j), checked, nonzero)
           /\ FromOgen(kinds, Decode(kinds, j)) # Failed
<1>1. CASE j \in {None, Odd}
  BY <1>1, NoMessageDecoded DEF FieldsConform
<1>2. CASE j \in WireMessages(kinds, ruled)
  <2>1. j \in Structs(kinds) /\ \A f \in DOMAIN kinds : j[f] = "bad" => f \in ruled
    BY <1>2, WireClasses
  <2>2. ASSUME FieldsConform(kinds, nonzero, j)
        PROVE  /\ Decode(kinds, j) # Failed
               /\ Valid(Decode(kinds, j), checked, nonzero)
               /\ FromOgen(kinds, Decode(kinds, j)) # Failed
    <3>1. /\ Decode(kinds, j) \in Structs(kinds) /\ Decode(kinds, j) # Failed
          /\ \A f \in DOMAIN kinds :
               /\ Decode(kinds, j)[f] \notin {"bad", "odd"}
               /\ f \in nonzero => Decode(kinds, j)[f] # "zero"
      BY <2>1, <2>2, ConformingDecodes
    <3>2. Valid(Decode(kinds, j), checked, nonzero)
      BY <3>1 DEF Valid
    <3>3. FromOgen(kinds, Decode(kinds, j)) # Failed
      BY <3>1, FlawlessConverts
    <3>. QED
      BY <3>1, <3>2, <3>3
  <2>3. ASSUME Decode(kinds, j) # Failed, Valid(Decode(kinds, j), checked, nonzero),
               FromOgen(kinds, Decode(kinds, j)) # Failed
        PROVE  FieldsConform(kinds, nonzero, j)
    <3>1. \A f \in DOMAIN kinds : Decode(kinds, j)[f] # "odd"
      BY <2>3, ConvertedFields
    <3>2. ASSUME NEW f \in DOMAIN kinds PROVE Decode(kinds, j)[f] # "bad"
      <4>1. Decodes(kinds[f], j[f]) /\ Decode(kinds, j)[f] = DecodeField(kinds[f], j[f])
        BY <2>3, DecodedFields
      <4>2. Decode(kinds, j)[f] = "bad" => j[f] = "bad"
        BY <4>1, WireRefused
      <4>3. j[f] = "bad" => f \in checked
        BY <4>1, <2>1 DEF Decodes
      <4>. QED
        BY <4>2, <4>3, <2>3 DEF Valid
    <3>3. \A f \in nonzero : Decode(kinds, j)[f] # "zero"
      BY <2>3 DEF Valid
    <3>. QED
      BY <3>1, <3>2, <3>3, <2>3, AcceptedConforms
  <2>. QED
    BY <2>2, <2>3
<1>. QED
  BY <1>1, <1>2

\* What the client sends as the document has it the client's validator accepts.
LEMMA EncodedValid ==
  ASSUME NEW kinds, NEW m, NEW checked, NEW nonzero, checked \subseteq DOMAIN kinds,
         nonzero \subseteq DOMAIN kinds, \A f \in nonzero : kinds[f] # "items",
         FieldsConform(kinds, nonzero, Encode(kinds, m))
  PROVE  Valid(m, checked, nonzero)
BY EncodedFields, WireRefused DEF FieldsConform, Valid

-----------------------------------------------------------------------------
(* The requests of the example *)

LEMMA NoStruct ==
  /\ \A kinds \in {UserKinds, UserInputKinds, CoverageKinds, ListUsersResponseKinds,
                    GetHealthResponseKinds, CreatePostRequestKinds} :
       Structs(kinds) \cap {None, Odd, Failed} = {}
  /\ [payload: Structs(CoverageKinds)] \cap {None, Odd, Failed} = {}
  /\ [action: Classes, user: Structs(UserKinds)] \cap {None, Odd, Failed} = {}
BY MessagesAssumption DEF IsNoMessage

\* The inputs of users.
LEMMA UserInputReceived ==
  ASSUME NEW j \in {None, Odd} \cup WireMessages(UserInputKinds, UserInputRules)
  PROVE  /\ FieldsConform(UserInputKinds, {"email", "displayName", "roles"}, j) <=>
              /\ UserInputDecode(j) # Failed
              /\ UserInputValidate(UserInputDecode(j))
              /\ UserInputFromOgen(UserInputDecode(j)) # Failed
         /\ UserInputDecode(j) # Failed /\ UserInputFromOgen(UserInputDecode(j)) # Failed =>
              SameMessage(UserInputKinds, j, UserInputFromOgen(UserInputDecode(j)))
<1>. DEFINE ruled == {"email", "displayName", "roles"}
<1>1. ruled \subseteq DOMAIN UserInputKinds /\ Failed \notin Structs(UserInputKinds)
  BY NoStruct DEF UserInputKinds
<1>2. \A f \in UserInputRules : f \in ruled \/ UserInputKinds[f] = "capped"
  BY DEF UserInputRules, UserInputKinds
<1>. HIDE DEF ruled
<1>3. FieldsConform(UserInputKinds, ruled, j) <=>
        /\ Decode(UserInputKinds, j) # Failed
        /\ Valid(Decode(UserInputKinds, j), ruled, ruled)
        /\ FromOgen(UserInputKinds, Decode(UserInputKinds, j)) # Failed
  BY <1>1, <1>2, ReceivedConforms
<1>4. \A v : UserInputValidate(v) <=> Valid(v, ruled, ruled)
  BY DEF UserInputValidate, ruled
<1>. QED
  BY <1>3, <1>4, ReceivedSame DEF UserInputDecode, UserInputFromOgen, ruled

\* The users of events.
LEMMA UserReceived ==
  ASSUME NEW j \in {None, Odd} \cup WireMessages(UserKinds, UserRules)
  PROVE  /\ FieldsConform(UserKinds, {"email"}, j) <=>
              /\ UserDecode(j) # Failed
              /\ UserValidate(UserDecode(j))
              /\ UserFromOgen(UserDecode(j)) # Failed
         /\ UserDecode(j) # Failed /\ UserFromOgen(UserDecode(j)) # Failed =>
              SameMessage(UserKinds, j, UserFromOgen(UserDecode(j)))
<1>1. /\ UserRules \subseteq DOMAIN UserKinds /\ {"email"} \subseteq DOMAIN UserKinds
      /\ Failed \notin Structs(UserKinds)
  BY NoStruct DEF UserKinds, UserRules
<1>2. FieldsConform(UserKinds, {"email"}, j) <=>
        /\ Decode(UserKinds, j) # Failed
        /\ Valid(Decode(UserKinds, j), UserRules, {"email"})
        /\ FromOgen(UserKinds, Decode(UserKinds, j)) # Failed
  BY <1>1, ReceivedConforms
<1>3. \A v : UserValidate(v) <=> Valid(v, UserRules, {"email"})
  BY DEF UserValidate, UserRules
<1>. QED
  BY <1>2, <1>3, ReceivedSame DEF UserDecode, UserFromOgen

\* An event is decoded, validated and converted if it is what the document
\* describes, and only then; and the service's message says what it does.
LEMMA UserChangedReceived ==
  ASSUME NEW j \in {None, Odd} \cup
           [action: {"absent", "null", "zero", "good", "odd"},
            user: {None, Odd} \cup WireMessages(UserKinds, UserRules)]
  PROVE  LET v == UserChangedPayloadDecode(j)
             accepted == /\ v # Failed /\ UserChangedPayloadValidate(v)
                         /\ UserChangedPayloadFromOgen(v) # Failed
         IN  /\ accepted <=> /\ j \notin {None, Odd}
                             /\ j.action \notin {"absent", "null", "odd"}
                             /\ FieldsConform(UserKinds, {"email"}, j.user)
             /\ accepted => /\ v \in [action: Classes, user: Structs(UserKinds)]
                            /\ UserChangedPayloadFromOgen(v)
                                 \in [action: Classes, user: Structs(UserKinds)]
                            /\ UserChangedPayloadFromOgen(v).action = j.action
                            /\ SameMessage(UserKinds, j.user, UserChangedPayloadFromOgen(v).user)
<1>. DEFINE v == UserChangedPayloadDecode(j)
<1>1. CASE j \in {None, Odd}
  <2>1. UserDecode(j) = Failed
    BY <1>1, NoMessageDecoded DEF UserDecode
  <2>2. v = Failed
    BY <1>1, <2>1 DEF UserChangedPayloadDecode, Inside
  <2>. QED
    BY <1>1, <2>2
<1>2. CASE j \notin {None, Odd}
  <2>. DEFINE u == UserDecode(j.user)
              p == UserFromOgen(u)
  <2>1. /\ j.action \in {"absent", "null", "zero", "good", "odd"}
        /\ j.user \in {None, Odd} \cup WireMessages(UserKinds, UserRules)
    BY <1>2
  <2>2. /\ FieldsConform(UserKinds, {"email"}, j.user) <=>
              u # Failed /\ UserValidate(u) /\ p # Failed
        /\ u # Failed /\ p # Failed => SameMessage(UserKinds, j.user, p)
    BY <2>1, UserReceived
  <2>3. u # Failed => u \in Structs(UserKinds)
    BY <2>1, WireClasses, Forms, NoMessageDecoded DEF UserDecode
  <2>4. u # Failed /\ p # Failed => p \in Structs(UserKinds)
    BY <2>3, Forms DEF UserFromOgen
  <2>5. Decodes("plain", j.action) <=> j.action \notin {"absent", "null", "odd"}
    BY <2>1 DEF Decodes, Required, Nullable
  <2>6. v = IF u = Failed \/ ~Decodes("plain", j.action) THEN Failed
            ELSE [action |-> j.action, user |-> u]
    BY <1>2 DEF UserChangedPayloadDecode, Inside
  <2>7. j.action \in Classes
    BY <2>1 DEF Classes
  <2>. HIDE DEF u, v
  <2>8. CASE u = Failed \/ ~Decodes("plain", j.action)
    BY <1>2, <2>2, <2>5, <2>6, <2>8 DEF v
  <2>9. CASE u # Failed /\ Decodes("plain", j.action)
    <3>1. v = [action |-> j.action, user |-> u] /\ v \in [action: Classes, user: Structs(UserKinds)]
      BY <2>3, <2>6, <2>7, <2>9
    <3>2. v # Failed /\ v.action = j.action /\ v.user = u
      BY <3>1, NoStruct
    <3>3. UserChangedPayloadValidate(v) <=> UserValidate(u)
      BY <3>2 DEF UserChangedPayloadValidate
    <3>. DEFINE m == UserChangedPayloadFromOgen(v)
    <3>4. m = IF p = Failed THEN Failed ELSE [action |-> j.action, user |-> p]
      BY <3>2 DEF UserChangedPayloadFromOgen
    <3>. HIDE DEF p, m
    <3>5. p # Failed => m \in [action: Classes, user: Structs(UserKinds)] /\ m # Failed
                        /\ m.action = j.action /\ m.user = p
      BY <2>4, <2>7, <2>9, <3>4, NoStruct
    <3>6. p = Failed => m = Failed
      BY <3>4
    <3>. QED
      BY <1>2, <2>2, <2>5, <2>9, <3>1, <3>2, <3>3, <3>5, <3>6 DEF v, m
  <2>. QED
    BY <2>8, <2>9
<1>. QED
  BY <1>1, <1>2

\* A form.
LEMMA CreatePostReceived ==
  ASSUME NEW j \in {None, Odd} \cup WireMessages(CreatePostRequestKinds, {})
  PROVE  LET v == CreatePostRequestDecode(j)
             accepted == v # Failed /\ CreatePostRequestFromOgen(v) # Failed
         IN  /\ accepted <=> FieldsConform(CreatePostRequestKinds, {}, j)
             /\ accepted =>
                  /\ v \in Structs(CreatePostRequestKinds)
                  /\ CreatePostRequestFromOgen(v) \in Structs(CreatePostRequestKinds)
                  /\ SameMessage(CreatePostRequestKinds, j, CreatePostRequestFromOgen(v))
<1>. DEFINE K == CreatePostRequestKinds
            v == CreatePostRequestDecode(j)
            d == Decode(K, j)
            p == FromOgen(K, v)
<1>1. Failed \notin Structs(K)
  BY NoStruct
<1>2. d # Failed => d \in Structs(K)
  BY WireClasses, Forms, NoMessageDecoded
<1>3. v = IF d = Failed THEN Failed
          ELSE [d EXCEPT !.attachments = IF @ = "nil" THEN "zero" ELSE @]
  BY DEF CreatePostRequestDecode
<1>4. DOMAIN K = {"title", "content", "thumbnail", "attachments"} /\ K["attachments"] = "list"
  BY DEF CreatePostRequestKinds
<1>5. d = Failed => v = Failed
  BY <1>3
<1>6. ASSUME d # Failed
      PROVE  /\ v \in Structs(K) /\ v # Failed
             /\ \A f \in DOMAIN K :
                  \/ v[f] = d[f]
                  \/ f = "attachments" /\ d[f] = "nil" /\ v[f] = "zero"
  <2>1. v = [d EXCEPT !["attachments"] = IF d["attachments"] = "nil" THEN "zero"
                                         ELSE d["attachments"]]
    BY <1>3, <1>6
  <2>. HIDE DEF d, v, K
  <2>2. d \in [DOMAIN K -> Classes]
    BY <1>2, <1>6 DEF Structs
  <2>3. \A f \in DOMAIN K : \/ v[f] = d[f]
                            \/ f = "attachments" /\ d[f] = "nil" /\ v[f] = "zero"
    BY <2>1, <2>2
  <2>4. v \in [DOMAIN K -> Classes]
    BY <2>1, <2>2, <1>4 DEF Classes
  <2>. QED
    BY <2>3, <2>4, <1>1 DEF Structs
<1>7. CASE d = Failed
  <2>1. ~FieldsConform(K, {}, j)
    <3>1. FieldsConform(K, {}, j) => j \in WireMessages(K, {})
      BY DEF FieldsConform
    <3>2. FieldsConform(K, {}, j) => d # Failed
      BY <3>1, <1>1, WireClasses, ConformingDecodes
    <3>. QED
      BY <1>7, <3>2
  <2>. QED
    BY <1>5, <1>7, <2>1
<1>8. CASE d # Failed
  <2>1. j \in WireMessages(K, {}) /\ j \in Structs(K)
    BY <1>8, NoMessageDecoded, WireClasses
  <2>2. ASSUME FieldsConform(K, {}, j) PROVE p # Failed
    <3>1. \A f \in DOMAIN K : d[f] \notin {"bad", "odd"}
      BY <2>1, <2>2, <1>1, ConformingDecodes
    <3>2. \A f \in DOMAIN K : v[f] \notin {"bad", "odd"}
      BY <3>1, <1>6, <1>8
    <3>. HIDE DEF v
    <3>. QED
      BY <3>2, <1>1, <1>6, <1>8, FlawlessConverts
  <2>3. ASSUME p # Failed
        PROVE  /\ FieldsConform(K, {}, j) /\ SameMessage(K, j, p)
               /\ v \in Structs(K) /\ p \in Structs(K)
    <3>1. \A f \in DOMAIN K : v[f] # "odd" /\ p[f] = FromOgenField(K[f], v[f])
      <4>. HIDE DEF v
      <4>. QED
        BY <2>3, ConvertedFields
    <3>2. \A f \in DOMAIN K : d[f] = DecodeField(K[f], j[f]) /\ j[f] # "bad"
      BY <1>8, <2>1, DecodedFields, WireClasses
    <3>3. v \in Structs(K) /\ p \in Structs(K)
      <4>. HIDE DEF v
      <4>. QED
        BY <1>6, <1>8, <2>3, Forms
    <3>4. \A f \in DOMAIN K : \/ v[f] = d[f]
                              \/ f = "attachments" /\ d[f] = "nil" /\ v[f] = "zero"
      BY <1>6, <1>8
    <3>. HIDE DEF v, p, d
    <3>5. \A f \in DOMAIN K : d[f] \notin {"bad", "odd"}
      BY <3>1, <3>2, <3>4, WireRefused
    <3>6. FieldsConform(K, {}, j)
      BY <3>5, <1>8, AcceptedConforms DEF d
    <3>7. ASSUME NEW f \in DOMAIN K PROVE Same(K[f], j[f], p[f])
      <4>1. Same(K[f], d[f], v[f])
        BY <3>4, <1>4 DEF Same, Blank, HasPresence, Nullable
      <4>2. Same(K[f], j[f], d[f]) /\ Same(K[f], v[f], p[f])
        BY <3>1, <3>2, DecodeSame, FromOgenSame
      <4>. QED
        BY <4>1, <4>2, SameChain
    <3>8. SameMessage(K, j, p)
      BY <3>7 DEF SameMessage
    <3>. QED
      BY <3>3, <3>6, <3>8
  <2>. HIDE DEF d, v, p
  <2>4. v # Failed
    BY <1>6, <1>8
  <2>. QED
    BY <2>2, <2>3, <2>4 DEF v, p, CreatePostRequestFromOgen
<1>. QED
  BY <1>7, <1>8

LEMMA CreatePostSent ==
  ASSUME NEW m \in OgenMessages(CreatePostRequestKinds, {})
  PROVE  /\ CreatePostRequestEncode(m) \in WireMessages(CreatePostRequestKinds, {})
         /\ SameMessage(CreatePostRequestKinds, m, CreatePostRequestEncode(m))
<1>. DEFINE K == CreatePostRequestKinds
            e == Encode(K, m)
            j == CreatePostRequestEncode(m)
<1>1. e \in WireMessages(K, {}) /\ SameMessage(K, m, e)
  BY EncodedWire, EncodedSame
<1>2. DOMAIN K = {"title", "content", "thumbnail", "attachments"} /\ K["attachments"] = "list"
  BY DEF CreatePostRequestKinds
<1>3. j = [e EXCEPT !["attachments"] = IF e["attachments"] = "zero" THEN "absent"
                                       ELSE e["attachments"]]
  BY DEF CreatePostRequestEncode
<1>. HIDE DEF e, j, K
<1>4. e \in [DOMAIN K -> Classes] /\ \A f \in DOMAIN K : e[f] \in WireField(K[f])
  BY <1>1 DEF WireMessages, Structs, Breaks
<1>5. \A f \in DOMAIN K : j[f] = e[f] \/ (f = "attachments" /\ e[f] = "zero" /\ j[f] = "absent")
  BY <1>3, <1>4
<1>6. j \in [DOMAIN K -> Classes]
  BY <1>2, <1>3, <1>4 DEF Classes
<1>7. \A f \in DOMAIN K : j[f] \in WireField(K[f])
  BY <1>4, <1>5 DEF WireField
<1>8. \A f \in DOMAIN K : Same(K[f], e[f], j[f])
  BY <1>2, <1>5 DEF Same, Blank, HasPresence, Nullable
<1>9. SameMessage(K, m, j)
  BY <1>1, <1>8, SameMessageChain DEF SameMessage
<1>10. j \in WireMessages(K, {})
  BY <1>6, <1>7 DEF WireMessages, Structs
<1>. QED
  BY <1>9, <1>10 DEF j, K

\* The members of oneofs know presence.
LEMMA OneofMembers ==
  ASSUME NEW ms \in CoverageOneofs, NEW i \in DOMAIN ms
  PROVE  ms[i] \in DOMAIN CoverageKinds /\ CoverageKinds[ms[i]] \in {"presence", "uuidMember"}
<1>1. CASE ms = <<"refId", "refSlug", "refNested">>
  <2>1. i \in {1, 2, 3}
    BY <1>1
  <2>. QED
    BY <1>1, <2>1 DEF CoverageKinds
<1>2. CASE ms = <<"kindInt", "kindCount">>
  <2>1. i \in {1, 2}
    BY <1>2
  <2>. QED
    BY <1>2, <2>1 DEF CoverageKinds
<1>. QED
  BY <1>1, <1>2 DEF CoverageOneofs

\* What the assignment of oneofs leaves of a message.
LEMMA OneofsAssigned ==
  ASSUME NEW v \in Structs(CoverageKinds)
  PROVE  \E w \in Structs(CoverageKinds) :
           /\ CoverageFromOgen(v) = FromOgen(CoverageKinds, w)
           /\ \A f \in DOMAIN CoverageKinds :
                \/ w[f] = v[f]
                \/ /\ w[f] = "unset" /\ CoverageKinds[f] \in {"presence", "uuidMember"}
                   /\ \E ms \in CoverageOneofs : \E i, j \in DOMAIN ms :
                        i # j /\ ms[i] = f /\ v[ms[j]] # "unset"
<1>. DEFINE lost(f) == \E ms \in CoverageOneofs : Overwritten(v, ms, f)
            w == [f \in DOMAIN v |-> IF lost(f) THEN "unset" ELSE v[f]]
<1>1. CoverageFromOgen(v) = FromOgen(CoverageKinds, w)
  BY DEF CoverageFromOgen
<1>2. ASSUME NEW f \in DOMAIN CoverageKinds, lost(f)
      PROVE  /\ CoverageKinds[f] \in {"presence", "uuidMember"}
             /\ \E ms \in CoverageOneofs : \E i, j \in DOMAIN ms :
                  i # j /\ ms[i] = f /\ v[ms[j]] # "unset"
  <2>1. PICK ms \in CoverageOneofs : Overwritten(v, ms, f)
    BY <1>2
  <2>2. PICK i \in DOMAIN ms, j \in DOMAIN ms : i < j /\ ms[i] = f /\ v[ms[j]] # "unset"
    BY <2>1 DEF Overwritten
  <2>3. DOMAIN ms \subseteq Nat
    BY DEF CoverageOneofs
  <2>4. i # j
    BY <2>2, <2>3
  <2>. QED
    BY <2>2, <2>4, OneofMembers
<1>. HIDE DEF lost
<1>3. DOMAIN v = DOMAIN CoverageKinds /\ \A f \in DOMAIN CoverageKinds : v[f] \in Classes
  BY DEF Structs
<1>4. \A f \in DOMAIN CoverageKinds : w[f] = IF lost(f) THEN "unset" ELSE v[f]
  BY <1>3
<1>5. w \in Structs(CoverageKinds)
  BY <1>3 DEF Structs, Classes
<1>. HIDE DEF w
<1>. QED
  BY <1>1, <1>2, <1>4, <1>5

LEMMA CoverageReceived ==
  ASSUME NEW j \in {None, Odd} \cup WireMessages(CoverageKinds, CoverageRules)
  PROVE  LET v == CoverageDecode(j)
             accepted == v # Failed /\ CoverageValidate(v) /\ CoverageFromOgen(v) # Failed
         IN  /\ accepted <=> FieldsConform(CoverageKinds, {}, j)
             /\ accepted =>
                  /\ v \in Structs(CoverageKinds)
                  /\ CoverageFromOgen(v) \in Structs(CoverageKinds)
                  /\ OneOfEach(j) => SameMessage(CoverageKinds, j, CoverageFromOgen(v))
<1>. DEFINE K == CoverageKinds
            v == Decode(K, j)
<1>1. Failed \notin Structs(K) /\ CoverageRules \subseteq DOMAIN K
  BY NoStruct DEF CoverageRules, NotANumber, CoverageKinds
<1>2. \A x : CoverageValidate(x) <=> \A f \in CoverageRules : x[f] # "bad"
  <2>1. CoverageRules = {"doubleValue", "doubleWrapper", "floatValue", "enumValue", "repeatedEnum",
                          "fixed32Value", "uint32Value"}
    BY DEF CoverageRules, NotANumber
  <2>. QED
    BY <2>1 DEF CoverageValidate, Valid
<1>3. CASE v = Failed
  <2>1. FieldsConform(K, {}, j) => v # Failed
    <3>1. FieldsConform(K, {}, j) => j \in WireMessages(K, CoverageRules)
      BY DEF FieldsConform
    <3>. QED
      BY <3>1, <1>1, WireClasses, ConformingDecodes
  <2>. QED
    BY <1>3, <2>1 DEF CoverageDecode
<1>4. CASE v # Failed
  <2>1. /\ j \in WireMessages(K, CoverageRules) /\ j \in Structs(K) /\ v \in Structs(K)
        /\ \A f \in DOMAIN K :
             /\ j[f] \in {"absent", "null", "zero", "good", "odd", "bad"}
             /\ j[f] = "bad" => f \in CoverageRules
             /\ Decodes(K[f], j[f]) /\ v[f] = DecodeField(K[f], j[f])
    BY <1>4, NoMessageDecoded, WireClasses, Forms, DecodedFields
  <2>. HIDE DEF v
  <2>2. PICK w \in Structs(K) :
          /\ CoverageFromOgen(v) = FromOgen(K, w)
          /\ \A f \in DOMAIN K :
               \/ w[f] = v[f]
               \/ /\ w[f] = "unset" /\ K[f] \in {"presence", "uuidMember"}
                  /\ \E ms \in CoverageOneofs : \E i, k \in DOMAIN ms :
                       i # k /\ ms[i] = f /\ v[ms[k]] # "unset"
    BY <2>1, OneofsAssigned
  <2>. DEFINE p == FromOgen(K, w)
  <2>3. ASSUME FieldsConform(K, {}, j) PROVE CoverageValidate(v) /\ p # Failed
    <3>1. \A f \in DOMAIN K : v[f] \notin {"bad", "odd"}
      BY <2>1, <2>3, <1>1, ConformingDecodes DEF v
    <3>2. \A f \in DOMAIN K : w[f] \notin {"bad", "odd"}
      BY <3>1, <2>2
    <3>. QED
      BY <3>1, <3>2, <1>1, <1>2, FlawlessConverts
  <2>4. ASSUME CoverageValidate(v), p # Failed
        PROVE  /\ FieldsConform(K, {}, j) /\ p \in Structs(K)
               /\ OneOfEach(j) => SameMessage(K, j, p)
    <3>1. /\ p \in Structs(K)
          /\ \A f \in DOMAIN K : w[f] # "odd" /\ p[f] = FromOgenField(K[f], w[f])
      BY <2>4, ConvertedFields, Forms
    <3>. HIDE DEF p
    <3>2. \A f \in DOMAIN K : v[f] # "bad"
      BY <1>2, <2>1, <2>4, WireRefused
    <3>3. \A f \in DOMAIN K : v[f] # "odd"
      <4>1. \A f \in DOMAIN K : v[f] = "odd" => j[f] = "odd"
        BY <2>1, WireRefused
      <4>2. \A f \in DOMAIN K : K[f] \in {"presence", "uuidMember"} => j[f] # "odd"
        BY <2>1 DEF Decodes
      <4>. QED
        BY <4>1, <4>2, <2>2, <3>1
    <3>4. FieldsConform(K, {}, j)
      BY <3>2, <3>3, <1>4, AcceptedConforms DEF v
    <3>5. ASSUME OneOfEach(j), NEW f \in DOMAIN K PROVE Same(K[f], j[f], p[f])
      <4>1. CASE w[f] = v[f]
        <5>1. Same(K[f], j[f], v[f]) /\ Same(K[f], v[f], p[f])
          BY <4>1, <2>1, <3>1, DecodeSame, FromOgenSame
        <5>. QED
          BY <5>1, SameChain
      <4>2. CASE w[f] # v[f]
        <5>1. /\ w[f] = "unset" /\ K[f] \in {"presence", "uuidMember"}
              /\ \E ms \in CoverageOneofs : \E i, k \in DOMAIN ms :
                   i # k /\ ms[i] = f /\ v[ms[k]] # "unset"
          BY <4>2, <2>2
        <5>0. PICK ms \in CoverageOneofs : \E i, k \in DOMAIN ms :
                i # k /\ ms[i] = f /\ v[ms[k]] # "unset"
          BY <5>1
        <5>2. PICK i \in DOMAIN ms, k \in DOMAIN ms :
                i # k /\ ms[i] = f /\ v[ms[k]] # "unset"
          BY <5>0
        <5>3. ms[k] \in DOMAIN K /\ K[ms[k]] \in {"presence", "uuidMember"}
          BY OneofMembers
        <5>4. j[ms[k]] \notin {"absent", "null", "odd"}
          BY <5>2, <5>3, <2>1 DEF Decodes, DecodeField, Nullable, Slices
        <5>5. ~Blank("presence", j[ms[k]])
          BY <5>3, <5>4, <2>1 DEF Blank, HasPresence
        <5>6. Blank("presence", j[f])
          BY <3>5, <5>2, <5>5 DEF OneOfEach
        <5>7. Blank(K[f], j[f])
          BY <5>1, <5>6 DEF Blank, HasPresence
        <5>8. p[f] = "nil"
          BY <5>1, <3>1 DEF FromOgenField, Implicit
        <5>. QED
          BY <5>7, <5>8 DEF Same, Blank
      <4>. QED
        BY <4>1, <4>2
    <3>. QED
      BY <3>1, <3>4, <3>5 DEF SameMessage
  <2>. QED
    BY <1>4, <2>1, <2>2, <2>3, <2>4 DEF v, CoverageDecode
<1>. QED
  BY <1>3, <1>4

\* Messages that say the same have the same members.
LEMMA SameOneofs ==
  ASSUME NEW x, NEW y, SameMessage(CoverageKinds, x, y), OneOfEach(x)
  PROVE  OneOfEach(y)
<1>. SUFFICES ASSUME NEW ms \in CoverageOneofs, NEW i \in DOMAIN ms, NEW j \in DOMAIN ms, i # j
              PROVE  Blank("presence", y[ms[i]]) \/ Blank("presence", y[ms[j]])
  BY DEF OneOfEach
<1>1. Blank("presence", x[ms[i]]) \/ Blank("presence", x[ms[j]])
  BY DEF OneOfEach
<1>2. ASSUME NEW k \in DOMAIN ms, Blank("presence", x[ms[k]]) PROVE Blank("presence", y[ms[k]])
  <2>1. ms[k] \in DOMAIN CoverageKinds /\ CoverageKinds[ms[k]] \in {"presence", "uuidMember"}
    BY OneofMembers
  <2>2. Same(CoverageKinds[ms[k]], x[ms[k]], y[ms[k]])
    BY <2>1 DEF SameMessage
  <2>. QED
    BY <1>2, <2>1, <2>2 DEF Same, Blank, HasPresence
<1>. QED
  BY <1>1, <1>2

-----------------------------------------------------------------------------
(* The responses of the example *)

\* What the server converts from protobuf, or has in a zero struct, the client
\* decodes; a capped map is never sent.
LEMMA ConvertedDecodes ==
  ASSUME NEW k, k # "capped", NEW v \in ProtoField(k) \cup {"bad"}, Converts(k, v)
  PROVE  Decodes(k, EncodeField(k, ToOgenField(k, v)))
<1>1. v # "odd" /\ (k \in {"uuid", "plain"} => v \in {"zero", "good", "bad"})
      /\ (v = "null" => k = "value") /\ (v = "hollow" => k = "nilBytes")
      /\ v \in {"nil", "hollow", "null", "zero", "good", "bad"}
  BY DEF ProtoField, Converts
<1>2. CASE v \in {"zero", "good", "bad"}
  BY <1>1, <1>2 DEF Decodes, EncodeField, ToOgenField
<1>3. CASE v = "null"
  BY <1>1, <1>3 DEF Decodes, EncodeField, ToOgenField
<1>4. CASE v = "hollow"
  BY <1>1, <1>4 DEF Decodes, EncodeField, ToOgenField, Nullable
<1>5. CASE v = "nil"
  <2>1. k \notin {"uuid", "plain"}
    BY <1>1, <1>5
  <2>2. CASE k = "map"
    BY <1>5, <2>2 DEF Decodes, EncodeField, ToOgenField, Slices
  <2>3. CASE k \in Slices \cup {"enums"}
    <3>1. ToOgenField(k, v) = "nil"
      BY <1>5, <2>3 DEF ToOgenField, Slices
    <3>2. EncodeField(k, "nil") = IF k = "bytes" THEN "null" ELSE IF k = "items" THEN "zero" ELSE "absent"
      BY <2>3 DEF EncodeField, Slices
    <3>. QED
      BY <2>1, <3>1, <3>2 DEF Decodes, Required
  <2>4. CASE k \notin Slices \cup {"enums", "map"}
    <3>1. EncodeField(k, ToOgenField(k, v)) = "absent"
      BY <1>5, <2>4 DEF ToOgenField, EncodeField
    <3>. QED
      BY <2>1, <2>4, <3>1 DEF Decodes, Required, Slices
  <2>. QED
    BY <2>2, <2>3, <2>4
<1>. QED
  BY <1>1, <1>2, <1>3, <1>4, <1>5

LEMMA ZeroDecodes ==
  ASSUME NEW k PROVE Decodes(k, EncodeField(k, ZeroField(k))) /\ ZeroField(k) \in Classes
<1>1. CASE k \in {"uuid", "plain"}
  BY <1>1 DEF Decodes, EncodeField, ZeroField, Slices, Classes
<1>2. CASE k \in Slices \cup {"enums"}
  <2>1. ZeroField(k) = "nil"
    BY <1>2 DEF ZeroField, Slices
  <2>2. EncodeField(k, "nil") = IF k = "bytes" THEN "null" ELSE IF k = "items" THEN "zero" ELSE "absent"
    BY <1>2 DEF EncodeField, Slices
  <2>3. k \notin {"uuid", "plain"}
    BY <1>2 DEF Slices
  <2>. QED
    BY <2>1, <2>2, <2>3 DEF Decodes, Required, Classes
<1>3. CASE k \notin Slices \cup {"enums", "uuid", "plain"}
  <2>1. ZeroField(k) = "unset"
    BY <1>3 DEF ZeroField
  <2>2. EncodeField(k, "unset") = "absent"
    BY DEF EncodeField
  <2>. QED
    BY <1>3, <2>1, <2>2 DEF Decodes, Required, Slices, Classes
<1>. QED
  BY <1>1, <1>2, <1>3

\* The client decodes what the server converts, validates and encodes; it
\* passes the same rules and says what the service has returned.
LEMMA AnswerIsRead ==
  ASSUME NEW kinds, NEW ruled, NEW src \in {None} \cup ProtoMessages(kinds, ruled),
         NEW checked, NEW nonzero, checked \subseteq DOMAIN kinds, nonzero \subseteq DOMAIN kinds,
         \A f \in nonzero : kinds[f] # "items", \A f \in DOMAIN kinds : kinds[f] # "capped",
         Structs(kinds) \cap {None, Odd, Failed} = {},
         NEW r, r = (IF src = None THEN ZeroStruct(kinds) ELSE ToOgen(kinds, src)), r # Failed,
         Valid(r, checked, nonzero)
  PROVE  /\ Decode(kinds, Encode(kinds, r)) # Failed
         /\ Valid(Decode(kinds, Encode(kinds, r)), checked, nonzero)
         /\ src # None => SameMessage(kinds, src, Decode(kinds, Encode(kinds, r)))
<1>1. /\ r \in Structs(kinds)
      /\ \A f \in DOMAIN kinds : Decodes(kinds[f], EncodeField(kinds[f], r[f]))
      /\ src # None => SameMessage(kinds, src, r)
  <2>1. CASE src = None
    BY <2>1, ZeroDecodes DEF ZeroStruct, Structs
  <2>2. CASE src # None
    <3>1. /\ src \in Structs(kinds)
          /\ \A f \in DOMAIN kinds : src[f] \in ProtoField(kinds[f]) \cup {"bad"}
      BY <2>2 DEF ProtoMessages, Breaks
    <3>2. \A f \in DOMAIN kinds :
            Converts(kinds[f], src[f]) /\ r[f] = ToOgenField(kinds[f], src[f])
      BY <2>2 DEF ToOgen
    <3>3. r \in Structs(kinds)
      BY <2>2, <3>1, Forms
    <3>4. \A f \in DOMAIN kinds : Decodes(kinds[f], EncodeField(kinds[f], r[f]))
      BY <3>1, <3>2, ConvertedDecodes
    <3>5. SameMessage(kinds, src, r)
      BY <3>2, ToOgenSame DEF SameMessage
    <3>. QED
      BY <3>3, <3>4, <3>5
  <2>. QED
    BY <2>1, <2>2
<1>2. Encode(kinds, r) \in Structs(kinds)
  BY <1>1, Forms
<1>3. /\ Encode(kinds, r) \notin {None, Odd} /\ Failed \notin Structs(kinds)
  BY <1>2
<1>4. /\ Decode(kinds, Encode(kinds, r)) # Failed
      /\ Valid(Decode(kinds, Encode(kinds, r)), checked, nonzero)
      /\ SameMessage(kinds, r, Decode(kinds, Encode(kinds, r)))
  BY <1>1, <1>2, <1>3, SentIsRead
<1>. QED
  BY <1>1, <1>4, SameMessageChain

LEMMA UserIsRead ==
  ASSUME NEW src \in {None} \cup ProtoMessages(UserKinds, UserRules),
         UserToOgen(src) # Failed, UserValidate(UserToOgen(src))
  PROVE  LET v == UserDecode(UserEncode(UserToOgen(src)))
         IN  v # Failed /\ UserValidate(v) /\ src # None /\ SameMessage(UserKinds, src, v)
<1>. DEFINE r == UserToOgen(src)
<1>1. /\ UserRules \subseteq DOMAIN UserKinds /\ {"email"} \subseteq DOMAIN UserKinds
      /\ \A f \in {"email"} : UserKinds[f] # "items"
      /\ \A f \in DOMAIN UserKinds : UserKinds[f] # "capped"
      /\ Structs(UserKinds) \cap {None, Odd, Failed} = {}
  BY NoStruct DEF UserKinds, UserRules
<1>2. \A v : UserValidate(v) <=> Valid(v, UserRules, {"email"})
  BY DEF UserValidate, UserRules
<1>3. r = (IF src = None THEN ZeroStruct(UserKinds) ELSE ToOgen(UserKinds, src))
  BY DEF UserToOgen
<1>4. src # None
  <2>1. Valid(ZeroStruct(UserKinds), UserRules, {"email"}) => ZeroStruct(UserKinds)["email"] # "zero"
    BY DEF Valid
  <2>2. "email" \in DOMAIN UserKinds /\ UserKinds["email"] = "plain"
    BY DEF UserKinds
  <2>3. ZeroStruct(UserKinds)["email"] = "zero"
    BY <2>2 DEF ZeroStruct, ZeroField, Slices
  <2>. QED
    BY <1>2, <1>3, <2>1, <2>3
<1>5. Valid(r, UserRules, {"email"})
  BY <1>2
<1>. HIDE DEF r
<1>6. /\ Decode(UserKinds, Encode(UserKinds, r)) # Failed
      /\ Valid(Decode(UserKinds, Encode(UserKinds, r)), UserRules, {"email"})
      /\ SameMessage(UserKinds, src, Decode(UserKinds, Encode(UserKinds, r)))
  BY <1>1, <1>3, <1>4, <1>5, AnswerIsRead DEF r
<1>. QED
  BY <1>2, <1>4, <1>6 DEF r, UserDecode, UserEncode

LEMMA CoverageIsRead ==
  ASSUME NEW src \in {None} \cup ProtoMessages(CoverageKinds, CoverageRules),
         CoverageToOgen(src) # Failed, CoverageValidate(CoverageToOgen(src))
  PROVE  LET e == CoverageEncode(CoverageToOgen(src))
             v == CoverageDecode(e)
         IN  /\ v # Failed /\ CoverageValidate(v)
             /\ src # None => SameMessage(CoverageKinds, src, v)
<1>. DEFINE r == CoverageToOgen(src)
<1>1. /\ CoverageRules \subseteq DOMAIN CoverageKinds
      /\ \A f \in DOMAIN CoverageKinds : CoverageKinds[f] # "capped"
      /\ Structs(CoverageKinds) \cap {None, Odd, Failed} = {}
  <2>1. CoverageRules \subseteq DOMAIN CoverageKinds
    BY DEF CoverageRules, NotANumber, CoverageKinds
  <2>2. \A f \in DOMAIN CoverageKinds : CoverageKinds[f] # "capped"
    BY DEF CoverageKinds
  <2>. QED
    BY <2>1, <2>2, NoStruct
<1>2. \A v : CoverageValidate(v) <=> Valid(v, CoverageRules, {})
  <2>1. CoverageRules = {"doubleValue", "doubleWrapper", "floatValue", "enumValue", "repeatedEnum",
                          "fixed32Value", "uint32Value"}
    BY DEF CoverageRules, NotANumber
  <2>. QED
    BY <2>1 DEF CoverageValidate
<1>3. r = (IF src = None THEN ZeroStruct(CoverageKinds) ELSE ToOgen(CoverageKinds, src))
  BY DEF CoverageToOgen
<1>5. Valid(r, CoverageRules, {})
  BY <1>2
<1>. HIDE DEF r
<1>6. /\ Decode(CoverageKinds, Encode(CoverageKinds, r)) # Failed
      /\ Valid(Decode(CoverageKinds, Encode(CoverageKinds, r)), CoverageRules, {})
      /\ src # None => SameMessage(CoverageKinds, src, Decode(CoverageKinds, Encode(CoverageKinds, r)))
  BY <1>1, <1>3, <1>5, AnswerIsRead DEF r
<1>. QED
  BY <1>2, <1>6 DEF r, CoverageDecode, CoverageEncode

LEMMA ListUsersIsRead ==
  ASSUME NEW src \in {None} \cup ProtoMessages(ListUsersResponseKinds, {"users"}),
         ListUsersResponseToOgen(src) # Failed,
         ListUsersResponseValidate(ListUsersResponseToOgen(src))
  PROVE  LET v == ListUsersResponseDecode(ListUsersResponseEncode(ListUsersResponseToOgen(src)))
         IN  /\ v # Failed /\ ListUsersResponseValidate(v)
             /\ src # None /\ SameMessage(ListUsersResponseKinds, src, v)
<1>. DEFINE K == ListUsersResponseKinds
            r == ListUsersResponseToOgen(src)
            j == Encode(K, r)
            v == Decode(K, j)
<1>1. /\ {"users"} \subseteq DOMAIN K /\ K["users"] = "items"
      /\ \A f \in DOMAIN K : K[f] # "capped"
      /\ Structs(K) \cap {None, Odd, Failed} = {}
  BY NoStruct DEF ListUsersResponseKinds
<1>2. \A x : ListUsersResponseValidate(x) <=> x["users"] # "nil" /\ Valid(x, {"users"}, {})
  BY DEF ListUsersResponseValidate
<1>3. r = (IF src = None THEN ZeroStruct(K) ELSE ToOgen(K, src))
  BY DEF ListUsersResponseToOgen
<1>4. src # None
  <2>1. ZeroStruct(K)["users"] = "nil"
    BY <1>1 DEF ZeroStruct, ZeroField, Slices
  <2>. QED
    BY <1>2, <1>3, <2>1
<1>5. Valid(r, {"users"}, {})
  BY <1>2
<1>6. v # Failed /\ Valid(v, {"users"}, {}) /\ SameMessage(K, src, v)
  <2>1. {} \subseteq DOMAIN K /\ (\A f \in {} : K[f] # "items") /\ r # Failed
        /\ src \in {None} \cup ProtoMessages(K, {"users"})
    OBVIOUS
  <2>. HIDE DEF r, K
  <2>. QED
    BY <1>1, <1>3, <1>4, <1>5, <2>1, AnswerIsRead
<1>. HIDE DEF r, K
<1>7. v["users"] # "nil"
  <2>1. Decodes("items", j["users"]) /\ v["users"] = DecodeField("items", j["users"])
    BY <1>1, <1>6, DecodedFields
  <2>2. j["users"] = EncodeField("items", r["users"])
    BY <1>1, EncodedFields
  <2>3. j["users"] # "nil"
    BY <2>2 DEF EncodeField
  <2>. QED
    BY <2>1, <2>3 DEF Decodes, DecodeField, Required
<1>. QED
  BY <1>2, <1>4, <1>6, <1>7 DEF r, K, ListUsersResponseDecode, ListUsersResponseEncode

LEMMA GetHealthIsRead ==
  ASSUME NEW src \in {None} \cup ProtoMessages(GetHealthResponseKinds, {}),
         GetHealthResponseToOgen(src) # Failed
  PROVE  LET v == GetHealthResponseDecode(GetHealthResponseEncode(GetHealthResponseToOgen(src)))
         IN  v # Failed /\ (src # None => SameMessage(GetHealthResponseKinds, src, v))
<1>. DEFINE K == GetHealthResponseKinds
            r == GetHealthResponseToOgen(src)
<1>1. (\A f \in DOMAIN K : K[f] # "capped") /\ Structs(K) \cap {None, Odd, Failed} = {}
  BY NoStruct DEF GetHealthResponseKinds
<1>2. r = (IF src = None THEN ZeroStruct(K) ELSE ToOgen(K, src)) /\ Valid(r, {}, {})
  BY DEF GetHealthResponseToOgen, Valid
<1>. HIDE DEF r, K
<1>3. /\ Decode(K, Encode(K, r)) # Failed
      /\ src # None => SameMessage(K, src, Decode(K, Encode(K, r)))
  <2>1. {} \subseteq DOMAIN K /\ \A f \in {} : K[f] # "items"
    OBVIOUS
  <2>. QED
    BY <1>1, <1>2, <2>1, AnswerIsRead DEF r, K
<1>. QED
  BY <1>3 DEF r, K, GetHealthResponseDecode, GetHealthResponseEncode

-----------------------------------------------------------------------------
(* The messages around Coverage *)

LEMMA AroundPayload ==
  ASSUME NEW v
  PROVE  /\ v = Failed => Around("payload", v) = Failed
         /\ v # Failed => Around("payload", v) = [payload |-> v]
BY DEF Around

LEMMA EchoCoverageReceived ==
  ASSUME NEW j \in {None, Odd} \cup
           [payload: {None, Odd} \cup WireMessages(CoverageKinds, CoverageRules)]
  PROVE  LET v == EchoCoverageRequestDecode(j)
             accepted == /\ v # Failed /\ EchoCoverageRequestValidate(v)
                         /\ EchoCoverageRequestFromOgen(v) # Failed
         IN  /\ accepted <=> j \notin {None, Odd} /\ FieldsConform(CoverageKinds, {}, j.payload)
             /\ accepted =>
                  /\ v \in [payload: Structs(CoverageKinds)]
                  /\ EchoCoverageRequestFromOgen(v) \in [payload: Structs(CoverageKinds)]
                  /\ OneOfEach(j.payload) =>
                       SameMessage(CoverageKinds, j.payload, EchoCoverageRequestFromOgen(v).payload)
<1>. DEFINE v == EchoCoverageRequestDecode(j)
            m == EchoCoverageRequestFromOgen(v)
<1>1. CASE j \in {None, Odd}
  <2>1. CoverageDecode(j) = Failed
    BY <1>1, NoMessageDecoded DEF CoverageDecode
  <2>2. v = Failed
    BY <1>1, <2>1, AroundPayload DEF EchoCoverageRequestDecode, Inside
  <2>. QED
    BY <1>1, <2>2
<1>2. CASE j \notin {None, Odd}
  <2>. DEFINE d == CoverageDecode(j.payload)
              p == CoverageFromOgen(d)
  <2>1. j.payload \in {None, Odd} \cup WireMessages(CoverageKinds, CoverageRules)
    BY <1>2
  <2>2. /\ d # Failed /\ CoverageValidate(d) /\ p # Failed <=> FieldsConform(CoverageKinds, {}, j.payload)
        /\ d # Failed /\ CoverageValidate(d) /\ p # Failed =>
             /\ d \in Structs(CoverageKinds) /\ p \in Structs(CoverageKinds)
             /\ OneOfEach(j.payload) => SameMessage(CoverageKinds, j.payload, p)
    BY <2>1, CoverageReceived
  <2>3. v = Around("payload", d)
    BY <1>2 DEF EchoCoverageRequestDecode, Inside
  <2>. HIDE DEF d, v
  <2>4. CASE d = Failed
    <3>1. v = Failed
      BY <2>3, <2>4, AroundPayload
    <3>. QED
      BY <1>2, <2>2, <2>4, <3>1 DEF v
  <2>5. CASE d # Failed
    <3>1. v = [payload |-> d] /\ v.payload = d
      BY <2>3, <2>5, AroundPayload
    <3>2. v # Failed
      <4>1. d \in Structs(CoverageKinds)
        BY <2>1, <2>5, WireClasses, Forms, NoMessageDecoded DEF d, CoverageDecode
      <4>. QED
        BY <3>1, <4>1, NoStruct
    <3>3. EchoCoverageRequestValidate(v) <=> CoverageValidate(d)
      BY <3>1 DEF EchoCoverageRequestValidate
    <3>4. m = Around("payload", p)
      BY <3>1 DEF EchoCoverageRequestFromOgen
    <3>. HIDE DEF p, m
    <3>5. p = Failed => m = Failed
      BY <3>4, AroundPayload
    <3>6. p # Failed => m = [payload |-> p] /\ m.payload = p
      BY <3>4, AroundPayload
    <3>7. CASE CoverageValidate(d) /\ p # Failed
      <4>1. d \in Structs(CoverageKinds) /\ p \in Structs(CoverageKinds)
        BY <2>2, <2>5, <3>7
      <4>2. v \in [payload: Structs(CoverageKinds)] /\ m \in [payload: Structs(CoverageKinds)]
            /\ m # Failed
        BY <3>1, <3>6, <3>7, <4>1, NoStruct
      <4>. QED
        BY <1>2, <2>2, <2>5, <3>2, <3>3, <3>6, <3>7, <4>2 DEF v, m
    <3>8. CASE ~(CoverageValidate(d) /\ p # Failed)
      BY <1>2, <2>2, <3>3, <3>5, <3>8 DEF v, m
    <3>. QED
      BY <3>7, <3>8
  <2>. QED
    BY <2>4, <2>5
<1>. QED
  BY <1>1, <1>2

LEMMA EchoCoverageIsRead ==
  ASSUME NEW src \in {None} \cup
           [payload: {None} \cup ProtoMessages(CoverageKinds, CoverageRules)],
         EchoCoverageResponseToOgen(src) # Failed,
         EchoCoverageResponseValidate(EchoCoverageResponseToOgen(src))
  PROVE  LET v == EchoCoverageResponseDecode(
                    EchoCoverageResponseEncode(EchoCoverageResponseToOgen(src)))
         IN  /\ v # Failed /\ EchoCoverageResponseValidate(v)
             /\ src # None /\ src.payload # None =>
                  SameMessage(CoverageKinds, src.payload, v.payload)
<1>. DEFINE s == IF src = None THEN None ELSE src.payload
            r == CoverageToOgen(s)
            e == CoverageEncode(r)
            d == CoverageDecode(e)
            R == EchoCoverageResponseToOgen(src)
            J == EchoCoverageResponseEncode(R)
            V == EchoCoverageResponseDecode(J)
<1>1. s \in {None} \cup ProtoMessages(CoverageKinds, CoverageRules)
  OBVIOUS
<1>2. R = Around("payload", r)
  BY DEF EchoCoverageResponseToOgen
<1>. HIDE DEF s, r
<1>3. r # Failed /\ R = [payload |-> r] /\ R.payload = r
  BY <1>2, AroundPayload
<1>4. CoverageValidate(r)
  BY <1>3 DEF EchoCoverageResponseValidate
<1>. HIDE DEF R
<1>5. d # Failed /\ CoverageValidate(d) /\ (s # None => SameMessage(CoverageKinds, s, d))
  BY <1>1, <1>3, <1>4, CoverageIsRead DEF r
<1>6. r \in Structs(CoverageKinds)
  <2>1. CASE s = None
    BY <2>1, ZeroDecodes DEF r, CoverageToOgen, ZeroStruct, Structs
  <2>2. CASE s # None
    <3>1. s \in Structs(CoverageKinds) /\ r = ToOgen(CoverageKinds, s)
      BY <1>1, <2>2 DEF ProtoMessages, r, CoverageToOgen
    <3>. QED
      BY <3>1, <1>3, Forms
  <2>. QED
    BY <2>1, <2>2
<1>7. e \in Structs(CoverageKinds)
  BY <1>6, Forms DEF CoverageEncode
<1>8. J = Around("payload", e)
  BY <1>3 DEF EchoCoverageResponseEncode
<1>. HIDE DEF e, J
<1>9. J = [payload |-> e] /\ J.payload = e /\ J \notin {None, Odd}
  BY <1>7, <1>8, AroundPayload, NoStruct
<1>10. V = Around("payload", d)
  BY <1>9 DEF EchoCoverageResponseDecode, Inside
<1>. HIDE DEF d, V
<1>11. V = [payload |-> d] /\ V.payload = d
  BY <1>5, <1>10, AroundPayload
<1>12. d \in Structs(CoverageKinds)
  BY <1>5, <1>7, Forms DEF d, CoverageDecode
<1>13. V # Failed
  BY <1>11, <1>12, NoStruct
<1>14. EchoCoverageResponseValidate(V)
  BY <1>5, <1>11 DEF EchoCoverageResponseValidate
<1>15. src # None /\ src.payload # None => s # None /\ s = src.payload
  BY DEF s
<1>. QED
  BY <1>5, <1>11, <1>13, <1>14, <1>15 DEF V, J, R

=============================================================================
