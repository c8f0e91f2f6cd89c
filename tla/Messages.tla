------------------------------ MODULE Messages ------------------------------
(***************************************************************************)
(* The message types that the generated example sends and receives: their  *)
(* fields with the kind of each, and their generated functions.  The names *)
(* are those of golden.converters.go and of package ogen, with the type    *)
(* first.  Elements of lists and maps and nested messages without rules of *)
(* their own are classes; User and Coverage within other messages are not. *)
(***************************************************************************)
EXTENDS Payloads

UserKinds ==
  [id |-> "uuid", email |-> "plain", displayName |-> "plain", avatarUrl |-> "url",
   status |-> "enum", addresses |-> "list", labels |-> "map",
   createdAt |-> "presence", updatedAt |-> "presence"]

UserRules == {"email", "status", "addresses"}

UserToOgen(src) == IF src = None THEN ZeroStruct(UserKinds) ELSE ToOgen(UserKinds, src)

UserFromOgen(src) == FromOgen(UserKinds, src)

(* Faulty variant of UserValidate: the addresses are not looked at.        *)
UserValidateShallow(v) == Valid(v, {"email", "status"}, {"email"})

UserValidate(v) == Valid(v, {"email", "status", "addresses"}, {"email"})

UserEncode(v) == Encode(UserKinds, v)

UserDecode(j) == Decode(UserKinds, j)

-----------------------------------------------------------------------------
(* The labels of an input are capped at 20 entries.                        *)
UserInputKinds ==
  [email |-> "plain", displayName |-> "plain", roles |-> "list", labels |-> "capped"]

UserInputRules == DOMAIN UserInputKinds

UserInputFromOgen(src) == FromOgen(UserInputKinds, src)

(* A nil list of roles is not counted; labels are counted by Decode.       *)
UserInputValidate(v) ==
  LET ruled == {"email", "displayName", "roles"} IN Valid(v, ruled, ruled)

UserInputEncode(v) == Encode(UserInputKinds, v)

UserInputDecode(j) == Decode(UserInputKinds, j)

-----------------------------------------------------------------------------
CoverageKinds ==
  [boolWrapper |-> "nilable", doubleWrapper |-> "nilable",
   int64Wrapper |-> "nilable", stringWrapper |-> "nilable",
   uint64Wrapper |-> "nilable", optionalString |-> "nilable",
   optionalInt64 |-> "presence", timestampValue |-> "presence",
   durationValue |-> "presence", nested |-> "presence",
   shadowDuration |-> "presence", search |-> "presence", refSlug |-> "presence",
   refNested |-> "presence", kindInt |-> "presence", kindCount |-> "presence",
   boolValue |-> "opt", doubleValue |-> "opt", fixed32Value |-> "opt",
   fixed64Value |-> "opt", floatValue |-> "opt", int32Value |-> "opt",
   int64Value |-> "opt", sfixed32Value |-> "opt", sfixed64Value |-> "opt",
   sint32Value |-> "opt", sint64Value |-> "opt", stringValue |-> "opt",
   uint32Value |-> "opt", uint64Value |-> "opt", repeatedInt32 |-> "list",
   repeatedString |-> "list", nestedMap |-> "map", stringInt64Map |-> "map",
   anyValue |-> "json", listValue |-> "json", structValue |-> "json",
   anyJsonValue |-> "value", bytesValue |-> "bytes", bytesWrapper |-> "nilBytes",
   enumValue |-> "variant", repeatedEnum |-> "enums", fieldMaskValue |-> "mask",
   refId |-> "uuidMember"]

(* No JSON number is one that is not a number.                             *)
NotANumber == {"doubleValue", "doubleWrapper", "floatValue"}

CoverageRules ==
  NotANumber \cup {"enumValue", "repeatedEnum", "fixed32Value", "uint32Value"}

(* The members of the flattened oneofs, in the order of their assignments. *)
CoverageOneofs == {<<"refId", "refSlug", "refNested">>, <<"kindInt", "kindCount">>}

(* No flattened oneof has two members.                                     *)
OneOfEach(x) ==
  \A ms \in CoverageOneofs : \A i, j \in DOMAIN ms :
    i # j => Blank("presence", x[ms[i]]) \/ Blank("presence", x[ms[j]])

CoverageToOgen(src) ==
  IF src = None THEN ZeroStruct(CoverageKinds) ELSE ToOgen(CoverageKinds, src)

CoverageFromOgen(src) ==
  FromOgen(CoverageKinds,
    [f \in DOMAIN src |->
       IF \E ms \in CoverageOneofs : Overwritten(src, ms, f) THEN "unset" ELSE src[f]])

CoverageValidate(v) ==
  Valid(v, {"doubleValue", "doubleWrapper", "floatValue", "enumValue", "repeatedEnum",
            "fixed32Value", "uint32Value"}, {})

CoverageEncode(v) == Encode(CoverageKinds, v)

CoverageDecode(j) == Decode(CoverageKinds, j)

-----------------------------------------------------------------------------
(* Messages around another: a field that is a message, or Failed.          *)
Around(f, v) == IF v = Failed THEN Failed ELSE [x \in {f} |-> v]

(* Its value on the wire: None where the field is absent, Odd where it is  *)
(* not an object.                                                          *)
Inside(j, f) == IF j \in {None, Odd} THEN j ELSE j[f]

EchoCoverageRequestFromOgen(src) == Around("payload", CoverageFromOgen(src.payload))
EchoCoverageRequestValidate(v) == CoverageValidate(v.payload)
EchoCoverageRequestEncode(v) == Around("payload", CoverageEncode(v.payload))
EchoCoverageRequestDecode(j) == Around("payload", CoverageDecode(Inside(j, "payload")))

EchoCoverageResponseToOgen(src) ==
  Around("payload", CoverageToOgen(IF src = None THEN None ELSE src.payload))
EchoCoverageResponseValidate(v) == CoverageValidate(v.payload)
EchoCoverageResponseEncode(v) == Around("payload", CoverageEncode(v.payload))
EchoCoverageResponseDecode(j) == Around("payload", CoverageDecode(Inside(j, "payload")))

-----------------------------------------------------------------------------
UserChangedPayloadFromOgen(src) ==
  LET u == UserFromOgen(src.user)
  IN  IF u = Failed THEN Failed ELSE [action |-> src.action, user |-> u]

UserChangedPayloadValidate(v) == UserValidate(v.user)

UserChangedPayloadEncode(v) == [action |-> v.action, user |-> UserEncode(v.user)]

UserChangedPayloadDecode(j) ==
  LET u == UserDecode(Inside(j, "user"))
  IN  IF u = Failed \/ ~Decodes("plain", j.action) THEN Failed
      ELSE [action |-> j.action, user |-> u]

-----------------------------------------------------------------------------
(* A page of users: "bad" when the converter of a user succeeds and its    *)
(* validator does not, "odd" when the converter fails.                     *)
ListUsersResponseKinds == [users |-> "items", nextPageToken |-> "opt"]

ListUsersResponseToOgen(src) ==
  IF src = None THEN ZeroStruct(ListUsersResponseKinds)
  ELSE ToOgen(ListUsersResponseKinds, src)

(* A nil slice is refused where the property is required.                  *)
ListUsersResponseValidate(v) == v.users # "nil" /\ Valid(v, {"users"}, {})

ListUsersResponseEncode(v) == Encode(ListUsersResponseKinds, v)

ListUsersResponseDecode(j) == Decode(ListUsersResponseKinds, j)

GetHealthResponseKinds == [status |-> "plain"]

GetHealthResponseToOgen(src) ==
  IF src = None THEN ZeroStruct(GetHealthResponseKinds)
  ELSE ToOgen(GetHealthResponseKinds, src)

GetHealthResponseEncode(v) == Encode(GetHealthResponseKinds, v)

GetHealthResponseDecode(j) == Decode(GetHealthResponseKinds, j)

(* The body of every error that the document declares.                     *)
ErrorKinds == [code |-> "plain", message |-> "plain", details |-> "list"]

ErrorDecode(j) == Decode(ErrorKinds, j)

-----------------------------------------------------------------------------
(* A form with files.  Files are read when the message is built; a missing *)
(* list of files is an empty one.                                          *)
CreatePostRequestKinds ==
  [title |-> "plain", content |-> "plain", thumbnail |-> "presence", attachments |-> "list"]

CreatePostRequestFromOgen(src) == FromOgen(CreatePostRequestKinds, src)

CreatePostRequestEncode(v) ==
  [Encode(CreatePostRequestKinds, v) EXCEPT
     !.attachments = IF @ = "zero" THEN "absent" ELSE @]

CreatePostRequestDecode(j) ==
  LET v == Decode(CreatePostRequestKinds, j)
  IN  IF v = Failed THEN Failed
      ELSE [v EXCEPT !.attachments = IF @ = "nil" THEN "zero" ELSE @]

-----------------------------------------------------------------------------
(* An error or an empty body is no message.                                *)
IsNoMessage(m) ==
  /\ \A kinds \in {UserKinds, UserInputKinds, CoverageKinds, ListUsersResponseKinds,
                    GetHealthResponseKinds, CreatePostRequestKinds} :
       m \notin Structs(kinds)
  /\ m \notin [payload: Structs(CoverageKinds)]
  /\ m \notin [action: Classes, user: Structs(UserKinds)]

ASSUME MessagesAssumption == \A m \in {None, Odd, Failed} : IsNoMessage(m)
=============================================================================
