---------------------------- MODULE MCComponents ----------------------------
(* Small protoc requests for Components: two families, one that varies     *)
(* which messages reach which and one that varies what they are called.    *)
EXTENDS Components

A == "A"   \* an ordinary name
L == "L"   \* List: not reserved, but
V == "V"   \* Value is, and so is
LV == "LV" \* ListValue, what Value is qualified to in a package list
PV == "PV" \* and in a package p

Plain(b) == [base |-> b, num |-> 0]

MCReserved == {Plain(V), Plain(LV)}

To(m) == [to |-> m, omitted |-> FALSE]
Hidden(m) == [to |-> m, omitted |-> TRUE]

(* An operation renders a message, or what is written for it by hand.      *)
Of(m) == [msg |-> m, ref |-> NoName]
Written(n) == [msg |-> 1, ref |-> n]

Each(s) == [m \in Messages |-> s[m]]

(* Three messages with all the fields to each other that matter: none, one *)
(* to any message, itself included, two, one that is omitted.  Message 2   *)
(* may be nested in 1 and 3 in 2, or 2 in 3; the marked files hold 1, 2 or *)
(* both at their top level.  Additional properties of message 1 refer, by  *)
(* hand, to the name of message 3, which may or may not be collected.      *)
FieldLists == {<<>>, <<To(1)>>, <<To(2)>>, <<To(3)>>, <<To(2), To(3)>>}

AllShapes ==
  { [fields |-> f, nested |-> n, roots |-> r, ops |-> o, omitted |-> x,
     extra |-> Each(<<Plain(L), NoName, NoName>>),
     schemaName |-> Each(<<NoName, NoName, NoName>>),
     simple |-> Each(<<Plain(A), Plain(A), Plain(L)>>),
     qualified |-> Each(<<Plain(A), Plain(A), Plain(L)>>)] :
    f \in [Messages -> FieldLists \cup {<<Hidden(3)>>}],
    n \in {Each(<<<<>>, <<>>, <<>>>>), Each(<<<<2>>, <<>>, <<>>>>),
           Each(<<<<2>>, <<3>>, <<>>>>), Each(<<<<>>, <<>>, <<2>>>>)},
    r \in {<<1>>, <<2>>, <<1, 2>>},
    o \in {<<Of(1), Of(3)>>, <<Of(2)>>},
    x \in {{}, {1}, {2}, {3}, {2, 3}} }

(* A message is at the top level of a file or nested in one, not both.     *)
Shapes ==
  {r \in AllShapes : \A m \in Messages :
     Range(r.nested[m]) \cap Range(r.roots) = {}}

(* Three messages of three marked files, each with fields of the others,   *)
(* under all the names that can clash: with one another, with a number     *)
(* already given (A and A2), with a reserved name, with a schema_name; and *)
(* a response and a message that refer by hand to a name one of them may   *)
(* have.                                                                   *)
SimpleNames == {Plain(A), [base |-> A, num |-> 2], Plain(V)}
SchemaNames == {NoName, Plain(A), [base |-> A, num |-> 2]}

Namings ==
  { [fields |-> Each(<<<<To(2), To(3)>>, <<To(3), To(1)>>, <<To(1)>>>>),
     nested |-> Each(<<<<>>, <<>>, <<>>>>),
     roots |-> <<1, 2, 3>>, omitted |-> {},
     ops |-> <<Of(3), Written(w), Of(1)>>,
     extra |-> Each(<<NoName, Plain(A), NoName>>),
     schemaName |-> e, simple |-> s,
     qualified |-> Each(<<Plain(PV), Plain(LV), Plain(PV)>>)] :
    e \in [Messages -> SchemaNames], s \in [Messages -> SimpleNames],
    w \in {[base |-> A, num |-> 2], Plain(LV)} }

MCInputs == Shapes \cup Namings
=============================================================================
