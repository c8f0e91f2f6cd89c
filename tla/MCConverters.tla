---------------------------- MODULE MCConverters ----------------------------
(* Small protoc requests for Converters: two families, one of which        *)
(* package and file declares which message and who leads to whom, and one  *)
(* of names.                                                               *)
EXTENDS Converters

Each(a, b, c) == [m \in Messages |-> CASE m = 1 -> a [] m = 2 -> b [] m = 3 -> c]

To(m) == [to |-> m, omitted |-> FALSE]
Hidden(m) == [to |-> m, omitted |-> TRUE]

Op(b, ps, o, e) == [body |-> b, params |-> ps, ok |-> o, err |-> e]

AllPlacements ==
  { [filePkg |-> ps, file |-> Each(1, x[1], x[2]), pkg |-> Each("p", x[3], x[4]),
     fields |-> Each(f[1], f[2], f[3]), omitted |-> o,
     goName |-> Each("A", "B", "C"), ogenName |-> Each("A", "B", "C"),
     ops |-> s, adapter |-> a, faker |-> ~a] :
    ps \in {<<"p">>, <<"p", "p">>, <<"p", "q">>},
    x \in (0 .. 2) \X (0 .. 2) \X {"p", "q"} \X {"p", "q"},
    f \in {{To(2)}, {To(3)}, {To(2), To(3)}}
            \X {{}, {To(3)}, {Hidden(3)}} \X {{}, {To(1)}},
    o \in {{}, {2}, {3}},
    s \in {{Op(1, {}, None, None)}, {Op(1, {}, 2, None)},
           {Op(None, {3}, None, 2), Op(2, {}, 1, None)}},
    a \in BOOLEAN }

(* Files declare messages of their own package.  No message without a      *)
(* component leads to itself but through message 1, which has one: on      *)
(* another the generator would not have returned (see Components).         *)
Placements ==
  {r \in AllPlacements : \A m \in Messages :
     /\ r.file[m] \in 0 .. Len(r.filePkg)
     /\ r.file[m] # 0 => r.pkg[m] = r.filePkg[r.file[m]]}

(* Messages 1 and 2 in the home package, 3 in another, under every name    *)
(* that protogen and ogen may give them.                                   *)
AllNamings ==
  { [filePkg |-> <<"p">>, file |-> Each(1, 1, 0), pkg |-> Each("p", "p", "q"),
     fields |-> Each({To(2), To(3)}, {To(3)}, {}), omitted |-> {},
     goName |-> g, ogenName |-> n,
     ops |-> {Op(1, {}, 2, None)}, adapter |-> TRUE, faker |-> TRUE] :
    g, n \in [Messages -> Names] }

Namings ==
  {r \in AllNamings :
     r.goName[1] # r.goName[2] /\ \A m, n \in Messages :
       m # n => r.ogenName[m] # r.ogenName[n]}

MCRequests == Placements \cup Namings
=============================================================================
