------------------------------ MODULE MCBundle ------------------------------
(* Small protoc requests for Bundle, in three families: which files carry  *)
(* which options, which methods meet in a document, and which flags and    *)
(* outputs are asked for.                                                  *)
EXTENDS Bundle

AMethod ==
  [omit |-> FALSE, verb |-> "get", path |-> "/a", hook |-> None, id |-> "x",
   clientStream |-> FALSE, pathParam |-> FALSE, noSideEffects |-> FALSE]

AFile ==
  [generate |-> TRUE, marked |-> TRUE, docLevel |-> FALSE, ogen |-> FALSE,
   converters |-> FALSE, adapter |-> FALSE, version |-> None, mode |-> None,
   package |-> "p", oneof |-> FALSE, badOneof |-> FALSE, methods |-> <<>>]

NoFlags == [mode |-> None, security |-> None, out |-> TRUE]

Request(fs, fl) == [files |-> fs, flags |-> fl]

(* A second method that clashes with AMethod, or not, in each respect.     *)
Other == [AMethod EXCEPT !.path = "/b", !.id = "y"]

(* Three files in any order of roles.                                      *)
Roles ==
  {AFile,
   [AFile EXCEPT !.marked = FALSE, !.docLevel = TRUE],
   [AFile EXCEPT !.generate = FALSE],
   [AFile EXCEPT !.docLevel = TRUE],
   [AFile EXCEPT !.version = "3.0"],
   [AFile EXCEPT !.mode = "object"],
   [AFile EXCEPT !.ogen = TRUE, !.converters = TRUE, !.adapter = TRUE,
                 !.methods = <<AMethod>>],
   [AFile EXCEPT !.package = "q", !.oneof = TRUE, !.methods = <<Other>>]}

Selections == {Request(<<f, g, h>>, NoFlags) : f, g, h \in Roles}

(* Two methods, in one file or in two, with everything that can be wrong   *)
(* with a method.                                                          *)
SomeMethods ==
  { [AMethod EXCEPT !.omit = x[1], !.verb = x[2], !.path = x[3], !.hook = x[4],
                    !.id = x[5]] :
      x \in BOOLEAN \X {"get", "post", None} \X {"/a", "/b", None}
              \X {None, "h"} \X {"x", "y"} }
    \cup { [AMethod EXCEPT !.verb = v, !.hook = h, !.clientStream = c,
                           !.pathParam = p, !.noSideEffects = n] :
             v \in Verbs \cup {None}, h \in {None, "h"},
             c, p, n \in BOOLEAN }

Full(ms, p) ==
  [AFile EXCEPT !.ogen = TRUE, !.converters = TRUE, !.adapter = TRUE,
                !.methods = ms, !.version = p]

Fixed == {AMethod, [Other EXCEPT !.hook = "h"]}

Meetings ==
  {Request(<<Full(<<m, n>>, p)>>, NoFlags) :
     m \in SomeMethods, n \in Fixed, p \in {None, "3.0"}}
  \cup
  {Request(<<Full(<<n, m>>, None)>>, NoFlags) : m \in SomeMethods, n \in Fixed}
  \cup
  {Request(<<Full(<<m>>, p), [AFile EXCEPT !.methods = <<n>>]>>, NoFlags) :
     m \in SomeMethods, n \in Fixed, p \in {None, "3.1"}}

(* One file, all flags and all outputs.                                    *)
Outputs ==
  {Request(<<[AFile EXCEPT !.ogen = x[1], !.converters = x[2],
                           !.adapter = x[3], !.oneof = x[4], !.badOneof = x[5],
                           !.mode = x[6], !.methods = x[7]]>>, fl) :
     x \in BOOLEAN \X BOOLEAN \X BOOLEAN \X BOOLEAN \X BOOLEAN
             \X {None, "object"} \X {<<>>, <<AMethod>>},
     fl \in Flags}

MCRequests == Selections \cup Meetings \cup Outputs
=============================================================================
