------------------------- MODULE Constraints_proofs -------------------------
(***************************************************************************)
(* TLAPS proofs about Constraints, for every field that FieldOK admits:    *)
(* any rules of any type, any presence and options, alone, in lists and in *)
(* maps, in both versions of OpenAPI.  First what keywords say of one      *)
(* value, by type: numbers, texts, and the rest; then that rules and       *)
(* schema agree where Tightened and Loosened do not apply                  *)
(* (RulesNeverRefuse, RulesNeverAdmit); then RenderInv, what the steps     *)
(* have written; then the field as a whole, by its label.                  *)
(***************************************************************************)
EXTENDS Constraints, FiniteSetTheorems, TLAPS

-----------------------------------------------------------------------------
(* The bounds *)

VersionOK(version) == version \in {"3.0", "3.1"}

(* What a schema says of a number on each side.                            *)
AdmitsBelow(s, n, version) ==
  /\ Has(s, "minimum") => n >= s["minimum"]
  /\ version = "3.1" => (Has(s, "exclusiveMinimum") => n > s["exclusiveMinimum"])
  /\ version = "3.0" =>
       (Has(s, "minimum") /\ Has(s, "exclusiveMinimum") => n # s["minimum"])

AdmitsAbove(s, n, version) ==
  /\ Has(s, "maximum") => n <= s["maximum"]
  /\ version = "3.1" => (Has(s, "exclusiveMaximum") => n < s["exclusiveMaximum"])
  /\ version = "3.0" =>
       (Has(s, "maximum") /\ Has(s, "exclusiveMaximum") => n # s["maximum"])

LEMMA BothSides ==
  ASSUME NEW s, NEW n, NEW version, VersionOK(version)
  PROVE  AdmitsNumber(s, n, version) <=> AdmitsBelow(s, n, version) /\ AdmitsAbove(s, n, version)
  BY DEF AdmitsNumber, AdmitsBelow, AdmitsAbove, VersionOK, Has

LEMMA PutHas ==
  ASSUME NEW s, NEW k, NEW v
  PROVE  /\ Has(Put(s, k, v), k) /\ Put(s, k, v)[k] = v
         /\ \A l : l # k => (Has(Put(s, k, v), l) <=> Has(s, l))
         /\ \A l : l # k /\ Has(s, l) => Put(s, k, v)[l] = s[l]
  BY DEF Put, Has

(* The mark of a strict bound in OpenAPI 3.0.                              *)
Mark(s, x) == Put(s, x, TRUE)

LEMMA MarkHas ==
  ASSUME NEW s, NEW x
  PROVE  /\ Has(Mark(s, x), x)
         /\ \A l : l # x => (Has(Mark(s, x), l) <=> Has(s, l))
         /\ \A l : l # x /\ Has(s, l) => Mark(s, x)[l] = s[l]
  BY DEF Put, Has, Mark

(* SetBound for the inclusive bound and for the strict one.                *)
Inclusive(s, k, v) == IF v = None THEN s ELSE Put(s, k, v)
Strict(s, k, x, v, version) ==
  IF v = None THEN s
  ELSE IF version = "3.1" THEN Put(s, x, v) ELSE Mark(Put(s, k, v), x)

(* The schema after the bounds of one side.                                *)
Below(s, r, version) ==
  Strict(Inclusive(s, "minimum", r.gte), "minimum", "exclusiveMinimum", r.gt, version)
Above(s, r, version) ==
  Strict(Inclusive(s, "maximum", r.lte), "maximum", "exclusiveMaximum", r.lt, version)

\* ApplyNumericRules writes the lower side, then the upper one, then the set.
LEMMA NumericRules ==
  ASSUME NEW s, NEW r, NEW version
  PROVE  ApplyNumericRules(s, r, version) =
           IF r.const # None THEN Put(s, "enum", {Number(r.const)})
           ELSE ApplyIn(Above(Below(s, r, version), r, version), {Number(n) : n \in r.in})
  BY DEF ApplyNumericRules, SetBound, Inclusive, Strict, Mark, Below, Above

LEMMA SideElsewhere ==
  ASSUME NEW s, NEW k, NEW x, NEW v, NEW w, NEW version
  PROVE  \A l : l \notin {k, x} =>
           /\ Has(Strict(Inclusive(s, k, v), k, x, w, version), l) <=> Has(s, l)
           /\ Has(s, l) => Strict(Inclusive(s, k, v), k, x, w, version)[l] = s[l]
<1> DEFINE a == Inclusive(s, k, v)
<1>1. \A l : l \notin {k, x} => (Has(a, l) <=> Has(s, l)) /\ (Has(s, l) => a[l] = s[l])
  BY PutHas DEF Inclusive
<1> HIDE DEF a
<1> DEFINE p == Put(a, k, w)
<1>2. \A l : l \notin {k, x} => (Has(p, l) <=> Has(a, l)) /\ (Has(a, l) => p[l] = a[l])
  BY PutHas
<1>3. \A l : l \notin {k, x} =>
        (Has(Put(a, x, w), l) <=> Has(a, l)) /\ (Has(a, l) => Put(a, x, w)[l] = a[l])
  BY PutHas
<1> HIDE DEF p
<1>4. \A l : l \notin {k, x} =>
        (Has(Mark(p, x), l) <=> Has(p, l)) /\ (Has(p, l) => Mark(p, x)[l] = p[l])
  BY MarkHas
<1>5. Strict(a, k, x, w, version) \in {a, Put(a, x, w), Mark(p, x)}
  BY DEF Strict, p
<1>. QED
  BY <1>1, <1>2, <1>3, <1>4, <1>5 DEF a

(* What a number must be for the bounds of one side.                       *)
AboveLower(r, n) == (r.gt # None => n > r.gt) /\ (r.gte # None => n >= r.gte)
BelowUpper(r, n) == (r.lt # None => n < r.lt) /\ (r.lte # None => n <= r.lte)

\* The lower bounds say what the rule says, of a number that the type has.
LEMMA BelowIsLower ==
  ASSUME NEW s, NEW r, NumberRulesOK(r), NEW version, VersionOK(version), NEW n \in Int,
         ~Has(s, "exclusiveMinimum"), AdmitsBelow(s, n, version)
  PROVE  AdmitsBelow(Below(s, r, version), n, version) <=> AboveLower(r, n)
<1>1. /\ r.gt \in Int \cup {None} /\ r.gte \in Int \cup {None} /\ None \in {r.gt, r.gte}
      /\ None \notin Int
  BY ConstraintsAssumption DEF NumberRulesOK, NumberRules
<1>2. CASE r.gt = None /\ r.gte = None
  BY <1>2 DEF Below, Inclusive, Strict, AboveLower
<1>3. CASE r.gt = None /\ r.gte # None
  <2>1. Below(s, r, version) = Put(s, "minimum", r.gte)
    BY <1>3 DEF Below, Inclusive, Strict
  <2> DEFINE a == Put(s, "minimum", r.gte)
  <2>2. Has(a, "minimum") /\ a["minimum"] = r.gte /\ ~Has(a, "exclusiveMinimum")
    BY PutHas
  <2>. QED
    BY <2>1, <2>2, <1>3 DEF AdmitsBelow, AboveLower
<1>4. CASE r.gt # None /\ version = "3.0"
  <2>1. r.gte = None /\ r.gt \in Int
    BY <1>1, <1>4
  <2> DEFINE p == Put(s, "minimum", r.gt)
  <2>2. Below(s, r, version) = Mark(p, "exclusiveMinimum")
    BY <2>1, <1>4 DEF Below, Inclusive, Strict
  <2>3. Has(p, "minimum") /\ p["minimum"] = r.gt
    BY PutHas
  <2> HIDE DEF p
  <2> DEFINE b == Mark(p, "exclusiveMinimum")
  <2>4. Has(b, "minimum") /\ b["minimum"] = r.gt /\ Has(b, "exclusiveMinimum")
    BY <2>3, MarkHas
  <2>. QED
    BY <2>1, <2>2, <2>4, <1>4 DEF AdmitsBelow, AboveLower
<1>5. CASE r.gt # None /\ version = "3.1"
  <2>1. r.gte = None /\ r.gt \in Int
    BY <1>1, <1>5
  <2> DEFINE b == Put(s, "exclusiveMinimum", r.gt)
  <2>2. Below(s, r, version) = b
    BY <2>1, <1>5 DEF Below, Inclusive, Strict
  <2>3. /\ Has(b, "exclusiveMinimum") /\ b["exclusiveMinimum"] = r.gt
        /\ Has(b, "minimum") <=> Has(s, "minimum")
        /\ Has(s, "minimum") => b["minimum"] = s["minimum"]
    BY PutHas
  <2>. QED
    BY <2>1, <2>2, <2>3, <1>5 DEF AdmitsBelow, AboveLower
<1>. QED
  BY <1>2, <1>3, <1>4, <1>5 DEF VersionOK

\* The upper bounds likewise; no type has one of its own.
LEMMA AboveIsUpper ==
  ASSUME NEW s, NEW r, NumberRulesOK(r), NEW version, VersionOK(version), NEW n \in Int,
         ~Has(s, "exclusiveMaximum"), ~Has(s, "maximum")
  PROVE  AdmitsAbove(Above(s, r, version), n, version) <=> BelowUpper(r, n)
<1>1. /\ r.lt \in Int \cup {None} /\ r.lte \in Int \cup {None} /\ None \in {r.lt, r.lte}
      /\ None \notin Int
  BY ConstraintsAssumption DEF NumberRulesOK, NumberRules
<1>2. CASE r.lt = None /\ r.lte = None
  BY <1>2 DEF Above, Inclusive, Strict, BelowUpper, AdmitsAbove
<1>3. CASE r.lt = None /\ r.lte # None
  <2>1. Above(s, r, version) = Put(s, "maximum", r.lte)
    BY <1>3 DEF Above, Inclusive, Strict
  <2> DEFINE a == Put(s, "maximum", r.lte)
  <2>2. Has(a, "maximum") /\ a["maximum"] = r.lte /\ ~Has(a, "exclusiveMaximum")
    BY PutHas
  <2>. QED
    BY <2>1, <2>2, <1>3 DEF AdmitsAbove, BelowUpper
<1>4. CASE r.lt # None /\ version = "3.0"
  <2>1. r.lte = None /\ r.lt \in Int
    BY <1>1, <1>4
  <2> DEFINE p == Put(s, "maximum", r.lt)
  <2>2. Above(s, r, version) = Mark(p, "exclusiveMaximum")
    BY <2>1, <1>4 DEF Above, Inclusive, Strict
  <2>3. Has(p, "maximum") /\ p["maximum"] = r.lt
    BY PutHas
  <2> HIDE DEF p
  <2> DEFINE b == Mark(p, "exclusiveMaximum")
  <2>4. Has(b, "maximum") /\ b["maximum"] = r.lt /\ Has(b, "exclusiveMaximum")
    BY <2>3, MarkHas
  <2>. QED
    BY <2>1, <2>2, <2>4, <1>4 DEF AdmitsAbove, BelowUpper
<1>5. CASE r.lt # None /\ version = "3.1"
  <2>1. r.lte = None /\ r.lt \in Int
    BY <1>1, <1>5
  <2> DEFINE b == Put(s, "exclusiveMaximum", r.lt)
  <2>2. Above(s, r, version) = b
    BY <2>1, <1>5 DEF Above, Inclusive, Strict
  <2>3. Has(b, "exclusiveMaximum") /\ b["exclusiveMaximum"] = r.lt /\ ~Has(b, "maximum")
    BY PutHas
  <2>. QED
    BY <2>1, <2>2, <2>3, <1>5 DEF AdmitsAbove, BelowUpper
<1>. QED
  BY <1>2, <1>3, <1>4, <1>5 DEF VersionOK

-----------------------------------------------------------------------------
(* The schema of a number *)

Plain == {"int32", "uint32", "double"}

(* The base schema of a number that JSON writes as a number.               *)
Base(k) ==
  IF k = "uint32" THEN [type |-> "number", minimum |-> 0] ELSE [type |-> "number"]

LEMMA BaseHas ==
  ASSUME NEW k, NEW n \in NumbersOf(k), NEW version
  PROVE  /\ Has(Base(k), "type") /\ Base(k)["type"] = "number"
         /\ AdmitsBelow(Base(k), n, version)
         /\ ~Has(Base(k), "exclusiveMinimum") /\ ~Has(Base(k), "maximum")
         /\ ~Has(Base(k), "exclusiveMaximum") /\ ~Has(Base(k), "enum")
  BY DEF Base, Has, NumbersOf, AdmitsBelow

\* What the bounds leave of the other keywords.
LEMMA BoundsHave ==
  ASSUME NEW k, NEW r, NumberRulesOK(r), NEW version, VersionOK(version),
         NEW n \in NumbersOf(k)
  PROVE  LET d == Above(Below(Base(k), r, version), r, version)
         IN  /\ Has(d, "type") /\ d["type"] = "number" /\ ~Has(d, "enum")
             /\ AdmitsNumber(d, n, version) <=> AboveLower(r, n) /\ BelowUpper(r, n)
<1> DEFINE b == Below(Base(k), r, version)
<1> DEFINE d == Above(b, r, version)
<1>1. n \in Int
  BY DEF NumbersOf
<1>2. \A l : l \notin {"minimum", "exclusiveMinimum"} =>
        (Has(b, l) <=> Has(Base(k), l)) /\ (Has(Base(k), l) => b[l] = Base(k)[l])
  BY SideElsewhere DEF Below
<1>3. AdmitsBelow(b, n, version) <=> AboveLower(r, n)
  BY <1>1, BaseHas, BelowIsLower
<1>4. /\ Has(b, "type") /\ b["type"] = "number"
      /\ ~Has(b, "maximum") /\ ~Has(b, "exclusiveMaximum") /\ ~Has(b, "enum")
  BY <1>2, BaseHas
<1> HIDE DEF b
<1>5. \A l : l \notin {"maximum", "exclusiveMaximum"} =>
        (Has(d, l) <=> Has(b, l)) /\ (Has(b, l) => d[l] = b[l])
  BY SideElsewhere DEF Above
<1>6. AdmitsAbove(d, n, version) <=> BelowUpper(r, n)
  BY <1>1, <1>4, AboveIsUpper
<1> HIDE DEF d
<1>7. AdmitsBelow(d, n, version) <=> AdmitsBelow(b, n, version)
  BY <1>5 DEF AdmitsBelow
<1>8. AdmitsNumber(d, n, version) <=> AboveLower(r, n) /\ BelowUpper(r, n)
  BY <1>3, <1>6, <1>7, BothSides
<1>9. Has(d, "type") /\ d["type"] = "number" /\ ~Has(d, "enum")
  BY <1>4, <1>5
<1>. QED
  BY <1>8, <1>9 DEF b, d

LEMMA JsonOfNumber ==
  ASSUME NEW n
  PROVE  Number(n).json = "number" /\ Number(n).of = n
  BY DEF Number

-----------------------------------------------------------------------------
(* Keywords *)

\* An enum keyword says which values are listed, the others say the rest.
AdmitsRest(s, k, j, version) ==
  /\ Has(s, "type") => j.json = s["type"]
  /\ j.json = "number" => AdmitsNumber(s, j.of, version)
  /\ j.json = "string" => AdmitsText(s, k, j.of)

AdmitsListed(s, j) == Has(s, "enum") => Listed(s["enum"], j)

LEMMA RestAndListed ==
  ASSUME NEW s, NEW k, NEW j, NEW version
  PROVE  AdmitsJson(s, k, j, version) <=> AdmitsRest(s, k, j, version) /\ AdmitsListed(s, j)
  BY DEF AdmitsJson, AdmitsRest, AdmitsListed

\* What a schema says beside enum is the same if the other keywords are.
SameRest(s, t) ==
  \A l : l # "enum" => (Has(s, l) <=> Has(t, l)) /\ (Has(t, l) => s[l] = t[l])

LEMMA SameRestAdmits ==
  ASSUME NEW s, NEW t, SameRest(s, t), NEW k, NEW j, NEW version
  PROVE  AdmitsRest(s, k, j, version) <=> AdmitsRest(t, k, j, version)
<1>1. ASSUME NEW l, l # "enum"
      PROVE  (Has(s, l) <=> Has(t, l)) /\ (Has(t, l) => s[l] = t[l])
  BY <1>1 DEF SameRest
<1>2. AdmitsNumber(s, j.of, version) <=> AdmitsNumber(t, j.of, version)
  <2>1. \A l \in {"minimum", "maximum", "exclusiveMinimum", "exclusiveMaximum"} :
          (Has(s, l) <=> Has(t, l)) /\ (Has(t, l) => s[l] = t[l])
    BY <1>1
  <2>. QED
    BY <2>1 DEF AdmitsNumber, Has
<1>3. AdmitsText(s, k, j.of) <=> AdmitsText(t, k, j.of)
  BY <1>1 DEF AdmitsText
<1>4. (Has(s, "type") => j.json = s["type"]) <=> (Has(t, "type") => j.json = t["type"])
  BY <1>1
<1>. QED
  BY <1>2, <1>3, <1>4 DEF AdmitsRest

LEMMA PutEnum ==
  ASSUME NEW s, NEW J
  PROVE  /\ SameRest(Put(s, "enum", J), s)
         /\ Has(Put(s, "enum", J), "enum") /\ Put(s, "enum", J)["enum"] = J
  BY PutHas DEF SameRest

(* A schema that says nothing of a text but that it is one.                *)
SaysText(s) ==
  /\ \A l \in {"enum", "minLength", "maxLength", "pattern", "format"} : ~Has(s, l)
  /\ Has(s, "type") => s["type"] = "string"

LEMMA JsonOfText ==
  ASSUME NEW t
  PROVE  String(t).json = "string" /\ String(t).of = t
  BY DEF String

LEMMA TextRest ==
  ASSUME NEW s, NEW k, NEW t, NEW version
  PROVE  AdmitsRest(s, k, String(t), version) <=>
           (Has(s, "type") => s["type"] = "string") /\ AdmitsText(s, k, t)
  BY JsonOfText DEF AdmitsRest

LEMMA TextIsAdmitted ==
  ASSUME NEW s, SaysText(s), NEW k, NEW t, NEW version
  PROVE  /\ AdmitsRest(s, k, String(t), version)
         /\ AdmitsListed(s, String(t))
<1>1. ~Has(s, "enum") /\ ~Has(s, "minLength") /\ ~Has(s, "maxLength")
  BY DEF SaysText
<1>2. ~Has(s, "pattern") /\ ~Has(s, "format") /\ (Has(s, "type") => s["type"] = "string")
  BY DEF SaysText
<1>. QED
  BY <1>1, <1>2, TextRest DEF AdmitsText, AdmitsListed

LEMMA PutIfSetHas ==
  ASSUME NEW s, NEW k, NEW v
  PROVE  /\ v = None => PutIfSet(s, k, v) = s
         /\ v # None => Has(PutIfSet(s, k, v), k) /\ PutIfSet(s, k, v)[k] = v
         /\ \A l : l # k => (Has(PutIfSet(s, k, v), l) <=> Has(s, l))
         /\ \A l : l # k => (Has(s, l) => PutIfSet(s, k, v)[l] = s[l])
  BY PutHas DEF PutIfSet

-----------------------------------------------------------------------------
(* Numbers written as text: 64-bit numbers, and keys *)

\* Bounds say nothing of a text, and no text is one of a set of numbers.
LEMMA NumericOnText ==
  ASSUME NEW s, SaysText(s), NEW r, NEW k, NEW t, NEW version
  PROVE  LET S == ApplyNumericRules(s, r, version)
         IN  /\ AdmitsRest(S, k, String(t), version)
             /\ AdmitsListed(S, String(t)) <=> ~OneOfSet(r)
<1> DEFINE S == ApplyNumericRules(s, r, version)
<1> DEFINE b == Below(s, r, version)
<1> DEFINE d == Above(b, r, version)
<1>1. \A l : l \notin {"minimum", "exclusiveMinimum"} =>
        (Has(b, l) <=> Has(s, l)) /\ (Has(s, l) => b[l] = s[l])
  BY SideElsewhere DEF Below
<1> HIDE DEF b
<1>2. \A l : l \notin {"maximum", "exclusiveMaximum"} =>
        (Has(d, l) <=> Has(b, l)) /\ (Has(b, l) => d[l] = b[l])
  BY SideElsewhere DEF Above
<1> HIDE DEF d
<1>3. SaysText(d)
  BY <1>1, <1>2 DEF SaysText
<1>4. CASE r.const # None
  <2>1. S = Put(s, "enum", {Number(r.const)})
    BY <1>4, NumericRules
  <2>2. AdmitsRest(S, k, String(t), version)
    BY <2>1, PutEnum, SameRestAdmits, TextIsAdmitted
  <2>3. ~AdmitsListed(S, String(t))
    BY <2>1, PutEnum, JsonOfNumber, JsonOfText DEF AdmitsListed, Listed
  <2>. QED
    BY <1>4, <2>2, <2>3 DEF OneOfSet
<1>5. CASE r.const = None /\ r.in = {}
  <2>1. S = d
    BY <1>5, NumericRules DEF ApplyIn, b, d
  <2>. QED
    BY <1>3, <1>5, <2>1, TextIsAdmitted DEF OneOfSet
<1>6. CASE r.const = None /\ r.in # {}
  <2> DEFINE V == {Number(m) : m \in r.in}
  <2>1. V # {}
    BY <1>6
  <2>2. S = Put(d, "enum", V)
    BY <1>6, <2>1, NumericRules DEF ApplyIn, b, d
  <2>3. \A e \in V : e.json # "string"
    BY JsonOfNumber
  <2> HIDE DEF V
  <2>4. AdmitsRest(S, k, String(t), version)
    BY <1>3, <2>2, PutEnum, SameRestAdmits, TextIsAdmitted
  <2>5. ~AdmitsListed(S, String(t))
    BY <2>2, <2>3, PutEnum, JsonOfText DEF AdmitsListed, Listed
  <2>. QED
    BY <1>6, <2>4, <2>5 DEF OneOfSet
<1>. QED
  BY <1>4, <1>5, <1>6

-----------------------------------------------------------------------------
(* Text *)

LengthsAdmit(s, n) ==
  /\ Has(s, "minLength") => n >= s["minLength"]
  /\ Has(s, "maxLength") => n <= s["maxLength"]

\* The lengths that a rule gives, when one excludes the others.
LEMMA LengthsSay ==
  ASSUME NEW s, SaysText(s), NEW r, NEW n,
         r.len # None => r.minLen = None /\ r.maxLen = None,
         r.len # None => (n = r.len <=> n >= r.len /\ n <= r.len)
  PROVE  LET a == ApplyLengths(s, r)
         IN  /\ LengthsAdmit(a, n) <=> LengthsAllow(r, n)
             /\ \A l : l \notin {"minLength", "maxLength"} =>
                   (Has(a, l) <=> Has(s, l)) /\ (Has(s, l) => a[l] = s[l])
<1> DEFINE a1 == PutIfSet(s, "minLength", r.len)
<1> DEFINE a2 == PutIfSet(a1, "maxLength", r.len)
<1> DEFINE a3 == PutIfSet(a2, "minLength", r.minLen)
<1> DEFINE a == PutIfSet(a3, "maxLength", r.maxLen)
<1>0. ApplyLengths(s, r) = a
  BY DEF ApplyLengths
<1>1. ~Has(s, "minLength") /\ ~Has(s, "maxLength")
  BY DEF SaysText
<1>2. /\ r.len = None => a1 = s
      /\ r.len # None => Has(a1, "minLength") /\ a1["minLength"] = r.len
      /\ \A l : l # "minLength" => (Has(a1, l) <=> Has(s, l)) /\ (Has(s, l) => a1[l] = s[l])
  BY PutIfSetHas
<1> HIDE DEF a1
<1>3. /\ r.len = None => a2 = a1
      /\ r.len # None => Has(a2, "maxLength") /\ a2["maxLength"] = r.len
      /\ \A l : l # "maxLength" => (Has(a2, l) <=> Has(a1, l)) /\ (Has(a1, l) => a2[l] = a1[l])
  BY PutIfSetHas
<1> HIDE DEF a2
<1>4. /\ r.minLen = None => a3 = a2
      /\ r.minLen # None => Has(a3, "minLength") /\ a3["minLength"] = r.minLen
      /\ \A l : l # "minLength" => (Has(a3, l) <=> Has(a2, l)) /\ (Has(a2, l) => a3[l] = a2[l])
  BY PutIfSetHas
<1> HIDE DEF a3
<1>5. /\ r.maxLen = None => a = a3
      /\ r.maxLen # None => Has(a, "maxLength") /\ a["maxLength"] = r.maxLen
      /\ \A l : l # "maxLength" => (Has(a, l) <=> Has(a3, l)) /\ (Has(a3, l) => a[l] = a3[l])
  BY PutIfSetHas
<1> HIDE DEF a
<1>6. \A l : l \notin {"minLength", "maxLength"} =>
        (Has(a, l) <=> Has(s, l)) /\ (Has(s, l) => a[l] = s[l])
  BY <1>2, <1>3, <1>4, <1>5
<1>7. CASE r.len # None
  BY <1>0, <1>2, <1>3, <1>4, <1>5, <1>6, <1>7 DEF LengthsAllow, Within, LengthsAdmit
<1>8. CASE r.len = None
  <2>1. Has(a, "minLength") <=> r.minLen # None
    BY <1>1, <1>2, <1>3, <1>4, <1>5, <1>8
  <2>2. Has(a, "maxLength") <=> r.maxLen # None
    BY <1>1, <1>2, <1>3, <1>4, <1>5, <1>8
  <2>3. r.minLen # None => a["minLength"] = r.minLen
    BY <1>4, <1>5
  <2>4. r.maxLen # None => a["maxLength"] = r.maxLen
    BY <1>5
  <2>. QED
    BY <1>0, <1>6, <1>8, <2>1, <2>2, <2>3, <2>4 DEF LengthsAllow, Within, LengthsAdmit
<1>. QED
  BY <1>7, <1>8

(* What the keywords of a rule without const say of a text.                *)
PatternSays(r, v) ==
  IF r.pattern # None THEN v \in r.pattern
  ELSE \/ r.prefix = <<>> /\ r.suffix = <<>> /\ r.contains = <<>>
       \/ /\ IsPrefix(r.prefix, v) /\ IsSuffix(r.suffix, v)
          /\ Len(r.prefix) + Len(r.suffix) <= Len(v)
          /\ Occurs(r.contains, v)

TextSays(r, v) ==
  /\ LengthsAllow(r, Len(v)) /\ PatternSays(r, v)
  /\ StringFormat(r) # None => v \in Conforming[StringFormat(r)]

LEMMA PatternIs ==
  ASSUME NEW s, ~Has(s, "pattern"), NEW r, NEW k, k # "bytes", NEW v
  PROVE  LET p == ApplyPattern(s, r)
         IN  /\ (Has(p, "pattern") => Matches(p["pattern"], k, v)) <=> PatternSays(r, v)
             /\ \A l : l # "pattern" => (Has(p, l) <=> Has(s, l)) /\ (Has(s, l) => p[l] = s[l])
<1> DEFINE p == ApplyPattern(s, r)
<1>1. CASE r.pattern # None
  <2> DEFINE m == [matches |-> r.pattern]
  <2>1. Has(m, "matches") /\ m.matches = r.pattern
    BY DEF Has
  <2>2. Matches(m, k, v) <=> v \in r.pattern
    BY <2>1 DEF Matches
  <2> HIDE DEF m
  <2>3. p = Put(s, "pattern", m)
    BY <1>1 DEF ApplyPattern, m
  <2>. QED
    BY <1>1, <2>2, <2>3, PutHas DEF PatternSays
<1>2. CASE r.pattern = None /\ r.prefix = <<>> /\ r.suffix = <<>> /\ r.contains = <<>>
  <2>1. p = s
    BY <1>2 DEF ApplyPattern
  <2>2. PatternSays(r, v)
    BY <1>2 DEF PatternSays
  <2>. QED
    BY <2>1, <2>2
<1>3. CASE r.pattern = None /\ ~(r.prefix = <<>> /\ r.suffix = <<>> /\ r.contains = <<>>)
  <2> DEFINE m == AffixPattern(r)
  <2>1. /\ ~Has(m, "matches")
        /\ m.prefix = r.prefix /\ m.suffix = r.suffix /\ m.contains = r.contains
    BY DEF Has, AffixPattern
  <2> HIDE DEF m
  <2>2. Matches(m, k, v) <=> PatternSays(r, v)
    BY <1>3, <2>1 DEF Matches, PatternSays
  <2>3. p = Put(s, "pattern", m)
    BY <1>3 DEF ApplyPattern, m
  <2>. QED
    BY <2>2, <2>3, PutHas
<1>. QED
  BY <1>1, <1>2, <1>3

LEMMA StringRest ==
  ASSUME NEW s, SaysText(s), NEW r, StringRulesOK(r), NEW k, k # "bytes",
         NEW v \in Seq(Chars), NEW version
  PROVE  LET S == ApplyStringRules(s, r)
         IN  /\ r.const # None => AdmitsRest(S, k, String(v), version)
             /\ r.const = None => (AdmitsRest(S, k, String(v), version) <=> TextSays(r, v))
<1> DEFINE S == ApplyStringRules(s, r)
<1> DEFINE a == ApplyLengths(s, r)
<1> DEFINE p == ApplyPattern(a, r)
<1> DEFINE V == {String(x) : x \in r.in}
<1> DEFINE b == ApplyIn(p, V)
<1> DEFINE c == PutIfSet(b, "format", StringFormat(r))
<1>0. /\ r.len \in {None} \cup Nat /\ Len(v) \in Nat /\ None \notin Int
      /\ r.len # None => r.minLen = None /\ r.maxLen = None
  BY ConstraintsAssumption DEF StringRulesOK, StringRules, Length
<1>1. /\ LengthsAdmit(a, Len(v)) <=> LengthsAllow(r, Len(v))
      /\ \A l : l \notin {"minLength", "maxLength"} =>
            (Has(a, l) <=> Has(s, l)) /\ (Has(s, l) => a[l] = s[l])
  <2>1. r.len # None => (Len(v) = r.len <=> Len(v) >= r.len /\ Len(v) <= r.len)
    BY <1>0
  <2>. QED
    BY <1>0, <2>1, LengthsSay
<1>2. ~Has(a, "pattern") /\ ~Has(a, "format") /\ ~Has(a, "enum")
  BY <1>1 DEF SaysText
<1>3. Has(a, "type") => a["type"] = "string"
  BY <1>1 DEF SaysText
<1> HIDE DEF a
<1>4. /\ (Has(p, "pattern") => Matches(p["pattern"], k, v)) <=> PatternSays(r, v)
      /\ \A l : l # "pattern" => (Has(p, l) <=> Has(a, l)) /\ (Has(a, l) => p[l] = a[l])
  BY <1>2, PatternIs
<1> HIDE DEF p
<1>5. \A l : l # "enum" => (Has(b, l) <=> Has(p, l)) /\ (Has(p, l) => b[l] = p[l])
  BY PutHas DEF ApplyIn
<1> HIDE DEF b
<1>7. /\ StringFormat(r) = None => c = b
      /\ StringFormat(r) # None => Has(c, "format") /\ c["format"] = StringFormat(r)
      /\ \A l : l # "format" => (Has(c, l) <=> Has(b, l)) /\ (Has(b, l) => c[l] = b[l])
  BY PutIfSetHas
<1>8. CASE r.const # None
  <2>1. S = Put(s, "enum", {String(r.const)})
    BY <1>8 DEF ApplyStringRules
  <2>2. AdmitsRest(S, k, String(v), version)
    BY <2>1, PutEnum, SameRestAdmits, TextIsAdmitted
  <2>. QED
    BY <1>8, <2>2
<1>9. CASE r.const = None
  <2>1. ~Has(b, "format")
    BY <1>2, <1>4, <1>5
  <2>2. S = c
    BY <1>9, <2>1 DEF ApplyStringRules, a, p, b
  <2> HIDE DEF c, S
  <2>4. Has(S, "type") => S["type"] = "string"
    BY <1>3, <1>4, <1>5, <1>7, <2>2
  <2>5. \A l \in {"minLength", "maxLength"} :
          (Has(S, l) <=> Has(a, l)) /\ (Has(a, l) => S[l] = a[l])
    BY <1>4, <1>5, <1>7, <2>2
  <2>6. (Has(S, "pattern") => Matches(S["pattern"], k, v)) <=> PatternSays(r, v)
    BY <1>4, <1>5, <1>7, <2>2
  <2>7. (Has(S, "format") => v \in Conforming[S["format"]]) <=>
          (StringFormat(r) # None => v \in Conforming[StringFormat(r)])
    BY <1>7, <2>1, <2>2
  <2>8. AdmitsText(S, k, v) <=> TextSays(r, v)
    BY <1>1, <2>5, <2>6, <2>7 DEF AdmitsText, TextSays, TextLength, LengthsAdmit
  <2>. QED
    BY <1>9, <2>4, <2>8, TextRest DEF S
<1>. QED
  BY <1>8, <1>9

\* An enum keyword lists const, or the values of in.
LEMMA StringListed ==
  ASSUME NEW s, SaysText(s), NEW r, NEW v
  PROVE  AdmitsListed(ApplyStringRules(s, r), String(v)) <=>
           IF r.const # None THEN v = r.const ELSE r.in # {} => v \in r.in
<1> DEFINE S == ApplyStringRules(s, r)
<1> DEFINE a == ApplyLengths(s, r)
<1> DEFINE p == ApplyPattern(a, r)
<1> DEFINE V == {String(x) : x \in r.in}
<1> DEFINE b == ApplyIn(p, V)
<1> DEFINE c == PutIfSet(b, "format", StringFormat(r))
<1>1. ~Has(a, "enum")
  BY PutIfSetHas DEF ApplyLengths, SaysText
<1> HIDE DEF a
<1>2. ~Has(p, "enum")
  BY <1>1, PutHas DEF ApplyPattern
<1> HIDE DEF p
<1>3. AdmitsListed(b, String(v)) <=> (r.in # {} => v \in r.in)
  <2>1. CASE r.in = {}
    <3>1. V = {}
      BY <2>1
    <3>2. b = p
      BY <3>1 DEF ApplyIn
    <3>. QED
      BY <1>2, <2>1, <3>2 DEF AdmitsListed
  <2>2. CASE r.in # {}
    <3>1. V # {}
      BY <2>2
    <3>2. Listed(V, String(v)) <=> v \in r.in
      BY JsonOfText DEF Listed
    <3> HIDE DEF V
    <3>3. b = Put(p, "enum", V)
      BY <3>1 DEF ApplyIn
    <3>. QED
      BY <2>2, <3>2, <3>3, PutHas DEF AdmitsListed
  <2>. QED
    BY <2>1, <2>2
<1> HIDE DEF b
<1>4. /\ Has(c, "enum") <=> Has(b, "enum")
      /\ Has(b, "enum") => c["enum"] = b["enum"]
  BY PutIfSetHas
<1>5. CASE r.const # None
  <2>1. S = Put(s, "enum", {String(r.const)})
    BY <1>5 DEF ApplyStringRules
  <2>. QED
    BY <1>5, <2>1, PutEnum, JsonOfText DEF AdmitsListed, Listed
<1>6. CASE r.const = None
  <2>1. S = b \/ S = c
    BY <1>6 DEF ApplyStringRules, a, p, b
  <2> HIDE DEF c, S
  <2>2. AdmitsListed(S, String(v)) <=> AdmitsListed(b, String(v))
    BY <1>4, <2>1 DEF AdmitsListed
  <2>. QED
    BY <1>3, <1>6, <2>2 DEF S
<1>. QED
  BY <1>5, <1>6

-----------------------------------------------------------------------------
(* One value *)

(* A value of a kind.                                                      *)
ValueOK(k, v) ==
  /\ k \in Numbers => v \in NumbersOf(k)
  /\ k = "bool" => v \in BOOLEAN
  /\ k = "string" => v \in Seq(Chars)
  /\ k = "bytes" => v \in Nat
  /\ k = "enum" => v \in EnumValues

LEMMA ScalarsAreValues ==
  ASSUME NEW k \in Kinds, NEW v \in Scalars(k)
  PROVE  ValueOK(k, v) /\ v # None
  BY ScalarsAssumption DEF ValueOK

(* The schema of a value: its base with the rules written into it.         *)
ValueSchema(k, r, asString, version) ==
  ApplyFieldRules(ScalarSchema(k, asString), r, asString, version)

(* What it says of a value, beside enum and in enum.                       *)
RestSays(k, r, asString, version, v) ==
  AdmitsRest(ValueSchema(k, r, asString, version), k, Json(k, asString, v), version)

EnumSays(k, r, asString, version, v) ==
  AdmitsListed(ValueSchema(k, r, asString, version), Json(k, asString, v))

\* Without rules every value is admitted.
LEMMA BaseAdmits ==
  ASSUME NEW k \in Kinds, NEW asString, NEW version, VersionOK(version),
         NEW v, ValueOK(k, v)
  PROVE  /\ AdmitsRest(ScalarSchema(k, asString), k, Json(k, asString, v), version)
         /\ AdmitsListed(ScalarSchema(k, asString), Json(k, asString, v))
<1> DEFINE s == ScalarSchema(k, asString)
<1> DEFINE j == Json(k, asString, v)
<1>1. CASE k \in Plain
  <2>1. s = Base(k) /\ j = Number(v) /\ v \in NumbersOf(k)
    BY <1>1 DEF Plain, ScalarSchema, Base, Json, Wide, ValueOK, Numbers
  <2>2. AdmitsNumber(Base(k), v, version)
    BY <2>1, BaseHas, BothSides DEF AdmitsAbove
  <2>. QED
    BY <2>1, <2>2, BaseHas, JsonOfNumber DEF AdmitsRest, AdmitsListed
<1>2. CASE k \in Wide \cup {"string", "bytes", "time"}
  <2>1. s = [type |-> "string"] /\ j = String(v)
    BY <1>2 DEF Wide, ScalarSchema, Json
  <2>2. SaysText(s)
    BY <2>1 DEF SaysText, Has
  <2>. QED
    BY <2>1, <2>2, TextIsAdmitted
<1>3. CASE k = "bool"
  <2>1. s = [type |-> "boolean"] /\ j = Bool(v)
    BY <1>3 DEF ScalarSchema, Json, Wide
  <2>. QED
    BY <2>1 DEF AdmitsRest, AdmitsListed, Has, Bool
<1>4. CASE k = "message"
  <2>1. s = [ref |-> TRUE] /\ j = Number(v)
    BY <1>4 DEF ScalarSchema, Json, Wide
  <2>. QED
    BY <2>1 DEF AdmitsRest, AdmitsListed, AdmitsNumber, Has, Number, VersionOK
<1>5. CASE k = "enum"
  <2>1. s = EnumSchema(asString) /\ v \in EnumValues
    BY <1>5 DEF ScalarSchema, ValueOK
  <2>2. /\ DOMAIN s = {"type", "enum"} /\ s["enum"] = {Json("enum", asString, x) : x \in EnumValues}
        /\ s["type"] = IF asString THEN "string" ELSE "number"
    BY <2>1 DEF EnumSchema
  <2>3. j = IF asString THEN String(v) ELSE Number(v)
    BY <1>5 DEF Json, Wide
  <2> HIDE DEF s
  <2>4. AdmitsListed(s, j)
    BY <1>5, <2>1, <2>2 DEF AdmitsListed, Listed
  <2>5. AdmitsNumber(s, j.of, version) /\ AdmitsText(s, k, j.of)
    BY <2>2 DEF AdmitsNumber, AdmitsText, Has, VersionOK
  <2>6. j.json = s["type"]
    BY <2>2, <2>3, JsonOfNumber, JsonOfText
  <2>7. AdmitsRest(s, k, j, version)
    BY <2>5, <2>6 DEF AdmitsRest
  <2>. QED
    BY <2>4, <2>7 DEF s
<1>. QED
  BY <1>1, <1>2, <1>3, <1>4, <1>5 DEF Kinds, Numbers, Plain, Wide

\* Without rules nothing is written.
LEMMA NoRules ==
  ASSUME NEW k \in Kinds, NEW asString, NEW version, VersionOK(version), NEW v, ValueOK(k, v),
         NEW r, r = None
  PROVE  RestSays(k, r, asString, version, v) /\ EnumSays(k, r, asString, version, v)
  BY BaseAdmits DEF RestSays, EnumSays, ValueSchema, ApplyFieldRules

LEMMA PlainSays ==
  ASSUME NEW k \in Plain, NEW asString, NEW version, VersionOK(version), NEW n \in NumbersOf(k),
         NEW r, r # None, NumberRulesOK(r)
  PROVE  /\ RestSays(k, r, asString, version, n) <=> AboveLower(r, n) /\ BelowUpper(r, n)
         /\ EnumSays(k, r, asString, version, n) <=> OneOf(r, n)
<1> DEFINE S == ApplyNumericRules(Base(k), r, version)
<1> DEFINE d == Above(Below(Base(k), r, version), r, version)
<1>1. ValueSchema(k, r, asString, version) = S /\ Json(k, asString, n) = Number(n)
  BY DEF ValueSchema, ApplyFieldRules, NumberRulesOK, NumberRules, ScalarSchema, Base, Plain, Json, Wide
<1>2. /\ Has(d, "type") /\ d["type"] = "number" /\ ~Has(d, "enum")
      /\ AdmitsNumber(d, n, version) <=> AboveLower(r, n) /\ BelowUpper(r, n)
  BY BoundsHave
<1>3. AdmitsRest(d, k, Number(n), version) <=> AboveLower(r, n) /\ BelowUpper(r, n)
  BY <1>2, JsonOfNumber DEF AdmitsRest
<1> HIDE DEF d
<1>4. CASE r.const # None
  <2>1. S = Put(Base(k), "enum", {Number(r.const)})
    BY <1>4, NumericRules
  <2>2. r.in = {} /\ r.gt = None /\ r.gte = None /\ r.lt = None /\ r.lte = None
    BY <1>4, ConstraintsAssumption DEF NumberRulesOK, NumberRules, Lower, Upper
  <2>3. AdmitsNumber(Base(k), n, version)
    BY BaseHas, BothSides DEF AdmitsAbove
  <2>4. AdmitsRest(Base(k), k, Number(n), version)
    BY <2>3, BaseHas, JsonOfNumber DEF AdmitsRest
  <2>5. AdmitsRest(S, k, Number(n), version)
    BY <2>1, <2>4, PutEnum, SameRestAdmits
  <2>6. AdmitsListed(S, Number(n)) <=> n = r.const
    BY <2>1, PutEnum, JsonOfNumber DEF AdmitsListed, Listed
  <2>7. AboveLower(r, n) /\ BelowUpper(r, n) /\ (OneOf(r, n) <=> n = r.const)
    BY <1>4, <2>2 DEF AboveLower, BelowUpper, OneOf
  <2> HIDE DEF S
  <2>. QED
    BY <1>1, <2>5, <2>6, <2>7 DEF RestSays, EnumSays
<1>5. CASE r.const = None /\ r.in = {}
  <2>1. S = d
    BY <1>5, NumericRules DEF ApplyIn, d
  <2>2. OneOf(r, n) /\ AdmitsListed(d, Number(n))
    BY <1>2, <1>5 DEF OneOf, AdmitsListed
  <2> HIDE DEF S
  <2>. QED
    BY <1>1, <1>3, <2>1, <2>2 DEF RestSays, EnumSays
<1>6. CASE r.const = None /\ r.in # {}
  <2> DEFINE V == {Number(m) : m \in r.in}
  <2>1. V # {}
    BY <1>6
  <2>2. S = Put(d, "enum", V)
    BY <1>6, <2>1, NumericRules DEF ApplyIn, d
  <2>3. Listed(V, Number(n)) <=> n \in r.in
    BY JsonOfNumber DEF Listed
  <2> HIDE DEF V
  <2>4. AdmitsRest(S, k, Number(n), version) <=> AdmitsRest(d, k, Number(n), version)
    BY <2>2, PutEnum, SameRestAdmits
  <2>5. AdmitsListed(S, Number(n)) <=> n \in r.in
    BY <2>2, <2>3, PutEnum DEF AdmitsListed
  <2>6. OneOf(r, n) <=> n \in r.in
    BY <1>6 DEF OneOf
  <2> HIDE DEF S
  <2>. QED
    BY <1>1, <1>3, <2>4, <2>5, <2>6 DEF RestSays, EnumSays
<1>. QED
  BY <1>4, <1>5, <1>6

LEMMA WideSays ==
  ASSUME NEW k \in Wide, NEW asString, NEW version, NEW n, NEW r, r # None, NumberRulesOK(r)
  PROVE  /\ RestSays(k, r, asString, version, n)
         /\ EnumSays(k, r, asString, version, n) <=> ~OneOfSet(r)
<1> DEFINE s == [type |-> "string"]
<1>1. SaysText(s)
  BY DEF SaysText, Has
<1>2. ScalarSchema(k, asString) = s /\ Json(k, asString, n) = String(n) /\ r.type = "number"
  BY DEF ScalarSchema, Json, Wide, NumberRulesOK, NumberRules
<1> HIDE DEF s
<1>3. ValueSchema(k, r, asString, version) = ApplyNumericRules(s, r, version)
  BY <1>2 DEF ValueSchema, ApplyFieldRules
<1>. QED
  BY <1>1, <1>2, <1>3, NumericOnText DEF RestSays, EnumSays

LEMMA BoolSays ==
  ASSUME NEW asString, NEW version, NEW v, NEW r, r # None, r \in BoolRules
  PROVE  /\ RestSays("bool", r, asString, version, v)
         /\ EnumSays("bool", r, asString, version, v) <=> (r.const # None => v = r.const)
<1> DEFINE s == [type |-> "boolean"]
<1> DEFINE j == Bool(v)
<1>1. ScalarSchema("bool", asString) = s /\ Json("bool", asString, v) = j /\ r.type = "bool"
  BY DEF ScalarSchema, Json, Wide, BoolRules
<1>2. AdmitsRest(s, "bool", j, version) /\ AdmitsListed(s, j)
  BY DEF AdmitsRest, AdmitsListed, Has, Bool
<1>3. j.json = "boolean" /\ j.of = v
  BY DEF Bool
<1>4. \A c : Listed({Bool(c)}, j) <=> v = c
  BY DEF Listed, Bool
<1> HIDE DEF s, j
<1>5. ValueSchema("bool", r, asString, version) =
        IF r.const = None THEN s ELSE Put(s, "enum", {Bool(r.const)})
  BY <1>1 DEF ValueSchema, ApplyFieldRules
<1>6. CASE r.const = None
  BY <1>1, <1>2, <1>5, <1>6 DEF RestSays, EnumSays
<1>7. CASE r.const # None
  BY <1>1, <1>2, <1>4, <1>5, <1>7, PutEnum, SameRestAdmits DEF RestSays, EnumSays, AdmitsListed
<1>. QED
  BY <1>6, <1>7

LEMMA StringSays ==
  ASSUME NEW asString, NEW version, NEW v \in Seq(Chars), NEW r, r # None, StringRulesOK(r)
  PROVE  /\ r.const # None => RestSays("string", r, asString, version, v)
         /\ r.const = None => (RestSays("string", r, asString, version, v) <=> TextSays(r, v))
         /\ EnumSays("string", r, asString, version, v) <=>
              IF r.const # None THEN v = r.const ELSE r.in # {} => v \in r.in
<1> DEFINE s == [type |-> "string"]
<1>1. SaysText(s)
  BY DEF SaysText, Has
<1>2. /\ ScalarSchema("string", asString) = s /\ Json("string", asString, v) = String(v)
      /\ r.type = "string"
  BY DEF ScalarSchema, Json, Wide, StringRulesOK, StringRules
<1> HIDE DEF s
<1>3. ValueSchema("string", r, asString, version) = ApplyStringRules(s, r)
  BY <1>2 DEF ValueSchema, ApplyFieldRules
<1>. QED
  BY <1>1, <1>2, <1>3, StringRest, StringListed DEF RestSays, EnumSays

\* Of bytes the schema counts the letters of their base64.
LEMMA BytesSay ==
  ASSUME NEW asString, NEW version, NEW v \in Nat, NEW r, r # None, r \in BytesRules,
         r.len = None, r.pattern = None
  PROVE  /\ RestSays("bytes", r, asString, version, v) <=>
              LengthsAllow(r, TextLength("bytes", v))
         /\ EnumSays("bytes", r, asString, version, v)
<1> DEFINE s == [type |-> "string"]
<1>1. SaysText(s)
  BY DEF SaysText, Has
<1>2. /\ ScalarSchema("bytes", asString) = s /\ Json("bytes", asString, v) = String(v)
      /\ r.type = "bytes"
  BY DEF ScalarSchema, Json, Wide, BytesRules
<1> HIDE DEF s
<1> DEFINE a == ApplyLengths(s, r)
<1>3. ValueSchema("bytes", r, asString, version) = a
  BY <1>2 DEF ValueSchema, ApplyFieldRules, ApplyBytesRules
<1>4. /\ LengthsAdmit(a, TextLength("bytes", v)) <=> LengthsAllow(r, TextLength("bytes", v))
      /\ \A l : l \notin {"minLength", "maxLength"} =>
            (Has(a, l) <=> Has(s, l)) /\ (Has(s, l) => a[l] = s[l])
  BY <1>1, LengthsSay
<1> HIDE DEF a
<1>5. ~Has(a, "pattern") /\ ~Has(a, "format") /\ ~Has(a, "enum")
  BY <1>1, <1>4 DEF SaysText
<1>6. Has(a, "type") => a["type"] = "string"
  BY <1>1, <1>4 DEF SaysText
<1>7. AdmitsText(a, "bytes", v) <=> LengthsAllow(r, TextLength("bytes", v))
  BY <1>4, <1>5 DEF AdmitsText, LengthsAdmit
<1>. QED
  BY <1>2, <1>3, <1>5, <1>6, <1>7, TextRest DEF RestSays, EnumSays, AdmitsListed

LEMMA EnumRulesSay ==
  ASSUME NEW asString, NEW version, VersionOK(version), NEW v \in EnumValues,
         NEW r, r # None, r \in EnumRules
  PROVE  /\ RestSays("enum", r, asString, version, v)
         /\ EnumSays("enum", r, asString, version, v) <=>
              IF r.const # None THEN v = r.const ELSE (r.in # {} => v \in r.in) /\ v \notin r.notIn
<1> DEFINE s == ScalarSchema("enum", asString)
<1> DEFINE j == Json("enum", asString, v)
<1> DEFINE allowed == {x \in EnumValues :
                         IF r.const # None THEN x = r.const
                         ELSE (r.in # {} => x \in r.in) /\ x \notin r.notIn}
<1> DEFINE V == {Json("enum", asString, x) : x \in allowed}
<1>1. AdmitsRest(s, "enum", j, version) /\ AdmitsListed(s, j)
  BY BaseAdmits DEF Kinds, ValueOK, Numbers
<1>2. \A x : /\ Json("enum", asString, x).json = IF asString THEN "string" ELSE "number"
            /\ Json("enum", asString, x).of = x
  BY JsonOfText, JsonOfNumber DEF Json, Wide
<1>3. Listed(V, j) <=> v \in allowed
  BY <1>2 DEF Listed
<1>4. r.type = "enum"
  BY DEF EnumRules
<1>5. ValueSchema("enum", r, asString, version) =
        IF r.const = None /\ r.in = {} /\ r.notIn = {} THEN s ELSE Put(s, "enum", V)
  BY <1>4 DEF ValueSchema, ApplyFieldRules, ApplyEnumRules
<1>6. v \in allowed <=>
        IF r.const # None THEN v = r.const ELSE (r.in # {} => v \in r.in) /\ v \notin r.notIn
  OBVIOUS
<1> HIDE DEF s, j, allowed, V
<1>7. CASE r.const = None /\ r.in = {} /\ r.notIn = {}
  BY <1>1, <1>5, <1>7 DEF RestSays, EnumSays, s, j
<1>8. CASE ~(r.const = None /\ r.in = {} /\ r.notIn = {})
  <2> DEFINE S == Put(s, "enum", V)
  <2>1. AdmitsRest(S, "enum", j, version) /\ (AdmitsListed(S, j) <=> v \in allowed)
    BY <1>1, <1>3, PutEnum, SameRestAdmits DEF AdmitsListed
  <2>2. ValueSchema("enum", r, asString, version) = S
    BY <1>5, <1>8
  <2> HIDE DEF S
  <2>. QED
    BY <1>6, <2>1, <2>2 DEF RestSays, EnumSays, j
<1>. QED
  BY <1>7, <1>8

\* The rules of messages and of times write nothing.
LEMMA OthersSay ==
  ASSUME NEW k \in {"message", "time"}, NEW asString, NEW version, VersionOK(version), NEW v,
         NEW r, r # None, RulesOK(r, k)
  PROVE  RestSays(k, r, asString, version, v) /\ EnumSays(k, r, asString, version, v)
<1>1. r.type \in {"message", "unread"}
  BY DEF RulesOK, MessageRules, UnreadRules, Numbers
<1>2. ValueSchema(k, r, asString, version) = ScalarSchema(k, asString)
  BY <1>1 DEF ValueSchema, ApplyFieldRules
<1>3. ValueOK(k, v) /\ k \in Kinds
  BY DEF ValueOK, Kinds, Numbers
<1>. QED
  BY <1>2, <1>3, BaseAdmits DEF RestSays, EnumSays

-----------------------------------------------------------------------------
(* What the rules allow and the schema admits *)

\* An empty affix is one of every text, and an affix is not longer.
LEMMA AffixesOfText ==
  ASSUME NEW S, NEW v \in Seq(S)
  PROVE  /\ IsPrefix(<<>>, v) /\ IsSuffix(<<>>, v) /\ Occurs(<<>>, v)
         /\ \A p \in Seq(S) : (IsPrefix(p, v) \/ IsSuffix(p, v)) => Len(p) <= Len(v)
<1>1. Len(v) \in Nat /\ Len(<<>>) = 0
  OBVIOUS
<1>2. SubSeq(v, 1, 0) = <<>> /\ SubSeq(<<>>, 1, 0) = <<>>
  OBVIOUS
<1>4. IsPrefix(<<>>, v)
  BY <1>1, <1>2 DEF IsPrefix
<1>5. Occurs(<<>>, v)
  BY <1>1, <1>2 DEF Occurs
<1>6. \A p \in Seq(S) : Reverse(p) \in Seq(S) /\ Len(Reverse(p)) = Len(p)
  BY DEF Reverse
<1>7. Reverse(<<>>) = <<>>
  BY DEF Reverse
<1>8. Reverse(v) \in Seq(S) /\ SubSeq(Reverse(v), 1, 0) = <<>>
  BY <1>6
<1>9. IsSuffix(<<>>, v)
  BY <1>1, <1>2, <1>6, <1>7, <1>8 DEF IsPrefix, IsSuffix
<1>10. ASSUME NEW p \in Seq(S), IsPrefix(p, v) \/ IsSuffix(p, v)
       PROVE  Len(p) <= Len(v)
  BY <1>6, <1>10 DEF IsPrefix, IsSuffix
<1>. QED
  BY <1>4, <1>5, <1>9, <1>10

\* Kinds as the lemmas above divide them.
LEMMA KindsAre ==
  ASSUME NEW k \in Kinds
  PROVE  \/ k \in Plain \/ k \in Wide
         \/ k \in {"bool", "string", "bytes", "enum"} \/ k \in {"message", "time"}
  BY DEF Kinds, Numbers, Plain, Wide

LEMMA RulesOf ==
  ASSUME NEW k \in Kinds, NEW r, r # None, RulesOK(r, k)
  PROVE  /\ k \in Plain \/ k \in Wide => NumberRulesOK(r) /\ r.type = "number"
         /\ k = "bool" => r \in BoolRules /\ r.type = "bool"
         /\ k = "string" => StringRulesOK(r) /\ r \in StringRules /\ r.type = "string"
         /\ k = "bytes" => r \in BytesRules /\ r.type = "bytes"
         /\ k = "enum" => r \in EnumRules /\ r.type = "enum"
         /\ k = "message" => r \in MessageRules /\ r.type = "message"
         /\ k = "time" => r.type = "unread"
<1>1. k \in Plain \/ k \in Wide => k \in Numbers
  BY DEF Plain, Wide, Numbers
<1>2. NumberRulesOK(r) => r.type = "number"
  BY DEF NumberRulesOK, NumberRules
<1>3. StringRulesOK(r) => r \in StringRules
  BY DEF StringRulesOK
<1>4. /\ r \in BoolRules => r.type = "bool"
      /\ r \in StringRules => r.type = "string"
      /\ r \in BytesRules => r.type = "bytes"
      /\ r \in EnumRules => r.type = "enum"
      /\ r \in MessageRules => r.type = "message"
      /\ r \in UnreadRules => r.type = "unread"
  BY DEF BoolRules, StringRules, BytesRules, EnumRules, MessageRules, UnreadRules
<1>. QED
  BY <1>1, <1>2, <1>3, <1>4 DEF RulesOK, Numbers

LEMMA RangesAre ==
  ASSUME NEW r, NumberRulesOK(r), NEW n
  PROVE  /\ ~Reversed(r) => (InRange(r, n) <=> AboveLower(r, n) /\ BelowUpper(r, n))
         /\ AboveLower(r, n) /\ BelowUpper(r, n) => InRange(r, n)
         /\ {Lower(r), Upper(r)} = {None} => InRange(r, n)
<1>1. InRange(r, n) <=> IF Reversed(r) THEN AboveLower(r, n) \/ BelowUpper(r, n)
                        ELSE AboveLower(r, n) /\ BelowUpper(r, n)
  BY DEF InRange, AboveLower, BelowUpper
<1>2. {Lower(r), Upper(r)} = {None} => AboveLower(r, n) /\ BelowUpper(r, n)
  BY DEF Lower, Upper, AboveLower, BelowUpper
<1>. QED
  BY <1>1, <1>2

\* What the rules allow, the schema of the value admits.
LEMMA RulesNeverRefuse ==
  ASSUME NEW k \in Kinds, NEW r, RulesOK(r, k), NEW asString, NEW version, VersionOK(version),
         NEW v, ValueOK(k, v), ~Tightened(r, k), Allows(r, v)
  PROVE  RestSays(k, r, asString, version, v) /\ EnumSays(k, r, asString, version, v)
<1>1. CASE r = None
  BY <1>1, NoRules
<1>2. CASE r # None /\ k \in Plain
  <2>1. NumberRulesOK(r) /\ r.type = "number" /\ v \in NumbersOf(k) /\ k \notin Wide
    BY <1>2, RulesOf DEF ValueOK, Plain, Numbers, Wide
  <2>2. ~r.ignoreEmpty /\ ~Reversed(r)
    BY <1>2, <2>1 DEF Tightened
  <2>3. OneOf(r, v) /\ InRange(r, v)
    BY <1>2, <2>1, <2>2 DEF Allows
  <2>. QED
    BY <1>2, <2>1, <2>2, <2>3, RangesAre, PlainSays
<1>3. CASE r # None /\ k \in Wide
  <2>1. NumberRulesOK(r) /\ r.type = "number"
    BY <1>3, RulesOf
  <2>2. ~OneOfSet(r)
    BY <1>3, <2>1 DEF Tightened
  <2>. QED
    BY <1>3, <2>1, <2>2, WideSays
<1>4. CASE r # None /\ k = "bool"
  <2>1. r \in BoolRules /\ r.type = "bool"
    BY <1>4, RulesOf
  <2>2. r.const # None => v = r.const
    BY <1>4, <2>1 DEF Allows
  <2>. QED
    BY <1>4, <2>1, <2>2, BoolSays
<1>5. CASE r # None /\ k = "string"
  <2>1. StringRulesOK(r) /\ r \in StringRules /\ r.type = "string" /\ v \in Seq(Chars)
    BY <1>5, RulesOf DEF ValueOK
  <2>2. ~r.ignoreEmpty /\ (r.pattern = None => r.prefix = <<>> \/ r.suffix = <<>>)
    BY <1>5, <2>1 DEF Tightened
  <2>3. /\ OneOf(r, v) /\ LengthsAllow(r, Len(v))
        /\ r.pattern # None => v \in r.pattern
        /\ IsPrefix(r.prefix, v) /\ IsSuffix(r.suffix, v) /\ Occurs(r.contains, v)
        /\ r.wellKnown # None => v \in Conforming[r.wellKnown]
    BY <1>5, <2>1, <2>2 DEF Allows
  <2>4. r.prefix \in Seq(Chars) /\ r.suffix \in Seq(Chars)
    BY <2>1 DEF StringRules
  <2>5. Len(r.prefix) <= Len(v) /\ Len(r.suffix) <= Len(v)
    BY <2>1, <2>3, <2>4, AffixesOfText
  <2>6. r.pattern = None => Len(r.prefix) + Len(r.suffix) <= Len(v)
    <3>1. Len(v) \in Nat /\ Len(r.prefix) \in Nat /\ Len(r.suffix) \in Nat
      BY <2>1, <2>4
    <3>2. r.prefix = <<>> => Len(r.prefix) = 0
      OBVIOUS
    <3>3. r.suffix = <<>> => Len(r.suffix) = 0
      OBVIOUS
    <3>4. r.pattern = None => Len(r.prefix) = 0 \/ Len(r.suffix) = 0
      BY <2>2, <3>2, <3>3
    <3>5. \A l, m, n \in Nat : l <= n /\ m <= n /\ (l = 0 \/ m = 0) => l + m <= n
      OBVIOUS
    <3>. QED
      BY <2>5, <3>1, <3>4, <3>5
  <2>7. PatternSays(r, v)
    BY <2>3, <2>6 DEF PatternSays
  <2>8. TextSays(r, v)
    BY <2>3, <2>7 DEF TextSays, StringFormat
  <2>. QED
    BY <1>5, <2>1, <2>3, <2>8, StringSays DEF OneOf
<1>6. CASE r # None /\ k = "bytes"
  <2>1. r \in BytesRules /\ r.type = "bytes" /\ v \in Nat
    BY <1>6, RulesOf DEF ValueOK
  <2>2. ~r.ignoreEmpty /\ r.len = None /\ r.pattern = None /\ r.maxLen = None
    BY <1>6, <2>1 DEF Tightened
  <2>3. LengthsAllow(r, v) /\ r.minLen \in Length /\ None \notin Int
    BY <1>6, <2>1, <2>2, ConstraintsAssumption DEF Allows, BytesRules
  <2>4. TextLength("bytes", v) \in Nat /\ TextLength("bytes", v) >= v
    BY <2>1 DEF TextLength
  <2>5. LengthsAllow(r, TextLength("bytes", v))
    BY <2>1, <2>2, <2>3, <2>4 DEF LengthsAllow, Within, Length
  <2>. QED
    BY <1>6, <2>1, <2>2, <2>5, BytesSay
<1>7. CASE r # None /\ k = "enum"
  <2>1. r \in EnumRules /\ r.type = "enum" /\ v \in EnumValues
    BY <1>7, RulesOf DEF ValueOK
  <2>2. OneOf(r, v) /\ v \notin r.notIn
    BY <1>7, <2>1 DEF Allows
  <2>. QED
    BY <1>7, <2>1, <2>2, EnumRulesSay DEF OneOf
<1>8. CASE r # None /\ k \in {"message", "time"}
  BY <1>8, OthersSay
<1>. QED
  BY <1>1, <1>2, <1>3, <1>4, <1>5, <1>6, <1>7, <1>8, KindsAre

\* What the schema of the value admits, the rules allow.
LEMMA RulesNeverAdmit ==
  ASSUME NEW k \in Kinds, NEW r, RulesOK(r, k), NEW asString, NEW version, VersionOK(version),
         NEW v, ValueOK(k, v), v # None, ~Loosened(r, k),
         RestSays(k, r, asString, version, v), EnumSays(k, r, asString, version, v)
  PROVE  Allows(r, v)
<1>1. CASE r = None
  BY <1>1 DEF Allows
<1>2. CASE r # None /\ k \in Plain
  <2>1. NumberRulesOK(r) /\ r.type = "number" /\ v \in NumbersOf(k)
    BY <1>2, RulesOf DEF ValueOK, Plain, Numbers
  <2>2. r.beyond = {}
    BY <1>2, <2>1 DEF Loosened
  <2>3. OneOf(r, v) /\ InRange(r, v)
    BY <1>2, <2>1, PlainSays, RangesAre
  <2>. QED
    BY <1>2, <2>1, <2>2, <2>3 DEF Allows
<1>3. CASE r # None /\ k \in Wide
  <2>1. NumberRulesOK(r) /\ r.type = "number"
    BY <1>3, RulesOf
  <2>2. r.beyond = {} /\ {Lower(r), Upper(r)} = {None}
    BY <1>3, <2>1 DEF Loosened
  <2>3. ~OneOfSet(r)
    BY <1>3, <2>1, WideSays
  <2>4. OneOf(r, v) /\ InRange(r, v)
    BY <2>1, <2>2, <2>3, RangesAre DEF OneOf, OneOfSet
  <2>. QED
    BY <1>3, <2>1, <2>2, <2>4 DEF Allows
<1>4. CASE r # None /\ k = "bool"
  <2>1. r \in BoolRules /\ r.type = "bool"
    BY <1>4, RulesOf
  <2>2. r.const # None => v = r.const
    BY <1>4, <2>1, BoolSays
  <2>. QED
    BY <1>4, <2>1, <2>2 DEF Allows
<1>5. CASE r # None /\ k = "string"
  <2>1. StringRulesOK(r) /\ r \in StringRules /\ r.type = "string" /\ v \in Seq(Chars)
    BY <1>5, RulesOf DEF ValueOK
  <2>2. /\ r.beyond = {} /\ r.wellKnown # "address"
        /\ r.const # None => Allows(r, r.const)
        /\ r.pattern # None => r.prefix = <<>> /\ r.suffix = <<>> /\ r.contains = <<>>
    BY <1>5, <2>1 DEF Loosened
  <2>3. CASE r.const # None
    <3>1. v = r.const
      BY <1>5, <2>1, <2>3, StringSays
    <3>. QED
      BY <2>2, <2>3, <3>1
  <2>4. CASE r.const = None
    <3>1. TextSays(r, v) /\ (r.in # {} => v \in r.in)
      BY <1>5, <2>1, <2>4, StringSays
    <3>2. OneOf(r, v) /\ LengthsAllow(r, Len(v)) /\ v \notin r.beyond
      BY <2>2, <2>4, <3>1 DEF OneOf, TextSays
    <3>3. r.pattern # None => v \in r.pattern
      BY <3>1 DEF TextSays, PatternSays
    <3>4. IsPrefix(r.prefix, v) /\ IsSuffix(r.suffix, v) /\ Occurs(r.contains, v)
      BY <2>1, <2>2, <3>1, AffixesOfText DEF TextSays, PatternSays
    <3>5. r.wellKnown # None => v \in Conforming[r.wellKnown]
      BY <2>2, <3>1 DEF TextSays, StringFormat
    <3>. QED
      BY <1>5, <2>1, <3>2, <3>3, <3>4, <3>5 DEF Allows
  <2>. QED
    BY <2>3, <2>4
<1>6. CASE r # None /\ k = "bytes"
  <2>1. r \in BytesRules /\ r.type = "bytes" /\ v \in Nat
    BY <1>6, RulesOf DEF ValueOK
  <2>2. r.beyond = {} /\ r.len = None /\ r.pattern = None /\ r.minLen = None
    BY <1>6, <2>1 DEF Loosened
  <2>3. LengthsAllow(r, TextLength("bytes", v)) /\ r.maxLen \in Length /\ None \notin Int
    BY <1>6, <2>1, <2>2, BytesSay, ConstraintsAssumption DEF BytesRules
  <2>4. TextLength("bytes", v) \in Nat /\ TextLength("bytes", v) >= v
    BY <2>1 DEF TextLength
  <2>5. LengthsAllow(r, v)
    BY <2>1, <2>2, <2>3, <2>4 DEF LengthsAllow, Within, Length
  <2>. QED
    BY <1>6, <2>1, <2>2, <2>5 DEF Allows
<1>7. CASE r # None /\ k = "enum"
  <2>1. r \in EnumRules /\ r.type = "enum" /\ v \in EnumValues
    BY <1>7, RulesOf DEF ValueOK
  <2>2. r.const # None => Allows(r, r.const)
    BY <1>7, <2>1 DEF Loosened
  <2>3. IF r.const # None THEN v = r.const ELSE (r.in # {} => v \in r.in) /\ v \notin r.notIn
    BY <1>7, <2>1, EnumRulesSay
  <2>4. r.const = None => OneOf(r, v) /\ v \notin r.notIn
    BY <2>3 DEF OneOf
  <2>5. r.const = None => Allows(r, v)
    BY <1>7, <2>1, <2>4 DEF Allows
  <2>. QED
    BY <2>2, <2>3, <2>5
<1>8. CASE r # None /\ k = "message"
  BY <1>8, RulesOf DEF Allows
<1>9. CASE r # None /\ k = "time"
  BY <1>9, RulesOf DEF Loosened
<1>. QED
  BY <1>1, <1>2, <1>3, <1>4, <1>5, <1>6, <1>7, <1>8, <1>9, KindsAre

-----------------------------------------------------------------------------
(* An enum option over the rules *)

\* The rules without their sets are rules.
LEMMA WithoutSets ==
  ASSUME NEW k \in Kinds, NEW r, r # None, RulesOK(r, k), NEW o, o = WithoutEnum(r)
  PROVE  RulesOK(o, k) /\ o # None
<1>0. None \notin Int /\ None \notin NumberRules /\ None \notin BoolRules
      /\ None \notin StringRules /\ None \notin EnumRules
  BY ConstraintsAssumption
<1>1. CASE k \in Plain \/ k \in Wide
  <2>1. NumberRulesOK(r) /\ r.type = "number" /\ r \in NumberRules
    BY <1>1, RulesOf DEF NumberRulesOK
  <2>2. o = [r EXCEPT !.const = None, !.in = {}]
    BY <2>1 DEF WithoutEnum
  <2>3. /\ o \in NumberRules /\ o.const = None /\ o.type = "number"
        /\ o.lt = r.lt /\ o.lte = r.lte /\ o.gt = r.gt /\ o.gte = r.gte /\ o.beyond = r.beyond
    BY <2>1, <2>2 DEF NumberRules
  <2>4. NumberRulesOK(o)
    BY <2>1, <2>3 DEF NumberRulesOK, Lower, Upper
  <2>5. k \in Numbers /\ o # None
    BY <1>0, <1>1, <2>3 DEF Plain, Wide, Numbers
  <2>. QED
    BY <2>4, <2>5 DEF RulesOK
<1>2. CASE k = "bool"
  <2>1. r \in BoolRules /\ r.type = "bool"
    BY <1>2, RulesOf
  <2>2. o = [r EXCEPT !.const = None]
    BY <2>1 DEF WithoutEnum
  <2>3. o \in BoolRules /\ o.type = "bool"
    BY <2>1, <2>2 DEF BoolRules
  <2>. QED
    BY <1>0, <1>2, <2>3 DEF RulesOK
<1>3. CASE k = "string"
  <2>1. StringRulesOK(r) /\ r \in StringRules /\ r.type = "string"
    BY <1>3, RulesOf
  <2>2. o = [r EXCEPT !.const = None, !.in = {}]
    BY <2>1 DEF WithoutEnum
  <2>3. /\ o \in StringRules /\ o.type = "string" /\ o.const = None
        /\ o.len = r.len /\ o.minLen = r.minLen /\ o.maxLen = r.maxLen
        /\ o.pattern = r.pattern /\ o.prefix = r.prefix /\ o.suffix = r.suffix
        /\ o.contains = r.contains /\ o.wellKnown = r.wellKnown /\ o.beyond = r.beyond
    BY <2>1, <2>2 DEF StringRules
  <2>4. StringRulesOK(o)
    BY <2>1, <2>3 DEF StringRulesOK
  <2>5. o # None
    BY <1>0, <2>3
  <2>. QED
    BY <1>3, <2>4, <2>5 DEF RulesOK
<1>4. CASE k = "enum"
  <2>1. r \in EnumRules /\ r.type = "enum"
    BY <1>4, RulesOf
  <2>2. o = [r EXCEPT !.const = None, !.in = {}, !.notIn = {}]
    BY <2>1 DEF WithoutEnum
  <2>3. o \in EnumRules /\ o.type = "enum" /\ o.const = None
    BY <2>1, <2>2 DEF EnumRules
  <2>. QED
    BY <1>0, <1>4, <2>3 DEF RulesOK
<1>5. CASE k \in {"bytes", "message", "time"}
  <2>1. r.type \in {"bytes", "message", "unread"}
    BY <1>5, RulesOf
  <2>2. o = r
    BY <2>1 DEF WithoutEnum
  <2>. QED
    BY <2>2
<1>. QED
  BY <1>1, <1>2, <1>3, <1>4, <1>5, KindsAre

\* Rest says of a value the same for the rules without their sets, but for
\* the other rules that a const of texts hides.
LEMMA WithoutSetsRest ==
  ASSUME NEW k \in Kinds, NEW r, RulesOK(r, k), NEW asString, NEW version, VersionOK(version),
         NEW v, ValueOK(k, v), NEW o, o = WithoutEnum(r)
  PROVE  /\ RestSays(k, o, asString, version, v) => RestSays(k, r, asString, version, v)
         /\ ~(r # None /\ k = "string" /\ r.const # None) /\ RestSays(k, r, asString, version, v) =>
              RestSays(k, o, asString, version, v)
<1>1. CASE r = None
  <2>1. o = None
    BY <1>1 DEF WithoutEnum
  <2>. QED
    BY <1>1, <2>1, NoRules
<1>2. CASE r # None /\ k \in Plain
  <2>1. /\ NumberRulesOK(r) /\ r.type = "number" /\ r \in NumberRules /\ v \in NumbersOf(k)
        /\ NumberRulesOK(o) /\ o # None
    BY <1>2, RulesOf, WithoutSets DEF NumberRulesOK, ValueOK, Plain, Numbers, RulesOK
  <2>2. o = [r EXCEPT !.const = None, !.in = {}]
    BY <1>2, <2>1 DEF WithoutEnum
  <2>3. o.lt = r.lt /\ o.lte = r.lte /\ o.gt = r.gt /\ o.gte = r.gte
    BY <2>1, <2>2 DEF NumberRules
  <2>4. (AboveLower(o, v) <=> AboveLower(r, v)) /\ (BelowUpper(o, v) <=> BelowUpper(r, v))
    BY <2>3 DEF AboveLower, BelowUpper
  <2>. QED
    BY <1>2, <2>1, <2>4, PlainSays
<1>3. CASE r # None /\ k \in Wide
  <2>1. NumberRulesOK(o) /\ o # None /\ NumberRulesOK(r)
    BY <1>3, RulesOf, WithoutSets
  <2>. QED
    BY <1>3, <2>1, WideSays
<1>4. CASE r # None /\ k = "bool"
  <2>1. r \in BoolRules /\ o \in BoolRules /\ o # None
    BY <1>4, RulesOf, WithoutSets
  <2>. QED
    BY <1>4, <2>1, BoolSays
<1>5. CASE r # None /\ k = "string"
  <2>1. /\ StringRulesOK(r) /\ r \in StringRules /\ r.type = "string" /\ v \in Seq(Chars)
        /\ StringRulesOK(o) /\ o # None
    BY <1>5, RulesOf, WithoutSets DEF ValueOK
  <2>2. o = [r EXCEPT !.const = None, !.in = {}]
    BY <1>5, <2>1 DEF WithoutEnum
  <2>3. /\ o.const = None /\ o.len = r.len /\ o.minLen = r.minLen /\ o.maxLen = r.maxLen
        /\ o.pattern = r.pattern /\ o.prefix = r.prefix /\ o.suffix = r.suffix
        /\ o.contains = r.contains /\ o.wellKnown = r.wellKnown
    BY <2>1, <2>2 DEF StringRules
  <2>4. TextSays(o, v) <=> TextSays(r, v)
    BY <2>3 DEF TextSays, LengthsAllow, Within, PatternSays, StringFormat
  <2>. QED
    BY <1>5, <2>1, <2>3, <2>4, StringSays
<1>6. CASE r # None /\ k = "enum"
  <2>1. r \in EnumRules /\ o \in EnumRules /\ o # None /\ v \in EnumValues
    BY <1>6, RulesOf, WithoutSets DEF ValueOK
  <2>. QED
    BY <1>6, <2>1, EnumRulesSay
<1>7. CASE r # None /\ k \in {"bytes", "message", "time"}
  <2>1. r.type \in {"bytes", "message", "unread"}
    BY <1>7, RulesOf
  <2>2. o = r
    BY <2>1 DEF WithoutEnum
  <2>. QED
    BY <2>2
<1>. QED
  BY <1>1, <1>2, <1>3, <1>4, <1>5, <1>6, <1>7, KindsAre

\* Without sets no value of the type is left out by an enum keyword.
LEMMA WithoutSetsListed ==
  ASSUME NEW k \in Kinds, NEW r, RulesOK(r, k), NEW asString, NEW version, VersionOK(version),
         NEW v, ValueOK(k, v), NEW o, o = WithoutEnum(r), ~Loosened(o, k)
  PROVE  EnumSays(k, o, asString, version, v)
<1>1. CASE r = None
  <2>1. o = None
    BY <1>1 DEF WithoutEnum
  <2>. QED
    BY <2>1, NoRules
<1>2. CASE r # None /\ (k \in Plain \/ k \in Wide)
  <2>1. /\ NumberRulesOK(r) /\ r.type = "number" /\ r \in NumberRules
        /\ NumberRulesOK(o) /\ o # None
    BY <1>2, RulesOf, WithoutSets DEF NumberRulesOK
  <2>2. o.const = None /\ o.in = {}
    BY <1>2, <2>1 DEF WithoutEnum, NumberRules
  <2>3. OneOf(o, v) /\ ~OneOfSet(o)
    BY <2>2 DEF OneOf, OneOfSet
  <2>4. k \in Plain => v \in NumbersOf(k)
    BY DEF ValueOK, Plain, Numbers
  <2>. QED
    BY <1>2, <2>1, <2>3, <2>4, PlainSays, WideSays
<1>3. CASE r # None /\ k = "bool"
  <2>1. r \in BoolRules /\ r.type = "bool" /\ o \in BoolRules /\ o # None
    BY <1>3, RulesOf, WithoutSets
  <2>2. o.const = None
    BY <1>3, <2>1 DEF WithoutEnum, BoolRules
  <2>. QED
    BY <1>3, <2>1, <2>2, BoolSays
<1>4. CASE r # None /\ k = "string"
  <2>1. /\ r \in StringRules /\ r.type = "string" /\ v \in Seq(Chars)
        /\ StringRulesOK(o) /\ o # None
    BY <1>4, RulesOf, WithoutSets DEF ValueOK
  <2>2. o.const = None /\ o.in = {}
    BY <1>4, <2>1 DEF WithoutEnum, StringRules
  <2>. QED
    BY <1>4, <2>1, <2>2, StringSays
<1>5. CASE r # None /\ k = "bytes"
  <2>1. r \in BytesRules /\ r.type = "bytes" /\ v \in Nat
    BY <1>5, RulesOf DEF ValueOK
  <2>2. o = r
    BY <1>5, <2>1 DEF WithoutEnum
  <2>3. r.len = None /\ r.pattern = None
    BY <1>5, <2>1, <2>2 DEF Loosened
  <2>. QED
    BY <1>5, <2>1, <2>2, <2>3, BytesSay
<1>6. CASE r # None /\ k = "enum"
  <2>1. r \in EnumRules /\ r.type = "enum" /\ o \in EnumRules /\ o # None /\ v \in EnumValues
    BY <1>6, RulesOf, WithoutSets DEF ValueOK
  <2>2. o.const = None /\ o.in = {} /\ o.notIn = {}
    BY <1>6, <2>1 DEF WithoutEnum, EnumRules
  <2>. QED
    BY <1>6, <2>1, <2>2, EnumRulesSay
<1>7. CASE r # None /\ k \in {"message", "time"}
  <2>1. RulesOK(o, k) /\ o # None
    BY <1>7, WithoutSets
  <2>. QED
    BY <1>7, <2>1, OthersSay
<1>. QED
  BY <1>1, <1>2, <1>3, <1>4, <1>5, <1>6, <1>7, KindsAre

-----------------------------------------------------------------------------
(* A format option over the rules *)

LEMMA WithoutFormatIs ==
  ASSUME NEW k \in Kinds, NEW r, RulesOK(r, k)
  PROVE  RulesOK(WithoutFormat(r), k)
<1>1. CASE r # None /\ k = "string"
  <2>1. StringRulesOK(r) /\ r \in StringRules /\ r.type = "string"
    BY <1>1, RulesOf
  <2> DEFINE o == [r EXCEPT !.wellKnown = None]
  <2>2. WithoutFormat(r) = o
    BY <1>1, <2>1 DEF WithoutFormat
  <2>3. o \in StringRules /\ o.len = r.len /\ o.minLen = r.minLen /\ o.maxLen = r.maxLen
    BY <2>1 DEF StringRules
  <2> HIDE DEF o
  <2>4. StringRulesOK(o)
    BY <2>1, <2>3 DEF StringRulesOK
  <2>. QED
    BY <1>1, <2>2, <2>4 DEF RulesOK
<1>2. CASE r = None
  BY <1>2 DEF WithoutFormat
<1>3. CASE r # None /\ k # "string"
  <2>1. r.type # "string"
    BY <1>3, RulesOf, KindsAre
  <2>. QED
    BY <2>1 DEF WithoutFormat
<1>. QED
  BY <1>1, <1>2, <1>3

\* Rules without a well-known one write the same keywords, but for format.
LEMMA WithoutFormatWrites ==
  ASSUME NEW s, ~Has(s, "format"), NEW r, r \in StringRules,
         NEW o, o = [r EXCEPT !.wellKnown = None]
  PROVE  LET S == ApplyStringRules(s, r)
             O == ApplyStringRules(s, o)
         IN  /\ ~Has(O, "format")
             /\ \A l : l # "format" => (Has(S, l) <=> Has(O, l)) /\ (Has(O, l) => S[l] = O[l])
<1> DEFINE a == ApplyLengths(s, r)
<1> DEFINE p == ApplyPattern(a, r)
<1> DEFINE b == ApplyIn(p, {String(x) : x \in r.in})
<1> DEFINE S == ApplyStringRules(s, r)
<1> DEFINE O == ApplyStringRules(s, o)
<1>1. /\ o.const = r.const /\ o.in = r.in /\ o.len = r.len /\ o.minLen = r.minLen
      /\ o.maxLen = r.maxLen /\ o.pattern = r.pattern /\ o.prefix = r.prefix
      /\ o.suffix = r.suffix /\ o.contains = r.contains /\ o.wellKnown = None
  BY DEF StringRules
<1>2. /\ ApplyLengths(s, o) = a
      /\ ApplyPattern(a, o) = p
      /\ ApplyIn(p, {String(x) : x \in o.in}) = b
  BY <1>1 DEF ApplyLengths, ApplyPattern, AffixPattern
<1>3. ~Has(a, "format")
  BY PutIfSetHas DEF ApplyLengths
<1>4. ~Has(b, "format")
  <2> HIDE DEF a
  <2>1. ~Has(p, "format")
    BY <1>3, PutHas DEF ApplyPattern
  <2> HIDE DEF p
  <2>. QED
    BY <2>1, PutHas DEF ApplyIn
<1>5. StringFormat(o) = None
  BY <1>1 DEF StringFormat
<1> HIDE DEF a, p, b
<1>6. CASE r.const # None
  <2>1. S = Put(s, "enum", {String(r.const)}) /\ O = S
    BY <1>1, <1>6 DEF ApplyStringRules
  <2>. QED
    BY <2>1, PutHas
<1>7. CASE r.const = None
  <2>1. S = PutIfSet(b, "format", StringFormat(r))
    BY <1>4, <1>7 DEF ApplyStringRules, a, p, b
  <2>2. O = PutIfSet(b, "format", None)
    BY <1>1, <1>2, <1>4, <1>5, <1>7 DEF ApplyStringRules, a, p, b
  <2>3. O = b
    BY <2>2, PutIfSetHas
  <2>. QED
    BY <1>4, <2>1, <2>3, PutIfSetHas
<1>. QED
  BY <1>6, <1>7

\* Of a text the option's format is asked instead of the rules'.
LEMMA FormatSays ==
  ASSUME NEW r, RulesOK(r, "string"), NEW asString, NEW version, NEW v \in Seq(Chars),
         NEW F, NEW S, S = ValueSchema("string", r, asString, version),
         NEW Z, \A l : l # "format" => (Has(Z, l) <=> Has(S, l)) /\ (Has(S, l) => Z[l] = S[l]),
         Has(Z, "format"), Z["format"] = F
  PROVE  /\ AdmitsRest(Z, "string", Json("string", asString, v), version) <=>
               RestSays("string", WithoutFormat(r), asString, version, v) /\ v \in Conforming[F]
         /\ EnumSays("string", WithoutFormat(r), asString, version, v) <=>
               EnumSays("string", r, asString, version, v)
<1> DEFINE s == [type |-> "string"]
<1> DEFINE O == ValueSchema("string", WithoutFormat(r), asString, version)
<1> DEFINE j == Json("string", asString, v)
<1>1. ScalarSchema("string", asString) = s /\ j = String(v) /\ ~Has(s, "format")
  BY DEF ScalarSchema, Json, Wide, Has
<1>2. /\ ~Has(O, "format")
      /\ \A l : l # "format" => (Has(S, l) <=> Has(O, l)) /\ (Has(O, l) => S[l] = O[l])
  <2>1. CASE r = None
    <3>1. O = s /\ S = s
      BY <1>1, <2>1 DEF ValueSchema, ApplyFieldRules, WithoutFormat
    <3>. QED
      BY <1>1, <3>1
  <2>2. CASE r # None
    <3>1. r \in StringRules /\ r.type = "string"
      BY <2>2, RulesOf DEF Kinds
    <3> DEFINE o == [r EXCEPT !.wellKnown = None]
    <3>2. WithoutFormat(r) = o /\ o \in StringRules /\ o.type = "string"
      BY <2>2, <3>1 DEF WithoutFormat, StringRules
    <3>3. o # None
      BY <3>2, ConstraintsAssumption
    <3> HIDE DEF s
    <3>4. S = ApplyStringRules(s, r) /\ O = ApplyStringRules(s, o)
      BY <1>1, <2>2, <3>1, <3>2, <3>3 DEF ValueSchema, ApplyFieldRules
    <3>. QED
      BY <1>1, <3>1, <3>4, WithoutFormatWrites
  <2>. QED
    BY <2>1, <2>2
<1> HIDE DEF s, O, j
<1>3. /\ ~Has(O, "format")
      /\ \A l : l # "format" => (Has(Z, l) <=> Has(O, l)) /\ (Has(O, l) => Z[l] = O[l])
  BY <1>2
<1>4. AdmitsText(Z, "string", v) <=> AdmitsText(O, "string", v) /\ v \in Conforming[F]
  BY <1>3 DEF AdmitsText
<1>5. (Has(Z, "type") => Z["type"] = "string") <=> (Has(O, "type") => O["type"] = "string")
  BY <1>3
<1>6. /\ AdmitsRest(Z, "string", j, version) <=> (Has(Z, "type") => Z["type"] = "string") /\ AdmitsText(Z, "string", v)
      /\ AdmitsRest(O, "string", j, version) <=> (Has(O, "type") => O["type"] = "string") /\ AdmitsText(O, "string", v)
  BY <1>1, TextRest
<1>7. AdmitsListed(O, j) <=> AdmitsListed(S, j)
  BY <1>2 DEF AdmitsListed
<1>8. /\ RestSays("string", WithoutFormat(r), asString, version, v) <=> AdmitsRest(O, "string", j, version)
      /\ EnumSays("string", WithoutFormat(r), asString, version, v) <=> AdmitsListed(O, j)
      /\ EnumSays("string", r, asString, version, v) <=> AdmitsListed(S, j)
  BY DEF RestSays, EnumSays, O, j
<1>. QED
  BY <1>4, <1>5, <1>6, <1>7, <1>8 DEF j

-----------------------------------------------------------------------------
(* The rendering *)

AsStringOf(f) == f.label # "map" /\ f.enumAsString

Container(f) == [type |-> IF f.label = "list" THEN "array" ELSE "object"]

(* The schema of a list or of a map, its elements and its keys.            *)
ListSchema(f) ==
  LET sizes == PutIfSet(PutIfSet(Container(f), "minItems", f.rules.min), "maxItems", f.rules.max)
  IN  IF f.rules.unique THEN Mark(sizes, "uniqueItems") ELSE sizes

MapSchema(f) ==
  PutIfSet(PutIfSet(Container(f), "minProperties", f.rules.min), "maxProperties", f.rules.max)

ContainerSchema(f) ==
  IF f.rules = None THEN Container(f) ELSE IF f.label = "list" THEN ListSchema(f) ELSE MapSchema(f)

ElemRule(f) == IF f.rules = None THEN None ELSE f.rules.elem

ElemSchema(f) == ValueSchema(f.kind, ElemRule(f), AsStringOf(f), f.version)

KeyRule(f) == IF f.rules = None \/ f.version # "3.1" THEN None ELSE f.rules.keys

KeySchema(f) == ApplyFieldRules(Empty, KeyRule(f), FALSE, f.version)

OneSchema(f) == ValueSchema(f.kind, f.rules, AsStringOf(f), f.version)

RequiredOf(f) ==
  f.requiredOption \/ (f.rules # None /\ f.rules.type = "message" /\ f.rules.required)

(* The nullable of the base, and of the field.                             *)
BaseNullable(f) == IF f.presence = "wrapper" THEN TRUE ELSE None

NullableOf(f) == IF f.nullable = None THEN BaseNullable(f) ELSE f.nullable

(* The schema of one value with the options written over it.               *)
OptionsOver(f) == PutIfSet(PutIfSet(OneSchema(f), "enum", f.enumJson), "format", f.format)

(* Where the rendering is, and what it has written by then.                *)
RenderInv ==
  /\ field \in Fields
  /\ phase \in {"field", "rules"} => names = Empty
  /\ phase \in {"rules", "options"} => nullable = BaseNullable(field)
  /\ phase \in {"required", "done"} => nullable = NullableOf(field)
  /\ phase = "rules" =>
       /\ field.label = "one" => schema = ScalarSchema(field.kind, AsStringOf(field))
       /\ field.label # "one" =>
            schema = Container(field) /\ elem = ScalarSchema(field.kind, AsStringOf(field))
  /\ phase = "options" /\ field.label = "one" => schema = OneSchema(field)
  /\ phase \in {"required", "done"} /\ field.label = "one" =>
       schema = OptionsOver(field)
  /\ phase \in {"options", "required", "done"} /\ field.label # "one" =>
       schema = ContainerSchema(field) /\ elem = ElemSchema(field)
  /\ phase \in {"options", "required", "done"} /\ field.label = "map" => names = KeySchema(field)
  /\ phase = "done" => (required <=> RequiredOf(field))

\* The schema of a value without rules is its base.
LEMMA WithoutRules ==
  ASSUME NEW k, NEW s, NEW asString, NEW version
  PROVE  /\ ValueSchema(k, None, asString, version) = ScalarSchema(k, asString)
         /\ ApplyFieldRules(s, None, asString, version) = s
  BY DEF ValueSchema, ApplyFieldRules

LEMMA RenderStep ==
  ASSUME RenderInv, Next
  PROVE  RenderInv'
<1>0. /\ field' = field /\ field \in Fields /\ AsString = AsStringOf(field)
      /\ FieldOK(field) /\ field.label \in Labels
  BY ConstraintsAssumption
     DEF RenderInv, Next, SchemaForField, ApplyValidation, NoValidation, ApplyRepeatedRules,
         ApplyMapRules, ApplySchemaOptions, FieldRequired, AsString, AsStringOf, FieldOK
<1>1. CASE SchemaForField
  <2>1. /\ phase = "field" /\ phase' = "rules" /\ names' = names /\ names = Empty
        /\ nullable' = BaseNullable(field)
    BY <1>1 DEF SchemaForField, RenderInv, BaseNullable
  <2>2. field.label = "one" => schema' = ScalarSchema(field.kind, AsStringOf(field))
    BY <1>0, <1>1 DEF SchemaForField
  <2>3. field.label # "one" =>
          schema' = Container(field) /\ elem' = ScalarSchema(field.kind, AsStringOf(field))
    BY <1>0, <1>1 DEF SchemaForField, Container
  <2>. QED
    BY <1>0, <2>1, <2>2, <2>3 DEF RenderInv
<1>2. CASE ApplyValidation
  <2>1. /\ phase = "rules" /\ phase' = "options" /\ field.label = "one"
        /\ nullable' = nullable /\ nullable = BaseNullable(field)
    BY <1>2 DEF ApplyValidation, RenderInv
  <2>2. schema' = OneSchema(field)
    BY <1>0, <1>2, <2>1 DEF ApplyValidation, RenderInv, OneSchema, ValueSchema
  <2>. QED
    BY <1>0, <2>1, <2>2 DEF RenderInv
<1>3. CASE NoValidation
  <2>1. /\ phase = "rules" /\ phase' = "options" /\ field.label # "one" /\ field.rules = None
        /\ schema' = schema /\ elem' = elem /\ names' = names
        /\ nullable' = nullable /\ nullable = BaseNullable(field)
    BY <1>3 DEF NoValidation, RenderInv
  <2>2. schema = ContainerSchema(field) /\ elem = ElemSchema(field)
    BY <2>1, WithoutRules DEF RenderInv, ContainerSchema, ElemSchema, ElemRule
  <2>3. names = KeySchema(field)
    BY <2>1, WithoutRules DEF RenderInv, KeySchema, KeyRule
  <2>. QED
    BY <1>0, <2>1, <2>2, <2>3 DEF RenderInv
<1>4. CASE ApplyRepeatedRules
  <2>1. /\ phase = "rules" /\ phase' = "options" /\ field.label = "list" /\ field.rules # None
        /\ nullable' = nullable /\ nullable = BaseNullable(field)
    BY <1>4 DEF ApplyRepeatedRules, RenderInv
  <2>2. schema = Container(field) /\ elem = ScalarSchema(field.kind, AsStringOf(field))
    BY <2>1 DEF RenderInv
  <2>3. schema' = ContainerSchema(field)
    BY <1>4, <2>1, <2>2 DEF ApplyRepeatedRules, ContainerSchema, ListSchema, Mark
  <2>4. elem' = ElemSchema(field)
    BY <1>0, <1>4, <2>1, <2>2 DEF ApplyRepeatedRules, ElemSchema, ElemRule, ValueSchema
  <2>. QED
    BY <1>0, <2>1, <2>3, <2>4 DEF RenderInv
<1>5. CASE ApplyMapRules
  <2>1. /\ phase = "rules" /\ phase' = "options" /\ field.label = "map" /\ field.rules # None
        /\ nullable' = nullable /\ nullable = BaseNullable(field)
    BY <1>5 DEF ApplyMapRules, RenderInv
  <2>2. /\ schema = Container(field) /\ elem = ScalarSchema(field.kind, AsStringOf(field))
        /\ names = Empty
    BY <2>1 DEF RenderInv
  <2>3. schema' = ContainerSchema(field)
    BY <1>5, <2>1, <2>2 DEF ApplyMapRules, ContainerSchema, MapSchema
  <2>4. elem' = ElemSchema(field)
    BY <1>0, <1>5, <2>1, <2>2 DEF ApplyMapRules, ElemSchema, ElemRule, ValueSchema
  <2>5. names' = KeySchema(field)
    BY <1>5, <2>1, <2>2, WithoutRules DEF ApplyMapRules, KeySchema, KeyRule
  <2>. QED
    BY <1>0, <2>1, <2>3, <2>4, <2>5 DEF RenderInv
<1>6. CASE ApplySchemaOptions
  <2>1. /\ phase = "options" /\ phase' = "required" /\ elem' = elem /\ names' = names
        /\ schema' = PutIfSet(PutIfSet(schema, "enum", field.enumJson), "format", field.format)
    BY <1>6 DEF ApplySchemaOptions
  <2>2. field.label # "one" => schema' = schema
    BY <1>0, <2>1 DEF FieldOK, PutIfSet
  <2>3. field.label = "one" => schema' = OptionsOver(field)
    BY <2>1 DEF RenderInv, OptionsOver
  <2>4. nullable' = NullableOf(field)
    BY <1>6, <2>1 DEF ApplySchemaOptions, RenderInv, NullableOf
  <2>. QED
    BY <1>0, <2>1, <2>2, <2>3, <2>4 DEF RenderInv
<1>7. CASE FieldRequired
  <2>1. /\ phase = "required" /\ phase' = "done" /\ schema' = schema /\ elem' = elem
        /\ names' = names /\ nullable' = nullable /\ (required' <=> RequiredOf(field))
    BY <1>7 DEF FieldRequired, RequiredOf, ValidateRequired
  <2>. QED
    BY <1>0, <2>1 DEF RenderInv
<1>. QED
  BY <1>1, <1>2, <1>3, <1>4, <1>5, <1>6, <1>7 DEF Next

LEMMA RenderInvariant == Spec => []RenderInv
<1>1. Init => RenderInv
  BY DEF Init, RenderInv
<1>2. RenderInv /\ [Next]_vars => RenderInv'
  <2>1. ASSUME RenderInv, UNCHANGED vars PROVE RenderInv'
    BY <2>1 DEF RenderInv, vars
  <2>. QED
    BY <2>1, RenderStep
<1>. QED
  BY <1>1, <1>2, PTL DEF Spec

-----------------------------------------------------------------------------
(* A field of one value *)

LEMMA OneIsExact ==
  ASSUME RenderInv, phase = "done", field.label = "one",
         NEW v, v # None, ValueOK(field.kind, v)
  PROVE  /\ ~Stricter /\ FieldAllows(v) => ValueAdmits(v)
         /\ ~Looser /\ ValueAdmits(v) => FieldAllows(v)
<1> DEFINE k == field.kind
<1> DEFINE r == field.rules
<1> DEFINE a == AsStringOf(field)
<1> DEFINE n == field.version
<1> DEFINE E == field.enumJson
<1> DEFINE F == field.format
<1> DEFINE j == Json(k, a, v)
<1> DEFINE s == OneSchema(field)
<1> DEFINE e == PutIfSet(s, "enum", E)
<1> DEFINE q == IF F = None THEN r ELSE WithoutFormat(r)
<1> DEFINE o == Overridden(r)
<1> DEFINE Enum == E # None => Listed(E, j)
<1> DEFINE Format == F # None => v \in Conforming[F]
<1>1. /\ k \in Kinds /\ VersionOK(n) /\ RulesOK(r, k) /\ AsString = a
      /\ F # None => k = "string"
  BY ConstraintsAssumption DEF RenderInv, FieldOK, VersionOK, AsString, AsStringOf
<1>2. /\ RulesOK(q, k)
      /\ o = IF E = None THEN q ELSE WithoutEnum(q)
  BY <1>1, WithoutFormatIs DEF Overridden
<1>3. RulesOK(o, k)
  <2>1. q = None => WithoutEnum(q) = None
    BY DEF WithoutEnum
  <2>. QED
    BY <1>1, <1>2, <2>1, WithoutSets DEF RulesOK
<1>4. /\ q = None => o = None
      /\ q # None => r # None
      /\ r # None /\ F = None => q = r
  BY <1>2 DEF WithoutEnum, WithoutFormat
<1>5. FieldAllows(v) <=> Allows(o, v) /\ Enum /\ Format
  BY <1>1 DEF FieldAllows, AllowsOne
<1>6. ValueAdmits(v) <=> AdmitsRest(schema, k, j, n) /\ AdmitsListed(schema, j)
  <2>1. ValueAdmits(v) <=> AdmitsJson(schema, k, j, n)
    BY <1>1 DEF ValueAdmits
  <2>. QED
    BY <2>1, RestAndListed
<1>7. schema = PutIfSet(e, "format", F)
  BY DEF RenderInv, OptionsOver
<1>8. s = ValueSchema(k, r, a, n)
  BY DEF OneSchema
<1>9. /\ SameRest(e, s)
      /\ AdmitsListed(e, j) <=> IF E = None THEN EnumSays(k, r, a, n, v) ELSE Listed(E, j)
  <2>1. CASE E = None
    BY <1>8, <2>1 DEF PutIfSet, SameRest, EnumSays
  <2>2. CASE E # None
    BY <2>2, PutEnum DEF PutIfSet, AdmitsListed
  <2>. QED
    BY <2>1, <2>2
\* What the schema says, in terms of the rules that the format option leaves.
<1>10. ValueAdmits(v) <=>
         /\ RestSays(k, q, a, n, v) /\ Format
         /\ IF E = None THEN EnumSays(k, q, a, n, v) ELSE Listed(E, j)
  <2>1. CASE F = None
    <3>1. schema = e /\ q = r
      BY <1>7, <2>1 DEF PutIfSet
    <3>2. AdmitsRest(e, k, j, n) <=> RestSays(k, r, a, n, v)
      BY <1>8, <1>9, SameRestAdmits DEF RestSays
    <3> HIDE DEF e
    <3>. QED
      BY <1>6, <1>9, <2>1, <3>1, <3>2
  <2>2. CASE F # None
    <3> DEFINE Z == Put(s, "format", F)
    <3>1. k = "string" /\ v \in Seq(Chars) /\ q = WithoutFormat(r)
      BY <1>1, <2>2 DEF ValueOK
    <3>2. schema = Put(e, "format", F)
      BY <1>7, <2>2 DEF PutIfSet
    <3>3. /\ Has(Z, "format") /\ Z["format"] = F
          /\ \A l : l # "format" => (Has(Z, l) <=> Has(s, l)) /\ (Has(s, l) => Z[l] = s[l])
      BY PutHas
    <3>4. /\ Has(schema, "format") /\ schema["format"] = F
          /\ \A l : l # "format" => (Has(schema, l) <=> Has(e, l)) /\ (Has(e, l) => schema[l] = e[l])
      BY <3>2, PutHas
    <3> HIDE DEF Z, e
    <3>5. SameRest(schema, Z)
      BY <1>9, <3>3, <3>4 DEF SameRest
    <3>6. /\ AdmitsRest(Z, "string", j, n) <=>
               RestSays("string", WithoutFormat(r), a, n, v) /\ v \in Conforming[F]
          /\ EnumSays("string", WithoutFormat(r), a, n, v) <=> EnumSays("string", r, a, n, v)
      BY <1>1, <1>8, <3>1, <3>3, FormatSays
    <3>7. AdmitsRest(schema, k, j, n) <=> RestSays(k, q, a, n, v) /\ v \in Conforming[F]
      BY <3>1, <3>5, <3>6, SameRestAdmits
    <3>8. AdmitsListed(schema, j) <=> AdmitsListed(e, j)
      BY <3>4 DEF AdmitsListed
    <3>. QED
      BY <1>6, <1>9, <2>2, <3>1, <3>6, <3>7, <3>8
  <2>. QED
    BY <2>1, <2>2
<1>11. ~Stricter => ~Tightened(o, k)
  BY DEF Stricter
<1>12. ~Looser => ~Loosened(o, k) /\ ~(E # None /\ k = "string" /\ q # None /\ q.const # None)
  <2>1. q # None /\ k = "string" => r # None /\ q.const = r.const
    <3>1. ASSUME r # None, k = "string" PROVE WithoutFormat(r).const = r.const
      <4>1. r \in StringRules /\ r.type = "string"
        BY <1>1, <3>1, RulesOf
      <4>. QED
        BY <3>1, <4>1 DEF WithoutFormat, StringRules
    <3>. QED
      BY <1>4, <3>1
  <2>. QED
    BY <2>1 DEF Looser
<1> HIDE DEF q, o, s, e, j, a, k, r, n, E, F, Enum, Format
<1>13. CASE E = None
  <2>1. o = q /\ (Enum <=> TRUE)
    BY <1>2, <1>13 DEF Enum
  <2>2. ASSUME ~Stricter, FieldAllows(v) PROVE ValueAdmits(v)
    BY <1>1, <1>2, <1>5, <1>10, <1>11, <1>13, <2>1, <2>2, RulesNeverRefuse DEF k
  <2>3. ASSUME ~Looser, ValueAdmits(v) PROVE FieldAllows(v)
    BY <1>1, <1>2, <1>5, <1>10, <1>12, <1>13, <2>1, <2>3, RulesNeverAdmit DEF k
  <2>. QED
    BY <2>2, <2>3
<1>14. CASE E # None
  <2>1. o = WithoutEnum(q) /\ (Enum <=> Listed(E, j))
    BY <1>2, <1>14 DEF Enum
  <2>2. ASSUME ~Stricter, FieldAllows(v) PROVE ValueAdmits(v)
    <3>1. RestSays(k, o, a, n, v)
      BY <1>1, <1>3, <1>5, <1>11, <2>2, RulesNeverRefuse DEF k
    <3>2. RestSays(k, q, a, n, v)
      BY <1>1, <1>2, <2>1, <3>1, WithoutSetsRest DEF k
    <3>. QED
      BY <1>5, <1>10, <1>14, <2>1, <2>2, <3>2
  <2>3. ASSUME ~Looser, ValueAdmits(v) PROVE FieldAllows(v)
    <3>1. ~Loosened(o, k) /\ ~(q # None /\ k = "string" /\ q.const # None)
      BY <1>12, <1>14, <2>3
    <3>2. RestSays(k, o, a, n, v)
      BY <1>1, <1>2, <1>10, <2>1, <2>3, <3>1, WithoutSetsRest DEF k
    <3>3. EnumSays(k, o, a, n, v)
      BY <1>1, <1>2, <2>1, <3>1, WithoutSetsListed DEF k
    <3>4. Allows(o, v)
      BY <1>1, <1>3, <3>1, <3>2, <3>3, RulesNeverAdmit DEF k
    <3>. QED
      BY <1>5, <1>10, <1>14, <2>1, <2>3, <3>4
  <2>. QED
    BY <2>2, <2>3
<1>. QED
  BY <1>13, <1>14

\* A field that is left out or null.
LEMMA ZeroIsAllowed ==
  ASSUME RenderInv, phase = "done", ~Looser, NEW w \in {Absent, Null}, FieldAdmits(w)
  PROVE  FieldAllows(Zero)
<1>1. /\ required <=> RequiredOf(field)
      /\ nullable = NullableOf(field)
  BY DEF RenderInv
<1>2. /\ FieldAdmits(Absent) <=> ~required
      /\ FieldAdmits(Null) <=> nullable = TRUE
  BY DEF FieldAdmits, Absent, Null
<1>3. ~RequiredOf(field) => CanBeLeftOut
  BY DEF RequiredOf, CanBeLeftOut, ValidateRequired
<1>4. NullableOf(field) = TRUE => CanBeLeftOut
  <2>1. CASE field.nullable # None
    BY <2>1 DEF NullableOf, CanBeLeftOut
  <2>2. CASE field.nullable = None /\ field.presence = "wrapper"
    BY <2>2 DEF CanBeLeftOut
  <2>3. CASE field.nullable = None /\ field.presence # "wrapper"
    BY <2>3, ConstraintsAssumption DEF NullableOf, BaseNullable
  <2>. QED
    BY <2>1, <2>2, <2>3
<1>. QED
  BY <1>1, <1>2, <1>3, <1>4 DEF Looser

\* A value that is not there is not required.
LEMMA NoneIsAdmitted ==
  ASSUME RenderInv, phase = "done", field.label = "one", HasPresence, FieldAllows(None)
  PROVE  FieldAdmits(Absent)
<1> DEFINE r == field.rules
<1>1. field.kind \in Kinds /\ RulesOK(r, field.kind)
  BY ConstraintsAssumption DEF RenderInv, FieldOK
<1>2. ~field.requiredOption /\ (field.presence = "none" => Allows(r, None))
  BY DEF FieldAllows, AllowsOne
<1>3. ASSUME r # None, r.type = "message", r.required PROVE FALSE
  <2>1. field.kind = "message"
    BY <1>1, <1>3, RulesOf, KindsAre
  <2>2. field.presence = "none"
    BY <2>1, ConstraintsAssumption DEF RenderInv, FieldOK
  <2>. QED
    BY <1>2, <1>3, <2>2 DEF Allows
<1>. QED
  BY <1>2, <1>3 DEF FieldAdmits, Absent, RenderInv, RequiredOf

-----------------------------------------------------------------------------
(* Lists *)

\* A minimum and a maximum, of items or of properties.
LEMMA SizesSay ==
  ASSUME NEW s, NEW least, NEW most, least # most, ~Has(s, least), ~Has(s, most),
         NEW x, NEW y
  PROVE  LET z == PutIfSet(PutIfSet(s, least, x), most, y)
         IN  /\ \A n : SizeAdmits(z, n, least, most) <=> Within(n, x, y)
             /\ \A l : l \notin {least, most} => (Has(z, l) <=> Has(s, l))
<1> DEFINE a == PutIfSet(s, least, x)
<1> DEFINE z == PutIfSet(a, most, y)
<1>1. /\ Has(a, least) <=> x # None
      /\ x # None => a[least] = x
      /\ ~Has(a, most)
      /\ \A l : l # least => (Has(a, l) <=> Has(s, l))
  BY PutIfSetHas
<1> HIDE DEF a
<1>2. /\ Has(z, most) <=> y # None
      /\ y # None => z[most] = y
      /\ Has(z, least) <=> Has(a, least)
      /\ Has(a, least) => z[least] = a[least]
      /\ \A l : l # most => (Has(z, l) <=> Has(a, l))
  BY <1>1, PutIfSetHas
<1> HIDE DEF z
<1>3. /\ \A n : SizeAdmits(z, n, least, most) <=> Within(n, x, y)
      /\ \A l : l \notin {least, most} => (Has(z, l) <=> Has(s, l))
  BY <1>1, <1>2 DEF SizeAdmits, Within
<1>. QED
  BY <1>3 DEF a, z

LEMMA ListSchemaSays ==
  ASSUME NEW f, f.label = "list", f.rules # None
  PROVE  /\ \A n : SizeAdmits(ListSchema(f), n, "minItems", "maxItems") <=>
                   Within(n, f.rules.min, f.rules.max)
         /\ Has(ListSchema(f), "uniqueItems") <=> f.rules.unique
<1> DEFINE c == Container(f)
<1> DEFINE z == PutIfSet(PutIfSet(c, "minItems", f.rules.min), "maxItems", f.rules.max)
<1> DEFINE u == Mark(z, "uniqueItems")
<1>1. ~Has(c, "minItems") /\ ~Has(c, "maxItems") /\ ~Has(c, "uniqueItems")
  BY DEF Container, Has
<1> HIDE DEF c
<1>2. /\ \A n : SizeAdmits(z, n, "minItems", "maxItems") <=> Within(n, f.rules.min, f.rules.max)
      /\ ~Has(z, "uniqueItems")
  BY <1>1, SizesSay
<1> HIDE DEF z
<1>3. /\ Has(u, "uniqueItems")
      /\ \A l : l # "uniqueItems" => (Has(u, l) <=> Has(z, l))
      /\ \A l : l # "uniqueItems" /\ Has(z, l) => u[l] = z[l]
  BY MarkHas
<1>4. \A n : SizeAdmits(u, n, "minItems", "maxItems") <=> SizeAdmits(z, n, "minItems", "maxItems")
  <2> HIDE DEF u
  <2>. QED
    BY <1>3 DEF SizeAdmits
<1>5. ListSchema(f) = IF f.rules.unique THEN u ELSE z
  BY DEF ListSchema, z, c
<1> HIDE DEF u
<1>. QED
  BY <1>2, <1>3, <1>4, <1>5

\* What is in lists and maps.
LEMMA ElemIsExact ==
  ASSUME RenderInv, phase = "done", field.label # "one", NEW v \in Scalars(field.kind)
  PROVE  /\ ~Tightened(ElemRule(field), field.kind) /\ Allows(ElemRule(field), v) => AdmitsElem(v)
         /\ ~Loosened(ElemRule(field), field.kind) /\ AdmitsElem(v) => Allows(ElemRule(field), v)
<1> DEFINE k == field.kind
<1> DEFINE r == ElemRule(field)
<1> DEFINE a == AsStringOf(field)
<1> DEFINE n == field.version
<1>1. k \in Kinds /\ VersionOK(n) /\ RulesOK(r, k) /\ AsString = a
  BY ConstraintsAssumption DEF RenderInv, FieldOK, VersionOK, AsString, AsStringOf, ElemRule, RulesOK
<1>2. ValueOK(k, v) /\ v # None
  BY <1>1, ScalarsAreValues
<1>3. AdmitsElem(v) <=> RestSays(k, r, a, n, v) /\ EnumSays(k, r, a, n, v)
  <2>1. elem = ValueSchema(k, r, a, n)
    BY DEF RenderInv, ElemSchema
  <2>2. AdmitsElem(v) <=> AdmitsJson(elem, k, Json(k, a, v), n)
    BY <1>1 DEF AdmitsElem
  <2>. QED
    BY <2>1, <2>2, RestAndListed DEF RestSays, EnumSays
<1> HIDE DEF k, r, a, n
<1>4. ~Tightened(r, k) /\ Allows(r, v) => AdmitsElem(v)
  BY <1>1, <1>2, <1>3, RulesNeverRefuse
<1>5. ~Loosened(r, k) /\ AdmitsElem(v) => Allows(r, v)
  BY <1>1, <1>2, <1>3, RulesNeverAdmit
<1>. QED
  BY <1>4, <1>5 DEF k, r

LEMMA ListIsExact ==
  ASSUME RenderInv, phase = "done", field.label = "list",
         NEW w \in BoundedSeq(Scalars(field.kind), MaxSize)
  PROVE  /\ ~Stricter /\ FieldAllows(w) => ValueAdmits(w)
         /\ ~Looser /\ ValueAdmits(w) => FieldAllows(w)
<1> DEFINE r == field.rules
<1> DEFINE e == ElemRule(field)
<1>1. \A i \in DOMAIN w : w[i] \in Scalars(field.kind)
  BY DEF BoundedSeq, SeqOf
<1>2. FieldAllows(w) <=> AllowsList(r, w)
  BY DEF FieldAllows
<1>3. ValueAdmits(w) <=>
        /\ SizeAdmits(schema, Len(w), "minItems", "maxItems")
        /\ Has(schema, "uniqueItems") => \A i, j \in DOMAIN w : w[i] = w[j] => i = j
        /\ \A i \in DOMAIN w : AdmitsElem(w[i])
  BY DEF ValueAdmits
<1>4. schema = ContainerSchema(field)
  BY DEF RenderInv
<1>5. /\ \A i \in DOMAIN w : ~Tightened(e, field.kind) /\ Allows(e, w[i]) => AdmitsElem(w[i])
      /\ \A i \in DOMAIN w : ~Loosened(e, field.kind) /\ AdmitsElem(w[i]) => Allows(e, w[i])
  BY <1>1, ElemIsExact
<1>6. CASE r = None
  <2>1. ~Has(schema, "minItems") /\ ~Has(schema, "maxItems") /\ ~Has(schema, "uniqueItems")
    BY <1>4, <1>6 DEF ContainerSchema, Container, Has
  <2>2. Allows(e, w[1]) /\ e = None /\ ~Tightened(e, field.kind)
    BY <1>6 DEF ElemRule, Allows, Tightened
  <2>3. \A i \in DOMAIN w : AdmitsElem(w[i])
    BY <1>5, <2>2 DEF Allows
  <2>. QED
    BY <1>2, <1>3, <1>6, <2>1, <2>3 DEF AllowsList, SizeAdmits
<1>7. CASE r # None
  <2>1. e = r.elem
    BY <1>7 DEF ElemRule
  <2>2. /\ SizeAdmits(schema, Len(w), "minItems", "maxItems") <=> Within(Len(w), r.min, r.max)
        /\ Has(schema, "uniqueItems") <=> r.unique
    BY <1>4, <1>7, ListSchemaSays DEF ContainerSchema
  <2>3. ~Stricter => ~r.ignoreEmpty /\ ~Tightened(e, field.kind)
    BY <1>7, <2>1 DEF Stricter
  <2>4. ~Looser => ~Loosened(e, field.kind)
    BY <1>7, <2>1 DEF Looser
  <2>5. AllowsList(r, w) <=>
          \/ r.ignoreEmpty /\ w = <<>>
          \/ /\ Within(Len(w), r.min, r.max)
             /\ r.unique => \A i, j \in DOMAIN w : w[i] = w[j] => i = j
             /\ \A i \in DOMAIN w : Allows(e, w[i])
    BY <1>7, <2>1 DEF AllowsList
  <2>. QED
    BY <1>2, <1>3, <1>5, <2>2, <2>3, <2>4, <2>5
<1>. QED
  BY <1>6, <1>7

\* A list that may be empty may be left out.
LEMMA NilIsAdmitted ==
  ASSUME RenderInv, phase = "done", field.label = "list", ~Stricter, FieldAllows(<<>>)
  PROVE  FieldAdmits(Absent)
<1>1. ~field.requiredOption
  BY DEF Stricter, FieldAllows
<1>2. field.rules # None => field.rules.type = "list"
  BY ConstraintsAssumption DEF RenderInv, FieldOK
<1>. QED
  BY <1>1, <1>2 DEF FieldAdmits, Absent, RenderInv, RequiredOf

-----------------------------------------------------------------------------
(* Keys *)

LEMMA EmptySays ==
  SaysText(Empty)
  BY DEF SaysText, Empty, Has

\* A key of text has the rules of a text, without the type.
LEMMA TextKey ==
  ASSUME NEW r, r # None, StringRulesOK(r), NEW t \in Seq(Chars), NEW version
  PROVE  AdmitsJson(ApplyFieldRules(Empty, r, FALSE, version), "string", String(t), version) <=>
           RestSays("string", r, FALSE, version, t) /\ EnumSays("string", r, FALSE, version, t)
<1> DEFINE s == Empty
<1> DEFINE S == ApplyStringRules(s, r)
<1> DEFINE rest == AdmitsRest(S, "string", String(t), version)
<1> DEFINE listed == AdmitsListed(S, String(t))
<1>1. ApplyFieldRules(s, r, FALSE, version) = S
  BY DEF ApplyFieldRules, StringRulesOK, StringRules
<1>2. SaysText(s)
  BY EmptySays
<1> HIDE DEF s
<1>3. /\ r.const # None => rest
      /\ r.const = None => (rest <=> TextSays(r, t))
      /\ listed <=> IF r.const # None THEN t = r.const ELSE r.in # {} => t \in r.in
  BY <1>2, StringRest, StringListed
<1>4. AdmitsJson(S, "string", String(t), version) <=> rest /\ listed
  BY RestAndListed
<1> HIDE DEF S, rest, listed
<1>. QED
  BY <1>1, <1>3, <1>4, StringSays DEF s

\* A key that is a number is written as a text, as a 64-bit number is.
LEMMA NumberKey ==
  ASSUME NEW r, r # None, NumberRulesOK(r), NEW k, NEW t, NEW n, NEW version
  PROVE  AdmitsJson(ApplyFieldRules(Empty, r, FALSE, version), k, String(t), version) <=>
           RestSays("int64", r, FALSE, version, n) /\ EnumSays("int64", r, FALSE, version, n)
<1> DEFINE S == ApplyNumericRules(Empty, r, version)
<1>1. ApplyFieldRules(Empty, r, FALSE, version) = S
  BY DEF ApplyFieldRules, NumberRulesOK, NumberRules
<1>2. /\ AdmitsRest(S, k, String(t), version)
      /\ AdmitsListed(S, String(t)) <=> ~OneOfSet(r)
  BY EmptySays, NumericOnText
<1> HIDE DEF S
<1>. QED
  BY <1>1, <1>2, WideSays, RestAndListed DEF Wide

LEMMA BoolKey ==
  ASSUME NEW r, r # None, r \in BoolRules, NEW k, NEW t, NEW version
  PROVE  AdmitsJson(ApplyFieldRules(Empty, r, FALSE, version), k, String(t), version) <=>
           r.const = None
<1> DEFINE S == ApplyFieldRules(Empty, r, FALSE, version)
<1>1. S = IF r.const = None THEN Empty ELSE Put(Empty, "enum", {Bool(r.const)})
  BY DEF ApplyFieldRules, BoolRules
<1>2. CASE r.const = None
  BY <1>1, <1>2, EmptySays, TextIsAdmitted, RestAndListed
<1>3. CASE r.const # None
  <2>1. S = Put(Empty, "enum", {Bool(r.const)})
    BY <1>1, <1>3
  <2>2. Has(S, "enum") /\ S["enum"] = {Bool(r.const)}
    BY <2>1, PutEnum
  <2>3. ~Listed({Bool(r.const)}, String(t))
    BY DEF Listed, Bool, String
  <2>. QED
    BY <1>3, <2>2, <2>3, RestAndListed DEF AdmitsListed
<1>. QED
  BY <1>2, <1>3

LEMMA AnyKey ==
  ASSUME RenderInv, phase = "done", field.label = "map", KeyRule(field) = None, NEW t
  PROVE  AdmitsKey(t)
<1>1. names = Empty
  BY WithoutRules DEF RenderInv, KeySchema
<1>. QED
  BY <1>1, EmptySays, TextIsAdmitted, RestAndListed DEF AdmitsKey

\* What is said of a key, whatever the spelling of one that is no string.
LEMMA KeyIsExact ==
  ASSUME RenderInv, phase = "done", field.label = "map", field.rules # None,
         NEW n \in Scalars(field.key), NEW t, field.key = "string" => t = n
  PROVE  /\ ~(field.version = "3.1" /\ Tightened(field.rules.keys, KeyKind)) /\
              Allows(field.rules.keys, n) => AdmitsKey(t)
         /\ ~(field.rules.keys # None /\ field.version = "3.0") /\
            ~Loosened(field.rules.keys, KeyKind) /\ AdmitsKey(t) => Allows(field.rules.keys, n)
<1> DEFINE r == field.rules.keys
<1> DEFINE k == field.key
<1> DEFINE m == field.version
<1>1. /\ k \in KeyKinds /\ RulesOK(r, k) /\ VersionOK(m) /\ k \in Kinds
      /\ "int64" \in Kinds /\ "string" \in Kinds
  BY ConstraintsAssumption DEF RenderInv, FieldOK, VersionOK, KeyKinds, Kinds, Numbers
<1>2. CASE KeyRule(field) = None
  <2>1. AdmitsKey(t)
    BY <1>2, AnyKey
  <2>2. r = None \/ m = "3.0"
    BY <1>1, <1>2 DEF KeyRule, VersionOK
  <2>3. r = None => Allows(r, n)
    BY DEF Allows
  <2>. QED
    BY <2>1, <2>2, <2>3
<1>3. CASE KeyRule(field) # None
  <2>1. KeyRule(field) = r /\ r # None /\ m = "3.1"
    BY <1>3 DEF KeyRule
  <2>2. AdmitsKey(t) <=> AdmitsJson(ApplyFieldRules(Empty, r, FALSE, m), k, String(t), m)
    BY <2>1 DEF AdmitsKey, RenderInv, KeySchema
  <2>3. ValueOK(k, n) /\ n # None
    BY <1>1, ScalarsAreValues
  <2>4. CASE k = "string"
    <3>1. StringRulesOK(r) /\ KeyKind = "string" /\ n \in Seq(Chars)
      BY <1>1, <2>1, <2>3, <2>4, RulesOf DEF KeyKind, ValueOK
    <3>2. AdmitsKey(t) <=>
            RestSays("string", r, FALSE, m, n) /\ EnumSays("string", r, FALSE, m, n)
      BY <2>1, <2>2, <2>4, <3>1, TextKey
    <3>3. ~Tightened(r, "string") /\ Allows(r, n) => AdmitsKey(t)
      BY <1>1, <2>3, <2>4, <3>2, RulesNeverRefuse
    <3>4. ~Loosened(r, "string") /\ AdmitsKey(t) => Allows(r, n)
      BY <1>1, <2>3, <2>4, <3>2, RulesNeverAdmit
    <3>. QED
      BY <2>1, <3>1, <3>3, <3>4
  <2>5. CASE k \in Numbers
    <3>1. NumberRulesOK(r) /\ KeyKind = "int64" /\ ValueOK("int64", n) /\ RulesOK(r, "int64")
      <4>1. k # "string" /\ (k \in Plain \/ k \in Wide) /\ n \in Int
        BY <2>3, <2>5 DEF Numbers, Plain, Wide, ValueOK, NumbersOf
      <4>2. NumberRulesOK(r)
        BY <1>1, <2>1, <4>1, RulesOf
      <4>. QED
        BY <4>1, <4>2 DEF KeyKind, ValueOK, NumbersOf, RulesOK, Numbers
    <3>2. AdmitsKey(t) <=>
            RestSays("int64", r, FALSE, m, n) /\ EnumSays("int64", r, FALSE, m, n)
      BY <2>1, <2>2, <3>1, NumberKey
    <3>3. ~Tightened(r, "int64") /\ Allows(r, n) => AdmitsKey(t)
      BY <1>1, <3>1, <3>2, RulesNeverRefuse
    <3>4. ~Loosened(r, "int64") /\ AdmitsKey(t) => Allows(r, n)
      BY <1>1, <2>3, <3>1, <3>2, RulesNeverAdmit
    <3>. QED
      BY <2>1, <3>1, <3>3, <3>4
  <2>6. CASE k = "bool"
    <3>1. r \in BoolRules /\ r.type = "bool" /\ KeyKind = "int64"
      BY <1>1, <2>1, <2>6, RulesOf DEF KeyKind
    <3>2. AdmitsKey(t) <=> r.const = None
      BY <2>1, <2>2, <3>1, BoolKey
    <3>3. Tightened(r, KeyKind) <=> r.const # None
      BY <2>1, <3>1 DEF Tightened
    <3>4. r.const = None => Allows(r, n)
      BY <2>1, <3>1 DEF Allows
    <3>. QED
      BY <2>1, <3>2, <3>3, <3>4
  <2>. QED
    BY <1>1, <2>4, <2>5, <2>6 DEF KeyKinds, Numbers
<1>. QED
  BY <1>2, <1>3

-----------------------------------------------------------------------------
(* Maps *)

LEMMA MapSchemaSays ==
  ASSUME NEW f, f.label = "map"
  PROVE  /\ f.rules = None => \A n : SizeAdmits(ContainerSchema(f), n, "minProperties", "maxProperties")
         /\ f.rules # None =>
              \A n : SizeAdmits(ContainerSchema(f), n, "minProperties", "maxProperties") <=>
                       Within(n, f.rules.min, f.rules.max)
<1> DEFINE c == Container(f)
<1>1. ~Has(c, "minProperties") /\ ~Has(c, "maxProperties")
  BY DEF Container, Has
<1> HIDE DEF c
<1>2. CASE f.rules = None
  BY <1>1, <1>2 DEF ContainerSchema, SizeAdmits, c
<1>3. CASE f.rules # None
  BY <1>1, <1>3, SizesSay DEF ContainerSchema, MapSchema, c
<1>. QED
  BY <1>2, <1>3

\* A map of the values that are compared.
LEMMA MapsAre ==
  ASSUME NEW keys, NEW w \in MapsFrom(keys)
  PROVE  /\ w \in [DOMAIN w -> Scalars(field.kind)]
         /\ DOMAIN w \subseteq keys /\ IsFiniteSet(DOMAIN w)
<1>1. PICK K : /\ K \in {S \in SUBSET keys : IsFiniteSet(S) /\ Cardinality(S) <= MaxSize}
               /\ w \in [K -> Scalars(field.kind)]
  BY DEF MapsFrom
<1>. QED
  BY <1>1

\* The texts of keys differ as the keys do.
LEMMA TextsDiffer ==
  ASSUME NEW k, NEW l, KeyText(k) = KeyText(l)
  PROVE  k = l
<1>1. CASE field.key = "string"
  BY <1>1 DEF KeyText
<1>2. CASE field.key # "string"
  <2>1. <<k, "plain">>[1] = k /\ <<l, "plain">>[1] = l
    OBVIOUS
  <2>. QED
    BY <1>2, <2>1 DEF KeyText
<1>. QED
  BY <1>1, <1>2

\* What the converter writes: the entries under the texts of their keys.
LEMMA MapKeyIs ==
  ASSUME NEW v
  PROVE  /\ \A t : t \in DOMAIN MapKey(v) <=> \E k \in DOMAIN v : t = KeyText(k)
         /\ \A k \in DOMAIN v : MapKey(v)[KeyText(k)] = v[k]
<1>1. ASSUME NEW t PROVE t \in DOMAIN MapKey(v) <=> \E k \in DOMAIN v : t = KeyText(k)
  BY DEF MapKey
<1>2. ASSUME NEW k \in DOMAIN v PROVE MapKey(v)[KeyText(k)] = v[k]
  <2> DEFINE l == CHOOSE x \in DOMAIN v : KeyText(x) = KeyText(k)
  <2>1. MapKey(v)[KeyText(k)] = v[l]
    BY DEF MapKey
  <2>2. KeyText(l) = KeyText(k)
    OBVIOUS
  <2> HIDE DEF l
  <2>3. l = k
    BY <2>2, TextsDiffer
  <2>. QED
    BY <2>1, <2>3
<1>. QED
  BY <1>1, <1>2

LEMMA MapKeySize ==
  ASSUME NEW v, IsFiniteSet(DOMAIN v)
  PROVE  Cardinality(DOMAIN MapKey(v)) = Cardinality(DOMAIN v)
<1> DEFINE D == DOMAIN v
<1> DEFINE T == DOMAIN MapKey(v)
<1> DEFINE f == [k \in D |-> KeyText(k)]
<1>1. f \in [D -> T]
  BY MapKeyIs
<1>2. \A k, l \in D : f[k] = f[l] => k = l
  BY TextsDiffer
<1>3. \A t \in T : \E k \in D : f[k] = t
  BY MapKeyIs
<1> HIDE DEF f, T
<1>4. f \in Bijection(D, T)
  <2>1. IsInjective(f)
    BY <1>1, <1>2 DEF IsInjective
  <2>2. f \in Injection(D, T)
    BY <1>1, <2>1 DEF Injection
  <2>3. f \in Surjection(D, T)
    BY <1>1, <1>3 DEF Surjection
  <2>. QED
    BY <2>2, <2>3 DEF Bijection
<1>5. ExistsBijection(D, T)
  BY <1>4 DEF ExistsBijection
<1>. QED
  BY <1>5, FS_Bijection DEF T

\* Keys that are strings, and their map, are what they were.
LEMMA StringKeysAre ==
  ASSUME field.key = "string", NEW S, NEW v, v \in [DOMAIN v -> S]
  PROVE  MapKey(v) = v
<1>1. \A t : KeyText(t) = t
  BY DEF KeyText
<1>2. DOMAIN MapKey(v) = DOMAIN v
  BY <1>1, MapKeyIs
<1>3. \A t \in DOMAIN v : MapKey(v)[t] = v[t]
  BY <1>1, MapKeyIs
<1>4. MapKey(v) = [t \in DOMAIN MapKey(v) |-> MapKey(v)[t]]
  BY DEF MapKey
<1>. QED
  BY <1>2, <1>3, <1>4

\* What is written is read back.
LEMMA ReadBack ==
  ASSUME field.label = "map", NEW S, NEW v, v \in [DOMAIN v -> S]
  PROVE  FromOgen(Written(MapKey(v))) = {v}
<1>1. CASE field.key = "string"
  BY <1>1, StringKeysAre DEF FromOgen, Written
<1>2. CASE field.key # "string"
  <2> DEFINE w == MapKey(v)
  <2>0. FromOgen(Written(w)) = MapKeyErr(w)
    BY <1>2 DEF FromOgen, Written
  <2>1. \A k : KeyText(k) = <<k, "plain">>
    BY <1>2 DEF KeyText
  <2>2. \A t \in DOMAIN w : \E k \in DOMAIN v : t = <<k, "plain">> /\ w[t] = v[k]
    BY <2>1, MapKeyIs
  <2>3. \A k \in DOMAIN v : <<k, "plain">> \in DOMAIN w /\ w[<<k, "plain">>] = v[k]
    BY <2>1, MapKeyIs
  <2> HIDE DEF w
  <2>4. \A k : <<k, "plain">>[1] = k /\ <<k, "plain">>[2] = "plain"
    OBVIOUS
  <2>5. ~\E t \in DOMAIN w : t[2] = "word"
    BY <2>2, <2>4
  <2>6. \A t \in DOMAIN w : t[1] \in DOMAIN v /\ w[t] = v[t[1]]
    BY <2>2, <2>4
  <2>7. Parsed(w) = DOMAIN v
    <3>1. ASSUME NEW k \in DOMAIN v PROVE k \in Parsed(w)
      <4>1. <<k, "plain">> \in DOMAIN w /\ <<k, "plain">>[1] = k
        BY <2>3, <2>4
      <4>. QED
        BY <4>1, Zenon DEF Parsed
    <3>. QED
      BY <2>6, <3>1 DEF Parsed
  <2>8. \A m : m \in MapKeyErr(w) <=>
          /\ m \in [DOMAIN v -> {w[t] : t \in DOMAIN w}]
          /\ \A k \in DOMAIN v : \E t \in DOMAIN w : t[1] = k /\ m[k] = w[t]
    BY <2>5, <2>7 DEF MapKeyErr
  <2>9. ASSUME NEW m \in MapKeyErr(w) PROVE m = v
    <3>1. \A k \in DOMAIN v : m[k] = v[k]
      BY <2>6, <2>8, <2>9
    <3>2. m \in [DOMAIN v -> {w[t] : t \in DOMAIN w}]
      BY <2>8, <2>9
    <3>. QED
      BY <3>1, <3>2
  <2>10. v \in MapKeyErr(w)
    <3>1. \A k \in DOMAIN v : \E t \in DOMAIN w : t[1] = k /\ v[k] = w[t]
      BY <2>3, <2>4
    <3>2. \A k \in DOMAIN v : v[k] \in {w[t] : t \in DOMAIN w}
      BY <3>1
    <3>3. v \in [DOMAIN v -> {w[t] : t \in DOMAIN w}]
      BY <3>2
    <3>. QED
      BY <2>8, <3>1, <3>3
  <2>. QED
    BY <2>0, <2>9, <2>10 DEF w
<1>. QED
  BY <1>1, <1>2

\* What is read: values that are written, under keys that they are written of.
LEMMA ReadAs ==
  ASSUME field.label = "map", NEW w, IsFiniteSet(DOMAIN w), NEW m \in FromOgen(Written(w)),
         field.key # "string"
  PROVE  /\ DOMAIN m = Parsed(w)
         /\ \A k \in DOMAIN m : \E t \in DOMAIN w : t[1] = k /\ m[k] = w[t]
         /\ Cardinality(DOMAIN m) \in Nat /\ Cardinality(DOMAIN w) \in Nat
         /\ Cardinality(DOMAIN m) <= Cardinality(DOMAIN w)
<1>1. m \in MapKeyErr(w)
  BY DEF FromOgen, Written
<1>2. /\ m \in [Parsed(w) -> {w[t] : t \in DOMAIN w}]
      /\ \A k \in Parsed(w) : \E t \in DOMAIN w : t[1] = k /\ m[k] = w[t]
  BY <1>1 DEF MapKeyErr
<1> DEFINE f == [t \in DOMAIN w |-> t[1]]
<1>3. f \in Surjection(DOMAIN w, Parsed(w))
  BY DEF Surjection, Parsed
<1>4. IsFiniteSet(Parsed(w)) /\ Cardinality(Parsed(w)) <= Cardinality(DOMAIN w)
  BY <1>3, FS_Surjection
<1>5. Cardinality(Parsed(w)) \in Nat /\ Cardinality(DOMAIN w) \in Nat
  BY <1>4, FS_CardinalityType
<1>. QED
  BY <1>2, <1>4, <1>5

LEMMA MapRefuses ==
  ASSUME RenderInv, phase = "done", field.label = "map", ~Stricter,
         NEW v \in MapsFrom(Scalars(field.key)), FieldAllows(v)
  PROVE  ValueAdmits(MapKey(v))
<1> DEFINE r == field.rules
<1> DEFINE e == ElemRule(field)
<1> DEFINE w == MapKey(v)
<1>1. /\ v \in [DOMAIN v -> Scalars(field.kind)]
      /\ DOMAIN v \subseteq Scalars(field.key) /\ IsFiniteSet(DOMAIN v)
  BY MapsAre
<1>2. \A t \in DOMAIN w : \E k \in DOMAIN v : t = KeyText(k) /\ w[t] = v[k]
  BY MapKeyIs
<1>3. Cardinality(DOMAIN w) = Cardinality(DOMAIN v)
  BY <1>1, MapKeySize
<1>4. schema = ContainerSchema(field)
  BY DEF RenderInv
<1>5. AllowsMap(r, v)
  BY DEF FieldAllows
<1> HIDE DEF w
<1>6. SUFFICES /\ SizeAdmits(schema, Cardinality(DOMAIN w), "minProperties", "maxProperties")
               /\ \A t \in DOMAIN w : AdmitsKey(t) /\ AdmitsElem(w[t])
  BY DEF ValueAdmits, w
<1>7. CASE r = None
  <2>1. SizeAdmits(schema, Cardinality(DOMAIN w), "minProperties", "maxProperties")
    BY <1>4, <1>7, MapSchemaSays
  <2>2. \A t : AdmitsKey(t)
    BY <1>7, AnyKey DEF KeyRule
  <2>3. e = None
    BY <1>7 DEF ElemRule
  <2>4. ~Tightened(e, field.kind) /\ \A x : Allows(e, x)
    BY <2>3 DEF Tightened, Allows
  <2>5. ASSUME NEW t \in DOMAIN w PROVE AdmitsElem(w[t])
    <3>1. w[t] \in Scalars(field.kind)
      BY <1>1, <1>2
    <3>. QED
      BY <2>4, <3>1, ElemIsExact
  <2>. QED
    BY <2>1, <2>2, <2>5
<1>8. CASE r # None
  <2>1. /\ ~r.ignoreEmpty /\ ~Tightened(r.elem, field.kind)
        /\ ~(field.version = "3.1" /\ Tightened(r.keys, KeyKind))
    BY <1>8 DEF Stricter
  <2>2. /\ Within(Cardinality(DOMAIN v), r.min, r.max)
        /\ \A k \in DOMAIN v : Allows(r.keys, k) /\ Allows(r.elem, v[k])
    BY <1>5, <1>8, <2>1 DEF AllowsMap
  <2>3. SizeAdmits(schema, Cardinality(DOMAIN w), "minProperties", "maxProperties")
    BY <1>3, <1>4, <1>8, <2>2, MapSchemaSays
  <2>4. e = r.elem
    BY <1>8 DEF ElemRule
  <2>5. ASSUME NEW t \in DOMAIN w PROVE AdmitsKey(t) /\ AdmitsElem(w[t])
    <3>1. PICK k \in DOMAIN v : t = KeyText(k) /\ w[t] = v[k]
      BY <1>2, <2>5
    <3>2. k \in Scalars(field.key) /\ v[k] \in Scalars(field.kind)
      BY <1>1, <3>1
    <3>3. field.key = "string" => t = k
      BY <3>1 DEF KeyText
    <3>4. AdmitsKey(t)
      BY <1>8, <2>1, <2>2, <3>1, <3>2, <3>3, KeyIsExact
    <3>5. AdmitsElem(v[k])
      BY <2>1, <2>2, <2>4, <3>1, <3>2, ElemIsExact
    <3>. QED
      BY <3>1, <3>4, <3>5
  <2>. QED
    BY <2>3, <2>5
<1>. QED
  BY <1>7, <1>8

LEMMA MapAdmits ==
  ASSUME RenderInv, phase = "done", field.label = "map", ~Looser,
         NEW w \in MapsFrom(Texts), ValueAdmits(w), NEW m \in FromOgen(Written(w))
  PROVE  FieldAllows(m)
<1> DEFINE r == field.rules
<1>1. /\ w \in [DOMAIN w -> Scalars(field.kind)]
      /\ DOMAIN w \subseteq Texts /\ IsFiniteSet(DOMAIN w)
  BY MapsAre
<1>2. /\ SizeAdmits(schema, Cardinality(DOMAIN w), "minProperties", "maxProperties")
      /\ \A t \in DOMAIN w : AdmitsKey(t) /\ AdmitsElem(w[t])
  BY DEF ValueAdmits
<1>3. schema = ContainerSchema(field)
  BY DEF RenderInv
<1>4. SUFFICES AllowsMap(r, m)
  BY DEF FieldAllows
<1>5. CASE r = None
  BY <1>5 DEF AllowsMap
<1>6. CASE r # None
  <2>1. /\ ~Loosened(r.elem, field.kind)
        /\ ~(r.keys # None /\ field.version = "3.0") /\ ~Loosened(r.keys, KeyKind)
        /\ ~(field.key # "string" /\ r.min # None)
    BY <1>6 DEF Looser
  <2>2. Within(Cardinality(DOMAIN w), r.min, r.max)
    BY <1>2, <1>3, <1>6, MapSchemaSays
  <2>3. ElemRule(field) = r.elem
    BY <1>6 DEF ElemRule
  <2>4. ASSUME NEW t \in DOMAIN w PROVE Allows(r.elem, w[t])
    <3>1. AdmitsElem(w[t]) /\ w[t] \in Scalars(field.kind)
      BY <1>1, <1>2, <2>4
    <3>. QED
      BY <2>1, <2>3, <3>1, ElemIsExact
  <2>5. SUFFICES /\ Within(Cardinality(DOMAIN m), r.min, r.max)
                 /\ \A k \in DOMAIN m : Allows(r.keys, k) /\ Allows(r.elem, m[k])
    BY <1>6 DEF AllowsMap
  <2>6. CASE field.key = "string"
    <3>1. m = w
      BY <2>6 DEF FromOgen, Written
    <3>2. ASSUME NEW k \in DOMAIN w PROVE Allows(r.keys, k)
      <4>1. k \in Scalars(field.key) /\ AdmitsKey(k)
        BY <1>1, <1>2, <2>6, <3>2 DEF Texts
      <4>. QED
        BY <1>6, <2>1, <4>1, KeyIsExact
    <3>. QED
      BY <2>2, <2>4, <3>1, <3>2
  <2>7. CASE field.key # "string"
    <3>1. /\ \A k \in DOMAIN m : \E t \in DOMAIN w : t[1] = k /\ m[k] = w[t]
          /\ Cardinality(DOMAIN m) \in Nat /\ Cardinality(DOMAIN w) \in Nat
          /\ Cardinality(DOMAIN m) <= Cardinality(DOMAIN w)
      BY <1>1, <2>7, ReadAs
    <3>2. r.min = None /\ r.max \in {None} \cup Nat
      BY <1>6, <2>1, <2>7, ConstraintsAssumption DEF RenderInv, FieldOK, Length
    <3>3. Within(Cardinality(DOMAIN m), r.min, r.max)
      BY <2>2, <3>1, <3>2 DEF Within
    <3>4. ASSUME NEW k \in DOMAIN m PROVE Allows(r.keys, k) /\ Allows(r.elem, m[k])
      <4>1. PICK t \in DOMAIN w : t[1] = k /\ m[k] = w[t]
        BY <3>1, <3>4
      <4>2. t \in Scalars(field.key) \X Spellings
        BY <1>1, <2>7, <4>1 DEF Texts
      <4>3. k \in Scalars(field.key)
        BY <4>1, <4>2
      <4>4. Allows(r.keys, k)
        BY <1>2, <1>6, <2>1, <2>7, <4>1, <4>3, KeyIsExact
      <4>. QED
        BY <2>4, <4>1, <4>4
    <3>. QED
      BY <3>3, <3>4
  <2>. QED
    BY <2>6, <2>7
<1>. QED
  BY <1>5, <1>6

-----------------------------------------------------------------------------
(* The theorems *)

(* Whatever the rules of a field, its options, its presence, its label and *)
(* the version: each form in which a value that the rules allow may be     *)
(* written, the finished schema admits and the converters give back, but   *)
(* for what Stricter names.                                                *)
THEOREM NeverRefusesAlways == Spec => []NeverRefuses
<1>1. RenderInv => NeverRefuses
  <2>1. SUFFICES ASSUME RenderInv, phase = "done", ~Stricter, NEW v \in Values, FieldAllows(v),
                        NEW w \in ToOgen(v)
                 PROVE  FieldAdmits(w) /\ FromOgen(w) = {v}
    BY DEF NeverRefuses
  <2>2. field.label \in Labels /\ field.kind \in Kinds
    BY <2>1, ConstraintsAssumption DEF RenderInv, FieldOK
  <2>3. \A x : FieldAdmits(Written(x)) <=> ValueAdmits(x)
    BY DEF FieldAdmits, Written
  <2>4. field.label # "map" => FromOgen(Written(v)) = {v}
    BY DEF FromOgen, Written
  <2>5. FromOgen(Absent) = {Zero}
    BY DEF FromOgen, Absent
  <2>6. CASE field.label = "one"
    <3>1. v \in Scalars(field.kind) \/ (HasPresence /\ v = None)
      BY <2>6 DEF Values, Shapes
    <3>2. CASE v \in Scalars(field.kind)
      <4>1. v # None /\ ValueOK(field.kind, v)
        BY <2>2, <3>2, ScalarsAreValues
      <4>2. w = Written(v)
        BY <2>1, <2>6, <4>1 DEF ToOgen
      <4>. QED
        BY <2>1, <2>3, <2>4, <2>6, <4>1, <4>2, OneIsExact
    <3>3. CASE HasPresence /\ v = None
      <4>1. w = Absent
        BY <2>1, <2>6, <3>3 DEF ToOgen, Stricter
      <4>2. Zero = None
        BY <2>6, <3>3 DEF Zero
      <4>. QED
        BY <2>1, <2>5, <2>6, <3>3, <4>1, <4>2, NoneIsAdmitted
    <3>. QED
      BY <3>1, <3>2, <3>3
  <2>7. CASE field.label = "list"
    <3>1. w = Written(v) \/ (v = <<>> /\ w = Absent)
      BY <2>1, <2>7 DEF ToOgen
    <3>2. v \in BoundedSeq(Scalars(field.kind), MaxSize)
      BY <2>7 DEF Values, Shapes
    <3>3. CASE w = Written(v)
      BY <2>1, <2>3, <2>4, <2>7, <3>2, <3>3, ListIsExact
    <3>4. CASE v = <<>> /\ w = Absent
      <4>1. Zero = <<>>
        BY <2>7 DEF Zero
      <4>. QED
        BY <2>1, <2>5, <2>7, <3>4, <4>1, NilIsAdmitted
    <3>. QED
      BY <3>1, <3>3, <3>4
  <2>8. CASE field.label = "map"
    <3>1. v \in MapsFrom(Scalars(field.key)) /\ w = Written(MapKey(v))
      BY <2>1, <2>8 DEF Values, Shapes, ToOgen
    <3>2. v \in [DOMAIN v -> Scalars(field.kind)]
      BY <3>1, MapsAre
    <3>. QED
      BY <2>1, <2>3, <2>8, <3>1, <3>2, MapRefuses, ReadBack
  <2>. QED
    BY <2>2, <2>6, <2>7, <2>8 DEF Labels
<1>. QED
  BY <1>1, RenderInvariant, PTL

(* Whatever the rules of a field, its options, its presence, its label and *)
(* the version: what the finished schema admits, in every form, a field    *)
(* that is left out or null included, the converters refuse or make a      *)
(* value of that the rules allow, but for what Looser names.               *)
THEOREM NeverAdmitsAlways == Spec => []NeverAdmits
<1>1. RenderInv => NeverAdmits
  <2>1. SUFFICES ASSUME RenderInv, phase = "done", ~Looser,
                        NEW w \in Forms, FieldAdmits(w), NEW v \in FromOgen(w)
                 PROVE  FieldAllows(v)
    BY DEF NeverAdmits
  <2>2. field.label \in Labels /\ field.kind \in Kinds
    BY <2>1, ConstraintsAssumption DEF RenderInv, FieldOK
  <2>3. CASE w \in {Absent, Null}
    <3>1. v = Zero
      BY <2>1, <2>3 DEF FromOgen, Absent, Null
    <3>. QED
      BY <2>1, <2>3, <3>1, ZeroIsAllowed
  <2>4. CASE w \notin {Absent, Null}
    <3>1. PICK x \in Shapes(Texts) : w = Written(x)
      BY <2>4 DEF Forms
    <3>2. ValueAdmits(x) /\ v \in FromOgen(Written(x))
      BY <2>1, <3>1 DEF FieldAdmits, Written
    <3>3. field.label # "map" => v = x
      BY <3>2 DEF FromOgen, Written
    <3>4. CASE field.label = "one"
      <4>1. x # None /\ ValueOK(field.kind, x)
        BY <2>2, <3>4, ScalarsAreValues DEF Shapes
      <4>. QED
        BY <2>1, <3>2, <3>3, <3>4, <4>1, OneIsExact
    <3>5. CASE field.label = "list"
      BY <2>1, <3>2, <3>3, <3>5, ListIsExact DEF Shapes
    <3>6. CASE field.label = "map"
      BY <2>1, <3>2, <3>6, MapAdmits DEF Shapes
    <3>. QED
      BY <2>2, <3>4, <3>5, <3>6 DEF Labels
  <2>. QED
    BY <2>3, <2>4
<1>. QED
  BY <1>1, RenderInvariant, PTL

(* What the two theorems say of values that are compared, of every number  *)
(* of the type.                                                            *)
NumberField == field.label = "one" /\ field.kind \in Numbers

NumbersExact ==
  phase = "done" /\ NumberField =>
    \A n \in NumbersOf(field.kind) :
      /\ ~Stricter /\ FieldAllows(n) =>
           \A w \in ToOgen(n) : FieldAdmits(w) /\ FromOgen(w) = {n}
      /\ ~Looser /\ FieldAdmits(Written(n)) => \A v \in FromOgen(Written(n)) : FieldAllows(v)

(* For every field of a number type, whatever its rules, its options and   *)
(* its version: each number of the type that the rules allow is admitted   *)
(* by the finished schema and read back, and each number that it admits is *)
(* allowed, but for the rules that Stricter and Looser name.               *)
THEOREM NumbersAlwaysExact == Spec => []NumbersExact
<1>1. RenderInv => NumbersExact
  <2>1. SUFFICES ASSUME RenderInv, phase = "done", NumberField, NEW n \in NumbersOf(field.kind)
                 PROVE  /\ ~Stricter /\ FieldAllows(n) =>
                             \A w \in ToOgen(n) : FieldAdmits(w) /\ FromOgen(w) = {n}
                        /\ ~Looser /\ FieldAdmits(Written(n)) =>
                             \A v \in FromOgen(Written(n)) : FieldAllows(v)
    BY DEF NumbersExact
  <2>2. ValueOK(field.kind, n) /\ n # None /\ field.label = "one"
    BY <2>1, ConstraintsAssumption DEF ValueOK, NumberField, Numbers, NumbersOf
  <2>3. FieldAdmits(Written(n)) <=> ValueAdmits(n)
    BY DEF FieldAdmits, Written
  <2>4. FromOgen(Written(n)) = {n}
    BY <2>2 DEF FromOgen, Written
  <2>5. ToOgen(n) = {Written(n)}
    BY <2>2 DEF ToOgen
  <2>. QED
    BY <2>1, <2>2, <2>3, <2>4, <2>5, OneIsExact
<1>. QED
  BY <1>1, RenderInvariant, PTL
=============================================================================
