-------------------------------- MODULE MCJson --------------------------------
(***************************************************************************)
(* The parts of rapidjson in one model: a behaviour is one of a single     *)
(* part, its subject, and the others stay as they were made.               *)
(***************************************************************************)
EXTENDS JsonReader, JsonText, JsonNumber, BigInteger, JsonPointer, JsonRegex, JsonSchema,
        JsonValue

VARIABLE subject

JsonSubjects == {"text", "encoding", "number", "big", "pointer", "regex", "schema", "value"}

\* What the others are made with; no schema to compile.
NoCase == [doc |-> <<>>, events |-> {}, names |-> {}, max |-> 0]

AllInit ==
  /\ subject \in JsonSubjects
  /\ JsonTextInit /\ JsonNumberInit /\ PointerInit
  /\ JsonInit /\ (subject # "text" => flags = {} /\ stopAt = 0)
  /\ BigInit /\ (subject # "big" => big = [count |-> 1, digits |-> [i \in Words |-> 0]])
  /\ RegexInit /\ (subject # "regex" => alphabet = {})
  /\ SchemaInit /\ (subject = "schema" <=> schemaCase # NoCase)
  /\ JsonValueInit /\ (subject # "value" => ~userBuffer)

\* What is not about the subject stays.
Rest ==
  /\ UNCHANGED subject
  /\ subject # "text" => UNCHANGED jsonVars
  /\ subject # "encoding" => UNCHANGED jsonTextVars
  /\ subject # "number" => UNCHANGED numberVars
  /\ subject # "big" => UNCHANGED bigVars
  /\ subject # "pointer" => UNCHANGED pointerVars
  /\ subject # "regex" => UNCHANGED regexVars
  /\ subject # "schema" => UNCHANGED schemaVars
  /\ subject # "value" => UNCHANGED valueVars

AllNext ==
  \/ subject = "text" /\ JsonNext /\ Rest
  \/ subject = "encoding" /\ JsonTextNext /\ Rest
  \/ subject = "number" /\ JsonNumberNext /\ Rest
  \/ subject = "big" /\ BigNext /\ Rest
  \/ subject = "pointer" /\ PointerNext /\ Rest
  \/ subject = "regex" /\ RegexNext /\ Rest
  \/ subject = "schema" /\ SchemaNext /\ Rest
  \/ subject = "value" /\ JsonValueNext /\ Rest

allVars ==
  <<subject, jsonVars, jsonTextVars, numberVars, bigVars, pointerVars, regexVars, schemaVars,
    valueVars>>

AllSpec == AllInit /\ [][AllNext]_allVars

-----------------------------------------------------------------------------
\* The two values, and the names, numbers and strings in them, are only
\* compared.
MCSymmetry ==
  UNION {Permutations(S) : S \in {Roots, Names, Ints, Strings}}

MCFlagSets == {{}, {"commas"}, {"stop"}, {"commas", "comments"}}
MCDecimals ==
  {<<9, 9, 9>>, <<1, 0, 2, 3, 0, 0>>, <<1, 0, 4, 8, 5, 7, 6>>, <<1, 0, 7, 3, 7, 4, 1, 8>>, <<7>>}
\* Sources of pointers: 12 is the solidus, 10 a letter, 13 the hyphen.
MCPointers ==
  {<<>>, <<12, 0>>, <<12, 1>>, <<12, 2>>, <<12, 10>>, <<12, 13>>, <<12, 10, 12, 0>>,
   <<12, 10, 12, 1>>, <<12, 0, 12, 10>>, <<12, 1, 12, 0>>, <<12, 13, 12, 10>>, <<12, 0, 12, 13>>}

\* Pieces of patterns: their kind, their characters, the letters they stand
\* for and how often they repeat what is before them; 5 is Infinity, 1 and 2
\* are letters, 33 is the hyphen, which is in the texts too.
Piece(kind, chars, set, lo, hi) == [kind |-> kind, chars |-> chars, set |-> set, lo |-> lo, hi |-> hi]
Single(chars, set) == Piece("char", chars, set, 1, 1)
Post(chars, lo, hi) == Piece("post", chars, {}, lo, hi)
Bad(chars) == Piece("bad", chars, {}, 0, 0)
Letter == Single(<<1>>, {1})
Either == Piece("bar", <<22>>, {}, 0, 0)
Groups == {Piece("open", <<23>>, {}, 0, 0), Piece("close", <<24>>, {}, 0, 0)}
MCAlphabets ==
  {{},
   Groups \cup {Letter, Either, Post(<<26>>, 0, 5)},
   Groups \cup {Letter, Post(<<25>>, 0, 1), Post(<<28, 11, 35, 13, 29>>, 1, 3),
                Post(<<28, 12, 35, 29>>, 2, 5)},
   Groups \cup {Single(<<30>>, {1, 33}), Post(<<27>>, 1, 5), Post(<<28, 10, 35, 12, 29>>, 0, 2),
                Post(<<28, 12, 29>>, 2, 2)},
   {Letter, Single(<<33>>, {33}), Either, Piece("anchor", <<20>>, {}, 0, 0),
    Piece("anchor", <<21>>, {}, 0, 0), Post(<<26>>, 0, 5)},
   {Letter, Single(<<31, 20, 33, 32>>, {1}), Single(<<31, 20, 1, 33, 2, 32>>, {33}),
    Single(<<31, 2, 33, 32>>, {33}), Single(<<31, 33, 1, 32>>, {1, 33}), Single(<<34, 34>>, {}),
    Single(<<34, 4>>, {}), Single(<<31, 34, 5, 32>>, {})},
   {Letter, Bad(<<28, 12, 35, 11, 29>>), Bad(<<28, 10, 29>>), Bad(<<31, 32>>), Bad(<<34, 1>>),
    Bad(<<28, 17, 29>>), Post(<<28, 10, 35, 29>>, 0, 5)}}

\* Schemas, each with the values and names its documents are made of and
\* their length in events.
Ev(e, x) == [e |-> e, x |-> x]
Num(k, n) == [k |-> k, n |-> n]
Case(doc, events, names, max) == [doc |-> doc, events |-> events, names |-> names, max |-> max]
Typed(types) == [NoKeywords EXCEPT !.type = types]
Ref(s) == [NoKeywords EXCEPT !.kind = "ref", !.to = s]
PlainValue == [NoKeywords EXCEPT !.kind = "plain"]
Properties(names) == [NoKeywords EXCEPT !.properties = names]
ItemsAre(s) == [NoKeywords EXCEPT !.items = <<s>>]
Unique(s) == [ItemsAre(s) EXCEPT !.uniqueItems = TRUE]
Members(lo, hi) == [NoKeywords EXCEPT !.members = [lo |-> lo, hi |-> hi]]
Required(names) == [NoKeywords EXCEPT !.required = names]
Integer == Typed({"integer"})
AString == Typed({"string"})
Scalars == {Ev("Uint", 2), Ev("String", 1)}

SomeNumbers ==
  {Ev("Int", n) : n \in {-16, -4, -2, 0, 6, 14}} \cup {Ev("Uint", n) : n \in {0, 6, 14, 16, 30}}
    \cup {Ev("Double", n) : n \in {-3, 3, 6}}
Limits == {Num("int", n) : n \in {-16, -4, 0, 6, 14, 16, 30}} \cup {Num("double", n) : n \in {-3, 6, 16}}
Bounded ==
  {[NoKeywords EXCEPT !.minimum = <<m>>, !.exclusiveMinimum = b] : m \in Limits, b \in BOOLEAN}
    \cup {[NoKeywords EXCEPT !.maximum = <<m>>, !.exclusiveMaximum = b] : m \in Limits, b \in BOOLEAN}
    \cup {[Typed({t}) EXCEPT !.multipleOf = <<m>>] :
            t \in {"number", "integer"}, m \in {Num("int", 4), Num("double", 3)}}
NumberCases == {Case(<<k>>, SomeNumbers, {}, 1) : k \in Bounded}

CombinedCases ==
  {Case(<<[NoKeywords EXCEPT !.allOf = <<2>>, !.anyOf = <<3, 4>>, !.oneOf = <<3, 5>>, !.not = <<6>>],
          Typed({"integer", "string", "array", "object"}), Integer, ItemsAre(3),
          [NoKeywords EXCEPT !.members.lo = 1, !.elements.hi = 1],
          [Properties(1 :> 4) EXCEPT !.required = {1}]>>,
        Scalars \cup {Ev("Null", 0)}, {1, 2}, 7)}

Patterns(a, b) == <<[matches |-> {1, 2}, at |-> a], [matches |-> {2, 3}, at |-> b]>>
ObjectCases ==
  {Case(<<[Properties(1 :> 2 @@ 2 :> 3) EXCEPT
             !.required = {1}, !.depNames = (2 :> {4}), !.depSchemas = (3 :> 4),
             !.additionalProperties = b, !.members.hi = 3],
          Integer, NoKeywords, Members(3, SizeMax)>>,
        Scalars, {1, 2, 3, 4}, 8) : b \in BOOLEAN}
  \cup {Case(<<[Members(1, 1) EXCEPT !.items = <<2>>],
               [Members(1, SizeMax) EXCEPT !.type = {"object"}]>>, {Ev("Null", 0)}, {1, 2}, 7)}
  \cup {Case(<<[Properties(2 :> 4) EXCEPT
                  !.patterns = Patterns(2, 3), !.additionalProperties = b,
                  !.additionalPropertiesSchema = c],
               Typed({"integer", "object"}), Typed({"string", "object"}),
               Typed({"object", "string"}), AString>>, Scalars, {1, 2, 3, 4}, 7) :
          b \in BOOLEAN, c \in {<<>>, <<5>>}}

ArrayCases ==
  {Case(<<[NoKeywords EXCEPT !.tuple = <<2, 3>>, !.elements = [lo |-> 1, hi |-> 3],
                             !.additionalItems = b, !.additionalItemsSchema = c],
          Integer, AString, Typed({"integer", "array"})>>, Scalars, {}, 7) :
     b \in BOOLEAN, c \in {<<>>, <<4>>}}
  \cup {Case(<<Unique(2), Unique(3), Integer>>,
             {Ev("Uint", 2), Ev("Double", 2), Ev("Null", 0), Ev("Bool", 0)}, {1}, 7)}

OneObject ==
  <<Ev("StartObject", 0), Ev("Key", 1), Ev("Uint", 2), Ev("Key", 2), Ev("Null", 0), Ev("EndObject", 2)>>
OneArray == <<Ev("StartArray", 0), Ev("Uint", 2), Ev("Null", 0), Ev("EndArray", 2)>>
EnumCases ==
  {Case(<<[NoKeywords EXCEPT !.enum = <<OneObject, <<Ev("Uint", 2)>>, OneArray>>]>>,
        {Ev("Uint", 2), Ev("Double", 2), Ev("Null", 0)}, {1, 2}, 6)}

TextCases ==
  {Case(<<k>>, {Ev("String", n) : n \in -1 .. 3}, {}, 3) :
     k \in {[NoKeywords EXCEPT !.lengths = [lo |-> 1, hi |-> 2]],
            [Typed({"string", "array"}) EXCEPT !.pattern = <<{1, 3}>>]}}

\* References: to the root, to each other, to themselves, to nothing and to
\* what is no schema.
RefCases ==
  {Case(<<[Properties(1 :> 2) EXCEPT !.items = <<3>>, !.not = <<4>>], Ref(1), Ref(2), Required({2})>>,
        Scalars, {1, 2}, 7),
   Case(<<Properties(1 :> 2), Ref(3), Ref(2)>>, Scalars, {1}, 4),
   Case(<<Properties(1 :> 2), Ref(2)>>, Scalars, {1}, 4),
   Case(<<Properties(1 :> 2), Ref(3), PlainValue>>, Scalars, {1}, 4),
   Case(<<[Properties(1 :> 2) EXCEPT !.items = <<3>>], Ref(0), PlainValue>>, Scalars, {1}, 5),
   Case(<<[Properties(1 :> 2) EXCEPT !.not = <<2>>], Ref(0)>>, Scalars, {1}, 4),
   Case(<<[NoKeywords EXCEPT !.tuple = <<2>>], PlainValue>>, Scalars, {}, 4),
   Case(<<Ref(2), Ref(3), Integer>>, Scalars, {}, 2)}

MCSchemas ==
  {NoCase} \cup NumberCases \cup CombinedCases \cup ObjectCases \cup ArrayCases \cup EnumCases
    \cup TextCases \cup RefCases
=============================================================================
