----------------------------- MODULE JsonSchema -----------------------------
(***************************************************************************)
(* rapidjson/schema.h: a schema document is compiled into schemas that     *)
(* point at each other, and a validator takes the events of a document as  *)
(* the reader gives them, one context for each value that is open.  A      *)
(* context may hold validators of its own that take the same events: of    *)
(* allOf, anyOf, oneOf, not, dependencies and matching patterns.           *)
(*                                                                         *)
(* The places of a schema document are numbers, 1 its root.  What is there *)
(* is an object with keywords, an object with a local $ref to the place    *)
(* "to" (0: there is none), or no object ("plain").  Keywords that are     *)
(* not there have the values the constructor of Schema gives.  A string    *)
(* is the number of its code points, negative if it is malformed; numbers  *)
(* are in halves; int64_t has -Int64Limit .. Int64Limit - 1.               *)
(***************************************************************************)
EXTENDS Integers, Sequences, SequencesExt, FiniteSetsExt

CONSTANTS
  SchemaCases,   \* [doc, events, names, max]: a schema, what documents are made of, their length
  Int64Limit

ASSUME JsonSchemaAssumption == Int64Limit \in Nat \ {0} /\ \A c \in SchemaCases : c.max \in Nat

VARIABLES
  schemaCase,  \* the schema document and the alphabet
  compiled,    \* the schemas, once GenericSchemaDocument is made
  validator,   \* the GenericSchemaValidator
  given,       \* the events so far
  open         \* the containers that are open in them

schemaVars == <<schemaCase, compiled, validator, given, open>>

\* What a pointer to a Schema holds besides a place.
Typeless == 0
NullSchema == -1
Dangling == -2   \* memory nothing was written to

SizeMax == 99    \* ~SizeType(0)
AllTypes == {"null", "boolean", "object", "array", "string", "number", "integer"}
Empty == [n \in {} |-> 0]

\* An object without keywords.
NoKeywords ==
  [kind |-> "schema", to |-> 0, type |-> AllTypes, enum |-> <<>>, allOf |-> <<>>, anyOf |-> <<>>,
   oneOf |-> <<>>, not |-> <<>>, properties |-> Empty, required |-> {}, depNames |-> Empty,
   depSchemas |-> Empty, patterns |-> <<>>, additionalProperties |-> TRUE,
   additionalPropertiesSchema |-> <<>>, members |-> [lo |-> 0, hi |-> SizeMax], items |-> <<>>,
   tuple |-> <<>>, elements |-> [lo |-> 0, hi |-> SizeMax], additionalItems |-> TRUE,
   additionalItemsSchema |-> <<>>, uniqueItems |-> FALSE, lengths |-> [lo |-> 0, hi |-> SizeMax],
   pattern |-> <<>>, minimum |-> <<>>, maximum |-> <<>>, multipleOf |-> <<>>,
   exclusiveMinimum |-> FALSE, exclusiveMaximum |-> FALSE]

-----------------------------------------------------------------------------
(* GenericSchemaDocument *)

\* HandleRefSchema goes on while there is a $ref at the end.
Target(doc, s) ==
  LET to[n \in 0 .. Len(doc)] ==
        IF n = 0 THEN doc[s].to
        ELSE IF to[n - 1] # 0 /\ doc[to[n - 1]].kind = "ref" THEN doc[to[n - 1]].to ELSE to[n - 1]
  IN  to[Len(doc)]

Refs(doc) == {s \in DOMAIN doc : doc[s].kind = "ref"}
EndsAt(doc, kind) == \E s \in Refs(doc) : Target(doc, s) # 0 /\ doc[Target(doc, s)].kind = kind

\* CreateSchema: what it leaves in a pointer that held initial.
Created(doc, s, initial) ==
  CASE doc[s].kind = "schema" -> s
    [] doc[s].kind = "plain" -> initial
    [] OTHER -> IF Target(doc, s) = 0 THEN initial ELSE Target(doc, s)
CreatedAll(doc, places, initial) == [i \in DOMAIN places |-> Created(doc, places[i], initial)]
CreatedOne(doc, places) == IF places = <<>> THEN NullSchema ELSE Created(doc, places[1], NullSchema)

\* AddType
TypesOf(types) == types \cup (IF "number" \in types THEN {"integer"} ELSE {})

\* properties_: every name that properties, required or dependencies mention.
PropertyNames(k) ==
  DOMAIN k.properties \cup k.required \cup DOMAIN k.depNames \cup DOMAIN k.depSchemas
    \cup UNION {k.depNames[n] : n \in DOMAIN k.depNames}

\* Hasher: the codes of the values that are complete.  A code is the value
\* it is made of; what multiplication by the prime makes of it keeps codes
\* apart.  The code of a member is the exclusive or of its name's and its
\* value's, and of an object that of its members': which of the two was the
\* name is lost, and what is there twice is gone.
MemberCode(name, value) == IF name = value THEN {} ELSE {{name, value}}
Toggled(set, other) == (set \ other) \cup (other \ set)
\* As a bug: the order of the members matters.
MembersCode_inOrder(kv) == [i \in 1 .. Len(kv) \div 2 |-> <<kv[2 * i - 1], kv[2 * i]>>]
MembersCode(kv) ==
  FoldLeft(LAMBDA h, i : Toggled(h, MemberCode(kv[2 * i - 1], kv[2 * i])), {},
           [i \in 1 .. Len(kv) \div 2 |-> i])
Hashed(codes, ev) ==
  LET Pop(n) == SubSeq(codes, 1, Len(codes) - n)
      Top(n) == SubSeq(codes, Len(codes) - n + 1, Len(codes))
  IN  CASE ev.e \in {"StartObject", "StartArray"} -> codes
        [] ev.e = "EndObject" -> Append(Pop(2 * ev.x), <<"object", MembersCode(Top(2 * ev.x))>>)
        [] ev.e = "EndArray" -> Append(Pop(ev.x), <<"array", Top(ev.x)>>)
        [] ev.e \in {"Int", "Uint", "Double"} -> Append(codes, <<"number", ev.x>>)
        [] ev.e \in {"Key", "String"} -> Append(codes, <<"string", ev.x>>)
        [] OTHER -> Append(codes, <<ev.e, ev.x>>)
HashOf(events) == Last(FoldLeft(Hashed, <<>>, events))

\* Schema::Schema at one place.
Schema(doc, s) ==
  LET k == doc[s]
      depended == SetToSeq(DOMAIN k.depSchemas)
      names == PropertyNames(k)
  IN  [type |-> TypesOf(k.type),
       enum |-> {HashOf(k.enum[i]) : i \in DOMAIN k.enum},
       allOf |-> CreatedAll(doc, k.allOf, NullSchema),
       anyOf |-> CreatedAll(doc, k.anyOf, NullSchema),
       oneOf |-> CreatedAll(doc, k.oneOf, NullSchema),
       hasNot |-> k.not # <<>>, not |-> CreatedOne(doc, k.not),
       depended |-> depended,
       depSchema |-> [i \in DOMAIN depended |-> Created(doc, k.depSchemas[depended[i]], NullSchema)],
       depNames |-> k.depNames, required |-> k.required,
       property |-> [n \in names |-> IF n \in DOMAIN k.properties THEN Created(doc, k.properties[n], Typeless)
                                     ELSE Typeless],
       patterns |-> [i \in DOMAIN k.patterns |->
                       [matches |-> k.patterns[i].matches,
                        schema |-> Created(doc, k.patterns[i].at, NullSchema)]],
       additional |-> k.additionalProperties,
       additionalSchema |-> CreatedOne(doc, k.additionalPropertiesSchema),
       members |-> k.members, elements |-> k.elements, lengths |-> k.lengths,
       items |-> CreatedOne(doc, k.items), tuple |-> CreatedAll(doc, k.tuple, Dangling),
       additionalItems |-> k.additionalItems, additionalItem |-> CreatedOne(doc, k.additionalItemsSchema),
       uniqueItems |-> k.uniqueItems, pattern |-> k.pattern,
       minimum |-> k.minimum, maximum |-> k.maximum, multipleOf |-> k.multipleOf,
       exclusiveMinimum |-> k.exclusiveMinimum, exclusiveMaximum |-> k.exclusiveMaximum]

\* Schema::validators: one array for all, each keyword from its own index on.
ValidatorSchemas(S) ==
  S.allOf \o S.anyOf \o S.oneOf \o (IF S.hasNot THEN <<S.not>> ELSE <<>>) \o S.depSchema
AnyOfBegin(S) == Len(S.allOf)
OneOfBegin(S) == AnyOfBegin(S) + Len(S.anyOf)
NotIndex(S) == OneOfBegin(S) + Len(S.oneOf) + 1
DependencyBegin(S) == OneOfBegin(S) + Len(S.oneOf) + (IF S.hasNot THEN 1 ELSE 0)

-----------------------------------------------------------------------------
(* Schema: what it says to one event *)

IsInt64(m) == m.k = "int" /\ m.n \in -2 * Int64Limit .. 2 * Int64Limit - 1
IsUint64(m) == m.k = "int" /\ m.n \in 0 .. 4 * Int64Limit - 1

TooLow(S, ev) ==
  \E m \in Range(S.minimum) :
    CASE ev.e = "Int" /\ ~IsInt64(m) /\ IsUint64(m) -> TRUE
      [] ev.e = "Uint" /\ ~IsUint64(m) /\ IsInt64(m) -> FALSE
      [] OTHER -> IF S.exclusiveMinimum THEN ev.x <= m.n ELSE ev.x < m.n
TooHigh(S, ev) ==
  \E m \in Range(S.maximum) :
    CASE ev.e = "Int" /\ ~IsInt64(m) /\ IsUint64(m) -> FALSE
      [] ev.e = "Uint" /\ ~IsUint64(m) /\ IsInt64(m) -> TRUE
      [] OTHER -> IF S.exclusiveMaximum THEN ev.x >= m.n ELSE ev.x > m.n
NoMultiple(S, ev) == \E m \in Range(S.multipleOf) : (IF ev.x >= 0 THEN ev.x ELSE -ev.x) % m.n # 0

\* Null to StartArray up to CreateParallelValidator: the keyword that fails.
TypeFits(S, e) ==
  CASE e = "Null" -> "null" \in S.type
    [] e = "Bool" -> "boolean" \in S.type
    [] e \in {"Int", "Uint"} -> S.type \cap {"integer", "number"} # {}
    [] e = "Double" -> "number" \in S.type
    [] e = "String" -> "string" \in S.type
    [] e = "StartObject" -> "object" \in S.type
    [] OTHER -> "array" \in S.type
\* Of checks in the order of the code, the keyword of the first that fails.
Fails(keyword, fails) == IF fails THEN <<keyword>> ELSE <<>>
FirstFailing(checks) == LET all == FlattenSeq(checks) IN IF all = <<>> THEN "none" ELSE all[1]

Refusal(S, ev) ==
  LET number  == ev.e \in {"Int", "Uint", "Double"}
      string  == ev.e = "String"
      counted == string /\ ev.x >= 0   \* CountStringCodePoint
  IN  FirstFailing(<<Fails("type", ~TypeFits(S, ev.e)),
                     Fails("minimum", number /\ TooLow(S, ev)),
                     Fails("maximum", number /\ TooHigh(S, ev)),
                     Fails("multipleOf", number /\ NoMultiple(S, ev)),
                     Fails("minLength", counted /\ ev.x < S.lengths.lo),
                     Fails("maxLength", counted /\ ev.x > S.lengths.hi),
                     Fails("pattern", string /\ \E p \in Range(S.pattern) : ev.x \notin p)>>)

-----------------------------------------------------------------------------
(* GenericSchemaValidator *)

NewValidator(root) ==
  [root |-> root, stack |-> <<>>, valid |-> TRUE, path |-> <<>>, broken |-> root < 0]

NewContext(schema) ==
  [schema |-> schema, value |-> NullSchema, keyword |-> "none", hasher |-> FALSE, codes |-> <<>>,
   elements |-> {}, validators |-> <<>>, patternValidators |-> <<>>, patternSchemas |-> <<>>,
   valueKind |-> "only", objectKind |-> "only", index |-> 0, exists |-> {}, inArray |-> FALSE,
   valueUniqueness |-> FALSE, arrayUniqueness |-> FALSE]

CurrentContext(v) == Last(v.stack)
WithContext(v, c) == [v EXCEPT !.stack[Len(v.stack)] = c]
PushSchema(v, schema) == [v EXCEPT !.stack = Append(@, NewContext(schema)), !.broken = @ \/ schema = Dangling]
Refused(v, keyword) == [v EXCEPT !.valid = FALSE, !.stack[Len(v.stack)].keyword = keyword]
Undefined(v) == [v EXCEPT !.broken = TRUE]
Stopped(v) == ~v.valid \/ v.broken

\* Schema::BeginValue: the schema of the next element.
ItemSchema(S, c) ==
  IF S.items # NullSchema THEN S.items
  ELSE IF c.index < Len(S.tuple) THEN S.tuple[c.index + 1]
  ELSE IF S.tuple # <<>> /\ S.additionalItem # NullSchema THEN S.additionalItem
  ELSE Typeless
NoMoreItems(S, c) ==
  /\ S.items = NullSchema /\ S.tuple # <<>> /\ c.index >= Len(S.tuple)
  /\ S.additionalItem = NullSchema /\ ~S.additionalItems
BeginItem(S, c) ==
  [c EXCEPT !.value = ItemSchema(S, c), !.index = @ + 1, !.valueUniqueness = @ \/ S.uniqueItems]

\* BeginValue.  If nothing has set the schema of the value, no context is
\* made for it and the one of its object takes its place.
BeginMember(v, c) ==
  LET kept  == WithContext(v, c)
      own   == IF c.value = NullSchema THEN kept ELSE PushSchema(kept, c.value)
      mine  == CurrentContext(own)
      count == Len(c.patternSchemas)
      with  == IF count = 0 THEN mine
               ELSE [mine EXCEPT
                       !.objectKind = c.valueKind,
                       !.patternValidators = @ \o [i \in 1 .. count |-> NewValidator(c.patternSchemas[i])]]
  IN  [WithContext(own, [with EXCEPT !.arrayUniqueness = c.valueUniqueness])
         EXCEPT !.broken = @ \/ (count > 0 /\ mine.patternValidators # <<>>)
                             \/ \E i \in 1 .. count : c.patternSchemas[i] < 0]
BeginValue(sch, v) ==
  IF v.stack = <<>> THEN PushSchema(v, v.root)
  ELSE LET c == CurrentContext(v)
           S == sch[c.schema]
           w == IF c.inArray THEN [v EXCEPT !.path = Append(@, c.index)] ELSE v
       IN  IF ~c.inArray THEN BeginMember(w, c)
           ELSE IF NoMoreItems(S, c) THEN Refused(w, "items")
           ELSE BeginMember(w, BeginItem(S, c))

\* CreateParallelValidator, and what StartObject and StartArray do before it.
CreateParallelValidator(S, c, e) ==
  LET made == [i \in DOMAIN ValidatorSchemas(S) |-> NewValidator(ValidatorSchemas(S)[i])]
  IN  [c EXCEPT !.hasher = @ \/ S.enum # {} \/ c.arrayUniqueness,
                !.codes = IF S.enum # {} \/ c.arrayUniqueness THEN <<>> ELSE @,
                !.validators = IF made = <<>> THEN @ ELSE made,
                !.exists = IF e = "StartObject" THEN {} ELSE @,
                !.patternSchemas = IF e = "StartObject" THEN <<>> ELSE @,
                !.index = IF e = "StartArray" THEN 0 ELSE @,
                !.inArray = @ \/ e = "StartArray"]

\* The first part of every event that begins a value.
HandleBegin(sch, v, ev) ==
  LET b == BeginValue(sch, v)
      c == CurrentContext(b)
      S == sch[c.schema]
      refusal == Refusal(S, ev)
      made == ValidatorSchemas(S)
  IN  IF Stopped(b) THEN b
      ELSE IF refusal # "none" THEN Refused(b, refusal)
      ELSE [WithContext(b, CreateParallelValidator(S, c, ev.e))
              EXCEPT !.broken = made # <<>> /\ (c.validators # <<>> \/ \E i \in DOMAIN made : made[i] < 0)]

\* Schema::Key
KeyRefused(S, matched, name) ==
  /\ name \notin DOMAIN S.property /\ S.additionalSchema = NullSchema
  /\ ~S.additional /\ matched = <<>>
SetValueSchema(S, c, matched, name) ==
  LET With(schema, kind) ==
        IF matched = <<>> THEN [c EXCEPT !.patternSchemas = <<>>, !.value = schema]
        ELSE [c EXCEPT !.patternSchemas = Append(matched, schema), !.value = Typeless, !.valueKind = kind]
  IN  IF name \in DOMAIN S.property
      THEN [With(S.property[name], "property") EXCEPT !.exists = @ \cup {name}]
      ELSE IF S.additionalSchema # NullSchema THEN With(S.additionalSchema, "additional")
      ELSE IF S.additional THEN [c EXCEPT !.patternSchemas = matched, !.value = Typeless]
      ELSE [c EXCEPT !.patternSchemas = matched]
HandleKey(sch, v, ev) ==
  LET w == [v EXCEPT !.path = Append(@, ev.x)]
      c == CurrentContext(w)
      S == sch[c.schema]
      found == SelectSeq(S.patterns, LAMBDA p : ev.x \in p.matches)
      matched == [i \in DOMAIN found |-> found[i].schema]
  IN  IF w.stack = <<>> THEN Undefined(w)
      ELSE IF KeyRefused(S, matched, ev.x) THEN Refused(w, "additionalProperties")
      ELSE WithContext(w, SetValueSchema(S, c, matched, ev.x))

\* Schema::EndObject and EndArray
EndRefusal(S, c, ev) ==
  LET Missing(n) == n \notin c.exists
  IN  IF ev.e = "EndObject"
      THEN FirstFailing(<<Fails("required", \E n \in S.required : Missing(n)),
                          Fails("minProperties", ev.x < S.members.lo),
                          Fails("maxProperties", ev.x > S.members.hi),
                          Fails("dependencies",
                            \/ \E n \in DOMAIN S.depNames \cap c.exists : \E t \in S.depNames[n] : Missing(t)
                            \/ \E i \in DOMAIN S.depended :
                                 S.depended[i] \in c.exists /\ ~c.validators[DependencyBegin(S) + i].valid)>>)
      ELSE FirstFailing(<<Fails("minItems", ev.x < S.elements.lo), Fails("maxItems", ev.x > S.elements.hi)>>)

\* Schema::EndValue
PatternsFail(c) ==
  LET n == Len(c.patternValidators)
      count == IF c.objectKind = "only" THEN n ELSE n - 1
      patternValid == \A i \in 1 .. count : c.patternValidators[i].valid
      otherValid == c.objectKind # "only" /\ c.patternValidators[n].valid
  IN  n > 0 /\ CASE c.objectKind = "only" -> ~patternValid
                 [] c.objectKind = "property" -> ~patternValid \/ ~otherValid
                 [] OTHER -> ~patternValid /\ ~otherValid
EndValueRefusal(S, c) ==
  LET Valid(begin, schemas) == {i \in DOMAIN schemas : c.validators[begin + i].valid}
  IN  FirstFailing(<<Fails("patternProperties", PatternsFail(c)),
                     Fails("enum", S.enum # {} /\ Last(c.codes) \notin S.enum),
                     Fails("allOf", Valid(0, S.allOf) # DOMAIN S.allOf),
                     Fails("anyOf", S.anyOf # <<>> /\ Valid(AnyOfBegin(S), S.anyOf) = {}),
                     Fails("oneOf", S.oneOf # <<>> /\ Cardinality(Valid(OneOfBegin(S), S.oneOf)) # 1),
                     Fails("not", S.hasNot /\ c.validators[NotIndex(S)].valid)>>)

\* EndValue: the context is popped, its code goes to the array it is in, and
\* the token of the value is taken off the path.
HandleEnd(sch, v) ==
  LET c == CurrentContext(v)
      refusal == EndValueRefusal(sch[c.schema], c)
      popped == [v EXCEPT !.stack = Front(@)]
      array == CurrentContext(popped)
      code == IF c.arrayUniqueness THEN Last(c.codes) ELSE <<"none", 0>>
      unique == popped.stack # <<>> /\ array.valueUniqueness
      noted == IF unique THEN WithContext(popped, [array EXCEPT !.elements = @ \cup {code}]) ELSE popped
  IN  IF c.hasher /\ Len(c.codes) # 1 THEN Undefined(v)
      ELSE IF refusal # "none" THEN Refused(v, refusal)
      ELSE IF unique /\ code \in array.elements THEN Refused(popped, "uniqueItems")
      ELSE [noted EXCEPT !.path = IF @ = <<>> THEN @ ELSE Front(@)]

EndsContainer(ev) == ev.e \in {"EndObject", "EndArray"}

\* The events go to the hasher and the validators of every context.
RECURSIVE Feed(_, _, _)
Short(c, ev) ==
  c.hasher /\ Len(c.codes) < (CASE ev.e = "EndObject" -> 2 * ev.x [] ev.e = "EndArray" -> ev.x [] OTHER -> 0)
HandleParallel(sch, v, ev) ==
  LET All(vs) == [i \in DOMAIN vs |-> Feed(sch, vs[i], ev)]
      Taken(c) == [c EXCEPT !.codes = IF c.hasher THEN Hashed(@, ev) ELSE @,
                            !.validators = All(@), !.patternValidators = All(@)]
      taken == [v EXCEPT !.stack = [i \in DOMAIN @ |-> Taken(@[i])]]
      parts == UNION {Range(c.validators \o c.patternValidators) : c \in Range(taken.stack)}
  IN  IF \E i \in DOMAIN v.stack : Short(v.stack[i], ev) THEN Undefined(v)
      ELSE [taken EXCEPT !.broken = \E w \in parts : w.broken]

EndContainer(sch, v, ev) ==
  LET c == [CurrentContext(v) EXCEPT !.inArray = @ /\ ev.e # "EndArray"]
      w == WithContext(v, c)
      refusal == EndRefusal(sch[c.schema], c, ev)
  IN  IF refusal # "none" THEN Refused(w, refusal) ELSE HandleEnd(sch, w)

Feed(sch, v, ev) ==
  LET begun == IF ev.e = "Key" THEN HandleKey(sch, v, ev) ELSE HandleBegin(sch, v, ev)
      Then(w) == IF Stopped(w) THEN w ELSE HandleParallel(sch, w, ev)
      taken == IF EndsContainer(ev) THEN Then(v) ELSE Then(begun)
  IN  IF Stopped(v) THEN v
      ELSE IF EndsContainer(ev) /\ v.stack = <<>> THEN Undefined(v)
      ELSE IF Stopped(taken) \/ ev.e \in {"Key", "StartObject", "StartArray"} THEN taken
      ELSE IF EndsContainer(ev) THEN EndContainer(sch, taken, ev)
      ELSE HandleEnd(sch, taken)

-----------------------------------------------------------------------------
SchemaInit ==
  /\ schemaCase \in SchemaCases
  /\ compiled = [state |-> "new", schemas |-> <<>>]
  /\ validator = NewValidator(Typeless) /\ given = <<>> /\ open = <<>>

\* GenericSchemaDocument: a chain of $ref without an end is followed for
\* ever, one that ends at no object fails an assertion.
CompileSchema ==
  LET doc == schemaCase.doc
      places == {s \in DOMAIN doc : doc[s].kind = "schema"}
      schemas == [s \in places \cup {Typeless} |->
                    Schema(IF s = Typeless THEN <<NoKeywords>> ELSE doc, IF s = Typeless THEN 1 ELSE s)]
  IN  /\ compiled.state = "new"
      /\ compiled' = IF EndsAt(doc, "ref") THEN [compiled EXCEPT !.state = "loops"]
                     ELSE IF EndsAt(doc, "plain") THEN [compiled EXCEPT !.state = "asserted"]
                     ELSE [state |-> "ready", schemas |-> schemas]
      /\ validator' = IF compiled'.state = "ready" THEN NewValidator(Created(doc, 1, Typeless)) ELSE validator
      /\ UNCHANGED <<schemaCase, given, open>>

GiveEvent(ev) ==
  /\ given' = Append(given, ev)
  /\ validator' = Feed(compiled.schemas, validator, ev)
  /\ UNCHANGED <<schemaCase, compiled>>

\* What the reader may say next.  After a refusal it would stop; the
\* validators inside go on as here.
ValueNext ==
  /\ compiled.state = "ready"
  /\ given = <<>> \/ (open # <<>> /\ (Last(open).object => Last(open).named))
RoomFor(n) == Len(given) + Len(open) + n <= schemaCase.max
OneMore(containers) ==
  [i \in DOMAIN containers |->
     IF i = Len(containers) THEN [containers[i] EXCEPT !.n = @ + 1, !.named = FALSE] ELSE containers[i]]

GiveScalar ==
  \E ev \in schemaCase.events : ValueNext /\ RoomFor(1) /\ GiveEvent(ev) /\ open' = OneMore(open)
GiveStart ==
  \E object \in BOOLEAN :
    /\ ValueNext /\ RoomFor(2)
    /\ GiveEvent([e |-> IF object THEN "StartObject" ELSE "StartArray", x |-> 0])
    /\ open' = Append(open, [object |-> object, n |-> 0, named |-> FALSE, names |-> {}])
GiveKey ==
  \E name \in schemaCase.names :
    /\ open # <<>> /\ Last(open).object /\ ~Last(open).named /\ RoomFor(2)
    /\ name \notin Last(open).names
    /\ GiveEvent([e |-> "Key", x |-> name])
    /\ open' = [open EXCEPT ![Len(open)].named = TRUE, ![Len(open)].names = @ \cup {name}]
GiveEnd ==
  /\ open # <<>> /\ ~Last(open).named
  /\ GiveEvent([e |-> IF Last(open).object THEN "EndObject" ELSE "EndArray", x |-> Last(open).n])
  /\ open' = OneMore(Front(open))

SchemaNext == CompileSchema \/ GiveScalar \/ GiveStart \/ GiveKey \/ GiveEnd

-----------------------------------------------------------------------------
(* What a schema says of a value *)

Built(values, ev) ==
  LET Pop(n) == SubSeq(values, 1, Len(values) - n)
      Top(n) == SubSeq(values, Len(values) - n + 1, Len(values))
  IN  CASE ev.e \in {"StartObject", "StartArray"} -> values
        [] ev.e = "EndObject" ->
             LET kv == Top(2 * ev.x)
             IN  Append(Pop(2 * ev.x), <<"object", [i \in 1 .. ev.x |-> <<kv[2 * i - 1][2], kv[2 * i]>>]>>)
        [] ev.e = "EndArray" -> Append(Pop(ev.x), <<"array", Top(ev.x)>>)
        [] ev.e \in {"Int", "Uint"} -> Append(values, <<"integer", ev.x>>)
        [] ev.e = "Double" -> Append(values, <<"number", ev.x>>)
        [] ev.e \in {"Key", "String"} -> Append(values, <<"string", ev.x>>)
        [] ev.e = "Bool" -> Append(values, <<"boolean", ev.x>>)
        [] OTHER -> Append(values, <<"null", ev.x>>)
ValueOf(events) == FoldLeft(Built, <<>>, events)[1]

\* Equal values are the same in this form: members in any order.
RECURSIVE Normal(_)
Normal(v) ==
  CASE v[1] = "object" -> <<"object", {<<v[2][i][1], Normal(v[2][i][2])>> : i \in DOMAIN v[2]}>>
    [] v[1] = "array" -> <<"array", [i \in DOMAIN v[2] |-> Normal(v[2][i])]>>
    [] v[1] \in {"integer", "number"} -> <<"number", v[2]>>
    [] OTHER -> v

RECURSIVE PartsOf(_)
PartsOf(v) ==
  {v} \cup (CASE v[1] = "object" -> UNION {PartsOf(v[2][i][2]) : i \in DOMAIN v[2]}
              [] v[1] = "array" -> UNION {PartsOf(v[2][i]) : i \in DOMAIN v[2]}
              [] OTHER -> {})

\* A member is allowed by its property and all patterns it matches.  What
\* required or dependencies mention counts as a property; what matches a
\* pattern and is none may do with additionalProperties instead of it.
RECURSIVE Satisfies(_, _, _)
MemberFits(doc, k, name, x) ==
  LET patterns == {i \in DOMAIN k.patterns : name \in k.patterns[i].matches}
      patternsFit == \A i \in patterns : Satisfies(doc, k.patterns[i].at, x)
      additionalFits == \A s \in Range(k.additionalPropertiesSchema) : Satisfies(doc, s, x)
  IN  IF name \in PropertyNames(k)
      THEN patternsFit /\ (name \in DOMAIN k.properties => Satisfies(doc, k.properties[name], x))
      ELSE IF k.additionalPropertiesSchema # <<>>
      THEN IF patterns = {} THEN additionalFits ELSE patternsFit \/ additionalFits
      ELSE patternsFit /\ (patterns = {} => k.additionalProperties)
ObjectFits(doc, k, v) ==
  LET names == {v[2][i][1] : i \in DOMAIN v[2]}
  IN  /\ k.required \subseteq names
      /\ Len(v[2]) \in k.members.lo .. k.members.hi
      /\ \A n \in names \cap DOMAIN k.depNames : k.depNames[n] \subseteq names
      /\ \A n \in names \cap DOMAIN k.depSchemas : Satisfies(doc, k.depSchemas[n], v)
      /\ \A i \in DOMAIN v[2] : MemberFits(doc, k, v[2][i][1], v[2][i][2])
ArrayFits(doc, k, v) ==
  /\ Len(v[2]) \in k.elements.lo .. k.elements.hi
  /\ k.uniqueItems => \A i, j \in DOMAIN v[2] : i # j => Normal(v[2][i]) # Normal(v[2][j])
  /\ \A i \in DOMAIN v[2] :
       IF k.items # <<>> THEN Satisfies(doc, k.items[1], v[2][i])
       ELSE IF i <= Len(k.tuple) THEN Satisfies(doc, k.tuple[i], v[2][i])
       ELSE \/ k.tuple = <<>>
            \/ IF k.additionalItemsSchema # <<>> THEN Satisfies(doc, k.additionalItemsSchema[1], v[2][i])
               ELSE k.additionalItems
NumberFits(k, n) ==
  /\ \A m \in Range(k.minimum) : n > m.n \/ (n = m.n /\ ~k.exclusiveMinimum)
  /\ \A m \in Range(k.maximum) : n < m.n \/ (n = m.n /\ ~k.exclusiveMaximum)
  /\ \A m \in Range(k.multipleOf) : n % m.n = 0
StringFits(k, s) ==
  /\ s >= 0 => s \in k.lengths.lo .. k.lengths.hi
  /\ \A p \in Range(k.pattern) : s \in p
Satisfies(doc, s, v) ==
  LET k == doc[s]
  IN  CASE k.kind = "plain" -> TRUE
        [] k.kind = "ref" -> k.to = 0 \/ Satisfies(doc, k.to, v)
        [] OTHER ->
             /\ v[1] \in k.type \/ (v[1] = "integer" /\ "number" \in k.type)
             /\ k.enum # <<>> => \E i \in DOMAIN k.enum : Normal(ValueOf(k.enum[i])) = Normal(v)
             /\ \A i \in DOMAIN k.allOf : Satisfies(doc, k.allOf[i], v)
             /\ k.anyOf # <<>> => \E i \in DOMAIN k.anyOf : Satisfies(doc, k.anyOf[i], v)
             /\ k.oneOf # <<>> => Cardinality({i \in DOMAIN k.oneOf : Satisfies(doc, k.oneOf[i], v)}) = 1
             /\ \A t \in Range(k.not) : ~Satisfies(doc, t, v)
             /\ v[1] \in {"integer", "number"} => NumberFits(k, v[2])
             /\ v[1] = "string" => StringFits(k, v[2])
             /\ v[1] = "array" => ArrayFits(doc, k, v)
             /\ v[1] = "object" => ObjectFits(doc, k, v)

\* Every $ref of the document has an end, and a keyword that needs a schema
\* has one: only properties, items and the additional ones do without.
WellMade(doc) ==
  LET There(s) == doc[s].kind = "schema" \/ (doc[s].kind = "ref" /\ Target(doc, s) # 0)
  IN  \A s \in DOMAIN doc : LET k == doc[s] IN k.kind = "schema" =>
        /\ \A t \in Range(k.allOf \o k.anyOf \o k.oneOf \o k.not \o k.tuple) : There(t)
        /\ \A t \in Range(k.depSchemas) : There(t)
        /\ \A i \in DOMAIN k.patterns : There(k.patterns[i].at)

\* Where the schema of a member is left as it was: additionalProperties is
\* false and the name matches a pattern and is no property.
Unset(doc, v) ==
  \E s \in DOMAIN doc : \E p \in PartsOf(v) :
    LET k == doc[s]
    IN  /\ k.kind = "schema" /\ ~k.additionalProperties /\ p[1] = "object"
        /\ \E i \in DOMAIN p[2] : /\ p[2][i][1] \notin PropertyNames(k)
                                   /\ \E j \in DOMAIN k.patterns : p[2][i][1] \in k.patterns[j].matches

\* Where unequal values may have the same code: a member is a string.
Confused(doc, v) ==
  /\ \E s \in DOMAIN doc : doc[s].kind = "schema" /\ (doc[s].enum # <<>> \/ doc[s].uniqueItems)
  /\ \E p \in PartsOf(v) : p[1] = "object" /\ \E i \in DOMAIN p[2] : p[2][i][2][1] = "string"

RECURSIVE PartAt(_, _)
PartAt(v, path) ==
  IF path = <<>> THEN v
  ELSE PartAt(IF v[1] = "array" THEN v[2][path[1] + 1]
              ELSE v[2][CHOOSE i \in DOMAIN v[2] : v[2][i][1] = path[1]][2], Tail(path))

Cycles(doc) == \E C \in SUBSET Refs(doc) : C # {} /\ \A s \in C : doc[s].to \in C

\* What is reported is at fault: the value at the pointer or the container
\* it is in does not satisfy the schema.  For patternProperties it is the
\* schema of anything (schema.h:795).
FaultReported(doc, v) ==
  LET failed == CurrentContext(validator).schema
      within == IF validator.path = <<>> THEN <<>> ELSE Front(validator.path)
  IN  \/ failed = Typeless /\ CurrentContext(validator).keyword = "patternProperties"
      \/ \E path \in {validator.path, within} : ~Satisfies(doc, failed, PartAt(v, path))

(* A schema document is compiled for ever exactly if some $ref leads back  *)
(* to itself (schema.h:1492).  A document that is complete is valid        *)
(* exactly if it satisfies the schema, and the validator is then as new;   *)
(* if not, what is reported is at fault.  Left out is what Unset           *)
(* (schema.h:825) and Confused (schema.h:202) say, and nothing undefined   *)
(* is reached unless a keyword has no schema (schema.h:1068, 1082).        *)
SchemaExact ==
  \A doc \in {schemaCase.doc} :
    /\ compiled.state # "new" => (compiled.state = "loops" <=> Cycles(doc))
    /\ compiled.state = "ready" /\ given # <<>> /\ open = <<>> =>
         \A v \in {ValueOf(given)} : WellMade(doc) /\ ~Unset(doc, v) =>
           /\ ~validator.broken
           /\ ~Confused(doc, v) =>
                /\ validator.valid <=> Satisfies(doc, 1, v)
                /\ IF validator.valid THEN validator = NewValidator(validator.root) ELSE FaultReported(doc, v)
=============================================================================
