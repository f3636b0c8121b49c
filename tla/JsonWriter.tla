------------------------------ MODULE JsonWriter ------------------------------
(***************************************************************************)
(* rapidjson without its characters: the events of a JSON text, the stack  *)
(* of values GenericDocument builds from them, the events Accept makes of  *)
(* a value, and what Writer and PrettyWriter put for each event.  A value  *)
(* is a type and its content; a name or a scalar is one symbol.            *)
(***************************************************************************)
EXTENDS Integers, Sequences, SequencesExt

Event(e, n) == [e |-> e, n |-> n]

Value(type, content) == [type |-> type, content |-> content]

Elements(v) == Len(v.content)

-----------------------------------------------------------------------------
(* GenericDocument as a handler: stack_ of values. *)

Shorter(stack, n) == SubSeq(stack, 1, Len(stack) - n)
Filled(stack, n, type) ==
  Append(Shorter(stack, n + 1), Value(type, SubSeq(stack, Len(stack) - n + 1, Len(stack))))

\* Members are pairs of values on the stack.
HandleEvent(stack, ev) ==
  CASE ev.e = "StartObject" -> Append(stack, Value("object", <<>>))
    [] ev.e = "StartArray"  -> Append(stack, Value("array", <<>>))
    [] ev.e = "EndObject"   -> Filled(stack, 2 * ev.n, "object")
    [] ev.e = "EndArray"    -> Filled(stack, ev.n, "array")
    [] OTHER                -> Append(stack, Value(ev.e, <<>>))

\* The events of a value; a member is its name and then its value.
RECURSIVE Accept(_)
Accept(v) ==
  LET inner == FlattenSeq([i \in DOMAIN v.content |->
                 IF v.type = "object" /\ i % 2 = 1 THEN <<Event("Key", 0)>> ELSE Accept(v.content[i])])
  IN  CASE v.type = "object" ->
             <<Event("StartObject", 0)>> \o inner \o <<Event("EndObject", Elements(v) \div 2)>>
        [] v.type = "array"  -> <<Event("StartArray", 0)>> \o inner \o <<Event("EndArray", Elements(v))>>
        [] OTHER             -> <<Event(v.type, 0)>>

\* A deep copy lets another document handle the events of the value.
CopyValue(v) == FoldLeft(HandleEvent, <<>>, Accept(v))

-----------------------------------------------------------------------------
(* Writer and PrettyWriter: level_stack_, the symbols put, hasRoot_, and   *)
(* whether the stream was flushed.  An assertion that fails is noted.      *)

NewWriter == [levels |-> <<>>, out |-> <<>>, hasRoot |-> FALSE, flushed |-> FALSE, failed |-> FALSE]

Put(w, symbols) == [w EXCEPT !.out = @ \o symbols]

\* The value begins: what separates it from the one before, and its count.
Prefix(w, isName, separator) ==
  IF w.levels = <<>> THEN [w EXCEPT !.failed = @ \/ w.hasRoot, !.hasRoot = TRUE]
  ELSE LET level == Last(w.levels)
           w1    == Put(w, separator)
       IN  [w1 EXCEPT !.levels[Len(w.levels)].n = @ + 1,
                      !.failed = @ \/ (~level.inArray /\ level.n % 2 = 0 /\ ~isName)]

\* As a bug: names are told from values by the wrong parity.
Comma_shifted(level) ==
  IF level.n = 0 THEN <<>>
  ELSE IF level.inArray \/ level.n % 2 = 1 THEN <<",">> ELSE <<":">>
Comma(level) ==
  IF level.n = 0 THEN <<>>
  ELSE IF level.inArray \/ level.n % 2 = 0 THEN <<",">> ELSE <<":">>

Indented(depth) == <<"nl">> \o [i \in 1 .. depth |-> "ws"]

\* PrettyPrefix; a level is a step of one blank.
Pretty(depth, single, level) ==
  Comma(level) \o
    (IF level.inArray THEN IF single THEN (IF level.n > 0 THEN <<"ws">> ELSE <<>>) ELSE Indented(depth)
     ELSE IF level.n % 2 = 0 THEN Indented(depth) ELSE <<"ws">>)

Symbol(e) ==
  CASE e = "StartObject" -> "{" [] e = "EndObject" -> "}"
    [] e = "StartArray"  -> "[" [] e = "EndArray"  -> "]"
    [] e = "Key" -> "s" [] OTHER -> e

Opens(e)  == e \in {"StartObject", "StartArray"}
Closes(e) == e \in {"EndObject", "EndArray"}

\* The level of a container is pushed behind the prefix of the container
\* itself and popped before its end is put.
Opened(w, e) ==
  IF Opens(e) THEN [w EXCEPT !.levels = Append(@, [n |-> 0, inArray |-> e = "StartArray"])] ELSE w

Closed(w, e) ==
  [w EXCEPT !.levels = Shorter(@, 1), !.failed = @ \/ w.levels = <<>>
                                                   \/ Last(w.levels).inArray # (e = "EndArray")]

EndValue(w) == [w EXCEPT !.flushed = @ \/ w.levels = <<>>]

WriteEvent(w, ev) ==
  IF Closes(ev.e) THEN EndValue(Put(Closed(w, ev.e), <<Symbol(ev.e)>>))
  ELSE LET p == Put(Prefix(w, ev.e \in {"Key", "s"}, Comma(Last(w.levels))), <<Symbol(ev.e)>>)
       IN  IF Opens(ev.e) THEN Opened(p, ev.e) ELSE EndValue(p)

\* PrettyWriter flushes behind a container only.
PrettyEvent(single, w, ev) ==
  LET separator == Pretty(Len(w.levels), single, Last(w.levels))
      closed == Closed(w, ev.e)
      line   == IF Last(w.levels).n = 0 \/ (ev.e = "EndArray" /\ single) THEN <<>>
                ELSE Indented(Len(w.levels) - 1)
  IN  IF Closes(ev.e) THEN EndValue(Put(Put(closed, line), <<Symbol(ev.e)>>))
      ELSE Opened(Put(Prefix(w, ev.e \in {"Key", "s"}, separator), <<Symbol(ev.e)>>), ev.e)

Written(v) == FoldLeft(WriteEvent, NewWriter, Accept(v))
PrettyWritten(v, single) ==
  LET Step(w, ev) == PrettyEvent(single, w, ev) IN FoldLeft(Step, NewWriter, Accept(v))
=============================================================================
