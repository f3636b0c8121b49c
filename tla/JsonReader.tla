------------------------------ MODULE JsonReader ------------------------------
(***************************************************************************)
(* reader.h: GenericReader over a stream of symbols, once by recursive     *)
(* descent (Parse) and once by the table of states (IterativeParse), with  *)
(* a GenericDocument as the handler of each.  A string, a number or a word *)
(* is one symbol: "s", "v", or "x" when it is malformed.  The symbols come *)
(* as they are asked for; the recursive parser reads first.                *)
(***************************************************************************)
EXTENDS JsonWriter, FiniteSetsExt

CONSTANTS
  Symbols,       \* symbols the stream may hold
  MaxText,       \* a stream has at most so many
  FlagSets,      \* sets of parse flags the parser is instantiated with
  StopAts        \* the handler says stop at this event; 0: it never does

ASSUME JsonReaderAssumption ==
  /\ Symbols \subseteq {"{", "}", "[", "]", ",", ":", "s", "v", "x", "ws", "nl", "/", "*"}
  /\ FlagSets \subseteq SUBSET {"comments", "commas", "stop"}
  /\ MaxText \in Nat /\ StopAts \subseteq Nat

VARIABLES
  text, ended,   \* the symbols that came; no more will
  flags, stopAt,
  rec, itr       \* the two parsers

jsonVars == <<text, ended, flags, stopAt, rec, itr>>

\* pc or state, place, frames of the parser, events sent, stack_ of the
\* document, the error code.
NewParser(pc) == [pc |-> pc, ip |-> 1, frames |-> <<>>, events |-> <<>>, dom |-> <<>>, err |-> "none"]

-----------------------------------------------------------------------------
(* The stream. *)

Peek(ip) == IF ip <= Len(text) THEN text[ip] ELSE "eof"

BehindBlanks(ip) == Min({i \in ip .. Len(text) + 1 : Peek(i) \notin {"ws", "nl"}})
BehindLine(ip)   == Min({Len(text) + 1} \cup {i + 1 : i \in {j \in ip .. Len(text) : text[j] = "nl"}})
Ends(ip)         == {i \in ip .. Len(text) - 1 : text[i] = "*" /\ text[i + 1] = "/"}

\* SkipWhitespaceAndComments: where it stops, and whether a comment is wrong.
SkipFrom(ip) ==
  LET S[i \in 1 .. Len(text) + 1] ==
        LET b == BehindBlanks(i)
        IN  CASE "comments" \notin flags \/ Peek(b) # "/" -> [ip |-> b, bad |-> FALSE]
              [] "comments" \in flags /\ Peek(b) = "/" /\ Peek(b + 1) = "*" ->
                   IF Ends(b + 2) = {} THEN [ip |-> Len(text) + 1, bad |-> TRUE] ELSE S[Min(Ends(b + 2)) + 2]
              [] "comments" \in flags /\ Peek(b) = "/" /\ Peek(b + 1) = "/" -> S[BehindLine(b + 2)]
              [] OTHER -> [ip |-> b + 1, bad |-> TRUE]
  IN  S[ip]

\* The stream is known as far as this parser looks.
Known(ip) == ended \/ ip <= Len(text)
Skipped(ip) == Known(ip) /\ Known(SkipFrom(ip).ip)

-----------------------------------------------------------------------------
Fail(p, code) == [p EXCEPT !.pc = "end", !.err = code, !.dom = <<>>]

\* The handler is called; it may end the parse.  EndObject and EndArray pop
\* as many values as the parser counted.
Call(p, ev) ==
  LET q == [p EXCEPT !.events = Append(@, ev), !.dom = HandleEvent(@, ev)]
  IN  IF Len(q.events) = stopAt THEN Fail(q, "Termination") ELSE q

\* The parser goes on behind blanks and comments, if the call let it.
Behind(p, ip, pc) ==
  IF p.pc = "end" THEN p
  ELSE LET s == SkipFrom(ip)
       IN  IF s.bad THEN Fail(p, "UnspecificSyntaxError") ELSE [p EXCEPT !.ip = s.ip, !.pc = pc]

Scalar(p, isName) ==
  CASE Peek(p.ip) = "s" -> Call(p, Event(IF isName THEN "Key" ELSE "s", 0))
    [] Peek(p.ip) = "v" -> Call(p, Event("v", 0))
    [] OTHER            -> Fail(p, "ValueInvalid")

-----------------------------------------------------------------------------
(* Parse: pc says where in ParseValue, ParseObject or ParseArray it is. *)

\* A value is complete: the document, or an element of the innermost one.
AfterValue(p) ==
  IF p.frames = <<>> THEN "root" ELSE IF Last(p.frames).object THEN "member" ELSE "element"

EndValueAt(p, ip) ==
  IF p.pc = "end" THEN p
  ELSE IF p.frames = <<>> /\ "stop" \in flags THEN [p EXCEPT !.pc = "end", !.ip = ip]
  ELSE Behind(p, ip, AfterValue(p))

RecValue(p) ==
  CASE Peek(p.ip) = "{" ->
         Behind([Call(p, Event("StartObject", 0)) EXCEPT !.frames = Append(@, [object |-> TRUE, n |-> 0])],
                p.ip + 1, "first name")
    [] Peek(p.ip) = "[" ->
         Behind([Call(p, Event("StartArray", 0)) EXCEPT !.frames = Append(@, [object |-> FALSE, n |-> 0])],
                p.ip + 1, "first element")
    [] OTHER -> EndValueAt(Scalar(p, FALSE), p.ip + 1)

\* The innermost object or array ends behind n members or elements.
RecClose(p, n) ==
  LET object == Last(p.frames).object
      q == [p EXCEPT !.frames = Shorter(@, 1)]
  IN  EndValueAt(Call(q, Event(IF object THEN "EndObject" ELSE "EndArray", n)), p.ip + 1)

Bracket(p) == IF Last(p.frames).object THEN "}" ELSE "]"

\* As a bug: the element before the last comma is not counted.
RecTrailing_uncounted(p, n) == RecClose(p, n - 1)
RecTrailing(p, n) == RecClose(p, n)

RecName(p) == IF Peek(p.ip) # "s" THEN Fail(p, "ObjectMissName")
              ELSE Behind(Scalar(p, TRUE), p.ip + 1, "colon")

\* Behind a member or an element: a comma, the end, or an error.
RecMore(p) ==
  LET n == Last(p.frames).n + 1
      q == [p EXCEPT !.frames[Len(p.frames)].n = n]
  IN  CASE Peek(p.ip) = "," -> Behind(q, p.ip + 1, "comma")
        [] Peek(p.ip) = Bracket(p) -> RecClose(p, n)
        [] OTHER -> Fail(p, IF Last(p.frames).object THEN "ObjectMissCommaOrCurlyBracket"
                            ELSE "ArrayMissCommaOrSquareBracket")

RecStepped(p) ==
  CASE p.pc = "begin" -> IF SkipFrom(1).bad THEN Fail(p, "UnspecificSyntaxError")
                         ELSE IF Peek(SkipFrom(1).ip) = "eof" THEN Fail(p, "DocumentEmpty")
                         ELSE [p EXCEPT !.ip = SkipFrom(1).ip, !.pc = "value"]
    [] p.pc = "value" -> RecValue(p)
    [] p.pc \in {"first name", "first element"} /\ Peek(p.ip) = Bracket(p) -> RecClose(p, 0)
    [] p.pc = "first name" /\ Peek(p.ip) # "}" -> RecName(p)
    [] p.pc = "first element" /\ Peek(p.ip) # "]" -> [p EXCEPT !.pc = "value"]
    [] p.pc = "colon" -> IF Peek(p.ip) = ":" THEN Behind(p, p.ip + 1, "value")
                         ELSE Fail(p, "ObjectMissColon")
    [] p.pc \in {"member", "element"} -> RecMore(p)
    [] p.pc = "comma" /\ "commas" \in flags /\ Peek(p.ip) = Bracket(p) -> RecTrailing(p, Last(p.frames).n)
    [] p.pc = "comma" /\ ~("commas" \in flags /\ Peek(p.ip) = Bracket(p)) ->
         IF Last(p.frames).object THEN RecName(p) ELSE [p EXCEPT !.pc = "value"]
    [] p.pc = "root" -> IF Peek(p.ip) # "eof" THEN Fail(p, "DocumentRootNotSingular")
                        ELSE [p EXCEPT !.pc = "end"]

-----------------------------------------------------------------------------
(* IterativeParse: Predict is its table, Transit one step, HandleError what*)
(* an unexpected token means.  A frame is the state to come back to and    *)
(* the commas so far.                                                      *)

Tokenize(c) == IF c \in {"[", "]", "{", "}", ",", ":", "s"} THEN c ELSE "number"

OnValue(onScalar) ==
  [t \in {"[", "{", "s", "number"} |->
     CASE t = "[" -> "ArrayInitial" [] t = "{" -> "ObjectInitial" [] OTHER -> onScalar]

G == [Start             |-> OnValue("Value"),
      ObjectInitial     |-> [t \in {"}", "s"} |-> IF t = "s" THEN "MemberKey" ELSE "ObjectFinish"],
      MemberKey         |-> [t \in {":"} |-> "KeyValueDelimiter"],
      KeyValueDelimiter |-> OnValue("MemberValue"),
      MemberValue       |-> [t \in {"}", ","} |-> IF t = "," THEN "MemberDelimiter" ELSE "ObjectFinish"],
      MemberDelimiter   |-> [t \in {"}", "s"} |-> IF t = "s" THEN "MemberKey" ELSE "ObjectFinish"],
      ArrayInitial      |-> [t \in {"]"} |-> "ArrayFinish"] @@ OnValue("Element"),
      Element           |-> [t \in {"]", ","} |-> IF t = "," THEN "ElementDelimiter" ELSE "ArrayFinish"],
      ElementDelimiter  |-> [t \in {"]"} |-> "ArrayFinish"] @@ OnValue("Element")]

Predict(state, token) ==
  IF state \in DOMAIN G /\ token \in DOMAIN G[state] THEN G[state][token] ELSE "Error"

ErrorOf(state) ==
  CASE state = "Start"  -> "DocumentEmpty"
    [] state = "Finish" -> "DocumentRootNotSingular"
    [] state \in {"ObjectInitial", "MemberDelimiter"} -> "ObjectMissName"
    [] state = "MemberKey" -> "ObjectMissColon"
    [] state = "MemberValue" -> "ObjectMissCommaOrCurlyBracket"
    [] state \in {"KeyValueDelimiter", "ArrayInitial", "ElementDelimiter"} -> "ValueInvalid"
    [] OTHER -> "ArrayMissCommaOrSquareBracket"

\* The state to come back to when a container that begins here is finished.
Return(src) ==
  CASE src \in {"ArrayInitial", "ElementDelimiter"} -> "Element"
    [] src = "KeyValueDelimiter" -> "MemberValue"
    [] OTHER -> src

ItrOpen(p, dst) ==
  [Call(p, Event(IF dst = "ObjectInitial" THEN "StartObject" ELSE "StartArray", 0))
     EXCEPT !.frames = Append(@, [back |-> Return(p.pc), n |-> 0])]

ItrClose(p, event, counted, missing, delimiter) ==
  LET frame == Last(p.frames)
      q     == [p EXCEPT !.frames = Shorter(@, 1)]
  IN  IF "commas" \notin flags /\ p.pc = delimiter THEN Fail(p, missing)
      ELSE Call(q, Event(event, frame.n + (IF p.pc = counted THEN 1 ELSE 0)))

\* What Transit did, or the error, and the state it returns.
TransitTo(p, dst) ==
  CASE dst = "Error" -> <<Fail(p, ErrorOf(p.pc)), dst>>
    [] dst \in {"ObjectInitial", "ArrayInitial"} -> <<ItrOpen(p, dst), dst>>
    [] dst = "MemberKey" -> <<Scalar(p, TRUE), dst>>
    [] dst = "KeyValueDelimiter" -> <<p, dst>>
    [] dst \in {"MemberValue", "Element"} -> <<Scalar(p, FALSE), dst>>
    [] dst \in {"MemberDelimiter", "ElementDelimiter"} ->
         <<[p EXCEPT !.frames[Len(p.frames)].n = @ + 1], dst>>
    [] dst \in {"ObjectFinish", "ArrayFinish"} ->
         LET back == Last(p.frames).back
         IN  <<IF dst = "ObjectFinish" THEN ItrClose(p, "EndObject", "MemberValue", "ObjectMissName", "MemberDelimiter")
               ELSE ItrClose(p, "EndArray", "Element", "ValueInvalid", "ElementDelimiter"),
               IF back = "Start" THEN "Finish" ELSE back>>
    [] OTHER -> <<Scalar(p, FALSE), "Finish">>

ItrStepped(p) ==
  LET moved == TransitTo(p, Predict(p.pc, Tokenize(Peek(p.ip))))
  IN  CASE p.pc = "begin" -> Behind(p, 1, "Start")
        [] p.pc # "begin" /\ Peek(p.ip) = "eof" ->
             IF p.pc = "Finish" THEN [p EXCEPT !.pc = "end"] ELSE Fail(p, ErrorOf(p.pc))
        [] OTHER ->
             IF moved[1].pc = "end" THEN moved[1]
             ELSE IF "stop" \in flags /\ moved[2] = "Finish" THEN [moved[1] EXCEPT !.pc = "end", !.ip = p.ip + 1]
             ELSE Behind(moved[1], p.ip + 1, moved[2])

-----------------------------------------------------------------------------
\* A parser takes a step once the stream is known as far as it looks: at the
\* next symbol, and behind what that symbol ends.
Sees(p) ==
  CASE p.pc = "begin" -> Skipped(1)
    [] p.pc # "begin" /\ p.pc # "end" -> Known(p.ip) /\ (Peek(p.ip) # "eof" => Skipped(p.ip + 1))
    [] OTHER -> FALSE

RecStep ==
  /\ Sees(rec)
  /\ rec' = RecStepped(rec)
  /\ UNCHANGED <<text, ended, flags, stopAt, itr>>

ItrStep ==
  /\ rec.pc = "end" /\ Sees(itr)
  /\ itr' = ItrStepped(itr)
  /\ UNCHANGED <<text, ended, flags, stopAt, rec>>

Asked == ~ended /\ IF rec.pc = "end" THEN itr.pc # "end" /\ ~Sees(itr) ELSE ~Sees(rec)

\* Bounds of the check: texts with comments are shorter.
Offered == IF "comments" \in flags THEN Symbols ELSE Symbols \ {"/", "*", "nl"}
Room == MaxText - (IF "comments" \in flags THEN 2 ELSE 0)

Comes ==
  /\ Asked
  /\ \/ Len(text) < Room /\ \E c \in Offered : text' = Append(text, c) /\ UNCHANGED ended
     \/ ended' = TRUE /\ UNCHANGED text
  /\ UNCHANGED <<flags, stopAt, rec, itr>>

JsonInit ==
  /\ text = <<>> /\ ended = FALSE
  /\ flags \in FlagSets /\ stopAt \in StopAts
  /\ rec = NewParser("begin") /\ itr = NewParser("begin")

JsonNext == RecStep \/ ItrStep \/ Comes

-----------------------------------------------------------------------------
(* Both parsers accept the same texts, send the handler the same events    *)
(* with the same counts up to the end or the error, and report the same    *)
(* error; only a bracket, a comma or a colon in place of the document is   *)
(* an empty document to one and an invalid value to the other.             *)
ParsersAgree ==
  rec.pc = "end" /\ itr.pc = "end" =>
    /\ rec.events = itr.events /\ rec.dom = itr.dom
    /\ \/ rec.err = itr.err
       \/ rec.err = "ValueInvalid" /\ itr.err = "DocumentEmpty"
            /\ Peek(SkipFrom(1).ip) \in {"]", "}", ",", ":"}

Significant(p) == SelectSeq(SubSeq(text, 1, p.ip - 1), LAMBDA c : c \notin {"ws", "nl"})
NoTrailing(s) ==
  LET kept == {i \in DOMAIN s : ~(s[i] = "," /\ i < Len(s) /\ s[i + 1] \in {"]", "}"})}
  IN  [i \in 1 .. Cardinality(kept) |-> s[CHOOSE k \in kept : Cardinality({j \in kept : j <= k}) = i]]

(* An accepted text leaves exactly one value on the stack of the document, *)
(* whose symbols, written, are those of the text; so are a deep copy's and *)
(* those of the pretty form, but for its blanks; and each writer ends with *)
(* no level open.  Writer flushes; PrettyWriter only if it wrote a         *)
(* container.                                                              *)
WrittenAsRead ==
  \A p \in {rec, itr} : p.pc = "end" /\ p.err = "none" =>
    /\ Len(p.dom) = 1
    /\ LET v == p.dom[1]
           w == Written(v)
       IN  /\ CopyValue(v) = <<v>>
           /\ w.levels = <<>> /\ ~w.failed /\ w.flushed
           /\ "/" \in Range(text) \/ w.out = NoTrailing(Significant(p))
           /\ \A single \in BOOLEAN :
                LET q == PrettyWritten(v, single)
                IN  /\ SelectSeq(q.out, LAMBDA c : c \notin {"ws", "nl"}) = w.out
                    /\ q.levels = <<>> /\ ~q.failed /\ (q.flushed <=> v.type \in {"object", "array"})
=============================================================================
