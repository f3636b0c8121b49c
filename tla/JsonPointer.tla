----------------------------- MODULE JsonPointer -----------------------------
(***************************************************************************)
(* rapidjson/pointer.h: a JSON pointer read from its string or its URI     *)
(* fragment and written again, and what Create, Set, Swap, GetWithDefault, *)
(* Get and Erase do to a tree of values.  A character is a number: a digit *)
(* itself, one of the names below, and in a fragment 100 + c for %XY.      *)
(* SizeType has IndexLimit values.                                         *)
(***************************************************************************)
EXTENDS Integers, Sequences, SequencesExt, FiniteSetsExt

CONSTANTS
  IndexLimit,               \* 2^32
  PointerSymbols, MaxSource, \* what is read, and its length
  Pointers, Leaves,         \* pointers used on a tree, and numbers put there
  MaxPointerSteps

ASSUME JsonPointerAssumption ==
  /\ {IndexLimit, MaxSource, MaxPointerSteps} \subseteq Nat \ {0} /\ IndexLimit > 10
  /\ PointerSymbols \subseteq Nat /\ Leaves \subseteq Nat

VARIABLES
  psource,   \* the source of a pointer, as far as it was given
  dtree,     \* a value
  treeOp     \* the last call: its kind, pointer, value, result, the tree before

pointerVars == <<psource, dtree, treeOp>>

PLetter == 10
PTilde == 11
PSolidus == 12
PHyphen == 13
PWide == 14      \* more than one byte of UTF-8
PSpace == 15     \* one byte that a fragment must encode
PHash == 16
PBroken == 99    \* a percent sign without two hexadecimal digits
PInvalidIndex == IndexLimit - 1

NeedPercentEncode(c) == c \in {PSolidus, PWide, PSpace, PHash}

-----------------------------------------------------------------------------
(* Parse *)

\* The index of a name of digits.  An overflow is seen only if the number
\* gets smaller by it.
IndexStep(s, c) ==
  LET m == (s.n * 10 + c) % IndexLimit
  IN  IF s.ok /\ m >= s.n THEN [n |-> m, ok |-> TRUE] ELSE [s EXCEPT !.ok = FALSE]
IndexOf(name, isNumber) ==
  LET plain == isNumber /\ name # <<>> /\ (Len(name) > 1 => name[1] # 0)
      r     == FoldLeft(IndexStep, [n |-> 0, ok |-> TRUE], name)
  IN  IF plain /\ r.ok THEN r.n ELSE PInvalidIndex

PointerStart ==
  [at |-> "begin", uri |-> FALSE, tokens |-> <<>>, name |-> <<>>, isNumber |-> TRUE, err |-> "none"]

PointerFails(p, e) == [p EXCEPT !.at = "error", !.tokens = <<>>, !.err = e]

FormClosed(p) ==
  IF p.at # "token" THEN p
  ELSE [p EXCEPT !.tokens = Append(@, [name |-> p.name, index |-> IndexOf(p.name, p.isNumber)])]

OpenToken(p) == [FormClosed(p) EXCEPT !.at = "token", !.name = <<>>, !.isNumber = TRUE]

PutChar(p, c) ==
  [p EXCEPT !.at = "token", !.name = Append(@, c), !.isNumber = @ /\ c \in 0 .. 9]

\* A decoded character that may begin an escape.
PutDecoded(p, c) == IF c = PTilde THEN [p EXCEPT !.at = "tilde"] ELSE PutChar(p, c)

ParseStep(p, c) ==
  CASE p.at = "begin" /\ c = PHash /\ ~p.uri -> [p EXCEPT !.uri = TRUE]
    [] p.at \in {"begin", "token"} /\ c = PSolidus -> OpenToken(p)
    [] p.at = "begin" /\ c # PSolidus /\ (c # PHash \/ p.uri) ->
         PointerFails(p, "TokenMustBeginWithSolidus")
    [] p.at = "token" /\ p.uri /\ c = PBroken -> PointerFails(p, "InvalidPercentEncoding")
    [] p.at = "token" /\ p.uri /\ c = 100 + PWide -> PutChar(p, PWide)
    [] p.at = "token" /\ p.uri /\ c >= 100 /\ c # 100 + PWide -> PutDecoded(p, c - 100)
    [] p.at = "token" /\ p.uri /\ NeedPercentEncode(c) /\ c # PSolidus ->
         PointerFails(p, "CharacterMustPercentEncode")
    [] p.at = "tilde" ->
         CASE c = 0 -> PutChar(p, PTilde)
           [] c = 1 -> PutChar(p, PSolidus)
           [] OTHER -> PointerFails(p, "InvalidEscape")
    [] p.at = "error" -> p
    [] OTHER -> PutDecoded(p, c)

Parse(source) ==
  LET p == FoldLeft(ParseStep, PointerStart, source)
  IN  IF p.at = "tilde" THEN PointerFails(p, "InvalidEscape") ELSE FormClosed(p)

-----------------------------------------------------------------------------
(* Stringify and Append *)

PercentEncoded(c) == 100 + c

\* As a bug: what must be encoded is looked for first.
TokenEscaped_percentFirst(c, uri) ==
  CASE uri /\ NeedPercentEncode(c) -> <<PercentEncoded(c)>>
    [] c = PSolidus /\ ~uri -> <<PTilde>>
    [] OTHER -> <<c>>
TokenEscaped(c, uri) ==
  CASE c = PTilde -> <<PTilde, 0>>
    [] c = PSolidus -> <<PTilde, 1>>
    [] uri /\ NeedPercentEncode(c) /\ c # PSolidus -> <<PercentEncoded(c)>>
    [] OTHER -> <<c>>

Stringify(tokens, uri) ==
  FoldLeft(LAMBDA out, t : FoldLeft(LAMBDA o, c : o \o TokenEscaped(c, uri), Append(out, PSolidus), t.name),
           IF uri THEN <<PHash>> ELSE <<>>, tokens)

\* A token appended by its name has no index, one by its index has both.
Appended(tokens, name, index) == Append(tokens, [name |-> name, index |-> index])
AppendName(tokens, name) == Appended(tokens, name, PInvalidIndex)
Decimal(n) == IF n < 10 THEN <<n>> ELSE <<n \div 10, n % 10>>
AppendIndex(tokens, n) == Appended(tokens, Decimal(n), n)

-----------------------------------------------------------------------------
(* Values: an array's elements, or an object's members and their names.    *)

NullHere == [type |-> "null", number |-> 0, kids |-> <<>>, names |-> <<>>]
Leaf(n) == [NullHere EXCEPT !.type = "number", !.number = n]
EmptyArray == [NullHere EXCEPT !.type = "array"]
EmptyObject == [NullHere EXCEPT !.type = "object"]

\* The value at a path of positions, and the tree with another one there.
ValueAt(root, path) == FoldLeft(LAMBDA v, k : v.kids[k], root, path)
Replaced(root, path, v) ==
  LET up[i \in 0 .. Len(path)] ==
        IF i = Len(path) THEN v
        ELSE [ValueAt(root, SubSeq(path, 1, i)) EXCEPT !.kids[path[i + 1]] = up[i + 1]]
  IN  up[0]

\* FindMember: the first of that name, or one behind the last.
MemberAt(v, name) ==
  Min({Len(v.names) + 1} \cup {k \in DOMAIN v.names : v.names[k] = name})

Padded(v, n) == [v EXCEPT !.kids = @ \o [k \in 1 .. Max({0, n - Len(v.kids)}) |-> NullHere]]

\* What a token makes of the value it is used on.
Converted(v, t) ==
  CASE t.index = PInvalidIndex /\ v.type # "object" -> EmptyObject
    [] t.index # PInvalidIndex /\ v.type \notin {"array", "object"} -> EmptyArray
    [] OTHER -> v

CreateStep(s, t) ==
  LET v == ValueAt(s.root, s.path)
      w == Converted(v, t)
      m == MemberAt(w, t.name)
      To(value, k, exist) == [root |-> Replaced(s.root, s.path, value), path |-> Append(s.path, k),
                              exist |-> s.exist /\ exist]
  IN  CASE v.type = "array" /\ t.name = <<PHyphen>> ->
             To(Padded(v, Len(v.kids) + 1), Len(v.kids) + 1, FALSE)
        [] ~(v.type = "array" /\ t.name = <<PHyphen>>) /\ w.type = "array" ->
             To(Padded(w, t.index + 1), t.index + 1, t.index < Len(w.kids))
        [] OTHER ->
             IF m <= Len(w.names) THEN To(w, m, TRUE)
             ELSE To([w EXCEPT !.names = Append(@, t.name), !.kids = Append(@, NullHere)], m, FALSE)

Create(root, tokens) ==
  FoldLeft(CreateStep, [root |-> root, path |-> <<>>, exist |-> TRUE], tokens)

\* Get: the path, or the number of the first token that cannot be followed.
GetStep(s, t) ==
  LET v == ValueAt(s.root, s.path)
      k == IF v.type = "object" THEN MemberAt(v, t.name) ELSE t.index + 1
      ok == v.type \in {"object", "array"} /\ k <= Len(v.kids)
            /\ (v.type = "array" => t.index # PInvalidIndex)
  IN  CASE s.unresolved # 0 -> s
        [] s.unresolved = 0 /\ ok -> [s EXCEPT !.path = Append(@, k)]
        [] OTHER -> [s EXCEPT !.unresolved = Len(s.path) + 1]

Resolve(root, tokens) ==
  FoldLeft(GetStep, [root |-> root, path |-> <<>>, unresolved |-> 0], tokens)
Found(root, tokens) == Resolve(root, tokens).unresolved = 0
Get(root, tokens) == ValueAt(root, Resolve(root, tokens).path)

Set(root, tokens, v) == LET c == Create(root, tokens) IN Replaced(c.root, c.path, v)
GetWithDefault(root, tokens, v) ==
  LET c == Create(root, tokens) IN IF c.exist THEN c.root ELSE Replaced(c.root, c.path, v)
Swap(root, tokens, v) == LET c == Create(root, tokens) IN Replaced(c.root, c.path, v)

\* Erase: the rest moves up, in an array and among the members.
EraseAt(root, tokens) ==
  LET path == Resolve(root, tokens).path
      up   == Front(path)
      v    == ValueAt(root, up)
  IN  Replaced(root, up,
        [v EXCEPT !.kids = RemoveAt(@, Last(path)),
                  !.names = IF v.type = "object" THEN RemoveAt(@, Last(path)) ELSE @])

-----------------------------------------------------------------------------
NoOp == [kind |-> "none", tokens |-> <<>>, value |-> NullHere, result |-> FALSE,
         before |-> NullHere, steps |-> 0]

PointerInit == psource = <<>> /\ dtree = NullHere /\ treeOp = NoOp

\* Encoded characters are looked at in a fragment only.
TakeSymbol ==
  /\ Len(psource) < MaxSource /\ treeOp = NoOp
  /\ \E c \in PointerSymbols :
       /\ c >= 99 => psource # <<>> /\ psource[1] = PHash
       /\ psource' = Append(psource, c)
  /\ UNCHANGED <<dtree, treeOp>>

Called(kind, tokens, value, result, after) ==
  /\ psource = <<>> /\ treeOp.steps < MaxPointerSteps
  /\ dtree' = after
  /\ treeOp' = [kind |-> kind, tokens |-> tokens, value |-> value, result |-> result,
                before |-> dtree, steps |-> treeOp.steps + 1]
  /\ UNCHANGED psource

TokenLists == {Parse(source).tokens : source \in Pointers}

CreateValueByPointer ==
  \E t \in TokenLists : \E c \in {Create(dtree, t)} : Called("create", t, NullHere, c.exist, c.root)

SetValueByPointer ==
  \E t \in TokenLists, n \in Leaves :
    Called("set", t, Leaf(n), Create(dtree, t).exist, Set(dtree, t, Leaf(n)))

GetValueByPointerWithDefault ==
  \E t \in TokenLists, n \in Leaves :
    Called("default", t, Leaf(n), Create(dtree, t).exist, GetWithDefault(dtree, t, Leaf(n)))

\* The value given gets what was there; it was null.
SwapValueByPointer ==
  \E t \in TokenLists : \E c \in {Create(dtree, t)} :
    Called("swap", t, ValueAt(c.root, c.path), c.exist, Swap(dtree, t, NullHere))

EraseValueByPointer ==
  \E t \in TokenLists : \E ok \in {t # <<>> /\ Found(dtree, t)} :
    Called("erase", t, NullHere, ok, IF ok THEN EraseAt(dtree, t) ELSE dtree)

PointerNext ==
  \/ TakeSymbol
  \/ CreateValueByPointer
  \/ SetValueByPointer
  \/ GetValueByPointerWithDefault
  \/ SwapValueByPointer
  \/ EraseValueByPointer

-----------------------------------------------------------------------------
Number(name) == FoldLeft(LAMBDA n, c : n * 10 + c, 0, name)
ReadsBack(tokens) == \A uri \in BOOLEAN : Parse(Stringify(tokens, uri)).tokens = tokens
LooksIndex(name) == name # <<>> /\ (\A k \in DOMAIN name : name[k] \in 0 .. 9) /\ (Len(name) > 1 => name[1] # 0)

(* A pointer that was read is written, as a string or as a fragment, so    *)
(* that it is read again as the same, and so is one that was put together  *)
(* by Append, except of a name that reads as an index.  An index is exact  *)
(* when it is in the range; one that is not may wrap into it               *)
(* (pointer.h:908).                                                        *)
PointerReadBack ==
  \A p \in {Parse(psource)} : psource # <<>> /\ p.err = "none" =>
    /\ \A t \in Range(p.tokens) :
         /\ LooksIndex(t.name) /\ Number(t.name) < IndexLimit => t.index = Number(t.name)
         /\ t.index # PInvalidIndex => LooksIndex(t.name)
         /\ ReadsBack(AppendName(p.tokens, t.name)) <=> t.index = PInvalidIndex
    /\ \A tokens \in {p.tokens} \cup {AppendIndex(p.tokens, n) : n \in {0, 9, 10, IndexLimit - 2}} :
         ReadsBack(tokens)

\* What the tokens of two pointers have in common, and whether a call leaves
\* the value where they part in the kind it is.
Common(q, t) == Max({0} \cup {k \in 1 .. Min({Len(q), Len(t)}) : SubSeq(q, 1, k) = SubSeq(t, 1, k)})
Keeps(v, t) ==
  \/ v.type = "object"
  \/ v.type = "array" /\ (t.index # PInvalidIndex \/ t.name = <<PHyphen>>)

\* Where a value is that was at q before t was erased.
After(q, t, k) ==
  IF Get(treeOp.before, SubSeq(t, 1, k)).type = "array" /\ k + 1 = Len(t) /\ q[k + 1].index > t[k + 1].index
  THEN [q EXCEPT ![k + 1].index = @ - 1] ELSE q

(* A call changes the value its pointer names, which Get then finds unless *)
(* the pointer appends to an array, and nothing else: what another pointer *)
(* named it still names, moved up by an element that was erased, unless    *)
(* the value where the two part had to change its kind.  Create and        *)
(* GetWithDefault of what is there, and an Erase that fails, change        *)
(* nothing.                                                                *)
PointerReaches ==
  treeOp.kind # "none" =>
    LET t   == treeOp.tokens
        old == treeOp.before
        hyphen == \E k \in DOMAIN t : t[k].name = <<PHyphen>>
    IN  /\ treeOp.kind \in {"set", "swap"} /\ ~hyphen =>
             Found(dtree, t) /\ Get(dtree, t) = IF treeOp.kind = "set" THEN treeOp.value ELSE NullHere
        /\ treeOp.kind = "swap" => treeOp.value = IF Found(old, t) THEN Get(old, t) ELSE NullHere
        /\ treeOp.kind \in {"create", "set", "swap", "default"} => treeOp.result = Found(old, t)
        /\ treeOp.kind \in {"create", "default"} /\ treeOp.result => dtree = old
        /\ treeOp.kind = "create" /\ ~treeOp.result /\ ~hyphen => Found(dtree, t) /\ Get(dtree, t) = NullHere
        /\ treeOp.kind = "default" /\ ~treeOp.result /\ ~hyphen => Get(dtree, t) = treeOp.value
        /\ treeOp.kind = "erase" /\ ~treeOp.result => dtree = old
        /\ \A q \in TokenLists : \A k \in {Common(q, t)} :
             Found(old, q) /\ k < Len(q) /\ k < Len(t) /\ Keeps(Get(old, SubSeq(t, 1, k)), t[k + 1])
             /\ (treeOp.kind = "erase" => treeOp.result)
               => \A r \in {IF treeOp.kind = "erase" THEN After(q, t, k) ELSE q} :
                    Found(dtree, r) /\ Get(dtree, r) = Get(old, q)

(* Pointers survive being written and read, and reach what they name.      *)
PointerExact == PointerReadBack /\ PointerReaches
=============================================================================
