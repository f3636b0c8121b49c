------------------------------ MODULE JsonRegex ------------------------------
(***************************************************************************)
(* rapidjson/internal/regex.h: a pattern is parsed into an automaton by    *)
(* stacks of operands, operators and atom counts, and a text is searched   *)
(* with the set of states it may be in.  A pattern is put together of      *)
(* pieces: a piece has its characters and, for the reference, its meaning  *)
(* (kind, the letters it stands for, how often it repeats).  Characters    *)
(* are numbers: letters as they are, 10 + d for a digit, the names below.  *)
(* State 0 is kRegexInvalidState; unsigned has CountLimit values.          *)
(***************************************************************************)
EXTENDS Integers, Sequences, SequencesExt, FiniteSetsExt

CONSTANTS
  Letters, MaxSubject,      \* texts that are searched, and their length
  RegexAlphabets, MaxPieces, \* sets of pieces, and how many of them and in a pattern
  CountLimit                \* 2^32

ASSUME JsonRegexAssumption ==
  /\ {MaxSubject, MaxPieces} \subseteq Nat \ {0}
  /\ CountLimit \in Nat /\ CountLimit % 10 = 6   \* as 2^32
  /\ Letters \subseteq (1 .. 7) \cup {33}   \* 33 is the hyphen

VARIABLES
  alphabet,   \* the pieces this pattern is made of
  pieces,     \* the pattern so far
  rgx         \* GenericRegex in its constructor

regexVars == <<alphabet, pieces, rgx>>

NLetter == 4
BLetter == 5
NewLine == 6      \* what \n stands for
Backspace == 7    \* what \b stands for in a class
Caret == 20
Dollar == 21
Bar == 22
Opening == 23
Closing == 24
Question == 25
Star == 26
PlusSign == 27
LeftBrace == 28
RightBrace == 29
Point == 30
LeftBracket == 31
RightBracket == 32
Hyphen == 33
Backslash == 34
CommaSign == 35
EndSign == 0

Infinity == CountLimit - 1
AnyClass == 98
RangeClass == 99
NoClass == [neg |-> FALSE, items |-> <<>>, step |-> 0, begin |-> TRUE]

-----------------------------------------------------------------------------
(* The automaton *)

NewState(p, out, out1, codepoint, class) ==
  [p EXCEPT !.states = Append(@, [out |-> out, out1 |-> out1, codepoint |-> codepoint, class |-> class])]

Frag(start, out, min) == [start |-> start, out |-> out, min |-> min]

PushFrag(p, f) == [p EXCEPT !.frags = Append(@, f)]

PushOperand(p, codepoint, class) ==
  LET s == Len(p.states) + 1
  IN  PushFrag(NewState(p, 0, 0, codepoint, class), Frag(s, s, s))

\* Two operands beside each other are concatenated later.
ImplicitConcatenation(p) ==
  LET k == Len(p.atoms)
  IN  [p EXCEPT !.ops = IF p.atoms[k] > 0 THEN Append(@, "concat") ELSE @, !.atoms[k] = @ + 1]

\* The states whose out is still open are a list through out.
Linked(states, l) ==
  LET on[i \in 0 .. Len(states)] == IF i = 0 THEN {} ELSE {i} \cup on[states[i].out]
  IN  on[l]

Patch(states, l, s) ==
  LET open == Linked(states, l)
  IN  [i \in DOMAIN states |-> IF i \in open THEN [states[i] EXCEPT !.out = s] ELSE states[i]]

AppendList(states, l1, l2) ==
  LET end == CHOOSE i \in Linked(states, l1) : states[i].out = 0
  IN  [states EXCEPT ![end].out = l2]

Invalid(p) == [p EXCEPT !.at = "invalid"]
Asserted(p) == [p EXCEPT !.at = "assert"]

\* One operator on the operands on top.
EvalConcatenation(p) ==
  LET k == Len(p.frags)
      q == [p EXCEPT !.frags = SubSeq(@, 1, k - 2)]
      e1 == p.frags[k - 1]
      e2 == p.frags[k]
  IN  IF k < 2 THEN Asserted(p)
      ELSE PushFrag([q EXCEPT !.states = Patch(@, e1.out, e2.start)],
                    Frag(e1.start, e2.out, Min({e1.min, e2.min})))

EvalAlternation(p) ==
  LET k == Len(p.frags)
      e1 == p.frags[k - 1]
      e2 == p.frags[k]
      q == NewState([p EXCEPT !.frags = SubSeq(@, 1, k - 2)], e1.start, e2.start, 0, NoClass)
  IN  IF k < 2 THEN Invalid(p)
      ELSE PushFrag([q EXCEPT !.states = AppendList(@, e1.out, e2.out)],
                    Frag(Len(q.states), e1.out, Min({e1.min, e2.min})))

\* A split: out is what follows, out1 the operand.
EvalRepeat(p, op) ==
  LET e == Last(p.frags)
      q == NewState([p EXCEPT !.frags = Front(@)], 0, e.start, 0, NoClass)
      s == Len(q.states)
  IN  CASE p.frags = <<>> -> Invalid(p)
        [] p.frags # <<>> /\ op = "?" ->
             PushFrag([q EXCEPT !.states = AppendList(@, e.out, s)], Frag(s, e.out, e.min))
        [] p.frags # <<>> /\ op = "*" ->
             PushFrag([q EXCEPT !.states = Patch(@, e.out, s)], Frag(s, s, e.min))
        [] p.frags # <<>> /\ op = "+" ->
             PushFrag([q EXCEPT !.states = Patch(@, e.out, s)], Frag(e.start, s, e.min))

\* A parenthesis that is still open is none of the operators.
Eval(p, op) ==
  CASE op = "concat" -> EvalConcatenation(p)
    [] op = "|" -> EvalAlternation(p)
    [] op = "(" -> Asserted(p)
    [] OTHER -> EvalRepeat(p, op)

\* The operators on top are evaluated down to one of until.
EvalTop(p) == IF p.at = "top" THEN Eval([p EXCEPT !.ops = Front(@)], Last(p.ops)) ELSE p
Times(p, n, Op(_)) == FoldLeft(LAMBDA q, i : Op(q), p, [i \in 1 .. Max({0, n}) |-> i])
Unwind(p, until) ==
  Times(p, Len(p.ops) - Max({0} \cup {k \in DOMAIN p.ops : p.ops[k] \in until}), EvalTop)

\* A copy of the operand on top, whose states are the last ones.
CloneTopOperand(p) ==
  LET src   == Last(p.frags)
      count == Len(p.states) - src.min + 1
      To(i) == IF i = 0 THEN 0 ELSE i + count
      copy  == [j \in 1 .. count |-> [p.states[src.min + j - 1] EXCEPT !.out = To(@), !.out1 = To(@)]]
  IN  PushFrag([p EXCEPT !.states = @ \o copy], Frag(src.start + count, src.out + count, src.min + count))

EvalQuantifier(p, n, m) ==
  LET Concat(q) == Eval(q, "concat")
      maybe == Times(Eval(p, "?"), m - 1, CloneTopOperand)
      some  == Times(p, n - 1, CloneTopOperand)
      more  == Times(Eval(CloneTopOperand(some), "?"), m - 1 - n, CloneTopOperand)
  IN  CASE n = 0 /\ m = 0 -> Invalid(p)
        [] n = 0 /\ m = Infinity -> Eval(p, "*")
        [] n = 0 /\ m \notin {0, Infinity} -> Times(maybe, m - 1, Concat)
        [] n > 0 /\ m = Infinity -> Times(Eval(some, "+"), n - 1, Concat)
        [] n > 0 /\ m = n -> Times(some, n - 1, Concat)
        [] OTHER -> Times(more, m - 1, Concat)

-----------------------------------------------------------------------------
(* The parser, character by character *)

Atom(p, codepoint, class) ==
  ImplicitConcatenation(PushOperand([p EXCEPT !.at = "top"], codepoint, class))

\* An escaped character, 0 if it is not supported.
CharacterEscape(c) ==
  CASE c \in 20 .. 34 \ {Hyphen} -> c
    [] c = NLetter -> NewLine
    [] OTHER -> 0

EscapedAtom(p, c) == IF CharacterEscape(c) = 0 THEN Invalid(p) ELSE Atom(p, CharacterEscape(c), NoClass)

Alternative(p) == [p EXCEPT !.ops = Append(@, "|"), !.atoms[Len(p.atoms)] = 0]
Grouped(p) ==
  CASE p.at # "top" -> p
    [] p.at = "top" /\ p.ops = <<>> -> Invalid(p)
    [] OTHER -> ImplicitConcatenation([p EXCEPT !.ops = Front(@), !.atoms = Front(@)])
Repetition == (Question :> "?") @@ (Star :> "*") @@ (PlusSign :> "+")

TopStep(p, c) ==
  CASE c = Caret -> [p EXCEPT !.begin = TRUE]
    [] c = Dollar -> [p EXCEPT !.end = TRUE]
    [] c = Bar -> Alternative(Unwind(p, {"|", "("}))
    [] c = Opening -> [p EXCEPT !.ops = Append(@, "("), !.atoms = Append(@, 0)]
    [] c = Closing -> Grouped(Unwind(p, {"("}))
    [] c \in DOMAIN Repetition -> Eval(p, Repetition[c])
    [] c = LeftBrace -> [p EXCEPT !.at = "min", !.n = 0, !.m = 0, !.digits = 0]
    [] c = Point -> Atom(p, AnyClass, NoClass)
    [] c = LeftBracket -> [p EXCEPT !.at = "class", !.class = NoClass]
    [] c = Backslash -> [p EXCEPT !.at = "escape"]
    [] OTHER -> Atom(p, c, NoClass)

\* ParseUnsigned: the last digit is looked at, whatever the ones before are.
IsDigit(c) == c \in 10 .. 19
CountFits(r, c) == ~(r >= CountLimit \div 10 /\ c - 10 > 5)
Counted(r, c) == (r * 10 + c - 10) % CountLimit

Braced(p, c) == IF c # RightBrace THEN Invalid(p) ELSE p
Quantified(p, m, c) ==
  CASE m < p.n -> Invalid(p)
    [] m >= p.n /\ p.frags = <<>> -> Asserted(p)
    [] OTHER -> Braced(EvalQuantifier([p EXCEPT !.at = "top"], p.n, m), c)

CountStep(p, c) ==
  CASE IsDigit(c) ->
         LET r == IF p.at = "min" THEN p.n ELSE p.m IN
         CASE ~CountFits(r, c) -> Invalid(p)
           [] CountFits(r, c) /\ p.at = "min" -> [p EXCEPT !.n = Counted(r, c), !.digits = @ + 1]
           [] OTHER -> [p EXCEPT !.m = Counted(r, c), !.digits = @ + 1]
    [] ~IsDigit(c) /\ p.at = "max" /\ p.digits = 0 /\ c = RightBrace -> Quantified(p, Infinity, c)
    [] ~IsDigit(c) /\ p.digits = 0 /\ ~(p.at = "max" /\ c = RightBrace) -> Invalid(p)
    [] p.at = "min" /\ p.digits > 0 /\ c = CommaSign -> [p EXCEPT !.at = "max", !.digits = 0]
    [] OTHER -> Quantified(p, IF p.at = "min" THEN p.n ELSE p.m, c)

\* ParseRange: step 1 behind a character, step 2 behind its hyphen.
ClassItem(p, c) ==
  LET k == Len(p.class.items)
      step == p.class.step
      q == [p EXCEPT !.at = "class", !.class.begin = FALSE]
  IN  CASE step = 1 /\ c = Hyphen -> [q EXCEPT !.class.step = 2]
        [] step = 2 -> [q EXCEPT !.class.items[k].last = c, !.class.step = 0]
        [] OTHER -> [q EXCEPT !.class.items = Append(@, [first |-> c, last |-> c]), !.class.step = 1]

\* A hyphen at the end stands for itself.
\* As a bug: it is forgotten.
ClassClosed_hyphenless(class) == class.items
ClassClosed(class) ==
  IF class.step = 2 THEN Append(class.items, [first |-> Hyphen, last |-> Hyphen]) ELSE class.items

ClassStep(p, c) ==
  CASE c = Caret /\ p.class.begin -> [p EXCEPT !.class.neg = TRUE, !.class.begin = FALSE]
    [] c = RightBracket /\ p.class.items = <<>> -> Invalid(p)
    [] c = RightBracket /\ p.class.items # <<>> ->
         Atom(p, RangeClass, [NoClass EXCEPT !.neg = p.class.neg, !.items = ClassClosed(p.class)])
    [] c = Backslash -> [p EXCEPT !.at = "classEscape", !.class.begin = FALSE]
    [] c = EndSign -> Invalid(p)
    [] OTHER -> ClassItem(p, c)

ClassEscaped(p, c) ==
  LET e == IF c = BLetter THEN Backspace ELSE CharacterEscape(c)
  IN  IF e = 0 THEN Invalid(p) ELSE ClassItem(p, e)

RegexStep(p, c) ==
  CASE p.at = "top" -> TopStep(p, c)
    [] p.at = "escape" -> EscapedAtom(p, c)
    [] p.at \in {"min", "max"} -> CountStep(p, c)
    [] p.at = "class" -> ClassStep(p, c)
    [] p.at = "classEscape" -> ClassEscaped(p, c)
    [] OTHER -> p

RegexStart ==
  [at |-> "top", states |-> <<>>, frags |-> <<>>, ops |-> <<>>, atoms |-> <<0>>, begin |-> FALSE,
   end |-> FALSE, n |-> 0, m |-> 0, digits |-> 0, class |-> NoClass, root |-> 0]

\* The end of the pattern: the operand that is left leads to the last state.
Rooted(q) ==
  LET e == q.frags[1]
      r == NewState(q, 0, 0, 0, NoClass)
  IN  CASE q.at = "top" /\ Len(q.frags) = 1 ->
             [r EXCEPT !.states = Patch(@, e.out, Len(r.states)), !.root = e.start]
        [] q.at = "top" /\ Len(q.frags) # 1 -> Invalid(q)
        [] OTHER -> q
Finished(p) == Rooted(IF p.at = "top" THEN Unwind(p, {}) ELSE RegexStep(p, EndSign))

IsValid(p) == p.root # 0

-----------------------------------------------------------------------------
(* The search *)

Split(p, i) == p.states[i].out1 # 0
Follow(p, i) == IF Split(p, i) THEN {i, p.states[i].out, p.states[i].out1} ELSE {i}
Reached(p, S) ==
  LET R[n \in 0 .. Len(p.states)] == IF n = 0 THEN S ELSE UNION {Follow(p, i) : i \in R[n - 1]}
  IN  R[Len(p.states)]

\* AddState calls itself for both ways out of a split, and does not mark it.
Recurses(p) ==
  \E i \in DOMAIN p.states : Split(p, i) /\ i \in Reached(p, {p.states[i].out, p.states[i].out1})
AddState(p, i) == {j \in Reached(p, {i}) : ~Split(p, j)}
MatchState(p, i) == p.states[i].out = 0

MatchRange(class, c) ==
  (\E k \in DOMAIN class.items : class.items[k].first <= c /\ c <= class.items[k].last) # class.neg

Takes(s, c) ==
  \/ s.codepoint \in {c, AnyClass}
  \/ s.codepoint = RangeClass /\ MatchRange(s.class, c)

\* The states after one more character; a match ends a search that is not
\* anchored.  A match of nothing is only seen before the first character.
SearchStep(p, s, c, anchorBegin, anchorEnd) ==
  LET next == UNION {AddState(p, p.states[i].out) : i \in {j \in s.current : Takes(p.states[j], c)}}
      hit  == \E i \in next : MatchState(p, i)
  IN  IF s.found \/ s.current = {} THEN s
      ELSE [found   |-> hit /\ ~anchorEnd,
            matched |-> hit,
            current |-> next \cup IF anchorBegin THEN {} ELSE AddState(p, p.root)]

SearchWithAnchoring(p, text, anchorBegin, anchorEnd) ==
  LET first == AddState(p, p.root)
  IN  FoldLeft(LAMBDA s, c : SearchStep(p, s, c, anchorBegin, anchorEnd),
               [found |-> FALSE, matched |-> \E i \in first : MatchState(p, i), current |-> first],
               text).matched

Search(p, text) == SearchWithAnchoring(p, text, p.begin, p.end)
Match(p, text) == SearchWithAnchoring(p, text, TRUE, TRUE)

-----------------------------------------------------------------------------
RegexInit == alphabet \in RegexAlphabets /\ pieces = <<>> /\ rgx = RegexStart

TakePiece ==
  /\ Len(pieces) + Cardinality(alphabet) < MaxPieces /\ rgx.at \notin {"invalid", "assert"}
  /\ \E piece \in alphabet :
       /\ pieces' = Append(pieces, piece)
       /\ rgx' = FoldLeft(RegexStep, rgx, piece.chars)
  /\ UNCHANGED alphabet

RegexNext == TakePiece

-----------------------------------------------------------------------------
(* The reference: the words, of up to MaxSubject letters, that a sequence  *)
(* of pieces stands for, and whether it repeats nothing for ever.          *)

Subjects == UNION {[1 .. n -> Letters] : n \in 0 .. MaxSubject}
Followed(K, L) == {w \in {u \o v : u \in K, v \in L} : Len(w) <= MaxSubject}
Power(L, n) == FoldLeft(LAMBDA K, i : Followed(K, L), {<<>>}, [i \in 1 .. n |-> i])
Repeated(L, lo, hi) == UNION {Power(L, n) : n \in lo .. IF hi = Infinity THEN lo + MaxSubject ELSE hi}

DepthAt(t, k) ==
  Cardinality({i \in 1 .. k : t[i].kind = "open"}) - Cardinality({i \in 1 .. k : t[i].kind = "close"})
Bars(t) == {k \in DOMAIN t : t[k].kind = "bar" /\ DepthAt(t, k) = 0}
LastAtom(t) == Max({k \in DOMAIN t : t[k].kind # "post"})
AtomBegin(t) ==
  LET q == LastAtom(t)
  IN  IF t[q].kind # "close" THEN q
      ELSE Max({k \in 1 .. q : t[k].kind = "open" /\ DepthAt(t, k - 1) = DepthAt(t, q)})

RECURSIVE Meaning(_)
Meaning(t) ==
  CASE Bars(t) # {} ->
         LET k == Min(Bars(t))
             a == Meaning(SubSeq(t, 1, k - 1))
             b == Meaning(SubSeq(t, k + 1, Len(t)))
         IN  [words |-> a.words \cup b.words, loops |-> a.loops \/ b.loops]
    [] Bars(t) = {} /\ t = <<>> -> [words |-> {<<>>}, loops |-> FALSE]
    [] OTHER ->
         LET q == LastAtom(t)
             b == AtomBegin(t)
             front == Meaning(SubSeq(t, 1, b - 1))
             atom  == IF b < q THEN Meaning(SubSeq(t, b + 1, q - 1))
                      ELSE [words |-> {<<c>> : c \in t[q].set}, loops |-> FALSE]
             all   == FoldLeft(LAMBDA a, r : [words |-> Repeated(a.words, r.lo, r.hi),
                                              loops |-> a.loops \/ (r.hi = Infinity /\ <<>> \in a.words)],
                               atom, SubSeq(t, q + 1, Len(t)))
         IN  [words |-> Followed(front.words, all.words), loops |-> front.loops \/ all.loops]

\* What the grammar of the comment at regex.h:53 allows: no alternative and
\* no group is empty, and a repetition has something to repeat.
WellFormed(t) ==
  /\ t # <<>> /\ DepthAt(t, Len(t)) = 0 /\ \A k \in DOMAIN t : DepthAt(t, k) >= 0
  /\ \A k \in DOMAIN t : t[k].kind # "bad"
  /\ t[1].kind \in {"char", "open"} /\ t[Len(t)].kind # "bar"
  /\ \A k \in 1 .. Len(t) - 1 :
       t[k].kind \in {"open", "bar"} => t[k + 1].kind \in {"char", "open"}

\* A repetition where there is nothing yet repeats the operand before it.
Misplaced(t) == \E k \in 2 .. Len(t) : t[k].kind = "post" /\ t[k - 1].kind \in {"open", "bar"}

Occurs(words, t, w) ==
  \E x \in 0 .. Len(w) : \E y \in x .. Len(w) :
    /\ SubSeq(w, x + 1, y) \in words
    /\ (\E k \in DOMAIN t : t[k].chars = <<Caret>>) => x = 0
    /\ (\E k \in DOMAIN t : t[k].chars = <<Dollar>>) => y = Len(w)
    /\ x < y \/ w = <<>>

(* A pattern that is well formed is accepted and no assertion fails on it; *)
(* one that is not is refused, unless all that is wrong is the place of a  *)
(* repetition.  AddState never returns exactly if something that may be    *)
(* empty is repeated without a bound.  Otherwise Match is membership, and  *)
(* Search finds what Match would in a part of the text, a match of nothing *)
(* only in the empty text (regex.h:618).                                   *)
RegexExact ==
  \A p \in {Finished(rgx)}, plain \in {SelectSeq(pieces, LAMBDA k : k.kind # "anchor")} :
    /\ WellFormed(plain) => IsValid(p)
    /\ IsValid(p) => WellFormed(plain) \/ Misplaced(plain)
    /\ WellFormed(plain) => \A means \in {Meaning(plain)} :
         /\ Recurses(p) <=> means.loops
         /\ ~means.loops => \A w \in Subjects :
              /\ Match(p, w) <=> w \in means.words
              /\ Search(p, w) <=> Occurs(means.words, pieces, w)
=============================================================================
