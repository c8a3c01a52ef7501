-------------------------------- MODULE Calc --------------------------------
(***************************************************************************)
(* The calculator of nlp (nlp/parse.go, nlp/arithmetic.go, Calculate of    *)
(* nlp/nlp.go): a text is cut into tokens, read by recursive descent and   *)
(* evaluated, and a question is read again without the words around it.    *)
(* A text is a sequence of characters.  A value is a whole number, or one  *)
(* value that stands for all the others; the functions are one of one      *)
(* argument, one of two and one of any number.                             *)
(***************************************************************************)
EXTENDS Integers, SequencesExt, FiniteSetsExt

CONSTANTS
    Asked0,     \* the texts that may be question
    Openings,   \* nlPrefixes: the beginnings of a question, the longest first
    Consts,     \* the names that always have a value
    EnvNames,   \* the names that may be given a value
    MaxDepth    \* how deep primaries may be nested

VARIABLES question, env
calcVars == <<question, env>>

(* Tokens *)
Digit == {"0", "1", "2", "3", "9"}
Letter == {"e", "x", "y", "w", "abs", "mod", "max"}
Space == {" "}
Op == {"+", "-", "*", "/", "%", "^"}
Bracket == "(" :> "open" @@ ")" :> "close" @@ "," :> "comma"

\* The first place from i on that is not in S.
RunEnd(src, i, S) == Min({j \in i..(Len(src) + 1) : j = Len(src) + 1 \/ src[j] \notin S})
Among(src, i, S) == i <= Len(src) /\ src[i] \in S
NumberEnd(src, i) ==
    LET j == RunEnd(src, i, Digit \cup {"."})
        k == IF Among(src, j + 1, {"+", "-"}) THEN j + 2 ELSE j + 1
    IN IF Among(src, j, {"e"}) /\ Among(src, k, Digit) THEN RunEnd(src, k, Digit) ELSE j
StartsNumber(src, i) == src[i] \in Digit \/ (src[i] = "." /\ Among(src, i + 1, Digit))
Token(kind, text, pos) == [kind |-> kind, text |-> text, pos |-> pos]
TokenAt(src, i) ==
    IF StartsNumber(src, i) THEN Token("num", SubSeq(src, i, NumberEnd(src, i) - 1), i)
    ELSE IF src[i] \in Letter THEN Token("ident", SubSeq(src, i, RunEnd(src, i, Letter \cup Digit) - 1), i)
    ELSE Token(IF src[i] \in Op THEN "op" ELSE IF src[i] \in DOMAIN Bracket THEN Bracket[src[i]] ELSE "bad", <<src[i]>>, i)
Lex(src) ==
    LET from[i \in 1..(Len(src) + 1)] ==
            IF i = Len(src) + 1 THEN <<Token("end", <<>>, i)>>
            ELSE IF src[i] \in Space THEN from[i + 1]
            ELSE LET t == TokenAt(src, i) IN <<t>> \o from[i + Len(t.text)]
    IN from[1]

(* Reading *)
Fail(why) == [ok |-> FALSE, why |-> why]
Got(tree, at) == [ok |-> TRUE, tree |-> tree, at |-> at]
Num(text) == [op |-> "num", text |-> text]
Var(name) == [op |-> "var", name |-> name]
Neg(x) == [op |-> "neg", x |-> x]
Bin(op, l, r) == [op |-> op, l |-> l, r |-> r]
CallOf(name, args) == [op |-> "call", name |-> name, args |-> args]
IsOp(t, ops) == t.kind = "op" /\ t.text[1] \in ops

\* The functions, and how many arguments each takes.
Arity == <<"abs">> :> 1..1 @@ <<"mod">> :> 2..2 @@ <<"max">> :> 1..9
Dots(text) == Cardinality({i \in DOMAIN text : text[i] = "."})

Begins(t) == t.kind \in {"num", "ident", "open"}
\* One recursion over the rules; from is a place in the text, or what was read so far.
RECURSIVE Read(_, _, _, _)
Sum(toks, i, d) == Read("terms", toks, Read("factors", toks, Read("signed", toks, i, d), d), d)
MoreTerms(toks, l, d) ==
    IF ~l.ok \/ ~IsOp(toks[l.at], {"+", "-"}) THEN l
    ELSE LET r == Read("factors", toks, Read("signed", toks, l.at + 1, d), d)
         IN IF r.ok THEN Read("terms", toks, Got(Bin(toks[l.at].text[1], l.tree, r.tree), r.at), d) ELSE r
MoreFactors(toks, l, d) ==
    IF ~l.ok \/ ~(IsOp(toks[l.at], {"*", "/", "%"}) \/ Begins(toks[l.at])) THEN l
    ELSE LET op == IF Begins(toks[l.at]) THEN "*" ELSE toks[l.at].text[1]
             r == Read("signed", toks, IF Begins(toks[l.at]) THEN l.at ELSE l.at + 1, d)
         IN IF r.ok THEN Read("factors", toks, Got(Bin(op, l.tree, r.tree), r.at), d) ELSE r
OnlyPrimary(toks, i, d) == Read("primary", toks, i, d)
Exponent(toks, i, d) == Read("signed", toks, i, d)
Power(toks, i, d) ==
    LET l == Read("primary", toks, i, d)
        r == Exponent(toks, l.at + 1, d)
    IN IF ~l.ok \/ ~IsOp(toks[l.at], {"^"}) THEN l
       ELSE IF r.ok THEN Got(Bin("^", l.tree, r.tree), r.at) ELSE r
Unary(toks, i, d) ==
    IF ~IsOp(toks[i], {"+", "-"}) THEN Power(toks, i, d)
    ELSE LET x == Read("signed", toks, i + 1, d) IN IF x.ok /\ toks[i].text = <<"-">> THEN Got(Neg(x.tree), x.at) ELSE x

TooDeep(d) == d > MaxDepth
Given(at, trees) == [ok |-> TRUE, at |-> at, trees |-> trees]
Primary(toks, i, before) ==
    LET d == before + 1
        t == toks[i]
        inner == Sum(toks, i + 1, d)
        args == IF toks[i + 2].kind = "close" THEN Given(i + 2, <<>>) ELSE Read("arguments", toks, Given(i + 2, <<>>), d)
    IN CASE TooDeep(d) -> Fail("deep")
         [] ~TooDeep(d) /\ t.kind = "num" -> IF Dots(t.text) > 1 THEN Fail("position") ELSE Got(Num(t.text), i + 1)
         [] ~TooDeep(d) /\ t.kind = "ident" ->
                IF toks[i + 1].kind # "open" THEN Got(Var(t.text), i + 1)
                ELSE IF t.text \notin DOMAIN Arity THEN Fail("position")
                ELSE IF ~args.ok THEN args
                ELSE IF toks[args.at].kind # "close" \/ Len(args.trees) \notin Arity[t.text] THEN Fail("position")
                ELSE Got(CallOf(t.text, args.trees), args.at + 1)
         [] ~TooDeep(d) /\ t.kind = "open" ->
                IF ~inner.ok THEN inner ELSE IF toks[inner.at].kind # "close" THEN Fail("position") ELSE Got(inner.tree, inner.at + 1)
         [] OTHER -> Fail("position")
Arguments(toks, l, d) ==
    LET x == Sum(toks, l.at, d)
    IN IF ~x.ok THEN x
       ELSE IF toks[x.at].kind = "comma" THEN Read("arguments", toks, Given(x.at + 1, Append(l.trees, x.tree)), d)
       ELSE Given(x.at, Append(l.trees, x.tree))
Read(rule, toks, from, d) ==
    CASE rule = "terms"     -> MoreTerms(toks, from, d)
      [] rule = "factors"   -> MoreFactors(toks, from, d)
      [] rule = "signed"    -> Unary(toks, from, d)
      [] rule = "primary"   -> Primary(toks, from, d)
      [] rule = "arguments" -> Arguments(toks, from, d)
ReadText(src) ==
    LET toks == Lex(src)
        x == Sum(toks, 1, 0)
    IN IF x.ok /\ toks[x.at].kind # "end" THEN Fail("position") ELSE x

(* Values *)
Whole(n) == [ok |-> TRUE, exact |-> TRUE, v |-> n]
Inexact == [ok |-> TRUE, exact |-> FALSE, v |-> 0]
DigitValue == [c \in Digit |-> CASE c = "0" -> 0 [] c = "1" -> 1 [] c = "2" -> 2 [] c = "3" -> 3 [] OTHER -> 9]
Decimal(text) == FoldLeft(LAMBDA n, c : 10 * n + DigitValue[c], 0, text)
\* A number with a fraction, a negative exponent or one of two digits is not taken for a whole one.
NumberValue(text) ==
    LET es == {i \in DOMAIN text : text[i] = "e"}
        e == IF es = {} THEN Len(text) + 1 ELSE Min(es)
        exponent == SelectSeq(SubSeq(text, e + 1, Len(text)), LAMBDA c : c # "+")
    IN IF Len(exponent) > 1 \/ \E i \in DOMAIN text : text[i] = "-" \/ (text[i] = "." /\ i < Len(text) /\ text[i + 1] \in Digit) THEN Inexact
       ELSE Whole(Decimal(SelectSeq(SubSeq(text, 1, e - 1), LAMBDA c : c # ".")) * 10 ^ Decimal(exponent))

AbsValue(n) == IF n < 0 THEN -n ELSE n
Sign(n) == IF n < 0 THEN -1 ELSE 1
\* math.Mod keeps the sign of what is divided.
Mod(l, r) == Sign(l) * (AbsValue(l) % AbsValue(r))
Zero(x) == x.exact /\ x.v = 0
PowerOf(l, r) ==
    IF r.v = 0 THEN Whole(1) ELSE IF r.v > 0 THEN Whole(l.v ^ r.v) ELSE IF AbsValue(l.v) = 1 THEN Whole(IF r.v % 2 = 0 THEN 1 ELSE l.v) ELSE Inexact
Apply2(op, l, r) ==
    CASE op \in {"/", "%"} /\ Zero(r) -> Fail("domain")
      [] ~(op \in {"/", "%"} /\ Zero(r)) /\ ~(l.exact /\ r.exact) -> Inexact
      [] op = "+" /\ l.exact /\ r.exact -> Whole(l.v + r.v)
      [] op = "-" /\ l.exact /\ r.exact -> Whole(l.v - r.v)
      [] op = "*" /\ l.exact /\ r.exact -> Whole(l.v * r.v)
      [] op = "/" /\ l.exact /\ r.exact /\ r.v # 0 -> IF Mod(l.v, r.v) = 0 THEN Whole(Sign(l.v) * Sign(r.v) * (AbsValue(l.v) \div AbsValue(r.v))) ELSE Inexact
      [] op = "%" /\ l.exact /\ r.exact /\ r.v # 0 -> Whole(Mod(l.v, r.v))
      [] op = "^" /\ l.exact /\ r.exact -> PowerOf(l, r)
Apply(name, vals) ==
    IF name = <<"mod">> THEN Apply2("%", vals[1], vals[2])
    ELSE IF \E i \in DOMAIN vals : ~vals[i].exact THEN Inexact
    ELSE IF name = <<"abs">> THEN Whole(AbsValue(vals[1].v)) ELSE Whole(Max({vals[i].v : i \in DOMAIN vals}))

RECURSIVE Worth(_, _)
Worth(tree, e) ==
    CASE tree.op = "num" -> NumberValue(tree.text)
      [] tree.op = "var" -> IF tree.name \in DOMAIN e THEN Whole(e[tree.name]) ELSE IF tree.name \in Consts THEN Inexact ELSE Fail("unknown")
      [] tree.op = "neg" -> LET x == Worth(tree.x, e) IN IF x.ok THEN [x EXCEPT !.v = -@] ELSE x
      [] tree.op = "call" -> LET vals == [i \in DOMAIN tree.args |-> Worth(tree.args[i], e)]
                                 bad == {i \in DOMAIN vals : ~vals[i].ok}
                             IN IF bad # {} THEN vals[Min(bad)] ELSE Apply(tree.name, vals)
      [] OTHER -> LET l == Worth(tree.l, e) r == Worth(tree.r, e)
                  IN IF ~l.ok THEN l ELSE IF ~r.ok THEN r ELSE Apply2(tree.op, l, r)

AllParts(args) == DOMAIN args

RECURSIVE Names0(_)
Names0(tree) ==
    CASE tree.op = "num" -> {}
      [] tree.op = "var" -> {tree.name}
      [] tree.op = "neg" -> Names0(tree.x)
      [] tree.op = "call" -> UNION {Names0(tree.args[i]) : i \in AllParts(tree.args)}
      [] OTHER -> UNION {Names0(<<tree.l, tree.r>>[i]) : i \in AllParts(<<tree.l, tree.r>>)}
Vars(tree) == Names0(tree) \ Consts

Evaluate(src, e) == LET x == ReadText(src) IN IF x.ok THEN Worth(x.tree, e) ELSE x

(* Questions *)
Punctuation == {"=", "?", "!", ".", " "}
TrimEnd(text, S) == SubSeq(text, 1, Max({0} \cup {i \in DOMAIN text : text[i] \notin S}))
TrimStart(text) == SubSeq(text, Min({Len(text) + 1} \cup {i \in DOMAIN text : text[i] # " "}), Len(text))
Trimmed0(text) == TrimEnd(TrimStart(text), {" "})
Candidates(query) ==
    LET asking == SelectSeq(Openings, LAMBDA p : IsPrefix(p, query))
        after == <<query>> \o [i \in DOMAIN asking |-> SubSeq(query, Len(asking[i]) + 1, Len(query))]
        all == FlattenSeq([i \in DOMAIN after |-> <<Trimmed0(after[i]), Trimmed0(TrimEnd(after[i], Punctuation))>>])
    IN FoldLeft(LAMBDA out, c : IF c = <<>> \/ c \in ToSet(out) THEN out ELSE Append(out, c), <<>>, all)

\* The first candidate that is not just unreadable, or short of a variable, settles it.
GoesOnAfter == {"position", "unknown"}
Calculate(query, e) ==
    LET results == [i \in DOMAIN Candidates(query) |-> Evaluate(Candidates(query)[i], e)]
        settled == {i \in DOMAIN results : results[i].ok \/ results[i].why \notin GoesOnAfter}
        short == {i \in DOMAIN results : ~results[i].ok /\ results[i].why = "unknown"}
    IN IF settled # {} THEN results[Min(settled)] ELSE IF short # {} THEN Fail("unknown") ELSE Fail("nothing")

Unasked == <<"unasked">>
CalcInit ==
    /\ question = Unasked
    /\ env \in [EnvNames -> {0, 2}]
AskIt ==
    /\ question = Unasked
    /\ question' \in Asked0
    /\ UNCHANGED env
\* The answer has been given and the box is empty for the next question.
NextQuestion == question # Unasked /\ question' = Unasked /\ UNCHANGED env
CalcNext == AskIt \/ NextQuestion

(* The grammar, said by where a text can be parted *)
RECURSIVE Trees(_, _, _, _), ArgLists(_, _, _)
Parted(toks, i, j, ops, left, right) ==
    UNION {{Bin(toks[k].text[1], l, r) : l \in Trees(toks, left, i, k - 1), r \in Trees(toks, right, k + 1, j)} :
               k \in {m \in (i + 1)..(j - 1) : IsOp(toks[m], ops)}}
\* Two factors side by side, unless the first would be a function's name.
SideBySide(toks, i, j) ==
    UNION {{Bin("*", l, r) : l \in Trees(toks, "product", i, k - 1), r \in Trees(toks, "signed", k, j)} :
               k \in {m \in (i + 1)..j : Begins(toks[m]) /\ ~(toks[m].kind = "open" /\ toks[m - 1].kind = "ident")}}
Bracketed(toks, i, j) == i < j /\ toks[i].kind = "open" /\ toks[j].kind = "close"
AtomTrees(toks, i, j) ==
    {Num(t.text) : t \in {toks[k] : k \in {m \in {i} : i = j /\ toks[m].kind = "num" /\ Dots(toks[m].text) <= 1}}}
    \cup {Var(t.text) : t \in {toks[k] : k \in {m \in {i} : i = j /\ toks[m].kind = "ident"}}}
    \cup (IF Bracketed(toks, i, j) THEN Trees(toks, "sum", i + 1, j - 1) ELSE {})
    \cup (IF i < j /\ toks[i].kind = "ident" /\ toks[i].text \in DOMAIN Arity /\ Bracketed(toks, i + 1, j)
          THEN {CallOf(toks[i].text, args) : args \in {l \in ArgLists(toks, i + 2, j - 1) : Len(l) \in Arity[toks[i].text]}} ELSE {})
ArgLists(toks, i, j) ==
    IF i > j THEN {<<>>}
    ELSE {<<x>> : x \in Trees(toks, "sum", i, j)}
         \cup UNION {{<<x>> \o l : x \in Trees(toks, "sum", i, k - 1), l \in ArgLists(toks, k + 1, j)} :
                         k \in {m \in i..(j - 1) : toks[m].kind = "comma"}}
Trees(toks, level, i, j) ==
    IF i > j THEN {}
    ELSE CASE level = "sum" -> Trees(toks, "product", i, j) \cup Parted(toks, i, j, {"+", "-"}, "sum", "product")
           [] level = "product" -> Trees(toks, "signed", i, j) \cup SideBySide(toks, i, j) \cup Parted(toks, i, j, {"*", "/", "%"}, "product", "signed")
           [] level = "signed" -> LET inner == IF IsOp(toks[i], {"+", "-"}) THEN Trees(toks, "signed", i + 1, j) ELSE {}
                                  IN Trees(toks, "power", i, j) \cup IF toks[i].text = <<"-">> THEN {Neg(x) : x \in inner} ELSE inner
           [] level = "power" -> AtomTrees(toks, i, j) \cup Parted(toks, i, j, {"^"}, "atom", "signed")
           [] level = "atom" -> AtomTrees(toks, i, j)
Meanings(src) == Trees(Lex(src), "sum", 1, Len(Lex(src)) - 1)

(* What should hold, of whatever is asked *)
reading == ReadText(question)
answer == Calculate(question, <<>>)

\* Type: what was read is a tree or a reason, an answer is a value or a reason, and a place in one reading of a question
\* is never the reason given for the whole.
Because == {"deep", "unknown", "domain", "nothing"}
CalcTypeOK ==
    /\ IF reading.ok THEN \A n \in Names0(reading.tree) : n[1] \in Letter ELSE reading.why \in {"position", "deep"}
    /\ IF answer.ok THEN answer.v \in Int /\ (answer.exact \/ answer.v = 0) ELSE answer.why \in Because

\* The tokens are the text without its spaces, and a number or a name is never cut short: nothing longer at its place is
\* a numeral or a name (lex; the e of an exponent is a constant's name when no digit follows it).
Digits(s) == s # <<>> /\ ToSet(s) \subseteq Digit
Mantissa(s) == s # <<>> /\ ToSet(s) \subseteq Digit \cup {"."} /\ (s[1] \in Digit \/ (Len(s) > 1 /\ s[2] \in Digit))
Numeral(s) ==
    Mantissa(s) \/ \E k \in 2..(Len(s) - 1) :
        /\ s[k] = "e" /\ Mantissa(SubSeq(s, 1, k - 1))
        /\ Digits(SubSeq(s, k + 1, Len(s))) \/ (s[k + 1] \in {"+", "-"} /\ Digits(SubSeq(s, k + 2, Len(s))))
Name0(s) == s # <<>> /\ s[1] \in Letter /\ ToSet(s) \subseteq Letter \cup Digit
LongestTokens ==
    LET toks == Lex(question) IN
    /\ FlattenSeq([i \in DOMAIN toks |-> toks[i].text]) = SelectSeq(question, LAMBDA c : c # " ")
    /\ \A i \in DOMAIN toks : LET t == toks[i] IN
        t.kind \in {"num", "ident"} =>
            /\ IF t.kind = "num" THEN Numeral(t.text) ELSE Name0(t.text)
            /\ \A j \in (t.pos + Len(t.text))..Len(question) :
                LET longer == SubSeq(question, t.pos, j) IN IF t.kind = "num" THEN ~Numeral(longer) ELSE ~Name0(longer)

\* Reading by descent finds the one meaning of a text, with the precedences and the side a chain leans to, and refuses
\* what has none; a text is never taken in two ways.
ReadsTheOneMeaning ==
    reading.ok \/ reading.why # "deep" =>
        Meanings(question) = IF reading.ok THEN {reading.tree} ELSE {}

\* maxDepth: a text is refused for its depth just when that many brackets stand open, whether its end was reached or not.
StandOpen(toks, k) == Cardinality({i \in 1..k : toks[i].kind = "open"}) - Cardinality({i \in 1..k : toks[i].kind = "close"})
Nesting(toks) == Max({0} \cup {StandOpen(toks, k) : k \in DOMAIN toks})
DepthIsBounded ==
    /\ reading.ok => Nesting(Lex(question)) < MaxDepth
    /\ ~reading.ok /\ reading.why = "deep" => Nesting(Lex(question)) >= MaxDepth

\* expr.Vars: with a value for each name listed there a text never lacks one, and without one of them it is not evaluated.
VarsAreWhatIsMissing ==
    reading.ok =>
        LET given == [n \in Vars(reading.tree) |-> IF n \in EnvNames THEN env[n] ELSE 1]
            x == Worth(reading.tree, given)
        IN /\ x.ok \/ x.why # "unknown"
           /\ \A n \in Vars(reading.tree) :
               LET short == Worth(reading.tree, Restrict(given, Vars(reading.tree) \ {n})) IN ~short.ok

\* nlp.go:49-54: a text that is an expression has the same answer when it is asked as a question, with a beginning and a
\* mark around it.
WordsAroundDoNotMatter ==
    Evaluate(question, <<>>).ok =>
        /\ answer = Evaluate(question, <<>>)
        /\ \A i \in DOMAIN Openings : \A mark \in {<<>>, <<"?">>, <<" ", "?">>} :
            Calculate(Openings[i] \o question \o mark, <<>>) = answer

\* A sum is cut into the longest tokens and read in the one way its grammar allows or refused, to a bounded depth, with
\* the words of a question left aside (parse.go:159, nlp.go:69, parse.go:255).
SumsMeanOneThing ==
    [][question # Unasked =>
          /\ CalcTypeOK
          /\ LongestTokens
          /\ ReadsTheOneMeaning
          /\ DepthIsBounded
          /\ VarsAreWhatIsMissing
          /\ WordsAroundDoNotMatter]_calcVars
=============================================================================
