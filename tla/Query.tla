--------------------------------- MODULE Query ---------------------------------
(***************************************************************************)
(* Query nodes (tui/editor/query.go, querytime.go).                        *)
(*                                                                         *)
(* A query is an expression over words, tags, states and dates, with or,   *)
(* and, not and "under"; it is parsed by recursive descent and evaluated   *)
(* to a set of nodes.  Running it streams candidates out of the store,     *)
(* batch by batch, into the editor's loop; each batch and the end of the   *)
(* scan lay mirrors of the hits under the query node.                      *)
(***************************************************************************)
EXTENDS Integers, SequencesExt, FiniteSetsExt

CONSTANTS
    Cands,      \* the outline: for each node its parent (0 for none), name, marks and dates
    Day,        \* length of a day in the units of dates
    Runnable,   \* what a query's text can be: for each, its hits in order, whether it shows paths, and whether it ranks by meaning
    MaxHits,    \* queryMaxHits
    BatchOf,    \* candidates of one batch
    MaxRunSteps, \* bound: what the user does to the query
    MaxQueryRuns \* bound: runs started

ASSUME QueryAssumption == /\ Day \in Nat \ {0} /\ MaxHits \in Nat \ {0} /\ BatchOf \in Nat \ {0}
                          /\ \A n \in DOMAIN Cands : Cands[n].up \in DOMAIN Cands \union {0}

VARIABLES
    asked,   \* the expression that was typed, and what it found
    query,   \* the query node: its text, whether it is still one, the text of its last run
    shown,   \* what is under it: [id, path, hit, own, stored]
    dels,    \* tree.deleted
    load,    \* Model.queryLoad
    scanned, \* the goroutines: for each generation what it sent, its channel and done
    inbound, \* messages on their way to the loop
    laid,    \* ghost: the generation that laid what is shown, and whether it had all it wanted
    querySteps

queryVars == <<asked, query, shown, dels, load, scanned, inbound, laid, querySteps>>
Ids0 == DOMAIN Cands

-----------------------------------------------------------------------------
(* The language.                                                           *)

\* A token and an expression carry words, or a tag or a state, and a day.
Tok(k, v, on) == [k |-> k, v |-> v, on |-> on]
Mark(k) == Tok(k, <<>>, 0)
Expr(is, kids) == [is |-> is, kids |-> kids, v |-> <<>>, on |-> 0]
Atom(is, v, on) == [is |-> is, kids |-> <<>>, v |-> v, on |-> on]
None1 == Atom("none", <<>>, 0)
Grouped1(is, kids) == IF kids = <<>> THEN None1 ELSE IF Len(kids) = 1 THEN kids[1] ELSE Expr(is, kids)
More(kids, e) == IF e = None1 THEN kids ELSE Append(kids, e)
Kind(ts, i) == IF i \in DOMAIN ts THEN ts[i].k ELSE "end"
Atoms == {"tag", "state", "after", "before"}

RECURSIVE ParseOr(_, _), ParsePrimary(_, _), Chain(_, _, _, _), Implicit(_, _, _, _), Args(_, _, _)
\* Each parser returns what it made and where it stopped.
ParseLevel(level, ts, i) == Chain(level, ts, i, <<>>)
\* parseOr, parseAnd and parsePipe differ in the token between, and in the level below.
Levels == <<[token |-> "or", is |-> "or"], [token |-> "and", is |-> "and"], [token |-> "pipe", is |-> "pipe"]>>
Chain(level, ts, i, kids) ==
    LET one == IF level = 3 THEN Implicit(ts, i, <<>>, <<>>) ELSE ParseLevel(level + 1, ts, i)
        all == More(kids, one.e)
    IN IF Kind(ts, one.at) = Levels[level].token THEN Chain(level, ts, one.at + 1, all)
       ELSE [e |-> Grouped1(Levels[level].is, all), at |-> one.at]
ParseOr(ts, i) == ParseLevel(1, ts, i)
\* parseImplicitAnd: words that follow one another are one text.
Flushed(kids, words) == IF words = <<>> THEN kids ELSE Append(kids, Atom("text", words, 0))
Implicit(ts, i, kids, words) ==
    IF Kind(ts, i) \in {"end", "or", "and", "pipe", ")", ","} THEN [e |-> Grouped1("and", Flushed(kids, words)), at |-> i]
    ELSE IF Kind(ts, i) = "word" THEN Implicit(ts, i + 1, kids, words \o ts[i].v)
    ELSE LET p == ParsePrimary(ts, i) IN Implicit(ts, p.at, More(Flushed(kids, words), p.e), <<>>)
\* parsePrimary: a word after "-" is no atom, and is dropped with it.
ParsePrimary(ts, i) ==
    LET k == Kind(ts, i) IN
    CASE k = "not" -> LET p == ParsePrimary(ts, i + 1) IN [e |-> IF p.e = None1 THEN None1 ELSE Expr("not", <<p.e>>), at |-> p.at]
      [] k = "(" -> LET p == ParseOr(ts, i + 1) IN [e |-> p.e, at |-> IF Kind(ts, p.at) = ")" THEN p.at + 1 ELSE p.at]
      [] k \in {"and(", "or("} -> LET p == Args(ts, i + 1, <<>>) IN [e |-> Expr(IF k = "and(" THEN "and" ELSE "or", p.e), at |-> p.at]
      [] k \in Atoms -> [e |-> Atom(k, ts[i].v, ts[i].on), at |-> i + 1]
      [] OTHER -> [e |-> None1, at |-> IF k = "end" THEN i ELSE i + 1]
Args(ts, i, args) ==
    IF Kind(ts, i) \in {")", "end"} THEN [e |-> args, at |-> IF Kind(ts, i) = "end" THEN i ELSE i + 1]
    ELSE LET p == ParseOr(ts, i)
             all == More(args, p.e)
         IN IF Kind(ts, p.at) = "," THEN Args(ts, p.at + 1, all)
            ELSE [e |-> all, at |-> IF Kind(ts, p.at) = ")" THEN p.at + 1 ELSE p.at]

\* underAny: strictly below one of the roots.
RECURSIVE Above1(_)
Above1(n) == IF Cands[n].up = 0 THEN {} ELSE {Cands[n].up} \union Above1(Cands[n].up)
UnderAny(n, roots) == Above1(n) \cap roots # {}
\* scoped: at or under the scope; not the query node or what is under it.
Scoped(exclude, scope) == {n \in Ids0 : n # exclude /\ ~UnderAny(n, {exclude}) /\ (n = scope \/ UnderAny(n, {scope}))}

HasText(name, words) == \E i \in 0 .. Len(name) - Len(words) : SubSeq(name, i + 1, i + Len(words)) = words
\* The day itself is after and before it.
FromOf(e) == IF e.is = "after" THEN e.on * Day ELSE 0
ToOf(e) == IF e.is = "before" THEN e.on * Day + Day - 1 ELSE 100 * Day
IsTime(e) == e.is \in {"after", "before"}
InWindow(C, from, to) == {n \in C : \E d \in Cands[n].dates : from <= d /\ d <= to}
\* Bounds that share an "and" are one window, for one date.
OneWindow(C, times) == InWindow(C, Max({FromOf(times[i]) : i \in DOMAIN times}), Min({ToOf(times[i]) : i \in DOMAIN times}))

RECURSIVE Eval(_, _)
Eval(e, C) ==
    LET of(kids) == [i \in DOMAIN kids |-> Eval(kids[i], C)]
        times == SelectSeq(e.kids, IsTime)
        rest == SelectSeq(e.kids, LAMBDA k : ~IsTime(k))
    IN CASE e.is = "or" -> UNION ToSet(of(e.kids))
         [] e.is = "and" -> IF e.kids = <<>> THEN {}
                            ELSE FoldLeft(LAMBDA hits, s : hits \cap s, IF times = <<>> THEN C ELSE OneWindow(C, times), of(rest))
         [] e.is = "pipe" -> FoldLeft(LAMBDA above, s : {n \in s : UnderAny(n, above)}, Eval(e.kids[1], C), Tail(of(e.kids)))
         [] e.is = "not" -> C \ Eval(e.kids[1], C)
         [] e.is = "text" -> {n \in C : HasText(Cands[n].name, e.v)}
         [] e.is \in {"tag", "state"} -> {n \in C : e.v[1] \in Cands[n].marks}
         [] IsTime(e) -> InWindow(C, FromOf(e), ToOf(e))
         [] OTHER -> {}

-----------------------------------------------------------------------------
(* What an expression means, node by node, and how it is typed.            *)

RECURSIVE Holds(_, _, _), PipeHolds(_, _, _, _)
PipeHolds(kids, k, C, n) == Holds(kids[k], C, n) /\ (k = 1 \/ \E m \in Above1(n) \cap C : PipeHolds(kids, k - 1, C, m))
Holds(e, C, n) ==
    CASE e.is = "or" -> \E i \in DOMAIN e.kids : Holds(e.kids[i], C, n)
      [] e.is \in {"and", "beside"} ->
            LET times == {i \in DOMAIN e.kids : IsTime(e.kids[i])} IN
            /\ \A i \in DOMAIN e.kids \ times : Holds(e.kids[i], C, n)
            /\ times # {} => \E d \in Cands[n].dates : \A i \in times : FromOf(e.kids[i]) <= d /\ d <= ToOf(e.kids[i])
      [] e.is = "pipe" -> PipeHolds(e.kids, Len(e.kids), C, n)
      [] e.is = "not" -> ~Holds(e.kids[1], C, n)
      [] e.is = "text" -> \E i \in 1 .. Len(Cands[n].name) : \A j \in DOMAIN e.v : i + j - 1 <= Len(Cands[n].name) /\ Cands[n].name[i + j - 1] = e.v[j]
      [] e.is \in {"tag", "state"} -> e.v[1] \in Cands[n].marks
      [] OTHER -> \E d \in Cands[n].dates : FromOf(e) <= d /\ d <= ToOf(e)

LevelOf(e) == CASE e.is = "or" -> 1 [] e.is = "and" -> 2 [] e.is = "pipe" -> 3 [] e.is = "beside" -> 4 [] e.is = "text" -> 4 [] OTHER -> 5
RECURSIVE Typed(_)
Within1(e, level) == IF LevelOf(e) > level THEN Typed(e) ELSE <<Mark("(")>> \o Typed(e) \o <<Mark(")")>>
Between(kids, level, token) ==
    FoldLeft(LAMBDA ts, i : ts \o (IF i = 1 THEN <<>> ELSE token) \o Within1(kids[i], level), <<>>, [i \in DOMAIN kids |-> i])
Typed(e) ==
    CASE e.is = "or" -> Between(e.kids, 1, <<Mark("or")>>)
      [] e.is = "and" -> Between(e.kids, 2, <<Mark("and")>>)
      [] e.is = "pipe" -> Between(e.kids, 3, <<Mark("pipe")>>)
      [] e.is = "beside" -> Between(e.kids, 4, <<>>)
      [] e.is = "not" -> <<Mark("not")>> \o Within1(e.kids[1], 4)
      [] e.is = "text" -> [i \in DOMAIN e.v |-> Tok("word", <<e.v[i]>>, 0)]
      [] OTHER -> <<Tok(e.is, e.v, e.on)>>
\* The same as calls: or(a, b), and(a, b).
Called(e) == <<Mark(IF e.is = "or" THEN "or(" ELSE "and(")>> \o Between(e.kids, 0, <<Mark(",")>>) \o <<Mark(")")>>

Simple == {Atom("text", <<"a">>, 0), Atom("text", <<"a", "b">>, 0), Atom("tag", <<"t">>, 0), Atom("after", <<>>, 1), Atom("before", <<>>, 1)}
Twos(S, R) == {Expr(is, <<x, y>>) : is \in {"or", "and", "pipe", "beside"}, x \in S, y \in R} \union {Expr("not", <<x>>) : x \in S}
Exprs == LET one == Twos(Simple, Simple) IN one \union Twos(one, Simple) \union Twos(Simple, one)
Asks1 ==
    /\ asked.ts = <<>> /\ querySteps = 0
    /\ \E e \in Exprs, within \in {<<1, 0>>, <<2, 3>>}, call \in BOOLEAN :
       /\ call => e.is \in {"or", "and"}
       /\ LET ts == IF call THEN Called(e) ELSE Typed(e)
              C == Scoped(within[2], within[1])
          IN asked' = [ts |-> ts, found |-> Eval(ParseOr(ts, 1).e, C), meant |-> {n \in C : Holds(e, C, n)}]
    /\ UNCHANGED <<query, shown, dels, load, scanned, inbound, laid, querySteps>>

-----------------------------------------------------------------------------
(* Laying the hits.  An item's up is the item it is under, 0 for the query. *)

\* queryAncestorPath: the ancestors below the root, from the top.
RECURSIVE PathTo(_)
PathTo(n) == IF Cands[n].up = 0 THEN <<>> ELSE Append(PathTo(Cands[n].up), n)
\* With as(tree) the hits hang below their ancestors.
PathOf1(n, text) == IF Runnable[text].crumb THEN PathTo(n) ELSE <<n>>
Laid(matches, text) == {PathOf1(matches[i], text) : i \in 1 .. Min({Len(matches), MaxHits})}
Prefixes1(paths) == UNION {{SubSeq(p, 1, k) : k \in 1 .. Len(p)} : p \in paths}

Under1(items, ids) ==
    LET grow[S \in SUBSET {i.id : i \in items}] ==
            LET more == S \union {i.id : i \in {j \in items : j.up \in S}} IN IF more = S THEN S ELSE grow[more]
    IN grow[ids]
\* reconcileQueryLevel, level by level: an item for each prefix, the one there is if there is one.
Chosen(items, paths, next) ==
    FoldLeft(LAMBDA acc, p :
                 LET up == IF Len(p) = 1 THEN 0 ELSE acc.at[Front(p)]
                     there == {i \in items : i.up = up /\ i.src = Last(p) /\ ~i.own}
                     id == IF there = {} THEN acc.next ELSE Min({i.id : i \in there})
                 IN [at |-> [q \in DOMAIN acc.at \union {p} |-> IF q = p THEN id ELSE acc.at[q]],
                     items |-> acc.items \union {[id |-> id, up |-> up, src |-> Last(p), hit |-> p \in paths, own |-> FALSE]},
                     next |-> IF there = {} THEN acc.next + 1 ELSE acc.next],
             [at |-> [q \in {} |-> 0], items |-> {}, next |-> next],
             SetToSortSeq(Prefixes1(paths), LAMBDA p, q : Len(p) < Len(q)))
\* What goes is tombstoned with all that is under it.
WithItsOwn(items, stale) == Under1(items, stale)
Reconciled1(matches, text) ==
    LET made == Chosen(shown.items, Laid(matches, text), shown.next)
        kept == {i.id : i \in made.items}
        stale == WithItsOwn(shown.items, {i.id : i \in {j \in shown.items : ~j.own /\ j.id \notin kept /\ j.up \in kept \union {0}}})
    IN /\ shown' = [shown EXCEPT !.items = made.items \union {i \in @ : i.own /\ (i.up = 0 \/ i.up \in kept)}, !.next = made.next]
       /\ dels' = dels \union (stale \cap shown.rows)

-----------------------------------------------------------------------------
(* Running it.                                                             *)

Running1(g) == load # <<>> /\ load[1].gen = g
Close1(g) == [scanned EXCEPT ![g].closed = TRUE]
\* A slip: the scan of the run before is left to itself.
LetsItRun == scanned
\* startQueryLoad; an empty query is over at once.
CancelsTheOld == IF load = <<>> THEN scanned ELSE Close1(load[1].gen)
QueryStep == querySteps < MaxRunSteps /\ querySteps' = querySteps + 1 /\ asked.ts = <<>>
RunQuery ==
    /\ QueryStep /\ query.is /\ Len(scanned) < MaxQueryRuns
    /\ IF Runnable[query.text].hits = <<>>
       THEN /\ Reconciled1(<<>>, query.text) /\ load' = <<>> /\ scanned' = Append(CancelsTheOld, [at |-> 0, ch |-> <<>>, closed |-> FALSE, left |-> TRUE, armed |-> FALSE])
            /\ query' = [query EXCEPT !.ran = query.text] /\ laid' = [gen |-> Len(scanned) + 1, hits |-> <<>>, whole |-> TRUE]
       ELSE /\ load' = <<[gen |-> Len(scanned) + 1, raw |-> query.text, got |-> {n \in Ids0 : Cands[n].loaded}, whole |-> FALSE]>>
            /\ scanned' = Append(CancelsTheOld, [at |-> 0, ch |-> <<>>, closed |-> FALSE, left |-> FALSE, armed |-> TRUE])
            /\ UNCHANGED <<shown, dels, query, laid>>
    /\ UNCHANGED <<asked, inbound>>
\* The goroutine: the next batch, then the end; or the run is no longer wanted.
ScanStep(g) ==
    LET s == scanned[g]
        end == s.at >= Cardinality(Ids0)
        nodes == (s.at + 1 .. s.at + BatchOf) \cap Ids0
    IN /\ ~s.left
       /\ \/ s.ch = <<>> /\ scanned' = [scanned EXCEPT ![g].ch = <<[gen |-> g, kind |-> "batch", nodes |-> nodes, end |-> end]>>, ![g].at = @ + BatchOf, ![g].left = end]
          \/ s.closed /\ scanned' = [scanned EXCEPT ![g].left = TRUE]
       /\ UNCHANGED <<asked, query, shown, dels, load, inbound, laid, querySteps>>
\* waitQueryLoad.
WaitStep(g) ==
    LET s == scanned[g] IN
    /\ s.armed
    /\ \/ s.ch # <<>> /\ inbound' = Append(inbound, s.ch[1]) /\ scanned' = [scanned EXCEPT ![g].ch = <<>>, ![g].armed = FALSE]
       \/ s.closed /\ scanned' = [scanned EXCEPT ![g].armed = FALSE] /\ UNCHANGED inbound
    /\ UNCHANGED <<asked, query, shown, dels, load, laid, querySteps>>

\* evalMatches over what has come so far; meaning waits for all of it.
MatchesIn(text, got, whole) == SelectSeq(Runnable[text].hits, LAMBDA n : n \in got /\ (whole \/ ~Runnable[text].sem))
OfThisRun(g) == Running1(g)
Dropped1 == UNCHANGED <<shown, dels, load, scanned, query, laid>>
TakesBatch(m) ==
    LET now == [load[1] EXCEPT !.got = @ \union m.nodes, !.whole = m.end]
        hits == MatchesIn(now.raw, now.got, FALSE)
    IN IF ~OfThisRun(m.gen) THEN Dropped1 /\ inbound' = Tail(inbound)
       ELSE IF ~query.is THEN load' = <<>> /\ scanned' = Close1(load[1].gen) /\ inbound' = Tail(inbound) /\ UNCHANGED <<shown, dels, query, laid>>
       ELSE /\ load' = <<now>>
            /\ IF m.nodes = {} THEN UNCHANGED <<shown, dels, laid>>
               ELSE Reconciled1(hits, query.text) /\ laid' = [gen |-> load[1].gen, hits |-> hits, whole |-> FALSE]
            /\ IF m.end THEN /\ inbound' = Append(Tail(inbound), [gen |-> m.gen, kind |-> "ready", nodes |-> {}, end |-> TRUE]) /\ UNCHANGED scanned
               ELSE scanned' = [scanned EXCEPT ![m.gen].armed = TRUE] /\ inbound' = Tail(inbound)
            /\ UNCHANGED query
\* handleQueryReady.
TakesMatches(m) ==
    LET hits == MatchesIn(load[1].raw, load[1].got, TRUE) IN
    /\ inbound' = Tail(inbound)
    /\ IF ~OfThisRun(m.gen) THEN Dropped1
       ELSE /\ load' = <<>> /\ UNCHANGED scanned
            /\ IF ~query.is THEN UNCHANGED <<shown, dels, query, laid>>
               ELSE Reconciled1(hits, query.text) /\ query' = [query EXCEPT !.ran = query.text] /\ laid' = [gen |-> m.gen, hits |-> hits, whole |-> TRUE]
Receives1 ==
    /\ inbound # <<>>
    /\ IF Head(inbound).kind = "batch" THEN TakesBatch(Head(inbound)) ELSE TakesMatches(Head(inbound))
    /\ UNCHANGED <<asked, querySteps>>

\* The user meanwhile.
EditQuery(text) == QueryStep /\ query' = [query EXCEPT !.text = text] /\ UNCHANGED <<asked, shown, dels, load, scanned, inbound, laid>>
\* It is deleted or given another type, and back.
RetypeQuery == QueryStep /\ query' = [query EXCEPT !.is = ~@] /\ UNCHANGED <<asked, shown, dels, load, scanned, inbound, laid>>
AddUnder(src) ==
    /\ QueryStep /\ query.is
    /\ shown' = [shown EXCEPT !.items = @ \union {[id |-> shown.next, up |-> 0, src |-> src, hit |-> TRUE, own |-> src = 0]}, !.next = @ + 1]
    /\ UNCHANGED <<asked, query, dels, load, scanned, inbound, laid>>
SaveShown ==
    /\ asked.ts = <<>> /\ shown.rows # {i.id : i \in shown.items}
    /\ shown' = [shown EXCEPT !.rows = (@ \ dels) \union {i.id : i \in shown.items}] /\ dels' = {}
    /\ UNCHANGED <<asked, query, load, scanned, inbound, laid, querySteps>>
QuitQuery ==
    /\ load # <<>> /\ QueryStep
    /\ scanned' = Close1(load[1].gen) /\ load' = <<>> /\ UNCHANGED <<asked, query, shown, dels, inbound, laid>>

QueryInit ==
    /\ asked = [ts |-> <<>>, found |-> {}, meant |-> {}]
    /\ query = [is |-> TRUE, text |-> CHOOSE t \in DOMAIN Runnable : Runnable[t].hits # <<>>, ran |-> CHOOSE t \in DOMAIN Runnable : Runnable[t].hits # <<>>]
    /\ shown = [items |-> {}, next |-> 1, rows |-> {}] /\ dels = {} /\ load = <<>> /\ scanned = <<>> /\ inbound = <<>>
    /\ laid = [gen |-> 0, hits |-> <<>>, whole |-> TRUE] /\ querySteps = 0
QueryNext ==
    \/ Asks1 \/ RunQuery \/ Receives1 \/ RetypeQuery \/ SaveShown \/ QuitQuery
    \/ \E g \in DOMAIN scanned : ScanStep(g) \/ WaitStep(g)
    \/ \E text \in DOMAIN Runnable : EditQuery(text)
    \/ \E src \in {0} \union Ids0 : AddUnder(src)
QuerySpec == QueryInit /\ [][QueryNext]_queryVars

-----------------------------------------------------------------------------
(* Properties.                                                             *)

\* A query finds what it means: "or" binds weakest, then "and", ">" and terms side by side;
\* ">" asks for some ancestor in the scope, bounds that share an "and" for one date within both.
QueryFindsWhatItMeans == asked.found = asked.meant

\* What is shown was laid by the newest run that brought anything: the batches of an older
\* one, and what comes of a run that was given up, change nothing.
NewestRunIsShown == [][laid'.gen >= laid.gen /\ (laid'.gen # laid.gen => laid'.gen = Len(scanned'))]_queryVars

\* When a run lays its hits they are under the query once each, as many as are shown, and
\* nothing else that was generated is; the user's own notes stay.
HitsAreUnderIt ==
    [][laid' # laid =>
        LET hits == {i \in shown'.items : i.hit /\ ~i.own} IN
        /\ {i.src : i \in hits} = {laid'.hits[k] : k \in 1 .. Min({Len(laid'.hits), MaxHits})}
        /\ \A i, j \in {k \in shown'.items : ~k.own} : i.src = j.src /\ i.up = j.up => i = j
        /\ {i \in shown.items : i.own} \subseteq shown'.items]_queryVars

\* A row in the store that is shown no more will be tombstoned, with what hung below it.
GoneRowsAreTombstoned == shown.rows \ {i.id : i \in shown.items} \subseteq dels

\* A scan whose run was replaced or given up is let go: it does not wait for ever on a channel
\* nobody reads.
ScansAreLetGo == \A g \in DOMAIN scanned : ~scanned[g].left /\ ~Running1(g) => scanned[g].closed

\* A query finds what its words mean, shows the hits of its newest run only, tombstones the rows that are no hits any
\* more and lets go of every scan it has started (query.go:270, querytime.go:168, query.go:746).
ResultsAreOfTheQuery ==
    /\ [](QueryFindsWhatItMeans /\ GoneRowsAreTombstoned /\ ScansAreLetGo)
    /\ NewestRunIsShown
    /\ HitsAreUnderIt
=============================================================================
