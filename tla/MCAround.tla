------------------------------ MODULE MCAround ------------------------------
(* The parts around the store that share no state with one another, each on a *)
(* small instance for TLC; the initial state says which one a behaviour is    *)
(* about.                                                                     *)
EXTENDS Phone, Runs, Chips, Pulls, Query, Table, MCGhosts, Layout, Menus, Formats, Clipboard, Flash, Calc, TLC

CONSTANTS root, nodeA, nodeB

VARIABLES part, thumb

\* root with the child nodeA.
SmallTable ==
    [n \in Nodes |-> IF n \in {root, nodeA} THEN [name |-> Empty, note |-> Empty, mark |-> Plain, dead |-> FALSE,
                                            parent |-> IF n = nodeA THEN root ELSE NoRow] ELSE NoRow]

\* Bound: what the user and the others do in one behaviour, and how often.
Thumbs == {<<{"typing", "elsewhere"}, 3>>, <<{"typing", "mishaps"}, 3>>, <<{"typing", "rewinding"}, 4>>,
           <<{"typing", "making"}, 3>>, <<{"typing", "noting"}, 3>>, <<{"setting", "mishaps"}, 2>>,
           <<{"setting", "rewinding"}, 2>>, <<{"shaping", "making"}, 2>>, <<{"shaping", "elsewhere"}, 2>>,
           <<{"setting", "elsewhere"}, 2>>}
Uses(group) == moves < thumb[2] /\ group \in thumb[1]
ThumbNext ==
    \/ Uses("elsewhere") /\ Elsewhere
    \/ Uses("mishaps") /\ Mishaps
    \/ Uses("typing") /\ Typing
    \/ Uses("noting") /\ Noting
    \/ Uses("making") /\ Making
    \/ Uses("setting") /\ Setting
    \/ Uses("shaping") /\ Shaping
    \/ Uses("rewinding") /\ Rewinding
    \/ Serving
    \/ OfStore





\* What the service has at first.
Remote(x, y, z, w) == [o \in Objects |-> CASE o = "a" -> x [] o = "b" -> y [] o = "c" -> z [] o = "d" -> w]
SomeRemotes == {Remote(Top, Top, "a", Top), Remote(Top, Away, "a", Away), Remote(Top, Top, "a", Away)}

\* An outline: 1 is the root, 3 is under 2 and 4 under 3.
Node0(up, name, marks, dates, inMemory) == [up |-> up, name |-> name, marks |-> marks, dates |-> dates, loaded |-> inMemory]
SomeNodes == <<Node0(0, <<"b">>, {"t"}, {}, TRUE), Node0(1, <<"a", "b">>, {"t"}, {1, 4}, TRUE),
               Node0(2, <<"b", "a">>, {}, {2}, FALSE), Node0(3, <<"a">>, {"t"}, {3}, FALSE)>>
Query0(hits, crumb, sem) == [hits |-> hits, crumb |-> crumb, sem |-> sem]
SomeQueries == [t \in {"flat", "tree", "meaning", ""} |->
                   CASE t = "flat" -> Query0(<<3, 2, 4>>, FALSE, FALSE) [] t = "tree" -> Query0(<<4, 2>>, TRUE, FALSE)
                     [] t = "meaning" -> Query0(<<4, 2>>, FALSE, TRUE) [] t = "" -> Query0(<<>>, FALSE, FALSE)]

\* Tables: none yet, a ragged one, one with a chip, a divider and a nested outline, one with a locked and a mirrored column,
\* one whose cells store a carriage return that is not shown.
Cell0(n, name, cellKind, nested) ==
    [id |-> n, text |-> name, kind |-> cellKind, inside |-> nested, fixed |-> FALSE, mirror |-> FALSE]
Column0(cells, isLocked, target) == [text |-> <<"x">>, cells |-> cells, locked |-> isLocked, of |-> target]
SomeTables ==
    {<<>>,
     <<Column0(<<Cell0(1, <<"x">>, "plain", FALSE), Cell0(2, <<>>, "plain", FALSE), Cell0(3, <<"x">>, "plain", FALSE)>>, FALSE, 0),
       Column0(<<Cell0(4, <<"x">>, "plain", FALSE)>>, FALSE, 0)>>,
     <<Column0(<<Cell0(1, <<"x">>, "chip", FALSE), Cell0(2, <<>>, "divider", FALSE)>>, FALSE, 0),
       Column0(<<Cell0(3, <<"x">>, "plain", FALSE), Cell0(4, <<>>, "plain", TRUE)>>, FALSE, 0)>>,
     <<Column0(<<Cell0(1, <<"x">>, "plain", FALSE)>>, TRUE, 0),
       Column0(<<Cell0(2, <<"x">>, "plain", FALSE), Cell0(3, <<>>, "plain", FALSE)>>, FALSE, 0), Column0(<<>>, FALSE, 2)>>,
     <<Column0(<<Cell0(1, <<"x", "CR", "x">>, "plain", FALSE), Cell0(2, <<"CR">>, "plain", FALSE)>>, FALSE, 0)>>}
SomeInsertions == {<<"y">>, <<"y", "CR", "y">>}
SomeWidths == UNION {[1..n -> {1, 4, 7, 12}] : n \in 1..3}



\* Rows of one line, of three with a note, of one with a view; outlines that fit and that do not, panels short and long.
Shape(n, name, note, rest, view) == [group |-> n, name |-> name, note |-> note, rest |-> rest, view |-> view]
SomeShapes == {Shape(1, 1, 0, 0, 0), Shape(3, 2, 3, 0, 0)}
Desk0(mainRows, tempRows, rootLines) ==
    [main |-> mainRows, temp |-> tempRows, rootNote |-> rootLines, cursor |-> 1, line |-> 1, atEnd |-> FALSE,
     stash |-> [cursor |-> 1, line |-> 1], inTemp |-> FALSE, mode |-> "outline", items |-> 0, header |-> 0,
     focused |-> FALSE, viewScroll |-> 0, scrolling |-> FALSE, scrollTop |-> 0, viewTop |-> 0, viewRows |-> 1,
     tempScroll |-> 0, panelTop |-> 0, panelSize |-> 0, height |-> 11, bar |-> 1]
ShortDesk == [Desk0(<<Shape(1, 1, 0, 0, 0)>>, <<Shape(1, 1, 0, 0, 0)>>, 0) EXCEPT !.height = 4]
SomeDesks ==
    {ShortDesk, Desk0(<<Shape(1, 1, 0, 0, 0), Shape(3, 2, 3, 0, 0), Shape(1, 1, 0, 2, 9)>>, <<Shape(1, 1, 0, 0, 0)>>, 1),
     Desk0(<<Shape(3, 2, 3, 0, 0), Shape(1, 1, 0, 2, 9)>>, [i \in 1..7 |-> Shape(1, 1, 0, 0, 0)], 0)}

\* A mirror and its row; a query and a row that is locked; notes to open.
Outline0(ids, kinds, sources, names, notes) == [order |-> ids, kind |-> kinds, source |-> sources, name |-> names, note |-> notes]
SomeOutlines ==
    {Outline0(<<"m", "p">>, [p |-> "plain", m |-> "plain"], [p |-> "p", m |-> "p"], [p |-> <<"a", " ", "a">>, m |-> <<>>], [p |-> <<"a">>, m |-> <<>>]),
     Outline0(<<"q", "l">>, [q |-> "query", l |-> "locked"], [q |-> "q", l |-> "l"], [q |-> <<>>, l |-> <<"a">>], [q |-> <<>>, l |-> <<"a">>])}

\* Lines of files, and rows typed into a document that was read.
Line0(in, ws) == [in |-> in, ws |-> ws]
SomeMarkdown ==
    {Line0(0, <<>>), Line0(0, <<"a">>), Line0(0, <<"#", "b">>), Line0(0, <<"##", "c">>), Line0(0, <<"-", "d">>), Line0(2, <<"-", "[x]", "e">>),
     Line0(0, <<"---">>), Line0(0, <<"FENCE">>), Line0(0, <<"$$">>), Line0(0, <<">", "f">>), Line0(0, <<"|", "g", "|", "h", "|">>), Line0(0, <<"|", "---", "|", "---", "|">>),
     Line0(0, <<"<!--", "i", "-->">>), Line0(0, <<"<!--", "nlp:", "j", "-->">>), Line0(0, <<"<!--", "lflow", "barplot:", "k", "-->">>), Line0(4, <<"1.", "l">>)}
SomePython ==
    {Line0(0, <<>>), Line0(0, <<"a">>), Line0(4, <<"b">>), Line0(0, <<"def", "f", ":">>), Line0(2, <<"class", "c", ":">>), Line0(4, <<"#", "DONE", "d">>),
     Line0(8, <<"#", "e">>), Line0(0, <<"s", "TRIPLE">>), Line0(8, <<"TRIPLE">>), Line0(0, <<"#", "lflow", "h1:", "g">>)}
SomeRust ==
    {Line0(0, <<>>), Line0(0, <<"a">>), Line0(0, <<"fn", "f", "{">>), Line0(4, <<"struct", "s", "{">>), Line0(0, <<"if", "c", "{">>), Line0(4, <<"}">>),
     Line0(0, <<"}", "else", "{">>), Line0(2, <<"//", "TODO", "d">>), Line0(0, <<"//", "x", "{">>), Line0(0, <<"}", "}">>)}
Output0 == <<Line0(0, <<"o">>), Line0(0, <<>>), Line0(2, <<"p">>)>>
SomeNewRows ==
    [markdown |-> {Row0(1, type, <<"new">>) : type \in {"text", "bullets", "todo", "quote", "h1", "comment", "fn"}}
                  \cup {[Row0(1, "nlp", <<"new">>) EXCEPT !.out = Output0], [Row0(1, "code", <<>>) EXCEPT !.out = Output0]},
     python |-> {Row0(1, type, <<"new">>) : type \in {"stmt", "fn", "comment", "todo"}}
                \cup {[Row0(1, "nlp", <<"new">>) EXCEPT !.out = Output0], [Row0(1, "code", <<>>) EXCEPT !.out = Output0]},
     rust |-> {Row0(1, type, <<"new">>) : type \in {"stmt", "fn", "comment"}}]

\* An empty row; a branch that holds a mirror of itself; a branch below a mirror of it; rows of other types; a locked branch and a chip.  Each has an empty row.
Board0(below, names, typs, of, locked) ==
    [kids |-> [n \in 0..Len(names) |-> IF n \in DOMAIN below THEN below[n] ELSE <<>>],
     name |-> [n \in 0..Len(names) |-> IF n = 0 THEN <<>> ELSE names[n]],
     typ |-> [n \in 0..Len(names) |-> IF n \in DOMAIN typs THEN typs[n] ELSE "plain"],
     of |-> [n \in 0..Len(names) |-> IF n \in DOMAIN of THEN of[n] ELSE 0], locked |-> locked]
FirstBoard == Board0(0 :> <<1>>, <<<<>>>>, <<>>, <<>>, {})
WithItself == Board0(0 :> <<1, 5>> @@ 1 :> <<2, 4>> @@ 2 :> <<3>>, <<<<"a">>, <<"b", " ", "e">>, <<"c">>, <<>>, <<>>>>, <<>>, 4 :> 1, {})
SomeBoards ==
    {FirstBoard, WithItself,
     Board0(0 :> <<1, 2, 5>> @@ 2 :> <<3>> @@ 3 :> <<4>>, <<<<>>, <<"a">>, <<"b">>, <<"c">>, <<>>>>, <<>>, 1 :> 2, {}),
     Board0(0 :> <<1, 3, 5, 6>> @@ 1 :> <<2>> @@ 3 :> <<4>>, <<<<"a">>, <<"b">>, <<"c">>, <<"d", "NL", "e">>, <<>>, <<>>>>, 1 :> "h1" @@ 2 :> "fn" @@ 3 :> "divider" @@ 4 :> "code" @@ 5 :> "empty", <<>>, {}),
     Board0(0 :> <<1, 3, 4>> @@ 1 :> <<2>>, <<<<"a">>, <<"b">>, <<"c", "[", "k", "]">>, <<>>>>, <<>>, <<>>, {1, 2})}
\* Lines that step in, a list, prose, lines that step back half way, a bulleted list.
PastedTexts ==
    {<<>>, <<<<"p">>, <<" ", " ", "q">>, <<" ", " ", " ", " ", "r">>, <<" ", " ", "s">>, <<"x">>>>,
     <<<<"-", " ", "p">>, <<>>, <<" ", " ", "-", " ", "q">>>>,
     <<<<" ", "DOT", " ", "p">>, <<" ", "q", " ", "r">>>>}

\* Four label letters; rows with repeated and overlapping words, a chip that shows two letters, more matches than single letters.
SomeLetters == <<"a", "s", "d", "f">>
SomeChips == "chip" :> <<"s", "o">>
SomeScreens ==
    {<<>>, <<<<"o", "s", "o", "a">>, <<"chip", "a", "chip">>, <<"a", "a", "a", "s">>, <<"f">>>>,
     <<<<"x", "a", "x", "s", "x", "x", "y", "y", "x">>, <<"a", "chip", "d", "x">>, <<"d", "x", "a", "f">>, <<>>, <<"x", "d">>>>,
     <<<<"a", "a", "x", "a", "x", "x", "x", "a">>, <<"x", "x", "x", "a">>, <<"a", "x", "x", "x", "a">>, <<"x", "x", "x", "a", "x">>>>}

\* Every short text of numerals, every short text of operators and brackets, and longer ones with functions, chains and deep brackets.
SomeSums ==
    SeqOf({"1", ".", "e", "+", " "}, 4) \cup SeqOf({"2", "x", "-", "*", "^", "(", ")"}, 4)
    \cup {<<"2", "^", "3", "^", "2">>, <<"9", "-", "3", "-", "2">>, <<"9", "/", "3", "/", "3">>, <<"2", "^", "-", "1", "x">>, <<"1", "/", "2", "x", "+", "y">>,
          <<"-", "x", "^", "2", "%", "0">>, <<"max", "(", "1", ",", "-", "x", ",", "9", ")", "2">>, <<"mod", "(", "-", "9", ",", "2", ")">>, <<"mod", "(", "9", ",", "0", ")">>,
          <<"abs", "(", "1", ",", "2", ")">>, <<"abs", "(", ")">>, <<"max", "(", "1", ",", ")">>, <<"x", "(", "1", ")">>, <<"abs", " ", "2">>, <<"1", "e", "1", "e">>,
          <<"(", "(", "2", ")", ")", "(", "3", ")">>, <<"(", "(", "(", "2", ")", ")", ")">>, <<"(", "(", "(", "(">>, <<"abs", "(", "(", "abs", "(", "2", ")", ")", ")">>,
          <<"9", "/", "0">>, <<"w", " ", "w", " ", "2">>, <<"1", "/", "2", "%", "0">>, <<"2", "?", "3">>, <<"max", "(", "x", ",", "y", ")">>}
SomeOpenings == <<<<"w", " ", "y", " ">>, <<"w", " ">>>>
SomeConsts == {<<"e">>}
SomeVars == {<<"x">>}

\* The initial choices of one part are not choices of another.
AroundInit ==
    /\ part \in {"phone", "runs", "chips", "pulls", "query", "table", "ghosts", "layout", "menus", "formats", "clip",
             "flash", "calc"}
    /\ thumb \in Thumbs /\ (part = "phone" \/ thumb = <<{"typing", "mishaps"}, 3>>)
    /\ PhoneInit
    /\ RunsInit /\ (part = "runs" \/ (owner.kind = "node"))
    /\ ChipsInit /\ (part = "chips" \/ ((outputs = [c \in ChipIds |-> Unfiled] /\ called = Untitled)))
    /\ PullsInit /\ (part = "pulls" \/ ((service = "zotero" /\ remote = Remote(Top, Top, "a", Top))))
    /\ QueryInit
    /\ TableInit /\ (part = "table" \/ (columns = <<>> /\ sealed))
    /\ GhostsInit
    /\ LayoutInit /\ (part = "layout" \/ (handled = ShortDesk))
    /\ MenuInit /\ (part = "menus" \/ (lines = CHOOSE r \in Outlines : TRUE))
    /\ FormatInit /\ (part = "formats" \/ (format = "markdown"))
    /\ ClipInit /\ (part = "clip" \/ (board = FirstBoard /\ clip = <<>>)) /\ (part = "clip" => clip = <<>> \/ board = WithItself)
    /\ FlashInit /\ (part = "flash" \/ (onScreen0 = <<>>))
    /\ CalcInit /\ (part = "calc" \/ (env = (<<"x">> :> 0)))

AroundNext ==
    /\ UNCHANGED <<part, thumb>>
    /\ IF part = "phone" THEN ThumbNext ELSE UNCHANGED phoneVars
    /\ IF part = "runs" THEN RunsNext ELSE UNCHANGED runsVars
    /\ IF part = "chips" THEN ChipsNext ELSE UNCHANGED chipsVars
    /\ IF part = "pulls" THEN PullsNext ELSE UNCHANGED pullsVars
    /\ IF part = "query" THEN QueryNext ELSE UNCHANGED queryVars
    /\ IF part = "table" THEN TableNext ELSE UNCHANGED tableVars
    /\ IF part = "ghosts" THEN GhostsNext ELSE UNCHANGED ghostsVars
    /\ IF part = "layout" THEN LayoutNext ELSE UNCHANGED layoutVars
    /\ IF part = "menus" THEN MenuNext ELSE UNCHANGED menuVars
    /\ IF part = "formats" THEN FormatNext ELSE UNCHANGED formatVars
    /\ IF part = "clip" THEN ClipNext ELSE UNCHANGED clipVars
    /\ IF part = "flash" THEN FlashNext ELSE UNCHANGED flashVars
    /\ IF part = "calc" THEN CalcNext ELSE UNCHANGED calcVars

AroundSpec == AroundInit /\ [][AroundNext]_<<part, thumb, phoneVars, runsVars, chipsVars, pullsVars, queryVars, tableVars, ghostsVars, layoutVars, menuVars,
    formatVars, clipVars, flashVars, calcVars>>
=============================================================================
