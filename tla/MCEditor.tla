------------------------------ MODULE MCEditor -----------------------------
(* The trees and their undo of MCEditorTree and, sharing no state with them   *)
(* or with one another, the text of a row, its lines and the terminal's       *)
(* screen; the initial state says which one a behaviour is about.             *)
EXTENDS MCEditorTree, Screen, Typing, Wrap

VARIABLE part

SmallScreen == <<2, 3>>
SomeSizes == {SmallScreen, <<3, 2>>, <<1, 2>>}

\* A name of two words with a tag, one with a chip; a note with a chip, an empty one.
SomeNames == {<<"w", "w", " ", "#", "w">>, <<"w", "S", "w">>}
SomeNotes == {<<>>, <<"S", "w">>}
SomeRuns  == {<<[lo |-> 1, hi |-> 4, style |-> {"bold"}]>>, <<>>}

\* Short and long rows, with wide clusters, with a chip that shows one word and one that shows two, on narrow lines.
Page0(upper, lower, wide, deep, oneLine) ==
    [rows |-> <<upper, lower>>, width |-> wide, depth |-> deep, nowrap |-> oneLine,
     shows |-> [g \in {"c", "C"} |-> IF g = "c" THEN <<"w", "w">> ELSE <<"w", " ", "w">>],
     expands |-> [g \in {"c", "C"} |-> 6]]
SomeTexts == {<<"w", "w", " ", "w", "w", " ", "w">>, <<"w", "c", " ", "W", "w", "w">>, <<"w", " ", "C", "w">>, <<>>}
SomePages ==
    {Page0(upper, lower, size[1], size[2], size[3]) : upper \in SomeTexts, lower \in SomeTexts,
       size \in {<<4, 0, FALSE>>, <<5, 0, FALSE>>, <<8, 0, FALSE>>, <<9, 1, FALSE>>, <<5, 1, FALSE>>, <<7, 0, TRUE>>}}
EmptyPage == Page0(<<>>, <<>>, 4, 0, FALSE)

\* The initial choices of one part are not choices of another.
PartInit ==
    /\ part \in {"trees", "screen", "typing", "wrap"}
    /\ HandInit /\ (part = "trees" \/ hand = <<{"typing", "selecting"}, 2>>)
    /\ ScreenInit
    /\ TypingInit /\ (part = "typing" \/ (doc = FirstDoc(<<"w", "S", "w">>, <<>>, <<>>)))
    /\ WrapInit /\ (part = "wrap" \/ (page = EmptyPage))

PartNext ==
    /\ UNCHANGED part
    /\ IF part = "trees" THEN HandNext ELSE UNCHANGED <<vars, hand>>
    /\ IF part = "screen" THEN ScreenNext ELSE UNCHANGED screenVars
    /\ IF part = "typing" THEN TypingNext ELSE UNCHANGED typingVars
    /\ IF part = "wrap" THEN WrapNext ELSE UNCHANGED wrapVars

PartSpec == PartInit /\ [][PartNext]_<<part, <<vars, hand>>, screenVars, typingVars, wrapVars>>
=============================================================================
