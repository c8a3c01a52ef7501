----------------------------- MODULE ChangeFeed -----------------------------
(***************************************************************************)
(* What the Store promises its subscribers, and all a client needs to know *)
(* of the daemon: committed changes form one history, and a subscriber is  *)
(* given that history from where it joined, each change whole, in order    *)
(* and without a gap, until it is dropped.  A subscriber that is dropped   *)
(* is told so and has to join again.                                       *)
(***************************************************************************)
EXTENDS Integers, Sequences

CONSTANTS Changes,   \* what one committed change may touch
          Readers    \* the subscribers

VARIABLES
    history,   \* the changes committed, in order
    place,     \* how many of them each reader has been given; Out if none
    given      \* the last change each reader was given

feedVars == <<history, place, given>>

Out     == -1
Nothing == {}

FeedInit ==
    /\ history = <<>>
    /\ place = [r \in Readers |-> Out]
    /\ given = [r \in Readers |-> Nothing]

Publish(ch) == history' = Append(history, ch) /\ UNCHANGED <<place, given>>

\* A reader joins at the end, or just before a change whose event is on its way.
Join(r) ==
    /\ place[r] = Out
    /\ \E k \in {Len(history), Len(history) - 1} \cap Nat :
         place' = [place EXCEPT ![r] = k]
    /\ UNCHANGED <<history, given>>

Read(r) ==
    /\ place[r] # Out /\ place[r] < Len(history)
    /\ place' = [place EXCEPT ![r] = @ + 1]
    /\ given' = [given EXCEPT ![r] = history[place[r] + 1]]
    /\ UNCHANGED history

Drop(r) ==
    /\ place[r] # Out
    /\ place' = [place EXCEPT ![r] = Out]
    /\ given' = [given EXCEPT ![r] = Nothing]
    /\ UNCHANGED history

FeedNext == \/ \E ch \in Changes : Publish(ch)
            \/ \E r \in Readers : Join(r) \/ Read(r) \/ Drop(r)

FeedSpec == FeedInit /\ [][FeedNext]_feedVars

=============================================================================
