----------------------------- MODULE MCReview -----------------------------
(* The review queue of MCSuggestions and, sharing no state with it or with    *)
(* one another, the sessions of terminals, the transcripts of agents and the   *)
(* file being edited; the initial state says which one a behaviour is about.  *)
EXTENDS MCSuggestions, Sessions, Mux, FileSession

VARIABLE part

\* What the agents' stores hold: a session in two roots, and more files than are read.
File(i, m, t) == [id |-> i, mod |-> m, at |-> t]
SomeStores == {<<{File(1, 3, 3), File(2, 2, 4), File(1, 1, 1)}, {File(4, 5, 2), File(4, 1, 1)}>>,
               <<{File(1, 4, 4), File(2, 3, 3), File(3, 2, 2), File(4, 1, 5)}, {}>>}

\* The initial choices of one part are not choices of another.
HostInit ==
    /\ part \in {"queue", "sessions", "mux", "file"}
    /\ SuggestInit
    /\ SessionsInit /\ (part = "sessions" \/ (stores = CHOOSE l \in Layouts : TRUE))
    /\ MuxInit
    /\ FileInit /\ (part = "file" \/ (onDisk = Missing))

HostNext ==
    /\ UNCHANGED part
    /\ IF part = "queue" THEN SuggestNext ELSE UNCHANGED <<nodes, sugVars>>
    /\ IF part = "sessions" THEN SessionsNext ELSE UNCHANGED sessionsVars
    /\ IF part = "mux" THEN MuxNext ELSE UNCHANGED muxVars
    /\ IF part = "file" THEN FileNext ELSE UNCHANGED fileVars

HostSpec == HostInit /\ [][HostNext]_<<part, <<nodes, sugVars>>, sessionsVars, muxVars, fileVars>>
=============================================================================
