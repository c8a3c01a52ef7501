---------------------------------- MODULE Mux ----------------------------------
(***************************************************************************)
(* Sessions on pseudo terminals (multiplexer/session.go, mux.go,           *)
(* queries.go, detect.go; cli/mux drives one).                             *)
(*                                                                         *)
(* Each session has a process, a reader that takes chunks off its terminal *)
(* and answers queries on the way, a collector that batches chunks into    *)
(* events, and an owner that drains them.  Killing a session cancels its   *)
(* context, on which every one of them may leave.  The bytes of a process  *)
(* are numbered; the manager files sessions by id.                         *)
(***************************************************************************)
EXTENDS Integers, SequencesExt, FiniteSetsExt

CONSTANTS
    MuxIds,      \* ids of sessions: nodes and commands
    NoSession,   \* for the manager's map
    MaxBytes,    \* bound: bytes the processes print
    MaxSessions, \* bound: sessions started
    ChunkCap,    \* capacity of the channel of chunks
    EventCap,    \* capacity of the channel of events
    BatchCap,    \* batchCap: bytes at which a batch ships at once
    Overlap,     \* qaOverlap: bytes kept of what was scanned
    Replies,     \* bound: lengths of the queries a stream may hold, 1 for plain text
    MaxQueries,  \* bound: length of such a stream
    IdleConfirmAfter, \* idleConfirmAfter, in ticks of the agentStatus timer
    MaxTicks     \* bound: ticks

ASSUME MuxAssumption == /\ {ChunkCap, EventCap, BatchCap, Overlap} \subseteq Nat \ {0}
                        /\ Replies \subseteq 1 .. Overlap + 1 /\ IdleConfirmAfter \in Nat \ {0}
                        /\ NoSession \notin Nat /\ MaxQueries \in Nat

VARIABLES
    filedMux,    \* Manager.sessions
    muxes,    \* the sessions started
    queries, \* what the answerer was given, in chunks, and what it queries
    agentStatus    \* the agentStatus of one session and what was read of its screen

muxVars == <<filedMux, muxes, queries, agentStatus>>

-----------------------------------------------------------------------------
(* Sessions.                                                               *)

\* pty: printed and not yet read.  collector: what it is at.  got: what the owner drained.
NewSession(id) ==
    [id |-> id, process |-> TRUE, printed |-> 0, pty |-> <<>>, reader |-> TRUE, chunks |-> <<>>, batch |-> <<>>,
     collector |-> "collect", alive |-> TRUE, events |-> <<>>, exited |-> FALSE, cancelled |-> FALSE, got |-> <<>>, ended |-> FALSE]
FailedSession(id) ==
    [NewSession(id) EXCEPT !.process = FALSE, !.reader = FALSE, !.collector = "closed", !.exited = TRUE,
                           !.events = <<[done |-> FALSE, data |-> <<>>], [done |-> TRUE, data |-> <<>>]>>]
LiveAt(id) == filedMux[id] # NoSession /\ ~muxes[filedMux[id]].exited

\* Manager.Start: a session that lives is given back.
NoneLives(id) == ~LiveAt(id)
StartMux(id) ==
    /\ NoneLives(id) /\ Len(muxes) < MaxSessions
    /\ \E new \in {NewSession(id), FailedSession(id)} : muxes' = Append(muxes, new)
    /\ filedMux' = [filedMux EXCEPT ![id] = Len(muxes) + 1]
    /\ UNCHANGED <<queries, agentStatus>>
\* Manager.Drop and Remove: Remove is for a session that is over.
Killed1(sessions) == [i \in DOMAIN muxes |-> IF i \in sessions /\ ~muxes[i].exited THEN [muxes[i] EXCEPT !.cancelled = TRUE] ELSE muxes[i]]
Kills(sessions) == Killed1(sessions)
Drop(id) ==
    /\ filedMux[id] # NoSession
    /\ muxes' = Kills({filedMux[id]})
    /\ filedMux' = [filedMux EXCEPT ![id] = NoSession]
    /\ UNCHANGED <<queries, agentStatus>>
KillAll ==
    /\ muxes' = Killed1({filedMux[id] : id \in {j \in MuxIds : filedMux[j] # NoSession}}) /\ muxes' # muxes
    /\ UNCHANGED <<filedMux, queries, agentStatus>>

At(i, new) == muxes' = [muxes EXCEPT ![i] = new] /\ UNCHANGED <<filedMux, queries, agentStatus>>

\* The process prints, and ends; it is killed when the context is cancelled.
ProgramPrints(i) ==
    /\ muxes[i].process /\ FoldLeft(LAMBDA n, m : n + m.printed, 0, muxes) < MaxBytes
    /\ At(i, [muxes[i] EXCEPT !.printed = @ + 1, !.pty = Append(@, muxes[i].printed + 1)])
ProgramEnds(i) == muxes[i].process /\ At(i, [muxes[i] EXCEPT !.process = FALSE])

\* The reader: a chunk goes into the channel, or the context is done.
CanRead(m) == m.reader /\ Len(m.chunks) < ChunkCap /\ m.pty # <<>>
Reads1(i) ==
    LET m == muxes[i] IN
    /\ CanRead(m)
    /\ \E n \in 1 .. Len(m.pty) :
           At(i, [m EXCEPT !.chunks = Append(@, SubSeq(m.pty, 1, n)), !.pty = SubSeq(@, n + 1, Len(@))])
\* The end of the terminal, or it was closed: the channel of chunks is closed.
CanHangUp(m) == m.reader /\ ((~m.process /\ m.pty = <<>>) \/ m.cancelled)
ReaderLeaves(i) == CanHangUp(muxes[i]) /\ At(i, [muxes[i] EXCEPT !.reader = FALSE])

\* A full channel blocks; the context lets the sender go.
Sends(m, event) == [m EXCEPT !.events = Append(@, event)]
HasRoom(m) == Len(m.events) < EventCap
Flushes(m, next) == [Sends(m, [done |-> FALSE, data |-> m.batch]) EXCEPT !.batch = <<>>, !.collector = next]
Abandons(m) == [m EXCEPT !.batch = <<>>, !.alive = FALSE, !.collector = "wait"]
CanTake(m) == m.collector = "collect" /\ m.chunks # <<>>
TakeChunk(i) ==
    LET m == muxes[i]
        full == [m EXCEPT !.batch = @ \o Head(m.chunks), !.chunks = Tail(@)]
    IN /\ CanTake(m)
       /\ At(i, [full EXCEPT !.collector = IF Len(full.batch) >= BatchCap THEN "flush" ELSE "collect"])
CanTick(m) == m.collector = "collect" /\ m.batch # <<>>
TickFlush(i) == CanTick(muxes[i]) /\ At(i, [muxes[i] EXCEPT !.collector = "flush"])
CanFlush(m) == m.collector = "flush" /\ (HasRoom(m) \/ m.cancelled)
Flush(i) ==
    LET m == muxes[i] IN
    /\ CanFlush(m)
    /\ \/ HasRoom(m) /\ At(i, Flushes(m, "collect"))
       \/ m.cancelled /\ At(i, Abandons(m))
LastFlush(m) == IF m.batch = <<>> THEN [m EXCEPT !.collector = "wait"] ELSE Flushes(m, "wait")
NoneToCome(m) == ~m.reader /\ m.chunks = <<>>
\* The channel of chunks is closed and empty, or the context is done.
CanLeave(m) == m.collector = "collect" /\ (m.cancelled \/ (NoneToCome(m) /\ (HasRoom(m) \/ m.batch = <<>>)))
CollectorLeaves(i) ==
    LET m == muxes[i] IN
    /\ CanLeave(m)
    /\ \/ NoneToCome(m) /\ (HasRoom(m) \/ m.batch = <<>>) /\ At(i, LastFlush(m))
       \/ NoneToCome(m) /\ m.cancelled /\ At(i, [m EXCEPT !.batch = <<>>, !.collector = "wait"])
       \/ m.cancelled /\ At(i, Abandons(m))
\* The process is waited for; a killed one has been killed.
CanReap(m) == m.collector = "wait" /\ ~m.process
Waits(i) ==
    LET m == muxes[i] IN
    /\ CanReap(m)
    /\ At(i, [m EXCEPT !.exited = TRUE, !.collector = IF m.alive THEN "done" ELSE "closed"])
CanSayDone(m) == m.collector = "done" /\ (HasRoom(m) \/ m.cancelled)
SendsDone(i) ==
    LET m == muxes[i] IN
    /\ CanSayDone(m)
    /\ \/ HasRoom(m) /\ At(i, [Sends(m, [done |-> TRUE, data |-> <<>>]) EXCEPT !.collector = "closed"])
       \/ m.cancelled /\ At(i, [m EXCEPT !.collector = "closed"])
\* The owner: bytes for the screen, or the end.
Drains(i) ==
    LET m == muxes[i] IN
    /\ m.events # <<>>
    /\ At(i, [m EXCEPT !.events = Tail(@), !.got = @ \o Head(m.events).data, !.ended = @ \/ Head(m.events).done])
GoesOn(i) == Reads1(i) \/ ReaderLeaves(i) \/ TakeChunk(i) \/ TickFlush(i) \/ Flush(i) \/ CollectorLeaves(i) \/ Waits(i) \/ SendsDone(i)
\* What one of them waits for has come.
CanGoOn(m) == CanRead(m) \/ CanHangUp(m) \/ CanTake(m) \/ CanTick(m) \/ CanFlush(m) \/ CanLeave(m) \/ CanReap(m) \/ CanSayDone(m)
OfSession(i) == ProgramPrints(i) \/ ProgramEnds(i) \/ GoesOn(i) \/ Drains(i)

-----------------------------------------------------------------------------
(* Answering queries, wherever the chunks are cut.  A byte is <<k, j>>, the *)
(* j-th of the k-th query.                                                  *)

StreamOf(lengths) == FlattenSeq([k \in DOMAIN lengths |-> [j \in 1 .. lengths[k] |-> <<k, j>>]])
\* Where in buf a query starts and ends.
Matches(buf, lengths) ==
    {m \in (DOMAIN buf) \X (DOMAIN buf) :
        /\ m[1] <= m[2] /\ buf[m[1]][2] = 1 /\ buf[m[2]] = <<buf[m[1]][1], lengths[buf[m[1]][1]]>>
        /\ lengths[buf[m[1]][1]] > 1}
\* A slip: what is kept of the chunk before is matched again.
AllMatches(matches, seen) == matches
NewMatches(matches, seen) == {m \in matches : m[2] > seen}
\* queryAnswerer.scan.
Scan(a, chunk) ==
    LET buf == a.pend \o chunk
        new == NewMatches(Matches(buf, a.lengths), Len(a.pend))
    IN [a EXCEPT !.pend = SubSeq(buf, (IF Len(buf) > Overlap THEN Len(buf) - Overlap + 1 ELSE 1), Len(buf)),
                 !.answers = [k \in DOMAIN @ |-> @[k] + Cardinality({m \in new : buf[m[1]][1] = k})],
                 !.rest = SubSeq(@, Len(chunk) + 1, Len(@))]
GivesStream ==
    /\ queries.lengths = <<>> /\ muxes = <<>>
    /\ \E lengths \in BoundedSeq(Replies, MaxQueries) :
         queries' = [lengths |-> lengths, rest |-> StreamOf(lengths), pend |-> <<>>, answers |-> [k \in DOMAIN lengths |-> 0]]
    /\ UNCHANGED <<filedMux, muxes, agentStatus>>
Scans == \E n \in 1 .. Len(queries.rest) : queries' = Scan(queries, SubSeq(queries.rest, 1, n)) /\ UNCHANGED <<filedMux, muxes, agentStatus>>

-----------------------------------------------------------------------------
(* The agentStatus: an idle reading without chrome on the screen must hold.      *)

Readings == [raw : {"working", "blocked"}, visible : {TRUE}] \union [raw : {"idle"}, visible : BOOLEAN]
Confirmed(st, raw) == [st EXCEPT !.candidate = raw]
Updated(st, r) ==
    IF r.raw = st.is THEN Confirmed(st, r.raw)
    ELSE IF r.visible \/ r.raw # "idle" THEN [st EXCEPT !.is = r.raw, !.candidate = r.raw]
    ELSE IF st.candidate # r.raw THEN [st EXCEPT !.candidate = r.raw, !.at = st.now]
    ELSE IF st.now - st.at >= IdleConfirmAfter THEN [st EXCEPT !.is = "idle"] ELSE st
UpdateStatus == \E r \in Readings :
    /\ agentStatus.now < MaxTicks /\ muxes = <<>> /\ queries.lengths = <<>>
    /\ agentStatus' = [Updated([agentStatus EXCEPT !.now = @ + 1], r) EXCEPT
                     !.busy = IF r.raw # "idle" THEN agentStatus.now + 1 ELSE @,
                     !.seen = (r.raw = "idle" /\ (r.visible \/ @))]
    /\ UNCHANGED <<filedMux, muxes, queries>>

-----------------------------------------------------------------------------
MuxInit ==
    /\ filedMux = [id \in MuxIds |-> NoSession] /\ muxes = <<>>
    /\ queries = [lengths |-> <<>>, rest |-> <<>>, pend |-> <<>>, answers |-> <<>>]
    /\ agentStatus = [is |-> "working", candidate |-> "working", at |-> 0, now |-> 0, busy |-> 0, seen |-> FALSE]
MuxNext ==
    \/ (queries.lengths = <<>> /\ agentStatus.now = 0 /\ \E id \in MuxIds : StartMux(id) \/ Drop(id))
    \/ KillAll
    \/ \E i \in DOMAIN muxes : OfSession(i)
    \/ (agentStatus.now = 0 /\ GivesStream) \/ Scans \/ UpdateStatus
MuxSpec == MuxInit /\ [][MuxNext]_muxVars

-----------------------------------------------------------------------------
(* Properties.                                                             *)

\* What the owner drained is what the process printed, from the first byte on, in order, and
\* all of it when the session's end is seen of a session nobody killed.
DeliveredInFull ==
    \A i \in DOMAIN muxes : LET m == muxes[i] IN
        /\ m.got = [k \in 1 .. Len(m.got) |-> k]
        /\ m.ended /\ ~m.cancelled => Len(m.got) = m.printed

\* No session runs that the manager does not know, unless it was killed; and none is alone
\* with an id another living one has: quitting the program ends them all.
NoneRunsUnknown ==
    \A i \in DOMAIN muxes : ~muxes[i].exited /\ ~muxes[i].cancelled => filedMux[muxes[i].id] = i

\* Of a session that was killed, or whose process is over, some goroutine can go on until the
\* channel is closed: neither a full channel nor a process that prints on keeps it for ever.
EverySessionEnds ==
    \A i \in DOMAIN muxes :
        /\ ~muxes[i].process /\ muxes[i].collector # "closed" /\ (muxes[i].cancelled \/ muxes[i].events = <<>>)
        => CanGoOn(muxes[i])

\* Every query that was read whole is queries, and queries once, wherever the reads cut the
\* stream.
EachQueryAnsweredOnce ==
    \A k \in DOMAIN queries.lengths :
        queries.answers[k] = (IF queries.lengths[k] > 1 /\ Len(queries.rest) <= Len(StreamOf(SubSeq(queries.lengths, k + 1, Len(queries.lengths)))) THEN 1 ELSE 0)

\* A session that was busy is shown idle only after readings of idle alone for as long as
\* idleConfirmAfter, or once its prompt was seen.
IdleIsConfirmed == agentStatus.is = "idle" => agentStatus.seen \/ agentStatus.now - agentStatus.busy >= IdleConfirmAfter

\* What a program wrote before it ended is delivered, each of its queries is answered once wherever the reads cut it,
\* idleness is reported once confirmed, and no session runs that the multiplexer has forgotten (queries.go:45,
\* session.go:219, session.go:107).
TerminalsAreServed ==
    /\ DeliveredInFull
    /\ NoneRunsUnknown
    /\ EverySessionEnds
    /\ EachQueryAnsweredOnce
    /\ IdleIsConfirmed
=============================================================================
