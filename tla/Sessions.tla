------------------------------- MODULE Sessions -------------------------------
(***************************************************************************)
(* Reading the sessions that coding agents keep on disk                    *)
(* (tui/editor/agentstore.go, agentdb.go), and the picker that fills while *)
(* they are read (agentpicker.go, async.go).                               *)
(*                                                                         *)
(* A transcript is too long to read: its head, its tail and a scan for     *)
(* names between them are read, in file order.  The walk over all stores   *)
(* is a goroutine that sends batches over a buffered channel; each open of *)
(* the picker starts one, and an older one goes on unheard.                *)
(***************************************************************************)
EXTENDS Integers, SequencesExt, FiniteSetsExt

CONSTANTS
    Limit,      \* agentMetaCap: how much of the head and of the tail is read
    Cap,        \* agentIdentCap: how far the scan for names goes
    MaxRecords, \* bound: records of a transcript
    Width,      \* bound: length of a record
    Layouts,    \* what the stores may hold: a sequence of sets of [id, mod, at]
    FileCap,    \* agentScanCap
    BatchSize,  \* agentScanBatch
    ChanCap,    \* capacity of the channel
    MaxScans    \* bound: times the picker is opened

ASSUME SessionsAssumption == /\ Limit \in Nat \ {0} /\ Cap \in Nat /\ FileCap \in Nat
                             /\ BatchSize \in Nat \ {0} /\ ChanCap \in Nat \ {0} /\ MaxScans \in Nat

VARIABLES
    transcript, \* what is read of one session: the file, and the indexes beside it
    stores,     \* what the stores hold
    scans,      \* one goroutine for each opening: store it is at, batches to send, channel, what it read (ghost)
    heads,      \* for each channel, whether a waitFill is blocked on it
    listing,    \* Model.agentStore
    listed,     \* Model.agentSeen
    filled      \* Model.agentFill.done

sessionsVars == <<transcript, stores, scans, heads, listing, listed, filled>>
Unnamed == ""

-----------------------------------------------------------------------------
(* One transcript.                                                         *)

\* A record: it names the session, recolours it, holds a prompt, the session's id, or
\* an id of its own; "noise" has none of it.
RecordKinds == {"one", "two", "colour", "prompt", "session", "bare", "noise"}
Transcripts == BoundedSeq([kind : RecordKinds, size : 1 .. Width], MaxRecords)
\* The job store has a name and a colour for the session, the registry a name.
Indexes == [job : [name : {"job", Unnamed}, colour : {"red", Unnamed}], registry : [name : {"reg", Unnamed}, colour : {Unnamed}]]

SizeOf(f) == FoldLeft(LAMBDA n, r : n + r.size, 0, f)
EndAt(f, i) == SizeOf(SubSeq(f, 1, i))
StartAt(f, i) == EndAt(f, i - 1)
Where(f, Test(_)) == LET is == SelectSeq([i \in DOMAIN f |-> i], Test) IN [j \in DOMAIN is |-> f[is[j]]]

\* agentReadRecords with a limit: the last line is cut and does not parse.
HeadOf(f) == Where(f, LAMBDA i : EndAt(f, i) <= Limit)
\* agentScanIdents: lines with a mark, from the start again.
Middle(f) == IF SizeOf(f) <= 2 * Limit THEN <<>>
             ELSE Where(f, LAMBDA i : EndAt(f, i) <= Cap /\ f[i].kind \in {"one", "two", "colour"})
\* agentReadTail: the first line is dropped, whole or not.
TailOf(f) == IF SizeOf(f) <= Limit THEN <<>> ELSE Where(f, LAMBDA i : StartAt(f, i) > SizeOf(f) - Limit)

ReadRecords(f) == HeadOf(f) \o Middle(f) \o TailOf(f)

\* The loop of agentReadMeta over the records.
Learned(s, r) ==
    [s EXCEPT !.title  = IF r.kind \in {"one", "two"} \/ (r.kind = "prompt" /\ @ = Unnamed) THEN r.kind ELSE @,
              !.colour = IF r.kind = "colour" THEN "blue" ELSE @,
              !.id     = IF r.kind = "session" \/ (r.kind = "bare" /\ @ = "path") THEN r.kind ELSE @]
ReadMeta(f) == FoldLeft(Learned, [title |-> Unnamed, colour |-> Unnamed, id |-> "path"], ReadRecords(f))

\* mergeIdents: an earlier index wins, field by field.
Merged(job, registry) == [name   |-> IF job.name # Unnamed THEN job.name ELSE registry.name,
                          colour |-> IF job.colour # Unnamed THEN job.colour ELSE registry.colour]
\* applyIdent.
Applied(s, ident) == [s EXCEPT !.title  = IF ident.name # Unnamed THEN ident.name ELSE @,
                               !.colour = IF ident.colour # Unnamed THEN ident.colour ELSE @]

ReadStore == /\ transcript = <<>> /\ scans = <<>>
             /\ \E f \in Transcripts, x \in Indexes : transcript' = <<f, x>>
             /\ UNCHANGED <<stores, scans, heads, listing, listed, filled>>

-----------------------------------------------------------------------------
(* The picker.                                                             *)

\* agentStoreFiles: newest file first, and no more than the cap.
Files(v) == LET fs == SetToSortSeq(stores[v], LAMBDA x, y : x.mod > y.mod)
            IN [i \in 1 .. Min({Len(fs), FileCap}) |-> [store |-> v, id |-> fs[i].id, at |-> fs[i].at]]
Batches(fs) == [k \in 1 .. (Len(fs) + BatchSize - 1) \div BatchSize |->
                  SubSeq(fs, (k - 1) * BatchSize + 1, Min({k * BatchSize, Len(fs)}))]

SessionsInit ==
    /\ transcript = <<>> /\ stores \in Layouts /\ scans = <<>> /\ heads = <<>>
    /\ listing = <<>> /\ listed = {} /\ filled = TRUE

\* openAgentPicker.
OpenPicker == /\ transcript = <<>> /\ Len(scans) < MaxScans
              /\ listing' = <<>> /\ listed' = {} /\ filled' = FALSE
              /\ scans' = Append(scans, [at |-> 1, todo |-> <<>>, chan |-> <<>>, ended |-> FALSE, read |-> {}])
              /\ heads' = Append(heads, TRUE)
              /\ UNCHANGED <<transcript, stores>>

\* scanAgentSessions: it reads a store, sends a batch, sends the end.
Walks(s) ==
    \/ /\ scans[s].todo = <<>> /\ scans[s].at <= Len(stores)
       /\ scans' = [scans EXCEPT ![s].todo = Batches(Files(scans[s].at)), ![s].at = @ + 1,
                                 ![s].read = @ \cup ToSet(Files(scans[s].at))]
    \/ /\ scans[s].todo # <<>> /\ Len(scans[s].chan) < ChanCap
       /\ scans' = [scans EXCEPT ![s].todo = Tail(@), ![s].chan = Append(@, Head(scans[s].todo))]
    \/ /\ scans[s].todo = <<>> /\ scans[s].at > Len(stores) /\ ~scans[s].ended /\ Len(scans[s].chan) < ChanCap
       /\ scans' = [scans EXCEPT ![s].ended = TRUE, ![s].chan = Append(@, <<>>)]
Walk == \E s \in DOMAIN scans : Walks(s) /\ UNCHANGED <<transcript, stores, heads, listing, listed, filled>>

SessionKey(x) == <<x.store, x.id>>
NewOnes(batch, seen) == FoldLeft(LAMBDA acc, x : IF SessionKey(x) \in seen \cup {SessionKey(y) : y \in ToSet(acc)} THEN acc ELSE Append(acc, x),
                             <<>>, batch)

\* sort.SliceStable: newest first, equals in the order they came.
Sorted(xs) == LET before(i, j) == xs[j].at < xs[i].at \/ (xs[i].at = xs[j].at /\ i < j)
                  is == SetToSortSeq(DOMAIN xs, before)
              IN [i \in DOMAIN is |-> xs[is[i]]]

Merges(list, batch) == Sorted(list \o batch)

\* Mutant: the next batch is asked for only when this one had something new.
AsksIfNew(s, batch) == [heads EXCEPT ![s] = NewOnes(batch, listed) # <<>>]
AsksForMore(s, batch) == [heads EXCEPT ![s] = TRUE]

Current(s) == s = Len(scans)

\* waitFill's receive and handleAgentScan.
ReceiveBatch ==
    \E s \in DOMAIN scans :
        /\ heads[s] /\ scans[s].chan # <<>>
        /\ LET batch == scans[s].chan[1] IN
           /\ scans' = [scans EXCEPT ![s].chan = Tail(@)]
           /\ IF ~Current(s) THEN heads' = [heads EXCEPT ![s] = FALSE] /\ UNCHANGED <<listing, listed, filled>>
              ELSE IF batch = <<>> THEN filled' = TRUE /\ heads' = [heads EXCEPT ![s] = FALSE] /\ UNCHANGED <<listing, listed>>
              ELSE /\ listing' = Merges(listing, NewOnes(batch, listed))
                   /\ listed' = listed \cup {SessionKey(x) : x \in ToSet(batch)}
                   /\ heads' = AsksForMore(s, batch) /\ filled' = FALSE
        /\ UNCHANGED <<transcript, stores>>

\* A session goes on while the picker is open: its file and its clock are the newest.
SessionMoves == /\ scans # <<>> /\ \A v \in DOMAIN stores, x \in UNION {stores[v] : v \in DOMAIN stores} : x.at < 9
          /\ \E v \in DOMAIN stores : \E x \in stores[v] :
                stores' = [stores EXCEPT ![v] = (@ \ {x}) \cup {[x EXCEPT !.mod = 9, !.at = 9]}]
          /\ UNCHANGED <<transcript, scans, heads, listing, listed, filled>>

SessionsNext == ReadStore \/ OpenPicker \/ Walk \/ ReceiveBatch \/ SessionMoves
SessionsSpec == SessionsInit /\ [][SessionsNext]_sessionsVars

-----------------------------------------------------------------------------
(* Properties.                                                             *)

\* No read sees the record: it ends behind the head, and begins before or with the
\* line the tail begins in; the scan does not run, or not so far.
Unread(f, i) == /\ EndAt(f, i) > Limit /\ StartAt(f, i) <= SizeOf(f) - Limit
                /\ (SizeOf(f) > 2 * Limit => EndAt(f, i) > Cap)

\* The name of a session is the one it was given last, the first prompt if it has none;
\* an index beside the transcript goes before both, the job store before the registry;
\* but for a name no read sees.
NameIsTheLastOne ==
    transcript # <<>> =>
        LET f == transcript[1]
            x == transcript[2]
            names == {i \in DOMAIN f : f[i].kind \in {"one", "two"} /\ ~Unread(f, i)}
            asked == {i \in DOMAIN f : f[i].kind = "prompt" /\ (EndAt(f, i) <= Limit \/ StartAt(f, i) > SizeOf(f) - Limit)}
            s == Applied(ReadMeta(f), Merged(x.job, x.registry))
        IN IF x.job.name # Unnamed THEN s.title = x.job.name
           ELSE IF x.registry.name # Unnamed THEN s.title = x.registry.name
           ELSE IF names # {} THEN s.title = f[Max(names)].kind
           ELSE s.title = IF asked # {} THEN "prompt" ELSE Unnamed

\* A record's own id is never taken for the session's when a record with the session's
\* was read, and a colour is kept whatever names the session.
IdIsTheSessions ==
    transcript # <<>> =>
        LET f == transcript[1]
            s == Applied(ReadMeta(f), Merged(transcript[2].job, transcript[2].registry))
            seen(k) == \E i \in DOMAIN f : f[i].kind = k /\ ~Unread(f, i) /\ (k = "colour" \/ SizeOf(f) <= Limit)
        IN /\ seen("session") => s.id = "session"
           /\ (seen("colour") /\ transcript[2].job.colour = Unnamed) => s.colour = "blue"
           /\ transcript[2].job.colour # Unnamed => s.colour = "red"

\* The picker that is open never stops before the end: its walk can go on, or what it
\* sent is being waited for.
PickerIsNeverStuck ==
    scans # <<>> /\ ~filled =>
        LET s == Len(scans) IN heads[s] /\ (scans[s].chan # <<>> \/ (~scans[s].ended /\ Len(scans[s].chan) < ChanCap))

\* Newest first at every moment, and at the end every session this scan read, once, and
\* nothing from a scan before it.
ListIsThisScan ==
    scans # <<>> =>
        LET read == scans[Len(scans)].read IN
        /\ \A i, j \in DOMAIN listing : i < j => listing[i].at >= listing[j].at /\ SessionKey(listing[i]) # SessionKey(listing[j])
        /\ ToSet(listing) \subseteq read
        /\ filled => {SessionKey(x) : x \in ToSet(listing)} = {SessionKey(x) : x \in read}

\* A session is listed under its last name and its own id, each scan shows what it read itself, and the picker never
\* waits for a scan that waits for it (async.go:47, agentstore.go:286, agentstore.go:304).
AgentsAreFound == NameIsTheLastOne /\ IdIsTheSessions /\ PickerIsNeverStuck /\ ListIsThisScan
=============================================================================
