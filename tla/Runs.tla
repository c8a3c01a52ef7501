--------------------------------- MODULE Runs ---------------------------------
(***************************************************************************)
(* Commands started from the outline (tui/editor/bash.go, cmdchip.go,      *)
(* runout.go, with the sessions of tui/multiplexer and the cases of Update *)
(* in editor.go): the run of one Bash node or one cmd chip.                *)
(*                                                                         *)
(* A session's goroutines pump what its process prints through two         *)
(* channels; a command of the update loop takes one message at a time from *)
(* the second and is issued again by whoever handles it.  Messages name    *)
(* the node or chip, not the session.  What is on a screen is the sequence *)
(* of the batches written to it.                                           *)
(***************************************************************************)
EXTENDS Integers, SequencesExt, FiniteSetsExt

CONSTANTS
    NoBand,     \* the editor knows of no run of this id
    NoScreen,   \* the band has lines of its own (math, markup)
    NoOutput,   \* no row in node_output
    MaxRuns,    \* bound: sessions
    MaxBatches, \* bound: batches a process prints
    MaxKeys     \* bound: what the user does

\* What a screen or a row holds: the batches of sessions, one after the other; and what
\* the editor has of a run.
ScreenTexts == Seq(Nat \X Int)
Bands  == [out : ScreenTexts, scr : ScreenTexts \cup {NoScreen}, live : Nat, loaded : BOOLEAN]

ASSUME RunsAssumption == {MaxRuns, MaxBatches, MaxKeys} \subseteq Nat
ASSUME NothingIsOutput == NoBand \notin Bands /\ {NoScreen, NoOutput} \cap ScreenTexts = {}

VARIABLES
    owner,      \* "node" or "chip", and is it there: what the run is keyed by
    band,       \* runState: out, scr, live (the session cancel kills, 0 if finished) and loaded
    sessions,   \* the sessions so far
    filed,      \* the Manager's record of this id, 0 if none
    readers,    \* waitBashCmd: the commands that wait on the channel of a session
    inbox,      \* messages that have been taken from a channel and not handled
    disk,       \* the row in node_output
    past,       \* the undo stack: what an older picture says of the id
    quitting,
    crossed,    \* ghost: a message of an older session met a newer one, or a stranger
    rewound,    \* ghost: an undo put an older row back
    keys

runsVars == <<owner, band, sessions, filed, readers, inbox, disk, past, quitting, crossed, rewound, keys>>

\* What a session sends: the number of a batch, the end, a launch that failed.
Done  == 0
Error == -1

Ids  == DOMAIN sessions
Live == IF band = NoBand THEN 0 ELSE band.live
\* runState.lines: the screen hides the lines.
Lines(b) == IF b = NoBand THEN <<>> ELSE IF b.scr = NoScreen THEN b.out ELSE b.scr
NewBand    == [out |-> <<>>, scr |-> NoScreen, live |-> 0, loaded |-> FALSE]
Ensured(b) == IF b = NoBand THEN NewBand ELSE b
\* ensureRunOutLoaded.
Loaded(b) == IF Ensured(b).loaded THEN b
             ELSE [Ensured(b) EXCEPT !.loaded = TRUE, !.out = IF disk = NoOutput THEN @ ELSE disk]

RunsInit ==
    /\ owner \in [kind : {"node", "chip"}, there : {TRUE}]
    /\ band = NoBand /\ sessions = <<>> /\ filed = 0 /\ readers = <<>> /\ inbox = <<>>
    /\ disk = NoOutput /\ past = <<>> /\ quitting = FALSE /\ crossed = FALSE /\ rewound = FALSE /\ keys = 0

Key == ~quitting /\ keys < MaxKeys /\ keys' = keys + 1

-----------------------------------------------------------------------------
(* A session: the process, the batcher and forwardMux.                     *)

\* A batch is printed and sent, also after a kill that has not taken effect.
Prints(s) ==
    LET p == sessions[s]
    IN  /\ p.running /\ p.printed < MaxBatches
        /\ sessions' = [sessions EXCEPT ![s].printed = @ + 1, ![s].events = Append(@, p.printed + 1)]
        /\ UNCHANGED <<owner, band, filed, readers, inbox, disk, past, quitting, crossed, rewound, keys>>

\* The process ends by itself, or is killed: then the stream may just close.
Exits(s) ==
    /\ sessions[s].running
    /\ \E last \in {<<Done>>} \cup (IF sessions[s].killed THEN {<<>>} ELSE {}) :
         sessions' = [sessions EXCEPT ![s].running = FALSE, ![s].open = FALSE, ![s].events = @ \o last]
    /\ UNCHANGED <<owner, band, filed, readers, inbox, disk, past, quitting, crossed, rewound, keys>>

\* forwardMux is at the end of the stream.
AtEnd(p) == IF p.events = <<>> THEN ~p.open ELSE Head(p.events) = Done

\* forwardMux sends on, and gives up if the session has been killed.
Forwards(s) ==
    LET p == sessions[s]
        sent == IF AtEnd(p)
                THEN [p EXCEPT !.events = <<>>, !.chan = Append(@, Done), !.forwarding = FALSE]
                ELSE [p EXCEPT !.events = Tail(@), !.chan = Append(@, Head(p.events))]
    IN  /\ p.forwarding /\ (AtEnd(p) \/ p.events # <<>>)
        /\ \/ sessions' = [sessions EXCEPT ![s] = sent]
           \/ p.killed /\ sessions' = [sessions EXCEPT ![s].events = <<>>, ![s].forwarding = FALSE]
        /\ UNCHANGED <<owner, band, filed, readers, inbox, disk, past, quitting, crossed, rewound, keys>>

\* A waiting command gets a message, or nothing from a closed channel.
Taken(s) ==
    LET p == sessions[s]
    IN  /\ readers[s] > 0 /\ (p.chan # <<>> \/ ~p.forwarding)
        /\ readers' = [readers EXCEPT ![s] = @ - 1]
        /\ IF p.chan = <<>> THEN UNCHANGED <<sessions, inbox>>
           ELSE /\ sessions' = [sessions EXCEPT ![s].chan = Tail(@)]
                /\ inbox' = Append(inbox, [of |-> s, says |-> Head(p.chan)])
        /\ UNCHANGED <<owner, band, filed, disk, past, quitting, crossed, rewound, keys>>

-----------------------------------------------------------------------------
(* The editor.                                                             *)

Killed(S) == [s \in Ids |-> IF s \in S THEN [sessions[s] EXCEPT !.killed = TRUE] ELSE sessions[s]]
\* Manager.Drop: the session of the record, if it still runs.
DropKills == {s \in Ids : s = filed /\ sessions[s].running}

\* persistRunOut: an empty band deletes the row.
RowOf(b) == IF Lines(b) = <<>> THEN NoOutput ELSE Lines(b)

\* Mutant: the band is kept in memory only.
KeepsInMemory(b, kills) ==
    /\ band' = [Ensured(b) EXCEPT !.live = 0, !.loaded = TRUE] /\ UNCHANGED disk
    /\ sessions' = Killed(kills \cup DropKills) /\ filed' = 0

\* finishRun, with the row and the preview of the chip.
Finished(b, kills) ==
    /\ band' = [Ensured(b) EXCEPT !.live = 0, !.loaded = TRUE] /\ disk' = RowOf(b)
    /\ sessions' = Killed(kills \cup DropKills) /\ filed' = 0

NewScreen(s) == [Ensured(band) EXCEPT !.live = s, !.loaded = TRUE, !.out = <<>>, !.scr = <<>>]

\* startShellRun; the launch may fail, which is told on the stream.
Start ==
    LET s == Len(sessions) + 1
    IN  /\ s <= MaxRuns
        /\ \E fails \in BOOLEAN :
             sessions' = Append(Killed(DropKills),
                [running |-> ~fails, killed |-> FALSE, printed |-> 0, open |-> ~fails, forwarding |-> TRUE, chan |-> <<>>,
                 events |-> IF fails THEN <<Error, Done>> ELSE <<>>])
        /\ band' = NewScreen(s) /\ filed' = s /\ readers' = Append(readers, 1)
        /\ UNCHANGED disk

\* runShell, from alt+r on the node or the chip: a second press stops the run.
Toggle ==
    /\ Key /\ owner.there
    /\ IF Live # 0 THEN Finished(band, {Live}) /\ UNCHANGED readers ELSE Start
    /\ UNCHANGED <<owner, inbox, past, quitting, crossed>>
    /\ rewound' = FALSE

\* bashBytesMsg, bashLinesMsg: what comes for a finished run is dropped.
Shown(m) ==
    IF Live = 0 THEN UNCHANGED <<band, readers>>
    ELSE /\ band' = IF m.says = Error THEN [band EXCEPT !.out = Append(@, <<m.of, Error>>)]
                    ELSE [band EXCEPT !.scr = Append(@, <<m.of, m.says>>)]
         /\ readers' = [readers EXCEPT ![band.live] = @ + 1]

Handles(i) ==
    LET m == inbox[i]
    IN  /\ ~quitting /\ inbox' = RemoveAt(inbox, i)
        /\ crossed' = (crossed \/ (Live # 0 /\ m.of # Live))
        /\ IF m.says = Done THEN Finished(band, {}) /\ UNCHANGED readers
           ELSE Shown(m) /\ UNCHANGED <<disk, sessions, filed>>
        /\ UNCHANGED <<owner, past, quitting, rewound, keys>>

\* alt+k: stop a run, or clear what it left.
KillKey ==
    /\ Key /\ owner.there
    /\ \/ Live # 0 /\ Finished(band, {Live})
       \/ Live = 0 /\ Lines(band) # <<>>
          /\ band' = [band EXCEPT !.out = <<>>, !.scr = NoScreen, !.loaded = TRUE] /\ disk' = NoOutput
          /\ UNCHANGED <<sessions, filed>>
    /\ UNCHANGED <<owner, readers, inbox, past, quitting, crossed>> /\ rewound' = FALSE

\* What a row shows makes the editor read the band.
Look ==
    /\ ~quitting /\ owner.there /\ Loaded(band) # band /\ band' = Loaded(band)
    /\ UNCHANGED <<owner, sessions, filed, readers, inbox, disk, past, quitting, crossed, rewound, keys>>

Remembered == past' = Append(past, [there |-> owner.there, row |-> disk])

\* The process of a band that goes goes with it.
Reaped == sessions' = Killed({Live} \ {0})

Drops == band' = NoBand /\ disk' = NoOutput

\* deleteNode, by deleteRunOut.
DeleteNode ==
    /\ Key /\ owner = [kind |-> "node", there |-> TRUE] /\ Remembered
    /\ owner' = [owner EXCEPT !.there = FALSE]
    /\ Reaped /\ Drops
    /\ UNCHANGED <<filed, readers, inbox, quitting, crossed>> /\ rewound' = FALSE

\* deleteChipID leaves the run alone.
DeleteChip ==
    /\ Key /\ owner = [kind |-> "chip", there |-> TRUE] /\ Remembered
    /\ owner' = [owner EXCEPT !.there = FALSE] /\ disk' = NoOutput
    /\ UNCHANGED <<band, sessions, filed, readers, inbox, quitting, crossed>> /\ rewound' = FALSE

\* Anything else that is typed.
Type == Key /\ Remembered /\ past = <<>> /\ UNCHANGED <<owner, band, sessions, filed, readers, inbox, disk, quitting, crossed, rewound>>

\* saveCmdEdit: the command of a chip changes, what the old one printed goes.
EditCommand ==
    /\ Key /\ owner = [kind |-> "chip", there |-> TRUE]
    /\ Reaped /\ disk' = NoOutput /\ band' = [NewBand EXCEPT !.loaded = TRUE]
    /\ UNCHANGED <<owner, filed, readers, inbox, past, quitting, crossed>> /\ rewound' = FALSE

\* setNodeType.
SetNodeType ==
    /\ Key /\ owner = [kind |-> "node", there |-> TRUE] /\ band # NoBand
    /\ sessions' = Killed(({Live} \ {0}) \cup (IF Live = 0 THEN {} ELSE DropKills))
    /\ filed' = (IF Live = 0 THEN filed ELSE 0)
    /\ band' = [NewBand EXCEPT !.loaded = TRUE] /\ disk' = NoOutput
    /\ UNCHANGED <<owner, readers, inbox, past, quitting, crossed>> /\ rewound' = FALSE

\* restoreUndoState: a chip's row is put back as it was, a node's is not; a node
\* that goes takes its process along.
TakeBack ==
    LET was == Last(past)
    IN  /\ Key /\ past # <<>> /\ past' = Front(past)
        /\ owner' = [owner EXCEPT !.there = was.there]
        /\ disk' = IF owner.kind = "chip" THEN was.row ELSE disk
        /\ rewound' = (owner.kind = "chip")
        /\ UNCHANGED <<band, sessions, filed, readers, inbox, quitting, crossed>>

\* quit: everything that runs is killed, and nothing that it printed is saved.
Quit ==
    /\ ~quitting /\ quitting' = TRUE
    /\ sessions' = Killed(DropKills \cup ({Live} \ {0}))
    /\ UNCHANGED <<owner, band, filed, readers, inbox, disk, past, crossed, rewound, keys>>

RunsNext ==
    \/ \E s \in Ids : Prints(s) \/ Exits(s) \/ Forwards(s) \/ Taken(s)
    \/ \E i \in DOMAIN inbox : Handles(i)
    \/ Toggle \/ KillKey \/ Look \/ Type \/ DeleteNode \/ DeleteChip \/ EditCommand \/ SetNodeType \/ TakeBack \/ Quit

RunsSpec == RunsInit /\ [][RunsNext]_runsVars

-----------------------------------------------------------------------------
(* Properties.                                                             *)

RunsTypeOK ==
    /\ owner \in [kind : {"node", "chip"}, there : BOOLEAN] /\ filed \in 0..Len(sessions)
    /\ band # NoBand => band.live \in 0..Len(sessions) /\ (band.live # 0 => band.scr # NoScreen)
    /\ DOMAIN readers = Ids /\ \A s \in Ids : readers[s] \in 0..Len(sessions)

\* The band of the last session shows what that session printed, in order, from the
\* start; and all of it, with no gap, once the stream of a run nobody stopped has
\* ended (unless a message of an older session came in between).
BandIsItsOwn ==
    ~crossed /\ band # NoBand /\ sessions # <<>> =>
        LET s == Len(sessions)
        IN  band.scr # NoScreen => /\ \A i \in DOMAIN band.scr : band.scr[i] = <<s, i>>
                                   /\ band.live = 0 /\ ~sessions[s].killed => Len(band.scr) = sessions[s].printed

\* The row of a run that is not in flight is what the editor shows of it, so a
\* restart shows the same, but for a chip whose older row an undo has put back.
RowIsTheBand == owner.there /\ band # NoBand /\ ~rewound /\ Live = 0 /\ band.loaded => disk = RowOf(band)

\* A node that was deleted has no row, whatever its process had still to say.  Of a chip
\* this is not so: its run goes on, and writes the row again when it ends.
NoRowIsLeft == owner = [kind |-> "node", there |-> FALSE] => disk = NoOutput

\* A process that has not been killed is the one of the band, the last that was started:
\* a new run, another type or another command leaves no older one behind.
NothingRunsUnseen ==
    \A s \in Ids : sessions[s].running /\ ~sessions[s].killed => Live = s

\* A run goes on only under a node that is there, where a key stops it, or for a chip.  A chip
\* that is deleted leaves its process running (chip.go:502): nothing shows it any more, and
\* until an undo brings the chip back only quitting stops it.
NodesTakeTheirRuns == Live # 0 => owner.there \/ owner.kind = "chip"

\* A run in flight is read: a command waits on its channel or has brought a message,
\* so that output goes on and the end of the stream ends the run.
RunIsRead == Live # 0 /\ ~quitting => readers[Live] > 0 \/ \E i \in DOMAIN inbox : inbox[i].of = Live

-----------------------------------------------------------------------------
(* Why they hold.  A command that waits, or the message it has brought,    *)
(* is handed on for as long as the run is in flight, and what a session    *)
(* printed is on the screen, in that message, in the channel and in the    *)
(* stream, in this order.                                                  *)

Processes == [running : BOOLEAN, killed : BOOLEAN, open : BOOLEAN, forwarding : BOOLEAN, printed : Nat,
              chan : Seq(Int), events : Seq(Int)]

ShapeInv ==
    /\ sessions \in Seq(Processes)
    /\ \A s \in Ids : sessions[s].running => sessions[s].open /\ \A i \in DOMAIN sessions[s].events : sessions[s].events[i] # Done
    /\ inbox \in Seq([of : Int, says : Int]) /\ \A i \in DOMAIN inbox : inbox[i].of \in Ids
    /\ readers \in Seq(Nat) /\ Len(readers) = Len(sessions)
    /\ quitting \in BOOLEAN /\ crossed \in BOOLEAN /\ rewound \in BOOLEAN

\* The run in flight is the last one, and the one the Manager has on file.
BandInv ==
    /\ band \in Bands \cup {NoBand} /\ filed \in 0..Len(sessions)
    /\ band # NoBand => band.loaded /\ band.live \in {0, Len(sessions)} /\ (band.live # 0 => band.scr # NoScreen)
    /\ Live # 0 => filed = Live

OwnerInv ==
    /\ owner \in [kind : {"node", "chip"}, there : BOOLEAN]
    /\ disk \in (ScreenTexts \ {<<>>}) \cup {NoOutput}
    /\ past \in Seq([there : {TRUE}, row : (ScreenTexts \ {<<>>}) \cup {NoOutput}])
    /\ ~owner.there => past # <<>>
    /\ owner = [kind |-> "node", there |-> FALSE] => Live = 0 /\ Lines(band) = <<>> /\ disk = NoOutput

\* The row is the band's, for a node at any time.
FiledInv ==
    /\ owner.kind = "node" => ~rewound
    /\ band # NoBand /\ Live = 0 /\ (owner.kind = "node" \/ (owner.there /\ ~rewound)) => disk = RowOf(band)

\* There are never more commands and messages than sessions were started: sum has the
\* numbers of the commands added up.
AddsUp(sum, counts) ==
    /\ sum[0] = 0 /\ \A k \in 1..Len(counts) : sum[k] = sum[k - 1] + counts[k]
    /\ \A j, k \in 0..Len(counts) : j <= k => sum[j] <= sum[k]

HandedOn ==
    \E sum \in [0..Len(readers) -> 0..Len(sessions)] :
        AddsUp(sum, readers) /\ sum[Len(readers)] + Len(inbox) <= Len(sessions)

\* One for each session, unless messages have crossed.
OneHandles ==
    ~crossed =>
        /\ \A s \in Ids : readers[s] \in {0, 1} /\ (readers[s] = 1 => \A i \in DOMAIN inbox : inbox[i].of # s)
        /\ \A i, j \in DOMAIN inbox : i # j => inbox[i].of # inbox[j].of

\* The end of the stream of the run in flight is still to come, or on its way.
EndComes ==
    Live # 0 /\ ~quitting =>
        LET p == sessions[Live]
        IN  /\ ~p.killed
            /\ p.forwarding => p.running \/ (p.events # <<>> /\ p.events[Len(p.events)] = Done)
            /\ ~p.forwarding => /\ ~p.running
                               /\ \/ p.chan # <<>> /\ p.chan[Len(p.chan)] = Done
                                  \/ \E i \in DOMAIN inbox : inbox[i].of = Live /\ inbox[i].says = Done

\* A launch that failed has printed nothing, and says so.
FailedRun(s, scr) ==
    LET p == sessions[s]
    IN  /\ p.printed = 0 /\ ~p.running /\ scr = <<>>
        /\ \A i \in DOMAIN p.chan : p.chan[i] \in {Error, Done}
        /\ \A i \in DOMAIN p.events : p.events[i] \in {Error, Done}
        /\ \A i \in DOMAIN inbox : inbox[i].of = s => inbox[i].says \in {Error, Done}

\* What has left the channel.
Left(s, scr) == IF \E i \in DOMAIN inbox : inbox[i].of = s /\ inbox[i].says # Done THEN Len(scr) + 1 ELSE Len(scr)

\* The batches are numbered on from c, then the end comes.
EndsWith(seq, c, printed) ==
    /\ seq # <<>> /\ seq[Len(seq)] = Done /\ c + Len(seq) - 1 = printed
    /\ \A i \in 1..Len(seq) - 1 : seq[i] = c + i

GoodRun(s, scr) ==
    LET p == sessions[s]
        c == Left(s, scr)
    IN  /\ \A i \in DOMAIN inbox : inbox[i].of = s =>
              \/ inbox[i].says = Len(scr) + 1
              \/ inbox[i].says = Done /\ ~p.forwarding /\ p.chan = <<>> /\ ~p.running /\ Len(scr) = p.printed
        /\ p.forwarding => \A i \in DOMAIN p.chan : p.chan[i] = c + i
        /\ p.forwarding /\ p.running =>
              /\ c + Len(p.chan) + Len(p.events) = p.printed
              /\ \A i \in DOMAIN p.events : p.events[i] = c + Len(p.chan) + i
        /\ p.forwarding /\ ~p.running => EndsWith(p.events, c + Len(p.chan), p.printed)
        /\ ~p.forwarding /\ p.chan # <<>> => EndsWith(p.chan, c, p.printed)

OwnStream == Live # 0 /\ ~quitting /\ ~crossed => FailedRun(Live, band.scr) \/ GoodRun(Live, band.scr)

RunsInv ==
    /\ ShapeInv /\ BandInv /\ OwnerInv /\ FiledInv /\ HandedOn /\ OneHandles /\ EndComes /\ OwnStream
    /\ BandIsItsOwn /\ NothingRunsUnseen /\ RunIsRead

\* The output under a node or chip is that of its own last run, in memory as on disk; no process runs but that
\* of the last run, and under a node only while the node is there; and no row outlives its node (bash.go:238,
\* bash.go:78, bash.go:121).  A deleted chip's process and row are the exceptions named above.
RunsAreAccountedFor == /\ RunsTypeOK /\ BandIsItsOwn /\ RowIsTheBand /\ NothingRunsUnseen /\ NodesTakeTheirRuns
                       /\ RunIsRead /\ NoRowIsLeft /\ RunsInv
=============================================================================
