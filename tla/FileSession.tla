---------------------------- MODULE FileSession ----------------------------
(***************************************************************************)
(* Editing a file as an outline (tui/cli/file/open.go, saveAll and quit of *)
(* tui/editor): the file is read into a scratch database, and every save   *)
(* of the editor writes the document over the file, unless another program *)
(* has touched it.  The file's content and its time of change are one      *)
(* number, 0 where there is no file: two writes never share a time.  What  *)
(* a document says is the number of edits made to it.                      *)
(***************************************************************************)
EXTENDS Integers

CONSTANTS
    MaxEdits,     \* edits in a session
    MaxSaves,     \* saves in a session
    MaxOthers,    \* writes and deletions by other programs
    MaxFailures   \* calls of the operating system that fail

ASSUME FileAssumption == {MaxEdits, MaxSaves, MaxOthers, MaxFailures} \subseteq Nat

ReadAttempts == 3

VARIABLES
    onDisk, last,    \* the file; the last content written to it by anyone
    temp,          \* a temporary file lies beside it
    session,       \* blurred, a ghost in it: the time of its last write is not known to it
    opened0,       \* ghost: the content the document was parsed from
    mine,          \* ghost: the content this session read or wrote last
    written,       \* ghost: the edits that content has
    adopted,       \* ghost: the session took another program's write for its own
    spared,        \* ghost: the tree could not be saved, or was not, when the session ended
    scratch,       \* the scratch database: the edits in it, or gone
    saves, outside, failures
fileVars == <<onDisk, last, temp, session, opened0, mine, written, adopted, spared, scratch, saves, outside, failures>>

Missing == 0
Gone == -1
Opening == {"stat", "read", "again", "parse"}
Saving == {"tree", "check", "create", "fill", "rename", "restat"}
FileInit ==
    /\ onDisk \in {Missing, 1} /\ last = 1 /\ temp = FALSE
    /\ session = [pc |-> "stat", base |-> Missing, seen |-> Missing, got |-> Missing, attempt |-> 1,
                  edits |-> 0, unsaved |-> FALSE, why |-> "none", err |-> FALSE, blurred |-> FALSE]
    /\ opened0 = Missing /\ mine = Missing /\ written = 0 /\ adopted = FALSE /\ spared = FALSE
    /\ scratch = Gone /\ saves = 0 /\ outside = 0 /\ failures = 0

At0(pc) == session.pc = pc
Goes(s) == session' = s
SameFile == UNCHANGED <<onDisk, last, temp>>
SameGhosts == UNCHANGED <<opened0, mine, written, adopted, spared>>
Calm == UNCHANGED <<saves, outside, failures>>
MayFail == failures < MaxFailures
OneFailed == failures' = failures + 1 /\ UNCHANGED <<saves, outside>>

\* The session is over: its scratch database goes, unless the editor ended with an error.
Ends1(s) == [s EXCEPT !.pc = "ended"]
Fails1(s) == [s EXCEPT !.pc = "ended", !.err = TRUE]
KeepsScratch(s) == s.err /\ s.why # "none"
After2(s) == IF s.pc = "ended" /\ ~KeepsScratch(s) THEN Gone ELSE scratch

-----------------------------------------------------------------------------
(* readSource: the time of change before and after the read, three times at most. *)

Stat ==
    /\ At0("stat")
    /\ Goes(IF onDisk = Missing THEN [session EXCEPT !.pc = "parse", !.got = Missing, !.base = Missing]
            ELSE [session EXCEPT !.pc = "read", !.seen = onDisk])
    /\ SameFile /\ SameGhosts /\ Calm /\ UNCHANGED scratch
ReadFile ==
    /\ At0("read")
    /\ Goes(IF onDisk = Missing THEN [session EXCEPT !.pc = "parse", !.got = Missing, !.base = Missing]
            ELSE [session EXCEPT !.pc = "again", !.got = onDisk])
    /\ SameFile /\ SameGhosts /\ Calm /\ UNCHANGED scratch
TriesAgain(attempt) == attempt < ReadAttempts
SameAsBefore(now) == now = session.seen
StatAgain ==
    /\ At0("again")
    /\ Goes(IF onDisk = Missing THEN [session EXCEPT !.pc = "parse", !.got = Missing, !.base = Missing]
            ELSE IF SameAsBefore(onDisk) THEN [session EXCEPT !.pc = "parse", !.base = onDisk]
            ELSE IF TriesAgain(session.attempt) THEN [session EXCEPT !.pc = "stat", !.attempt = @ + 1]
            ELSE Fails1(session))
    /\ SameFile /\ SameGhosts /\ Calm /\ UNCHANGED scratch

\* The rest of runOpen up to the editor: a scratch database with the document.
ParseSource ==
    /\ At0("parse")
    /\ Goes([session EXCEPT !.pc = "edit"])
    /\ scratch' = 0 /\ opened0' = session.got /\ mine' = session.got
    /\ SameFile /\ Calm /\ UNCHANGED <<written, adopted, spared>>

\* Any of these calls fails, for another reason than that there is no file.
OpeningFails ==
    /\ session.pc \in Opening /\ MayFail /\ OneFailed
    /\ Goes(Fails1(session)) /\ SameFile /\ SameGhosts /\ UNCHANGED scratch

-----------------------------------------------------------------------------
(* The session.                                                            *)

EditsIt ==
    /\ At0("edit") /\ session.edits < MaxEdits
    /\ Goes([session EXCEPT !.edits = @ + 1, !.unsaved = TRUE])
    /\ SameFile /\ SameGhosts /\ Calm /\ UNCHANGED scratch
\* Some operation leaves m.err behind.
GoesWrong ==
    /\ At0("edit") /\ ~session.err /\ MayFail /\ OneFailed
    /\ Goes([session EXCEPT !.err = TRUE])
    /\ SameFile /\ SameGhosts /\ UNCHANGED scratch

\* The flush timer, ctrl+s, a menu that reads the database, quitting.
AsksToSave ==
    /\ At0("edit") /\ saves < MaxSaves
    /\ saves' = saves + 1
    /\ \E why \in {"flush", "save", "menu", "quit"} :
        /\ why = "flush" => session.unsaved
        /\ IF why = "quit" /\ session.err
           THEN /\ Goes(Fails1([session EXCEPT !.why = why]))
                /\ scratch' = After2(session')
                /\ spared' = (scratch # session.edits) /\ UNCHANGED <<opened0, mine, written, adopted>>
           ELSE Goes([session EXCEPT !.pc = "tree", !.why = why]) /\ SameGhosts /\ UNCHANGED scratch
    /\ SameFile /\ UNCHANGED <<outside, failures>>

\* What each of them makes of a save that went well, and of one that did not.
SavedWell(s) ==
    IF s.why = "quit" THEN Ends1(s)
    ELSE [s EXCEPT !.pc = "edit", !.unsaved = IF s.why \in {"flush", "save"} THEN FALSE ELSE @]
SavedBadly(s) ==
    IF s.why \in {"quit", "save"} THEN Fails1(s) ELSE [s EXCEPT !.pc = "edit"]

SaveTree ==
    /\ At0("tree")
    /\ \/ /\ scratch' = session.edits
          /\ Goes([session EXCEPT !.pc = "check"]) /\ Calm /\ SameGhosts
       \/ /\ MayFail /\ OneFailed
          /\ Goes(SavedBadly(session)) /\ scratch' = After2(session')
          /\ spared' = (spared \/ (session'.pc = "ended" /\ scratch # session.edits))
          /\ UNCHANGED <<opened0, mine, written, adopted>>
    /\ SameFile

\* writeSource: nobody has made the file, or changed it, since this session read or wrote it.  A
\* stat that fails, for whatever reason, is taken for a file that is not there.
OnlyChanged(now, base) == now = Missing \/ base = Missing \/ now = base
Untouched0(now, base) == now = Missing \/ (base # Missing /\ now = base)
CheckSource ==
    /\ At0("check")
    /\ \/ /\ Goes(IF Untouched0(onDisk, session.base) THEN [session EXCEPT !.pc = "create", !.seen = onDisk]
                  ELSE SavedBadly(session))
          /\ Calm
       \/ MayFail /\ OneFailed /\ Goes([session EXCEPT !.pc = "create", !.seen = Missing])
    /\ scratch' = After2(session')
    /\ SameFile /\ SameGhosts
CreateTemp ==
    /\ At0("create")
    /\ \/ Goes([session EXCEPT !.pc = "fill"]) /\ temp' = TRUE /\ Calm
       \/ MayFail /\ OneFailed /\ Goes(SavedBadly(session)) /\ UNCHANGED temp
    /\ scratch' = After2(session')
    /\ UNCHANGED <<onDisk, last>> /\ SameGhosts
\* Its mode, its text and closing it: whatever fails, it is removed.
FillTemp ==
    /\ At0("fill")
    /\ \/ Goes([session EXCEPT !.pc = "rename"]) /\ Calm /\ UNCHANGED temp
       \/ MayFail /\ OneFailed /\ Goes(SavedBadly(session)) /\ temp' = FALSE
    /\ scratch' = After2(session')
    /\ UNCHANGED <<onDisk, last>> /\ SameGhosts
TempRemains(failed) == FALSE
Rename ==
    /\ At0("rename")
    /\ \/ /\ last' = last + 1 /\ onDisk' = last + 1
          /\ temp' = TempRemains(FALSE)
          /\ mine' = last + 1 /\ written' = session.edits
          /\ Goes([session EXCEPT !.pc = "restat"])
          /\ Calm /\ UNCHANGED <<opened0, adopted, spared, scratch>>
       \/ /\ MayFail /\ OneFailed
          /\ temp' = TempRemains(TRUE)
          /\ Goes(SavedBadly(session)) /\ scratch' = After2(session')
          /\ UNCHANGED <<onDisk, last>> /\ SameGhosts
\* The time the file has now is taken for the time of our own write; without it the save
\* counts as failed, though it is done, and the session still goes by the older time.
Rebased(s, now) == [s EXCEPT !.base = now, !.blurred = FALSE]
Blurred(s) == [s EXCEPT !.blurred = TRUE]
Restat ==
    /\ At0("restat")
    /\ \/ /\ onDisk # Missing /\ Calm
          /\ Goes(SavedWell(Rebased(session, onDisk)))
          /\ adopted' = (adopted \/ onDisk # mine)
       \/ /\ IF onDisk = Missing THEN Calm ELSE MayFail /\ OneFailed
          /\ Goes(SavedBadly(Blurred(session))) /\ UNCHANGED adopted
    /\ scratch' = After2(session')
    /\ SameFile /\ UNCHANGED <<opened0, mine, written, spared>>

\* Other programs, and the end of this one without a word.
AnotherWrites ==
    /\ outside < MaxOthers
    /\ outside' = outside + 1
    /\ \/ onDisk' = last + 1 /\ last' = last + 1
       \/ onDisk # Missing /\ onDisk' = Missing /\ UNCHANGED last
    /\ session.pc \notin {"ended", "crashed"}
    /\ SameGhosts /\ UNCHANGED <<temp, session, scratch, saves, failures>>
CrashSession ==
    /\ session.pc \notin {"ended", "crashed"} /\ MayFail /\ OneFailed
    /\ Goes([session EXCEPT !.pc = "crashed"])
    /\ SameFile /\ SameGhosts /\ UNCHANGED scratch

Reading == Stat \/ ReadFile \/ StatAgain \/ ParseSource \/ OpeningFails
WritingBack == SaveTree \/ CheckSource \/ CreateTemp \/ FillTemp \/ Rename \/ Restat
FileNext == Reading \/ EditsIt \/ GoesWrong \/ AsksToSave \/ WritingBack \/ AnotherWrites \/ CrashSession
FileSpec == FileInit /\ [][FileNext]_fileVars

-----------------------------------------------------------------------------
(* Properties.                                                             *)

FileTypeOK ==
    /\ last \in Nat \ {0} /\ {onDisk, mine, opened0} \subseteq 0..last
    /\ {temp, adopted, spared} \subseteq BOOLEAN
    /\ session \in [pc : Opening \cup Saving \cup {"edit", "ended", "crashed"},
                    base : 0..last, seen : 0..last, got : 0..last, attempt : 1..ReadAttempts,
                    edits : 0..MaxEdits, unsaved : BOOLEAN,
                    why : {"none", "flush", "save", "menu", "quit"}, err : BOOLEAN, blurred : BOOLEAN]
    /\ scratch \in {Gone} \cup 0..MaxEdits /\ written \in 0..session.edits

\* The time the session remembers for the file is that of the content it has parsed (open.go:126):
\* a write that lands while the file is read is never taken for what was read.
BaseIsWhatWasRead == session.pc = "edit" /\ mine = opened0 => session.base = session.got

\* A save replaces only what this session read or wrote itself (open.go:165), but for a write its check has
\* not seen (it landed later, or the stat failed: seen is what the check saw), and one that landed between an
\* earlier save and the look at its time.
OthersAreNotOverwritten ==
    [][session.pc = "rename" /\ onDisk' # onDisk /\ outside' = outside =>
           onDisk \in {Missing, mine} \/ onDisk # session.seen \/ adopted]_fileVars

\* Only another program's write makes a save refuse: the session knows its own, unless the stat after it failed.
RefusesOnlyOthers ==
    [][session.pc = "check" /\ session'.pc \notin {"check", "create", "crashed"} =>
           onDisk # mine \/ session.blurred]_fileVars

\* A session that ends has the edits in the file, when it says so, or else in the database it leaves behind,
\* unless the database could not be written, or was not because an earlier error was still standing.
EndKeepsTheEdits ==
    session.pc = "ended" /\ session.why # "none" =>
        IF session.err THEN scratch # Gone /\ (scratch = session.edits \/ spared)
        ELSE written = session.edits

\* A temporary file lies about only while it is written, or after a crash.
TempIsTakenAway == temp => session.pc \in {"fill", "rename", "crashed"}

(* The inductive invariant behind them.                                    *)

\* While the file is read its content only gets newer, or it is gone.
ReadsForward ==
    /\ session.pc \in Opening => session.why = "none"
    /\ session.pc = "read" => session.seen # Missing /\ (onDisk = Missing \/ onDisk >= session.seen)
    /\ session.pc = "again" => /\ session.got # Missing /\ session.got >= session.seen
                               /\ onDisk = Missing \/ onDisk >= session.got
    /\ session.pc = "parse" => session.base = session.got

Editing == {"edit"} \cup Saving

\* In the editor: the scratch database holds what was saved to it, and all there is once the tree is.
ScratchIsThere ==
    /\ session.pc \in Editing => scratch # Gone
    /\ session.pc \in Saving \ {"tree"} => scratch = session.edits
    /\ session.pc \in Saving => session.why # "none" /\ (session.why = "quit" => ~session.err)
    /\ session.pc = "restat" => mine # opened0 /\ written = session.edits

\* The time it goes by is that of its own content, or of one it has adopted.
BaseIsItsOwn ==
    /\ session.pc \in Editing /\ mine = opened0 => session.base = session.got
    /\ session.pc \in Editing /\ onDisk = session.base => session.base \in {Missing, mine} \/ adopted
    /\ session.pc \in Editing \ {"restat"} /\ onDisk = mine /\ mine # Missing /\ ~session.blurred =>
         session.base = mine
    /\ session.pc \in {"create", "fill", "rename"} /\ onDisk = session.seen =>
         onDisk \in {Missing, mine} \/ adopted

FileInv == FileTypeOK /\ ReadsForward /\ ScratchIsThere /\ BaseIsItsOwn
           /\ EndKeepsTheEdits /\ TempIsTakenAway

\* A save writes over nothing that its check has seen another program write, refuses only for such a change, leaves no
\* temporary file, and a session that ends unsaved keeps the edits in a file of their own (open.go:176, open.go:135,
\* open.go:157).  A check whose stat fails sees nothing, and the save goes on.
SavesLoseNothing ==
    /\ [](FileInv /\ BaseIsWhatWasRead)
    /\ OthersAreNotOverwritten
    /\ RefusesOnlyOthers
=============================================================================
