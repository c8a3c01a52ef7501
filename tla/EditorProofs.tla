----------------------------- MODULE EditorProofs -----------------------------
(***************************************************************************)
(* Three parts of the editor: the file session, which saves a file that    *)
(* other programs write too, the records behind the anchors of chips and   *)
(* sessions, and the menus that open over the text.                        *)
(*                                                                         *)
(* A save loses nothing that it could know of, for every number of edits,  *)
(* saves and failures.  An anchor keeps its record, for any number of      *)
(* chips, sessions and texts a CLI may give them, and any depth of undo: a *)
(* record is written and deleted at once and a text is saved later, so     *)
(* what keeps it is what the pictures on the undo stack hold: a picture is *)
(* whole, each of its anchors is known in it, and each of its sessions is  *)
(* filed in it as the CLI called it.  A menu takes back what it typed, for *)
(* every outline, any length of its texts and any number of keys: the text *)
(* under it is the old one with what was typed in one place, from where it *)
(* was opened to the caret.                                                *)
(***************************************************************************)
EXTENDS FileSession, Chips, Menus, NumberProofs

-----------------------------------------------------------------------------
(* The file session.                                                       *)

FilePc == Opening \cup Saving \cup {"edit", "ended", "crashed"}
Whys == {"none", "flush", "save", "menu", "quit"}
SessionRec(times) == [pc : FilePc, base : times, seen : times, got : times, attempt : 1..ReadAttempts,
                      edits : 0..MaxEdits, unsaved : BOOLEAN, why : Whys, err : BOOLEAN, blurred : BOOLEAN]

LEMMA TimesGrow == ASSUME NEW m \in Nat, NEW n \in Nat, m <= n PROVE 0..m \subseteq 0..n
OBVIOUS

\* The initial state satisfies the invariant: nothing is remembered and nothing written.
LEMMA InitFileInv == FileInit => FileInv
<1> SUFFICES ASSUME FileInit PROVE FileInv
  OBVIOUS
<1> USE DEF FileInit, Missing, Gone
<1>1. FileTypeOK
  <2>1. session \in SessionRec(0..last)
    BY FileAssumption DEF SessionRec, FilePc, Whys, Opening, ReadAttempts
  <2>2. MaxEdits \in Nat /\ session.edits = 0
    BY FileAssumption
  <2>3. last \in Nat \ {0} /\ {onDisk, mine, opened0} \subseteq 0..last 
    OBVIOUS
  <2>4. {temp, adopted, spared} \subseteq BOOLEAN
    OBVIOUS
  <2>5. scratch \in {Gone} \cup 0..MaxEdits /\ written \in 0..session.edits
    BY <2>2
  <2>. QED BY <2>1, <2>3, <2>4, <2>5 DEF FileTypeOK, SessionRec, FilePc, Whys
<1>2. session.pc = "stat" /\ session.why = "none"
  OBVIOUS
<1>3. ReadsForward /\ ScratchIsThere /\ BaseIsItsOwn /\ EndKeepsTheEdits /\ TempIsTakenAway
  BY <1>2 DEF ReadsForward, ScratchIsThere, BaseIsItsOwn, EndKeepsTheEdits, TempIsTakenAway, Editing, Saving
<1>. QED BY <1>1, <1>3 DEF FileInv

-----------------------------------------------------------------------------
(* Opening the file.                                                        *)

\* While the file is read only the session changes, and while it is not in the
\* editor the scratch database and what it has written say nothing yet.
LEMMA ReadStep ==
    ASSUME FileInv, session.pc \in Opening,
           NEW r \in SessionRec(0..last), session' = r,
           SameFile, SameGhosts, scratch' = scratch,
           r.pc \in Opening \cup {"ended"}, r.edits = session.edits, r.why = session.why,
           r.pc = "ended" => r.why = "none",
           r.pc = "read" => r.seen # Missing /\ (onDisk = Missing \/ onDisk >= r.seen),
           r.pc = "again" => r.got # Missing /\ r.got >= r.seen /\ (onDisk = Missing \/ onDisk >= r.got),
           r.pc = "parse" => r.base = r.got
    PROVE  FileInv'
<1>1. FileTypeOK'
  BY DEF FileInv, FileTypeOK, SessionRec, FilePc, Whys, SameFile, SameGhosts
<1>2. ReadsForward'
  BY DEF FileInv, ReadsForward, SameFile
<1>3. r.pc \notin Editing /\ ~(r.pc = "ended" /\ r.why # "none")
  BY DEF Opening, Editing, Saving
<1>4. ScratchIsThere' /\ BaseIsItsOwn' /\ EndKeepsTheEdits'
  BY <1>3 DEF ScratchIsThere, BaseIsItsOwn, EndKeepsTheEdits, Editing, Saving
<1>5. TempIsTakenAway'
  BY DEF FileInv, TempIsTakenAway, Opening, SameFile
<1>. QED BY <1>1, <1>2, <1>4, <1>5 DEF FileInv

\* The invariant's part that types the session and the file.
LEMMA SessionIsTyped ==
    ASSUME FileInv
    PROVE  /\ session \in SessionRec(0..last) /\ last \in Nat \ {0} /\ Missing \in 0..last
           /\ onDisk \in 0..last /\ mine \in 0..last /\ opened0 \in 0..last
           /\ scratch \in {Gone} \cup 0..MaxEdits /\ written \in 0..session.edits
BY DEF FileInv, FileTypeOK, SessionRec, FilePc, Whys, Missing

\* The first look at the time of change keeps what was read in order.
LEMMA StatStep == FileInv /\ Stat => FileInv'
<1> SUFFICES ASSUME FileInv, Stat PROVE FileInv'
  OBVIOUS
<1> USE SessionIsTyped
<1>1. /\ session.pc = "stat" /\ session.why = "none"
      /\ SameFile /\ SameGhosts /\ scratch' = scratch
  BY DEF Stat, At0, FileInv, ReadsForward, Opening
<1>2. CASE onDisk = Missing
  <2> DEFINE r == [session EXCEPT !.pc = "parse", !.got = Missing, !.base = Missing]
  <2>1. session' = r
    BY <1>2 DEF Stat, Goes
  <2>2. r \in SessionRec(0..last)
    BY DEF SessionRec, FilePc, Opening
  <2>3. r.pc = "parse" /\ r.base = r.got /\ r.edits = session.edits /\ r.why = session.why
    BY DEF SessionRec
  <2> HIDE DEF r
  <2>. QED BY <1>1, <2>1, <2>2, <2>3, ReadStep DEF Opening
<1>3. CASE onDisk # Missing
  <2> DEFINE r == [session EXCEPT !.pc = "read", !.seen = onDisk]
  <2>1. session' = r
    BY <1>3 DEF Stat, Goes
  <2>2. r \in SessionRec(0..last)
    BY DEF SessionRec, FilePc, Opening
  <2>3. r.pc = "read" /\ r.seen = onDisk /\ r.edits = session.edits /\ r.why = session.why
    BY DEF SessionRec
  <2>4. onDisk \in Nat
    BY DEF SessionRec
  <2> HIDE DEF r
  <2>. QED BY <1>1, <1>3, <2>1, <2>2, <2>3, <2>4, ReadStep DEF Opening
<1>. QED BY <1>2, <1>3

\* Reading keeps it in order: what is read is not older than the time taken before it.
LEMMA ReadFileStep == FileInv /\ ReadFile => FileInv'
<1> SUFFICES ASSUME FileInv, ReadFile PROVE FileInv'
  OBVIOUS
<1> USE SessionIsTyped
<1>1. /\ session.pc = "read" /\ session.why = "none"
      /\ SameFile /\ SameGhosts /\ scratch' = scratch
      /\ onDisk = Missing \/ onDisk >= session.seen
  BY DEF ReadFile, At0, FileInv, ReadsForward, Opening
<1>2. CASE onDisk = Missing
  <2> DEFINE r == [session EXCEPT !.pc = "parse", !.got = Missing, !.base = Missing]
  <2>1. session' = r
    BY <1>2 DEF ReadFile, Goes
  <2>2. r \in SessionRec(0..last)
    BY DEF SessionRec, FilePc, Opening
  <2>3. r.pc = "parse" /\ r.base = r.got /\ r.edits = session.edits /\ r.why = session.why
    BY DEF SessionRec
  <2> HIDE DEF r
  <2>. QED BY <1>1, <2>1, <2>2, <2>3, ReadStep DEF Opening
<1>3. CASE onDisk # Missing
  <2> DEFINE r == [session EXCEPT !.pc = "again", !.got = onDisk]
  <2>1. session' = r
    BY <1>3 DEF ReadFile, Goes
  <2>2. r \in SessionRec(0..last)
    BY DEF SessionRec, FilePc, Opening
  <2>3. r.pc = "again" /\ r.got = onDisk /\ r.seen = session.seen /\ r.edits = session.edits /\ r.why = session.why
    BY DEF SessionRec
  <2>4. onDisk \in Nat
    BY DEF SessionRec
  <2> HIDE DEF r
  <2>. QED BY <1>1, <1>3, <2>1, <2>2, <2>3, <2>4, ReadStep DEF Opening
<1>. QED BY <1>2, <1>3

\* If the time is the one before the read, what was read has that time.
LEMMA StatAgainStep == FileInv /\ StatAgain => FileInv'
<1> SUFFICES ASSUME FileInv, StatAgain PROVE FileInv'
  OBVIOUS
<1> USE SessionIsTyped
<1>1. /\ session.pc = "again" /\ session.why = "none"
      /\ SameFile /\ SameGhosts /\ scratch' = scratch
      /\ session.got >= session.seen /\ (onDisk = Missing \/ onDisk >= session.got)
  BY DEF StatAgain, At0, FileInv, ReadsForward, Opening
<1>2. CASE onDisk = Missing
  <2> DEFINE r == [session EXCEPT !.pc = "parse", !.got = Missing, !.base = Missing]
  <2>1. session' = r
    BY <1>2 DEF StatAgain, Goes
  <2>2. r \in SessionRec(0..last)
    BY DEF SessionRec, FilePc, Opening
  <2>3. r.pc = "parse" /\ r.base = r.got /\ r.edits = session.edits /\ r.why = session.why
    BY DEF SessionRec
  <2> HIDE DEF r
  <2>. QED BY <1>1, <2>1, <2>2, <2>3, ReadStep DEF Opening
<1>3. CASE onDisk # Missing /\ onDisk = session.seen
  <2> DEFINE r == [session EXCEPT !.pc = "parse", !.base = onDisk]
  <2>1. session' = r
    BY <1>3 DEF StatAgain, Goes, SameAsBefore
  <2>2. r \in SessionRec(0..last)
    BY DEF SessionRec, FilePc, Opening
  <2>3. r.pc = "parse" /\ r.base = onDisk /\ r.got = session.got /\ r.edits = session.edits /\ r.why = session.why
    BY DEF SessionRec
  <2>4. onDisk = session.got
    BY <1>1, <1>3 DEF SessionRec
  <2> HIDE DEF r
  <2>. QED BY <1>1, <2>1, <2>2, <2>3, <2>4, ReadStep DEF Opening
<1>4. CASE onDisk # Missing /\ onDisk # session.seen /\ TriesAgain(session.attempt)
  <2> DEFINE r == [session EXCEPT !.pc = "stat", !.attempt = @ + 1]
  <2>1. session' = r
    BY <1>4 DEF StatAgain, Goes, SameAsBefore
  <2>2. r \in SessionRec(0..last)
    <3>1. session.attempt \in 1..ReadAttempts
      BY DEF SessionRec
    <3>2. session.attempt + 1 \in 1..ReadAttempts
      BY <1>4, <3>1 DEF TriesAgain, ReadAttempts
    <3>. QED BY <3>2 DEF SessionRec, FilePc, Opening
  <2>3. r.pc = "stat" /\ r.edits = session.edits /\ r.why = session.why
    BY DEF SessionRec
  <2> HIDE DEF r
  <2>. QED BY <1>1, <2>1, <2>2, <2>3, ReadStep DEF Opening
<1>5. CASE onDisk # Missing /\ onDisk # session.seen /\ ~TriesAgain(session.attempt)
  <2> DEFINE r == Fails1(session)
  <2>1. session' = r
    BY <1>5 DEF StatAgain, Goes, SameAsBefore
  <2>2. r \in SessionRec(0..last)
    BY DEF SessionRec, FilePc, Fails1
  <2>3. r.pc = "ended" /\ r.edits = session.edits /\ r.why = session.why
    BY DEF SessionRec, Fails1
  <2> HIDE DEF r
  <2>. QED BY <1>1, <2>1, <2>2, <2>3, ReadStep DEF Opening
<1>. QED BY <1>2, <1>3, <1>4, <1>5

\* Parsing the source opens the editor on what was read.
LEMMA ParseStep == FileInv /\ ParseSource => FileInv'
<1> SUFFICES ASSUME FileInv, ParseSource PROVE FileInv'
  OBVIOUS
<1> USE SessionIsTyped
<1>1. /\ session.pc = "parse" /\ session.why = "none" /\ session.base = session.got /\ ~temp
      /\ SameFile
  BY Zenon DEF ParseSource, At0, FileInv, ReadsForward, Opening, TempIsTakenAway, FileTypeOK
<1>2. CASE /\ Goes([session EXCEPT !.pc = "edit"])
           /\ scratch' = 0 /\ opened0' = session.got /\ mine' = session.got
           /\ UNCHANGED <<written, adopted, spared>>
  <2> DEFINE r == [session EXCEPT !.pc = "edit"]
  <2>1. session' = r
    BY <1>2 DEF Goes
  <2>2. r \in SessionRec(0..last)
    BY DEF SessionRec, FilePc, Opening
  <2>3. r.pc = "edit" /\ r.edits = session.edits /\ r.base = session.base /\ r.got = session.got
    BY DEF SessionRec
  <2> HIDE DEF r
  <2>4. FileTypeOK'
    <3>1. 0 \in 0..MaxEdits
      BY FileAssumption
    <3>2. session.got \in 0..last
      BY DEF SessionRec
    <3>. QED BY <1>1, <1>2, <2>1, <2>2, <2>3, <3>1, <3>2 DEF FileInv, FileTypeOK, SessionRec, FilePc, Whys, SameFile
  <2>5. ReadsForward' /\ EndKeepsTheEdits' /\ TempIsTakenAway'
    BY <1>1, <2>1, <2>3 DEF ReadsForward, EndKeepsTheEdits, TempIsTakenAway, Opening, SameFile
  <2>6. ScratchIsThere'
    BY <1>2, <2>1, <2>3 DEF ScratchIsThere, Editing, Saving, Gone
  <2>7. BaseIsItsOwn'
    <3>1. session'.pc = "edit" /\ session'.base = session.got /\ session'.got = session.got
      BY <1>1, <2>1, <2>3
    <3>. QED BY <1>1, <1>2, <3>1 DEF BaseIsItsOwn, Editing, Saving, SameFile
  <2>. QED BY <2>4, <2>5, <2>6, <2>7 DEF FileInv
<1>. QED BY <1>2 DEF ParseSource

\* A call that fails ends the session before it has begun.
LEMMA OpeningFailsStep == FileInv /\ OpeningFails => FileInv'
<1> SUFFICES ASSUME FileInv, OpeningFails PROVE FileInv'
  OBVIOUS
<1> USE SessionIsTyped
<1>1. session.pc \in Opening /\ session.why = "none" /\ ~temp /\ SameFile /\ SameGhosts /\ scratch' = scratch
  BY Zenon DEF OpeningFails, FileInv, ReadsForward, Opening, TempIsTakenAway, FileTypeOK
<1> DEFINE r == Fails1(session)
<1>2. session' = r
  BY DEF OpeningFails, Goes
<1>3. r \in SessionRec(0..last)
  BY DEF SessionRec, FilePc, Fails1
<1>4. r.pc = "ended" /\ r.edits = session.edits /\ r.why = session.why
  BY DEF SessionRec, Fails1
<1> HIDE DEF r
<1>. QED BY <1>1, <1>2, <1>3, <1>4, ReadStep DEF Opening

-----------------------------------------------------------------------------
(* In the editor.                                                           *)

\* Whatever the session does in memory, the file and what is known of it stay.
LEMMA EditorStep ==
    ASSUME FileInv, session.pc = "edit",
           NEW r \in SessionRec(0..last), session' = r, r.pc \in {"edit", "tree"},
           r.base = session.base, r.got = session.got, r.edits >= session.edits, r.blurred = session.blurred,
           r.pc = "tree" => r.why # "none" /\ (r.why = "quit" => ~r.err),
           SameFile, SameGhosts, scratch' = scratch
    PROVE  FileInv'
<1> USE SessionIsTyped
<1>1. FileTypeOK'
  <2>1. written \in 0..r.edits
    BY DEF SessionRec
  <2>. QED BY <2>1 DEF FileInv, FileTypeOK, SessionRec, FilePc, Whys, SameFile, SameGhosts
<1>2. ~temp
  BY DEF FileInv, TempIsTakenAway
<1>3. ReadsForward' /\ EndKeepsTheEdits' /\ TempIsTakenAway'
  BY <1>2 DEF ReadsForward, EndKeepsTheEdits, TempIsTakenAway, Opening, SameFile
<1>4. ScratchIsThere'
  BY DEF FileInv, ScratchIsThere, Editing, Saving
<1>5. BaseIsItsOwn'
  BY DEF FileInv, BaseIsItsOwn, Editing, Saving, SameFile, SameGhosts
<1>. QED BY <1>1, <1>3, <1>4, <1>5 DEF FileInv

LEMMA EditsItStep == FileInv /\ EditsIt => FileInv'
<1> SUFFICES ASSUME FileInv, EditsIt PROVE FileInv'
  OBVIOUS
<1> USE SessionIsTyped
<1> DEFINE r == [session EXCEPT !.edits = @ + 1, !.unsaved = TRUE]
<1>1. session.pc = "edit" /\ session' = r /\ SameFile /\ SameGhosts /\ scratch' = scratch
  BY DEF EditsIt, At0, Goes
<1>2. session.edits \in 0..MaxEdits /\ session.edits < MaxEdits
  BY DEF EditsIt, SessionRec
<1>3. r \in SessionRec(0..last)
  <2>1. session.edits + 1 \in 0..MaxEdits
    BY <1>2, FileAssumption
  <2>. QED BY <2>1 DEF SessionRec
<1>4. r.pc = "edit" /\ r.base = session.base /\ r.got = session.got /\ r.edits >= session.edits /\ r.blurred = session.blurred
  BY <1>1, <1>2 DEF SessionRec
<1> HIDE DEF r
<1>. QED BY <1>1, <1>3, <1>4, EditorStep

LEMMA GoesWrongStep == FileInv /\ GoesWrong => FileInv'
<1> SUFFICES ASSUME FileInv, GoesWrong PROVE FileInv'
  OBVIOUS
<1> USE SessionIsTyped
<1> DEFINE r == [session EXCEPT !.err = TRUE]
<1>1. session.pc = "edit" /\ session' = r /\ SameFile /\ SameGhosts /\ scratch' = scratch
  BY DEF GoesWrong, At0, Goes
<1>2. r \in SessionRec(0..last)
  BY DEF SessionRec
<1>3. r.pc = "edit" /\ r.base = session.base /\ r.got = session.got /\ r.edits >= session.edits /\ r.blurred = session.blurred
  BY <1>1 DEF SessionRec
<1> HIDE DEF r
<1>. QED BY <1>1, <1>2, <1>3, EditorStep

\* Quitting with an error standing leaves the scratch database, whatever it holds.
LEMMA AsksToSaveStep == FileInv /\ AsksToSave => FileInv'
<1> SUFFICES ASSUME FileInv, AsksToSave PROVE FileInv'
  OBVIOUS
<1> USE SessionIsTyped
<1>1. session.pc = "edit" /\ SameFile
  BY DEF AsksToSave, At0
<1>2. PICK why \in {"flush", "save", "menu", "quit"} :
        IF why = "quit" /\ session.err
        THEN /\ Goes(Fails1([session EXCEPT !.why = why]))
             /\ scratch' = After2(session')
             /\ spared' = (scratch # session.edits) /\ UNCHANGED <<opened0, mine, written, adopted>>
        ELSE Goes([session EXCEPT !.pc = "tree", !.why = why]) /\ SameGhosts /\ UNCHANGED scratch
  BY DEF AsksToSave
<1>3. CASE why = "quit" /\ session.err
  <2> DEFINE r == Fails1([session EXCEPT !.why = why])
  <2>1. session' = r /\ scratch' = After2(r) /\ spared' = (scratch # session.edits)
        /\ UNCHANGED <<opened0, mine, written, adopted>>
    BY <1>2, <1>3 DEF Goes
  <2>2. r \in SessionRec(0..last)
    BY DEF SessionRec, FilePc, Whys, Fails1
  <2>3. r.pc = "ended" /\ r.err /\ r.why = "quit" /\ r.edits = session.edits
    BY <1>3 DEF SessionRec, Fails1
  <2> HIDE DEF r
  <2>4. scratch' = scratch /\ scratch # Gone
    BY <1>1, <2>1, <2>3 DEF After2, KeepsScratch, FileInv, ScratchIsThere, Editing
  <2>5. FileTypeOK'
    BY <1>1, <2>1, <2>2, <2>3, <2>4 DEF FileInv, FileTypeOK, SessionRec, FilePc, Whys, SameFile
  <2>6. ReadsForward' /\ ScratchIsThere' /\ BaseIsItsOwn'
    BY <2>1, <2>3 DEF ReadsForward, ScratchIsThere, BaseIsItsOwn, Opening, Editing, Saving
  <2>7. EndKeepsTheEdits'
    BY <2>1, <2>3, <2>4 DEF EndKeepsTheEdits
  <2>8. TempIsTakenAway'
    BY <1>1 DEF FileInv, TempIsTakenAway, SameFile
  <2>. QED BY <2>5, <2>6, <2>7, <2>8 DEF FileInv
<1>4. CASE ~(why = "quit" /\ session.err)
  <2> DEFINE r == [session EXCEPT !.pc = "tree", !.why = why]
  <2>1. session' = r /\ SameGhosts /\ scratch' = scratch
    BY <1>2, <1>4 DEF Goes
  <2>2. r \in SessionRec(0..last)
    BY DEF SessionRec, FilePc, Saving, Whys
  <2>3. /\ r.pc = "tree" /\ r.base = session.base /\ r.got = session.got /\ r.edits = session.edits
        /\ r.why = why /\ r.err = session.err /\ r.edits >= session.edits /\ r.blurred = session.blurred
    BY DEF SessionRec
  <2> HIDE DEF r
  <2>. QED BY <1>1, <1>4, <2>1, <2>2, <2>3, EditorStep
<1>. QED BY <1>3, <1>4

-----------------------------------------------------------------------------
(* Saving.                                                                  *)

\* A save that fails goes back to the editor, or ends the session with the scratch database left behind.
LEMMA SaveFails ==
    ASSUME FileInv, session.pc \in Saving, NEW s \in {session, Blurred(session)}, session.pc = "restat" => s.blurred,
           session' = SavedBadly(s), scratch' = After2(session'),
           UNCHANGED <<onDisk, last, opened0, mine, written>>, temp' = FALSE,
           adopted' = adopted, spared' \in BOOLEAN,
           session'.pc = "ended" => scratch = session.edits \/ spared'
    PROVE  FileInv'
<1> USE SessionIsTyped
<1> DEFINE r == SavedBadly(s)
<1>0. /\ s \in SessionRec(0..last) /\ (s.blurred \/ (s.blurred = session.blurred /\ session.pc # "restat"))
      /\ s.base = session.base /\ s.got = session.got /\ s.edits = session.edits /\ s.why = session.why
  BY DEF Blurred, SessionRec
<1>1. r \in SessionRec(0..last)
  BY <1>0 DEF SavedBadly, Fails1, SessionRec, FilePc
<1>2. /\ r.pc = IF session.why \in {"quit", "save"} THEN "ended" ELSE "edit"
      /\ r.pc = "ended" => r.err
      /\ r.base = session.base /\ r.got = session.got /\ r.edits = session.edits /\ r.why = session.why
      /\ r.blurred = s.blurred
  BY <1>0 DEF SavedBadly, Fails1, SessionRec
<1>3. session' = r
  OBVIOUS
<1> HIDE DEF r
<1>4. session.why # "none" /\ scratch # Gone
  BY DEF FileInv, ScratchIsThere, Editing
<1>5. scratch' = scratch
  BY <1>2, <1>3, <1>4 DEF After2, KeepsScratch
<1>6. FileTypeOK'
  BY <1>1, <1>2, <1>3, <1>5 DEF FileInv, FileTypeOK, SessionRec, FilePc, Whys
<1>7. ReadsForward' /\ ScratchIsThere' /\ TempIsTakenAway'
  BY <1>2, <1>3, <1>4, <1>5 DEF ReadsForward, ScratchIsThere, TempIsTakenAway, Opening, Editing, Saving
<1>8. EndKeepsTheEdits'
  BY <1>2, <1>3, <1>4, <1>5 DEF EndKeepsTheEdits
<1>9. BaseIsItsOwn'
  BY <1>0, <1>2, <1>3 DEF FileInv, BaseIsItsOwn, ScratchIsThere, Editing, Saving
<1>. QED BY <1>6, <1>7, <1>8, <1>9 DEF FileInv

\* A save that gets on, up to the rename: the scratch database holds all the edits.
LEMMA SaveGoesOn ==
    ASSUME FileInv, session.pc \in Saving \ {"restat"},
           NEW r \in SessionRec(0..last), session' = r, r.pc \in Saving \ {"tree", "restat"},
           r.base = session.base, r.got = session.got, r.edits = session.edits,
           r.why = session.why, r.err = session.err, r.blurred = session.blurred,
           r.pc # "check" /\ onDisk = r.seen => onDisk \in {Missing, mine} \/ adopted,
           UNCHANGED <<onDisk, last>>, SameGhosts, scratch' = session.edits,
           temp' \in BOOLEAN, temp' => r.pc \in {"fill", "rename"}
    PROVE  FileInv'
<1> USE SessionIsTyped
<1>1. FileTypeOK'
  BY DEF FileInv, FileTypeOK, SessionRec, FilePc, Whys, SameGhosts
<1>2. ReadsForward' /\ EndKeepsTheEdits' /\ TempIsTakenAway'
  BY DEF ReadsForward, EndKeepsTheEdits, TempIsTakenAway, Opening, Saving
<1>3. ScratchIsThere'
  <2>1. session.edits # Gone
    BY DEF SessionRec, Gone
  <2>. QED BY <2>1 DEF FileInv, ScratchIsThere, Editing, Saving
<1>4. BaseIsItsOwn'
  BY DEF FileInv, BaseIsItsOwn, Editing, Saving, SameGhosts
<1>. QED BY <1>1, <1>2, <1>3, <1>4 DEF FileInv

LEMMA SaveTreeStep == FileInv /\ SaveTree => FileInv'
<1> SUFFICES ASSUME FileInv, SaveTree PROVE FileInv'
  OBVIOUS
<1> USE SessionIsTyped
<1>1. session.pc = "tree" /\ SameFile /\ temp \in BOOLEAN /\ ~temp
  BY DEF SaveTree, At0, FileInv, TempIsTakenAway, FileTypeOK
<1>2. CASE scratch' = session.edits /\ Goes([session EXCEPT !.pc = "check"]) /\ SameGhosts
  <2> DEFINE r == [session EXCEPT !.pc = "check"]
  <2>1. session' = r
    BY <1>2 DEF Goes
  <2>2. r \in SessionRec(0..last)
    BY DEF SessionRec, FilePc, Saving
  <2>3. /\ r.pc = "check" /\ r.base = session.base /\ r.got = session.got /\ r.edits = session.edits
        /\ r.why = session.why /\ r.err = session.err /\ r.blurred = session.blurred
    BY DEF SessionRec
  <2> HIDE DEF r
  <2>. QED BY <1>1, <1>2, <2>1, <2>2, <2>3, SaveGoesOn DEF Saving, SameFile
<1>3. CASE /\ Goes(SavedBadly(session)) /\ scratch' = After2(session')
           /\ spared' = (spared \/ (session'.pc = "ended" /\ scratch # session.edits))
           /\ UNCHANGED <<opened0, mine, written, adopted>>
  <2>1. spared' \in BOOLEAN /\ temp' = FALSE
    BY <1>1, <1>3, Zenon DEF SameFile
  <2>2. session'.pc = "ended" => scratch = session.edits \/ spared'
    BY <1>3
  <2>. QED BY <1>1, <1>3, <2>1, <2>2, SaveFails DEF Saving, SameFile, Goes
<1>. QED BY <1>2, <1>3 DEF SaveTree

LEMMA CheckSourceStep == FileInv /\ CheckSource => FileInv'
<1> SUFFICES ASSUME FileInv, CheckSource PROVE FileInv'
  OBVIOUS
<1> USE SessionIsTyped
<1>1. /\ session.pc = "check" /\ SameFile /\ SameGhosts /\ scratch = session.edits
      /\ scratch' = After2(session') /\ temp = FALSE /\ spared \in BOOLEAN
  BY DEF CheckSource, At0, FileInv, TempIsTakenAway, FileTypeOK, ScratchIsThere, Saving
<1>2. CASE Untouched0(onDisk, session.base) /\ Goes([session EXCEPT !.pc = "create", !.seen = onDisk])
  <2> DEFINE r == [session EXCEPT !.pc = "create", !.seen = onDisk]
  <2>1. session' = r
    BY <1>2 DEF Goes
  <2>2. r \in SessionRec(0..last)
    BY DEF SessionRec, FilePc, Saving
  <2>3. /\ r.pc = "create" /\ r.base = session.base /\ r.got = session.got /\ r.edits = session.edits
        /\ r.why = session.why /\ r.err = session.err /\ r.blurred = session.blurred
    BY DEF SessionRec
  <2> HIDE DEF r
  <2>4. onDisk \in {Missing, mine} \/ adopted
    BY <1>1, <1>2 DEF Untouched0, FileInv, BaseIsItsOwn, Editing, Saving
  <2>5. scratch' = session.edits
    BY <1>1, <2>1, <2>3 DEF After2
  <2>. QED BY <1>1, <2>1, <2>2, <2>3, <2>4, <2>5, SaveGoesOn DEF Saving, SameFile
<1>3. CASE Goes([session EXCEPT !.pc = "create", !.seen = Missing])
  <2> DEFINE r == [session EXCEPT !.pc = "create", !.seen = Missing]
  <2>1. session' = r
    BY <1>3 DEF Goes
  <2>2. r \in SessionRec(0..last)
    BY DEF SessionRec, FilePc, Saving, FileInv, FileTypeOK, Missing
  <2>3. /\ r.pc = "create" /\ r.base = session.base /\ r.got = session.got /\ r.edits = session.edits
        /\ r.why = session.why /\ r.err = session.err /\ r.blurred = session.blurred /\ r.seen = Missing
    BY DEF SessionRec
  <2> HIDE DEF r
  <2>4. scratch' = session.edits
    BY <1>1, <2>1, <2>3 DEF After2
  <2>. QED BY <1>1, <2>1, <2>2, <2>3, <2>4, SaveGoesOn DEF Saving, SameFile
<1>4. CASE session' = SavedBadly(session)
  BY <1>1, <1>4, SaveFails DEF Saving, SameFile, SameGhosts
<1>. QED BY <1>2, <1>3, <1>4 DEF CheckSource, Goes

LEMMA CreateTempStep == FileInv /\ CreateTemp => FileInv'
<1> SUFFICES ASSUME FileInv, CreateTemp PROVE FileInv'
  OBVIOUS
<1> USE SessionIsTyped
<1>1. /\ session.pc = "create" /\ UNCHANGED <<onDisk, last>> /\ SameGhosts /\ scratch = session.edits
      /\ scratch' = After2(session') /\ temp = FALSE /\ spared \in BOOLEAN
  BY DEF CreateTemp, At0, FileInv, TempIsTakenAway, FileTypeOK, ScratchIsThere, Saving
<1>2. CASE Goes([session EXCEPT !.pc = "fill"]) /\ temp' = TRUE
  <2> DEFINE r == [session EXCEPT !.pc = "fill"]
  <2>1. session' = r
    BY <1>2 DEF Goes
  <2>2. r \in SessionRec(0..last)
    BY DEF SessionRec, FilePc, Saving
  <2>3. /\ r.pc = "fill" /\ r.base = session.base /\ r.got = session.got /\ r.edits = session.edits
        /\ r.why = session.why /\ r.err = session.err /\ r.seen = session.seen
        /\ r.blurred = session.blurred
    BY DEF SessionRec
  <2> HIDE DEF r
  <2>4. onDisk = r.seen => onDisk \in {Missing, mine} \/ adopted
    BY <1>1, <2>3 DEF FileInv, BaseIsItsOwn
  <2>5. scratch' = session.edits
    BY <1>1, <2>1, <2>3 DEF After2
  <2>. QED BY <1>1, <1>2, <2>1, <2>2, <2>3, <2>4, <2>5, SaveGoesOn DEF Saving
<1>3. CASE Goes(SavedBadly(session)) /\ UNCHANGED temp
  BY <1>1, <1>3, SaveFails DEF Saving, SameGhosts, Goes
<1>. QED BY <1>2, <1>3 DEF CreateTemp

LEMMA FillTempStep == FileInv /\ FillTemp => FileInv'
<1> SUFFICES ASSUME FileInv, FillTemp PROVE FileInv'
  OBVIOUS
<1> USE SessionIsTyped
<1>1. /\ session.pc = "fill" /\ UNCHANGED <<onDisk, last>> /\ SameGhosts /\ scratch = session.edits
      /\ scratch' = After2(session') /\ temp \in BOOLEAN /\ spared \in BOOLEAN
  BY DEF FillTemp, At0, FileInv, FileTypeOK, ScratchIsThere, Saving
<1>2. CASE Goes([session EXCEPT !.pc = "rename"]) /\ UNCHANGED temp
  <2> DEFINE r == [session EXCEPT !.pc = "rename"]
  <2>1. session' = r
    BY <1>2 DEF Goes
  <2>2. r \in SessionRec(0..last)
    BY DEF SessionRec, FilePc, Saving
  <2>3. /\ r.pc = "rename" /\ r.base = session.base /\ r.got = session.got /\ r.edits = session.edits
        /\ r.why = session.why /\ r.err = session.err /\ r.seen = session.seen
        /\ r.blurred = session.blurred
    BY DEF SessionRec
  <2> HIDE DEF r
  <2>4. onDisk = r.seen => onDisk \in {Missing, mine} \/ adopted
    BY <1>1, <2>3 DEF FileInv, BaseIsItsOwn
  <2>5. scratch' = session.edits
    BY <1>1, <2>1, <2>3 DEF After2
  <2>. QED BY <1>1, <1>2, <2>1, <2>2, <2>3, <2>4, <2>5, SaveGoesOn DEF Saving
<1>3. CASE Goes(SavedBadly(session)) /\ temp' = FALSE
  BY <1>1, <1>3, SaveFails DEF Saving, SameGhosts, Goes
<1>. QED BY <1>2, <1>3 DEF FillTemp

\* The rename is the write: what lies there now is this session's own, and newer than all before.
LEMMA RenameStep == FileInv /\ Rename => FileInv'
<1> SUFFICES ASSUME FileInv, Rename PROVE FileInv'
  OBVIOUS
<1> USE SessionIsTyped
<1>1. /\ session.pc = "rename" /\ scratch = session.edits /\ scratch # Gone /\ session.why # "none"
      /\ session.why = "quit" => ~session.err
      /\ temp' = FALSE /\ spared \in BOOLEAN
  BY DEF Rename, At0, TempRemains, FileInv, FileTypeOK, ScratchIsThere, Editing, Saving
<1>2. CASE /\ last' = last + 1 /\ onDisk' = last + 1
           /\ mine' = last + 1 /\ written' = session.edits
           /\ Goes([session EXCEPT !.pc = "restat"])
           /\ UNCHANGED <<opened0, adopted, spared, scratch>>
  <2> DEFINE r == [session EXCEPT !.pc = "restat"]
  <2>1. session' = r
    BY <1>2 DEF Goes
  <2>2. 0..last \subseteq 0..last' /\ last + 1 \in 0..last' /\ last' \in Nat \ {0} /\ last + 1 # opened0
    BY <1>2, TimesGrow
  <2>3. r \in SessionRec(0..last')
    BY <2>2 DEF SessionRec, FilePc, Saving
  <2>4. /\ r.pc = "restat" /\ r.base = session.base /\ r.got = session.got /\ r.edits = session.edits
        /\ r.why = session.why /\ r.err = session.err /\ r.blurred = session.blurred
    BY DEF SessionRec
  <2>5. session.edits \in 0..session.edits
    BY DEF SessionRec
  <2> HIDE DEF r
  <2>6. FileTypeOK'
    <3>1. {onDisk', mine', opened0'} \subseteq 0..last'
      BY <1>2, <2>2
    <3>2. {temp', adopted', spared'} \subseteq BOOLEAN
      BY <1>1, <1>2 DEF FileInv, FileTypeOK
    <3>3. session' \in [pc : Opening \cup Saving \cup {"edit", "ended", "crashed"},
                    base : 0..last', seen : 0..last', got : 0..last', attempt : 1..ReadAttempts,
                    edits : 0..MaxEdits, unsaved : BOOLEAN,
                    why : {"none", "flush", "save", "menu", "quit"}, err : BOOLEAN, blurred : BOOLEAN]
      BY <2>1, <2>3 DEF SessionRec, FilePc, Whys
    <3>4. scratch' \in {Gone} \cup 0..MaxEdits /\ written' \in 0..session'.edits
      BY <1>2, <2>1, <2>4, <2>5
    <3>. QED BY <2>2, <3>1, <3>2, <3>3, <3>4 DEF FileTypeOK
  <2>7. ReadsForward' /\ EndKeepsTheEdits' /\ TempIsTakenAway'
    BY <1>1, <2>1, <2>4 DEF ReadsForward, EndKeepsTheEdits, TempIsTakenAway, Opening
  <2>8. ScratchIsThere'
    BY <1>1, <1>2, <2>1, <2>2, <2>4 DEF ScratchIsThere
  <2>9. BaseIsItsOwn'
    <3>1. session.base \in 0..last /\ last + 1 # session.base
      BY <2>2 DEF SessionRec, FileInv, FileTypeOK
    <3>. QED BY <1>2, <2>1, <2>2, <2>4, <3>1 DEF BaseIsItsOwn
  <2>. QED BY <2>6, <2>7, <2>8, <2>9 DEF FileInv
<1>3. CASE Goes(SavedBadly(session)) /\ scratch' = After2(session') /\ UNCHANGED <<onDisk, last>> /\ SameGhosts
  BY <1>1, <1>3, SaveFails DEF Saving, SameGhosts, Goes
<1>. QED BY <1>2, <1>3 DEF Rename

\* The look at the time after the rename: the session goes by the file's time now, its own or one it adopts.
LEMMA RestatStep == FileInv /\ Restat => FileInv'
<1> SUFFICES ASSUME FileInv, Restat PROVE FileInv'
  OBVIOUS
<1> USE SessionIsTyped
<1>1. /\ session.pc = "restat" /\ scratch = session.edits /\ scratch # Gone /\ session.why # "none"
      /\ session.why = "quit" => ~session.err
      /\ mine # opened0 /\ written = session.edits
      /\ ~temp /\ temp \in BOOLEAN /\ spared \in BOOLEAN /\ adopted \in BOOLEAN
  BY DEF Restat, At0, FileInv, FileTypeOK, ScratchIsThere, TempIsTakenAway, Editing, Saving
<1>2. SameFile /\ UNCHANGED <<opened0, mine, written, spared>> /\ scratch' = After2(session')
  BY DEF Restat
<1>3. CASE Goes(SavedBadly(Blurred(session))) /\ UNCHANGED adopted
  <2>1. session' = SavedBadly(Blurred(session)) /\ Blurred(session).blurred
    BY <1>3 DEF Goes, Blurred, SessionRec
  <2>2. adopted' = adopted /\ temp' = FALSE
    BY <1>1, <1>2, <1>3 DEF SameFile
  <2>. QED BY <1>1, <1>2, <2>1, <2>2, SaveFails DEF Saving, SameFile
<1>4. CASE /\ onDisk # Missing /\ Goes(SavedWell(Rebased(session, onDisk)))
           /\ adopted' = (adopted \/ onDisk # mine)
  <2> DEFINE r == SavedWell(Rebased(session, onDisk))
  <2>1. session' = r
    BY <1>4 DEF Goes
  <2>2. r \in SessionRec(0..last)
    BY DEF SavedWell, Rebased, Ends1, SessionRec, FilePc
  <2>3. /\ r.pc = IF session.why = "quit" THEN "ended" ELSE "edit"
        /\ r.base = onDisk /\ r.got = session.got /\ r.edits = session.edits
        /\ r.why = session.why /\ r.err = session.err
    BY DEF SavedWell, Rebased, Ends1, SessionRec
  <2> HIDE DEF r
  <2>4. scratch' \in {Gone} \cup 0..MaxEdits /\ (r.pc # "ended" => scratch' = scratch)
    BY <1>2, <2>1 DEF After2
  <2>5. FileTypeOK'
    <3>1. adopted' \in BOOLEAN
      BY <1>4
    <3>. QED BY <1>1, <1>2, <2>1, <2>2, <2>3, <2>4, <3>1
             DEF FileInv, FileTypeOK, SessionRec, FilePc, Whys, SameFile
  <2>6. ReadsForward' /\ TempIsTakenAway'
    BY <1>1, <1>2, <2>1, <2>3 DEF ReadsForward, TempIsTakenAway, Opening, SameFile
  <2>7. EndKeepsTheEdits'
    BY <1>1, <1>2, <2>1, <2>3 DEF EndKeepsTheEdits
  <2>8. ScratchIsThere'
    BY <1>1, <2>1, <2>3, <2>4 DEF ScratchIsThere, Editing, Saving
  <2>9. BaseIsItsOwn'
    BY <1>1, <1>2, <1>4, <2>1, <2>3 DEF BaseIsItsOwn, Editing, Saving, SameFile
  <2>. QED BY <2>5, <2>6, <2>7, <2>8, <2>9 DEF FileInv
<1>. QED BY <1>3, <1>4 DEF Restat

-----------------------------------------------------------------------------
(* Others.                                                                  *)

\* What another program writes is newer than all that the session remembers.
LEMMA AnotherWritesStep == FileInv /\ AnotherWrites => FileInv'
<1> SUFFICES ASSUME FileInv, AnotherWrites PROVE FileInv'
  OBVIOUS
<1> USE SessionIsTyped
<1>1. /\ SameGhosts /\ UNCHANGED <<temp, session, scratch>>
      /\ \/ onDisk' = last + 1 /\ last' = last + 1
         \/ onDisk' = Missing /\ last' = last
  BY DEF AnotherWrites
<1>2. /\ last \in Nat /\ last' \in Nat \ {0} /\ 0..last \subseteq 0..last'
      /\ onDisk' \in 0..last' /\ onDisk' \notin (0..last) \ {Missing}
  BY <1>1, TimesGrow DEF Missing
<1>3. session \in SessionRec(0..last')
  BY <1>2 DEF SessionRec
<1>4. FileTypeOK'
  BY <1>1, <1>2, <1>3 DEF FileInv, FileTypeOK, SessionRec, FilePc, Whys, SameGhosts
<1>5. session.seen \in 0..last /\ session.got \in 0..last /\ session.base \in 0..last
  BY DEF SessionRec
<1>6. onDisk' = Missing \/ (onDisk' > session.seen /\ onDisk' > session.got)
  BY <1>1, <1>2, <1>5
<1>7. ReadsForward'
  BY <1>1, <1>6 , <1>5, <1>2 DEF FileInv, ReadsForward
<1>8. ScratchIsThere' /\ EndKeepsTheEdits' /\ TempIsTakenAway'
  BY <1>1 DEF FileInv, ScratchIsThere, EndKeepsTheEdits, TempIsTakenAway, SameGhosts
<1>9. BaseIsItsOwn'
  <2>1. onDisk' \in {session.base, session.seen, mine} => onDisk' = Missing
    BY <1>2, <1>5
  <2>. QED BY <1>1, <2>1 DEF FileInv, BaseIsItsOwn, SameGhosts
<1>. QED BY <1>4, <1>7, <1>8, <1>9 DEF FileInv

LEMMA CrashSessionStep == FileInv /\ CrashSession => FileInv'
<1> SUFFICES ASSUME FileInv, CrashSession PROVE FileInv'
  OBVIOUS
<1> USE SessionIsTyped
<1> DEFINE r == [session EXCEPT !.pc = "crashed"]
<1>1. session' = r /\ SameFile /\ SameGhosts /\ scratch' = scratch
  BY DEF CrashSession, Goes
<1>2. r \in SessionRec(0..last)
  BY DEF SessionRec, FilePc
<1>3. r.pc = "crashed" /\ r.edits = session.edits
  BY DEF SessionRec
<1> HIDE DEF r
<1>4. FileTypeOK'
  BY <1>1, <1>2, <1>3 DEF FileInv, FileTypeOK, SessionRec, FilePc, Whys, SameFile, SameGhosts
<1>5. ReadsForward' /\ ScratchIsThere' /\ BaseIsItsOwn' /\ EndKeepsTheEdits' /\ TempIsTakenAway'
  BY <1>1, <1>3 DEF ReadsForward, ScratchIsThere, BaseIsItsOwn, EndKeepsTheEdits, TempIsTakenAway,
                    Opening, Editing, Saving
<1>. QED BY <1>4, <1>5 DEF FileInv

\* Every step keeps the invariant.
LEMMA NextFileInv == FileInv /\ [FileNext]_fileVars => FileInv'
<1> SUFFICES ASSUME FileInv, [FileNext]_fileVars PROVE FileInv'
  OBVIOUS
<1>1. CASE Reading
  BY <1>1, StatStep, ReadFileStep, StatAgainStep, ParseStep, OpeningFailsStep DEF Reading
<1>2. CASE EditsIt \/ GoesWrong \/ AsksToSave
  BY <1>2, EditsItStep, GoesWrongStep, AsksToSaveStep
<1>3. CASE WritingBack
  BY <1>3, SaveTreeStep, CheckSourceStep, CreateTempStep, FillTempStep, RenameStep, RestatStep DEF WritingBack
<1>4. CASE AnotherWrites \/ CrashSession
  BY <1>4, AnotherWritesStep, CrashSessionStep
<1>5. CASE UNCHANGED fileVars
  BY <1>5 DEF fileVars, FileInv, FileTypeOK, ReadsForward, ScratchIsThere, BaseIsItsOwn, EndKeepsTheEdits, TempIsTakenAway
<1>. QED BY <1>1, <1>2, <1>3, <1>4, <1>5 DEF FileNext

-----------------------------------------------------------------------------
(* What a save does to others.                                              *)

\* A step that writes while it renames wrote over what the session knew, or over what it had not looked at.
LEMMA RenameKeepsOthers ==
    FileInv /\ [FileNext]_fileVars =>
        (session.pc = "rename" /\ onDisk' # onDisk /\ outside' = outside =>
            onDisk \in {Missing, mine} \/ onDisk # session.seen \/ adopted)
BY DEF FileInv, BaseIsItsOwn

\* A save that does not get past its check has seen a file that is not this session's own, as far as it knows.
LEMMA CheckKnowsItsOwn ==
    FileInv /\ [FileNext]_fileVars =>
        (session.pc = "check" /\ session'.pc \notin {"check", "create", "crashed"} =>
            onDisk # mine \/ session.blurred)
<1> SUFFICES ASSUME FileInv, [FileNext]_fileVars,
                    session.pc = "check", session'.pc \notin {"check", "create", "crashed"}, onDisk = mine, ~session.blurred
             PROVE  FALSE
  OBVIOUS
<1> USE SessionIsTyped
<1>1. Untouched0(onDisk, session.base)
  BY DEF FileInv, BaseIsItsOwn, Editing, Saving, Untouched0
<1>2. CASE CheckSource
  BY <1>1, <1>2 DEF CheckSource, Goes, SessionRec
<1>3. CASE CrashSession
  BY <1>3 DEF CrashSession, Goes, SessionRec
<1>4. CASE UNCHANGED session
  BY <1>4
<1>5. CheckSource \/ CrashSession \/ UNCHANGED session
  BY DEF FileNext, Reading, WritingBack, Stat, ReadFile, StatAgain, ParseSource, OpeningFails, Opening, EditsIt, GoesWrong, AsksToSave,
         SaveTree, CreateTemp, FillTemp, Rename, Restat, AnotherWrites, At0, fileVars
<1>. QED BY <1>2, <1>3, <1>4, <1>5

\* For every bound: what was read is what the session goes by, its own files and databases are accounted for,
\* and a save neither writes over what another program wrote before its check nor refuses for its own write.
THEOREM SavesLoseNothingEver == FileSpec => SavesLoseNothing
<1>1. FileInv => BaseIsWhatWasRead
  BY DEF FileInv, BaseIsItsOwn, BaseIsWhatWasRead, Editing
<1>2. FileInv /\ [FileNext]_fileVars => FileInv'
  BY NextFileInv
<1>3. FileInv /\ [FileNext]_fileVars =>
        [session.pc = "rename" /\ onDisk' # onDisk /\ outside' = outside =>
            onDisk \in {Missing, mine} \/ onDisk # session.seen \/ adopted]_fileVars
  BY RenameKeepsOthers
<1>4. FileInv /\ [FileNext]_fileVars =>
        [session.pc = "check" /\ session'.pc \notin {"check", "create", "crashed"} =>
            onDisk # mine \/ session.blurred]_fileVars
  BY CheckKnowsItsOwn
<1>. QED BY <1>1, <1>2, <1>3, <1>4, InitFileInv, PTL
         DEF FileSpec, SavesLoseNothing, OthersAreNotOverwritten, RefusesOnlyOthers

-----------------------------------------------------------------------------
(* Stacks of pictures.                                                     *)

\* What a push, a pop and the fall of the oldest picture leave in a stack.
LEMMA Pushes ==
    ASSUME NEW S, NEW st \in Seq(S), NEW e \in S
    PROVE  /\ Append(st, e) \in Seq(S) /\ Len(Append(st, e)) = Len(st) + 1
           /\ \A i \in DOMAIN Append(st, e) : Append(st, e)[i] = e \/ (i \in DOMAIN st /\ Append(st, e)[i] = st[i])
  OBVIOUS

LEMMA Drops ==
    ASSUME NEW S, NEW st \in Seq(S), Len(st) > 0
    PROVE  /\ Tail(st) \in Seq(S) /\ Len(Tail(st)) = Len(st) - 1
           /\ \A i \in DOMAIN Tail(st) : i + 1 \in DOMAIN st /\ Tail(st)[i] = st[i + 1]
  OBVIOUS

LEMMA Pops ==
    ASSUME NEW S, NEW st \in Seq(S), st # <<>>
    PROVE  /\ Front(st) \in Seq(S) /\ Len(Front(st)) = Len(st) - 1
           /\ \A i \in DOMAIN Front(st) : i \in DOMAIN st /\ Front(st)[i] = st[i]
           /\ Len(st) \in DOMAIN st /\ Last(st) = st[Len(st)] /\ Last(st) \in S
  <1>1. Len(st) \in Nat /\ Len(st) > 0 /\ DOMAIN st = 1 .. Len(st)
    OBVIOUS
  <1>2. Front(st) = [i \in 1 .. (Len(st) - 1) |-> st[i]]
    BY DEF Front
  <1>3. \A i \in 1 .. (Len(st) - 1) : i \in DOMAIN st /\ st[i] \in S
    BY <1>1
  <1>4. Front(st) \in Seq(S) /\ Len(Front(st)) = Len(st) - 1 /\ DOMAIN Front(st) = 1 .. (Len(st) - 1)
    BY <1>1, <1>2, <1>3
  <1> QED  BY <1>1, <1>2, <1>3, <1>4 DEF Last

\* What the editor photographs is a picture, and it is whole.
LEMMA PictureIsWhole ==
    ASSUME ChipsAssumption, ChipsInv, app = "open"
    PROVE  Picture \in Pictures /\ WholePicture(Picture, reverted, filedAs) /\ Picture.known = known
  <1> DEFINE S == {d \in known : outputs[d] # Unfiled}
  <1>1. Picture = [text |-> text, known |-> known, outputs |-> [c \in S |-> outputs[c]]]
    BY DEF Picture
  <1>2. S = known \cap Agents0
    BY DEF ChipsInv, IdentsInv, RecordsInv, FiledSo
  <1> HIDE DEF S
  <1>3. \A c \in S : outputs[c] \in Idents /\ outputs[c].taken /\ filedAs[c] = outputs[c].title
    BY <1>2 DEF ChipsInv, IdentsInv, RecordsInv, FiledSo, ChipIds, Idents
  <1>4. [c \in S |-> outputs[c]] \in [S -> Idents] /\ S \in SUBSET Agents0
    BY <1>2, <1>3
  <1>5. Picture \in Pictures
    BY <1>1, <1>4 DEF Pictures, ChipsInv, TextsInv, RecordsInv
  <1>6. HeldChips(text) = Anchored
    BY DEF HeldChips, Anchored
  <1>7. WholePicture(Picture, reverted, filedAs)
    BY <1>1, <1>2, <1>3, <1>6 DEF WholePicture, ChipsInv, RecordsInv
  <1> QED  BY <1>1, <1>5, <1>7

\* The sessions a step files anew are in no picture.
Unpictured(N) ==
    /\ N \cap known = {}
    /\ \A i \in DOMAIN undone : undone[i].known \cap N = {}
    /\ \A i \in DOMAIN redone : redone[i].known \cap N = {}

\* A step that files none of their sessions anew leaves the pictures whole.
Refiles(N) ==
    /\ Unpictured(N) /\ reverted \subseteq reverted'
    /\ \A c \in ChipIds \ N : filedAs'[c] = filedAs[c]

LEMMA WholeStays ==
    ASSUME NEW N, Refiles(N)
    PROVE  \A p \in Pictures :
               WholePicture(p, reverted, filedAs) /\ p.known \cap N = {} => WholePicture(p, reverted', filedAs')
  BY DEF WholePicture, Pictures, ChipIds, Refiles

\* So do those on the stacks.
LEMMA PicturesStay ==
    ASSUME StacksInv, NEW N, Refiles(N)
    PROVE  /\ \A i \in DOMAIN undone : undone[i] \in Pictures /\ WholePicture(undone[i], reverted', filedAs')
           /\ \A i \in DOMAIN redone : redone[i] \in Pictures /\ WholePicture(redone[i], reverted', filedAs')
  <1>1. \A p \in Pictures : WholePicture(p, reverted, filedAs) /\ p.known \cap N = {} => WholePicture(p, reverted', filedAs')
    BY WholeStays
  <1>2. \A i \in DOMAIN undone : undone[i] \in Pictures
    BY DEF StacksInv
  <1>3. \A i \in DOMAIN redone : redone[i] \in Pictures
    BY DEF StacksInv
  <1>4. ASSUME NEW i \in DOMAIN undone PROVE WholePicture(undone[i], reverted', filedAs')
    <2>1. WholePicture(undone[i], reverted, filedAs) /\ undone[i].known \cap N = {}
      BY DEF StacksInv, Refiles, Unpictured
    <2> QED  BY <1>1, <1>2, <2>1
  <1>5. ASSUME NEW i \in DOMAIN redone PROVE WholePicture(redone[i], reverted', filedAs')
    <2>1. WholePicture(redone[i], reverted, filedAs) /\ redone[i].known \cap N = {}
      BY DEF StacksInv, Refiles, Unpictured
    <2> QED  BY <1>1, <1>3, <2>1
  <1> QED  BY <1>2, <1>3, <1>4, <1>5

\* A step that touches no stack.
LEMMA StacksStay ==
    ASSUME StacksInv, NEW N, Refiles(N), UNCHANGED <<undone, redone>>
    PROVE  StacksInv'
  BY PicturesStay DEF StacksInv

\* A key is photographed, and the oldest picture may fall.
LEMMA StacksPhotographed ==
    ASSUME ChipsAssumption, ChipsInv, app = "open", NEW N, Refiles(N), Photographed
    PROVE  StacksInv'
  <1> DEFINE all == Append(undone, Picture)
  <1>1. StacksInv /\ Picture \in Pictures /\ WholePicture(Picture, reverted, filedAs) /\ Picture.known \cap N = {}
    BY PictureIsWhole DEF ChipsInv, Refiles, Unpictured
  <1>2. WholePicture(Picture, reverted', filedAs')
    BY <1>1, WholeStays
  <1>3. \A i \in DOMAIN undone : WholePicture(undone[i], reverted', filedAs')
    BY <1>1, PicturesStay
  <1>4. all \in Seq(Pictures) /\ Len(all) = Len(undone) + 1 /\ Len(undone) \in Nat /\ Len(redone) \in Nat
    BY <1>1, Pushes DEF StacksInv
  <1>5. \A i \in DOMAIN all : WholePicture(all[i], reverted', filedAs')
    BY <1>1, <1>2, <1>3, Pushes DEF StacksInv
  <1>6. redone' = <<>> /\ undone' = IF Len(all) > MaxPast THEN Tail(all) ELSE all
    BY DEF Photographed
  <1>7. MaxPast \in Nat /\ Len(undone) + Len(redone) <= MaxPast
    BY <1>1 DEF ChipsAssumption, StacksInv
  <1> HIDE DEF all
  <1>8. Tail(all) \in Seq(Pictures) /\ Len(Tail(all)) = Len(undone)
        /\ \A i \in DOMAIN Tail(all) : WholePicture(Tail(all)[i], reverted', filedAs')
    <2>1. Len(all) > 0
      BY <1>4
    <2> QED  BY <1>4, <1>5, <2>1, Drops
  <1>9. undone' \in Seq(Pictures) /\ Len(undone') <= MaxPast
        /\ \A i \in DOMAIN undone' : WholePicture(undone'[i], reverted', filedAs')
    BY <1>4, <1>5, <1>6, <1>7, <1>8
  <1>10. redone' \in Seq(Pictures) /\ Len(redone') = 0 /\ DOMAIN redone' = {}
    BY <1>6
  <1>11. Len(undone') \in Nat
    BY <1>9
  <1> QED  BY <1>7, <1>9, <1>10, <1>11 DEF StacksInv

\* In a note a key is not photographed.
LEMMA StacksBeforeKey ==
    ASSUME ChipsAssumption, ChipsInv, app = "open", NEW N, Refiles(N), BeforeKey
    PROVE  StacksInv'
  BY StacksPhotographed, StacksStay DEF BeforeKey, ChipsInv

\* A picture goes from one stack to the other, and one of now is put there.
LEMMA PicturesShift ==
    ASSUME NEW from \in Seq(Pictures), NEW to \in Seq(Pictures), NEW p \in Pictures, NEW back, NEW was,
           Len(from) + Len(to) <= MaxPast, MaxPast \in Nat, from # <<>>, WholePicture(p, back, was),
           \A i \in DOMAIN from : WholePicture(from[i], back, was), \A i \in DOMAIN to : WholePicture(to[i], back, was)
    PROVE  /\ Front(from) \in Seq(Pictures) /\ Append(to, p) \in Seq(Pictures)
           /\ Len(Front(from)) + Len(Append(to, p)) <= MaxPast
           /\ \A i \in DOMAIN Front(from) : WholePicture(Front(from)[i], back, was)
           /\ \A i \in DOMAIN Append(to, p) : WholePicture(Append(to, p)[i], back, was)
           /\ Last(from) \in Pictures /\ WholePicture(Last(from), back, was)
  <1>1. Len(Front(from)) = Len(from) - 1 /\ Len(Append(to, p)) = Len(to) + 1 /\ Len(from) \in Nat /\ Len(to) \in Nat
    BY Pops, Pushes, SMTT(40)
  <1>2. \A i \in DOMAIN Front(from) : i \in DOMAIN from /\ Front(from)[i] = from[i]
    BY Pops
  <1>3. \A i \in DOMAIN Append(to, p) : Append(to, p)[i] = p \/ (i \in DOMAIN to /\ Append(to, p)[i] = to[i])
    BY Pushes
  <1>4. Last(from) \in Pictures /\ Len(from) \in DOMAIN from /\ Last(from) = from[Len(from)] /\ Front(from) \in Seq(Pictures)
    BY Pops
  <1>5. Append(to, p) \in Seq(Pictures)
    OBVIOUS
  <1> QED  BY <1>1, <1>2, <1>3, <1>4, <1>5

-----------------------------------------------------------------------------
(* The records and the sessions.                                           *)

\* Where nothing is deleted, filed or looked at, the sessions stay as they are.
LEMMA IdentsStay ==
    ASSUME IdentsInv, app = "open", UNCHANGED <<outputs, cached, filedAs>>, called' \in Titles,
           (records' \cup known') \cap Agents0 \subseteq records \cup known
    PROVE  IdentsInv'
  <1>1. \A c \in ChipIds : FiledSo(c)'
    BY DEF IdentsInv, FiledSo
  <1> QED  BY <1>1 DEF IdentsInv

\* A session that has been deleted.
LEMMA IdentsDeleted ==
    ASSUME ChipsAssumption, IdentsInv, app = "open", app' = "open", NEW c \in MyChips, Deleted(c), UNCHANGED <<filedAs, called>>
    PROVE  IdentsInv'
  <1>1. \A d \in ChipIds : outputs'[d] = (IF d = c THEN Unfiled ELSE outputs[d]) /\ cached'[d] = (IF d = c THEN Unfiled ELSE cached[d])
    BY DEF Deleted, IdentsInv
  <1>2. \A d \in ChipIds : FiledSo(d)' /\ (cached'[d] # Unfiled => cached'[d] = outputs'[d])
    BY <1>1 DEF IdentsInv, FiledSo
  <1>3. outputs' \in [ChipIds -> Idents \cup {Unfiled}] /\ cached' \in [ChipIds -> Idents \cup {Unfiled}]
    BY DEF Deleted, IdentsInv
  <1>4. \A d \in (records' \cup known') \cap Agents0 : outputs'[d] # Unfiled
    BY <1>1 DEF Deleted, IdentsInv, ChipIds
  <1> QED  BY <1>2, <1>3, <1>4 DEF IdentsInv

\* A session that has been picked or renamed.
LEMMA IdentsSaved ==
    ASSUME ChipsAssumption, IdentsInv, app = "open", app' = "open", called' = called,
           NEW c \in Agents0, NEW s \in Idents, s.taken, SaveSession(c, s),
           \A d \in ChipIds \ {c} : filedAs'[d] = filedAs[d], filedAs'[c] = s.title, filedAs' \in [ChipIds -> Titles \cup {Unfiled}],
           (records' \cup known') \cap Agents0 \subseteq records \cup known \cup {c}
    PROVE  IdentsInv'
  <1>1. \A d \in ChipIds : outputs'[d] = (IF d = c THEN s ELSE outputs[d]) /\ cached'[d] = (IF d = c THEN s ELSE cached[d])
    BY DEF SaveSession, IdentsInv
  <1>2. \A d \in ChipIds : FiledSo(d)' /\ (cached'[d] # Unfiled => cached'[d] = outputs'[d])
    BY <1>1 DEF IdentsInv, FiledSo
  <1>3. outputs' \in [ChipIds -> Idents \cup {Unfiled}] /\ cached' \in [ChipIds -> Idents \cup {Unfiled}]
    BY DEF SaveSession, IdentsInv
  <1>4. s # Unfiled /\ Agents0 \subseteq ChipIds
    BY DEF ChipsAssumption, ChipIds
  <1>5. \A d \in (records' \cup known') \cap Agents0 : outputs'[d] # Unfiled
    BY <1>1, <1>4 DEF IdentsInv
  <1> QED  BY <1>2, <1>3, <1>5 DEF IdentsInv

\* What is loaded of a session is what its row has.
LEMMA LoadedIsTheRow ==
    ASSUME IdentsInv
    PROVE  \A c \in ChipIds : LoadSession(c) = outputs[c]
  BY DEF IdentsInv, LoadSession

-----------------------------------------------------------------------------
(* The texts.                                                              *)

\* What the three texts hold, and what makes them texts.
LEMMA ThreeTexts ==
    /\ Anchored = text["above"] \cup text["name"] \cup text["note"]
    /\ Stored = saved["above"] \cup saved["name"] \cup saved["note"]
    /\ \A f : HeldChips(f) = f["above"] \cup f["name"] \cup f["note"]
    /\ \A f \in [Surfaces -> SUBSET MyChips] :
         f \in ChipTexts <=> /\ f["above"] \cap f["name"] = {} /\ f["above"] \cap f["note"] = {}
                           /\ f["name"] \cap f["note"] = {}
  BY DEF Anchored, Stored, HeldChips, Surfaces, ChipTexts

LEMMA ThreeTextsNext ==
    /\ Anchored' = text'["above"] \cup text'["name"] \cup text'["note"]
    /\ Stored' = saved'["above"] \cup saved'["name"] \cup saved'["note"]
  BY DEF Anchored, Stored, Surfaces

\* A new chip in the text under the caret.
LEMMA Typed ==
    ASSUME ChipsInv, app = "open", NEW c \in MyChips, c \notin Anchored, text' = [text EXCEPT ![Active] = @ \cup {c}],
           UNCHANGED <<saved, prev, app>>
    PROVE  TextsInv' /\ Anchored' = Anchored \cup {c}
  <1>1. TextsInv /\ text \in [Surfaces -> SUBSET MyChips] /\ Active \in Surfaces
    BY DEF ChipsInv, TextsInv, ChipTexts, Active, Surfaces
  <1>2. text' \in [Surfaces -> SUBSET MyChips] /\ Anchored' = Anchored \cup {c}
    BY <1>1, ThreeTexts, ThreeTextsNext DEF Surfaces
  <1>3. text' \in ChipTexts
    <2>1. /\ text["above"] \cap text["name"] = {} /\ text["above"] \cap text["note"] = {}
          /\ text["name"] \cap text["note"] = {}
      BY <1>1, ThreeTexts DEF TextsInv
    <2>2. c \notin text["above"] /\ c \notin text["name"] /\ c \notin text["note"]
      BY ThreeTexts
    <2>3. \A s \in Surfaces : text'[s] = IF s = Active THEN text[s] \cup {c} ELSE text[s]
      BY <1>1
    <2>4. /\ text'["above"] \cap text'["name"] = {} /\ text'["above"] \cap text'["note"] = {}
          /\ text'["name"] \cap text'["note"] = {}
      BY <1>1, <2>1, <2>2, <2>3 DEF Surfaces
    <2> QED  BY <1>2, <2>4, ThreeTexts
  <1>4. prev.text \cap (text'["above"] \cup text'["name"]) = {}
    BY <1>1 DEF TextsInv, Active, Surfaces
  <1>5. prev' = prev /\ saved' = saved /\ app' = app
    OBVIOUS
  <1> QED  BY <1>1, <1>2, <1>3, <1>4, <1>5 DEF TextsInv

\* One that goes.
LEMMA Rubbed ==
    ASSUME ChipsInv, app = "open", NEW c \in text[Active], text' = [text EXCEPT ![Active] = @ \ {c}],
           UNCHANGED <<saved, prev, app>>
    PROVE  TextsInv' /\ Anchored' = Anchored \ {c} /\ c \in MyChips
  <1>1. TextsInv /\ text \in [Surfaces -> SUBSET MyChips] /\ Active \in Surfaces
    BY DEF ChipsInv, TextsInv, ChipTexts, Active, Surfaces
  <1>2. text' \in [Surfaces -> SUBSET MyChips] /\ c \in MyChips
    BY <1>1
  <1>3. text' \in ChipTexts /\ Anchored' = Anchored \ {c}
    BY <1>1, <1>2, ThreeTexts, ThreeTextsNext, ZenonT(60) DEF Surfaces, TextsInv
  <1>4. prev.text \cap (text'["above"] \cup text'["name"]) = {}
    BY <1>1 DEF TextsInv, Surfaces
  <1> QED  BY <1>1, <1>2, <1>3, <1>4 DEF TextsInv

\* Nothing is filed anew where the filing is what it was.
LEMMA FiledAsBefore ==
    ASSUME ChipsInv, reverted \subseteq reverted', filedAs' = filedAs
    PROVE  Refiles({})
  BY DEF Refiles, Unpictured

-----------------------------------------------------------------------------
(* Each step of this editor keeps the invariant.                           *)

LEMMA ChipifyKeeps ==
    ASSUME ChipsAssumption, ChipsInv, Chipify
    PROVE  ChipsInv'
  <1>1. PICK c \in Plain0 : NewId(c) /\ Created(c) /\ text' = [text EXCEPT ![Active] = @ \cup {c}]
    BY DEF Chipify
  <1>2. app = "open" /\ BeforeKey
        /\ UNCHANGED <<saved, outputs, cached, called, prev, others, heard, app, filedAs, reverted, swept>>
    BY DEF Chipify, Step, chipsGhosts
  <1>3. c \in MyChips /\ c \notin Anchored /\ c \notin Agents0 /\ c \in ChipIds
    BY <1>1 DEF NewId, MyChips, ChipsAssumption, ChipIds
  <1>4. known' = known \cup {c} /\ records' = records \cup {c}
    BY <1>1 DEF Created
  <1>5. TextsInv' /\ Anchored' = Anchored \cup {c}
    BY <1>1, <1>2, <1>3, Typed
  <1>6. RecordsInv'
    BY <1>2, <1>3, <1>4, <1>5 DEF ChipsInv, RecordsInv
  <1>7. IdentsInv'
    BY <1>2, <1>3, <1>4, IdentsStay DEF ChipsInv, IdentsInv
  <1>8. StacksInv'
    BY <1>2, FiledAsBefore, StacksBeforeKey
  <1> QED  BY <1>2, <1>5, <1>6, <1>7, <1>8 DEF ChipsInv, NothingUnreferenced

LEMMA DeleteAnchorKeeps ==
    ASSUME ChipsAssumption, ChipsInv, DeleteAnchor
    PROVE  ChipsInv'
  <1>1. PICK c \in text[Active] : Deleted(c) /\ text' = [text EXCEPT ![Active] = @ \ {c}]
    BY DEF DeleteAnchor
  <1>2. app = "open" /\ Photographed
        /\ UNCHANGED <<saved, called, prev, others, heard, app, filedAs, reverted, swept>>
    BY DEF DeleteAnchor, Step, chipsGhosts
  <1>3. TextsInv' /\ Anchored' = Anchored \ {c} /\ c \in MyChips
    BY <1>1, <1>2, Rubbed
  <1>4. known' = known \ {c} /\ records' = records \ {c} /\ c \notin Theirs0
    BY <1>1, <1>3 DEF Deleted, MyChips, ChipsAssumption
  <1>5. RecordsInv'
    BY <1>2, <1>3, <1>4 DEF ChipsInv, RecordsInv
  <1>6. IdentsInv'
    BY <1>1, <1>2, <1>3, IdentsDeleted DEF ChipsInv
  <1>7. StacksInv'
    BY <1>2, FiledAsBefore, StacksPhotographed
  <1> QED  BY <1>2, <1>3, <1>5, <1>6, <1>7 DEF ChipsInv, NothingUnreferenced

LEMMA DeleteRowKeeps ==
    ASSUME ChipsAssumption, ChipsInv, DeleteRow
    PROVE  ChipsInv'
  <1>1. app = "open" /\ ~prev.open /\ Photographed /\ text' = [text EXCEPT !["name"] = {}]
        /\ UNCHANGED <<saved, known, records, outputs, cached, called, prev, others, heard, app, filedAs, reverted, swept>>
    BY DEF DeleteRow, Step, chipsGhosts
  <1>2. TextsInv /\ text \in [Surfaces -> SUBSET MyChips]
    BY DEF ChipsInv, TextsInv, ChipTexts
  <1>3. text' \in [Surfaces -> SUBSET MyChips]
    BY <1>1, <1>2
  <1>4. text' \in ChipTexts /\ Anchored' \subseteq Anchored
    BY <1>1, <1>2, <1>3, ThreeTexts, ThreeTextsNext DEF Surfaces, TextsInv
  <1>5. TextsInv'
    BY <1>1, <1>2, <1>4 DEF TextsInv
  <1>6. RecordsInv'
    BY <1>1, <1>4 DEF ChipsInv, RecordsInv
  <1>7. IdentsInv'
    BY <1>1, IdentsStay DEF ChipsInv, IdentsInv
  <1>8. StacksInv'
    BY <1>1, FiledAsBefore, StacksPhotographed
  <1> QED  BY <1>1, <1>5, <1>6, <1>7, <1>8 DEF ChipsInv, NothingUnreferenced

LEMMA MergeUpKeeps ==
    ASSUME ChipsAssumption, ChipsInv, MergeUp
    PROVE  ChipsInv'
  <1>1. app = "open" /\ ~prev.open /\ Photographed
        /\ text' = [text EXCEPT !["above"] = @ \cup text["name"], !["name"] = {}]
        /\ UNCHANGED <<saved, known, records, outputs, cached, called, prev, others, heard, app, filedAs, reverted, swept>>
    BY DEF MergeUp, Step, chipsGhosts
  <1>2. TextsInv /\ text \in [Surfaces -> SUBSET MyChips]
    BY DEF ChipsInv, TextsInv, ChipTexts
  <1>3. text' \in [Surfaces -> SUBSET MyChips] /\ text'["above"] = text["above"] \cup text["name"]
        /\ text'["name"] = {} /\ text'["note"] = text["note"]
    BY <1>1, <1>2 DEF Surfaces
  <1>4. text' \in ChipTexts /\ Anchored' = Anchored
    BY <1>2, <1>3, ThreeTexts, ThreeTextsNext DEF TextsInv
  <1>5. TextsInv'
    BY <1>1, <1>2, <1>4 DEF TextsInv
  <1>6. RecordsInv'
    BY <1>1, <1>4 DEF ChipsInv, RecordsInv
  <1>7. IdentsInv'
    BY <1>1, IdentsStay DEF ChipsInv, IdentsInv
  <1>8. StacksInv'
    BY <1>1, FiledAsBefore, StacksPhotographed
  <1> QED  BY <1>1, <1>5, <1>6, <1>7, <1>8 DEF ChipsInv, NothingUnreferenced

LEMMA OpenNoteKeeps ==
    ASSUME ChipsAssumption, ChipsInv, OpenNote
    PROVE  ChipsInv'
  <1>1. app = "open" /\ prev' = [open |-> TRUE, text |-> text["note"]]
        /\ UNCHANGED <<text, saved, known, records, outputs, cached, called, undone, redone, others, heard, app,
                       filedAs, reverted, swept>>
    BY DEF OpenNote, Step, chipsGhosts
  <1>2. TextsInv /\ text \in [Surfaces -> SUBSET MyChips]
    BY DEF ChipsInv, TextsInv, ChipTexts
  <1>3. text["note"] \cap (text["above"] \cup text["name"]) = {} /\ text["note"] \subseteq MyChips
    BY <1>2, ThreeTexts DEF TextsInv, Surfaces
  <1>4. TextsInv'
    BY <1>1, <1>2, <1>3 DEF TextsInv
  <1>5. RecordsInv'
    BY <1>1 DEF ChipsInv, RecordsInv, Anchored, Stored
  <1>6. IdentsInv'
    BY <1>1, IdentsStay DEF ChipsInv, IdentsInv
  <1>7. StacksInv'
    BY <1>1, FiledAsBefore, StacksStay DEF ChipsInv
  <1> QED  BY <1>1, <1>4, <1>5, <1>6, <1>7 DEF ChipsInv, NothingUnreferenced

LEMMA EscNoteKeeps ==
    ASSUME ChipsAssumption, ChipsInv, EscNote
    PROVE  ChipsInv'
  <1>1. app = "open" /\ prev.open /\ text' = [text EXCEPT !["note"] = prev.text] /\ prev' = [open |-> FALSE, text |-> {}]
        /\ reverted' = reverted \cup (prev.text \ text["note"])
        /\ UNCHANGED <<saved, known, records, outputs, cached, called, undone, redone, others, heard, app, filedAs, swept>>
    BY DEF EscNote, Step
  <1>2. TextsInv /\ text \in [Surfaces -> SUBSET MyChips] /\ prev.text \subseteq MyChips
    BY DEF ChipsInv, TextsInv, ChipTexts
  <1>3. text' \in [Surfaces -> SUBSET MyChips] /\ text'["above"] = text["above"] /\ text'["name"] = text["name"]
        /\ text'["note"] = prev.text
    BY <1>1, <1>2 DEF Surfaces
  <1>4. text' \in ChipTexts /\ Anchored' \subseteq Anchored \cup (prev.text \ text["note"])
    BY <1>2, <1>3, ThreeTexts, ThreeTextsNext DEF TextsInv
  <1>5. TextsInv'
    BY <1>1, <1>2, <1>4 DEF TextsInv
  <1>6. RecordsInv'
    BY <1>1, <1>4 DEF ChipsInv, RecordsInv
  <1>7. IdentsInv'
    BY <1>1, IdentsStay DEF ChipsInv, IdentsInv
  <1>8. StacksInv'
    BY <1>1, FiledAsBefore, StacksStay DEF ChipsInv
  <1> QED  BY <1>1, <1>5, <1>6, <1>7, <1>8 DEF ChipsInv, NothingUnreferenced

LEMMA EnterNoteKeeps ==
    ASSUME ChipsAssumption, ChipsInv, EnterNote
    PROVE  ChipsInv'
  <1>1. PICK new \in {{}} \cup {{c} : c \in {d \in Plain0 : NewId(d)}} :
            text' = [text EXCEPT !["note"] = @ \cup new] /\ records' = records \cup new /\ known' = records'
    BY DEF EnterNote
  <1>2. app = "open" /\ prev.open /\ prev' = [open |-> FALSE, text |-> {}]
        /\ UNCHANGED <<saved, outputs, cached, called, undone, redone, others, heard, app, filedAs, reverted, swept>>
    BY DEF EnterNote, Step, chipsGhosts
  <1>3. new \subseteq Plain0 /\ new \cap Anchored = {} /\ new \cap Agents0 = {}
    BY <1>1 DEF NewId, ChipsAssumption
  <1>4. TextsInv /\ text \in [Surfaces -> SUBSET MyChips] /\ new \subseteq MyChips /\ new \subseteq ChipIds
    BY <1>3 DEF ChipsInv, TextsInv, ChipTexts, MyChips, ChipIds
  <1>5. text' \in [Surfaces -> SUBSET MyChips] /\ text'["above"] = text["above"] /\ text'["name"] = text["name"]
        /\ text'["note"] = text["note"] \cup new
    BY <1>1, <1>4 DEF Surfaces
  <1>6. text' \in ChipTexts /\ Anchored' = Anchored \cup new
    BY <1>3, <1>4, <1>5, ThreeTexts, ThreeTextsNext DEF TextsInv
  <1>7. TextsInv'
    BY <1>2, <1>4, <1>6 DEF TextsInv
  <1>8. RecordsInv'
    BY <1>1, <1>2, <1>4, <1>6 DEF ChipsInv, RecordsInv
  <1>9. (records' \cup known') \cap Agents0 \subseteq records \cup known
    BY <1>1, <1>3
  <1>10. IdentsInv'
    BY <1>2, <1>9, IdentsStay DEF ChipsInv, IdentsInv
  <1>11. StacksInv'
    BY <1>2, FiledAsBefore, StacksStay DEF ChipsInv
  <1> QED  BY <1>2, <1>7, <1>8, <1>10, <1>11 DEF ChipsInv, NothingUnreferenced
LEMMA SaveTextsKeeps ==
    ASSUME ChipsAssumption, ChipsInv, SaveTexts
    PROVE  ChipsInv'
  <1>1. app = "open" /\ saved' = text
        /\ UNCHANGED <<text, known, records, outputs, cached, called, undone, redone, prev, others, app,
                       filedAs, reverted, swept>>
    BY DEF SaveTexts, chipsGhosts
  <1>2. TextsInv'
    BY <1>1 DEF ChipsInv, TextsInv
  <1>3. RecordsInv'
    BY <1>1 DEF ChipsInv, RecordsInv, Anchored
  <1>4. IdentsInv'
    BY <1>1, IdentsStay DEF ChipsInv, IdentsInv
  <1>5. StacksInv'
    BY <1>1, FiledAsBefore, StacksStay DEF ChipsInv
  <1> QED  BY <1>1, <1>2, <1>3, <1>4, <1>5 DEF ChipsInv, NothingUnreferenced

LEMMA CliRenamesKeeps ==
    ASSUME ChipsAssumption, ChipsInv, CliRenames
    PROVE  ChipsInv'
  <1>1. app = "open" /\ called' \in Titles
        /\ UNCHANGED <<text, saved, known, records, outputs, cached, undone, redone, prev, others, app,
                       filedAs, reverted, swept>>
    BY DEF CliRenames, Step, chipsGhosts
  <1>2. TextsInv'
    BY <1>1 DEF ChipsInv, TextsInv
  <1>3. RecordsInv'
    BY <1>1 DEF ChipsInv, RecordsInv, Anchored
  <1>4. IdentsInv'
    BY <1>1, IdentsStay DEF ChipsInv, IdentsInv
  <1>5. StacksInv'
    BY <1>1, FiledAsBefore, StacksStay DEF ChipsInv
  <1> QED  BY <1>1, <1>2, <1>3, <1>4, <1>5 DEF ChipsInv, NothingUnreferenced

LEMMA PickSessionKeeps ==
    ASSUME ChipsAssumption, ChipsInv, PickSession
    PROVE  ChipsInv'
  <1>1. PICK c \in Agents0, row \in Titles :
            LET title == IF row = Untitled THEN called ELSE row
            IN  /\ NewId(c) /\ Created(c) /\ text' = [text EXCEPT ![Active] = @ \cup {c}]
                /\ SaveSession(c, [title |-> title, name |-> FALSE, taken |-> TRUE])
                /\ filedAs' = [filedAs EXCEPT ![c] = title]
    BY DEF PickSession
  <1>2. app = "open" /\ BeforeKey /\ UNCHANGED <<saved, called, prev, others, heard, app, reverted, swept>>
    BY DEF PickSession, Step
  <1> DEFINE title == IF row = Untitled THEN called ELSE row
             s == [title |-> title, name |-> FALSE, taken |-> TRUE]
  <1>3. title \in Titles /\ IdentsInv
    BY DEF ChipsInv, IdentsInv
  <1>4. NewId(c) /\ Created(c) /\ text' = [text EXCEPT ![Active] = @ \cup {c}] /\ SaveSession(c, s)
        /\ filedAs' = [filedAs EXCEPT ![c] = title]
    BY <1>1
  <1>5. s \in Idents /\ s.taken /\ s.title = title
    BY <1>3 DEF Idents
  <1> HIDE DEF title, s
  <1>6. c \in MyChips /\ c \in ChipIds /\ c \notin Anchored /\ c \notin Theirs0
    BY <1>4 DEF NewId, MyChips, ChipIds, ChipsAssumption
  <1>7. known' = known \cup {c} /\ records' = records \cup {c}
    BY <1>4 DEF Created
  <1>8. TextsInv' /\ Anchored' = Anchored \cup {c}
    BY <1>2, <1>4, <1>6, Typed
  <1>9. RecordsInv'
    BY <1>2, <1>6, <1>7, <1>8 DEF ChipsInv, RecordsInv
  <1>10. filedAs' \in [ChipIds -> Titles \cup {Unfiled}] /\ filedAs'[c] = s.title
         /\ \A d \in ChipIds \ {c} : filedAs'[d] = filedAs[d]
    BY <1>3, <1>4, <1>5, <1>6 DEF IdentsInv
  <1>11. IdentsInv'
    BY <1>2, <1>3, <1>4, <1>5, <1>7, <1>10, IdentsSaved
  <1>12. Refiles({c})
    BY <1>2, <1>4, <1>10 DEF Refiles, Unpictured, NewId
  <1>13. StacksInv'
    BY <1>2, <1>12, StacksBeforeKey
  <1> QED  BY <1>2, <1>8, <1>9, <1>11, <1>13 DEF ChipsInv, NothingUnreferenced

LEMMA RenameHereKeeps ==
    ASSUME ChipsAssumption, ChipsInv, RenameHere
    PROVE  ChipsInv'
  <1>1. PICK c \in text["name"] \cap Agents0 \cap known :
            LoadSession(c) # Unfiled /\ SaveSession(c, [LoadSession(c) EXCEPT !.name = ~@])
    BY DEF RenameHere
  <1>2. app = "open"
        /\ UNCHANGED <<text, saved, known, records, called, undone, redone, prev, others, heard, app,
                       filedAs, reverted, swept>>
    BY DEF RenameHere, Step, chipsGhosts
  <1> DEFINE s == [LoadSession(c) EXCEPT !.name = ~@]
  <1>3. IdentsInv /\ c \in ChipIds /\ c \in Agents0 /\ LoadSession(c) = outputs[c] /\ outputs[c] # Unfiled
    BY <1>1, LoadedIsTheRow DEF ChipsInv, ChipIds
  <1>4. outputs[c] \in Idents /\ outputs[c].taken /\ filedAs[c] = outputs[c].title
    BY <1>2, <1>3 DEF IdentsInv, FiledSo, Idents
  <1>5. s \in Idents /\ s.taken /\ s.title = outputs[c].title
    BY <1>3, <1>4 DEF Idents
  <1>6. SaveSession(c, s)
    BY <1>1
  <1> HIDE DEF s
  <1>7. filedAs' \in [ChipIds -> Titles \cup {Unfiled}] /\ filedAs'[c] = s.title
         /\ \A d \in ChipIds \ {c} : filedAs'[d] = filedAs[d]
    BY <1>2, <1>3, <1>4, <1>5 DEF IdentsInv
  <1>8. IdentsInv'
    BY <1>2, <1>3, <1>5, <1>6, <1>7, IdentsSaved
  <1>9. TextsInv'
    BY <1>2 DEF ChipsInv, TextsInv
  <1>10. RecordsInv'
    BY <1>2 DEF ChipsInv, RecordsInv, Anchored, Stored
  <1>11. StacksInv'
    BY <1>2, FiledAsBefore, StacksStay DEF ChipsInv
  <1> QED  BY <1>2, <1>8, <1>9, <1>10, <1>11 DEF ChipsInv, NothingUnreferenced

-----------------------------------------------------------------------------
(* Undo and redo.                                                          *)

\* What a whole picture brings back: the texts, the records of its anchors and its
\* sessions as they were filed.
LEMMA RestoredKeeps ==
    ASSUME ChipsAssumption, ChipsInv, app = "open", ~prev.open, NEW st \in Pictures, WholePicture(st, reverted, filedAs),
           Restored(st), UNCHANGED <<saved, called, prev, others, app, filedAs, reverted>>
    PROVE  TextsInv' /\ RecordsInv' /\ IdentsInv' /\ NothingUnreferenced'
  <1>1. text' = st.text /\ known' = st.known /\ records' = (records \cup st.known) \ (known \ st.known)
        /\ swept' = swept \cup (Theirs0 \cap (known \ st.known))
    BY DEF Restored, Reconciled
  <1>2. st.text \in ChipTexts /\ st.known \subseteq ChipIds /\ DOMAIN st.outputs = st.known \cap Agents0
        /\ \A c \in DOMAIN st.outputs : st.outputs[c] \in Idents /\ st.outputs[c].taken /\ filedAs[c] = st.outputs[c].title
    BY DEF Pictures, WholePicture
  <1>3. Anchored' \ reverted \subseteq st.known
    BY <1>1, ThreeTexts, ThreeTextsNext DEF WholePicture
  <1>4. TextsInv'
    BY <1>1, <1>2 DEF ChipsInv, TextsInv
  <1>5. RecordsInv'
    BY <1>1, <1>2, <1>3 DEF ChipsInv, RecordsInv
  <1> DEFINE touched == known \cup DOMAIN st.outputs
  <1>6. outputs' = [c \in ChipIds |-> IF c \in DOMAIN st.outputs THEN st.outputs[c]
                                      ELSE IF c \in touched THEN Unfiled ELSE outputs[c]]
        /\ cached' = [c \in ChipIds |-> IF c \in touched THEN Unfiled ELSE cached[c]]
    BY DEF Restored
  <1> HIDE DEF touched
  <1>7. IdentsInv
    BY DEF ChipsInv
  <1>8. outputs' \in [ChipIds -> Idents \cup {Unfiled}] /\ cached' \in [ChipIds -> Idents \cup {Unfiled}]
    BY <1>2, <1>6, <1>7 DEF IdentsInv
  <1>9. ASSUME NEW c \in ChipIds PROVE FiledSo(c)' /\ (cached'[c] # Unfiled => cached'[c] = outputs'[c])
    <2>1. CASE c \in DOMAIN st.outputs
      BY <1>2, <1>6, <2>1 DEF FiledSo, touched
    <2>2. CASE c \notin DOMAIN st.outputs
      BY <1>6, <1>7, <2>2 DEF FiledSo, IdentsInv
    <2> QED  BY <2>1, <2>2
  <1>10. ASSUME NEW c \in (records' \cup known') \cap Agents0 PROVE outputs'[c] # Unfiled
    <2>1. c \in ChipIds
      BY DEF ChipIds
    <2>2. CASE c \in st.known
      BY <1>2, <1>6, <2>1, <2>2 DEF ChipsAssumption
    <2>3. CASE c \notin st.known
      <3>1. c \in records /\ c \notin known /\ c \notin DOMAIN st.outputs
        BY <1>1, <1>2, <2>3
      <3> QED  BY <1>6, <1>7, <2>1, <3>1 DEF IdentsInv, touched
    <2> QED  BY <2>2, <2>3
  <1>11. IdentsInv'
    BY <1>7, <1>8, <1>9, <1>10 DEF IdentsInv
  <1> QED  BY <1>4, <1>5, <1>11 DEF NothingUnreferenced

LEMMA UndoKeyKeeps ==
    ASSUME ChipsAssumption, ChipsInv, UndoKey
    PROVE  ChipsInv'
  <1>1. app = "open" /\ ~prev.open /\ undone # <<>> /\ undone' = Front(undone) /\ redone' = Append(redone, Picture)
        /\ Restored(Last(undone)) /\ UNCHANGED <<saved, called, prev, others, heard, app, filedAs, reverted>>
    BY DEF UndoKey, Step
  <1>2. Picture \in Pictures /\ WholePicture(Picture, reverted, filedAs)
    BY <1>1, PictureIsWhole
  <1>3. MaxPast \in Nat /\ StacksInv
    BY DEF ChipsAssumption, ChipsInv
  <1>4. /\ undone' \in Seq(Pictures) /\ redone' \in Seq(Pictures) /\ Len(undone') + Len(redone') <= MaxPast
        /\ \A i \in DOMAIN undone' : WholePicture(undone'[i], reverted, filedAs)
        /\ \A i \in DOMAIN redone' : WholePicture(redone'[i], reverted, filedAs)
        /\ Last(undone) \in Pictures /\ WholePicture(Last(undone), reverted, filedAs)
    BY <1>1, <1>2, <1>3, PicturesShift DEF StacksInv
  <1>5. StacksInv'
    BY <1>1, <1>4 DEF StacksInv
  <1>6. TextsInv' /\ RecordsInv' /\ IdentsInv' /\ NothingUnreferenced'
    BY <1>1, <1>4, RestoredKeeps
  <1> QED  BY <1>5, <1>6 DEF ChipsInv

LEMMA RedoKeyKeeps ==
    ASSUME ChipsAssumption, ChipsInv, RedoKey
    PROVE  ChipsInv'
  <1>1. app = "open" /\ ~prev.open /\ redone # <<>> /\ redone' = Front(redone) /\ undone' = Append(undone, Picture)
        /\ Restored(Last(redone)) /\ UNCHANGED <<saved, called, prev, others, heard, app, filedAs, reverted>>
    BY DEF RedoKey, Step
  <1>2. Picture \in Pictures /\ WholePicture(Picture, reverted, filedAs)
    BY <1>1, PictureIsWhole
  <1>3. MaxPast \in Nat /\ StacksInv /\ Len(undone) \in Nat /\ Len(redone) \in Nat
    BY DEF ChipsAssumption, ChipsInv, StacksInv
  <1>4. Len(redone) + Len(undone) <= MaxPast
    BY <1>3 DEF StacksInv
  <1>5. /\ redone' \in Seq(Pictures) /\ undone' \in Seq(Pictures) /\ Len(redone') + Len(undone') <= MaxPast
        /\ \A i \in DOMAIN redone' : WholePicture(redone'[i], reverted, filedAs)
        /\ \A i \in DOMAIN undone' : WholePicture(undone'[i], reverted, filedAs)
        /\ Last(redone) \in Pictures /\ WholePicture(Last(redone), reverted, filedAs)
    BY <1>1, <1>2, <1>3, <1>4, PicturesShift DEF StacksInv
  <1>6. Len(undone') \in Nat /\ Len(redone') \in Nat
    BY <1>5
  <1>7. Len(undone') + Len(redone') <= MaxPast
    BY <1>5, <1>6
  <1>8. StacksInv'
    BY <1>1, <1>5, <1>7 DEF StacksInv
  <1>9. TextsInv' /\ RecordsInv' /\ IdentsInv' /\ NothingUnreferenced'
    BY <1>1, <1>5, RestoredKeeps
  <1> QED  BY <1>8, <1>9 DEF ChipsInv
-----------------------------------------------------------------------------
(* The other editor, and the ends of a session.                            *)

LEMMA OtherMakesKeeps ==
    ASSUME ChipsAssumption, ChipsInv, OtherMakes
    PROVE  ChipsInv'
  <1>1. PICK c \in Theirs0 \ others.made :
            others' = [others EXCEPT !.made = @ \cup {c}] /\ records' = records \cup {c}
    BY DEF OtherMakes
  <1>2. app = "open"
        /\ UNCHANGED <<text, saved, known, outputs, cached, called, undone, redone, prev, app, filedAs, reverted, swept>>
    BY DEF OtherMakes, Step, chipsGhosts
  <1>3. c \in ChipIds /\ c \notin Agents0
    BY <1>1 DEF ChipIds, ChipsAssumption
  <1>4. others'.saved \subseteq others'.made /\ others'.made \subseteq Theirs0 /\ others'.made \subseteq records' \cup swept
    BY <1>1 DEF ChipsInv, RecordsInv
  <1>5. TextsInv'
    BY <1>2 DEF ChipsInv, TextsInv
  <1>6. RecordsInv'
    BY <1>1, <1>2, <1>3, <1>4 DEF ChipsInv, RecordsInv, Anchored, Stored
  <1>7. (records' \cup known') \cap Agents0 \subseteq records \cup known
    BY <1>1, <1>2, <1>3
  <1>8. IdentsInv'
    BY <1>2, <1>7, IdentsStay DEF ChipsInv, IdentsInv
  <1>9. StacksInv'
    BY <1>2, FiledAsBefore, StacksStay DEF ChipsInv
  <1> QED  BY <1>2, <1>5, <1>6, <1>8, <1>9 DEF ChipsInv, NothingUnreferenced

LEMMA OtherSavesKeeps ==
    ASSUME ChipsAssumption, ChipsInv, OtherSaves
    PROVE  ChipsInv'
  <1>1. app = "open" /\ others' = [others EXCEPT !.saved = others.made]
        /\ UNCHANGED <<text, saved, known, records, outputs, cached, called, undone, redone, prev, app,
                       filedAs, reverted, swept>>
    BY DEF OtherSaves, Step, chipsGhosts
  <1>2. others'.made = others.made /\ others'.saved = others.made
    BY <1>1 DEF ChipsInv, RecordsInv
  <1>3. TextsInv'
    BY <1>1 DEF ChipsInv, TextsInv
  <1>4. RecordsInv'
    BY <1>1, <1>2 DEF ChipsInv, RecordsInv, Anchored, Stored
  <1>5. IdentsInv'
    BY <1>1, IdentsStay DEF ChipsInv, IdentsInv
  <1>6. StacksInv'
    BY <1>1, FiledAsBefore, StacksStay DEF ChipsInv
  <1> QED  BY <1>1, <1>3, <1>4, <1>5, <1>6 DEF ChipsInv, NothingUnreferenced

\* What a look at the sessions leaves, one chip at a time.
LEMMA HydratedIs ==
    ASSUME NEW was \in [ChipIds -> Idents \cup {Unfiled}], Hydrated(was), IdentsInv, ChipsAssumption,
           \A c \in ChipIds : was[c] = outputs[c]
    PROVE  /\ cached' \in [ChipIds -> Idents \cup {Unfiled}] /\ outputs' \in [ChipIds -> Idents \cup {Unfiled}]
           /\ filedAs' \in [ChipIds -> Titles \cup {Unfiled}]
           /\ \A c \in ChipIds :
                LET looked == c \in records /\ outputs[c] # Unfiled /\ ~outputs[c].taken
                IN  /\ looked => outputs'[c] \in Idents /\ outputs'[c].taken
                    /\ ~looked => outputs'[c] = outputs[c]
                    /\ cached'[c] = IF c \in records THEN outputs'[c] ELSE IF app = "open" THEN cached[c] ELSE Unfiled
                    /\ filedAs'[c] = IF outputs'[c] # Unfiled /\ filedAs[c] = Unfiled THEN outputs'[c].title ELSE filedAs[c]
  <1> DEFINE new == [c \in ChipIds |-> IF c \in records /\ Imports(was[c]) THEN Imported(was[c]) ELSE was[c]]
  <1>1. /\ cached' = [c \in ChipIds |-> IF c \in records THEN new[c] ELSE IF app = "open" THEN cached[c] ELSE Unfiled]
        /\ outputs' = [c \in ChipIds |-> IF c \in records /\ Imports(was[c]) THEN new[c] ELSE outputs[c]]
        /\ filedAs' = [c \in ChipIds |-> IF new[c] # Unfiled /\ filedAs[c] = Unfiled THEN new[c].title ELSE filedAs[c]]
    BY DEF Hydrated
  <1>2. ASSUME NEW c \in ChipIds
        PROVE  LET looked == c \in records /\ outputs[c] # Unfiled /\ ~outputs[c].taken
               IN  /\ looked => new[c] \in Idents /\ new[c].taken
                   /\ ~looked => new[c] = outputs[c]
                   /\ (c \in records /\ Imports(was[c])) <=> looked
    <2>1. CASE c \in records /\ Imports(was[c])
      <3>1. was[c] \in Idents /\ was[c] = outputs[c]
        BY <2>1 DEF Imports
      <3>2. Imported(was[c]) \in Idents /\ Imported(was[c]).taken
        BY <3>1 DEF Imported, Idents, IdentsInv
      <3> QED  BY <2>1, <3>1, <3>2 DEF Imports
    <2>2. CASE ~(c \in records /\ Imports(was[c]))
      BY <2>2 DEF Imports
    <2> QED  BY <2>1, <2>2
  <1> HIDE DEF new
  <1>3. \A c \in ChipIds : new[c] \in Idents \cup {Unfiled} /\ outputs'[c] = new[c]
    BY <1>1, <1>2 DEF IdentsInv
  <1>4. \A c \in ChipIds : new[c] # Unfiled => new[c].title \in Titles
    BY <1>3 DEF Idents
  <1>5. cached' \in [ChipIds -> Idents \cup {Unfiled}] /\ outputs' \in [ChipIds -> Idents \cup {Unfiled}]
    BY <1>1, <1>3 DEF IdentsInv
  <1>6. filedAs' \in [ChipIds -> Titles \cup {Unfiled}]
    BY <1>1, <1>4 DEF IdentsInv
  <1> QED  BY <1>1, <1>2, <1>3, <1>5, <1>6

LEMMA HearKeeps ==
    ASSUME ChipsAssumption, ChipsInv, Hear
    PROVE  ChipsInv'
  <1>1. app = "open" /\ ~prev.open /\ known' = records /\ Hydrated([c \in ChipIds |-> LoadSession(c)])
        /\ UNCHANGED <<text, saved, records, called, undone, redone, prev, others, app, reverted, swept>>
    BY DEF Hear, MayHear
  <1> DEFINE was == [c \in ChipIds |-> LoadSession(c)]
  <1>2. IdentsInv /\ (\A c \in ChipIds : was[c] = outputs[c]) /\ was \in [ChipIds -> Idents \cup {Unfiled}]
    BY LoadedIsTheRow DEF ChipsInv, IdentsInv
  <1> HIDE DEF was
  <1>3. Hydrated(was)
    BY <1>1 DEF was
  <1>4. \A c \in ChipIds : outputs[c] # Unfiled => outputs[c].taken /\ filedAs[c] = outputs[c].title /\ outputs[c] \in Idents
    BY <1>1, <1>2 DEF IdentsInv, FiledSo
  <1>5. \A c \in ChipIds : /\ outputs'[c] = outputs[c] /\ filedAs'[c] = filedAs[c]
                            /\ cached'[c] = IF c \in records THEN outputs[c] ELSE cached[c]
    BY <1>1, <1>2, <1>3, <1>4, HydratedIs DEF Idents, ChipsAssumption
  <1>6. /\ cached' \in [ChipIds -> Idents \cup {Unfiled}] /\ outputs' \in [ChipIds -> Idents \cup {Unfiled}]
        /\ filedAs' \in [ChipIds -> Titles \cup {Unfiled}]
    BY <1>2, <1>3, HydratedIs
  <1>7. \A c \in ChipIds : FiledSo(c)' /\ (cached'[c] # Unfiled => cached'[c] = outputs'[c])
    BY <1>1, <1>2, <1>4, <1>5 DEF FiledSo, IdentsInv
  <1>8. \A c \in (records' \cup known') \cap Agents0 : outputs'[c] # Unfiled
    BY <1>1, <1>2, <1>5 DEF IdentsInv, ChipIds
  <1>9. IdentsInv'
    BY <1>1, <1>2, <1>6, <1>7, <1>8 DEF IdentsInv
  <1>10. TextsInv'
    BY <1>1 DEF ChipsInv, TextsInv
  <1>11. RecordsInv'
    BY <1>1 DEF ChipsInv, RecordsInv, Anchored, Stored
  <1>12. Refiles({})
    BY <1>1, <1>5 DEF Refiles, Unpictured
  <1>13. StacksInv'
    BY <1>1, <1>12, StacksStay DEF ChipsInv
  <1> QED  BY <1>1, <1>9, <1>10, <1>11, <1>13 DEF ChipsInv, NothingUnreferenced

LEMMA QuitEditorKeeps ==
    ASSUME ChipsAssumption, ChipsInv, QuitEditor
    PROVE  ChipsInv'
  <1>1. app = "open" /\ ~prev.open /\ app' = "quit" /\ saved' = text /\ records' = records \cap (Anchored \cup others.saved)
        /\ swept' = swept \cup ((others.made \ others.saved) \cap records)
        /\ UNCHANGED <<text, known, outputs, cached, called, undone, redone, prev, others, filedAs, reverted>>
    BY DEF QuitEditor, Referenced
  <1>2. TextsInv /\ RecordsInv /\ Anchored' = Anchored /\ Stored' = Anchored
    BY <1>1 DEF ChipsInv, Anchored, Stored
  <1>3. Anchored \cap Theirs0 = {}
    BY <1>2 DEF TextsInv, ChipTexts, Anchored, MyChips, ChipsAssumption
  <1>4. TextsInv'
    BY <1>1, <1>2 DEF TextsInv
  <1>5. RecordsInv'
    BY <1>1, <1>2 DEF RecordsInv
  <1>6. IdentsInv'
    BY <1>1, IdentsStay DEF ChipsInv, IdentsInv
  <1>7. StacksInv'
    BY <1>1, FiledAsBefore, StacksStay DEF ChipsInv
  <1>8. records' \ others.made = Anchored \ (reverted \ records')
    BY <1>1, <1>2, <1>3 DEF RecordsInv
  <1>9. NothingUnreferenced'
    BY <1>1, <1>2, <1>8 DEF NothingUnreferenced
  <1> QED  BY <1>4, <1>5, <1>6, <1>7, <1>9 DEF ChipsInv

LEMMA CrashEditorKeeps ==
    ASSUME ChipsAssumption, ChipsInv, CrashEditor
    PROVE  ChipsInv'
  <1>1. app = "open" /\ app' = "gone" /\ prev' = [open |-> FALSE, text |-> {}]
        /\ reverted' = reverted \cup (Stored \ records)
        /\ UNCHANGED <<text, saved, known, records, outputs, cached, called, undone, redone, others, filedAs, swept>>
    BY DEF CrashEditor
  <1>2. TextsInv'
    BY <1>1 DEF ChipsInv, TextsInv
  <1>3. RecordsInv'
    BY <1>1 DEF ChipsInv, RecordsInv, Anchored, Stored
  <1>4. IdentsInv'
    BY <1>1, IdentsStay DEF ChipsInv, IdentsInv
  <1>5. StacksInv'
    BY <1>1, FiledAsBefore, StacksStay DEF ChipsInv
  <1> QED  BY <1>1, <1>2, <1>3, <1>4, <1>5 DEF ChipsInv, NothingUnreferenced

LEMMA OpenEditorKeeps ==
    ASSUME ChipsAssumption, ChipsInv, OpenEditor
    PROVE  ChipsInv'
  <1>1. app # "open" /\ app' = "open" /\ text' = saved /\ known' = records /\ undone' = <<>> /\ redone' = <<>>
        /\ Hydrated(outputs) /\ UNCHANGED <<saved, records, called, prev, others, reverted, swept>>
    BY DEF OpenEditor
  <1>2. IdentsInv /\ outputs \in [ChipIds -> Idents \cup {Unfiled}]
    BY DEF ChipsInv, IdentsInv
  <1>3. /\ cached' \in [ChipIds -> Idents \cup {Unfiled}] /\ outputs' \in [ChipIds -> Idents \cup {Unfiled}]
        /\ filedAs' \in [ChipIds -> Titles \cup {Unfiled}]
    BY <1>1, <1>2, HydratedIs
  <1>4. ASSUME NEW c \in ChipIds
        PROVE  FiledSo(c)' /\ (cached'[c] # Unfiled => cached'[c] = outputs'[c]) /\ (outputs[c] # Unfiled => outputs'[c] # Unfiled)
    <2> DEFINE looked == c \in records /\ outputs[c] # Unfiled /\ ~outputs[c].taken
    <2>1. /\ looked => outputs'[c] \in Idents /\ outputs'[c].taken
          /\ ~looked => outputs'[c] = outputs[c]
          /\ cached'[c] = IF c \in records THEN outputs'[c] ELSE Unfiled
          /\ filedAs'[c] = IF outputs'[c] # Unfiled /\ filedAs[c] = Unfiled THEN outputs'[c].title ELSE filedAs[c]
      BY <1>1, <1>2, HydratedIs
    <2>2. FiledSo(c) /\ Unfiled \notin Idents /\ (outputs[c] # Unfiled => outputs[c] \in Idents)
      BY <1>2 DEF IdentsInv, ChipsAssumption
    <2>3. CASE looked
      BY <1>1, <2>1, <2>2, <2>3 DEF FiledSo
    <2>4. CASE ~looked
      BY <1>1, <2>1, <2>2, <2>4 DEF FiledSo, Idents, ChipsAssumption
    <2> QED  BY <2>3, <2>4
  <1>5. \A c \in (records' \cup known') \cap Agents0 : outputs'[c] # Unfiled
    BY <1>1, <1>2, <1>4 DEF IdentsInv, ChipIds
  <1>6. IdentsInv'
    BY <1>1, <1>2, <1>3, <1>4, <1>5 DEF IdentsInv
  <1>7. TextsInv /\ ~prev.open /\ prev.text = {}
    BY <1>1 DEF ChipsInv, TextsInv
  <1>8. TextsInv'
    BY <1>1, <1>7 DEF TextsInv
  <1>9. RecordsInv'
    BY <1>1 DEF ChipsInv, RecordsInv, Anchored, Stored
  <1>10. StacksInv'
    <2>1. undone' \in Seq(Pictures) /\ redone' \in Seq(Pictures) /\ Len(undone') = 0 /\ Len(redone') = 0
          /\ DOMAIN undone' = {} /\ DOMAIN redone' = {}
      BY <1>1
    <2> QED  BY <2>1 DEF StacksInv, ChipsAssumption
  <1> QED  BY <1>1, <1>6, <1>8, <1>9, <1>10 DEF ChipsInv, NothingUnreferenced

-----------------------------------------------------------------------------
(* The theorem.                                                            *)

LEMMA ChipsInitHolds ==
    ASSUME ChipsAssumption, ChipsInit
    PROVE  ChipsInv
  <1>1. PICK old \in SUBSET Agents0, title \in Titles :
            /\ text = [s \in Surfaces |-> IF s = "name" THEN old ELSE {}] /\ records = old
            /\ outputs = [c \in ChipIds |-> IF c \in old THEN [title |-> title, name |-> FALSE, taken |-> FALSE] ELSE Unfiled]
    BY DEF ChipsInit
  <1>2. /\ saved = text /\ known = {} /\ cached = [c \in ChipIds |-> Unfiled] /\ called \in Titles /\ undone = <<>>
        /\ redone = <<>> /\ prev = [open |-> FALSE, text |-> {}] /\ others = [made |-> {}, saved |-> {}] /\ app = "quit"
        /\ filedAs = cached /\ chipSteps = 0
    BY DEF ChipsInit
  <1>3. old \subseteq MyChips /\ old \subseteq ChipIds
    BY DEF MyChips, ChipIds
  <1>4. text \in [Surfaces -> SUBSET MyChips] /\ text["above"] = {} /\ text["note"] = {} /\ text["name"] = old
    BY <1>1, <1>3 DEF Surfaces
  <1>5. text \in ChipTexts /\ Stored = old
    BY <1>2, <1>4, ThreeTexts
  <1>6. TextsInv
    BY <1>2, <1>5 DEF TextsInv
  <1>7. RecordsInv
    BY <1>1, <1>2, <1>3, <1>5 DEF RecordsInv
  <1>8. [title |-> title, name |-> FALSE, taken |-> FALSE] \in Idents
    BY DEF Idents
  <1>9. IdentsInv
    BY <1>1, <1>2, <1>3, <1>8 DEF IdentsInv, FiledSo, ChipsAssumption
  <1>10. StacksInv
    <2>1. undone \in Seq(Pictures) /\ redone \in Seq(Pictures) /\ Len(undone) = 0 /\ Len(redone) = 0
          /\ DOMAIN undone = {} /\ DOMAIN redone = {}
      BY <1>2
    <2> QED  BY <2>1 DEF StacksInv, ChipsAssumption
  <1> QED  BY <1>2, <1>6, <1>7, <1>9, <1>10 DEF ChipsInv, NothingUnreferenced

\* What the properties say of a state is what the invariant says of it.
LEMMA ChipsInvIsEnough ==
    ASSUME ChipsAssumption, ChipsInv
    PROVE  ChipsFollowTheText
  <1>1. IdentsInv /\ RecordsInv /\ TextsInv /\ StacksInv /\ MyChips \subseteq ChipIds
    BY DEF ChipsInv, MyChips, ChipIds
  <1>2. ChipsTypeOK
    <2>1. text \in [Surfaces -> SUBSET ChipIds] /\ saved \in [Surfaces -> SUBSET ChipIds]
      BY <1>1 DEF TextsInv, ChipTexts
    <2>2. Len(undone) <= MaxPast
      <3>1. Len(undone) \in Nat /\ Len(redone) \in Nat /\ Len(undone) + Len(redone) <= MaxPast /\ MaxPast \in Nat
        BY <1>1 DEF StacksInv, ChipsAssumption
      <3> QED  BY <3>1
    <2>3. \A c \in ChipIds : outputs[c] # Unfiled => outputs[c].title \in Titles
      BY <1>1 DEF IdentsInv, Idents
    <2> QED  BY <1>1, <2>1, <2>2, <2>3 DEF ChipsTypeOK, TextsInv
  <1>3. AnchorsHaveRecords
    BY <1>1 DEF AnchorsHaveRecords, RecordsInv
  <1>4. TheirChipsStay
    BY <1>1 DEF TheirChipsStay, RecordsInv
  <1>5. \A c \in ChipIds : LoadSession(c) = outputs[c]
    BY <1>1, LoadedIsTheRow
  <1>6. SessionChipsHaveSessions
    BY <1>1, <1>5 DEF SessionChipsHaveSessions, RecordsInv, IdentsInv, ChipIds
  <1>7. IdentityIsASnapshot
    BY <1>1, <1>5 DEF IdentityIsASnapshot, IdentsInv, FiledSo, ChipIds
  <1>8. CacheIsTheRow
    BY <1>1 DEF CacheIsTheRow, IdentsInv
  <1> QED  BY <1>2, <1>3, <1>4, <1>6, <1>7, <1>8 DEF ChipsFollowTheText, ChipsInv

\* However chips are made, deleted, merged, undone, reverted, saved, collected and reloaded,
\* each anchor keeps its record, each session its identity, and the records of the other
\* editor stay: at every state of every run, for any chips, titles and bounds.
THEOREM ChipsAlwaysFollow == ChipsSpec => []ChipsFollowTheText
  <1>1. ASSUME ChipsInv, [ChipsNext]_chipsVars PROVE ChipsInv'
    <2>1. CASE ChipsNext
      BY <1>1, <2>1, ChipsAssumption, ChipifyKeeps, DeleteAnchorKeeps, DeleteRowKeeps, MergeUpKeeps, OpenNoteKeeps,
         EscNoteKeeps, EnterNoteKeeps, SaveTextsKeeps, PickSessionKeeps, CliRenamesKeeps, RenameHereKeeps, UndoKeyKeeps,
         RedoKeyKeeps, OtherMakesKeeps, OtherSavesKeeps, HearKeeps, QuitEditorKeeps, CrashEditorKeeps, OpenEditorKeeps
      DEF ChipsNext
    <2>2. CASE UNCHANGED chipsVars
      BY <1>1, <2>2 DEF chipsVars, ChipsInv, TextsInv, RecordsInv, IdentsInv, FiledSo, StacksInv, NothingUnreferenced,
         Anchored, Stored
    <2> QED  BY <1>1, <2>1, <2>2
  <1>2. ChipsInit => ChipsInv
    BY ChipsAssumption, ChipsInitHolds
  <1>3. ChipsInv => ChipsFollowTheText
    BY ChipsAssumption, ChipsInvIsEnough
  <1> QED  BY <1>1, <1>2, <1>3, PTL DEF ChipsSpec

-----------------------------------------------------------------------------
(* Texts: what is placed into them and taken away.                         *)

LEMMA SameText ==
    ASSUME NEW s \in Runes, NEW t \in Runes, Len(s) = Len(t), \A i \in 1..Len(t) : s[i] = t[i]
    PROVE  s = t
BY DEF Runes

LEMMA PartOfText ==
    ASSUME NEW t \in Runes, NEW m \in 1..(Len(t) + 1), NEW n \in 0..Len(t), m <= n + 1
    PROVE  /\ SubSeq(t, m, n) \in Runes /\ Len(SubSeq(t, m, n)) = n - m + 1
           /\ \A i \in 1..(n - m + 1) : SubSeq(t, m, n)[i] = t[m + i - 1]
<1>1. \A i \in m..n : t[i] \in Rune
  BY DEF Runes
<1>2. Len(t) \in Nat
  BY DEF Runes
<1>3. SubSeq(t, m, n) = [i \in 1..(n - m + 1) |-> t[m + i - 1]]
  <2>1. CASE m <= n
    BY <1>2, <2>1 DEF Runes
  <2>2. CASE ~(m <= n)
    BY <1>2, <2>2 DEF Runes
  <2>. QED BY <2>1, <2>2
<1>4. \A i \in 1..(n - m + 1) : t[m + i - 1] \in Rune
  BY <1>1, <1>2
<1>5. n - m + 1 \in Nat
  BY <1>2
<1> DEFINE k == n - m + 1
           part == [i \in 1..k |-> t[m + i - 1]]
<1>6. \A i \in 1..k : t[m + i - 1] \in Rune
  BY <1>4
<1>7. k \in Nat /\ SubSeq(t, m, n) = part
  BY <1>3, <1>5
<1> HIDE DEF k
<1>8. part \in Seq(Rune) /\ Len(part) = k /\ \A i \in 1..k : part[i] = t[m + i - 1]
  BY <1>6, <1>7
<1> HIDE DEF part
<1>9. SubSeq(t, m, n) \in Runes /\ Len(SubSeq(t, m, n)) = k /\ \A i \in 1..k : SubSeq(t, m, n)[i] = t[m + i - 1]
  BY <1>7, <1>8 DEF Runes
<1>. QED BY <1>9 DEF k

LEMMA TwoTexts ==
    ASSUME NEW s \in Runes, NEW t \in Runes
    PROVE  /\ s \o t \in Runes /\ Len(s \o t) = Len(s) + Len(t) /\ Len(s) \in Nat /\ Len(t) \in Nat
           /\ \A i \in 1..(Len(s) + Len(t)) : (s \o t)[i] = IF i <= Len(s) THEN s[i] ELSE t[i - Len(s)]
BY DEF Runes

LEMMA ReverseOf ==
    ASSUME NEW t \in Runes
    PROVE  Reverse(t) \in Runes /\ Len(Reverse(t)) = Len(t) /\ \A i \in 1..Len(t) : Reverse(t)[i] = t[Len(t) - i + 1]
<1>1. Len(t) \in Nat /\ \A i \in 1..Len(t) : t[i] \in Rune
  BY DEF Runes
<1>2. \A i \in 1..Len(t) : Len(t) - i + 1 \in 1..Len(t)
  BY <1>1
<1>. QED BY <1>1, <1>2 DEF Reverse, Runes

LEMMA SamePart ==
    ASSUME NEW s \in Runes, NEW t \in Runes, Len(s) <= Len(t), \A i \in 1..Len(s) : s[i] = t[i]
    PROVE  IsPrefix(s, t)
<1>1. Len(s) \in Nat /\ Len(t) \in Nat
  BY DEF Runes
<1>2. /\ SubSeq(s, 1, Len(s)) \in Runes /\ Len(SubSeq(s, 1, Len(s))) = Len(s)
      /\ \A i \in 1..Len(s) : SubSeq(s, 1, Len(s))[i] = s[i]
  BY <1>1, PartOfText
<1>3. /\ SubSeq(t, 1, Len(s)) \in Runes /\ Len(SubSeq(t, 1, Len(s))) = Len(s)
      /\ \A i \in 1..Len(s) : SubSeq(t, 1, Len(s))[i] = t[i]
  BY <1>1, PartOfText
<1>. QED BY <1>2, <1>3, SameText DEF IsPrefix

LEMMA PlacedAt ==
    ASSUME NEW t \in Runes, NEW at \in 0..Len(t), NEW r \in Runes
    PROVE  /\ Placed(t, at, r) \in Runes /\ Len(Placed(t, at, r)) = Len(t) + Len(r) /\ Len(t) \in Nat /\ Len(r) \in Nat
           /\ \A i \in 1..(Len(t) + Len(r)) :
                Placed(t, at, r)[i] = IF i <= at THEN t[i] ELSE IF i <= at + Len(r) THEN r[i - at] ELSE t[i - Len(r)]
<1> DEFINE a == SubSeq(t, 1, at)
           b == SubSeq(t, at + 1, Len(t))
<1>1. Len(t) \in Nat /\ Len(r) \in Nat
  BY DEF Runes
<1>2. a \in Runes /\ Len(a) = at /\ \A i \in 1..at : a[i] = t[i]
  BY <1>1, PartOfText
<1>3. b \in Runes /\ Len(b) = Len(t) - at /\ \A i \in 1..(Len(t) - at) : b[i] = t[at + i]
  BY <1>1, PartOfText
<1> HIDE DEF a, b
<1> DEFINE p == a \o r
<1>4. /\ p \in Runes /\ Len(p) = at + Len(r)
      /\ \A i \in 1..(at + Len(r)) : p[i] = IF i <= at THEN a[i] ELSE r[i - at]
  BY <1>2, TwoTexts
<1> HIDE DEF p
<1>5. /\ p \o b \in Runes /\ Len(p \o b) = Len(p) + Len(b)
      /\ \A i \in 1..(Len(p) + Len(b)) : (p \o b)[i] = IF i <= Len(p) THEN p[i] ELSE b[i - Len(p)]
  BY ONLY <1>3, <1>4, TwoTexts
<1>6. Placed(t, at, r) = p \o b /\ Len(p) + Len(b) = Len(t) + Len(r)
  <2>1. Placed(t, at, r) = p \o b
    BY DEF Placed, a, b, p
  <2>. QED BY <1>1, <1>3, <1>4, <2>1
<1>7. ASSUME NEW i \in 1..(Len(t) + Len(r))
      PROVE  Placed(t, at, r)[i] = IF i <= at THEN t[i] ELSE IF i <= at + Len(r) THEN r[i - at] ELSE t[i - Len(r)]
  <2>1. CASE i <= at
    BY <1>1, <1>2, <1>4, <1>5, <1>6, <2>1
  <2>2. CASE ~(i <= at) /\ i <= at + Len(r)
    BY <1>1, <1>4, <1>5, <1>6, <2>2
  <2>3. CASE ~(i <= at + Len(r))
    <3>1. i - (at + Len(r)) \in 1..(Len(t) - at) /\ at + (i - (at + Len(r))) = i - Len(r)
      BY <1>1, <2>3
    <3>2. i \in 1..(Len(p) + Len(b)) /\ ~(i <= Len(p)) /\ i - Len(p) = i - (at + Len(r))
      BY <1>1, <1>4, <1>6, <2>3
    <3>4. Placed(t, at, r)[i] = b[i - (at + Len(r))]
      BY ONLY <1>5, <1>6, <3>2
    <3>3. b[i - (at + Len(r))] = t[i - Len(r)]
      BY <1>3, <3>1
    <3>. QED BY <1>1, <2>3, <3>4, <3>3
  <2>4. i <= at => i <= at + Len(r)
    BY <1>1
  <2>. QED BY <2>1, <2>2, <2>3, <2>4
<1>8. Len(p \o b) = Len(t) + Len(r)
  BY <1>5, <1>6
<1>. QED BY <1>1, <1>5, <1>6, <1>7, <1>8

LEMMA TakenAwayAt ==
    ASSUME NEW t \in Runes, NEW from \in 0..Len(t), NEW to \in Nat, from <= to
    PROVE  /\ Bound(to, t) \in from..Len(t) /\ TakenAway(t, from, to) \in Runes /\ Len(t) \in Nat
           /\ Len(TakenAway(t, from, to)) = Len(t) - (Bound(to, t) - from)
           /\ \A i \in 1..(Len(t) - (Bound(to, t) - from)) :
                TakenAway(t, from, to)[i] = IF i <= from THEN t[i] ELSE t[i + (Bound(to, t) - from)]
<1> DEFINE e == Bound(to, t)
           a == SubSeq(t, 1, from)
           b == SubSeq(t, e + 1, Len(t))
<1>1. Len(t) \in Nat
  BY DEF Runes
<1>2. e \in from..Len(t) /\ e \in Nat
  BY <1>1 DEF Bound
<1>3. a \in Runes /\ Len(a) = from /\ \A i \in 1..from : a[i] = t[i]
  BY <1>1, PartOfText
<1>4. b \in Runes /\ Len(b) = Len(t) - e /\ \A i \in 1..(Len(t) - e) : b[i] = t[e + i]
  <2> HIDE DEF e
  <2>. QED BY <1>1, <1>2, PartOfText
<1>5. TakenAway(t, from, to) = a \o b
  BY DEF TakenAway
<1> HIDE DEF e, a, b
<1>6. /\ a \o b \in Runes /\ Len(a \o b) = Len(a) + Len(b)
      /\ \A i \in 1..(Len(a) + Len(b)) : (a \o b)[i] = IF i <= Len(a) THEN a[i] ELSE b[i - Len(a)]
  BY ONLY <1>3, <1>4, TwoTexts
<1>7. ASSUME NEW i \in 1..(Len(t) - (e - from))
      PROVE  (a \o b)[i] = IF i <= from THEN t[i] ELSE t[i + (e - from)]
  <2>1. CASE i <= from
    BY <1>1, <1>2, <1>3, <1>6, <2>1
  <2>2. CASE ~(i <= from)
    <3>1. i - from \in 1..(Len(t) - e) /\ e + (i - from) = i + (e - from)
      BY <1>1, <1>2, <2>2
    <3>3. i \in 1..(Len(a) + Len(b)) /\ ~(i <= Len(a)) /\ i - Len(a) = i - from
      BY <1>1, <1>2, <1>3, <1>4, <2>2
    <3>2. (a \o b)[i] = b[i - from]
      BY ONLY <1>6, <3>3
    <3>. QED BY <1>4, <2>2, <3>1, <3>2
  <2>. QED BY <2>1, <2>2
<1>8. Len(a \o b) = Len(t) - (e - from)
  BY <1>1, <1>2, <1>3, <1>4, <1>6
<1>. QED BY <1>1, <1>2, <1>5, <1>6, <1>7, <1>8 DEF e

\* Inside what was placed.
LEMMA PlacedInside ==
    ASSUME NEW t \in Runes, NEW s \in 0..Len(t), NEW m \in Runes, NEW i \in 0..Len(m), NEW r \in Runes
    PROVE  Placed(Placed(t, s, m), s + i, r) = Placed(t, s, Placed(m, i, r))
<1> DEFINE p == Placed(t, s, m)
           q == Placed(m, i, r)
           lt == Len(t)
           lm == Len(m)
           lr == Len(r)
<1>1. /\ p \in Runes /\ Len(p) = lt + lm /\ lt \in Nat /\ lm \in Nat
      /\ \A k \in 1..(lt + lm) : p[k] = IF k <= s THEN t[k] ELSE IF k <= s + lm THEN m[k - s] ELSE t[k - lm]
  BY PlacedAt
<1>2. /\ q \in Runes /\ Len(q) = lm + lr /\ lr \in Nat
      /\ \A k \in 1..(lm + lr) : q[k] = IF k <= i THEN m[k] ELSE IF k <= i + lr THEN r[k - i] ELSE m[k - lr]
  BY PlacedAt
<1> HIDE DEF p, q
<1>3. s + i \in 0..Len(p)
  BY <1>1
<1>4. /\ Placed(p, s + i, r) \in Runes /\ Len(Placed(p, s + i, r)) = Len(p) + lr
      /\ \A k \in 1..(Len(p) + lr) :
           Placed(p, s + i, r)[k] = IF k <= s + i THEN p[k] ELSE IF k <= s + i + lr THEN r[k - (s + i)] ELSE p[k - lr]
  BY <1>1, <1>3, PlacedAt
<1>5. /\ Placed(t, s, q) \in Runes /\ Len(Placed(t, s, q)) = lt + Len(q)
      /\ \A k \in 1..(lt + Len(q)) :
           Placed(t, s, q)[k] = IF k <= s THEN t[k] ELSE IF k <= s + Len(q) THEN q[k - s] ELSE t[k - Len(q)]
  BY <1>2, PlacedAt
<1> HIDE DEF lt, lm, lr
<1>6. s \in Nat /\ s <= lt /\ i \in Nat /\ i <= lm
  BY <1>1 DEF lt, lm
<1>7. ASSUME NEW k \in 1..(lt + lm + lr) PROVE Placed(p, s + i, r)[k] = Placed(t, s, q)[k]
  <2>1. k \in 1..(Len(p) + lr) /\ k \in 1..(lt + Len(q)) /\ k \in Nat
    BY ONLY <1>1, <1>2
  <2>2. CASE k <= s
    <3>1. k <= s + i /\ k \in 1..(lt + lm)
      BY ONLY <1>1, <1>6, <2>1, <2>2
    <3>2. Placed(p, s + i, r)[k] = p[k] /\ p[k] = t[k]
      BY ONLY <1>1, <1>4, <2>1, <2>2, <3>1
    <3>3. Placed(t, s, q)[k] = t[k]
      BY ONLY <1>5, <2>1, <2>2
    <3>. QED BY ONLY <3>2, <3>3
  <2>3. CASE s < k /\ k <= s + i
    <3>1. k - s \in 1..(lm + lr) /\ k - s <= i /\ k \in 1..(lt + lm) /\ ~(k <= s) /\ k <= s + lm /\ k <= s + Len(q)
      BY ONLY <1>1, <1>2, <1>6, <2>1, <2>3
    <3>2. Placed(p, s + i, r)[k] = p[k]
      BY ONLY <1>4, <2>1, <2>3
    <3>3. p[k] = m[k - s]
      BY ONLY <1>1, <3>1
    <3>4. Placed(t, s, q)[k] = q[k - s]
      BY ONLY <1>5, <2>1, <3>1
    <3>5. q[k - s] = m[k - s]
      BY ONLY <1>2, <3>1
    <3>. QED BY ONLY <3>2, <3>3, <3>4, <3>5
  <2>4. CASE s + i < k /\ k <= s + i + lr
    <3>1. k - s \in 1..(lm + lr) /\ i < k - s /\ k - s <= i + lr /\ (k - s) - i = k - (s + i) /\ k <= s + Len(q) /\ ~(k <= s) /\ ~(k <= s + i)
      BY ONLY <1>1, <1>2, <1>6, <2>1, <2>4
    <3>2. Placed(t, s, q)[k] = q[k - s]
      BY ONLY <1>5, <2>1, <3>1
    <3>3. q[k - s] = r[(k - s) - i]
      BY ONLY <1>2, <1>6, <2>1, <3>1
    <3>4. Placed(p, s + i, r)[k] = r[k - (s + i)]
      BY ONLY <1>4, <2>1, <2>4, <3>1
    <3>. QED BY ONLY <3>1, <3>2, <3>3, <3>4
  <2>5. CASE s + i + lr < k /\ k <= s + lm + lr
    <3>1. /\ k - s \in 1..(lm + lr) /\ ~(k - s <= i) /\ ~(k - s <= i + lr) /\ (k - s) - lr = (k - lr) - s
          /\ k <= s + Len(q) /\ ~(k <= s) /\ ~(k <= s + i) /\ ~(k <= s + i + lr)
          /\ k - lr \in 1..(lt + lm) /\ ~(k - lr <= s) /\ k - lr <= s + lm
      BY ONLY <1>1, <1>2, <1>6, <2>1, <2>5
    <3>2. Placed(t, s, q)[k] = q[k - s]
      BY ONLY <1>5, <2>1, <3>1
    <3>3. q[k - s] = m[(k - s) - lr]
      BY ONLY <1>2, <3>1
    <3>4. Placed(p, s + i, r)[k] = p[k - lr]
      BY ONLY <1>4, <2>1, <3>1
    <3>5. p[k - lr] = m[(k - lr) - s]
      BY ONLY <1>1, <3>1
    <3>. QED BY ONLY <3>1, <3>2, <3>3, <3>4, <3>5
  <2>6. CASE s + lm + lr < k
    <3>1. /\ ~(k <= s + Len(q)) /\ ~(k <= s) /\ ~(k <= s + i) /\ ~(k <= s + i + lr)
          /\ k - lr \in 1..(lt + lm) /\ ~(k - lr <= s) /\ ~(k - lr <= s + lm) /\ (k - lr) - lm = k - Len(q)
      BY ONLY <1>1, <1>2, <1>6, <2>1, <2>6
    <3>2. Placed(t, s, q)[k] = t[k - Len(q)]
      BY ONLY <1>5, <2>1, <3>1
    <3>4. Placed(p, s + i, r)[k] = p[k - lr]
      BY ONLY <1>4, <2>1, <3>1
    <3>5. p[k - lr] = t[(k - lr) - lm]
      BY ONLY <1>1, <3>1
    <3>. QED BY ONLY <3>1, <3>2, <3>4, <3>5
  <2>. QED BY ONLY <1>1, <1>2, <1>6, <2>1, <2>2, <2>3, <2>4, <2>5, <2>6
<1>8. Len(Placed(p, s + i, r)) = lt + lm + lr /\ Len(Placed(t, s, q)) = lt + lm + lr
  BY ONLY <1>1, <1>2, <1>4, <1>5
<1>9. Placed(p, s + i, r) = Placed(t, s, q)
  BY ONLY <1>4, <1>5, <1>7, <1>8, SameText
<1>. QED BY <1>9 DEF p, q

LEMMA TakenInside ==
    ASSUME NEW t \in Runes, NEW s \in 0..Len(t), NEW m \in Runes, NEW i \in 0..Len(m), NEW j \in i..Len(m)
    PROVE  TakenAway(Placed(t, s, m), s + i, s + j) = Placed(t, s, TakenAway(m, i, j))
<1> DEFINE p == Placed(t, s, m)
           q == TakenAway(m, i, j)
           lt == Len(t)
           lm == Len(m)
           c == TakenAway(p, s + i, s + j)
           d == Placed(t, s, q)
<1>1. /\ p \in Runes /\ Len(p) = lt + lm /\ lt \in Nat /\ lm \in Nat
      /\ \A k \in 1..(lt + lm) : p[k] = IF k <= s THEN t[k] ELSE IF k <= s + lm THEN m[k - s] ELSE t[k - lm]
  BY PlacedAt
<1>0. j \in Nat /\ i <= j /\ j <= lm /\ s \in Nat /\ s <= lt /\ i \in Nat
  BY <1>1
<1>2. /\ q \in Runes /\ Len(q) = lm - (j - i)
      /\ \A k \in 1..(lm - (j - i)) : q[k] = IF k <= i THEN m[k] ELSE m[k + (j - i)]
  <2>1. Bound(j, m) = j
    BY <1>0, <1>1 DEF Bound
  <2>2. j \in Nat /\ i <= j /\ i \in 0..Len(m)
    BY <1>0
  <2>3. /\ TakenAway(m, i, j) \in Runes /\ Len(TakenAway(m, i, j)) = Len(m) - (Bound(j, m) - i)
        /\ \A k \in 1..(Len(m) - (Bound(j, m) - i)) : TakenAway(m, i, j)[k] = IF k <= i THEN m[k] ELSE m[k + (Bound(j, m) - i)]
    BY ONLY <2>2, m \in Runes, TakenAwayAt
  <2>. QED BY <2>1, <2>3
<1> HIDE DEF p, q
<1>3. /\ c \in Runes /\ Len(c) = Len(p) - (j - i)
      /\ \A k \in 1..(Len(p) - (j - i)) : c[k] = IF k <= s + i THEN p[k] ELSE p[k + (j - i)]
  <2>1. s + i \in 0..Len(p) /\ s + j \in Nat /\ s + i <= s + j /\ Bound(s + j, p) = s + j /\ (s + j) - (s + i) = j - i
    BY <1>0, <1>1 DEF Bound
  <2> DEFINE from == s + i
             to == s + j
  <2>2. from \in 0..Len(p) /\ to \in Nat /\ from <= to /\ p \in Runes
    BY <1>1, <2>1
  <2> HIDE DEF from, to
  <2>3. /\ TakenAway(p, from, to) \in Runes /\ Len(TakenAway(p, from, to)) = Len(p) - (Bound(to, p) - from)
        /\ \A k \in 1..(Len(p) - (Bound(to, p) - from)) : TakenAway(p, from, to)[k] = IF k <= from THEN p[k] ELSE p[k + (Bound(to, p) - from)]
    BY ONLY <2>2, TakenAwayAt
  <2>4. Bound(to, p) - from = j - i /\ from = s + i /\ c = TakenAway(p, from, to)
    BY <2>1 DEF from, to
  <2>. QED BY ONLY <2>3, <2>4
<1>4. /\ d \in Runes /\ Len(d) = lt + Len(q)
      /\ \A k \in 1..(lt + Len(q)) : d[k] = IF k <= s THEN t[k] ELSE IF k <= s + Len(q) THEN q[k - s] ELSE t[k - Len(q)]
  BY <1>2, PlacedAt
<1> HIDE DEF lt, lm, c, d
<1>5. ASSUME NEW k \in 1..(lt + lm - (j - i)) PROVE c[k] = d[k]
  <2>1. k \in 1..(Len(p) - (j - i)) /\ k \in 1..(lt + Len(q)) /\ k \in Nat
    BY ONLY <1>0, <1>1, <1>2
  <2>2. CASE k <= s
    BY ONLY <1>0, <1>1, <1>2, <1>3, <1>4, <2>1, <2>2
  <2>3. CASE s < k /\ k <= s + i
    <3>1. k - s \in 1..(lm - (j - i)) /\ k - s <= i /\ k <= s + Len(q) /\ k \in 1..(lt + lm) /\ k <= s + lm /\ ~(k <= s)
      BY ONLY <1>0, <1>1, <1>2, <2>1, <2>3
    <3>2. c[k] = p[k] /\ p[k] = m[k - s]
      BY ONLY <1>1, <1>3, <2>1, <2>3, <3>1
    <3>3. d[k] = q[k - s]
      BY ONLY <1>4, <2>1, <3>1
    <3>4. q[k - s] = m[k - s]
      BY ONLY <1>2, <3>1
    <3>. QED BY ONLY <3>2, <3>3, <3>4
  <2>4. CASE s + i < k /\ k <= s + Len(q)
    <3>1. /\ k - s \in 1..(lm - (j - i)) /\ ~(k - s <= i) /\ ~(k <= s) /\ ~(k <= s + i)
          /\ k + (j - i) \in 1..(lt + lm) /\ ~(k + (j - i) <= s) /\ k + (j - i) <= s + lm /\ (k + (j - i)) - s = (k - s) + (j - i)
      BY ONLY <1>0, <1>1, <1>2, <2>1, <2>4
    <3>2. c[k] = p[k + (j - i)]
      BY ONLY <1>3, <2>1, <3>1
    <3>3. p[k + (j - i)] = m[(k + (j - i)) - s]
      BY ONLY <1>1, <3>1
    <3>4. d[k] = q[k - s]
      BY ONLY <1>4, <2>1, <2>4, <3>1
    <3>5. q[k - s] = m[(k - s) + (j - i)]
      BY ONLY <1>2, <3>1
    <3>. QED BY ONLY <3>1, <3>2, <3>3, <3>4, <3>5
  <2>5. CASE s + Len(q) < k
    <3>1. /\ ~(k <= s) /\ ~(k <= s + i) /\ ~(k <= s + Len(q))
          /\ k + (j - i) \in 1..(lt + lm) /\ ~(k + (j - i) <= s) /\ ~(k + (j - i) <= s + lm) /\ (k + (j - i)) - lm = k - Len(q)
      BY ONLY <1>0, <1>1, <1>2, <2>1, <2>5
    <3>2. c[k] = p[k + (j - i)]
      BY ONLY <1>3, <2>1, <3>1
    <3>3. p[k + (j - i)] = t[(k + (j - i)) - lm]
      BY ONLY <1>1, <3>1
    <3>4. d[k] = t[k - Len(q)]
      BY ONLY <1>4, <2>1, <3>1
    <3>. QED BY ONLY <3>1, <3>2, <3>3, <3>4
  <2>. QED BY ONLY <1>0, <1>1, <1>2, <2>1, <2>2, <2>3, <2>4, <2>5
<1>6. Len(c) = lt + lm - (j - i) /\ Len(d) = lt + lm - (j - i)
  BY ONLY <1>0, <1>1, <1>2, <1>3, <1>4
<1>7. c = d
  BY ONLY <1>3, <1>4, <1>5, <1>6, SameText
<1>. QED BY <1>7 DEF c, d, p, q

LEMMA PlacedNothing == ASSUME NEW t \in Runes, NEW s \in 0..Len(t) PROVE Placed(t, s, <<>>) = t
<1>1. <<>> \in Runes /\ Len(<<>>) = 0 /\ Len(t) \in Nat
  BY DEF Runes
<1>2. /\ Placed(t, s, <<>>) \in Runes /\ Len(Placed(t, s, <<>>)) = Len(t) + Len(<<>>)
      /\ \A k \in 1..(Len(t) + Len(<<>>)) :
           Placed(t, s, <<>>)[k] = IF k <= s THEN t[k] ELSE IF k <= s + Len(<<>>) THEN <<>>[k - s] ELSE t[k - Len(<<>>)]
  BY <1>1, PlacedAt
<1>3. \A k \in 1..Len(t) : Placed(t, s, <<>>)[k] = t[k]
  BY <1>1, <1>2
<1>. QED BY <1>1, <1>2, <1>3, SameText

LEMMA AllTaken == ASSUME NEW m \in Runes PROVE TakenAway(m, 0, Len(m)) = <<>>
<1>1. Len(m) \in Nat /\ 0 \in 0..Len(m) /\ Bound(Len(m), m) = Len(m)
  BY DEF Runes, Bound
<1>2. TakenAway(m, 0, Len(m)) \in Runes /\ Len(TakenAway(m, 0, Len(m))) = 0
  BY <1>1, TakenAwayAt
<1>. QED BY <1>2 DEF Runes

\* Before and behind what was placed the text is the old one.
LEMMA PlacedIsFramed ==
    ASSUME NEW t \in Runes, NEW s \in 0..Len(t), NEW m \in Runes
    PROVE  /\ IsPrefix(SubSeq(t, 1, s), Placed(t, s, m))
           /\ IsSuffix(SubSeq(t, s + 1, Len(t)), Placed(t, s, m))
           /\ Len(Placed(t, s, m)) >= Len(t)
<1> DEFINE p == Placed(t, s, m)
           a == SubSeq(t, 1, s)
           b == SubSeq(t, s + 1, Len(t))
           ra == Reverse(b)
           rp == Reverse(p)
           lt == Len(t)
           lm == Len(m)
<1>1. /\ p \in Runes /\ Len(p) = lt + lm /\ lt \in Nat /\ lm \in Nat
      /\ \A k \in 1..(lt + lm) : p[k] = IF k <= s THEN t[k] ELSE IF k <= s + lm THEN m[k - s] ELSE t[k - lm]
  BY PlacedAt
<1>2. a \in Runes /\ Len(a) = s /\ \A i \in 1..s : a[i] = t[i]
  BY <1>1, PartOfText
<1>3. b \in Runes /\ Len(b) = lt - s /\ \A i \in 1..(lt - s) : b[i] = t[s + i]
  BY <1>1, PartOfText
<1>4. ra \in Runes /\ Len(ra) = lt - s /\ \A i \in 1..(lt - s) : ra[i] = b[(lt - s) - i + 1]
  <2> HIDE DEF b, lt
  <2>1. b \in Runes
    BY <1>3
  <2>2. Reverse(b) \in Runes /\ Len(Reverse(b)) = Len(b) /\ \A i \in 1..Len(b) : Reverse(b)[i] = b[Len(b) - i + 1]
    BY ONLY <2>1, ReverseOf
  <2>. QED BY <1>3, <2>2
<1>5. rp \in Runes /\ Len(rp) = lt + lm /\ \A i \in 1..(lt + lm) : rp[i] = p[(lt + lm) - i + 1]
  <2> HIDE DEF p, lt, lm
  <2>1. p \in Runes
    BY <1>1
  <2>2. Reverse(p) \in Runes /\ Len(Reverse(p)) = Len(p) /\ \A i \in 1..Len(p) : Reverse(p)[i] = p[Len(p) - i + 1]
    BY ONLY <2>1, ReverseOf
  <2>. QED BY <1>1, <2>2
<1>6. s \in Nat /\ s <= lt
  BY <1>1
<1> HIDE DEF p, a, b, ra, rp, lt, lm
<1>7. IsPrefix(a, p)
  BY ONLY <1>1, <1>2, <1>6, SamePart
<1>8. IsPrefix(ra, rp)
  <2>1. ASSUME NEW i \in 1..(lt - s) PROVE ra[i] = rp[i]
    <3>1. /\ (lt - s) - i + 1 \in 1..(lt - s) /\ s + ((lt - s) - i + 1) = lt - i + 1
          /\ i \in 1..(lt + lm) /\ (lt + lm) - i + 1 \in 1..(lt + lm)
          /\ ~((lt + lm) - i + 1 <= s) /\ ~((lt + lm) - i + 1 <= s + lm) /\ ((lt + lm) - i + 1) - lm = lt - i + 1
      BY ONLY <1>1, <1>6
    <3>2. ra[i] = b[(lt - s) - i + 1]
      BY ONLY <1>4
    <3>3. b[(lt - s) - i + 1] = t[s + ((lt - s) - i + 1)]
      BY ONLY <1>3, <3>1
    <3>4. rp[i] = p[(lt + lm) - i + 1]
      BY ONLY <1>5, <3>1
    <3>5. p[(lt + lm) - i + 1] = t[((lt + lm) - i + 1) - lm]
      BY ONLY <1>1, <3>1
    <3>. QED BY ONLY <3>1, <3>2, <3>3, <3>4, <3>5
  <2>2. Len(ra) <= Len(rp) /\ \A i \in 1..Len(ra) : ra[i] = rp[i]
    BY ONLY <1>1, <1>4, <1>5, <1>6, <2>1
  <2>. QED BY ONLY <1>4, <1>5, <2>2, SamePart
<1>. QED BY <1>1, <1>7, <1>8 DEF IsSuffix, ra, rp, p, a, b, lt
\* At the end of a text.
LEMMA PlacedAtEnd == ASSUME NEW m \in Runes, NEW r \in Runes PROVE Placed(m, Len(m), r) = m \o r
<1>1. Len(m) \in Nat /\ Len(m) \in 0..Len(m)
  BY DEF Runes
<1>2. /\ Placed(m, Len(m), r) \in Runes /\ Len(Placed(m, Len(m), r)) = Len(m) + Len(r) /\ Len(r) \in Nat
      /\ \A k \in 1..(Len(m) + Len(r)) :
           Placed(m, Len(m), r)[k] = IF k <= Len(m) THEN m[k] ELSE IF k <= Len(m) + Len(r) THEN r[k - Len(m)] ELSE m[k - Len(r)]
  BY <1>1, PlacedAt
<1>3. /\ m \o r \in Runes /\ Len(m \o r) = Len(m) + Len(r)
      /\ \A k \in 1..(Len(m) + Len(r)) : (m \o r)[k] = IF k <= Len(m) THEN m[k] ELSE r[k - Len(m)]
  BY TwoTexts
<1>4. \A k \in 1..(Len(m) + Len(r)) : Placed(m, Len(m), r)[k] = (m \o r)[k]
  BY <1>1, <1>2, <1>3
<1>. QED BY <1>2, <1>3, <1>4, SameText

LEMMA LastTaken ==
    ASSUME NEW m \in Runes, m # <<>>
    PROVE  /\ TakenAway(m, Len(m) - 1, Len(m)) \in Runes /\ Len(TakenAway(m, Len(m) - 1, Len(m))) = Len(m) - 1
           /\ \A k \in 1..(Len(m) - 1) : TakenAway(m, Len(m) - 1, Len(m))[k] = m[k]
<1>1. Len(m) \in Nat /\ Len(m) >= 1 /\ Len(m) - 1 \in 0..Len(m) /\ Bound(Len(m), m) = Len(m)
  BY DEF Runes, Bound
<1> DEFINE n == Len(m) - 1
<1>2. n \in 0..Len(m) /\ n <= Len(m) /\ Len(m) \in Nat
  BY <1>1
<1> HIDE DEF n
<1>3. /\ TakenAway(m, n, Len(m)) \in Runes /\ Len(TakenAway(m, n, Len(m))) = Len(m) - (Bound(Len(m), m) - n)
      /\ \A k \in 1..(Len(m) - (Bound(Len(m), m) - n)) :
           TakenAway(m, n, Len(m))[k] = IF k <= n THEN m[k] ELSE m[k + (Bound(Len(m), m) - n)]
  BY ONLY <1>2, m \in Runes, TakenAwayAt
<1>4. Len(m) - (Bound(Len(m), m) - n) = n /\ n = Len(m) - 1
  BY <1>1 DEF n
<1>. QED BY ONLY <1>1, <1>3, <1>4

\* One more, and one less, behind what was placed.
LEMMA OneMorePlaced ==
    ASSUME NEW t \in Runes, NEW s \in 0..Len(t), NEW m \in Runes, NEW r \in Runes
    PROVE  Placed(Placed(t, s, m), s + Len(m), r) = Placed(t, s, m \o r)
<1>1. Len(m) \in 0..Len(m)
  BY DEF Runes
<1>2. \A i \in 0..Len(m) : Placed(Placed(t, s, m), s + i, r) = Placed(t, s, Placed(m, i, r))
  BY PlacedInside
<1>. QED BY <1>1, <1>2, PlacedAtEnd

LEMMA OneLessPlaced ==
    ASSUME NEW t \in Runes, NEW s \in 0..Len(t), NEW m \in Runes, m # <<>>
    PROVE  TakenAway(Placed(t, s, m), (s + Len(m)) - 1, s + Len(m)) = Placed(t, s, TakenAway(m, Len(m) - 1, Len(m)))
<1>1. Len(m) \in Nat /\ Len(m) >= 1 /\ s \in Int
  BY DEF Runes
<1> DEFINE i == Len(m) - 1
           j == Len(m)
<1>2. i \in 0..Len(m) /\ j \in i..Len(m) /\ (s + Len(m)) - 1 = s + i
  BY <1>1
<1> HIDE DEF i, j
<1>3. TakenAway(Placed(t, s, m), s + i, s + j) = Placed(t, s, TakenAway(m, i, j))
  BY <1>2, TakenInside
<1>. QED BY <1>2, <1>3 DEF i, j

-----------------------------------------------------------------------------
(* Tags and their chips.                                                    *)

LEMMA OneRune == \A r \in Rune : <<r>> \in Runes /\ Len(<<r>>) = 1 /\ <<r>>[1] = r
BY DEF Runes

LEMMA ChipsAreText ==
    ASSUME NEW t \in Runes, NEW at \in Nat
    PROVE  /\ Chipped(t, at) \in Runes /\ ChippedTo(t, at) \in Nat
           /\ at <= Len(t) => ChippedTo(t, at) <= Len(Chipped(t, at))
<1>1. CASE TagAt(t, at) = {}
  BY <1>1 DEF Chipped, ChippedTo
<1>2. CASE TagAt(t, at) # {}
  <2> DEFINE j == CHOOSE j \in TagAt(t, at) : TRUE
  <2>1. j \in TagAt(t, at)
    BY <1>2
  <2>2. Chipped(t, at) = Placed(TakenAway(t, j, at), j, <<"@">>) /\ ChippedTo(t, at) = j + 1
    BY <1>2 DEF Chipped, ChippedTo
  <2> HIDE DEF j
  <2>3. j \in Nat /\ j + 1 < at /\ at <= Len(t) /\ Len(t) \in Nat
    BY <2>1 DEF TagAt, IsTag, Runes
  <2>4. j \in 0..Len(t) /\ j <= at
    BY <2>3
  <2>5. TakenAway(t, j, at) \in Runes /\ Len(TakenAway(t, j, at)) = Len(t) - (Bound(at, t) - j)
    BY <2>4, TakenAwayAt
  <2>6. j \in 0..Len(TakenAway(t, j, at))
    BY <2>3, <2>5 DEF Bound
  <2>7. <<"@">> \in Runes
    BY OneRune DEF Rune
  <2>8. /\ Placed(TakenAway(t, j, at), j, <<"@">>) \in Runes
        /\ Len(Placed(TakenAway(t, j, at), j, <<"@">>)) = Len(TakenAway(t, j, at)) + Len(<<"@">>)
    BY <2>5, <2>6, <2>7, PlacedAt
  <2>9. Len(<<"@">>) = 1
    OBVIOUS
  <2>10. j + 1 <= Len(TakenAway(t, j, at)) + 1
    BY <2>3, <2>6
  <2>. QED BY <2>2, <2>3, <2>8, <2>9, <2>10
<1>. QED BY <1>1, <1>2

\* The chip of a tag that was typed lies where the tag was.
LEMMA ChippedInside ==
    ASSUME NEW t \in Runes, NEW s \in 0..Len(t), NEW m \in Runes, m # <<>>, m[1] = "#"
    PROVE  \E n \in Runes : /\ Chipped(Placed(t, s, m), s + Len(m)) = Placed(t, s, n)
                            /\ ChippedTo(Placed(t, s, m), s + Len(m)) = s + Len(n)
<1> DEFINE p == Placed(t, s, m)
           at == s + Len(m)
<1>1. /\ p \in Runes /\ Len(p) = Len(t) + Len(m) /\ Len(t) \in Nat /\ Len(m) \in Nat
      /\ \A k \in 1..(Len(t) + Len(m)) : p[k] = IF k <= s THEN t[k] ELSE IF k <= s + Len(m) THEN m[k - s] ELSE t[k - Len(m)]
  BY PlacedAt
<1>2. Len(m) >= 1
  BY <1>1 DEF Runes
<1> HIDE DEF p
<1>3. CASE TagAt(p, at) = {}
  BY <1>3 DEF Chipped, ChippedTo, p
<1>4. CASE TagAt(p, at) # {}
  <2> DEFINE j == CHOOSE j \in TagAt(p, at) : TRUE
  <2>1. j \in TagAt(p, at)
    BY <1>4
  <2>2. Chipped(p, at) = Placed(TakenAway(p, j, at), j, <<"@">>) /\ ChippedTo(p, at) = j + 1
    BY <1>4 DEF Chipped, ChippedTo
  <2> HIDE DEF j
  <2>3. j \in Nat /\ j + 1 < at /\ at <= Len(p)
    BY <1>1, <2>1 DEF TagAt, IsTag
  <2>4. \A i \in (j + 2)..at : p[i] \in WordRune
    BY <2>1 DEF TagAt, IsTag, InWord
  <2>5. p[s + 1] = "#"
    <3>1. s + 1 \in 1..(Len(t) + Len(m)) /\ ~(s + 1 <= s) /\ s + 1 <= s + Len(m) /\ (s + 1) - s = 1
      BY <1>1, <1>2
    <3>. QED BY <1>1, <3>1
  <2>6. j >= s
    <3>1. SUFFICES ASSUME j < s PROVE FALSE
      BY <2>3
    <3>2. s + 1 \in (j + 2)..at
      BY <1>1, <1>2, <2>3, <3>1
    <3>. QED BY <2>4, <2>5, <3>2 DEF WordRune
  <2> DEFINE i == j - s
             c == TakenAway(m, i, Len(m))
             n == Placed(c, i, <<"@">>)
  <2>7. i \in 0..Len(m) /\ Len(m) \in i..Len(m) /\ j = s + i
    BY <1>1, <2>3, <2>6
  <2>8. <<"@">> \in Runes /\ Len(<<"@">>) = 1
    BY OneRune DEF Rune
  <2> HIDE DEF i
  <2>9. TakenAway(p, s + i, at) = Placed(t, s, c)
    <3>1. \A k \in i..Len(m) : TakenAway(Placed(t, s, m), s + i, s + k) = Placed(t, s, TakenAway(m, i, k))
      BY <2>7, TakenInside
    <3>. QED BY <2>7, <3>1 DEF p
  <2>10. c \in Runes /\ Len(c) = i
    <3>1. i \in Nat /\ i <= Len(m) /\ Bound(Len(m), m) = Len(m)
      BY <2>7 DEF Bound
    <3>2. TakenAway(m, i, Len(m)) \in Runes /\ Len(TakenAway(m, i, Len(m))) = Len(m) - (Bound(Len(m), m) - i)
      BY <1>1, <2>7, <3>1, TakenAwayAt
    <3>. QED BY <1>1, <3>1, <3>2
  <2> HIDE DEF c
  <2>11. i \in 0..Len(c)
    BY <2>7, <2>10
  <2>12. Placed(Placed(t, s, c), s + i, <<"@">>) = Placed(t, s, n)
    BY <2>8, <2>10, <2>11, PlacedInside
  <2>13. n \in Runes /\ Len(n) = Len(c) + 1
    BY <2>8, <2>10, <2>11, PlacedAt
  <2> HIDE DEF n
  <2>14. j + 1 = s + Len(n)
    BY <2>7, <2>10, <2>13
  <2>. QED BY <2>2, <2>7, <2>9, <2>12, <2>13, <2>14 DEF p
<1>. QED BY <1>3, <1>4

\* Of a finite set of numbers there is an n-th.
LEMMA ThereIsAnNth ==
    ASSUME NEW m \in Nat, NEW K \in SUBSET (1..m), NEW n \in 1..Cardinality(K)
    PROVE  \E i \in K : Cardinality({l \in K : l <= i}) = n
<1> DEFINE Upto(x) == {l \in K : l <= x}
           P == {x \in Nat : Cardinality(Upto(x)) >= n}
<1>0. \A l \in K : l \in Nat /\ 1 <= l /\ l <= m
  OBVIOUS
<1>1. IsFiniteSet(K)
  <2>1. IsFiniteSet(1..m)
    BY FS_Interval
  <2>. QED BY <2>1, FS_Subset
<1>2. \A x \in Nat : IsFiniteSet(Upto(x)) /\ Cardinality(Upto(x)) \in Nat
  <2>1. \A x \in Nat : Upto(x) \in SUBSET K
    OBVIOUS
  <2>2. \A T \in SUBSET K : IsFiniteSet(T) /\ Cardinality(T) \in Nat
    BY <1>1, FS_Subset, FS_CardinalityType
  <2> HIDE DEF Upto
  <2>. QED BY <2>1, <2>2
<1>3. Cardinality(K) \in Nat /\ n \in Nat /\ n >= 1
  BY <1>1, FS_CardinalityType
<1>4. m \in P
  <2>1. Upto(m) = K
    BY <1>0
  <2>. QED BY <1>3, <2>1
<1>5. PICK x \in P : \A y \in P : x <= y
  BY <1>4, LeastNumber
<1>6. x \in Nat /\ Cardinality(Upto(x)) >= n
  BY <1>5
<1>7. x # 0
  <2>3. \A l \in K : ~(l <= 0)
    BY <1>0
  <2>1. Upto(0) = {}
    BY <2>3
  <2>2. Cardinality(Upto(0)) = 0
    BY <2>1, FS_EmptySet
  <2>. QED BY <1>3, <1>6, <2>2
<1>8. x - 1 \in Nat /\ ~(x <= x - 1)
  BY <1>6, <1>7
<1>9. ~(Cardinality(Upto(x - 1)) >= n)
  BY <1>5, <1>8
<1>14. \A l \in K : l <= x <=> l <= x - 1 \/ l = x
  BY <1>0, <1>6, <1>8
<1>10. x \in K
  <2>1. SUFFICES ASSUME x \notin K PROVE FALSE
    OBVIOUS
  <2>2. Upto(x) = Upto(x - 1)
    BY <1>14, <2>1
  <2>. QED BY <1>6, <1>9, <2>2
<1>11. Upto(x) = Upto(x - 1) \cup {x} /\ x \notin Upto(x - 1)
  BY <1>8, <1>10, <1>14
<1> HIDE DEF Upto, P
<1>12. Cardinality(Upto(x)) = Cardinality(Upto(x - 1)) + 1
  BY <1>2, <1>8, <1>11, FS_AddElement
<1>13. Cardinality(Upto(x)) = n
  BY <1>2, <1>3, <1>6, <1>8, <1>9, <1>12
<1>. QED BY <1>10, <1>13 DEF Upto

LEMMA CommittedIsText == ASSUME NEW t \in Runes PROVE Committed(t) \in Runes
<1> DEFINE K == Kept(t)
<1>1. Len(t) \in Nat /\ DOMAIN t = 1..Len(t) /\ \A i \in 1..Len(t) : t[i] \in Rune
  BY DEF Runes
<1>2. K \in SUBSET (1..Len(t))
  BY <1>1 DEF Kept
<1>3. Cardinality(K) \in Nat
  <2>1. IsFiniteSet(1..Len(t))
    BY <1>1, FS_Interval
  <2>2. IsFiniteSet(K)
    BY <1>2, <2>1, FS_Subset
  <2>. QED BY <2>2, FS_CardinalityType
<1> HIDE DEF K
<1>4. \A n \in 1..Cardinality(K) : NthKept(t, n) \in 1..Len(t)
  <2>1. ASSUME NEW n \in 1..Cardinality(K) PROVE NthKept(t, n) \in K
    <3>1. \E i \in K : Cardinality({l \in K : l <= i}) = n
      BY <1>1, <1>2, ThereIsAnNth
    <3>. QED BY <3>1 DEF NthKept, K
  <2>. QED BY <1>2, <2>1
<1>5. \A n \in 1..Cardinality(K) : (IF StartsTag(t, NthKept(t, n)) THEN "@" ELSE t[NthKept(t, n)]) \in Rune
  BY <1>1, <1>4 DEF Rune
<1>6. Committed(t) = [n \in 1..Cardinality(K) |-> IF StartsTag(t, NthKept(t, n)) THEN "@" ELSE t[NthKept(t, n)]]
  BY DEF Committed, K
<1>. QED BY <1>3, <1>5, <1>6 DEF Runes
-----------------------------------------------------------------------------
(* The invariant.                                                          *)

Ids == DOMAIN lines.source
UiRec == [cursor : Nat, caret : Nat, mode : Menu \cup {"outline", "note"}, rich : BOOLEAN, inline : BOOLEAN, start : Nat,
          query : Runes, compl : {"tag", "icon", "cmd", "type"}, prev : Runes, act : {"other", "link", "scope"}]
FateRec == [crashed : BOOLEAN, strayed : BOOLEAN, refused : BOOLEAN, gone : BOOLEAN]
MenuTyped ==
    /\ IsOutline(lines) /\ ui \in UiRec /\ fate \in FateRec
    /\ opened \in [row : Ids, surface : {"name", "note"}, text : Runes, start : Nat]
    /\ noteOf \in [row : Ids, text : Runes]

\* Under the palette the row is the one it was opened over, and what was typed into it is what the palette will take out.
SlashIsThere ==
    ui.mode = "slash" /\ ~fate.gone =>
        /\ ThereIs /\ opened.row = Cur
        /\ IF ui.inline
           THEN /\ ui.start <= Len(opened.text) /\ ui.caret = ui.start + 1 + Len(ui.query)
                /\ lines.name[Cur] = Placed(opened.text, ui.start, <<"/">> \o ui.query)
           ELSE lines.name[Cur] = opened.text

\* Under a completer the text is the old one with what was typed in it, from where it was opened to the caret.
OwnText(m) ==
    /\ RichText = Placed(opened.text, ui.start, m) /\ ui.caret = ui.start + Len(m)
    /\ Len(m) \in {Len(ui.query), Len(ui.query) + 1}
    /\ ui.compl = "tag" => Len(m) = Len(ui.query) + 1 /\ m[1] = "#"
ComplIsThere ==
    ui.mode = "complete" /\ ~fate.gone /\ ~fate.strayed =>
        /\ ThereIs /\ opened.surface = Surface0 /\ opened.row = Owner0 /\ opened.start = ui.start /\ Resolve(opened.row) = opened.row
        /\ ui.start <= Len(opened.text)
        /\ \E m \in Runes : OwnText(m)

\* While a note is edited, and under a menu opened from one, the note kept for esc is the one of the row at the cursor.
NoteIsKept ==
    (ui.mode = "note" \/ ui.rich) /\ ~fate.refused /\ ~fate.gone =>
        ThereIs /\ noteOf.row = Resolve(Cur) /\ ui.prev = noteOf.text

\* What a menu opened from a note can be.
RichIsOver ==
    ui.rich /\ ~fate.refused =>
        /\ ui.mode \in {"style", "insert", "complete", "finder"}
        /\ ui.mode = "complete" => ui.compl \in {"tag", "icon"}
        /\ ui.mode = "finder" => ui.act = "link"
MenuInv == MenuTyped /\ SlashIsThere /\ ComplIsThere /\ NoteIsKept /\ RichIsOver /\ NothingIsCutBeyondItsEnd

LEMMA MenuInitHolds == MenuInit => MenuInv
<1> SUFFICES ASSUME MenuInit PROVE MenuInv
  OBVIOUS
<1>1. IsOutline(lines) /\ lines.order # <<>>
  BY MenuAssumption DEF MenuInit
<1>2. <<>> \in Runes
  BY DEF Runes
<1>3. lines.order[1] \in Ids
  <2>1. lines.order \in Seq(Ids)
    BY <1>1 DEF IsOutline, Ids
  <2>. QED BY <1>1, <2>1
<1>4. ui \in UiRec /\ ui.mode = "outline" /\ ui.rich = FALSE
  BY <1>2 DEF MenuInit, UiRec, Menu
<1>5. /\ opened \in [row : Ids, surface : {"name", "note"}, text : Runes, start : Nat]
      /\ noteOf \in [row : Ids, text : Runes] /\ fate \in FateRec /\ ~fate.crashed
  BY <1>2, <1>3 DEF MenuInit, FateRec
<1>. QED BY <1>1, <1>4, <1>5 DEF MenuInv, MenuTyped, SlashIsThere, ComplIsThere, NoteIsKept, RichIsOver, NothingIsCutBeyondItsEnd

\* One text is written.
WrittenIn(was, s, id, words) == [was EXCEPT ![s][id] = words]
LEMMA WrittenOnce ==
    ASSUME NEW was, IsOutline(was), NEW s \in {"name", "note"}, NEW id \in DOMAIN was.source, NEW words \in Runes
    PROVE  LET r == WrittenIn(was, s, id, words)
           IN  /\ IsOutline(r) /\ r.order = was.order /\ r.source = was.source /\ r.kind = was.kind
               /\ r[s] = [was[s] EXCEPT ![id] = words] /\ r[s][id] = words
               /\ s = "note" => r.name = was.name
               /\ s = "name" => r.note = was.note
<1> DEFINE r == WrittenIn(was, s, id, words)
<1>0. r = [was EXCEPT ![s][id] = words]
  BY DEF WrittenIn
<1> HIDE DEF r
<1>1. was \in [order : Seq(DOMAIN was.source), kind : [DOMAIN was.source -> RowKind], source : [DOMAIN was.source -> DOMAIN was.source], name : [DOMAIN was.source -> Runes], note : [DOMAIN was.source -> Runes]]
  BY DEF IsOutline
<1>2. CASE s = "name"
  <2> DEFINE f == [was.name EXCEPT ![id] = words]
  <2>1. r = [was EXCEPT !.name = f]
    BY <1>0, <1>1, <1>2
  <2>3. f \in [DOMAIN was.source -> Runes] /\ f[id] = words
    BY <1>1
  <2>4. f = [was[s] EXCEPT ![id] = words]
    BY <1>2
  <2> HIDE DEF f
  <2>2. /\ r.order = was.order /\ r.source = was.source /\ r.kind = was.kind /\ r.note = was.note
        /\ r.name = f /\ r[s] = f
        /\ r \in [order : Seq(DOMAIN was.source), kind : [DOMAIN was.source -> RowKind], source : [DOMAIN was.source -> DOMAIN was.source], name : [DOMAIN was.source -> Runes], note : [DOMAIN was.source -> Runes]]
    BY <1>1, <1>2, <2>1, <2>3
  <2>5. IsOutline(r)
    BY <2>2 DEF IsOutline
  <2>6. r[s] = [was[s] EXCEPT ![id] = words] /\ r[s][id] = words
    BY ONLY <2>2, <2>3, <2>4
  <2>. QED BY ONLY <1>2, <2>2, <2>5, <2>6 DEF r
<1>3. CASE s = "note"
  <2> DEFINE f == [was.note EXCEPT ![id] = words]
  <2>1. r = [was EXCEPT !.note = f]
    BY <1>0, <1>1, <1>3
  <2>3. f \in [DOMAIN was.source -> Runes] /\ f[id] = words
    BY <1>1
  <2>4. f = [was[s] EXCEPT ![id] = words]
    BY <1>3
  <2> HIDE DEF f
  <2>2. /\ r.order = was.order /\ r.source = was.source /\ r.kind = was.kind /\ r.name = was.name
        /\ r.note = f /\ r[s] = f
        /\ r \in [order : Seq(DOMAIN was.source), kind : [DOMAIN was.source -> RowKind], source : [DOMAIN was.source -> DOMAIN was.source], name : [DOMAIN was.source -> Runes], note : [DOMAIN was.source -> Runes]]
    BY <1>1, <1>3, <2>1, <2>3
  <2>5. IsOutline(r)
    BY <2>2 DEF IsOutline
  <2>6. r[s] = [was[s] EXCEPT ![id] = words] /\ r[s][id] = words
    BY ONLY <2>2, <2>3, <2>4
  <2>. QED BY ONLY <1>3, <2>2, <2>5, <2>6 DEF r
<1>. QED BY <1>2, <1>3 DEF r

WrittenTo(s, id, words) == WrittenIn(lines, s, id, words)
LEMMA OneWritten ==
    ASSUME IsOutline(lines), NEW s \in {"name", "note"}, NEW id \in Ids, NEW words \in Runes
    PROVE  LET r == WrittenTo(s, id, words)
           IN  /\ IsOutline(r) /\ r.order = lines.order /\ r.source = lines.source /\ r.kind = lines.kind
               /\ r[s] = [lines[s] EXCEPT ![id] = words] /\ r[s][id] = words
               /\ s = "note" => r.name = lines.name
               /\ s = "name" => r.note = lines.note
BY WrittenOnce DEF WrittenTo, Ids

IsWritten(r, s, id, words) == IsOutline(r) /\ r.order = lines.order /\ r.source = lines.source /\ r[s][id] = words
LEMMA AnyWritten ==
    IsOutline(lines) => \A s \in {"name", "note"} : \A id \in Ids : \A words \in Runes : IsWritten(WrittenTo(s, id, words), s, id, words)
<1> SUFFICES ASSUME IsOutline(lines), NEW s \in {"name", "note"}, NEW id \in Ids, NEW words \in Runes
             PROVE  IsWritten(WrittenTo(s, id, words), s, id, words)
  OBVIOUS
<1> DEFINE r == WrittenTo(s, id, words)
<1>1. /\ IsOutline(r) /\ r.order = lines.order /\ r.source = lines.source /\ r.kind = lines.kind
      /\ r[s] = [lines[s] EXCEPT ![id] = words] /\ r[s][id] = words
  BY OneWritten
<1>. QED BY <1>1 DEF IsWritten

\* A name is written.
LEMMA NameWritten ==
    ASSUME IsOutline(lines), NEW id \in Ids, NEW words \in Runes
    PROVE  LET r == WrittenTo("name", id, words)
           IN  /\ IsOutline(r) /\ r.order = lines.order /\ r.source = lines.source /\ r.kind = lines.kind /\ r.note = lines.note
               /\ r.name = [lines.name EXCEPT ![id] = words] /\ r.name[id] = words
<1> DEFINE r == WrittenTo("name", id, words)
<1>2. /\ IsOutline(r) /\ r.order = lines.order /\ r.source = lines.source /\ r.kind = lines.kind
      /\ r["name"] = [lines["name"] EXCEPT ![id] = words] /\ r["name"][id] = words /\ r.note = lines.note
  BY OneWritten
<1> HIDE DEF r
<1>3. r.name = [lines.name EXCEPT ![id] = words] /\ r.name[id] = words
  BY <1>2
<1>. QED BY <1>2, <1>3 DEF r

\* Where the cursor is.
LEMMA AtCursor ==
    ASSUME MenuTyped, ThereIs
    PROVE  /\ Cur \in Ids /\ Resolve(Cur) \in Ids /\ Resolve(Resolve(Cur)) = Resolve(Cur) /\ Owner0 \in Ids
           /\ Surface0 \in {"name", "note"} /\ lines.name[Cur] \in Runes /\ lines.note[Resolve(Cur)] \in Runes
           /\ lines.name[Resolve(Cur)] \in Runes /\ RichText \in Runes
<1>1. /\ lines \in [order : Seq(Ids), kind : [Ids -> RowKind], source : [Ids -> Ids], name : [Ids -> Runes], note : [Ids -> Runes]]
      /\ \A id \in Ids : lines.source[lines.source[id]] = lines.source[id]
  BY DEF MenuTyped, IsOutline, Ids
<1>2. Cur \in Ids
  BY <1>1 DEF ThereIs, Cur
<1>3. Resolve(Cur) \in Ids /\ Resolve(Resolve(Cur)) = Resolve(Cur)
  BY <1>1, <1>2 DEF Resolve
<1>4. Owner0 \in Ids /\ Surface0 \in {"name", "note"}
  BY <1>2, <1>3 DEF Owner0, Surface0
<1>5. RichText \in Runes
  <2>1. CASE Surface0 = "name"
    BY <1>1, <1>4, <2>1 DEF RichText
  <2>2. CASE Surface0 = "note"
    BY <1>1, <1>4, <2>2 DEF RichText
  <2>. QED BY <1>4, <2>1, <2>2
<1>. QED BY <1>1, <1>2, <1>3, <1>4, <1>5

\* A step after which no menu holds a text.
LEMMA LeavesNoText ==
    ASSUME MenuInv, IsOutline(lines'), lines'.order = lines.order, lines'.source = lines.source,
           ui' \in UiRec, fate' \in FateRec, fate'.crashed = fate.crashed, fate'.gone = fate.gone, fate'.strayed = fate.strayed,
           fate.refused => fate'.refused, opened' = opened, noteOf' = noteOf,
           ui'.mode \notin {"slash", "complete"}, RichIsOver',
           (ui'.mode = "note" \/ ui'.rich) /\ ~fate'.refused =>
               (ui.mode = "note" \/ ui.rich) /\ ui'.cursor = ui.cursor /\ ui'.prev = ui.prev
    PROVE  MenuInv'
<1>1. MenuTyped'
  BY DEF MenuInv, MenuTyped, Ids
<1>2. SlashIsThere' /\ ComplIsThere' /\ NothingIsCutBeyondItsEnd'
  BY DEF MenuInv, SlashIsThere, ComplIsThere, NothingIsCutBeyondItsEnd
<1>3. NoteIsKept'
  BY DEF MenuInv, NoteIsKept, ThereIs, Cur, Resolve
<1>. QED BY <1>1, <1>2, <1>3 DEF MenuInv

\* The same, when nothing more befalls the run.
LEMMA LeavesQuietly ==
    ASSUME MenuInv, IsOutline(lines'), lines'.order = lines.order, lines'.source = lines.source,
           ui' \in UiRec, Quiet, ui'.mode \notin {"slash", "complete"}, RichIsOver',
           (ui'.mode = "note" \/ ui'.rich) /\ ~fate.refused =>
               (ui.mode = "note" \/ ui.rich) /\ ui'.cursor = ui.cursor /\ ui'.prev = ui.prev
    PROVE  MenuInv'
<1>1. fate' = fate /\ fate \in FateRec /\ opened' = opened /\ noteOf' = noteOf
  BY DEF Quiet, MenuInv, MenuTyped
<1>. QED BY <1>1, LeavesNoText

LEMMA FinishedIs ==
    ASSUME NEW u \in UiRec
    PROVE  /\ FinishRich(u) \in UiRec /\ FinishRich(u).mode \in {"note", "outline"} /\ (FinishRich(u).mode = "note" => u.rich)
           /\ FinishRich(u).rich = FALSE /\ FinishRich(u).cursor = u.cursor /\ FinishRich(u).prev = u.prev
           /\ FinishRich(u).caret = u.caret
BY DEF FinishRich, UiRec, Menu

\* A menu that closes, on a note if it was opened from one.
LEMMA ClosesAMenu ==
    ASSUME MenuInv, IsOutline(lines'), lines'.order = lines.order, lines'.source = lines.source,
           NEW u \in UiRec, ui' = FinishRich(u), u.rich = ui.rich, u.cursor = ui.cursor, u.prev = ui.prev,
           Quiet
    PROVE  MenuInv'
<1>1. /\ ui' \in UiRec /\ ui'.mode \in {"note", "outline"} /\ (ui'.mode = "note" => u.rich)
      /\ ui'.rich = FALSE /\ ui'.cursor = u.cursor /\ ui'.prev = u.prev
  BY FinishedIs
<1>2. RichIsOver'
  BY <1>1 DEF RichIsOver
<1>. QED BY <1>1, <1>2, LeavesQuietly

\* A text is cut beyond its end only if the row was taken from under the menu, or is a mirror.
LEMMA CrashKeeps == MenuInv /\ Crash /\ (fate.gone \/ fate.strayed) => MenuInv'
<1> SUFFICES ASSUME MenuInv, Crash, fate.gone \/ fate.strayed PROVE MenuInv'
  OBVIOUS
<1>1. /\ fate' \in FateRec /\ fate'.gone = fate.gone /\ fate'.strayed = fate.strayed /\ fate'.refused = fate.refused
      /\ lines' = lines /\ ui' = ui /\ opened' = opened /\ noteOf' = noteOf
  BY DEF Crash, MenuInv, MenuTyped, FateRec
<1>2. MenuTyped'
  BY <1>1 DEF MenuInv, MenuTyped, Ids
<1>3. SlashIsThere' /\ NoteIsKept' /\ RichIsOver' /\ NothingIsCutBeyondItsEnd'
  BY <1>1 DEF MenuInv, SlashIsThere, NoteIsKept, RichIsOver, NothingIsCutBeyondItsEnd, ThereIs, Cur, Resolve
<1>4. ComplIsThere'
  <2>1. ComplIsThere
    BY DEF MenuInv
  <2>. QED BY <1>1, <2>1 DEF ComplIsThere, ThereIs, Surface0, Owner0, OwnText, RichText, RichNote, Resolve, Cur
<1>. QED BY <1>2, <1>3, <1>4 DEF MenuInv

-----------------------------------------------------------------------------
(* The slash palette.                                                       *)

SlashStep == ui.mode = "slash" /\ ui'.mode # "slash" /\ key' = "close" /\ ~fate.gone => lines'.name[opened.row] = opened.text

\* What the palette has typed is the slash and the query, up to the caret.
LEMMA SlashText ==
    ASSUME MenuInv, ui.mode = "slash", ~fate.gone, ui.inline
    PROVE  /\ ThereIs /\ opened.row = Cur /\ opened.text \in Runes /\ ui.start \in 0..Len(opened.text) /\ ui.query \in Runes
           /\ <<"/">> \o ui.query \in Runes /\ Len(<<"/">> \o ui.query) = 1 + Len(ui.query) /\ Len(ui.query) \in Nat
           /\ lines.name[Cur] = Placed(opened.text, ui.start, <<"/">> \o ui.query) /\ lines.name[Cur] \in Runes
           /\ ui.caret = ui.start + Len(<<"/">> \o ui.query) /\ ui.caret <= Len(lines.name[Cur]) /\ ui.caret > 0
           /\ ui.start <= Len(lines.name[Cur]) /\ Strip(lines.name[Cur]) = opened.text
<1>1. /\ ThereIs /\ opened.row = Cur /\ ui.start <= Len(opened.text) /\ ui.caret = ui.start + 1 + Len(ui.query)
      /\ lines.name[Cur] = Placed(opened.text, ui.start, <<"/">> \o ui.query)
  BY DEF MenuInv, SlashIsThere
<1>2. opened.text \in Runes /\ ui.query \in Runes /\ ui.start \in Nat
  BY DEF MenuInv, MenuTyped, UiRec
<1>3. Len(opened.text) \in Nat /\ Len(ui.query) \in Nat /\ ui.start \in 0..Len(opened.text)
  BY <1>1, <1>2 DEF Runes
<1>4. <<"/">> \in Runes /\ Len(<<"/">>) = 1
  BY OneRune DEF Rune
<1> DEFINE w == <<"/">> \o ui.query
<1>5. w \in Runes /\ Len(w) = 1 + Len(ui.query)
  BY <1>2, <1>4, TwoTexts
<1> HIDE DEF w
<1>9. lines.name[Cur] = Placed(opened.text, ui.start, w)
  BY <1>1 DEF w
<1>6. lines.name[Cur] \in Runes /\ Len(lines.name[Cur]) = Len(opened.text) + Len(w)
  <2>1. Placed(opened.text, ui.start, w) \in Runes /\ Len(Placed(opened.text, ui.start, w)) = Len(opened.text) + Len(w)
    BY ONLY <1>2, <1>3, <1>5, PlacedAt
  <2>. QED BY <1>9, <2>1
<1>7. Strip(lines.name[Cur]) = opened.text
  <2>1. TakenAway(Placed(opened.text, ui.start, w), ui.start + 0, ui.start + Len(w)) = Placed(opened.text, ui.start, TakenAway(w, 0, Len(w)))
    <3> DEFINE i == 0
               j == Len(w)
    <3>1. i \in 0..Len(w) /\ j \in i..Len(w)
      BY <1>3, <1>5
    <3> HIDE DEF i, j
    <3>2. TakenAway(Placed(opened.text, ui.start, w), ui.start + i, ui.start + j) = Placed(opened.text, ui.start, TakenAway(w, i, j))
      BY <1>2, <1>3, <1>5, <3>1, TakenInside
    <3>. QED BY <3>2 DEF i, j
  <2>2. TakenAway(w, 0, Len(w)) = <<>>
    BY <1>5, AllTaken
  <2>3. Placed(opened.text, ui.start, <<>>) = opened.text
    BY <1>2, <1>3, PlacedNothing
  <2>4. ui.start + 0 = ui.start /\ ui.start + Len(w) = ui.start + 1 + Len(ui.query)
    BY <1>2, <1>3, <1>5
  <2>. QED BY <1>1, <2>1, <2>2, <2>3, <2>4 DEF Strip, w
<1>8. ui.caret = ui.start + Len(w)
  BY <1>1, <1>2, <1>3, <1>5
<1>10. ui.caret <= Len(lines.name[Cur]) /\ ui.caret > 0 /\ ui.start <= Len(lines.name[Cur])
  <2> DEFINE l == Len(lines.name[Cur])
             t == Len(opened.text)
  <2>1. l = t + Len(w) /\ t \in Nat /\ ui.start \in Nat /\ ui.start <= t /\ Len(w) \in Nat /\ Len(w) >= 1
    <3>1. Len(w) \in Nat /\ Len(w) >= 1
      BY ONLY <1>3, <1>5
    <3>2. l = t + Len(w)
      BY ONLY <1>6 DEF l, t
    <3>. QED BY <1>1, <1>2, <1>3, <3>1, <3>2 DEF t
  <2> HIDE DEF l, t
  <2>2. ui.caret <= l /\ ui.caret > 0 /\ ui.start <= l
    BY ONLY <1>8, <2>1
  <2>. QED BY <2>2 DEF l
<1>11. w = <<"/">> \o ui.query
  BY DEF w
<1>. QED BY <1>1, <1>2, <1>3, <1>5, <1>6, <1>7, <1>8, <1>9, <1>10, <1>11

-----------------------------------------------------------------------------
(* The keys that open no palette and no completer.                          *)

OwnStep ==
    ui.mode = "complete" /\ key' \in {"rune", "backspace", "close"} /\ ui'.caret >= ui.start /\ ~fate.gone /\ ~fate.strayed =>
        Framed(lines'[opened.surface][opened.row])
EscStep ==
    key' = "escnote" /\ ui.mode = "note" /\ ~fate.refused /\ ~fate.gone =>
        lines'.note = [lines.note EXCEPT ![noteOf.row] = noteOf.text]
MenuStep == SlashStep /\ OwnStep /\ EscStep

\* In the outline no menu is over a note.
LEMMA OutlineIsPlain == MenuInv /\ ui.mode \in {"outline", "slash", "type", "note"} => (ui.rich => fate.refused)
BY DEF MenuInv, RichIsOver

LEMMA GoToKeeps ==
    ASSUME MenuInv, NEW c, NEW at, GoTo(c, at) PROVE MenuInv' /\ MenuStep
<1>1. /\ ui.mode = "outline" /\ c \in DOMAIN lines.order /\ at \in {0, Len(lines.name[Resolve(lines.order[c])])}
      /\ lines' = lines /\ ui' = [ui EXCEPT !.cursor = c, !.caret = at] /\ key' = "move" /\ Quiet
  BY DEF GoTo, OnRow, May, Does0
<1>2. ui \in UiRec /\ IsOutline(lines)
  BY DEF MenuInv, MenuTyped
<1>3. lines.order \in Seq(Ids) /\ lines.source \in [Ids -> Ids] /\ lines.name \in [Ids -> Runes]
  BY <1>2 DEF IsOutline, Ids
<1>4. c \in Nat /\ lines.order[c] \in Ids
  BY <1>1, <1>3
<1>5. lines.name[Resolve(lines.order[c])] \in Runes
  BY <1>3, <1>4 DEF Resolve
<1>6. at \in Nat
  BY <1>1, <1>5 DEF Runes
<1>7. ui' \in UiRec /\ ui'.mode = "outline" /\ ui'.rich = ui.rich
  BY <1>1, <1>2, <1>4, <1>6 DEF UiRec
<1>8. RichIsOver'
  BY <1>1, <1>7, OutlineIsPlain DEF RichIsOver, Quiet
<1>9. MenuInv'
  BY <1>1, <1>2, <1>7, <1>8, OutlineIsPlain, LeavesQuietly
<1>. QED BY <1>1, <1>9 DEF MenuStep, SlashStep, OwnStep, EscStep

\* A rune typed at a place that is in the text.
LEMMA BoundIn == ASSUME NEW t \in Runes, NEW at \in Nat PROVE Bound(at, t) \in 0..Len(t) /\ Bound(at, t) \in Nat
BY DEF Bound, Runes

LEMMA TypeHereKeeps ==
    ASSUME MenuInv, NEW rune \in Rune, TypeHere(rune) PROVE MenuInv' /\ MenuStep
<1> DEFINE typed == lines.name[Resolve(Cur)]
           chips == rune = " " /\ TakesChips(Resolve(Cur))
           words == IF chips THEN Chipped(typed, Bound(ui.caret, typed)) ELSE typed
           at == IF chips THEN ChippedTo(typed, Bound(ui.caret, typed)) ELSE Bound(ui.caret, typed)
<1>1. /\ ui.mode = "outline" /\ ThereIs
      /\ lines' = [lines EXCEPT !.name[Resolve(Cur)] = Placed(words, at, <<rune>>)] /\ ui' = [ui EXCEPT !.caret = at + 1]
      /\ key' = "rune" /\ Quiet
  BY DEF TypeHere, OnRow, May, Does0
<1>2. ui \in UiRec /\ IsOutline(lines) /\ typed \in Runes /\ Resolve(Cur) \in Ids
  BY <1>1, AtCursor DEF MenuInv, MenuTyped
<1>3. ui.caret \in Nat
  BY <1>2 DEF UiRec
<1>4. Bound(ui.caret, typed) \in 0..Len(typed) /\ Bound(ui.caret, typed) \in Nat
  BY <1>2, <1>3, BoundIn
<1>5. words \in Runes /\ at \in 0..Len(words) /\ at \in Nat
  <2>1. CASE chips
    <3> DEFINE b == Bound(ui.caret, typed)
    <3>1. b \in Nat /\ b <= Len(typed)
      BY <1>4
    <3> HIDE DEF b
    <3>2. Chipped(typed, b) \in Runes /\ ChippedTo(typed, b) \in Nat /\ ChippedTo(typed, b) <= Len(Chipped(typed, b))
      BY <1>2, <3>1, ChipsAreText
    <3>3. words = Chipped(typed, b) /\ at = ChippedTo(typed, b)
      BY <2>1 DEF b
    <3>4. Len(words) \in Nat
      <4>1. \A x \in Runes : Len(x) \in Nat
        BY DEF Runes
      <4>. QED BY <3>2, <3>3, <4>1
    <3>5. ChippedTo(typed, b) \in 0..Len(words)
      <4>1. ChippedTo(typed, b) <= Len(words) /\ ChippedTo(typed, b) \in Nat
        BY <3>2, <3>3
      <4> HIDE DEF words
      <4>. QED BY <3>4, <4>1
    <3>. QED BY <3>2, <3>3, <3>5
  <2>2. CASE ~chips
    BY <1>2, <1>4, <2>2
  <2>. QED BY <2>1, <2>2
<1> HIDE DEF words, at, typed
<1>6. <<rune>> \in Runes
  BY OneRune
<1>7. Placed(words, at, <<rune>>) \in Runes
  BY <1>5, <1>6, PlacedAt
<1> DEFINE placed == Placed(words, at, <<rune>>)
<1>8. lines' = WrittenTo("name", Resolve(Cur), placed) /\ placed \in Runes
  BY <1>1, <1>7 DEF words, at, typed, WrittenTo, WrittenIn
<1> HIDE DEF placed
<1>9. IsOutline(lines') /\ lines'.order = lines.order /\ lines'.source = lines.source
  BY ONLY <1>2, <1>8, NameWritten
<1>10. ui' \in UiRec /\ ui'.mode = "outline" /\ ui'.rich = ui.rich
  BY <1>1, <1>2, <1>5 DEF UiRec
<1>11. RichIsOver'
  BY <1>1, <1>10, OutlineIsPlain DEF RichIsOver, Quiet
<1>12. MenuInv'
  BY <1>1, <1>9, <1>10, <1>11, OutlineIsPlain, LeavesQuietly
<1>. QED BY <1>1, <1>12 DEF MenuStep, SlashStep, OwnStep, EscStep

\* A picker that closes and writes nothing.
LEMMA PickersKeep ==
    ASSUME MenuInv, PickStyle \/ \E mode \in Menu : CloseMenu(mode) PROVE MenuInv' /\ MenuStep
<1>1. /\ ui.mode \in {"style", "type", "insert", "finder"} /\ lines' = lines /\ ui' = FinishRich(ui) /\ key' = "close" /\ Quiet
  BY DEF PickStyle, CloseMenu, May, Does0
<1>2. ui \in UiRec /\ IsOutline(lines)
  BY DEF MenuInv, MenuTyped
<1>3. MenuInv'
  BY <1>1, <1>2, ClosesAMenu
<1>. QED BY <1>1, <1>3 DEF MenuStep, SlashStep, OwnStep, EscStep

LEMMA PickTypeKeeps ==
    ASSUME MenuInv, NEW to \in RowKind, PickType(to) PROVE MenuInv' /\ MenuStep
<1>1. /\ ui.mode = "type" /\ ui' = [ui EXCEPT !.mode = "outline"] /\ key' = "close" /\ Quiet
      /\ lines' = IF ThereIs /\ Editable(Cur) THEN [lines EXCEPT !.kind[Resolve(Cur)] = to] ELSE lines
  BY DEF PickType, May, Does0
<1>2. ui \in UiRec /\ IsOutline(lines)
  BY DEF MenuInv, MenuTyped
<1>3. IsOutline(lines') /\ lines'.order = lines.order /\ lines'.source = lines.source
  <2>1. CASE ThereIs /\ Editable(Cur)
    <3>1. Resolve(Cur) \in Ids
      BY <2>1, AtCursor DEF MenuInv
    <3>2. lines' = [lines EXCEPT !.kind = [lines.kind EXCEPT ![Resolve(Cur)] = to]]
      BY <1>1, <2>1
    <3>3. [lines.kind EXCEPT ![Resolve(Cur)] = to] \in [Ids -> RowKind]
      BY <1>2, <3>1 DEF IsOutline, Ids
    <3>. QED BY <1>2, <3>2, <3>3 DEF IsOutline, Ids
  <2>2. CASE ~(ThereIs /\ Editable(Cur))
    BY <1>1, <1>2, <2>2
  <2>. QED BY <2>1, <2>2
<1>4. ui' \in UiRec /\ ui'.mode = "outline" /\ ui'.rich = ui.rich
  BY <1>1, <1>2 DEF UiRec
<1>5. RichIsOver'
  BY <1>1, <1>4, OutlineIsPlain DEF RichIsOver, Quiet
<1>6. MenuInv'
  BY <1>1, <1>3, <1>4, <1>5, OutlineIsPlain, LeavesQuietly
<1>. QED BY <1>1, <1>6 DEF MenuStep, SlashStep, OwnStep, EscStep

\* The surface of a menu is written.
LEMMA Written0Is ==
    ASSUME MenuInv, ThereIs, NEW words \in Runes
    PROVE  LET r == Written0(words)
           IN  /\ IsOutline(r) /\ r.order = lines.order /\ r.source = lines.source /\ r[Surface0][Owner0] = words
               /\ Surface0 = "note" => r.note = [lines.note EXCEPT ![Resolve(Cur)] = words]
<1>1. IsOutline(lines) /\ Owner0 \in Ids /\ Surface0 \in {"name", "note"}
  BY AtCursor DEF MenuInv, MenuTyped
<1> DEFINE r == WrittenTo(Surface0, Owner0, words)
<1>2. Written0(words) = r
  BY DEF Written0, WrittenTo, WrittenIn
<1>3. /\ IsOutline(r) /\ r.order = lines.order /\ r.source = lines.source
      /\ r[Surface0] = [lines[Surface0] EXCEPT ![Owner0] = words] /\ r[Surface0][Owner0] = words
  BY <1>1, OneWritten
<1> HIDE DEF r
<1>4. Surface0 = "note" => Owner0 = Resolve(Cur)
  BY DEF Surface0, Owner0
<1>5. Surface0 = "note" => r.note = [lines.note EXCEPT ![Resolve(Cur)] = words]
  BY <1>3, <1>4
<1>. QED BY <1>2, <1>3, <1>5

\* A chip placed at the caret of the surface.
LEMMA SplicesChip ==
    ASSUME MenuInv, ThereIs, ui.mode \in {"insert", "finder"}, Quiet,
           Splice(Written0(Placed(RichText, Bound(ui.caret, RichText), <<"@">>)), <<"@">>)
    PROVE  MenuInv' /\ MenuStep
<1> DEFINE at == Bound(ui.caret, RichText)
           words == Placed(RichText, at, <<"@">>)
           u == [ui EXCEPT !.mode = "outline", !.caret = at + Len(<<"@">>)]
<1>1. lines' = Written0(words) /\ ui' = FinishRich(u) /\ key' = "close"
  BY DEF Splice, Does0
<1>2. ui \in UiRec /\ RichText \in Runes
  BY AtCursor DEF MenuInv, MenuTyped
<1>3. ui.caret \in Nat
  BY <1>2 DEF UiRec
<1>4. at \in 0..Len(RichText) /\ at \in Nat
  BY <1>2, <1>3, BoundIn
<1>5. <<"@">> \in Runes /\ Len(<<"@">>) = 1
  BY OneRune DEF Rune
<1> HIDE DEF at
<1>6. words \in Runes
  BY <1>2, <1>4, <1>5, PlacedAt
<1> HIDE DEF words
<1>7. IsOutline(lines') /\ lines'.order = lines.order /\ lines'.source = lines.source
  BY <1>1, <1>6, Written0Is
<1>8. u \in UiRec /\ u.rich = ui.rich /\ u.cursor = ui.cursor /\ u.prev = ui.prev
  <2> DEFINE to == at + Len(<<"@">>)
  <2>1. u = [ui EXCEPT !.mode = "outline", !.caret = to] /\ to \in Nat
    BY <1>4, <1>5
  <2> HIDE DEF u, to
  <2>. QED BY <1>2, <2>1 DEF UiRec
<1> HIDE DEF u
<1>9. MenuInv'
  BY <1>1, <1>7, <1>8, ClosesAMenu
<1>. QED BY <1>1, <1>9 DEF MenuStep, SlashStep, OwnStep, EscStep

LEMMA PickLinkKeeps == ASSUME MenuInv, PickLink PROVE MenuInv' /\ MenuStep
BY SplicesChip DEF PickLink, OnRow, May

LEMMA PickScopeKeeps == ASSUME MenuInv, PickScope PROVE MenuInv' /\ MenuStep
<1> DEFINE words == lines.name[Cur]
           at == Bound(ui.caret, words)
           chip == IF at < Len(words) /\ words[at + 1] = ")" THEN <<"@">> ELSE <<"@", " ">>
<1>1. /\ ui.mode = "finder" /\ ui.act = "scope" /\ ThereIs /\ lines' = OwnName(Placed(words, at, chip))
      /\ ui' = [ui EXCEPT !.mode = "outline", !.caret = at + 2] /\ key' = "close" /\ Quiet
  BY DEF PickScope, OnRow, May, Does0
<1>2. ui \in UiRec /\ IsOutline(lines) /\ words \in Runes /\ Cur \in Ids
  BY <1>1, AtCursor DEF MenuInv, MenuTyped
<1>3. at \in 0..Len(words) /\ at \in Nat
  BY <1>2, BoundIn DEF UiRec
<1>4. chip \in Runes
  <2>1. <<"@">> \in Runes /\ <<"@", " ">> \in Runes
    BY DEF Runes, Rune
  <2>. QED BY <2>1
<1> HIDE DEF words, at, chip
<1>5. Placed(words, at, chip) \in Runes
  BY <1>2, <1>3, <1>4, PlacedAt
<1> DEFINE placed == Placed(words, at, chip)
<1>6. lines' = WrittenTo("name", Cur, placed) /\ placed \in Runes
  BY <1>1, <1>5 DEF OwnName, words, at, chip, WrittenTo, WrittenIn
<1> HIDE DEF placed
<1>7. IsOutline(lines') /\ lines'.order = lines.order /\ lines'.source = lines.source
  BY ONLY <1>2, <1>6, NameWritten
<1>8. ui' \in UiRec /\ ui'.mode = "outline" /\ ui'.rich = ui.rich
  <2> DEFINE to == at + 2
  <2>1. ui' = [ui EXCEPT !.mode = "outline", !.caret = to] /\ to \in Nat
    BY <1>1, <1>3 DEF at, words
  <2> HIDE DEF to
  <2>. QED BY <1>2, <2>1 DEF UiRec
<1>9. ui.rich => fate.refused
  BY <1>1 DEF MenuInv, RichIsOver
<1>10. RichIsOver'
  BY <1>1, <1>8, <1>9 DEF RichIsOver, Quiet
<1>11. MenuInv'
  BY <1>1, <1>7, <1>8, <1>9, <1>10, LeavesQuietly
<1>. QED BY <1>1, <1>11 DEF MenuStep, SlashStep, OwnStep, EscStep
\* The note a key is typed into.
LEMMA OnTheNote ==
    ASSUME MenuInv, ui.mode = "note", ThereIs
    PROVE  /\ Surface0 = "note" /\ Owner0 = Resolve(Cur) /\ Note0 \in Runes /\ ui \in UiRec /\ IsOutline(lines)
           /\ ui.caret \in Nat /\ ui.prev \in Runes
           /\ Len(lines.name[Resolve(Cur)]) \in Nat
<1>1. Surface0 = "note" /\ Owner0 = Resolve(Cur)
  BY DEF Surface0, Owner0, RichNote
<1>2. Note0 \in Runes /\ lines.name[Resolve(Cur)] \in Runes
  BY AtCursor DEF MenuInv, Note0
<1>3. ui \in UiRec /\ IsOutline(lines)
  BY DEF MenuInv, MenuTyped
<1>4. ui.caret \in Nat /\ ui.prev \in Runes
  BY <1>3 DEF UiRec
<1>. QED BY <1>1, <1>2, <1>3, <1>4 DEF Runes

LEMMA NoteRuneKeeps == ASSUME MenuInv, NEW rune \in Rune, NoteRune(rune) PROVE MenuInv' /\ MenuStep
<1> DEFINE words == IF rune = " " THEN Chipped(Note0, ui.caret) ELSE Note0
           from == IF rune = " " THEN ChippedTo(Note0, ui.caret) ELSE ui.caret
           at == Bound(from, words)
<1>1. /\ ui.mode = "note" /\ ThereIs /\ lines' = Written0(Placed(words, at, <<rune>>))
      /\ ui' = [ui EXCEPT !.caret = at + 1] /\ key' = "rune" /\ Quiet
  BY DEF NoteRune, OnRow, May, Does0
<1>2. Note0 \in Runes /\ ui \in UiRec /\ ui.caret \in Nat
  BY <1>1, OnTheNote
<1>3. words \in Runes /\ from \in Nat
  BY <1>2, ChipsAreText
<1>4. <<rune>> \in Runes
  BY OneRune
<1> HIDE DEF words, from
<1>5. at \in 0..Len(words) /\ at \in Nat
  BY <1>3, BoundIn
<1> HIDE DEF at
<1> DEFINE placed == Placed(words, at, <<rune>>)
<1>6. placed \in Runes
  BY <1>3, <1>4, <1>5, PlacedAt
<1> HIDE DEF placed
<1>7. lines' = Written0(placed)
  BY <1>1 DEF placed
<1>8. IsOutline(lines') /\ lines'.order = lines.order /\ lines'.source = lines.source
  BY <1>1, <1>6, <1>7, Written0Is
<1>9. ui' \in UiRec /\ ui'.mode = "note" /\ ui'.rich = ui.rich /\ ui'.cursor = ui.cursor /\ ui'.prev = ui.prev
  BY <1>1, <1>2, <1>5 DEF UiRec
<1>10. RichIsOver'
  BY <1>1, <1>9, OutlineIsPlain DEF RichIsOver, Quiet
<1>11. MenuInv'
  BY <1>1, <1>8, <1>9, <1>10, LeavesQuietly
<1>. QED BY <1>1, <1>11 DEF MenuStep, SlashStep, OwnStep, EscStep

\* A key that leaves the note with the text it puts there.
LEMMA LeavesNote ==
    ASSUME MenuInv, ui.mode = "note", ThereIs, Quiet, NEW words \in Runes, lines' = Written0(words),
           ui' = [ui EXCEPT !.mode = "outline", !.rich = FALSE, !.caret = Len(lines.name[Resolve(Cur)])]
    PROVE  MenuInv'
<1>1. ui \in UiRec /\ Len(lines.name[Resolve(Cur)]) \in Nat
  BY OnTheNote
<1>2. IsOutline(lines') /\ lines'.order = lines.order /\ lines'.source = lines.source
  BY Written0Is
<1> DEFINE at == Len(lines.name[Resolve(Cur)])
<1>3. ui' \in UiRec /\ ui'.mode = "outline" /\ ui'.rich = FALSE
  <2>1. ui' = [ui EXCEPT !.mode = "outline", !.rich = FALSE, !.caret = at] /\ at \in Nat
    BY <1>1
  <2> HIDE DEF at
  <2>. QED BY <1>1, <2>1 DEF UiRec
<1>4. RichIsOver'
  BY <1>3 DEF RichIsOver
<1>. QED BY <1>2, <1>3, <1>4, LeavesQuietly

LEMMA NoteEscKeeps == ASSUME MenuInv, NoteEsc PROVE MenuInv' /\ MenuStep
<1>1. /\ ui.mode = "note" /\ ThereIs /\ lines' = Written0(ui.prev) /\ key' = "escnote" /\ Quiet
      /\ ui' = [ui EXCEPT !.mode = "outline", !.rich = FALSE, !.caret = Len(lines.name[Resolve(Cur)])]
  BY DEF NoteEsc, OnRow, May, Does0
<1>2. ui.prev \in Runes /\ Surface0 = "note"
  BY <1>1, OnTheNote
<1>3. lines'.note = [lines.note EXCEPT ![Resolve(Cur)] = ui.prev]
  BY <1>1, <1>2, Written0Is
<1>4. MenuInv'
  BY <1>1, <1>2, LeavesNote
<1>5. EscStep
  BY <1>1, <1>3 DEF EscStep, MenuInv, NoteIsKept
<1>. QED BY <1>1, <1>4, <1>5 DEF MenuStep, SlashStep, OwnStep

LEMMA NoteEnterKeeps == ASSUME MenuInv, NoteEnter PROVE MenuInv' /\ MenuStep
<1>1. /\ ui.mode = "note" /\ ThereIs /\ lines' = Written0(Committed(Note0)) /\ key' = "keep" /\ Quiet
      /\ ui' = [ui EXCEPT !.mode = "outline", !.rich = FALSE, !.caret = Len(lines.name[Resolve(Cur)])]
  BY DEF NoteEnter, OnRow, May, Does0
<1>2. Committed(Note0) \in Runes
  BY <1>1, OnTheNote, CommittedIsText
<1>4. MenuInv'
  BY <1>1, <1>2, LeavesNote
<1>. QED BY <1>1, <1>4 DEF MenuStep, SlashStep, OwnStep, EscStep

LEMMA NoteMenusKeep == ASSUME MenuInv, NoteInsert \/ NoteStyle PROVE MenuInv' /\ MenuStep
<1>1. /\ ui.mode = "note" /\ ThereIs /\ lines' = lines /\ key' = "open" /\ Quiet
      /\ \E mode \in {"insert", "style"} : ui' = [ui EXCEPT !.rich = TRUE, !.mode = mode, !.query = <<>>]
  BY DEF NoteInsert, NoteStyle, OnRow, May, Does0
<1>2. ui \in UiRec /\ IsOutline(lines) /\ <<>> \in Runes
  BY DEF MenuInv, MenuTyped, Runes
<1>3. ui' \in UiRec /\ ui'.mode \in {"insert", "style"} /\ ui'.cursor = ui.cursor /\ ui'.prev = ui.prev
  BY <1>1, <1>2 DEF UiRec, Menu
<1>4. RichIsOver'
  BY <1>3 DEF RichIsOver
<1>5. MenuInv'
  BY <1>1, <1>2, <1>3, <1>4, LeavesQuietly
<1>. QED BY <1>1, <1>5 DEF MenuStep, SlashStep, OwnStep, EscStep

\* The insert picker, when it opens no completer.
LEMMA InsertKeeps ==
    ASSUME MenuInv, NEW kind, ChooseInsert(kind), Refuses(kind) \/ kind \in {"link", "date"} PROVE MenuInv' /\ MenuStep
<1>1. ui.mode = "insert" /\ ThereIs
  BY DEF ChooseInsert, OnRow, May
<1>2. ui \in UiRec /\ IsOutline(lines) /\ fate \in FateRec
  BY DEF MenuInv, MenuTyped
<1>3. CASE Refuses(kind)
  <2>1. /\ lines' = lines /\ ui' = [ui EXCEPT !.mode = "outline"] /\ key' = "close" /\ opened' = opened /\ noteOf' = noteOf
        /\ fate' = [fate EXCEPT !.refused = @ \/ ui.rich]
    BY <1>3 DEF ChooseInsert, Does0, Fate
  <2>2. ui' \in UiRec /\ ui'.mode = "outline" /\ ui'.rich = ui.rich /\ ui.rich \in BOOLEAN
    BY <1>2, <2>1 DEF UiRec
  <2>3. /\ fate' \in FateRec /\ fate'.crashed = fate.crashed /\ fate'.gone = fate.gone /\ fate'.strayed = fate.strayed
        /\ fate'.refused = (fate.refused \/ ui.rich)
    BY <1>2, <2>1, <2>2 DEF FateRec
  <2>4. RichIsOver'
    BY <2>2, <2>3 DEF RichIsOver
  <2>5. MenuInv'
    BY <1>2, <2>1, <2>2, <2>3, <2>4, LeavesNoText
  <2>. QED BY <1>1, <2>1, <2>5 DEF MenuStep, SlashStep, OwnStep, EscStep
<1>4. CASE ~Refuses(kind) /\ kind = "link"
  <2>1. lines' = lines /\ ui' = [ui EXCEPT !.mode = "finder", !.act = "link"] /\ key' = "chain" /\ Quiet
    BY <1>4 DEF ChooseInsert, Does0
  <2>2. ui' \in UiRec /\ ui'.mode = "finder" /\ ui'.act = "link" /\ ui'.cursor = ui.cursor /\ ui'.prev = ui.prev /\ ui'.rich = ui.rich
    BY <1>2, <2>1 DEF UiRec, Menu
  <2>3. RichIsOver'
    BY <2>2 DEF RichIsOver
  <2>4. MenuInv'
    BY <1>2, <2>1, <2>2, <2>3, LeavesQuietly
  <2>. QED BY <1>1, <2>1, <2>4 DEF MenuStep, SlashStep, OwnStep, EscStep
<1>5. CASE ~Refuses(kind) /\ kind = "date"
  <2>1. Splice(Written0(Placed(RichText, Bound(ui.caret, RichText), <<"@">>)), <<"@">>) /\ Quiet
    BY <1>5 DEF ChooseInsert
  <2>. QED BY <1>1, <2>1, SplicesChip
<1>. QED BY <1>3, <1>4, <1>5
-----------------------------------------------------------------------------
(* The slash palette opens, takes runes and closes.                         *)

LEMMA OpenSlashKeeps ==
    ASSUME MenuInv, NEW inline \in BOOLEAN, OpenSlash(inline) PROVE MenuInv' /\ MenuStep
<1> DEFINE words == lines.name[Cur]
           at == Bound(ui.caret, words)
           u == [ui EXCEPT !.mode = "slash", !.query = <<>>, !.inline = inline]
<1>1. /\ ui.mode = "outline" /\ ThereIs /\ key' = "open" /\ fate' = fate /\ noteOf' = noteOf
      /\ opened' = [row |-> Cur, surface |-> "name", text |-> words, start |-> at]
      /\ inline => lines' = OwnName(Placed(words, at, <<"/">>)) /\ ui' = [u EXCEPT !.start = at, !.caret = at + 1]
      /\ ~inline => lines' = lines /\ ui' = u
  BY DEF OpenSlash, OnRow, May, Does0, OpensOver
<1>2. ui \in UiRec /\ IsOutline(lines) /\ words \in Runes /\ Cur \in Ids /\ <<>> \in Runes /\ Len(<<>>) = 0
  BY <1>1, AtCursor DEF MenuInv, MenuTyped, Runes
<1>3. at \in 0..Len(words) /\ at \in Nat
  BY <1>2, BoundIn DEF UiRec
<1>4. <<"/">> \in Runes
  BY OneRune DEF Rune
<1>5. u \in UiRec /\ u.mode = "slash" /\ u.rich = ui.rich /\ u.cursor = ui.cursor /\ u.inline = inline /\ u.query = <<>>
  BY <1>2 DEF UiRec, Menu
<1> HIDE DEF words, at, u
<1>6. ui' \in UiRec /\ ui'.mode = "slash" /\ ui'.rich = ui.rich /\ ui'.cursor = ui.cursor /\ ui'.inline = inline /\ ui'.query = <<>>
  <2>1. CASE inline
    <3> DEFINE to == at + 1
    <3>1. ui' = [u EXCEPT !.start = at, !.caret = to] /\ to \in Nat
      BY <1>1, <1>3, <2>1
    <3> HIDE DEF to
    <3>. QED BY <1>3, <1>5, <2>1, <3>1 DEF UiRec
  <2>2. CASE ~inline
    BY <1>1, <1>5, <2>2
  <2>. QED BY <2>1, <2>2
<1>7. /\ IsOutline(lines') /\ lines'.order = lines.order /\ lines'.source = lines.source
      /\ lines'.name[Cur] = IF inline THEN Placed(words, at, <<"/">>) ELSE words
  <2>1. CASE inline
    <3> DEFINE placed == Placed(words, at, <<"/">>)
    <3>1. placed \in Runes
      BY <1>2, <1>3, <1>4, PlacedAt
    <3> HIDE DEF placed
    <3>2. lines' = WrittenTo("name", Cur, placed)
      BY <1>1, <2>1 DEF OwnName, WrittenTo, WrittenIn, placed
    <3>3. IsOutline(lines') /\ lines'.order = lines.order /\ lines'.source = lines.source /\ lines'.name[Cur] = placed
      BY <1>2, <3>1, <3>2, NameWritten
    <3>. QED BY <2>1, <3>3 DEF placed
  <2>2. CASE ~inline
    BY <1>1, <1>2, <2>2 DEF words
  <2>. QED BY <2>1, <2>2
<1>8. ThereIs' /\ Cur' = Cur /\ Ids' = Ids
  BY <1>1, <1>6, <1>7 DEF ThereIs, Cur, Ids
<1>9. MenuTyped'
  <2>1. opened' \in [row : Ids, surface : {"name", "note"}, text : Runes, start : Nat]
    BY <1>1, <1>2, <1>3
  <2>. QED BY <1>1, <1>6, <1>7, <1>8, <2>1 DEF MenuInv, MenuTyped
<1>10. SlashIsThere'
  <2>1. CASE inline
    <3>1. ui'.start = at /\ ui'.caret = at + 1
      <4> DEFINE to == at + 1
      <4>1. ui' = [u EXCEPT !.start = at, !.caret = to]
        BY <1>1, <2>1
      <4> HIDE DEF to
      <4>2. ui'.start = at /\ ui'.caret = to
        BY <1>5, <4>1 DEF UiRec
      <4>. QED BY <4>2 DEF to
    <3>2. <<"/">> \o <<>> = <<"/">>
      OBVIOUS
    <3>3. ui'.caret = ui'.start + 1 + Len(ui'.query)
      BY <1>2, <1>3, <1>6, <3>1
    <3>4. opened'.row = Cur /\ opened'.text = words /\ at <= Len(words)
      BY <1>1, <1>3
    <3>. QED BY <1>6, <1>7, <1>8, <2>1, <3>1, <3>2, <3>3, <3>4 DEF SlashIsThere
  <2>2. CASE ~inline
    BY <1>1, <1>6, <1>7, <1>8, <2>2 DEF SlashIsThere
  <2>. QED BY <2>1, <2>2
<1>11. ui.rich => fate.refused
  BY <1>1, OutlineIsPlain
<1>12. ComplIsThere' /\ NoteIsKept' /\ RichIsOver' /\ NothingIsCutBeyondItsEnd'
  BY <1>1, <1>6, <1>11 DEF MenuInv, ComplIsThere, NoteIsKept, RichIsOver, NothingIsCutBeyondItsEnd
<1>. QED BY <1>1, <1>9, <1>10, <1>12 DEF MenuInv, MenuStep, SlashStep, OwnStep, EscStep

LEMMA SlashKeysKeep == ASSUME MenuInv, SlashKey \/ AltAKey PROVE MenuInv' /\ MenuStep
<1>1. Editable(Cur) \in BOOLEAN
  BY DEF Editable
<1>. QED BY <1>1, OpenSlashKeeps DEF SlashKey, AltAKey

\* Keys the palette stays open under.
LEMMA StaysInSlash ==
    ASSUME MenuInv, ui.mode = "slash", IsOutline(lines'), lines'.order = lines.order, lines'.source = lines.source,
           ui' \in UiRec, ui'.mode = "slash", ui'.rich = ui.rich, ui'.cursor = ui.cursor, Quiet, SlashIsThere'
    PROVE  MenuInv'
<1>1. MenuTyped'
  BY DEF MenuInv, MenuTyped, Ids, Quiet
<1>2. ui.rich => fate.refused
  BY OutlineIsPlain
<1>3. ComplIsThere' /\ NoteIsKept' /\ RichIsOver' /\ NothingIsCutBeyondItsEnd'
  BY <1>2 DEF MenuInv, ComplIsThere, NoteIsKept, RichIsOver, NothingIsCutBeyondItsEnd, Quiet
<1>. QED BY <1>1, <1>3 DEF MenuInv

LEMMA Joined ==
    ASSUME NEW a \in Runes, NEW q \in Runes, NEW r \in Rune
    PROVE  (a \o q) \o <<r>> = a \o Append(q, r) /\ Append(q, r) \in Runes /\ Len(Append(q, r)) = Len(q) + 1
BY DEF Runes

LEMMA SlashRuneKeeps ==
    ASSUME MenuInv, NEW rune \in Rune, SlashRune(rune) PROVE MenuInv' /\ MenuStep
<1> DEFINE u == [ui EXCEPT !.query = Append(@, rune)]
           words == lines.name[Cur]
<1>1. ui.mode = "slash" /\ ThereIs
  BY DEF SlashRune, OnRow, May
<1>2. ui \in UiRec /\ IsOutline(lines) /\ words \in Runes /\ Cur \in Ids /\ ui.query \in Runes /\ ui.caret \in Nat
  BY <1>1, AtCursor DEF MenuInv, MenuTyped, UiRec
<1>3. Append(ui.query, rune) \in Runes /\ Len(Append(ui.query, rune)) = Len(ui.query) + 1
  BY <1>2, Joined
<1>4. /\ u \in UiRec /\ u.mode = "slash" /\ u.rich = ui.rich /\ u.cursor = ui.cursor /\ u.inline = ui.inline
      /\ u.query = Append(ui.query, rune) /\ u.start = ui.start /\ u.caret = ui.caret
  BY <1>1, <1>2, <1>3 DEF UiRec
<1>5. CASE ~ui.inline
  <2>1. lines' = lines /\ ui' = u /\ key' = "rune" /\ Quiet
    BY <1>5 DEF SlashRune, Does0
  <2> HIDE DEF u
  <2>2. SlashIsThere'
    BY <1>1, <1>4, <1>5, <2>1 DEF MenuInv, SlashIsThere, Quiet, ThereIs, Cur
  <2>3. MenuInv'
    BY <1>1, <1>2, <1>4, <2>1, <2>2, StaysInSlash
  <2>. QED BY <1>1, <2>1, <2>3 DEF MenuStep, SlashStep, OwnStep, EscStep
<1>6. CASE ui.inline /\ ui.caret > Len(words)
  <2>1. Crash
    BY <1>6 DEF SlashRune
  <2>2. fate.gone
    BY <1>1, <1>2, <1>6, SlashText DEF Runes
  <2>3. MenuInv'
    BY <2>1, <2>2, CrashKeeps
  <2>. QED BY <1>1, <2>1, <2>3 DEF MenuStep, SlashStep, OwnStep, EscStep, Crash
<1>7. CASE ui.inline /\ ~(ui.caret > Len(words))
  <2> DEFINE placed == Placed(words, ui.caret, <<rune>>)
             to == u.caret + 1
  <2>1. lines' = OwnName(placed) /\ ui' = [u EXCEPT !.caret = to] /\ key' = "rune" /\ Quiet
    BY <1>7 DEF SlashRune, Does0
  <2>2. ui.caret \in 0..Len(words) /\ <<rune>> \in Runes /\ to \in Nat
    BY <1>2, <1>4, <1>7, OneRune DEF Runes
  <2>3. placed \in Runes
    BY <1>2, <2>2, PlacedAt
  <2> HIDE DEF u, placed, to
  <2>4. lines' = WrittenTo("name", Cur, placed)
    BY <2>1 DEF OwnName, WrittenTo, WrittenIn
  <2>5. /\ IsOutline(lines') /\ lines'.order = lines.order /\ lines'.source = lines.source /\ lines'.name[Cur] = placed
    BY <1>2, <2>3, <2>4, NameWritten
  <2>6. /\ ui' \in UiRec /\ ui'.mode = "slash" /\ ui'.rich = ui.rich /\ ui'.cursor = ui.cursor /\ ui'.inline = ui.inline
        /\ ui'.query = Append(ui.query, rune) /\ ui'.start = ui.start /\ ui'.caret = to
    BY <1>4, <2>1, <2>2 DEF UiRec
  <2>7. SlashIsThere'
    <3>1. SUFFICES ASSUME ~fate.gone
                   PROVE  /\ opened.row = Cur /\ ui.start <= Len(opened.text) /\ to = ui.start + 1 + Len(Append(ui.query, rune))
                          /\ placed = Placed(opened.text, ui.start, <<"/">> \o Append(ui.query, rune))
      <4>1. ThereIs' /\ Cur' = Cur /\ opened' = opened /\ fate' = fate
        BY <1>1, <2>1, <2>5, <2>6 DEF ThereIs, Cur, Quiet
      <4>. QED BY <1>7, <2>5, <2>6, <4>1 DEF SlashIsThere
    <3> DEFINE w == <<"/">> \o ui.query
    <3>2. /\ opened.row = Cur /\ opened.text \in Runes /\ ui.start \in 0..Len(opened.text) /\ w \in Runes /\ Len(w) = 1 + Len(ui.query)
          /\ Len(ui.query) \in Nat /\ words = Placed(opened.text, ui.start, w) /\ ui.caret = ui.start + Len(w)
      BY <1>1, <1>7, <3>1, SlashText
    <3>3. w \o <<rune>> = <<"/">> \o Append(ui.query, rune)
      <4>1. <<"/">> \in Runes
        BY OneRune DEF Rune
      <4>. QED BY <1>2, <4>1, Joined
    <3> HIDE DEF w, words
    <3>4. Placed(Placed(opened.text, ui.start, w), ui.start + Len(w), <<rune>>) = Placed(opened.text, ui.start, w \o <<rune>>)
      BY ONLY <2>2, <3>2, OneMorePlaced
    <3>5. placed = Placed(opened.text, ui.start, <<"/">> \o Append(ui.query, rune))
      BY ONLY <3>2, <3>3, <3>4 DEF placed
    <3>6. to = ui.start + 1 + Len(Append(ui.query, rune))
      <4>1. ui.start \in Nat /\ to = ui.caret + 1
        BY <1>4, <3>2 DEF to
      <4>. QED BY ONLY <1>3, <3>2, <4>1
    <3>7. ui.start <= Len(opened.text)
      BY <3>2
    <3>. QED BY <3>2, <3>5, <3>6, <3>7
  <2>8. MenuInv'
    BY <1>1, <2>1, <2>5, <2>6, <2>7, StaysInSlash
  <2>. QED BY <1>1, <2>1, <2>8 DEF MenuStep, SlashStep, OwnStep, EscStep
<1>. QED BY <1>2, <1>5, <1>6, <1>7 DEF UiRec
LEMMA FrontIs ==
    ASSUME NEW q \in Runes, q # <<>>
    PROVE  /\ Front(q) \in Runes /\ Len(Front(q)) = Len(q) - 1 /\ Len(q) \in Nat /\ Len(q) >= 1
           /\ \A i \in 1..(Len(q) - 1) : Front(q)[i] = q[i]
<1>1. Len(q) \in Nat /\ Len(q) >= 1
  BY DEF Runes
<1> DEFINE n == Len(q) - 1
<1>2. n \in 0..Len(q) /\ 1 \in 1..(Len(q) + 1) /\ 1 <= n + 1
  BY <1>1
<1> HIDE DEF n
<1>3. /\ SubSeq(q, 1, n) \in Runes /\ Len(SubSeq(q, 1, n)) = n - 1 + 1
      /\ \A i \in 1..(n - 1 + 1) : SubSeq(q, 1, n)[i] = q[1 + i - 1]
  BY <1>2, PartOfText
<1>4. n - 1 + 1 = n /\ \A i \in 1..n : 1 + i - 1 = i
  BY <1>2
<1>5. SubSeq(q, 1, n) \in Runes /\ Len(SubSeq(q, 1, n)) = n /\ \A i \in 1..n : SubSeq(q, 1, n)[i] = q[i]
  BY <1>3, <1>4
<1>6. Front(q) = SubSeq(q, 1, n)
  BY DEF Front, n
<1>. QED BY <1>1, <1>5, <1>6 DEF n

\* One less behind a rune.
LEMMA OneLessJoined ==
    ASSUME NEW a \in Runes, NEW q \in Runes, q # <<>>
    PROVE  TakenAway(a \o q, Len(a \o q) - 1, Len(a \o q)) = a \o Front(q)
<1> DEFINE w == a \o q
           c == TakenAway(w, Len(w) - 1, Len(w))
           d == a \o Front(q)
<1>1. Len(a) \in Nat /\ Len(q) \in Nat /\ Len(q) >= 1
  BY FrontIs DEF Runes
<1>2. w \in Runes /\ Len(w) = Len(a) + Len(q) /\ \A i \in 1..(Len(a) + Len(q)) : w[i] = IF i <= Len(a) THEN a[i] ELSE q[i - Len(a)]
  BY TwoTexts
<1>3. /\ d \in Runes /\ Len(d) = Len(a) + Len(Front(q))
      /\ \A i \in 1..(Len(a) + Len(Front(q))) : d[i] = IF i <= Len(a) THEN a[i] ELSE Front(q)[i - Len(a)]
  BY FrontIs, TwoTexts
<1>4. Len(Front(q)) = Len(q) - 1 /\ \A i \in 1..(Len(q) - 1) : Front(q)[i] = q[i]
  BY FrontIs
<1> HIDE DEF w, d
<1>5. w # <<>>
  BY <1>1, <1>2
<1>6. c \in Runes /\ Len(c) = Len(w) - 1 /\ \A k \in 1..(Len(w) - 1) : c[k] = w[k]
  BY <1>2, <1>5, LastTaken
<1> HIDE DEF c
<1>7. ASSUME NEW i \in 1..(Len(a) + Len(q) - 1) PROVE c[i] = d[i]
  <2>1. CASE i <= Len(a)
    BY <1>1, <1>2, <1>3, <1>4, <1>6, <2>1
  <2>2. CASE ~(i <= Len(a))
    <3>1. i - Len(a) \in 1..(Len(q) - 1)
      BY <1>1, <2>2
    <3>2. c[i] = q[i - Len(a)]
      BY <1>1, <1>2, <1>6, <2>2
    <3>3. d[i] = Front(q)[i - Len(a)]
      BY <1>1, <1>3, <1>4, <2>2
    <3>. QED BY <1>4, <3>1, <3>2, <3>3
  <2>. QED BY <2>1, <2>2
<1>8. Len(c) = Len(a) + Len(q) - 1 /\ Len(d) = Len(a) + Len(q) - 1
  BY <1>1, <1>2, <1>3, <1>4, <1>6
<1>9. c = d
  BY <1>3, <1>6, <1>7, <1>8, SameText
<1>. QED BY <1>9 DEF c, d, w

\* What the palette leaves in the row.
LEMMA StripIs ==
    ASSUME MenuInv, ui.mode = "slash", ~CannotStrip
    PROVE  /\ IsOutline(Stripped) /\ Stripped.order = lines.order /\ Stripped.source = lines.source /\ Stripped.note = lines.note
           /\ ~fate.gone => Stripped.name[opened.row] = opened.text
<1>1. ui \in UiRec /\ IsOutline(lines) /\ ui.start \in Nat /\ ui.query \in Runes /\ ui.inline \in BOOLEAN
  BY DEF MenuInv, MenuTyped, UiRec
<1>2. CASE Strips
  <2> DEFINE words == lines.name[Cur]
             strip == Strip(words)
  <2>1. words \in Runes /\ Cur \in Ids /\ ThereIs
    BY <1>2, AtCursor DEF Strips, MenuInv
  <2>2. Len(words) \in Nat /\ Len(ui.query) \in Nat /\ ui.start <= Len(words)
    BY <1>1, <1>2, <2>1 DEF CannotStrip, Runes
  <2>3. strip \in Runes
    <3> DEFINE to == ui.start + 1 + Len(ui.query)
    <3>1. ui.start \in 0..Len(words) /\ to \in Nat /\ ui.start <= to
      BY <1>1, <2>2
    <3> HIDE DEF to, words
    <3>2. TakenAway(words, ui.start, to) \in Runes
      BY ONLY <2>1, <3>1, TakenAwayAt
    <3>. QED BY <3>2 DEF Strip, to
  <2>4. Stripped = WrittenTo("name", Cur, strip)
    BY <1>2 DEF Stripped, OwnName, WrittenTo, WrittenIn
  <2>5. ~fate.gone => opened.row = Cur /\ strip = opened.text
    BY <1>2, SlashText DEF Strips
  <2> HIDE DEF words, strip
  <2>6. /\ IsOutline(Stripped) /\ Stripped.order = lines.order /\ Stripped.source = lines.source /\ Stripped.note = lines.note
        /\ Stripped.name[Cur] = strip
    BY <1>1, <2>1, <2>3, <2>4, NameWritten
  <2>. QED BY <2>5, <2>6
<1>3. CASE ~Strips
  <2>1. Stripped = lines
    BY <1>3 DEF Stripped
  <2>2. ~fate.gone => lines.name[opened.row] = opened.text
    BY <1>1, <1>3 DEF MenuInv, SlashIsThere, Strips
  <2>. QED BY <1>1, <2>1, <2>2
<1>. QED BY <1>2, <1>3

LEMMA StripCrash == ASSUME MenuInv, ui.mode = "slash", CannotStrip PROVE fate.gone
<1>1. Strips /\ ThereIs /\ ui.start > Len(lines.name[Cur]) /\ ui.inline /\ ui.start \in Nat
  BY DEF CannotStrip, Strips, MenuInv, MenuTyped, UiRec
<1>2. Len(lines.name[Cur]) \in Nat
  BY <1>1, AtCursor DEF MenuInv, Runes
<1>. QED BY <1>1, <1>2, SlashText

LEMMA AtTheSlashIs ==
    ASSUME MenuInv
    PROVE  /\ AtTheSlash(ui) \in UiRec /\ AtTheSlash(ui).mode = ui.mode /\ AtTheSlash(ui).rich = ui.rich
           /\ AtTheSlash(ui).cursor = ui.cursor /\ AtTheSlash(ui).prev = ui.prev
BY DEF MenuInv, MenuTyped, AtTheSlash, UiRec

\* The palette closes.
LEMMA SlashCloses ==
    ASSUME MenuInv, ui.mode = "slash",
           IF CannotStrip THEN Crash ELSE Does0("close", Stripped, FinishRich(AtTheSlash(ui))) /\ Quiet
    PROVE  MenuInv' /\ MenuStep
<1>1. CASE CannotStrip
  <2>1. Crash /\ key' = "crash"
    BY <1>1 DEF Crash
  <2>2. MenuInv'
    BY <1>1, <2>1, StripCrash, CrashKeeps
  <2>. QED BY <2>1, <2>2 DEF MenuStep, SlashStep, OwnStep, EscStep
<1>2. CASE ~CannotStrip
  <2> DEFINE u == AtTheSlash(ui)
  <2>1. key' = "close" /\ lines' = Stripped /\ ui' = FinishRich(u) /\ Quiet
    BY <1>2 DEF Does0
  <2>2. u \in UiRec /\ u.rich = ui.rich /\ u.cursor = ui.cursor /\ u.prev = ui.prev
    BY AtTheSlashIs
  <2>3. /\ IsOutline(lines') /\ lines'.order = lines.order /\ lines'.source = lines.source
        /\ ~fate.gone => lines'.name[opened.row] = opened.text
    BY <1>2, <2>1, StripIs
  <2> HIDE DEF u
  <2>4. MenuInv'
    BY <2>1, <2>2, <2>3, ClosesAMenu
  <2>. QED BY <2>1, <2>3, <2>4 DEF MenuStep, SlashStep, OwnStep, EscStep
<1>. QED BY <1>1, <1>2

LEMMA SlashEscKeeps == ASSUME MenuInv, SlashEsc PROVE MenuInv' /\ MenuStep
BY SlashCloses DEF SlashEsc, May

LEMMA KeepTextKeeps == ASSUME MenuInv, KeepText PROVE MenuInv' /\ MenuStep
<1>1. ui.mode = "slash" /\ lines' = lines /\ ui' = [ui EXCEPT !.mode = "outline"] /\ key' = "keep" /\ Quiet
  BY DEF KeepText, OnRow, May, Does0
<1>2. ui \in UiRec /\ IsOutline(lines)
  BY DEF MenuInv, MenuTyped
<1>3. ui' \in UiRec /\ ui'.mode = "outline" /\ ui'.rich = ui.rich
  BY <1>1, <1>2 DEF UiRec
<1>4. RichIsOver'
  BY <1>1, <1>3, OutlineIsPlain DEF RichIsOver, Quiet
<1>5. MenuInv'
  BY <1>1, <1>2, <1>3, <1>4, OutlineIsPlain, LeavesQuietly
<1>. QED BY <1>1, <1>5 DEF MenuStep, SlashStep, OwnStep, EscStep

LEMMA SlashBackspaceKeeps == ASSUME MenuInv, SlashBackspace PROVE MenuInv' /\ MenuStep
<1> DEFINE u == [ui EXCEPT !.query = Front(@)]
           words == lines.name[Cur]
<1>1. ui.mode = "slash" /\ ThereIs
  BY DEF SlashBackspace, OnRow, May
<1>2. CASE ui.query = <<>>
  BY <1>1, <1>2, SlashCloses DEF SlashBackspace
<1>3. CASE ui.query # <<>>
  <2>1. ui \in UiRec /\ IsOutline(lines) /\ words \in Runes /\ Cur \in Ids /\ ui.query \in Runes /\ ui.caret \in Nat /\ ui.inline \in BOOLEAN
    BY <1>1, AtCursor DEF MenuInv, MenuTyped, UiRec
  <2>2. Front(ui.query) \in Runes /\ Len(Front(ui.query)) = Len(ui.query) - 1
    BY <1>3, <2>1, FrontIs
  <2>3. /\ u \in UiRec /\ u.mode = "slash" /\ u.rich = ui.rich /\ u.cursor = ui.cursor /\ u.inline = ui.inline
        /\ u.query = Front(ui.query) /\ u.start = ui.start /\ u.caret = ui.caret
    BY <1>1, <2>1, <2>2 DEF UiRec
  <2>4. CASE ~ui.inline \/ ui.caret = 0
    <3>1. lines' = lines /\ ui' = u /\ key' = "backspace" /\ Quiet
      BY <1>3, <2>4 DEF SlashBackspace, Does0
    <3>3. ~fate.gone => ~ui.inline
      BY <1>1, <2>1, <2>4, SlashText
    <3> HIDE DEF u
    <3>2. SlashIsThere'
      BY <1>1, <2>3, <3>1, <3>3 DEF MenuInv, SlashIsThere, Quiet, ThereIs, Cur
    <3>4. MenuInv'
      BY <1>1, <2>1, <2>3, <3>1, <3>2, StaysInSlash
    <3>. QED BY <1>1, <3>1, <3>4 DEF MenuStep, SlashStep, OwnStep, EscStep
  <2>5. CASE ~(~ui.inline \/ ui.caret = 0) /\ ui.caret > Len(words)
    <3>1. Crash
      BY <1>3, <2>5 DEF SlashBackspace
    <3>2. fate.gone
      BY <1>1, <2>1, <2>5, SlashText DEF Runes
    <3>3. MenuInv'
      BY <3>1, <3>2, CrashKeeps
    <3>. QED BY <1>1, <3>1, <3>3 DEF MenuStep, SlashStep, OwnStep, EscStep, Crash
  <2>6. CASE ~(~ui.inline \/ ui.caret = 0) /\ ~(ui.caret > Len(words))
    <3> DEFINE cut == TakenAway(words, ui.caret - 1, ui.caret)
               to == ui.caret - 1
    <3>1. lines' = OwnName(cut) /\ ui' = [u EXCEPT !.caret = to] /\ key' = "backspace" /\ Quiet
      BY <1>3, <2>3, <2>6 DEF SlashBackspace, Does0, OneBack
    <3>2. Len(words) \in Nat /\ ui.caret <= Len(words) /\ ui.caret - 1 \in Nat /\ ui.caret - 1 <= ui.caret
      BY <2>1, <2>6 DEF Runes
    <3>3. to \in 0..Len(words) /\ to \in Nat /\ to <= ui.caret
      <4>1. to \in Nat /\ to <= Len(words) /\ to <= ui.caret
        BY <2>1, <3>2
      <4> HIDE DEF words, to
      <4>. QED BY <3>2, <4>1
    <3> HIDE DEF to
    <3>4. TakenAway(words, to, ui.caret) \in Runes
      BY <2>1, <3>3, TakenAwayAt
    <3>5. cut \in Runes
      BY <3>4 DEF to
    <3> HIDE DEF u, cut, words
    <3>6. lines' = WrittenTo("name", Cur, cut)
      BY <3>1 DEF OwnName, WrittenTo, WrittenIn
    <3>7. /\ IsOutline(lines') /\ lines'.order = lines.order /\ lines'.source = lines.source /\ lines'.name[Cur] = cut
      BY <2>1, <3>5, <3>6, NameWritten
    <3>8. /\ ui' \in UiRec /\ ui'.mode = "slash" /\ ui'.rich = ui.rich /\ ui'.cursor = ui.cursor /\ ui'.inline = ui.inline
          /\ ui'.query = Front(ui.query) /\ ui'.start = ui.start /\ ui'.caret = to
      BY <2>3, <3>1, <3>3 DEF UiRec
    <3>9. SlashIsThere'
      <4>1. SUFFICES ASSUME ~fate.gone
                     PROVE  /\ opened.row = Cur /\ ui.start <= Len(opened.text) /\ to = ui.start + 1 + Len(Front(ui.query))
                            /\ cut = Placed(opened.text, ui.start, <<"/">> \o Front(ui.query))
        <5>1. ThereIs' /\ Cur' = Cur /\ opened' = opened /\ fate' = fate
          BY <1>1, <3>1, <3>7, <3>8 DEF ThereIs, Cur, Quiet
        <5>. QED BY <2>6, <3>7, <3>8, <5>1 DEF SlashIsThere
      <4> DEFINE w == <<"/">> \o ui.query
                 t == Len(w)
      <4>2. /\ opened.row = Cur /\ opened.text \in Runes /\ ui.start \in 0..Len(opened.text) /\ w \in Runes /\ t = 1 + Len(ui.query)
            /\ Len(ui.query) \in Nat /\ words = Placed(opened.text, ui.start, w) /\ ui.caret = ui.start + t
        BY <1>1, <2>6, <4>1, SlashText DEF words
      <4>3. TakenAway(w, t - 1, t) = <<"/">> \o Front(ui.query)
        <5>1. <<"/">> \in Runes
          BY OneRune DEF Rune
        <5>. QED BY <1>3, <2>1, <5>1, OneLessJoined
      <4>4. w # <<>>
        BY <4>2
      <4>5. TakenAway(Placed(opened.text, ui.start, w), (ui.start + t) - 1, ui.start + t) = Placed(opened.text, ui.start, TakenAway(w, t - 1, t))
        <5> HIDE DEF w
        <5>. QED BY <4>2, <4>4, OneLessPlaced
      <4> HIDE DEF w, t
      <4>6. cut = Placed(opened.text, ui.start, <<"/">> \o Front(ui.query))
        BY ONLY <4>2, <4>3, <4>5 DEF cut, to
      <4>7. to = ui.start + 1 + Len(Front(ui.query)) /\ ui.start <= Len(opened.text)
        <5>1. ui.start \in Nat
          BY <4>2
        <5>. QED BY <2>2, <4>2, <5>1 DEF to
      <4>. QED BY <4>2, <4>6, <4>7
    <3>10. MenuInv'
      BY <1>1, <3>1, <3>7, <3>8, <3>9, StaysInSlash
    <3>. QED BY <1>1, <3>1, <3>10 DEF MenuStep, SlashStep, OwnStep, EscStep
  <2>. QED BY <2>4, <2>5, <2>6
<1>. QED BY <1>2, <1>3

LEMMA RunSlashKeeps ==
    ASSUME MenuInv, NEW mode \in Command, RunSlash(mode) PROVE MenuInv' /\ MenuStep
<1> DEFINE u == AtTheSlash(ui)
<1>1. ui.mode = "slash" /\ ThereIs
  BY DEF RunSlash, OnRow, May
<1>2. CASE CannotStrip
  <2>1. Crash /\ key' = "crash"
    BY <1>2 DEF RunSlash, Crash
  <2>2. MenuInv'
    BY <1>1, <1>2, <2>1, StripCrash, CrashKeeps
  <2>. QED BY <1>1, <2>1, <2>2 DEF MenuStep, SlashStep, OwnStep, EscStep
<1>3. CASE ~CannotStrip
  <2>1. /\ opened' = opened /\ fate' = fate /\ key' = "close" /\ lines' = Stripped
        /\ mode = "note" =>
              /\ ui' = [u EXCEPT !.mode = "note", !.prev = NoteShown, !.caret = Len(NoteShown)]
              /\ noteOf' = [row |-> Resolve(Cur), text |-> lines.note[Resolve(Cur)]]
        /\ mode # "note" => ui' = [u EXCEPT !.mode = mode, !.query = <<>>, !.act = "other"] /\ noteOf' = noteOf
    BY <1>3 DEF RunSlash, Does0
  <2>2. u \in UiRec /\ u.rich = ui.rich /\ u.cursor = ui.cursor /\ u.prev = ui.prev
    BY AtTheSlashIs
  <2>3. /\ IsOutline(lines') /\ lines'.order = lines.order /\ lines'.source = lines.source /\ lines'.note = lines.note
        /\ ~fate.gone => lines'.name[opened.row] = opened.text
    BY <1>1, <1>3, <2>1, StripIs
  <2>4. ui.rich => fate.refused
    BY <1>1, OutlineIsPlain
  <2>5. NoteShown \in Runes /\ Len(NoteShown) \in Nat /\ Resolve(Cur) \in Ids /\ fate \in FateRec
    BY <1>1, AtCursor DEF MenuInv, MenuTyped, NoteShown, Runes
  <2> HIDE DEF u
  <2>6. CASE mode = "note"
    <3> DEFINE to == Len(NoteShown)
    <3>1. ui' = [u EXCEPT !.mode = "note", !.prev = NoteShown, !.caret = to] /\ to \in Nat
      BY <2>1, <2>5, <2>6
    <3> HIDE DEF to
    <3>2. ui' \in UiRec /\ ui'.mode = "note" /\ ui'.rich = ui.rich /\ ui'.cursor = ui.cursor /\ ui'.prev = NoteShown
      BY <2>2, <2>5, <3>1 DEF UiRec
    <3>3. Ids' = Ids /\ noteOf' \in [row : Ids, text : Runes] /\ ThereIs' /\ Resolve(Cur)' = Resolve(Cur)
      <4>1. Ids' = Ids
        BY <2>3 DEF Ids
      <4>2. noteOf' \in [row : Ids, text : Runes]
        BY <2>1, <2>5, <2>6 DEF NoteShown
      <4>3. ThereIs' /\ Resolve(Cur)' = Resolve(Cur)
        BY <1>1, <2>3, <3>2 DEF ThereIs, Resolve, Cur
      <4>. QED BY <4>1, <4>2, <4>3
    <3>4. MenuTyped'
      BY <2>1, <2>3, <3>2, <3>3 DEF MenuInv, MenuTyped
    <3>5. NoteIsKept'
      BY <2>1, <2>6, <3>2, <3>3 DEF NoteIsKept, NoteShown
    <3>6. SlashIsThere' /\ ComplIsThere' /\ RichIsOver' /\ NothingIsCutBeyondItsEnd'
      BY <2>1, <2>4, <3>2 DEF MenuInv, SlashIsThere, ComplIsThere, RichIsOver, NothingIsCutBeyondItsEnd
    <3>. QED BY <1>1, <2>1, <2>3, <3>4, <3>5, <3>6 DEF MenuInv, MenuStep, SlashStep, OwnStep, EscStep
  <2>7. CASE mode # "note"
    <3>1. <<>> \in Runes /\ mode \in {"type", "style", "insert", "finder", "outline"}
      BY <2>7 DEF Runes, Command
    <3>2. ui' \in UiRec /\ ui'.mode = mode /\ ui'.rich = ui.rich
      BY <2>1, <2>2, <2>7, <3>1 DEF UiRec, Menu
    <3>3. RichIsOver'
      BY <2>1, <2>4, <3>2 DEF RichIsOver
    <3>4. Quiet
      BY <2>1, <2>7 DEF Quiet
    <3>5. MenuInv'
      BY <2>3, <2>4, <3>1, <3>2, <3>3, <3>4, LeavesQuietly
    <3>. QED BY <1>1, <2>1, <2>3, <3>5 DEF MenuStep, SlashStep, OwnStep, EscStep
  <2>. QED BY <2>6, <2>7
<1>. QED BY <1>2, <1>3
-----------------------------------------------------------------------------
(* Others delete a row.                                                     *)

LEMMA OneRowLess == ASSUME MenuInv, NEW gone \in DOMAIN lines.order PROVE RemoveAt(lines.order, gone) \in Seq(Ids)
<1>1. lines.order \in Seq(Ids)
  BY DEF MenuInv, MenuTyped, IsOutline, Ids
<1>2. gone \in 1..Len(lines.order) /\ Len(lines.order) \in Nat
  BY <1>1
<1>3. SubSeq(lines.order, 1, gone - 1) \in Seq(Ids) /\ SubSeq(lines.order, gone + 1, Len(lines.order)) \in Seq(Ids)
  BY <1>1, <1>2
<1>. QED BY <1>3 DEF RemoveAt

LEMMA LeavesKeeps ==
    ASSUME MenuInv, NEW gone \in DOMAIN lines.order, NEW c \in Nat, NEW at \in Nat, Leaves(gone, c, at) PROVE MenuInv' /\ MenuStep
<1> DEFINE order == RemoveAt(lines.order, gone)
<1>1. /\ ThereIs /\ lines' = [lines EXCEPT !.order = order] /\ ui' = [ui EXCEPT !.cursor = c, !.caret = at] /\ key' = "others"
      /\ fate' = [fate EXCEPT !.gone = @ \/ ui.mode # "outline"] /\ opened' = opened /\ noteOf' = noteOf
  BY DEF Leaves, Does0, Fate
<1>2. ui \in UiRec /\ IsOutline(lines) /\ fate \in FateRec
  BY DEF MenuInv, MenuTyped
<1>3. /\ lines \in [order : Seq(Ids), kind : [Ids -> RowKind], source : [Ids -> Ids], name : [Ids -> Runes], note : [Ids -> Runes]]
      /\ lines.order \in Seq(Ids)
  BY <1>2 DEF IsOutline, Ids
<1>4. order \in Seq(Ids)
  BY OneRowLess
<1> HIDE DEF order
<1>5. /\ ui' \in UiRec /\ ui'.mode = ui.mode /\ ui'.rich = ui.rich /\ ui'.compl = ui.compl /\ ui'.act = ui.act
  BY <1>1, <1>2 DEF UiRec
<1>6. /\ fate' \in FateRec /\ fate'.gone = (fate.gone \/ ui.mode # "outline") /\ fate'.crashed = fate.crashed
      /\ fate'.strayed = fate.strayed /\ fate'.refused = fate.refused
  BY <1>1, <1>2 DEF FateRec
<1>7. IsOutline(lines') /\ Ids' = Ids
  BY <1>1, <1>2, <1>3, <1>4 DEF IsOutline, Ids
<1>8. MenuTyped'
  BY <1>1, <1>5, <1>6, <1>7 DEF MenuInv, MenuTyped
<1>9. RichIsOver' /\ NothingIsCutBeyondItsEnd'
  BY <1>5, <1>6 DEF MenuInv, RichIsOver, NothingIsCutBeyondItsEnd
<1>10. SlashIsThere' /\ ComplIsThere' /\ NoteIsKept'
  <2>1. ui.mode # "outline" => fate'.gone
    BY <1>6
  <2>2. ui.mode = "outline" /\ ui.rich => fate.refused
    BY OutlineIsPlain
  <2>. QED BY <1>5, <1>6, <2>1, <2>2 DEF SlashIsThere, ComplIsThere, NoteIsKept
<1>. QED BY <1>1, <1>8, <1>9, <1>10 DEF MenuInv, MenuStep, SlashStep, OwnStep, EscStep

LEMMA LiveDeleteKeeps == ASSUME MenuInv, NEW gone \in DOMAIN lines.order, LiveDelete(gone) PROVE MenuInv' /\ MenuStep
<1> DEFINE order == RemoveAt(lines.order, gone)
           from == IF gone < ui.cursor THEN ui.cursor - 1 ELSE ui.cursor
           c == Bound(from, order)
           at == IF order = <<>> THEN ui.caret ELSE Bound(ui.caret, lines.name[Resolve(order[c])])
<1>1. ThereIs /\ Leaves(gone, c, at)
  BY DEF LiveDelete, Leaves
<1>2. ui \in UiRec /\ lines.source \in [Ids -> Ids] /\ lines.name \in [Ids -> Runes] /\ lines.order \in Seq(Ids)
  BY DEF MenuInv, MenuTyped, IsOutline, Ids
<1>3. order \in Seq(Ids)
  BY OneRowLess
<1>4. gone \in 1..Len(lines.order) /\ ui.cursor \in 1..Len(lines.order) /\ Len(lines.order) \in Nat
  BY <1>1, <1>2 DEF ThereIs
<1> HIDE DEF order
<1>5. from \in Nat /\ from >= 1
  BY <1>4
<1>6. Len(order) \in Nat /\ (order # <<>> => Len(order) >= 1)
  BY <1>3
<1> HIDE DEF from
<1>7. c \in Nat /\ (order # <<>> => c \in 1..Len(order))
  BY <1>5, <1>6 DEF Bound
<1> HIDE DEF c
<1>8. at \in Nat
  <2>1. CASE order = <<>>
    BY <1>2, <2>1 DEF UiRec
  <2>2. CASE order # <<>>
    <3>1. order[c] \in Ids
      BY <1>3, <1>7, <2>2
    <3>2. lines.name[Resolve(order[c])] \in Runes
      BY <1>2, <3>1 DEF Resolve
    <3>. QED BY <1>2, <2>2, <3>2, BoundIn DEF UiRec
  <2>. QED BY <2>1, <2>2
<1> HIDE DEF at
<1>. QED BY <1>1, <1>7, <1>8, LeavesKeeps

LEMMA PullDropsKeeps == ASSUME MenuInv, NEW gone \in DOMAIN lines.order, PullDrops(gone) PROVE MenuInv' /\ MenuStep
<1>1. ui \in UiRec
  BY DEF MenuInv, MenuTyped
<1>2. RemoveAt(lines.order, gone) \in Seq(Ids)
  BY OneRowLess
<1>3. Bound(ui.cursor, RemoveAt(lines.order, gone)) \in Nat /\ ui.caret \in Nat
  BY <1>1, <1>2 DEF Bound, UiRec
<1>. QED BY <1>3, LeavesKeeps DEF PullDrops

-----------------------------------------------------------------------------
(* The completers.                                                          *)

LEMMA CompletesKeeps ==
    ASSUME MenuInv, ThereIs, ~fate.crashed, NEW u \in UiRec, NEW id \in {Cur, Resolve(Cur)}, NEW kind \in {"tag", "icon", "cmd"},
           NEW trigger \in Rune, kind = "tag" => trigger = "#",
           u.cursor = ui.cursor, u.caret = ui.caret, u.prev = ui.prev,
           ~u.rich => id = Resolve(Cur),
           u.rich /\ ~fate.refused => kind \in {"tag", "icon"} /\ (ui.mode = "note" \/ ui.rich),
           Completes(u, id, kind, trigger)
    PROVE  MenuInv' /\ key' = "open"
<1> DEFINE surface == IF u.rich THEN "note" ELSE "name"
           owner == IF u.rich THEN Resolve(id) ELSE id
           words == lines[surface][owner]
           at == Bound(ui.caret, words)
           placed == Placed(words, at, <<trigger>>)
<1>1. /\ lines' = WrittenTo(surface, owner, placed)
      /\ ui' = [u EXCEPT !.mode = "complete", !.compl = kind, !.start = at, !.caret = at + 1, !.query = <<>>]
      /\ key' = "open" /\ noteOf' = noteOf
      /\ opened' = [row |-> owner, surface |-> surface, text |-> words, start |-> at]
      /\ fate' = [fate EXCEPT !.strayed = @ \/ (surface = "name" /\ id # Cur)]
  BY DEF Completes, Does0, Fate, OpensOver, WrittenTo, WrittenIn
<1>2. /\ IsOutline(lines) /\ fate \in FateRec /\ ui \in UiRec /\ noteOf \in [row : Ids, text : Runes]
      /\ Cur \in Ids /\ Resolve(Cur) \in Ids /\ Resolve(Resolve(Cur)) = Resolve(Cur)
  BY AtCursor DEF MenuInv, MenuTyped
<1>3. owner \in Ids /\ surface \in {"name", "note"} /\ Resolve(owner) = owner /\ (u.rich => owner = Resolve(Cur))
  BY <1>2 DEF UiRec
<1>4. words \in Runes
  <2>1. lines.name \in [Ids -> Runes] /\ lines.note \in [Ids -> Runes]
    BY <1>2 DEF IsOutline, Ids
  <2>. QED BY <1>3, <2>1
<1>5. at \in 0..Len(words) /\ at \in Nat
  <2> HIDE DEF words
  <2>. QED BY <1>2, <1>4, BoundIn DEF UiRec
<1> HIDE DEF at
<1>6. <<trigger>> \in Runes /\ Len(<<trigger>>) = 1 /\ <<trigger>>[1] = trigger /\ <<>> \in Runes /\ Len(<<>>) = 0
  BY OneRune DEF Runes
<1>7. placed \in Runes
  <2> HIDE DEF words
  <2>. QED BY <1>4, <1>5, <1>6, PlacedAt
<1> HIDE DEF placed
<1>8. IsOutline(lines') /\ lines'.order = lines.order /\ lines'.source = lines.source /\ lines'[surface][owner] = placed
  <2> HIDE DEF surface, owner
  <2>1. IsOutline(lines) /\ owner \in Ids /\ surface \in {"name", "note"}
    BY <1>2, <1>3
  <2> DEFINE r == WrittenTo(surface, owner, placed)
  <2>2. IsOutline(r) /\ r.order = lines.order /\ r.source = lines.source /\ r[surface][owner] = placed
    <3>1. IsWritten(r, surface, owner, placed)
      BY ONLY <1>7, <2>1, AnyWritten
    <3> HIDE DEF r
    <3>. QED BY <3>1 DEF IsWritten
  <2> HIDE DEF r
  <2>3. lines' = r
    BY <1>1 DEF r
  <2>. QED BY <2>2, <2>3
<1>9. /\ ui' \in UiRec /\ ui'.mode = "complete" /\ ui'.compl = kind /\ ui'.start = at /\ ui'.caret = at + 1 /\ ui'.query = <<>>
      /\ ui'.rich = u.rich /\ ui'.cursor = ui.cursor /\ ui'.prev = ui.prev
  <2> DEFINE to == at + 1
  <2>1. to \in Nat /\ ui' = [u EXCEPT !.mode = "complete", !.compl = kind, !.start = at, !.caret = to, !.query = <<>>]
    BY <1>1, <1>5
  <2> HIDE DEF to
  <2>2. /\ ui' \in UiRec /\ ui'.mode = "complete" /\ ui'.compl = kind /\ ui'.start = at /\ ui'.caret = to /\ ui'.query = <<>>
        /\ ui'.rich = u.rich /\ ui'.cursor = ui.cursor /\ ui'.prev = ui.prev
    BY <1>5, <1>6, <2>1 DEF UiRec, Menu
  <2>. QED BY <2>2 DEF to
<1>10. /\ fate' \in FateRec /\ fate'.strayed = (fate.strayed \/ (surface = "name" /\ id # Cur)) /\ fate'.gone = fate.gone
       /\ fate'.crashed = fate.crashed /\ fate'.refused = fate.refused
  BY <1>1, <1>2 DEF FateRec
<1>11. ThereIs' /\ Cur' = Cur /\ Ids' = Ids /\ \A r : Resolve(r)' = Resolve(r)
  BY <1>8, <1>9 DEF ThereIs, Cur, Ids, Resolve
<1>12. MenuTyped'
  <2>1. opened' \in [row : Ids, surface : {"name", "note"}, text : Runes, start : Nat]
    <3> HIDE DEF surface, owner, words
    <3>. QED BY <1>1, <1>3, <1>4, <1>5
  <2>. QED BY <1>1, <1>2, <1>8, <1>9, <1>10, <1>11, <2>1 DEF MenuTyped
<1>13. ComplIsThere'
  <2>1. SUFFICES ASSUME ~fate'.strayed
                 PROVE  /\ opened'.surface = Surface0' /\ opened'.row = Owner0' /\ opened'.start = ui'.start
                        /\ Resolve(owner) = owner /\ opened'.row = owner /\ ui'.start <= Len(opened'.text) /\ \E m \in Runes : OwnText(m)'
    <3>1. Resolve(opened.row)' = Resolve(opened'.row)
      BY <1>8 DEF Resolve
    <3>. QED BY <1>11, <3>1 DEF ComplIsThere
  <2>2. Surface0' = surface
    BY <1>9 DEF Surface0, RichNote
  <2>3. Owner0' = owner
    <3>1. CASE u.rich
      BY <1>3, <1>9, <1>11, <3>1 DEF Owner0, RichNote
    <3>2. CASE ~u.rich
      <4>1. id = Cur
        BY <1>10, <2>1, <3>2
      <4>. QED BY <1>9, <1>11, <3>2, <4>1 DEF Owner0, RichNote
    <3>. QED BY <3>1, <3>2
  <2> HIDE DEF surface, owner, words
  <2>4. opened'.surface = surface /\ opened'.row = owner /\ opened'.start = at /\ opened'.text = words
    BY <1>1
  <2>5. OwnText(<<trigger>>)'
    <3>1. RichText' = placed
      BY <1>8, <2>2, <2>3 DEF RichText
    <3>. QED BY <1>6, <1>9, <2>4, <3>1 DEF OwnText, placed
  <2>6. at <= Len(words)
    BY <1>5
  <2>7. \E m \in Runes : OwnText(m)'
    <3> HIDE DEF OwnText
    <3>. QED BY <1>6, <2>5
  <2>. QED BY <1>3, <1>9, <2>2, <2>3, <2>4, <2>6, <2>7
<1>14. SlashIsThere' /\ RichIsOver' /\ NothingIsCutBeyondItsEnd'
  BY <1>9, <1>10 DEF SlashIsThere, RichIsOver, NothingIsCutBeyondItsEnd
<1>15. NoteIsKept'
  <2>1. SUFFICES ASSUME u.rich, ~fate.refused, ~fate.gone PROVE ThereIs' /\ noteOf'.row = Resolve(Cur)' /\ ui'.prev = noteOf'.text
    BY <1>9, <1>10 DEF NoteIsKept
  <2>2. noteOf.row = Resolve(Cur) /\ ui.prev = noteOf.text
    BY <2>1 DEF MenuInv, NoteIsKept
  <2>. QED BY <1>1, <1>9, <1>11, <2>2
<1>. QED BY <1>1, <1>12, <1>13, <1>14, <1>15 DEF MenuInv
LEMMA HashKeyKeeps == ASSUME MenuInv, HashKey PROVE MenuInv' /\ MenuStep
<1>1. ui.mode = "outline" /\ ThereIs /\ ~fate.crashed /\ Completes(ui, Resolve(Cur), "tag", "#")
  BY DEF HashKey, OnRow, May
<1>2. ui \in UiRec /\ (ui.rich => fate.refused)
  BY <1>1, OutlineIsPlain DEF MenuInv, MenuTyped
<1>3. "#" \in Rune
  BY DEF Rune
<1>4. MenuInv' /\ key' = "open"
  BY <1>1, <1>2, <1>3, CompletesKeeps
<1>. QED BY <1>1, <1>4 DEF MenuStep, SlashStep, OwnStep, EscStep

LEMMA ColonKeyKeeps == ASSUME MenuInv, ColonKey PROVE MenuInv' /\ MenuStep
<1>1. ui.mode = "outline" /\ ThereIs /\ ~fate.crashed /\ \E kind \in {"cmd", "icon"} : Completes(ui, Resolve(Cur), kind, ":")
  BY DEF ColonKey, OnRow, May
<1>2. ui \in UiRec /\ (ui.rich => fate.refused)
  BY <1>1, OutlineIsPlain DEF MenuInv, MenuTyped
<1>3. ":" \in Rune
  BY DEF Rune
<1>4. PICK kind \in {"cmd", "icon"} : Completes(ui, Resolve(Cur), kind, ":")
  BY <1>1
<1>5. kind # "tag" /\ kind \in {"tag", "icon", "cmd"}
  OBVIOUS
<1>6. MenuInv' /\ key' = "open"
  BY <1>1, <1>2, <1>3, <1>4, <1>5, CompletesKeeps
<1>. QED BY <1>1, <1>6 DEF MenuStep, SlashStep, OwnStep, EscStep

LEMMA InsertCompletes ==
    ASSUME MenuInv, NEW kind, ChooseInsert(kind), ~Refuses(kind), kind \in {"tag", "icon"} PROVE MenuInv' /\ MenuStep
<1> DEFINE trigger == IF kind = "tag" THEN "#" ELSE ":"
<1>1. ui.mode = "insert" /\ ThereIs /\ ~fate.crashed /\ Completes(ui, Cur, kind, trigger) /\ Resolve(Cur) = Cur
  BY DEF ChooseInsert, OnRow, May, Refuses, Resolve
<1>2. ui \in UiRec
  BY DEF MenuInv, MenuTyped
<1>3. trigger \in Rune /\ (kind = "tag" => trigger = "#") /\ kind \in {"tag", "icon", "cmd"}
  BY DEF Rune
<1> HIDE DEF trigger
<1>4. MenuInv' /\ key' = "open"
  BY <1>1, <1>2, <1>3, CompletesKeeps
<1>. QED BY <1>1, <1>4 DEF MenuStep, SlashStep, OwnStep, EscStep

LEMMA NoteCompletesKeeps ==
    ASSUME MenuInv, NoteCompletes("tag", "#") \/ NoteCompletes("icon", ":") PROVE MenuInv' /\ MenuStep
<1> DEFINE u == [ui EXCEPT !.rich = TRUE]
<1>1. PICK kind \in {"tag", "icon"} : NoteCompletes(kind, IF kind = "tag" THEN "#" ELSE ":")
  OBVIOUS
<1> DEFINE trigger == IF kind = "tag" THEN "#" ELSE ":"
<1>2. ui.mode = "note" /\ ThereIs /\ ~fate.crashed /\ Completes(u, Resolve(Cur), kind, trigger)
  BY <1>1 DEF NoteCompletes, OnRow, May
<1>3. ui \in UiRec
  BY DEF MenuInv, MenuTyped
<1>4. u \in UiRec /\ u.rich = TRUE /\ u.cursor = ui.cursor /\ u.caret = ui.caret /\ u.prev = ui.prev
  BY <1>3 DEF UiRec
<1>5. trigger \in Rune /\ (kind = "tag" => trigger = "#") /\ kind \in {"tag", "icon", "cmd"}
  BY DEF Rune
<1> HIDE DEF trigger, u
<1>6. MenuInv' /\ key' = "open"
  BY <1>2, <1>4, <1>5, CompletesKeeps
<1>. QED BY <1>2, <1>6 DEF MenuStep, SlashStep, OwnStep, EscStep

\* The text under a completer: the old one, with what was typed between where it was opened and the caret.
LEMMA ComplText ==
    ASSUME MenuInv, ui.mode = "complete", ~fate.gone, ~fate.strayed
    PROVE  /\ ThereIs /\ opened.surface = Surface0 /\ opened.row = Owner0 /\ opened.start = ui.start /\ Resolve(Owner0) = Owner0
           /\ opened.text \in Runes /\ ui.start \in 0..Len(opened.text) /\ ui.start \in Nat /\ Len(opened.text) \in Nat
           /\ \E m \in Runes : /\ OwnText(m) /\ RichText = Placed(opened.text, ui.start, m) /\ ui.caret = ui.start + Len(m)
                               /\ RichText \in Runes /\ Len(RichText) = Len(opened.text) + Len(m) /\ Len(m) \in Nat
                               /\ Bound(ui.caret, RichText) = ui.caret /\ ui.caret <= Len(RichText) /\ ui.caret \in Nat
<1>1. /\ ThereIs /\ opened.surface = Surface0 /\ opened.row = Owner0 /\ opened.start = ui.start /\ Resolve(Owner0) = Owner0
      /\ ui.start <= Len(opened.text) /\ \E m \in Runes : OwnText(m)
  BY DEF MenuInv, ComplIsThere
<1>2. opened.text \in Runes /\ ui.start \in Nat
  BY DEF MenuInv, MenuTyped, UiRec
<1>3. ui.start \in 0..Len(opened.text) /\ Len(opened.text) \in Nat
  BY <1>1, <1>2 DEF Runes
<1>4. PICK m \in Runes : OwnText(m)
  BY <1>1
<1>5. RichText = Placed(opened.text, ui.start, m) /\ ui.caret = ui.start + Len(m)
  BY <1>4 DEF OwnText
<1>6. /\ Placed(opened.text, ui.start, m) \in Runes /\ Len(Placed(opened.text, ui.start, m)) = Len(opened.text) + Len(m) /\ Len(m) \in Nat
  BY <1>2, <1>3, PlacedAt
<1>7. RichText \in Runes /\ Len(RichText) = Len(opened.text) + Len(m)
  BY <1>5, <1>6
<1>8. ui.caret <= Len(RichText) /\ ui.caret \in Nat
  <2> HIDE DEF RichText
  <2>. QED BY <1>1, <1>2, <1>3, <1>5, <1>6, <1>7
<1>9. Bound(ui.caret, RichText) = ui.caret
  BY <1>7, <1>8 DEF Bound, Runes
<1>. QED BY <1>1, <1>2, <1>3, <1>4, <1>5, <1>6, <1>7, <1>8, <1>9

\* A text that has something in the place of what was typed is framed.
LEMMA IsFramed ==
    ASSUME NEW n \in Runes, opened.text \in Runes, opened.start \in 0..Len(opened.text) PROVE Framed(Placed(opened.text, opened.start, n))
BY PlacedIsFramed DEF Framed

\* Keys under a completer that is closed, its text untouched.
LEMMA ComplCloses ==
    ASSUME MenuInv, ui.mode = "complete", Does0("close", lines, FinishRich(ui)), Quiet PROVE MenuInv' /\ MenuStep
<1>1. lines' = lines /\ ui' = FinishRich(ui) /\ key' = "close"
  BY DEF Does0
<1>2. IsOutline(lines) /\ ui \in UiRec
  BY DEF MenuInv, MenuTyped
<1>3. MenuInv'
  BY <1>1, <1>2, ClosesAMenu
<1>4. OwnStep
  <2>1. SUFFICES ASSUME ~fate.gone, ~fate.strayed PROVE Framed(lines[opened.surface][opened.row])
    BY <1>1 DEF OwnStep
  <2>2. PICK m \in Runes : /\ RichText = Placed(opened.text, ui.start, m)
    BY <2>1, ComplText
  <2>3. /\ opened.surface = Surface0 /\ opened.row = Owner0 /\ opened.text \in Runes /\ opened.start \in 0..Len(opened.text)
        /\ opened.start = ui.start
    BY <2>1, ComplText
  <2>4. Framed(Placed(opened.text, opened.start, m))
    BY <2>3, IsFramed
  <2>. QED BY <2>2, <2>3, <2>4 DEF RichText
<1>. QED BY <1>1, <1>3, <1>4 DEF MenuStep, SlashStep, EscStep

LEMMA ComplClosersKeep == ASSUME MenuInv, ComplEsc \/ ChooseNothing PROVE MenuInv' /\ MenuStep
BY ComplCloses DEF ComplEsc, ChooseNothing, OnRow, May

\* A completer whose text becomes `text`, in place, and that stays open or chains to the next.
LEMMA StaysInCompl ==
    ASSUME MenuInv, ui.mode = "complete", ThereIs, NEW words \in Runes, lines' = Written0(words),
           ui' \in UiRec, ui'.mode = "complete", ui'.rich = ui.rich, ui'.cursor = ui.cursor, ui'.prev = ui.prev,
           ui'.compl = ui.compl \/ (ui.rich => fate.refused),
           opened' \in [row : Ids, surface : {"name", "note"}, text : Runes, start : Nat],
           opened'.surface = opened.surface, opened'.row = opened.row, fate' = fate, noteOf' = noteOf,
           ~fate.gone /\ ~fate.strayed =>
               /\ opened'.start = ui'.start /\ ui'.start <= Len(opened'.text)
               /\ \E m \in Runes : /\ words = Placed(opened'.text, ui'.start, m) /\ ui'.caret = ui'.start + Len(m)
                                   /\ Len(m) \in {Len(ui'.query), Len(ui'.query) + 1}
                                   /\ ui'.compl = "tag" => Len(m) = Len(ui'.query) + 1 /\ m[1] = "#"
    PROVE  MenuInv'
<1>1. IsOutline(lines') /\ lines'.order = lines.order /\ lines'.source = lines.source /\ lines'[Surface0][Owner0] = words
  BY Written0Is
<1>2. ThereIs' /\ Cur' = Cur /\ Ids' = Ids /\ \A r : Resolve(r)' = Resolve(r)
  BY <1>1 DEF ThereIs, Cur, Ids, Resolve
<1>3. Surface0' = Surface0 /\ Owner0' = Owner0
  BY <1>2 DEF Surface0, Owner0, RichNote
<1>4. MenuTyped'
  BY <1>1, <1>2 DEF MenuInv, MenuTyped
<1>5. ComplIsThere'
  <2>1. SUFFICES ASSUME ~fate.gone, ~fate.strayed
                 PROVE  /\ opened'.surface = Surface0' /\ opened'.row = Owner0' /\ opened'.start = ui'.start
                        /\ Resolve(opened.row)' = opened'.row /\ ui'.start <= Len(opened'.text) /\ \E m \in Runes : OwnText(m)'
    BY <1>2 DEF ComplIsThere
  <2>2. opened.surface = Surface0 /\ opened.row = Owner0 /\ Resolve(Owner0) = Owner0
    BY <2>1, ComplText
  <2>3. RichText' = words
    BY <1>1, <1>3 DEF RichText
  <2>4. PICK m \in Runes : /\ words = Placed(opened'.text, ui'.start, m) /\ ui'.caret = ui'.start + Len(m)
                           /\ Len(m) \in {Len(ui'.query), Len(ui'.query) + 1}
                           /\ ui'.compl = "tag" => Len(m) = Len(ui'.query) + 1 /\ m[1] = "#"
    BY <2>1
  <2>5. OwnText(m)'
    <3>1. RichText' = Placed(opened'.text, ui'.start, m)
      BY <2>3, <2>4
    <3> HIDE DEF RichText
    <3>2. ui'.caret = ui'.start + Len(m) /\ Len(m) \in {Len(ui'.query), Len(ui'.query) + 1}
      BY <2>4
    <3>3. ui'.compl = "tag" => Len(m) = Len(ui'.query) + 1 /\ m[1] = "#"
      BY <2>4
    <3>. QED BY ONLY <3>1, <3>2, <3>3 DEF OwnText
  <2>6. Resolve(opened.row)' = opened'.row
    BY <1>1, <2>2 DEF Resolve
  <2>7. \E x \in Runes : OwnText(x)'
    <3> HIDE DEF OwnText
    <3>. QED BY <2>5
  <2>. QED BY <1>3, <2>1, <2>2, <2>6, <2>7
<1>6. SlashIsThere' /\ NothingIsCutBeyondItsEnd' /\ RichIsOver'
  BY DEF MenuInv, SlashIsThere, NothingIsCutBeyondItsEnd, RichIsOver
<1>7. NoteIsKept'
  BY <1>2 DEF MenuInv, NoteIsKept
<1>. QED BY <1>4, <1>5, <1>6, <1>7 DEF MenuInv
\* A completer closed with another text.
LEMMA ComplWrites ==
    ASSUME MenuInv, ui.mode = "complete", ThereIs, NEW words \in Runes, lines' = Written0(words), key' = "close", Quiet,
           NEW u \in UiRec, ui' = FinishRich(u), u.rich = ui.rich, u.cursor = ui.cursor, u.prev = ui.prev,
           ~fate.gone /\ ~fate.strayed => \E n \in Runes : words = Placed(opened.text, opened.start, n)
    PROVE  MenuInv' /\ MenuStep
<1>1. IsOutline(lines') /\ lines'.order = lines.order /\ lines'.source = lines.source /\ lines'[Surface0][Owner0] = words
  BY Written0Is
<1>2. MenuInv'
  BY <1>1, ClosesAMenu
<1>3. OwnStep
  <2>1. SUFFICES ASSUME ~fate.gone, ~fate.strayed PROVE Framed(lines'[opened.surface][opened.row])
    BY DEF OwnStep
  <2>2. /\ opened.surface = Surface0 /\ opened.row = Owner0 /\ opened.text \in Runes /\ opened.start \in 0..Len(opened.text)
    BY <2>1, ComplText
  <2>3. PICK n \in Runes : words = Placed(opened.text, opened.start, n)
    BY <2>1
  <2>. QED BY <1>1, <2>2, <2>3, IsFramed
<1>. QED BY <1>2, <1>3 DEF MenuStep, SlashStep, EscStep

\* The trigger taken away.
LEMMA DropIs ==
    ASSUME NEW words \in Runes, ui.start \in Nat
    PROVE  /\ DropsTrigger(words) \in Runes /\ Len(words) \in Nat /\ Len(DropsTrigger(words)) \in Nat
           /\ DropsTrigger(words) # words => Len(DropsTrigger(words)) = Len(words) - 1
<1>1. Len(words) \in Nat
  BY DEF Runes
<1>2. CASE ui.start < Len(words) /\ words[ui.start + 1] = ":"
  <2> DEFINE to == ui.start + 1
  <2>1. ui.start \in 0..Len(words) /\ to \in Nat /\ ui.start <= to /\ Bound(to, words) = to /\ to - ui.start = 1
    BY <1>1, <1>2 DEF Bound
  <2>2. DropsTrigger(words) = TakenAway(words, ui.start, to)
    BY <1>2 DEF DropsTrigger
  <2> HIDE DEF to
  <2>3. TakenAway(words, ui.start, to) \in Runes /\ Len(TakenAway(words, ui.start, to)) = Len(words) - (Bound(to, words) - ui.start)
    BY <2>1, TakenAwayAt
  <2>4. Len(TakenAway(words, ui.start, to)) \in Nat
    BY <2>3 DEF Runes
  <2>. QED BY <1>1, <2>1, <2>2, <2>3, <2>4
<1>3. CASE ~(ui.start < Len(words) /\ words[ui.start + 1] = ":")
  BY <1>1, <1>3 DEF DropsTrigger
<1>. QED BY <1>2, <1>3

LEMMA ComplRuneKeeps ==
    ASSUME MenuInv, NEW rune \in Rune, ComplRune(rune) PROVE MenuInv' /\ MenuStep
<1> DEFINE old == RichText
           from == Bound(ui.caret, old)
           words == Placed(old, from, <<rune>>)
           at == from + 1
           query == Append(ui.query, rune)
           cut == DropsTrigger(words)
           back == IF cut # words /\ at > ui.start THEN at - 1 ELSE at
           ends == ui.compl = "tag" /\ ui.query = <<>> /\ rune = "("
           typed == ui.compl = "cmd" /\ TypedCommand(query)
<1>1. ui.mode = "complete" /\ ThereIs
  BY DEF ComplRune, OnRow, May
<1>2. ui \in UiRec /\ IsOutline(lines) /\ old \in Runes /\ ui.caret \in Nat /\ ui.start \in Nat /\ ui.query \in Runes
  BY <1>1, AtCursor DEF MenuInv, MenuTyped, UiRec
<1>3. CASE ends
  BY <1>1, <1>3, ComplCloses DEF ComplRune
<1>4. ~ends => IF typed
               THEN \/ /\ Does0("chain", Written0(cut), [ui EXCEPT !.compl = "type", !.query = <<>>, !.caret = back, !.start = back])
                       /\ opened' = [opened EXCEPT !.text = cut, !.start = back]
                       /\ UNCHANGED <<noteOf, fate>>
                    \/ Does0("close", Written0(cut), FinishRich([ui EXCEPT !.query = <<>>, !.caret = back])) /\ Quiet
               ELSE Does0("rune", Written0(words), [ui EXCEPT !.query = query, !.caret = at]) /\ Quiet
  BY DEF ComplRune
<1> HIDE DEF old
<1>5. from \in 0..Len(old) /\ from \in Nat
  BY <1>2, BoundIn
<1>6. <<rune>> \in Runes /\ Len(<<rune>>) = 1 /\ <<>> \in Runes /\ Len(<<>>) = 0
  BY OneRune DEF Runes
<1>7. words \in Runes /\ Len(words) = Len(old) + 1 /\ Len(old) \in Nat
  <2> HIDE DEF from
  <2>. QED BY <1>2, <1>5, <1>6, PlacedAt
<1>8. at \in Nat /\ at <= Len(words)
  <2> HIDE DEF from, words
  <2>. QED BY <1>5, <1>7
<1>9. query \in Runes /\ Len(query) = Len(ui.query) + 1 /\ Len(ui.query) \in Nat
  BY <1>2, Joined DEF Runes
\* Under a completer that holds its text, the text has the rune behind what was typed.
<1>10. ASSUME ~fate.gone, ~fate.strayed
       PROVE  /\ opened.text \in Runes /\ ui.start \in 0..Len(opened.text) /\ opened.start = ui.start /\ at > ui.start
              /\ \E m \in Runes : /\ OwnText(m) /\ words = Placed(opened.text, ui.start, m \o <<rune>>) /\ m \o <<rune>> \in Runes
                                  /\ Len(m \o <<rune>>) = Len(m) + 1 /\ at = ui.start + Len(m \o <<rune>>) /\ Len(m) \in Nat
                                  /\ Len(m) >= 1 => (m \o <<rune>>)[1] = m[1]
  <2>1. /\ opened.text \in Runes /\ ui.start \in 0..Len(opened.text) /\ opened.start = ui.start
        /\ \E m \in Runes : OwnText(m) /\ old = Placed(opened.text, ui.start, m) /\ ui.caret = ui.start + Len(m) /\ from = ui.caret
    BY <1>1, <1>10, ComplText DEF old
  <2>2. PICK m \in Runes : OwnText(m) /\ old = Placed(opened.text, ui.start, m) /\ ui.caret = ui.start + Len(m) /\ from = ui.caret
    BY <2>1
  <2>3. /\ m \o <<rune>> \in Runes /\ Len(m \o <<rune>>) = Len(m) + 1 /\ Len(m) \in Nat
        /\ Len(m) >= 1 => (m \o <<rune>>)[1] = m[1]
    <3>1. /\ m \o <<rune>> \in Runes /\ Len(m \o <<rune>>) = Len(m) + Len(<<rune>>) /\ Len(m) \in Nat
          /\ \A i \in 1..(Len(m) + Len(<<rune>>)) : (m \o <<rune>>)[i] = IF i <= Len(m) THEN m[i] ELSE <<rune>>[i - Len(m)]
      BY <1>6, TwoTexts
    <3>. QED BY <1>6, <3>1
  <2>4. Placed(Placed(opened.text, ui.start, m), ui.start + Len(m), <<rune>>) = Placed(opened.text, ui.start, m \o <<rune>>)
    BY <1>6, <2>1, OneMorePlaced
  <2>5. words = Placed(opened.text, ui.start, m \o <<rune>>)
    BY <2>2, <2>4
  <2>6. at = ui.start + Len(m \o <<rune>>) /\ at > ui.start
    <3> HIDE DEF from
    <3>. QED BY <1>2, <2>2, <2>3
  <2>. QED BY <2>1, <2>2, <2>3, <2>5, <2>6
<1> HIDE DEF from, words, at, query, typed
<1>11. /\ cut \in Runes /\ Len(cut) \in Nat /\ (cut # words => Len(cut) = Len(words) - 1) /\ Len(words) \in Nat
  BY <1>2, <1>7, DropIs
<1>12. ~fate.gone /\ ~fate.strayed => \E n \in Runes : cut = Placed(opened.text, opened.start, n)
  <2>1. SUFFICES ASSUME ~fate.gone, ~fate.strayed PROVE \E n \in Runes : cut = Placed(opened.text, opened.start, n)
    OBVIOUS
  <2>2. PICK m \in Runes : /\ words = Placed(opened.text, ui.start, m \o <<rune>>) /\ m \o <<rune>> \in Runes
                           /\ Len(m \o <<rune>>) = Len(m) + 1 /\ Len(m) \in Nat
    BY <1>10, <2>1
  <2>3. opened.text \in Runes /\ ui.start \in 0..Len(opened.text) /\ opened.start = ui.start
    BY <1>10, <2>1
  <2> DEFINE n == m \o <<rune>>
  <2>4. n \in Runes /\ Len(n) \in Nat /\ Len(n) >= 1 /\ words = Placed(opened.text, ui.start, n)
    BY <2>2
  <2> HIDE DEF n
  <2>5. CASE cut = words
    BY <2>3, <2>4, <2>5
  <2>6. CASE cut # words
    <3>1. cut = TakenAway(words, ui.start, ui.start + 1)
      BY <2>6 DEF DropsTrigger
    <3> DEFINE i == 0
               j == 1
    <3>2. i \in 0..Len(n) /\ j \in i..Len(n) /\ ui.start + i = ui.start
      BY <1>2, <2>4
    <3> HIDE DEF i, j
    <3>3. TakenAway(Placed(opened.text, ui.start, n), ui.start + i, ui.start + j) = Placed(opened.text, ui.start, TakenAway(n, i, j))
      BY <2>3, <2>4, <3>2, TakenInside
    <3>4. TakenAway(n, i, j) \in Runes
      <4>1. j \in Nat /\ i <= j
        BY <3>2 DEF i, j
      <4>. QED BY <2>4, <3>2, <4>1, TakenAwayAt
    <3>5. cut = Placed(opened.text, opened.start, TakenAway(n, i, j))
      BY <2>3, <2>4, <3>1, <3>2, <3>3 DEF j
    <3>. QED BY <3>4, <3>5
  <2>. QED BY <2>5, <2>6
<1> HIDE DEF cut
<1>13. back \in Nat /\ (~fate.gone /\ ~fate.strayed => back <= Len(cut))
  <2>1. CASE cut # words /\ at > ui.start
    BY <1>2, <1>8, <1>11, <2>1
  <2>2. CASE ~(cut # words /\ at > ui.start)
    BY <1>2, <1>8, <1>10, <1>11, <2>2
  <2>. QED BY <2>1, <2>2
<1> HIDE DEF back, ends
<1>14. CASE ~ends /\ typed
  <2>0. typed => ui.compl = "cmd"
    BY DEF typed
  <2>1. CASE /\ Does0("chain", Written0(cut), [ui EXCEPT !.compl = "type", !.query = <<>>, !.caret = back, !.start = back])
             /\ opened' = [opened EXCEPT !.text = cut, !.start = back]
             /\ UNCHANGED <<noteOf, fate>>
    <3>1. lines' = Written0(cut) /\ key' = "chain" /\ ui' = [ui EXCEPT !.compl = "type", !.query = <<>>, !.caret = back, !.start = back]
      BY <2>1 DEF Does0
    <3>2. /\ ui' \in UiRec /\ ui'.mode = "complete" /\ ui'.rich = ui.rich /\ ui'.cursor = ui.cursor /\ ui'.prev = ui.prev
          /\ ui'.compl = "type" /\ ui'.query = <<>> /\ ui'.start = back /\ ui'.caret = back
      BY <1>1, <1>2, <1>6, <1>13, <3>1 DEF UiRec
    <3>3. opened \in [row : Ids, surface : {"name", "note"}, text : Runes, start : Nat]
      BY DEF MenuInv, MenuTyped
    <3>4. /\ opened' \in [row : Ids, surface : {"name", "note"}, text : Runes, start : Nat]
          /\ opened'.surface = opened.surface /\ opened'.row = opened.row /\ opened'.text = cut /\ opened'.start = back
      BY <1>11, <1>13, <2>1, <3>3
    <3>5. ui.rich => fate.refused
      BY <1>1, <1>14, <2>0 DEF MenuInv, RichIsOver
    <3>6. ASSUME ~fate.gone, ~fate.strayed
          PROVE  \E m \in Runes : /\ cut = Placed(opened'.text, ui'.start, m) /\ ui'.caret = ui'.start + Len(m)
                                  /\ Len(m) \in {Len(ui'.query), Len(ui'.query) + 1}
                                  /\ ui'.compl = "tag" => Len(m) = Len(ui'.query) + 1 /\ m[1] = "#"
      <4>1. Placed(cut, back, <<>>) = cut
        <5>1. back \in 0..Len(cut)
          BY <1>11, <1>13, <3>6
        <5>. QED BY <1>11, <5>1, PlacedNothing
      <4>. QED BY <1>6, <1>13, <3>2, <3>4, <4>1
    <3>7. fate' = fate /\ noteOf' = noteOf
      BY <2>1
    <3>8. MenuInv'
      BY <1>1, <1>11, <1>13, <3>1, <3>2, <3>4, <3>5, <3>6, <3>7, StaysInCompl
    <3>. QED BY <1>1, <3>1, <3>8 DEF MenuStep, SlashStep, OwnStep, EscStep
  <2>2. CASE Does0("close", Written0(cut), FinishRich([ui EXCEPT !.query = <<>>, !.caret = back])) /\ Quiet
    <3> DEFINE u == [ui EXCEPT !.query = <<>>, !.caret = back]
    <3>1. lines' = Written0(cut) /\ key' = "close" /\ ui' = FinishRich(u) /\ Quiet
      BY <2>2 DEF Does0
    <3>2. u \in UiRec /\ u.rich = ui.rich /\ u.cursor = ui.cursor /\ u.prev = ui.prev
      BY <1>2, <1>6, <1>13 DEF UiRec
    <3> HIDE DEF u
    <3>. QED BY <1>1, <1>11, <1>12, <3>1, <3>2, ComplWrites
  <2>. QED BY <1>4, <1>14, <2>1, <2>2
<1>15. CASE ~ends /\ ~typed
  <2>1. lines' = Written0(words) /\ key' = "rune" /\ ui' = [ui EXCEPT !.query = query, !.caret = at] /\ Quiet
    BY <1>4, <1>15 DEF Does0
  <2>2. /\ ui' \in UiRec /\ ui'.mode = "complete" /\ ui'.rich = ui.rich /\ ui'.cursor = ui.cursor /\ ui'.prev = ui.prev
        /\ ui'.compl = ui.compl /\ ui'.query = query /\ ui'.start = ui.start /\ ui'.caret = at
    BY <1>1, <1>2, <1>8, <1>9, <2>1 DEF UiRec
  <2>3. /\ opened \in [row : Ids, surface : {"name", "note"}, text : Runes, start : Nat]
        /\ opened' = opened /\ fate' = fate /\ noteOf' = noteOf
    BY <2>1 DEF MenuInv, MenuTyped, Quiet
  <2>4. ASSUME ~fate.gone, ~fate.strayed
        PROVE  \E m \in Runes : /\ words = Placed(opened'.text, ui'.start, m) /\ ui'.caret = ui'.start + Len(m)
                                /\ Len(m) \in {Len(ui'.query), Len(ui'.query) + 1}
                                /\ ui'.compl = "tag" => Len(m) = Len(ui'.query) + 1 /\ m[1] = "#"
    <3>1. PICK m \in Runes : /\ OwnText(m) /\ words = Placed(opened.text, ui.start, m \o <<rune>>) /\ m \o <<rune>> \in Runes
                             /\ Len(m \o <<rune>>) = Len(m) + 1 /\ at = ui.start + Len(m \o <<rune>>) /\ Len(m) \in Nat
                             /\ Len(m) >= 1 => (m \o <<rune>>)[1] = m[1]
      BY <1>10, <2>4
    <3>2. Len(m) \in {Len(ui.query), Len(ui.query) + 1} /\ (ui.compl = "tag" => Len(m) = Len(ui.query) + 1 /\ m[1] = "#")
      BY <3>1 DEF OwnText
    <3> DEFINE n == m \o <<rune>>
    <3>3. n \in Runes /\ words = Placed(opened'.text, ui'.start, n) /\ ui'.caret = ui'.start + Len(n)
      BY <2>2, <2>3, <3>1
    <3>4. Len(n) \in {Len(ui'.query), Len(ui'.query) + 1} /\ (ui'.compl = "tag" => Len(n) = Len(ui'.query) + 1 /\ n[1] = "#")
      BY <1>9, <2>2, <3>1, <3>2
    <3> HIDE DEF n
    <3>. QED BY <3>3, <3>4
  <2>5. ~fate.gone /\ ~fate.strayed => opened'.start = ui'.start /\ ui'.start <= Len(opened'.text)
    BY <1>10, <2>2, <2>3
  <2>6. MenuInv'
    BY <1>1, <1>7, <2>1, <2>2, <2>3, <2>4, <2>5, StaysInCompl
  <2>7. OwnStep
    <3>1. SUFFICES ASSUME ~fate.gone, ~fate.strayed PROVE Framed(lines'[opened.surface][opened.row])
      BY DEF OwnStep
    <3>2. lines'[opened.surface][opened.row] = words
      BY <1>1, <1>7, <2>1, <3>1, ComplText, Written0Is
    <3>3. opened.text \in Runes /\ opened.start \in 0..Len(opened.text) /\ \E n \in Runes : words = Placed(opened.text, opened.start, n)
      BY <1>10, <3>1
    <3>. QED BY <3>2, <3>3, IsFramed
  <2>. QED BY <1>1, <2>1, <2>6, <2>7 DEF MenuStep, SlashStep, EscStep
<1>. QED BY <1>3, <1>14, <1>15
\* The rune before the caret is deleted, of what was typed as long as the caret stays behind where it was opened.
LEMMA ComplBackspaceKeeps == ASSUME MenuInv, ComplBackspace PROVE MenuInv' /\ MenuStep
<1> DEFINE old == RichText
           back == CaretBack(old)
           cut == Deleted0(old, ui.caret)
           u == [ui EXCEPT !.caret = back]
<1>1. ui.mode = "complete" /\ ThereIs
  BY DEF ComplBackspace, OnRow, May
<1>2. ui \in UiRec /\ IsOutline(lines) /\ old \in Runes /\ ui.caret \in Nat /\ ui.start \in Nat /\ ui.query \in Runes
  BY <1>1, AtCursor DEF MenuInv, MenuTyped, UiRec
<1>3. IF ui.caret > 0 /\ old = <<>> THEN Crash
      ELSE /\ Does0(IF ui.query = <<>> THEN "close" ELSE "backspace", Written0(cut),
                    IF ui.query = <<>> THEN FinishRich(u) ELSE [u EXCEPT !.query = Front(@)])
           /\ Quiet
  BY DEF ComplBackspace
<1> HIDE DEF old
<1>4. CASE ui.caret > 0 /\ old = <<>>
  <2>1. Crash
    BY <1>3, <1>4
  <2>2. fate.gone \/ fate.strayed
    <3>1. SUFFICES ASSUME ~fate.gone, ~fate.strayed PROVE FALSE
      OBVIOUS
    <3>2. ui.caret <= Len(old)
      BY <1>1, <3>1, ComplText DEF old
    <3>. QED BY <1>2, <1>4, <3>2
  <2>3. MenuInv'
    BY <2>1, <2>2, CrashKeeps
  <2>. QED BY <1>1, <2>1, <2>3 DEF MenuStep, SlashStep, OwnStep, EscStep, Crash
<1>5. CASE ~(ui.caret > 0 /\ old = <<>>)
  <2> DEFINE from == Bound(ui.caret, old)
  <2>1. from \in 0..Len(old) /\ from \in Nat /\ Len(old) \in Nat
    <3>1. from \in 0..Len(old) /\ from \in Nat
      BY <1>2, BoundIn
    <3>2. Len(old) \in Nat
      BY <1>2 DEF Runes
    <3>. QED BY <3>1, <3>2
  <2>2. ui.caret > 0 => from >= 1
    BY <1>2, <1>5, <2>1 DEF Bound, Runes
  <2>3. /\ ui.caret = 0 => cut = old /\ back = 0
        /\ ui.caret > 0 => cut = TakenAway(old, from - 1, from) /\ back = from - 1
    BY <1>2 DEF Deleted0, CaretBack
  <2> HIDE DEF from, cut, back
  <2>4. cut \in Runes /\ back \in Nat
    <3>1. CASE ui.caret = 0
      BY <1>2, <2>3, <3>1
    <3>2. CASE ui.caret > 0
      <4> DEFINE to == from - 1
      <4>1. to \in 0..Len(old) /\ to \in Nat /\ to <= from
        BY <2>1, <2>2, <3>2
      <4> HIDE DEF to
      <4>2. TakenAway(old, to, from) \in Runes
        BY <1>2, <2>1, <4>1, TakenAwayAt
      <4>. QED BY <2>3, <3>2, <4>1, <4>2 DEF to
    <3>. QED BY <1>2, <3>1, <3>2
  \* What was typed loses its last rune.
  <2>5. ASSUME ~fate.gone, ~fate.strayed, back >= ui.start
        PROVE  /\ opened.text \in Runes /\ ui.start \in 0..Len(opened.text) /\ opened.start = ui.start
               /\ \E m, n \in Runes : /\ OwnText(m) /\ cut = Placed(opened.text, ui.start, n) /\ back = ui.start + Len(n) /\ Len(m) \in Nat
                                      /\ Len(m) >= 1 => Len(n) = Len(m) - 1 /\ (Len(n) >= 1 => n[1] = m[1])
    <3>1. /\ opened.text \in Runes /\ ui.start \in 0..Len(opened.text) /\ opened.start = ui.start
          /\ \E m \in Runes : /\ OwnText(m) /\ old = Placed(opened.text, ui.start, m) /\ ui.caret = ui.start + Len(m)
                              /\ from = ui.caret /\ Len(m) \in Nat
      BY <1>1, <2>5, ComplText DEF old, from
    <3>2. PICK m \in Runes : /\ OwnText(m) /\ old = Placed(opened.text, ui.start, m) /\ ui.caret = ui.start + Len(m)
                             /\ from = ui.caret /\ Len(m) \in Nat
      BY <3>1
    <3>3. CASE Len(m) = 0
      <4>1. ui.caret = 0
        BY <1>2, <2>3, <2>5, <3>2, <3>3
      <4>2. cut = Placed(opened.text, ui.start, m) /\ back = ui.start + Len(m)
        BY <1>2, <2>3, <3>2, <3>3, <4>1
      <4>. QED BY <3>1, <3>2, <3>3, <4>2
    <3>4. CASE Len(m) >= 1
      <4> DEFINE l == Len(m)
                 n == TakenAway(m, l - 1, l)
      <4>1. m # <<>>
        BY <3>4 DEF Runes
      <4>2. n \in Runes /\ Len(n) = l - 1 /\ \A k \in 1..(l - 1) : n[k] = m[k]
        BY <4>1, LastTaken
      <4>3. TakenAway(Placed(opened.text, ui.start, m), (ui.start + l) - 1, ui.start + l) = Placed(opened.text, ui.start, n)
        BY <3>1, <4>1, OneLessPlaced
      <4> HIDE DEF n, l
      <4>4. ui.caret > 0 /\ ui.caret = ui.start + l /\ l \in Nat
        BY <1>2, <3>2, <3>4 DEF l
      <4>5. cut = Placed(opened.text, ui.start, n) /\ back = ui.start + (l - 1)
        BY <1>2, <2>3, <3>2, <4>3, <4>4
      <4>6. Len(n) = Len(m) - 1 /\ (Len(n) >= 1 => n[1] = m[1])
        BY <4>2, <4>4 DEF l
      <4>. QED BY <3>1, <3>2, <4>2, <4>5, <4>6
    <3>. QED BY <3>2, <3>3, <3>4
  <2>6. CASE ui.query = <<>>
    <3>1. lines' = Written0(cut) /\ key' = "close" /\ ui' = FinishRich(u) /\ Quiet
      BY <1>3, <1>5, <2>6 DEF Does0
    <3>2. u \in UiRec /\ u.rich = ui.rich /\ u.cursor = ui.cursor /\ u.prev = ui.prev /\ u.caret = back
      BY <1>2, <2>4 DEF UiRec
    <3> HIDE DEF u
    <3>3. ui'.caret = back
      BY <3>1, <3>2, FinishedIs
    <3>4. IsOutline(lines') /\ lines'.order = lines.order /\ lines'.source = lines.source /\ lines'[Surface0][Owner0] = cut
      BY <1>1, <2>4, <3>1, Written0Is
    <3>5. MenuInv'
      BY <3>1, <3>2, <3>4, ClosesAMenu
    <3>6. OwnStep
      <4>1. SUFFICES ASSUME ~fate.gone, ~fate.strayed, back >= ui.start PROVE Framed(lines'[opened.surface][opened.row])
        BY <3>3 DEF OwnStep
      <4>2. lines'[opened.surface][opened.row] = cut
        BY <1>1, <3>4, <4>1, ComplText
      <4>3. opened.text \in Runes /\ opened.start \in 0..Len(opened.text) /\ \E n \in Runes : cut = Placed(opened.text, opened.start, n)
        BY <2>5, <4>1
      <4>. QED BY <4>2, <4>3, IsFramed
    <3>. QED BY <1>1, <3>1, <3>5, <3>6 DEF MenuStep, SlashStep, EscStep
  <2>7. CASE ui.query # <<>>
    <3>1. lines' = Written0(cut) /\ key' = "backspace" /\ ui' = [u EXCEPT !.query = Front(@)] /\ Quiet
      BY <1>3, <1>5, <2>7 DEF Does0
    <3>2. Front(ui.query) \in Runes /\ Len(Front(ui.query)) = Len(ui.query) - 1 /\ Len(ui.query) \in Nat /\ Len(ui.query) >= 1
      BY <1>2, <2>7, FrontIs
    <3>3. /\ ui' \in UiRec /\ ui'.mode = "complete" /\ ui'.rich = ui.rich /\ ui'.cursor = ui.cursor /\ ui'.prev = ui.prev
          /\ ui'.compl = ui.compl /\ ui'.query = Front(ui.query) /\ ui'.start = ui.start /\ ui'.caret = back
      BY <1>1, <1>2, <2>4, <3>1, <3>2 DEF UiRec
    <3>4. /\ opened \in [row : Ids, surface : {"name", "note"}, text : Runes, start : Nat]
          /\ opened' = opened /\ fate' = fate /\ noteOf' = noteOf
      BY <3>1 DEF MenuInv, MenuTyped, Quiet
    <3>5. ASSUME ~fate.gone, ~fate.strayed PROVE back >= ui.start
      <4>1. PICK m \in Runes : /\ OwnText(m) /\ ui.caret = ui.start + Len(m) /\ from = ui.caret /\ Len(m) \in Nat
        BY <1>1, <3>5, ComplText DEF old, from
      <4>2. Len(m) >= 1
        BY <3>2, <4>1 DEF OwnText
      <4>. QED BY <1>2, <2>3, <4>1, <4>2
    <3>6. ASSUME ~fate.gone, ~fate.strayed
          PROVE  \E m \in Runes : /\ cut = Placed(opened'.text, ui'.start, m) /\ ui'.caret = ui'.start + Len(m)
                                  /\ Len(m) \in {Len(ui'.query), Len(ui'.query) + 1}
                                  /\ ui'.compl = "tag" => Len(m) = Len(ui'.query) + 1 /\ m[1] = "#"
      <4>1. PICK m, n \in Runes : /\ OwnText(m) /\ cut = Placed(opened.text, ui.start, n) /\ back = ui.start + Len(n) /\ Len(m) \in Nat
                                  /\ Len(m) >= 1 => Len(n) = Len(m) - 1 /\ (Len(n) >= 1 => n[1] = m[1])
        BY <2>5, <3>5, <3>6
      <4>2. Len(m) \in {Len(ui.query), Len(ui.query) + 1} /\ (ui.compl = "tag" => Len(m) = Len(ui.query) + 1 /\ m[1] = "#")
        BY <4>1 DEF OwnText
      <4>3. Len(n) = Len(m) - 1 /\ (Len(n) >= 1 => n[1] = m[1])
        BY <3>2, <4>1, <4>2
      <4>4. Len(n) \in {Len(ui'.query), Len(ui'.query) + 1}
        BY <3>2, <3>3, <4>1, <4>2, <4>3
      <4>5. ui'.compl = "tag" => Len(n) = Len(ui'.query) + 1 /\ n[1] = "#"
        BY <3>2, <3>3, <4>1, <4>2, <4>3
      <4>6. cut = Placed(opened'.text, ui'.start, n) /\ ui'.caret = ui'.start + Len(n)
        BY <3>3, <3>4, <4>1
      <4>. QED BY <4>4, <4>5, <4>6
    <3>7. ~fate.gone /\ ~fate.strayed => opened'.start = ui'.start /\ ui'.start <= Len(opened'.text)
      BY <2>5, <3>3, <3>4, <3>5
    <3>8. MenuInv'
      BY <1>1, <2>4, <3>1, <3>3, <3>4, <3>6, <3>7, StaysInCompl
    <3>9. OwnStep
      <4>1. SUFFICES ASSUME ~fate.gone, ~fate.strayed PROVE Framed(lines'[opened.surface][opened.row])
        BY DEF OwnStep
      <4>2. lines'[opened.surface][opened.row] = cut
        BY <1>1, <2>4, <3>1, <4>1, ComplText, Written0Is
      <4>3. opened.text \in Runes /\ opened.start \in 0..Len(opened.text) /\ \E n \in Runes : cut = Placed(opened.text, opened.start, n)
        BY <2>5, <3>5, <4>1
      <4>. QED BY <4>2, <4>3, IsFramed
    <3>. QED BY <1>1, <3>1, <3>8, <3>9 DEF MenuStep, SlashStep, EscStep
  <2>. QED BY <2>6, <2>7
<1>. QED BY <1>4, <1>5
LEMMA ComplSpaceKeeps == ASSUME MenuInv, ComplSpace PROVE MenuInv' /\ MenuStep
<1> DEFINE id == Resolve(Cur)
           chips == ui.compl = "tag" /\ (RichNote \/ (Editable(Cur) /\ TakesChips(id)))
           was == lines[Surface0][id]
           r == IF chips THEN WrittenTo(Surface0, id, Chipped(was, ui.caret)) ELSE lines
           now == r[Surface0][Owner0]
           from == IF chips THEN ChippedTo(was, ui.caret) ELSE ui.caret
           at == Bound(from, now)
           placed == Placed(now, at, <<" ">>)
           u == [ui EXCEPT !.caret = at + 1]
<1>1. /\ ui.mode = "complete" /\ ThereIs /\ lines' = WrittenIn(r, Surface0, Owner0, placed)
      /\ ui' = FinishRich(u) /\ key' = "close" /\ Quiet
  BY DEF ComplSpace, OnRow, May, Does0, WrittenTo, WrittenIn
<1>2. /\ ui \in UiRec /\ IsOutline(lines) /\ RichText \in Runes /\ id \in Ids /\ Owner0 \in Ids /\ Surface0 \in {"name", "note"}
      /\ ui.caret \in Nat /\ ui.start \in Nat
  BY <1>1, AtCursor DEF MenuInv, MenuTyped, UiRec
<1>3. was \in Runes
  <2>1. lines.name \in [Ids -> Runes] /\ lines.note \in [Ids -> Runes]
    BY <1>2 DEF IsOutline, Ids
  <2>. QED BY <1>2, <2>1
<1> HIDE DEF was
<1>4. Chipped(was, ui.caret) \in Runes /\ ChippedTo(was, ui.caret) \in Nat /\ from \in Nat
  BY <1>2, <1>3, ChipsAreText
<1> HIDE DEF from
<1>5. /\ IsOutline(r) /\ r.order = lines.order /\ r.source = lines.source
      /\ chips => r[Surface0][id] = Chipped(was, ui.caret)
      /\ ~chips => r = lines
  <2>1. CASE chips
    <3> DEFINE chipped == Chipped(was, ui.caret)
    <3>0. chipped \in Runes
      BY <1>4
    <3> HIDE DEF chipped
    <3>1. IsWritten(WrittenTo(Surface0, id, chipped), Surface0, id, chipped)
      <4> HIDE DEF id
      <4>. QED BY <1>2, <3>0, AnyWritten
    <3>2. r = WrittenTo(Surface0, id, chipped)
      BY <2>1 DEF chipped
    <3> HIDE DEF r
    <3>. QED BY <2>1, <3>1, <3>2 DEF IsWritten, chipped
  <2>2. CASE ~chips
    BY <1>2, <2>2
  <2>. QED BY <2>1, <2>2
<1> HIDE DEF r
<1>6. now \in Runes
  <2>1. r.name \in [Ids -> Runes] /\ r.note \in [Ids -> Runes]
    BY <1>5 DEF IsOutline, Ids
  <2>. QED BY <1>2, <2>1
<1> HIDE DEF now
<1>7. at \in 0..Len(now) /\ at \in Nat
  BY <1>4, <1>6, BoundIn
<1>8. <<" ">> \in Runes
  BY OneRune DEF Rune
<1>9. placed \in Runes
  <2> HIDE DEF at
  <2>. QED BY <1>6, <1>7, <1>8, PlacedAt
<1>10. /\ IsOutline(lines') /\ lines'.order = lines.order /\ lines'.source = lines.source /\ lines'[Surface0][Owner0] = placed
  <2> HIDE DEF placed
  <2> DEFINE s == Surface0
             row == Owner0
  <2>1. s \in {"name", "note"} /\ row \in DOMAIN r.source
    BY <1>2, <1>5 DEF Ids
  <2> HIDE DEF s, row
  <2> DEFINE new == WrittenIn(r, s, row, placed)
  <2>2. /\ IsOutline(new) /\ new.order = r.order /\ new.source = r.source /\ new.kind = r.kind
        /\ new[s] = [r[s] EXCEPT ![row] = placed] /\ new[s][row] = placed
    BY <1>5, <1>9, <2>1, WrittenOnce
  <2> HIDE DEF new
  <2>3. lines' = new
    BY <1>1 DEF new, s, row
  <2>. QED BY <1>5, <2>2, <2>3 DEF s, row
<1>11. u \in UiRec /\ u.rich = ui.rich /\ u.cursor = ui.cursor /\ u.prev = ui.prev
  <2> DEFINE to == at + 1
  <2>1. u = [ui EXCEPT !.caret = to] /\ to \in Nat
    BY <1>7
  <2> HIDE DEF to, u
  <2>. QED BY <1>2, <2>1 DEF UiRec
<1> HIDE DEF u
<1>12. MenuInv'
  BY <1>1, <1>10, <1>11, ClosesAMenu
<1>13. OwnStep
  <2>1. SUFFICES ASSUME ~fate.gone, ~fate.strayed PROVE Framed(lines'[opened.surface][opened.row])
    BY DEF OwnStep
  <2>2. /\ opened.surface = Surface0 /\ opened.row = Owner0 /\ Resolve(Owner0) = Owner0 /\ opened.start = ui.start
        /\ opened.text \in Runes /\ ui.start \in 0..Len(opened.text) /\ Len(opened.text) \in Nat
    BY <1>1, <2>1, ComplText
  <2>3. PICK m \in Runes : /\ OwnText(m) /\ RichText = Placed(opened.text, ui.start, m) /\ ui.caret = ui.start + Len(m)
                           /\ Bound(ui.caret, RichText) = ui.caret /\ Len(m) \in Nat
    BY <1>1, <2>1, ComplText
  <2>4. Owner0 = id
    BY <2>2 DEF Owner0
  <2>5. was = RichText
    BY <2>4 DEF was, RichText
  \* What is typed, chipped or not.
  <2>6. PICK n \in Runes : now = Placed(opened.text, ui.start, n) /\ from = ui.start + Len(n)
    <3>1. CASE chips
      <4>1. Len(m) = Len(ui.query) + 1 /\ m[1] = "#"
        BY <2>3, <3>1 DEF OwnText
      <4>2. m # <<>>
        BY <1>2, <4>1 DEF UiRec, Runes
      <4>3. PICK n \in Runes : /\ Chipped(Placed(opened.text, ui.start, m), ui.start + Len(m)) = Placed(opened.text, ui.start, n)
                               /\ ChippedTo(Placed(opened.text, ui.start, m), ui.start + Len(m)) = ui.start + Len(n)
        BY <2>2, <4>1, <4>2, ChippedInside
      <4>4. now = Chipped(was, ui.caret) /\ from = ChippedTo(was, ui.caret)
        BY <1>5, <2>4, <3>1 DEF now, from
      <4>. QED BY <2>3, <2>5, <4>3, <4>4
    <3>2. CASE ~chips
      <4>1. now = RichText /\ from = ui.caret
        BY <1>5, <3>2 DEF now, from, RichText
      <4>. QED BY <2>3, <4>1
    <3>. QED BY <3>1, <3>2
  <2>7. at = from
    <3>1. /\ Len(Placed(opened.text, ui.start, n)) = Len(opened.text) + Len(n) /\ Len(n) \in Nat
      BY <2>2, PlacedAt
    <3>. QED BY <2>2, <2>6, <3>1 DEF Bound
  <2>8. Placed(Placed(opened.text, ui.start, n), ui.start + Len(n), <<" ">>) = Placed(opened.text, ui.start, n \o <<" ">>)
    BY <1>8, <2>2, OneMorePlaced
  <2>9. placed = Placed(opened.text, opened.start, n \o <<" ">>)
    BY <2>2, <2>6, <2>7, <2>8
  <2>10. n \o <<" ">> \in Runes
    BY <1>8, TwoTexts
  <2>11. Framed(Placed(opened.text, opened.start, n \o <<" ">>))
    BY <2>2, <2>10, IsFramed
  <2>. QED BY <1>10, <2>2, <2>9, <2>11
<1>. QED BY <1>1, <1>12, <1>13 DEF MenuStep, SlashStep, EscStep

\* What is taken away from a text leaves a text, wherever it ends.
LEMMA CutIsText ==
    ASSUME NEW t \in Runes, NEW from \in 0..Len(t), NEW to \in Nat
    PROVE  TakenAway(t, from, Bound(to, t)) \in Runes /\ Len(TakenAway(t, from, Bound(to, t))) >= from
<1> DEFINE e == Bound(Bound(to, t), t)
<1>1. Len(t) \in Nat
  BY DEF Runes
<1>2. e \in 0..Len(t)
  BY <1>1 DEF Bound
<1>3. TakenAway(t, from, Bound(to, t)) = SubSeq(t, 1, from) \o SubSeq(t, e + 1, Len(t))
  BY DEF TakenAway
<1> HIDE DEF e
<1>4. SubSeq(t, 1, from) \in Runes /\ Len(SubSeq(t, 1, from)) = from
  BY <1>1, PartOfText
<1>5. SubSeq(t, e + 1, Len(t)) \in Runes
  BY <1>1, <1>2, PartOfText
<1> DEFINE a == SubSeq(t, 1, from)
           b == SubSeq(t, e + 1, Len(t))
<1> HIDE DEF a, b
<1>6. a \o b \in Runes /\ Len(a \o b) = Len(a) + Len(b) /\ Len(b) \in Nat
  <2>1. a \in Runes /\ b \in Runes
    BY <1>4, <1>5 DEF a, b
  <2>. QED BY <2>1, TwoTexts
<1>7. Len(a) = from
  BY <1>4 DEF a
<1>8. TakenAway(t, from, Bound(to, t)) = a \o b
  BY <1>3 DEF a, b
<1>. QED BY <1>6, <1>7, <1>8
LEMMA OffersAre ==
    ASSUME NEW runes \in Offers, ui.compl \in {"tag", "icon", "cmd", "type"}
    PROVE  /\ runes \in Runes /\ Len(runes) \in Nat /\ Len(runes) >= 1
           /\ Last(runes) = ")" => ui.compl = "cmd"
<1>1. /\ ui.compl = "tag" => runes \in {<<"@">>}
      /\ ui.compl = "icon" => runes \in {<<"i">>, <<"@">>}
      /\ ui.compl = "cmd" => runes \in {<<"q">>, <<"q", "(", ")">>, <<"t", "(", ")">>, <<"n", "(", ")">>}
      /\ ui.compl = "type" => runes \in {<<"t">>}
  BY DEF Offers
<1>2. <<"@">> \in Runes /\ <<"i">> \in Runes /\ <<"q">> \in Runes /\ <<"t">> \in Runes
  BY OneRune DEF Rune
<1>3. <<"q", "(", ")">> \in Runes /\ <<"t", "(", ")">> \in Runes /\ <<"n", "(", ")">> \in Runes
  BY DEF Runes, Rune
<1>4. CASE runes \in {<<"@">>, <<"i">>, <<"q">>, <<"t">>}
  BY <1>2, <1>4 DEF Last
<1>5. CASE runes \in {<<"q", "(", ")">>, <<"t", "(", ")">>, <<"n", "(", ")">>} /\ ui.compl = "cmd"
  BY <1>3, <1>5
<1>. QED BY <1>1, <1>4, <1>5

LEMMA CompleteKeeps ==
    ASSUME MenuInv, NEW runes \in Offers, Complete(runes) PROVE MenuInv' /\ MenuStep
<1> DEFINE old == RichText
           words == Spliced(old, runes)
           inside == Last(runes) = ")"
           at == ui.start + Len(runes) - (IF inside THEN 1 ELSE 0)
           over == ui.compl = "type" /\ at < Len(words) /\ words[at + 1] = ")"
           to == IF over THEN at + 1 ELSE at
           u == [ui EXCEPT !.caret = to]
<1>1. ui.mode = "complete" /\ ThereIs
  BY DEF Complete, OnRow, May
<1>2. /\ ui \in UiRec /\ IsOutline(lines) /\ old \in Runes /\ ui.caret \in Nat /\ ui.start \in Nat
      /\ ui.compl \in {"tag", "icon", "cmd", "type"}
  BY <1>1, AtCursor DEF MenuInv, MenuTyped, UiRec
<1>3. /\ runes \in Runes /\ Len(runes) \in Nat /\ Len(runes) >= 1 /\ (inside => ui.compl = "cmd")
  BY <1>2, OffersAre
<1>4. IF ui.start > Len(old) THEN Crash
      ELSE IF inside /\ runes[1] = "t"
      THEN /\ Does0("chain", Written0(words), [u EXCEPT !.compl = "type", !.query = <<>>, !.start = at])
           /\ opened' = [opened EXCEPT !.text = words, !.start = at]
           /\ UNCHANGED <<noteOf, fate>>
      ELSE /\ Does0("close", Written0(words), IF inside /\ runes[1] = "n" THEN [u EXCEPT !.mode = "finder", !.act = "scope"] ELSE FinishRich(u))
           /\ Quiet
  BY DEF Complete
<1> HIDE DEF old
<1>0. Len(old) \in Nat
  BY <1>2 DEF Runes
<1>5. CASE ui.start > Len(old)
  <2>1. Crash
    BY <1>4, <1>5
  <2>2. fate.gone \/ fate.strayed
    <3>1. SUFFICES ASSUME ~fate.gone, ~fate.strayed PROVE FALSE
      OBVIOUS
    <3>2. PICK m \in Runes : Len(old) = Len(opened.text) + Len(m) /\ Len(m) \in Nat
      BY <1>1, <3>1, ComplText DEF old
    <3>3. ui.start \in 0..Len(opened.text) /\ Len(opened.text) \in Nat
      BY <1>1, <3>1, ComplText
    <3>. QED BY <1>5, <3>2, <3>3
  <2>3. MenuInv'
    BY <2>1, <2>2, CrashKeeps
  <2>. QED BY <1>1, <2>1, <2>3 DEF MenuStep, SlashStep, OwnStep, EscStep, Crash
<1>6. CASE ~(ui.start > Len(old))
  <2> DEFINE cut == TakenAway(old, ui.start, Bound(ui.caret, old))
  <2>1. cut \in Runes /\ Len(cut) >= ui.start /\ Len(cut) \in Nat
    <3>1. ui.start \in 0..Len(old)
      BY <1>0, <1>2, <1>6
    <3>2. cut \in Runes /\ Len(cut) >= ui.start
      BY <1>2, <3>1, CutIsText
    <3>3. Len(cut) \in Nat
      <4> HIDE DEF cut
      <4>. QED BY <3>2 DEF Runes
    <3>. QED BY <3>2, <3>3
  <2> HIDE DEF cut
  <2>2. Placed(cut, ui.start, runes) \in Runes /\ Len(Placed(cut, ui.start, runes)) = Len(cut) + Len(runes)
    <3>1. ui.start \in 0..Len(cut)
      BY <1>2, <2>1
    <3>2. cut \in Runes /\ runes \in Runes
      BY <1>3, <2>1
    <3>. QED BY ONLY <3>1, <3>2, PlacedAt
  <2>3. words = Placed(cut, ui.start, runes)
    BY DEF Spliced, cut
  <2>4. words \in Runes /\ Len(words) = Len(cut) + Len(runes)
    BY <2>2, <2>3
  <2> HIDE DEF words
  <2>5. at \in Nat /\ at <= Len(words)
    <3> HIDE DEF inside
    <3>. QED BY <1>2, <1>3, <2>1, <2>4
  <2> HIDE DEF at
  <2>6. to \in Nat /\ (ui.compl = "cmd" => to = at)
    BY <2>5
  <2> HIDE DEF to, inside
  <2>7. u \in UiRec /\ u.mode = "complete" /\ u.rich = ui.rich /\ u.cursor = ui.cursor /\ u.prev = ui.prev /\ u.caret = to
    BY <1>1, <1>2, <2>6 DEF UiRec
  \* The choice lies where the text that was typed lay.
  <2>8. ~fate.gone /\ ~fate.strayed => words = Placed(opened.text, opened.start, runes)
    <3>1. SUFFICES ASSUME ~fate.gone, ~fate.strayed PROVE words = Placed(opened.text, opened.start, runes)
      OBVIOUS
    <3>2. /\ opened.text \in Runes /\ ui.start \in 0..Len(opened.text) /\ opened.start = ui.start /\ Len(opened.text) \in Nat
          /\ \E m \in Runes : /\ old = Placed(opened.text, ui.start, m) /\ ui.caret = ui.start + Len(m)
                              /\ Bound(ui.caret, old) = ui.caret /\ Len(m) \in Nat
      BY <1>1, <3>1, ComplText DEF old
    <3>3. PICK m \in Runes : /\ old = Placed(opened.text, ui.start, m) /\ ui.caret = ui.start + Len(m)
                             /\ Bound(ui.caret, old) = ui.caret /\ Len(m) \in Nat
      BY <3>2
    <3> DEFINE i == 0
               j == Len(m)
    <3>4. i \in 0..Len(m) /\ j \in i..Len(m) /\ ui.start + i = ui.start
      BY <1>2, <3>3
    <3> HIDE DEF i, j
    <3>5. TakenAway(Placed(opened.text, ui.start, m), ui.start + i, ui.start + j) = Placed(opened.text, ui.start, TakenAway(m, i, j))
      BY <3>2, <3>4, TakenInside
    <3>6. TakenAway(m, i, j) = <<>>
      BY AllTaken DEF i, j
    <3>7. Placed(opened.text, ui.start, <<>>) = opened.text
      BY <3>2, PlacedNothing
    <3>8. cut = opened.text
      BY <3>3, <3>4, <3>5, <3>6, <3>7 DEF cut, j
    <3>. QED BY <2>3, <3>2, <3>8
  <2>9. ui.compl = "cmd" /\ ui.rich => fate.refused
    BY <1>1 DEF MenuInv, RichIsOver
  <2>10. CASE inside /\ runes[1] = "t"
    <3>1. /\ lines' = Written0(words) /\ key' = "chain" /\ ui' = [u EXCEPT !.compl = "type", !.query = <<>>, !.start = at]
          /\ opened' = [opened EXCEPT !.text = words, !.start = at] /\ fate' = fate /\ noteOf' = noteOf
      BY <1>4, <1>6, <2>10 DEF Does0
    <3> HIDE DEF u
    <3>0. <<>> \in Runes /\ Len(<<>>) = 0
      BY DEF Runes
    <3>2. /\ ui' \in UiRec /\ ui'.mode = "complete" /\ ui'.rich = ui.rich /\ ui'.cursor = ui.cursor /\ ui'.prev = ui.prev
          /\ ui'.compl = "type" /\ ui'.query = <<>> /\ ui'.start = at /\ ui'.caret = at
      BY <1>3, <2>5, <2>6, <2>7, <2>10, <3>0, <3>1 DEF UiRec
    <3>3. opened \in [row : Ids, surface : {"name", "note"}, text : Runes, start : Nat]
      BY DEF MenuInv, MenuTyped
    <3>4. /\ opened' \in [row : Ids, surface : {"name", "note"}, text : Runes, start : Nat]
          /\ opened'.surface = opened.surface /\ opened'.row = opened.row /\ opened'.text = words /\ opened'.start = at
      BY <2>4, <2>5, <3>1, <3>3
    <3>5. ui.rich => fate.refused
      BY <1>3, <2>9, <2>10
    <3>6. \E m \in Runes : /\ words = Placed(opened'.text, ui'.start, m) /\ ui'.caret = ui'.start + Len(m)
                           /\ Len(m) \in {Len(ui'.query), Len(ui'.query) + 1}
                           /\ ui'.compl = "tag" => Len(m) = Len(ui'.query) + 1 /\ m[1] = "#"
      <4>1. Placed(words, at, <<>>) = words
        <5>1. at \in 0..Len(words)
          BY <1>3, <2>1, <2>4, <2>5
        <5>. QED BY <2>4, <5>1, PlacedNothing
      <4>. QED BY <2>5, <3>0, <3>2, <3>4, <4>1
    <3>8. MenuInv'
      BY <1>1, <2>4, <2>5, <3>1, <3>2, <3>4, <3>5, <3>6, StaysInCompl
    <3>. QED BY <1>1, <3>1, <3>8 DEF MenuStep, SlashStep, OwnStep, EscStep
  <2>11. CASE inside /\ runes[1] = "n"
    <3>1. /\ lines' = Written0(words) /\ key' = "close" /\ ui' = [u EXCEPT !.mode = "finder", !.act = "scope"] /\ Quiet
      BY <1>4, <1>6, <2>11 DEF Does0
    <3> HIDE DEF u
    <3>2. /\ ui' \in UiRec /\ ui'.mode = "finder" /\ ui'.rich = ui.rich
      BY <2>7, <3>1 DEF UiRec, Menu
    <3>3. ui.rich => fate.refused
      BY <1>3, <2>9, <2>11
    <3>4. RichIsOver'
      BY <3>1, <3>2, <3>3 DEF RichIsOver, Quiet
    <3>5. IsOutline(lines') /\ lines'.order = lines.order /\ lines'.source = lines.source /\ lines'[Surface0][Owner0] = words
      BY <1>1, <2>4, <3>1, Written0Is
    <3>6. MenuInv'
      BY <3>1, <3>2, <3>3, <3>4, <3>5, LeavesQuietly
    <3>7. OwnStep
      <4>1. SUFFICES ASSUME ~fate.gone, ~fate.strayed PROVE Framed(lines'[opened.surface][opened.row])
        BY DEF OwnStep
      <4>2. /\ opened.surface = Surface0 /\ opened.row = Owner0 /\ opened.text \in Runes /\ opened.start \in 0..Len(opened.text)
        BY <1>1, <4>1, ComplText
      <4>. QED BY <1>3, <2>8, <3>5, <4>1, <4>2, IsFramed
    <3>. QED BY <1>1, <3>1, <3>6, <3>7 DEF MenuStep, SlashStep, EscStep
  <2>12. CASE ~(inside /\ runes[1] = "t") /\ ~(inside /\ runes[1] = "n")
    <3>1. lines' = Written0(words) /\ key' = "close" /\ ui' = FinishRich(u) /\ Quiet
      BY <1>4, <1>6, <2>12 DEF Does0
    <3> HIDE DEF u
    <3>2. ~fate.gone /\ ~fate.strayed => \E n \in Runes : words = Placed(opened.text, opened.start, n)
      BY <1>3, <2>8
    <3>. QED BY <1>1, <2>4, <2>7, <3>1, <3>2, ComplWrites
  <2>13. ~((inside /\ runes[1] = "t") /\ (inside /\ runes[1] = "n"))
    OBVIOUS
  <2>. QED BY <2>10, <2>11, <2>12
<1>. QED BY <1>5, <1>6

-----------------------------------------------------------------------------
(* The theorem.                                                             *)

LEMMA MenuStutters == MenuInv /\ UNCHANGED menuVars => MenuInv'
<1> SUFFICES ASSUME MenuInv, UNCHANGED menuVars PROVE MenuInv'
  OBVIOUS
<1>1. lines' = lines /\ ui' = ui /\ opened' = opened /\ noteOf' = noteOf /\ fate' = fate
  BY DEF menuVars
<1>2. MenuTyped'
  BY <1>1 DEF MenuInv, MenuTyped, Ids
<1>3. SlashIsThere' /\ NoteIsKept' /\ RichIsOver' /\ NothingIsCutBeyondItsEnd'
  BY <1>1 DEF MenuInv, SlashIsThere, NoteIsKept, RichIsOver, NothingIsCutBeyondItsEnd, ThereIs, Cur, Resolve
<1>4. ComplIsThere' = ComplIsThere
  BY <1>1 DEF ComplIsThere, ThereIs, Surface0, Owner0, OwnText, RichText, RichNote, Resolve, Cur
<1>. QED BY <1>2, <1>3, <1>4 DEF MenuInv

LEMMA RunesTyped == {"a", " ", "("} \subseteq Rune
BY DEF Rune

\* Every step keeps the invariant and does only what the three action properties allow.
LEMMA MenuNextKeeps == MenuInv /\ MenuNext => MenuInv' /\ MenuStep
<1> SUFFICES ASSUME MenuInv, MenuNext PROVE MenuInv' /\ MenuStep
  OBVIOUS
<1>1. CASE \E c \in DOMAIN lines.order : \E at \in {0, Len(lines.name[Resolve(lines.order[c])])} : GoTo(c, at)
  BY <1>1, GoToKeeps
<1>2. CASE \E rune \in {"a", " "} : TypeHere(rune) \/ SlashRune(rune) \/ NoteRune(rune)
  BY <1>2, RunesTyped, TypeHereKeeps, SlashRuneKeeps, NoteRuneKeeps
<1>3. CASE SlashKey \/ AltAKey \/ HashKey \/ ColonKey
  BY <1>3, SlashKeysKeep, HashKeyKeeps, ColonKeyKeeps
<1>4. CASE SlashBackspace \/ SlashEsc \/ KeepText
  BY <1>4, SlashBackspaceKeeps, SlashEscKeeps, KeepTextKeeps
<1>5. CASE \E mode \in Command : RunSlash(mode)
  BY <1>5, RunSlashKeeps
<1>6. CASE \E rune \in {"a", "("} : ComplRune(rune)
  BY <1>6, RunesTyped, ComplRuneKeeps
<1>7. CASE ComplSpace \/ ComplBackspace \/ ComplEsc \/ ChooseNothing
  BY <1>7, ComplSpaceKeeps, ComplBackspaceKeeps, ComplClosersKeep
<1>8. CASE \E runes \in Offers : Complete(runes)
  BY <1>8, CompleteKeeps
<1>9. CASE \E to \in RowKind : PickType(to)
  BY <1>9, PickTypeKeeps
<1>10. CASE PickStyle \/ \E mode \in Menu : CloseMenu(mode)
  BY <1>10, PickersKeep
<1>11. CASE PickLink \/ PickScope
  BY <1>11, PickLinkKeeps, PickScopeKeeps
<1>12. CASE \E kind \in {"tag", "icon", "link", "date"} : ChooseInsert(kind)
  <2>1. PICK kind \in {"tag", "icon", "link", "date"} : ChooseInsert(kind)
    BY <1>12
  <2>2. CASE Refuses(kind) \/ kind \in {"link", "date"}
    BY <2>1, <2>2, InsertKeeps
  <2>3. CASE ~Refuses(kind) /\ kind \in {"tag", "icon"}
    BY <2>1, <2>3, InsertCompletes
  <2>. QED BY <2>2, <2>3
<1>13. CASE NoteEsc \/ NoteEnter \/ NoteInsert \/ NoteStyle
  BY <1>13, NoteEscKeeps, NoteEnterKeeps, NoteMenusKeep
<1>14. CASE NoteCompletes("tag", "#") \/ NoteCompletes("icon", ":")
  BY <1>14, NoteCompletesKeeps
<1>15. CASE \E gone \in DOMAIN lines.order : LiveDelete(gone) \/ PullDrops(gone)
  BY <1>15, LiveDeleteKeeps, PullDropsKeeps
<1>. QED BY <1>1, <1>2, <1>3, <1>4, <1>5, <1>6, <1>7, <1>8, <1>9, <1>10, <1>11, <1>12, <1>13, <1>14, <1>15 DEF MenuNext

\* What holds in every state of a run.
LEMMA MenuStateHolds == MenuInv => MenusTypeOK /\ NothingIsCutBeyondItsEnd /\ ComesBackToTheNote
<1> SUFFICES ASSUME MenuInv PROVE MenusTypeOK /\ NothingIsCutBeyondItsEnd /\ ComesBackToTheNote
  OBVIOUS
<1>1. NothingIsCutBeyondItsEnd /\ ComesBackToTheNote
  BY DEF MenuInv, RichIsOver, ComesBackToTheNote, Menu
<1>2. ui.mode \in Menu \cup {"outline", "note"}
  BY DEF MenuInv, MenuTyped, UiRec
<1>3. ASSUME ui.mode = "complete", ~fate.gone, ~fate.strayed PROVE ui.start <= ui.caret /\ ui.caret <= Len(RichText)
  <2>1. PICK m \in Runes : ui.caret = ui.start + Len(m) /\ Len(m) \in Nat /\ ui.caret <= Len(RichText)
    BY <1>3, ComplText
  <2>2. ui.start \in Nat
    BY <1>3, ComplText
  <2>. QED BY <2>1, <2>2
<1>. QED BY <1>1, <1>2, <1>3 DEF MenusTypeOK

\* What a menu typed into a row it takes back or replaces and nothing beside it, and leaving it comes back to the note with
\* the text it had, for every outline the program opens on (editor.go:2047, noterich.go:149, complete.go:139).
THEOREM MenusAlwaysTakeBack == MenuSpec => MenusTakeBackTheirOwn
<1>1. MenuInit => MenuInv
  BY MenuInitHolds
<1>2. MenuInv /\ [MenuNext]_menuVars => MenuInv'
  BY MenuNextKeeps, MenuStutters
<1>3. MenuInv => MenusTypeOK /\ NothingIsCutBeyondItsEnd /\ ComesBackToTheNote
  BY MenuStateHolds
<1>4. MenuInv /\ [MenuNext]_menuVars =>
        [ui.mode = "slash" /\ ui'.mode # "slash" /\ key' = "close" /\ ~fate.gone => lines'.name[opened.row] = opened.text]_menuVars
  BY MenuNextKeeps DEF MenuStep, SlashStep
<1>5. MenuInv /\ [MenuNext]_menuVars =>
        [ui.mode = "complete" /\ key' \in {"rune", "backspace", "close"} /\ ui'.caret >= ui.start /\ ~fate.gone /\ ~fate.strayed =>
           Framed(lines'[opened.surface][opened.row])]_menuVars
  BY MenuNextKeeps DEF MenuStep, OwnStep
<1>6. MenuInv /\ [MenuNext]_menuVars =>
        [key' = "escnote" /\ ui.mode = "note" /\ ~fate.refused /\ ~fate.gone => lines'.note = [lines.note EXCEPT ![noteOf.row] = noteOf.text]]_menuVars
  BY MenuNextKeeps DEF MenuStep, EscStep
<1>7. MenuSpec => []MenuInv /\ [][MenuNext]_menuVars
  BY <1>1, <1>2, PTL DEF MenuSpec
<1>8. []MenuInv /\ [][MenuNext]_menuVars => SlashIsTakenBack
  BY <1>4, PTL DEF SlashIsTakenBack
<1>9. []MenuInv /\ [][MenuNext]_menuVars => OnlyItsOwnIsReplaced
  BY <1>5, PTL DEF OnlyItsOwnIsReplaced
<1>10. []MenuInv /\ [][MenuNext]_menuVars => EscRestoresTheNote
  BY <1>6, PTL DEF EscRestoresTheNote
<1>11. []MenuInv => [](MenusTypeOK /\ NothingIsCutBeyondItsEnd /\ ComesBackToTheNote)
  BY <1>3, PTL
<1>. QED BY <1>7, <1>8, <1>9, <1>10, <1>11 DEF MenusTakeBackTheirOwn
=============================================================================
