--------------------------------- MODULE Chips --------------------------------
(***************************************************************************)
(* Chips: the anchors in a text and the records behind them               *)
(* (tui/editor/chip.go, noterich.go, agent.go, agentedit.go, the undo of   *)
(* editor.go, tui/database/chips.go).                                      *)
(*                                                                         *)
(* A text holds the ids of its chips.  A record is written to the chips    *)
(* table as soon as it is made and deleted as soon as its anchor is; the   *)
(* text is saved later, and an undo has to bring back both.  Another       *)
(* editor works on nodes this one has not loaded, with chips of its own in *)
(* the same table.  A session chip has besides a row in node_output with   *)
(* the identity the session had when the chip was pointed at it.           *)
(***************************************************************************)
EXTENDS Integers, SequencesExt, FiniteSetsExt

CONSTANTS
    Plain0,     \* chips of this editor: a tag, a date, a link
    Agents0,    \* chips of this editor: sessions
    Theirs0,    \* chips of the other editor
    Titles,     \* what a CLI calls a session
    Untitled,   \* the CLI has no name for it yet
    Unfiled,    \* no row in node_output, nothing in the cache
    MaxPast,    \* bound: pictures on the undo stack
    MaxChipSteps \* bound: what the user and the other editor do

\* What a row of node_output has of a session: what the CLI called it, whether it has a
\* name of the user's own, and whether the CLI was asked.
Idents == [title : Titles, name : BOOLEAN, taken : BOOLEAN]

\* Ids are fresh UUIDs, whoever makes them.
ASSUME ChipsAssumption == /\ MaxPast \in Nat /\ MaxChipSteps \in Nat /\ Untitled \in Titles
                          /\ Plain0 \cap Agents0 = {} /\ (Plain0 \cup Agents0) \cap Theirs0 = {}
                          /\ Unfiled \notin Titles \cup Idents

\* The texts of the loaded tree: the names of two rows, and a note that may be open.
Surfaces == {"above", "name", "note"}
ChipIds  == Plain0 \cup Agents0 \cup Theirs0

VARIABLES
    text,      \* the chips anchored in each text, in the editor
    saved,     \* the same in the nodes table
    known,     \* Model.chips: the records in memory
    records,   \* the chips table
    outputs,   \* node_output: the identity of a session chip
    cached,    \* nodeData: what agentLoad has read of it
    called,    \* what the CLI calls the session now
    undone,    \* the undo stack and
    redone,    \*   the redo stack
    prev,      \* the note as it was when it was opened, {} and FALSE when it is not
    others,    \* the chips in the other editor's texts: made, and saved with a node
    heard,     \* an event with the aux flag is on its way
    app,       \* "open", "quit", or "gone" without having quit
    filedAs,   \* ghost: what the CLI called the session when the chip was pointed at it
    reverted,  \* ghost: chips whose anchor came back, with the note or after a crash, and not its record
    swept,     \* ghost: chips of the other editor that were deleted under it
    chipSteps

chipsVars == <<text, saved, known, records, outputs, cached, called, undone, redone, prev, others, heard, app,
               filedAs, reverted, swept, chipSteps>>
chipsGhosts == <<filedAs, reverted, swept>>

Anchored == UNION {text[s] : s \in Surfaces}
Stored   == UNION {saved[s] : s \in Surfaces}

\* The editor opens on what older versions have left: a session chip with no snapshot.
ChipsInit ==
    /\ \E old \in SUBSET Agents0, title \in Titles :
         /\ text = [s \in Surfaces |-> IF s = "name" THEN old ELSE {}] /\ records = old
         /\ outputs = [c \in ChipIds |-> IF c \in old THEN [title |-> title, name |-> FALSE, taken |-> FALSE] ELSE Unfiled]
    /\ saved = text /\ known = {} /\ cached = [c \in ChipIds |-> Unfiled]
    /\ called \in Titles /\ undone = <<>> /\ redone = <<>>
    /\ prev = [open |-> FALSE, text |-> {}] /\ others = [made |-> {}, saved |-> {}] /\ heard = FALSE /\ app = "quit"
    /\ filedAs = cached /\ reverted = {} /\ swept = {} /\ chipSteps = 0

Step == app = "open" /\ chipSteps < MaxChipSteps /\ chipSteps' = chipSteps + 1

\* The surface the caret is in: the note while it is open.
Active == IF prev.open THEN "note" ELSE "name"

-----------------------------------------------------------------------------
(* Undo.                                                                   *)

\* captureUndoState, with chipSidecars.
Picture == [text |-> text, known |-> known,
            outputs |-> [c \in {d \in known : outputs[d] # Unfiled} |-> outputs[c]]]

\* pushUndo.
Photographed ==
    /\ redone' = <<>>
    /\ undone' = LET all == Append(undone, Picture)
                 IN  IF Len(all) > MaxPast THEN Tail(all) ELSE all

\* The chips table after restoreUndoState.
Reconciled(st) == (records \cup st.known) \ (known \ st.known)

\* restoreUndoState, with restoreChipSidecars.
Restored(st) ==
    LET touched == known \cup DOMAIN st.outputs
    IN  /\ text' = st.text /\ known' = st.known /\ records' = Reconciled(st)
        /\ outputs' = [c \in ChipIds |-> IF c \in DOMAIN st.outputs THEN st.outputs[c]
                                         ELSE IF c \in touched THEN Unfiled ELSE outputs[c]]
        /\ cached' = [c \in ChipIds |-> IF c \in touched THEN Unfiled ELSE cached[c]]
        /\ swept' = swept \cup (Theirs0 \cap (known \ st.known))

UndoKey ==
    /\ Step /\ ~prev.open /\ undone # <<>>
    /\ undone' = Front(undone) /\ redone' = Append(redone, Picture)
    /\ Restored(Last(undone))
    /\ UNCHANGED <<saved, called, prev, others, heard, app, filedAs, reverted>>

RedoKey ==
    /\ Step /\ ~prev.open /\ redone # <<>>
    /\ redone' = Front(redone) /\ undone' = Append(undone, Picture)
    /\ Restored(Last(redone))
    /\ UNCHANGED <<saved, called, prev, others, heard, app, filedAs, reverted>>

-----------------------------------------------------------------------------
(* Making and deleting.                                                    *)

\* Nothing refers to the id yet: GenerateUUID.
NewId(c) ==
    /\ c \notin Anchored \cup Stored \cup known \cup records \cup others.made
    /\ \A i \in DOMAIN undone : c \notin undone[i].known
    /\ \A i \in DOMAIN redone : c \notin redone[i].known

\* createLabeledChip.
Created(c) == known' = known \cup {c} /\ records' = records \cup {c}

\* Outside a note a key is photographed before it does anything.
BeforeKey == IF prev.open THEN UNCHANGED <<undone, redone>> ELSE Photographed

\* chipifyBeforeCaret, chipifyNoteBeforeCaret, insertLinkChip and the pickers.
Chipify ==
    /\ Step /\ BeforeKey
    /\ \E c \in Plain0 : NewId(c) /\ Created(c) /\ text' = [text EXCEPT ![Active] = @ \cup {c}]
    /\ UNCHANGED <<saved, outputs, cached, called, prev, others, heard, app, chipsGhosts>>

\* deleteChipID: the record, and what hangs on it.
Deleted(c) ==
    /\ known' = known \ {c} /\ records' = records \ {c}
    /\ outputs' = [outputs EXCEPT ![c] = Unfiled] /\ cached' = [cached EXCEPT ![c] = Unfiled]

\* backspace, ctrl+w, a selected run: the anchor and its record. Of a note only
\* the run is photographed.
DeleteAnchor ==
    /\ Step /\ Photographed
    /\ \E c \in text[Active] : Deleted(c) /\ text' = [text EXCEPT ![Active] = @ \ {c}]
    /\ UNCHANGED <<saved, called, prev, others, heard, app, chipsGhosts>>

\* deleteNode: the name goes, and the records wait for the end of the session.
DeleteRow ==
    /\ Step /\ ~prev.open /\ text["name"] # {} /\ Photographed
    /\ text' = [text EXCEPT !["name"] = {}]
    /\ UNCHANGED <<saved, known, records, outputs, cached, called, prev, others, heard, app, chipsGhosts>>

\* A node is merged into the row above: what is in the one text is in the other.
MergeUp ==
    /\ Step /\ ~prev.open /\ text["name"] # {} /\ Photographed
    /\ text' = [text EXCEPT !["above"] = @ \cup text["name"], !["name"] = {}]
    /\ UNCHANGED <<saved, known, records, outputs, cached, called, prev, others, heard, app, chipsGhosts>>

OpenNote ==
    /\ Step /\ ~prev.open /\ prev' = [open |-> TRUE, text |-> text["note"]]
    /\ UNCHANGED <<text, saved, known, records, outputs, cached, called, undone, redone, others, heard, app, chipsGhosts>>

\* esc puts the note back as it was; the records are not put back.
EscNote ==
    /\ Step /\ prev.open
    /\ text' = [text EXCEPT !["note"] = prev.text] /\ prev' = [open |-> FALSE, text |-> {}]
    /\ reverted' = reverted \cup (prev.text \ text["note"])
    /\ UNCHANGED <<saved, known, records, outputs, cached, called, undone, redone, others, heard, app, filedAs, swept>>

\* enter chipifies what is left, in the database, and reads the records again.
EnterNote ==
    /\ Step /\ prev.open /\ prev' = [open |-> FALSE, text |-> {}]
    /\ \E new \in {{}} \cup {{c} : c \in {d \in Plain0 : NewId(d)}} :
         /\ text' = [text EXCEPT !["note"] = @ \cup new]
         /\ records' = records \cup new /\ known' = records'
    /\ UNCHANGED <<saved, outputs, cached, called, undone, redone, others, heard, app, chipsGhosts>>

SaveTexts ==
    /\ app = "open" /\ saved # text /\ saved' = text
    /\ UNCHANGED <<text, known, records, outputs, cached, called, undone, redone, prev, others, heard, app, chipsGhosts, chipSteps>>

-----------------------------------------------------------------------------
(* Sessions.                                                               *)

\* agentLoad: the cache, else the row.
LoadSession(c) == IF cached[c] # Unfiled THEN cached[c] ELSE outputs[c]

\* agentSave.
SaveSession(c, s) == outputs' = [outputs EXCEPT ![c] = s] /\ cached' = [cached EXCEPT ![c] = s]

\* insertAgentChip with agentAttach: the name is copied from the picker's row, which
\* may be older than what the session is called; only a row without one asks again.
PickSession ==
    /\ Step /\ BeforeKey
    /\ \E c \in Agents0, row \in Titles :
         LET title == IF row = Untitled THEN called ELSE row
         IN  /\ NewId(c) /\ Created(c) /\ text' = [text EXCEPT ![Active] = @ \cup {c}]
             /\ SaveSession(c, [title |-> title, name |-> FALSE, taken |-> TRUE])
             /\ filedAs' = [filedAs EXCEPT ![c] = title]
    /\ UNCHANGED <<saved, called, prev, others, heard, app, reverted, swept>>

\* The CLI renames it.
CliRenames ==
    /\ Step /\ \E t \in Titles \ {called} : called' = t
    /\ UNCHANGED <<text, saved, known, records, outputs, cached, undone, redone, prev, others, heard, app, chipsGhosts>>

\* agentRename, saveAgentEdit, agentSetColor: the user's own name for it.
RenameHere ==
    /\ Step /\ ~prev.open
    /\ \E c \in text["name"] \cap Agents0 \cap known :
         LoadSession(c) # Unfiled /\ SaveSession(c, [LoadSession(c) EXCEPT !.name = ~@])
    /\ UNCHANGED <<text, saved, known, records, called, undone, redone, prev, others, heard, app, chipsGhosts>>

\* importAgentIdent: once, for a chip that never had it.
Imports(s) == s # Unfiled /\ ~s.taken

Imported(s) == [s EXCEPT !.taken = TRUE, !.title = IF @ = Untitled THEN called ELSE @]

\* hydrateAgentChips, for the records of the table and the sessions they show.
Hydrated(was) ==
    LET new == [c \in ChipIds |-> IF c \in records /\ Imports(was[c]) THEN Imported(was[c]) ELSE was[c]]
    IN  /\ cached' = [c \in ChipIds |-> IF c \in records THEN new[c] ELSE IF app = "open" THEN cached[c] ELSE Unfiled]
        /\ outputs' = [c \in ChipIds |-> IF c \in records /\ Imports(was[c]) THEN new[c] ELSE outputs[c]]
        /\ filedAs' = [c \in ChipIds |-> IF new[c] # Unfiled /\ filedAs[c] = Unfiled THEN new[c].title ELSE filedAs[c]]

-----------------------------------------------------------------------------
(* The other editor, and the events that tell of it.                       *)

OtherMakes ==
    /\ Step /\ \E c \in Theirs0 \ others.made :
         /\ others' = [others EXCEPT !.made = @ \cup {c}] /\ records' = records \cup {c} /\ heard' = TRUE
    /\ UNCHANGED <<text, saved, known, outputs, cached, called, undone, redone, prev, app, chipsGhosts>>

OtherSaves ==
    /\ Step /\ others.saved # others.made /\ others' = [others EXCEPT !.saved = others.made]
    /\ UNCHANGED <<text, saved, known, records, outputs, cached, called, undone, redone, prev, heard, app, chipsGhosts>>

\* canApplyLive: the event waits while a note is open.
MayHear == app = "open" /\ heard /\ ~prev.open

\* reloadAux; the undo stack stays, since no loaded node has changed.
Hear ==
    /\ MayHear /\ heard' = FALSE /\ known' = records /\ Hydrated([c \in ChipIds |-> LoadSession(c)])
    /\ UNCHANGED <<text, saved, records, called, undone, redone, prev, others, app, reverted, swept, chipSteps>>

\* Mutant: only this editor's texts are looked at.
MyReferences == Anchored

\* GCChips: what a saved text holds, whoever saved it.
Referenced == Anchored \cup others.saved

\* quit saves and collects.
QuitEditor ==
    /\ app = "open" /\ ~prev.open /\ app' = "quit" /\ saved' = text
    /\ records' = records \cap Referenced
    /\ swept' = swept \cup ((others.made \ others.saved) \cap records)
    /\ UNCHANGED <<text, known, outputs, cached, called, undone, redone, prev, others, heard, filedAs, reverted, chipSteps>>

\* The process is gone: what was not saved is lost, and a record that was deleted with
\* its anchor is not.
CrashEditor ==
    /\ app = "open" /\ app' = "gone" /\ prev' = [open |-> FALSE, text |-> {}]
    /\ reverted' = reverted \cup (Stored \ records)
    /\ UNCHANGED <<text, saved, known, records, outputs, cached, called, undone, redone, others, heard, filedAs, swept, chipSteps>>

\* RunFile: everything is read, and the sessions are looked at.
OpenEditor ==
    /\ app # "open" /\ app' = "open"
    /\ text' = saved /\ known' = records /\ undone' = <<>> /\ redone' = <<>> /\ heard' = FALSE
    /\ Hydrated(outputs)
    /\ UNCHANGED <<saved, records, called, prev, others, reverted, swept, chipSteps>>

ChipsNext ==
    \/ Chipify \/ DeleteAnchor \/ DeleteRow \/ MergeUp \/ OpenNote \/ EscNote \/ EnterNote \/ SaveTexts
    \/ PickSession \/ CliRenames \/ RenameHere \/ UndoKey \/ RedoKey
    \/ OtherMakes \/ OtherSaves \/ Hear \/ QuitEditor \/ CrashEditor \/ OpenEditor

ChipsSpec == ChipsInit /\ [][ChipsNext]_chipsVars

-----------------------------------------------------------------------------
(* Properties.                                                             *)

ChipsTypeOK ==
    /\ text \in [Surfaces -> SUBSET ChipIds] /\ saved \in [Surfaces -> SUBSET ChipIds]
    /\ Len(undone) <= MaxPast /\ (prev.open \/ prev.text = {})
    /\ \A c \in ChipIds : outputs[c] # Unfiled => outputs[c].title \in Titles

\* Whatever is typed, deleted, merged, undone and redone, an anchor in a text has its
\* record, in memory and in the table; but for one that esc brought back with the note
\* it was deleted from.
AnchorsHaveRecords == app = "open" => \A c \in Anchored \ reverted : c \in known /\ (c \in records)

\* What the other editor has saved keeps its records, whatever is undone or collected
\* here; but for a record that an undo took for one of its own, and for one that was
\* collected before its text was saved.
TheirChipsStay == others.saved \subseteq records \cup swept

\* A session chip in a text has its session, also after an undo of its deletion.
SessionChipsHaveSessions == app = "open" => \A c \in (Anchored \cap Agents0) \ reverted : LoadSession(c) # Unfiled

\* Identity travels once: a chip keeps what the CLI called the session when the chip
\* was pointed at it, however often the CLI renames it and the chip is reloaded, renamed
\* here, deleted and restored.
IdentityIsASnapshot ==
    \A c \in Agents0 : LoadSession(c) # Unfiled /\ LoadSession(c).taken /\ filedAs[c] # Unfiled =>
        LoadSession(c).title = filedAs[c]

\* What memory has of a session is what the row has: a restart shows the same.
CacheIsTheRow == \A c \in ChipIds : cached[c] # Unfiled => cached[c] = outputs[c]

\* The session ends with one record for each anchor and no other, but for those of the
\* other editor.
NothingUnreferenced == app = "quit" /\ chipSteps > 0 => records \ others.made = Anchored \ (reverted \ records)

-----------------------------------------------------------------------------
(* Why they hold.  A record is written and deleted at once and a text is   *)
(* saved later: what makes an anchor keep its record is what the pictures  *)
(* on the undo stack hold.                                                 *)

MyChips == Plain0 \cup Agents0

\* Texts hold chips of this editor, each in one place.
ChipTexts == {f \in [Surfaces -> SUBSET MyChips] : \A s, t \in Surfaces : s # t => f[s] \cap f[t] = {}}
HeldChips(f) == UNION {f[s] : s \in Surfaces}

Pictures == [text : ChipTexts, known : SUBSET ChipIds, outputs : UNION {[S -> Idents] : S \in SUBSET Agents0}]

\* A picture is whole, where the anchors back stay without their records and the
\* sessions are filed as was.
WholePicture(p, back, was) ==
    /\ HeldChips(p.text) \ back \subseteq p.known
    /\ DOMAIN p.outputs = p.known \cap Agents0
    /\ \A c \in DOMAIN p.outputs : p.outputs[c].taken /\ was[c] = p.outputs[c].title

StacksInv ==
    /\ undone \in Seq(Pictures) /\ redone \in Seq(Pictures) /\ Len(undone) + Len(redone) <= MaxPast
    /\ \A i \in DOMAIN undone : WholePicture(undone[i], reverted, filedAs)
    /\ \A i \in DOMAIN redone : WholePicture(redone[i], reverted, filedAs)

\* While a note is open the other texts stay, so what it held is in none of them.
TextsInv ==
    /\ text \in ChipTexts /\ saved \in ChipTexts /\ app \in {"open", "quit", "gone"}
    /\ prev \in [open : BOOLEAN, text : SUBSET MyChips]
    /\ prev.open \/ prev.text = {}
    /\ prev.text \cap (text["above"] \cup text["name"]) = {}
    /\ prev.open => app = "open"

RecordsInv ==
    /\ known \subseteq ChipIds /\ records \subseteq ChipIds
    /\ others \in [made : SUBSET Theirs0, saved : SUBSET Theirs0]
    /\ others.saved \subseteq others.made /\ others.made \subseteq records \cup swept
    /\ app = "open" => known \subseteq records /\ Anchored \ reverted \subseteq known
    /\ app # "open" => Stored \ reverted \subseteq records

\* A session is filed as the CLI called it, or not yet looked at: an older version left it.
FiledSo(c) ==
    outputs[c] # Unfiled =>
        /\ c \in Agents0
        /\ outputs[c].taken => filedAs[c] = outputs[c].title
        /\ ~outputs[c].taken => c \in records /\ filedAs[c] = Unfiled /\ app # "open"

IdentsInv ==
    /\ outputs \in [ChipIds -> Idents \cup {Unfiled}] /\ cached \in [ChipIds -> Idents \cup {Unfiled}]
    /\ filedAs \in [ChipIds -> Titles \cup {Unfiled}] /\ called \in Titles
    /\ \A c \in ChipIds : FiledSo(c) /\ (cached[c] # Unfiled => cached[c] = outputs[c])
    /\ \A c \in (records \cup known) \cap Agents0 : outputs[c] # Unfiled

ChipsInv == TextsInv /\ RecordsInv /\ IdentsInv /\ StacksInv /\ NothingUnreferenced

\* Every anchor in a text has its record through undo, save and collection, the records others made stay, and what no
\* text holds is collected (chips.go:577, editor.go:574, chip.go:471).
ChipsFollowTheText ==
    /\ ChipsTypeOK
    /\ AnchorsHaveRecords
    /\ TheirChipsStay
    /\ SessionChipsHaveSessions
    /\ IdentityIsASnapshot
    /\ CacheIsTheRow
    /\ NothingUnreferenced
    /\ ChipsInv
=============================================================================
