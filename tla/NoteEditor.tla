----------------------------- MODULE NoteEditor -----------------------------
(***************************************************************************)
(* The note panes of the window (InspectorPane.tsx, NoteEditor.tsx) with   *)
(* their autosave, between the user, who types and goes from note to note, *)
(* and the commands they call. Commands run in any order and their answers *)
(* arrive in any order; nothing tells an answer to the note on screen from *)
(* one to a note that was there before, but for the number of a save.      *)
(*                                                                         *)
(* There are two places for a pane, the page of a tab and the side panel.  *)
(* Both show the note of the active tab, if that is one (App.tsx:          *)
(* effectiveInspectorTitle), so that two panes may have one note.          *)
(*                                                                         *)
(* Abstracted: a text is the note it was written in and a version; a       *)
(* command is one step of the store (Vault has their interleavings); the   *)
(* tabs, of which any may be next; backlinks, history, titles that are     *)
(* only being typed.                                                       *)
(***************************************************************************)
EXTENDS Naturals, Sequences, FiniteSets, SequencesExt

CONSTANTS
  Titles, None,
  InitialNotes, \* titles of the notes there are at the start
  MaxNotes,     \* bound: notes that are ever made
  MaxEdits,     \* bound: changes to a text, and so its versions
  MaxMoves,     \* bound: notes that are opened, panes that are closed
  MaxEvents,    \* bound: notes made, renamed, deleted or appended to, and
                \* commands that fail
  MaxInAll      \* bound: edits, moves and events together

ASSUME NoteEditorAssumption ==
  /\ None \notin Titles /\ InitialNotes \subseteq Titles /\ IsFiniteSet(InitialNotes) /\ InitialNotes # {}
  /\ {MaxNotes, MaxEdits, MaxMoves, MaxEvents, MaxInAll} \subseteq Nat
  /\ Cardinality(InitialNotes) <= MaxNotes

VARIABLES
  note,   \* id -> title and body of a note, or None
  shown,  \* place -> the note of the active tab, of the side panel, or None
  pane,   \* place -> the pane there; its title is None when there is none
  panes,  \* place -> panes mounted there so far; callbacks reach no other one
  calls,  \* commands under way and answers that have not arrived
  used,   \* what is used up of the bounds
  excuse  \* history: why what is on screen may not be what is stored
editorVars == <<note, shown, pane, panes, calls, used, excuse>>

Ids     == 1..MaxNotes
Places  == {"page", "side"}
Text(n, version) == [of |-> n, version |-> version]
NoText  == Text(0, 0)          \* the body shown for a note that is not there
Closed  == [title |-> None, from |-> None, loading |-> FALSE, data |-> FALSE, editing |-> FALSE,
            draft |-> NoText, buffer |-> NoText, last |-> NoText, timer |-> FALSE, error |-> FALSE, seq |-> 0, done |-> 0, loads |-> 0]

Rows    == {n \in Ids : note[n] # None}
Find(t) == {n \in Rows : note[n].title = t}

(* The answer of inspect_note.                                             *)
Inspect(t) == IF Find(t) = {} THEN None ELSE note[CHOOSE n \in Find(t) : TRUE].body

(* A command that a pane, or the window (None), has called.                *)
Call(kind, t, arg, seq, place, mount) ==
  [kind |-> kind, title |-> t, arg |-> arg, seq |-> seq, place |-> place, mount |-> mount,
   back |-> FALSE, failed |-> FALSE, result |-> None]
Spend(what, max) ==
  /\ used[what] < max /\ used.edit + used.move + used.event < MaxInAll
  /\ used' = [used EXCEPT ![what] = @ + 1]
Because(why, yes) == IF yes THEN {why} ELSE {}
Crossed(p) == p.from # p.title
Saving(t) == \E c \in calls : c.kind = "save" /\ c.title = t /\ ~c.back

(* A text of the note that has, or had, the title is in a pane or on its   *)
(* way.                                                                    *)
InHand(t) ==
  \/ \E s \in Places : pane[s].from = t /\ pane[s].draft.of # 0
  \/ Saving(t)
  \/ \E c \in calls : c.kind \in {"load", "fill"} /\ c.title = t /\ c.back /\ c.result # None

-----------------------------------------------------------------------------
(* The editor is on screen; it starts from the draft, and keeps its own    *)
(* buffer as long as it is there, whatever becomes of the draft.           *)
OnScreen(p) == ~p.loading /\ p.data /\ p.editing
Mounted(q, p) == IF OnScreen(p) /\ ~OnScreen(q) THEN [p EXCEPT !.buffer = p.draft] ELSE p

(* mutant: a new title leaves the timer of the old one running             *)
Retitled_KeepsTimer(p, t) == [p EXCEPT !.title = t, !.loading = TRUE, !.loads = @ + 1]

(* The effect of props.title, up to its await.                             *)
Retitled(p, t) == [p EXCEPT !.title = t, !.timer = FALSE, !.loading = TRUE, !.loads = @ + 1]

(* The tab of a note comes back when the window starts.                    *)
EditorInit ==
  LET first == SetToSeq(InitialNotes) IN
  /\ note = [n \in Ids |-> IF n <= Len(first) THEN [title |-> first[n], body |-> Text(n, 0)] ELSE None]
  /\ shown = [page |-> first[1], side |-> None]
  /\ pane = [page |-> Retitled(Closed, first[1]), side |-> Closed] /\ panes = [page |-> 1, side |-> 0]
  /\ calls = {Call("load", first[1], None, 1, "page", 1)}
  /\ used = [what \in {"edit", "move", "event"} |-> 0]
  /\ excuse = {}

(* The tab on top and the note of the side panel, which hides when it has  *)
(* a tab. A pane that goes clears its timer (onCleanup), and nobody waits  *)
(* any longer for what it was reading.                                     *)
Reads == {"load", "reload", "fill"}
Show(page, side, rest) ==
  LET here == [page |-> page, side |-> IF side = page THEN None ELSE side]
      t    == IF page # None THEN page ELSE side
      new  == {s \in Places : here[s] # None /\ pane[s].title # t}
  IN /\ shown' = here
     /\ pane' = [s \in Places |-> IF here[s] = None THEN Closed
                                  ELSE IF s \in new THEN Retitled(pane[s], t) ELSE pane[s]]
     /\ panes' = [s \in Places |-> IF s \in new /\ pane[s].title = None THEN panes[s] + 1 ELSE panes[s]]
     /\ calls' = {c \in rest : c.kind \in Reads => here[c.place] # None}
                 \cup {Call("load", t, None, pane[s].loads + 1, s, panes'[s]) : s \in new}

(* A note is opened in its tab and hides the panel, a tab is left or       *)
(* closed for the next one, the panel is closed, or the tab of a note is   *)
(* closed to have the note in the panel, beside the tab that is next.      *)
Go == \E page \in Titles \cup {None}, side \in {None, shown.page, shown.side} :
  /\ page # shown.page \/ side # shown.side
  /\ Spend("move", MaxMoves) /\ Show(page, side, calls)
  /\ UNCHANGED <<note, excuse>>

-----------------------------------------------------------------------------
(* flushSave up to its first await. A draft that is not from the note on   *)
(* screen is saved like any other.                                         *)
Unsaved(p) == p.draft # p.last
Flushed(p) == [p EXCEPT !.seq = IF Unsaved(p) THEN @ + 1 ELSE @, !.error = FALSE]
Flush(s, p, why) ==
  /\ pane' = [pane EXCEPT ![s] = Flushed(p)]
  /\ calls' = IF Unsaved(p) THEN calls \cup {Call("save", p.title, p.draft, p.seq + 1, s, panes[s])} ELSE calls
  /\ excuse' = excuse \cup why \cup Because("two saves", Unsaved(p) /\ Saving(p.title))

(* handleEdit: a text that is the last one saved stops nothing that is on  *)
(* its way. Undo can bring back any version.                               *)
Type(s) == \E version \in 0..MaxEdits :
  LET text == Text(pane[s].buffer.of, version)
      p    == [pane[s] EXCEPT !.buffer = text, !.draft = text]
  IN /\ OnScreen(pane[s]) /\ version # pane[s].buffer.version /\ version <= used.edit + 1 /\ Spend("edit", MaxEdits)
     /\ pane' = [pane EXCEPT ![s] = [p EXCEPT !.error = FALSE, !.timer = @ \/ Unsaved(p)]]
     /\ excuse' = excuse \cup Because("undo past a save", ~Unsaved(p) /\ p.done < p.seq)
                          \cup Because("crossed", Crossed(p))
                          \cup Because("two panes", \E r \in Places \ {s} : pane[r].title # None)
     /\ UNCHANGED <<note, shown, panes, calls>>

Timer(s) ==
  /\ pane[s].timer /\ Flush(s, [pane[s] EXCEPT !.timer = FALSE], {})
  /\ UNCHANGED <<note, shown, panes, used>>

(* toggleEditing: the button is there during a load, too.                  *)
Edit(s) ==
  /\ pane[s].data /\ ~pane[s].editing /\ Spend("move", MaxMoves)
  /\ pane' = [pane EXCEPT ![s] = Mounted(@, [@ EXCEPT !.editing = TRUE])]
  /\ UNCHANGED <<note, shown, panes, calls, excuse>>
View(s) ==
  /\ pane[s].data /\ pane[s].editing
  /\ Flush(s, [pane[s] EXCEPT !.timer = FALSE, !.editing = FALSE], Because("crossed", Crossed(pane[s])))
  /\ UNCHANGED <<note, shown, panes, used>>

-----------------------------------------------------------------------------
(* What else the user and agents do with notes: createGhost, renames from  *)
(* pane and sidebar, confirmed deletions, append_to_note of a turn.        *)
Asked(kind, t, arg, place, mount) ==
  /\ Spend("event", MaxEvents) /\ calls' = calls \cup {Call(kind, t, arg, used.event, place, mount)}
  /\ UNCHANGED <<note, shown, pane, panes, excuse>>
Known(t) == Find(t) # {} \/ \E s \in Places : pane[s].title = t
Ghost(s) == /\ pane[s].title # None /\ ~pane[s].loading /\ ~pane[s].data
            /\ Asked("create", pane[s].title, None, s, panes[s])
Rename   == \E t, new \in Titles : t # new /\ Known(t) /\ Asked("rename", t, new, None, 0)
Delete   == \E t \in Titles : Known(t) /\ Asked("delete", t, None, None, 0)

AgentAppends ==
  /\ Spend("event", MaxEvents)
  /\ \E n \in Rows : note' = [note EXCEPT ![n].body = Text(n, MaxEdits + 1)]
  /\ excuse' = excuse \cup {"outside"}
  /\ UNCHANGED <<shown, pane, panes, calls>>

-----------------------------------------------------------------------------
(* A command runs. update_note_body and rename_note of a note that is not  *)
(* there change nothing and succeed; a rename to a taken title fails.      *)
Create(t) == LET free == {n \in Ids : note[n] = None /\ \A m \in Ids : m > n => note[m] = None} IN
  IF Find(t) # {} \/ free = {} THEN note
  ELSE LET n == CHOOSE n \in free : \A m \in free : n <= m IN [note EXCEPT ![n] = [title |-> t, body |-> Text(n, 0)]]

Refused(c) == c.kind = "rename" /\ Find(c.arg) # {}
Effect(c) ==
  [n \in Ids |->
    IF c.kind = "create" THEN Create(c.title)[n]
    ELSE IF n \notin Find(c.title) \/ Refused(c) THEN note[n]
    ELSE CASE c.kind = "save"   -> [note[n] EXCEPT !.body = c.arg]
           [] c.kind = "rename" -> [note[n] EXCEPT !.title = c.arg]
           [] c.kind = "delete" -> None
           [] OTHER             -> note[n]]

Gives(c, t) == (c.kind = "create" /\ c.title = t) \/ (c.kind = "rename" /\ c.arg = t)

Ended(c, failed, result) == calls' = (calls \ {c}) \cup {[c EXCEPT !.back = TRUE, !.failed = failed, !.result = result]}
Run(c) ==
  /\ ~c.back
  /\ \/ Spend("event", MaxEvents) /\ Ended(c, TRUE, None) /\ UNCHANGED <<note, excuse>>
     \/ /\ Ended(c, Refused(c), IF c.kind \in Reads THEN Inspect(c.title) ELSE None)
        /\ note' = Effect(c)
        /\ excuse' = excuse \cup
             Because("load before a save", c.kind \in {"load", "fill"} /\ Saving(c.title)) \cup
             Because("title taken", \E t \in Titles : Gives(c, t) /\ Find(t) = {} /\ InHand(t))
        /\ UNCHANGED used
  /\ UNCHANGED <<shown, pane, panes>>

(* The answer arrives.                                                     *)
Body(c) == IF c.result = None THEN NoText ELSE c.result
Filled(p, c) == [p EXCEPT !.data = (c.result # None), !.draft = Body(c), !.last = Body(c), !.from = c.title,
                           !.done = p.seq]

Loaded(p, c) == IF c.failed THEN [p EXCEPT !.data = FALSE, !.loading = FALSE]
                ELSE [Filled(p, c) EXCEPT !.editing = FALSE, !.error = FALSE, !.loading = FALSE]

(* mutant: what is in the editor now counts as saved                       *)
Reloaded_Draft(p, c) == [p EXCEPT !.data = (c.result # None), !.last = p.draft, !.done = c.seq, !.error = FALSE]

Reloaded(p, c) == [p EXCEPT !.data = (c.result # None), !.last = c.arg, !.done = c.seq, !.error = FALSE]

(* The rest of flushSave: inspect_note once the save is done, and both     *)
(* answers count only while no newer save of the pane was begun.           *)
Stale(p, c) == c.seq # p.seq
AfterSave(p, c) ==
  IF c.failed THEN [p EXCEPT !.error = TRUE]
  ELSE IF c.kind = "reload" /\ ~Stale(p, c) THEN Mounted(p, Reloaded(p, c)) ELSE p
AfterCreate(p, c) == IF c.kind = "fill" /\ ~c.failed THEN Mounted(p, Filled(p, c)) ELSE p

(* A save is followed by a reload, a create by a fill.                     *)
Followed(p, c) ==
  IF c.failed THEN {}
  ELSE CASE c.kind = "save" /\ ~Stale(p, c) -> {Call("reload", c.title, c.arg, c.seq, c.place, c.mount)}
         [] c.kind = "create"               -> {Call("fill", c.title, None, c.seq, c.place, c.mount)}
         [] OTHER                           -> {}

(* onRename and confirmPendingDelete change the titles that are there by   *)
(* then; the tab of a note that is deleted is closed.                      *)
AfterNoteCommand(c, rest) ==
  IF c.failed THEN calls' = rest /\ UNCHANGED <<shown, pane, panes>>
  ELSE IF c.kind = "rename"
  THEN LET Now(t) == IF t = c.title THEN c.arg ELSE t IN Show(Now(shown.page), Now(shown.side), rest)
  ELSE \E page \in IF shown.page = c.title THEN (Titles \ {c.title}) \cup {None} ELSE {shown.page} :
         Show(page, IF shown.side = c.title THEN None ELSE shown.side, rest)

(* The pane that waits for it is still there.                              *)
Reaches(c) == c.place # None /\ c.mount = panes[c.place] /\ pane[c.place].title # None

AfterPaneCommand(c, rest) ==
  LET p == pane[c.place] IN
  /\ pane' = [pane EXCEPT ![c.place] =
       CASE c.kind = "load"               -> Loaded(p, c)
         [] c.kind \in {"save", "reload"} -> AfterSave(p, c)
         [] c.kind \in {"create", "fill"} -> AfterCreate(p, c)]
  /\ calls' = rest \cup Followed(p, c)
  /\ excuse' = excuse \cup
       Because("late load", (c.kind = "load" /\ c.seq # p.loads) \/ (c.kind = "fill" /\ c.title # p.title)) \cup
       Because("late reload", c.kind = "reload" /\ (c.title # p.title \/ c.seq <= p.done)) \cup
       Because("old buffer", c.kind = "fill" /\ (OnScreen(p) \/ p.timer))
  /\ UNCHANGED <<shown, panes>>

Answer(c) ==
  LET rest == calls \ {c} IN
     /\ c.back
     /\ \/ c.place = None /\ AfterNoteCommand(c, rest) /\ UNCHANGED excuse
        \/ Reaches(c) /\ AfterPaneCommand(c, rest)
        \/ c.place # None /\ ~Reaches(c) /\ calls' = rest /\ UNCHANGED <<shown, pane, panes, excuse>>
     /\ UNCHANGED <<note, used>>

(* Bound: the user rests once there is an excuse, and the commands once    *)
(* there is one for OwnText, too.                                          *)
Mixing == {"crossed", "late load", "old buffer", "title taken"}
Mixed  == excuse \cap Mixing # {}
EditorUser ==
  \/ Go \/ Rename \/ Delete \/ AgentAppends
  \/ \E s \in Places : Type(s) \/ Edit(s) \/ View(s) \/ Ghost(s)
EditorNext ==
  \/ excuse = {} /\ EditorUser
  \/ ~Mixed /\ \E s \in Places : Timer(s)
  \/ ~Mixed /\ \E c \in calls : Run(c) \/ Answer(c)

(* Timers fire, commands end and their answers arrive; the user owes       *)
(* nothing.                                                                *)
EditorFairness ==
  /\ \A s \in Places : WF_editorVars(Timer(s))
  /\ WF_editorVars(\E c \in calls : Run(c)) /\ WF_editorVars(\E c \in calls : Answer(c))
EditorSpec == EditorInit /\ [][EditorNext]_editorVars /\ EditorFairness

-----------------------------------------------------------------------------
(* The text of one note never ends up in another: timer, saves and loads   *)
(* of the note before may be under way when the next one comes on screen.  *)
(* Only the user can do it, by working in the pane before the answer for   *)
(* its title is there or after an answer for another title came late.      *)
OwnText == Mixed \/ \A n \in Rows : note[n].body.of = n

(* What is in a pane is what is stored in the end, or the pane says that a *)
(* save failed; but for the orders of steps named in excuse, of which      *)
(* nothing in the pane is aware: one of them is to type in one of two      *)
(* panes of a note, which the other one never hears of and writes over.    *)
Kept(p) == p.title # None /\ p.data /\ ~Crossed(p) => \E n \in Find(p.title) : note[n].body = p.draft
EditsGetThrough == <>[](excuse # {} \/ \A s \in Places : Kept(pane[s]) \/ pane[s].error)
=============================================================================
