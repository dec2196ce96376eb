------------------------------- MODULE Vault -------------------------------
(***************************************************************************)
(* The notes of one workspace, the mention edges between them and their    *)
(* embeddings (src/src-tauri/src/db.rs, graph.rs, embed.rs).               *)
(*                                                                         *)
(* A body holds [[links]]; every write of a body replays its links into    *)
(* the edges of the note, one query after another, while other writers,    *)
(* renames, deletes and the embedding loop go on. A query is atomic; every *)
(* await is a point where others run.                                      *)
(*                                                                         *)
(* Abstracted: a body is a set of pieces, a text or a link; a link is the  *)
(* title it names, or that title with space around it, which is another    *)
(* text but the same link. A vector is the text it was made of. A time is  *)
(* its place in the order, so a note is "behind" exactly when embedded_at  *)
(* < updated_at. The audit tables, other kinds of edges, other workspaces  *)
(* and a process exit in the middle of an operation are left out.          *)
(***************************************************************************)
EXTENDS Integers, Sequences, FiniteSets, FiniteSetsExt, SequencesExt

CONSTANTS
  Titles,
  Users,       \* commands of the window that may run at once
  Turns,       \* chat turns, whose tools operate
  InitialNotes,\* titles of the notes at the start, with empty bodies
  Texts,       \* what is written besides links
  Ragged,      \* long texts whose byte 4000 is not the first of a character
  Bodies,      \* the bodies that are written in one piece
  Added,       \* the pieces an append or an edit brings into a body
  MaxNotes,    \* bound: notes the database ever takes
  MaxOps,      \* bound: operations called
  Nil

(* [[ t ]], where [[t]] is the piece t itself.                             *)
Spaced(t) == <<t>>
Pieces    == Titles \cup {Spaced(t) : t \in Titles} \cup Texts

(* What the columns of the note table are here; the vector is of the title *)
(* and the body (document_for_embedding).                                  *)
Documents   == [title : Titles, body : SUBSET Pieces]
NoteRecords == [title : Titles, body : SUBSET Pieces, vector : Documents \cup {Nil}, behind : BOOLEAN]

ASSUME VaultAssumption ==
  /\ Nil \notin Pieces /\ Nil \notin NoteRecords /\ Users \cap Turns = {} /\ Titles \cap Texts = {}
  /\ \A t \in Titles : Spaced(t) \notin Titles \cup Texts
  /\ Ragged \subseteq Texts /\ Bodies \subseteq SUBSET Pieces /\ Added \subseteq Pieces
  /\ InitialNotes \subseteq Titles /\ IsFiniteSet(InitialNotes)
  /\ {MaxNotes, MaxOps} \subseteq Nat /\ Cardinality(InitialNotes) <= MaxNotes

VARIABLES
  notes,   \* id -> record of the note table, or Nil
  edges,   \* <<from, to>>: the edges of kind 'mentions'; edge_no_dup makes it a set
  next,    \* the next id
  op,      \* task -> where its operation is and what it has read
  begun,   \* how much of MaxOps is used
  disturbed, \* history: an operation met another under way, or a full database
  strayed, \* history: notes in which a rename missed a link to its note
  batch,   \* the embedding loop: notes read, with their texts, and not yet written
  alive,   \* the embedding loop has not panicked
  missed   \* history: notes whose text changed while the loop had the old
           \* one in hand, or by the rename of another note

loop == <<batch, alive, missed>>
spent == <<begun, disturbed, strayed>>
vaultVars == <<notes, edges, next, op, spent, loop>>

Ops    == Users \cup Turns
Ids    == 1..MaxNotes

Kinds  == {"create", "save", "append", "edit", "rename", "delete"}
Stages == {"check", "find", "match", "write", "ensure", "stub", "resolve", "diff", "drop",
           "link", "retitle", "rewrite", "unlink", "erase"}
Idle   == [pc |-> "idle", kind |-> Nil, title |-> Nil, to |-> Nil, body |-> {}, id |-> 0,
           todo |-> {}, ids |-> {}, stale |-> {}, after |-> Nil]

Rows == {id \in Ids : notes[id] # Nil}

(* SELECT ... WHERE title = $title LIMIT 1; note_unique_title.             *)
Find(t) == {id \in Rows : notes[id].title = t}

(* CREATE note: refused when the title is taken by then, or when the       *)
(* database is full (a bound); there is no embedding yet.                  *)
Full           == next > MaxNotes
Refused(t)     == Find(t) # {} \/ Full
Fresh(t, body) == [title |-> t, body |-> body, vector |-> Nil, behind |-> TRUE]

Insert(t, body) ==
  /\ notes' = [notes EXCEPT ![next] = Fresh(t, body)]
  /\ next' = next + 1

(* UPDATE $id of a note that is gone changes nothing.                      *)
Edit(id, row) == notes' = [notes EXCEPT ![id] = IF @ = Nil THEN Nil ELSE row]

-----------------------------------------------------------------------------
VaultInit ==
  /\ LET first == SetToSeq(InitialNotes)
     IN /\ notes = [id \in Ids |-> IF id <= Len(first) THEN Fresh(first[id], {}) ELSE Nil]
        /\ next = Len(first) + 1
  /\ edges = {}
  /\ op = [o \in Ops |-> Idle] /\ begun = 0 /\ disturbed = FALSE /\ strayed = {}
  /\ batch = {} /\ alive = TRUE /\ missed = {}

Running == {o \in Ops : op[o].pc \in Stages}

Goto(o, pc) == op' = [op EXCEPT ![o].pc = pc]
Finish(o)   == op' = [op EXCEPT ![o] = Idle]
Start(o, pc, kind, title, to, body) ==
  op' = [op EXCEPT ![o] = [Idle EXCEPT !.pc = pc, !.kind = kind, !.title = title, !.to = to,
                                       !.body = body]]

(* The window and the tools of a chat turn call an operation; only the     *)
(* window renames, only the tools append and edit.                         *)
Invoke(o) ==
  /\ op[o].pc = "idle" /\ begun < MaxOps /\ begun' = begun + 1
  /\ \E t \in Titles :
       \/ \E kind \in {"create", "save"}, body \in Bodies : Start(o, "find", kind, t, Nil, body)
       \/ Start(o, "find", "delete", t, Nil, {})
       \/ o \in Users /\ \E to \in Titles \ {t} : Start(o, "check", "rename", t, to, {})
       \/ o \in Turns /\ \E piece \in Added : Start(o, "find", "append", t, Nil, {piece})
       \/ o \in Turns /\ \E old \in Titles, new \in Added : Start(o, "match", "edit", t, old, {new})
  /\ disturbed' = (disturbed \/ Running # {})
  /\ UNCHANGED <<notes, edges, next, loop, strayed>>

(* edit_note reads the body it replaces one piece of.                      *)
Match(o) ==
  LET found == Find(op[o].title)
  IN /\ op[o].pc = "match"
     /\ IF \A id \in found : op[o].to \notin notes[id].body THEN Finish(o)
        ELSE \E id \in found :
               op' = [op EXCEPT ![o].pc = "find",
                                ![o].body = (notes[id].body \ {op[o].to}) \cup @]
     /\ UNCHANGED <<notes, edges, next, loop, spent>>

(* extract_wikilink_titles trims what is between the brackets.             *)
TitlesIn(body) == {t \in Titles : t \in body \/ Spaced(t) \in body}
LinksOf(o)     == TitlesIn(op[o].body) \ {op[o].title}

(* The create and save commands ensure the titles once more at their end,  *)
(* the tools do not; a save then counts the note's own title among them.   *)
Again(o) == IF op[o].kind = "create" THEN LinksOf(o) ELSE TitlesIn(op[o].body)
End(o, ensure) ==
  op' = [op EXCEPT ![o] =
    IF ensure /\ o \in Users
    THEN [@ EXCEPT !.pc = "ensure", !.after = "end", !.todo = Again(o)] ELSE Idle]

(* The rename command refuses a title that is taken.                       *)
Check(o) ==
  /\ op[o].pc = "check"
  /\ IF Find(op[o].to) # {} THEN Finish(o) ELSE Goto(o, "find")
  /\ UNCHANGED <<notes, edges, next, loop, spent>>

Appended(piece, id) == notes[id].body \cup piece

(* get_note at the head of an operation: create_note stops when the note   *)
(* is there, the others when it is not. append_to_note adds to the body it *)
(* read here.                                                              *)
Lookup(o) ==
  LET kind  == op[o].kind
      found == Find(op[o].title)
      pc    == CASE kind = "delete" -> "unlink" [] kind = "rename" -> "retitle"
                 [] OTHER -> "write"
  IN /\ op[o].pc = "find"
     /\ \/ kind = "create" /\ found = {} /\ Goto(o, "write")
        \/ kind # "create" /\ \E id \in found :
             op' = [op EXCEPT ![o].pc = pc, ![o].id = id,
                              ![o].body = IF kind = "append" THEN Appended(@, id) ELSE @]
        \/ (kind = "create" <=> found # {}) /\ End(o, kind = "create")
     /\ UNCHANGED <<notes, edges, next, loop, spent>>

-----------------------------------------------------------------------------
(* sync_wikilinks_for_note, after a body was written.                      *)
Sync(o, id) == op' = [op EXCEPT ![o].pc = "ensure", ![o].id = id, ![o].todo = LinksOf(o),
                                ![o].after = "resolve"]

(* create_note: a title taken since the lookup is an error; an empty body  *)
(* is not possible here, every writer adds a text.                         *)
Create(o) ==
  /\ op[o].pc = "write" /\ op[o].kind = "create"
  /\ \/ /\ ~Refused(op[o].title)
        /\ Insert(op[o].title, op[o].body) /\ Sync(o, next)
     \/ Refused(op[o].title) /\ Finish(o) /\ UNCHANGED <<notes, next>>
  /\ disturbed' = (disturbed \/ Full) /\ UNCHANGED <<edges, loop, begun, strayed>>

(* Notes the embedding loop has read and not yet written.                  *)
Picked == {read.id : read \in batch}

(* update_note_body, append_to_note: the row may be gone by now; append    *)
(* stops then, the others go on with the links.                            *)
Write(o) ==
  LET id == op[o].id
  IN /\ op[o].pc = "write" /\ op[o].kind # "create"
     /\ Edit(id, [notes[id] EXCEPT !.body = op[o].body, !.behind = TRUE])
     /\ IF op[o].kind = "append" /\ notes[id] = Nil THEN Finish(o) ELSE Sync(o, id)
     /\ strayed' = strayed \ {id} /\ missed' = missed \cup ({id} \cap Picked)
     /\ UNCHANGED <<edges, next, begun, disturbed, batch, alive>>

First(S) == CHOOSE x \in S : TRUE   \* titles and targets are taken in a fixed order

(* ensure_notes_exist looks for the next title ...                         *)
EnsureNext(o) ==
  LET t == First(op[o].todo)
  IN /\ op[o].pc = "ensure"
     /\ op' = IF op[o].todo = {}
              THEN [op EXCEPT ![o] = IF @.after = "resolve"
                      THEN [@ EXCEPT !.pc = "resolve", !.todo = LinksOf(o)]
                      ELSE Idle]
              ELSE IF Find(t) = {} THEN [op EXCEPT ![o].pc = "stub"]
              ELSE [op EXCEPT ![o].todo = @ \ {t}]
     /\ UNCHANGED <<notes, edges, next, loop, spent>>

(* ... and creates it; the index refuses a title taken since, and that     *)
(* error leaves the other titles out.                                      *)
Stub(o) ==
  LET t == First(op[o].todo)
  IN /\ op[o].pc = "stub"
     /\ \/ /\ ~Refused(t) /\ Insert(t, {})
           /\ op' = [op EXCEPT ![o].pc = "ensure", ![o].todo = @ \ {t}]
        \/ /\ Refused(t) /\ UNCHANGED <<notes, next>>
           /\ op' = [op EXCEPT ![o].pc = "ensure", ![o].todo = {}]
     /\ disturbed' = (disturbed \/ Full) /\ UNCHANGED <<edges, loop, begun, strayed>>

(* The ids of the titles, one get_note after the other.                    *)
Resolve(o) ==
  LET t == First(op[o].todo)
  IN /\ op[o].pc = "resolve"
     /\ op' = IF op[o].todo = {} THEN [op EXCEPT ![o].pc = "diff"]
              ELSE [op EXCEPT ![o].todo = @ \ {t}, ![o].ids = @ \cup Find(t)]
     /\ UNCHANGED <<notes, edges, next, loop, spent>>

Mentions(id) == {e[2] : e \in {x \in edges : x[1] = id}}

(* mutant: the edges of links that are gone stay *)
Stale_Kept(o) == {}

Stale(o) == Mentions(op[o].id) \ op[o].ids

Wanted(o) == (op[o].ids \ {op[o].id}) \ Mentions(op[o].id)

(* replace_mention_edges compares the edges with the targets ...           *)
Diff(o) ==
  /\ op[o].pc = "diff"
  /\ op' = [op EXCEPT ![o].pc = "drop", ![o].stale = Stale(o), ![o].ids = Wanted(o)]
  /\ UNCHANGED <<notes, edges, next, loop, spent>>

(* ... drops the stale ones ...                                            *)
Drop(o) ==
  LET id == First(op[o].stale)
  IN /\ op[o].pc = "drop"
     /\ IF op[o].stale = {} THEN Goto(o, "link") /\ UNCHANGED edges
        ELSE /\ edges' = edges \ {<<op[o].id, id>>}
             /\ op' = [op EXCEPT ![o].stale = @ \ {id}]
     /\ UNCHANGED <<notes, next, loop, spent>>

(* ... and relates the fresh ones, whether or not their ends still exist.  *)
Link(o) ==
  LET id == First(op[o].ids)
  IN /\ op[o].pc = "link"
     /\ \/ /\ op[o].ids # {}
           /\ edges' = edges \cup {<<op[o].id, id>>}
           /\ op' = [op EXCEPT ![o].ids = @ \ {id}]
        \/ op[o].ids = {} /\ End(o, TRUE) /\ UNCHANGED edges
     /\ UNCHANGED <<notes, next, loop, spent>>

-----------------------------------------------------------------------------
(* rename_note: the title, unless it was taken meanwhile; a row that is    *)
(* gone changes nothing and the rename goes on.                            *)
Retitle(o) ==
  LET id     == op[o].id
      others == Find(op[o].to) \ {id}
  IN /\ op[o].pc = "retitle"
     /\ \/ /\ others = {} \/ notes[id] = Nil
           /\ Edit(id, [notes[id] EXCEPT !.title = op[o].to, !.behind = TRUE])
           /\ Goto(o, "rewrite") /\ missed' = missed \cup ({id} \cap Picked)
        \/ /\ others # {} /\ notes[id] # Nil
           /\ Finish(o) /\ UNCHANGED <<notes, missed>>
     /\ UNCHANGED <<edges, next, spent, batch, alive>>

(* mutant: the links to the old title stay *)
Relinked_Not(body, old, new) == body

(* string::replace of [[old]], to the letter: a link with space in it      *)
(* stays as it is.                                                         *)
Relinked(body, old, new) ==
  IF old \in body THEN (body \ {old}) \cup {new} ELSE body

(* One UPDATE rewrites the links of all bodies; it leaves updated_at alone. *)
Rewrite(o) ==
  LET old == op[o].title
  IN /\ op[o].pc = "rewrite"
     /\ notes' = [id \in Ids |->
          IF notes[id] = Nil THEN Nil
          ELSE [notes[id] EXCEPT !.body = Relinked(@, old, op[o].to)]]
     /\ strayed' = strayed \cup {id \in Rows : Spaced(old) \in notes[id].body}
     /\ missed' = missed \cup {id \in Rows : old \in notes[id].body}
     /\ Finish(o)
     /\ UNCHANGED <<edges, next, begun, disturbed, batch, alive>>

(* mutant: only the outgoing edges go with the note *)
Touching_FromOnly(id) == {e \in edges : e[1] = id}

Touching(id) == {e \in edges : id \in {e[1], e[2]}}

(* delete_note_by_title: the edges, then the row.                          *)
Unlink(o) ==
  /\ op[o].pc = "unlink" /\ Goto(o, "erase")
  /\ edges' = edges \ Touching(op[o].id)
  /\ UNCHANGED <<notes, next, loop, spent>>

Erase(o) ==
  /\ op[o].pc = "erase" /\ Finish(o)
  /\ notes' = [notes EXCEPT ![op[o].id] = Nil]
  /\ UNCHANGED <<edges, next, loop, spent>>

-----------------------------------------------------------------------------
(* mutant: only notes that were never embedded are picked *)
Pending_NewOnly == {id \in Rows : notes[id].vector = Nil}

Pending == {id \in Rows : notes[id].behind}

(* document_for_embedding cuts a body at byte 4000; a cut inside a         *)
(* character panics.                                                       *)
Panics(id) == notes[id].body \cap Ragged # {}

(* One round of the embedding loop reads what is pending (LIMIT 16 is      *)
(* beyond the bound) and builds the documents; a panic ends the task ...   *)
Document(id) == [title |-> notes[id].title, body |-> notes[id].body]
Pick ==
  /\ alive /\ batch = {} /\ Pending # {}
  /\ IF \E id \in Pending : Panics(id) THEN alive' = FALSE /\ batch' = batch
     ELSE /\ batch' = {[id |-> id, text |-> Document(id)] : id \in Pending}
          /\ alive' = alive
  /\ UNCHANGED <<notes, edges, next, op, spent, missed>>

(* The application is started again, which spawns the loop.                *)
Relaunch ==
  /\ ~alive /\ Running = {} /\ alive' = TRUE
  /\ UNCHANGED <<notes, edges, next, op, spent, batch, missed>>

(* ... and writes vector and embedded_at, note by note, here in any order. *)
(* The time is taken here, so that an edit since Pick counts as embedded.  *)
Embed(id) ==
  /\ \E read \in batch :
       /\ read.id = id /\ batch' = batch \ {read}
       /\ Edit(id, [notes[id] EXCEPT !.vector = read.text, !.behind = FALSE])
       /\ missed' = IF notes[id] # Nil /\ read.text = Document(id) THEN missed \ {id} ELSE missed
  /\ UNCHANGED <<edges, next, op, spent, alive>>

(* The model fails and the round is lost, or the UPDATE of one note does.  *)
EmbedFails ==
  /\ batch # {} /\ (batch' = {} \/ \E read \in batch : batch' = batch \ {read})
  /\ UNCHANGED <<notes, edges, next, op, spent, alive, missed>>

Step(o) ==
  \/ Match(o) \/ Check(o) \/ Lookup(o) \/ Create(o) \/ Write(o)
  \/ EnsureNext(o) \/ Stub(o) \/ Resolve(o) \/ Diff(o) \/ Drop(o) \/ Link(o)
  \/ Retitle(o) \/ Rewrite(o) \/ Unlink(o) \/ Erase(o)

VaultNext ==
  \/ \E o \in Ops : Invoke(o) \/ Step(o)
  \/ Pick \/ (\E id \in Ids : Embed(id)) \/ EmbedFails \/ Relaunch

(* The loop runs as long as the program, the program is started again; a   *)
(* note that is tried again and again is embedded in the end.              *)
Fairness ==
  /\ \A o \in Ops : WF_vaultVars(Step(o))
  /\ WF_vaultVars(Pick) /\ WF_vaultVars(Relaunch)
  /\ \A id \in Ids : SF_vaultVars(Embed(id))

VaultSpec == VaultInit /\ [][VaultNext]_vaultVars /\ Fairness

-----------------------------------------------------------------------------
(* "The body is the source of truth, the edges are derived state"          *)
(* (db.rs:1144): when nothing is under way and no note was deleted, the    *)
(* edges of every note are its links, after saves, appends, edits, stubs   *)
(* and renames in any order. Here for operations no other one disturbs,    *)
(* and for notes in which no rename has missed a link: [[ Foo ]] links to  *)
(* Foo, and a rename of Foo leaves it as it is, with the edge, until the   *)
(* body is written again.                                                  *)
Linked(id) == (UNION {Find(t) : t \in TitlesIn(notes[id].body)}) \ {id}
Whole      == Rows = 1..(next - 1)
AtRest     == Running = {} /\ Whole => \A id \in Rows \ strayed : Mentions(id) = Linked(id)
EdgesFollowBodies == ~disturbed => AtRest

(* Deleting a note takes the edges at both its ends along, when no other   *)
(* operation is about to write one.                                        *)
EdgesHaveEnds == ~disturbed => \A e \in edges : e[1] \in Rows /\ e[2] \in Rows

(* However often notes change and rounds fail: unless some body makes the  *)
(* loop panic, in the end the vector of every note is of its title and     *)
(* body (embed.rs: "eventually-consistent"), except of notes whose text    *)
(* last changed where embedded_at < updated_at does not tell: between the  *)
(* query and the UPDATE of a round, or by the rename of another note.      *)
CaughtUp          == \A id \in Rows \ missed : notes[id].vector = Document(id)
EmbeddingsCatchUp == <>[](CaughtUp \/ \E id \in Rows : Panics(id))
=============================================================================
