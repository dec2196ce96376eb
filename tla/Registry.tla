------------------------------ MODULE Registry ------------------------------
(***************************************************************************)
(* Workspaces and what they own: chats with their messages, agents,        *)
(* folders, notes and edges (src/src-tauri/src/db.rs, the commands of      *)
(* lib.rs), the lists the window shows of them (src/src/App.tsx), and the  *)
(* start of the database: schema, seeding and migration of old links.      *)
(*                                                                         *)
(* The database checks no reference. A statement is atomic; a handler of   *)
(* several statements is not, and a crash may cut it anywhere. What a      *)
(* handler has left to do is its list of statements.                       *)
(*                                                                         *)
(* Abstracted: names, prompts, models, colours and capabilities; a turn    *)
(* only matters for who speaks and for what it writes at its two ends.     *)
(* There is one folder name and one note title, which every message links  *)
(* to; bodies and the other operations on notes are in Vault, what a turn  *)
(* does in between is in ChatTurn.                                         *)
(***************************************************************************)
EXTENDS Naturals, Sequences, FiniteSets, Functions

CONSTANTS
  Workspaces, Chats, Agents, Folders, Notes,  \* the ids that may be given out
  Default, Main, Seeded,  \* the ids seed_defaults uses
  Links,      \* rows of the old link table
  Slots,      \* handlers that may run at once
  MaxCalls,   \* bound: calls of the window
  MaxSwitches, \* bound: times the window changes its workspace
  MaxCrashes, \* bound: times the process ends
  None

ChatRows == [ws : Workspaces, agent : Agents \cup {None}, agents : Seq(Agents)]
NoteRows == [ws : Workspaces, folder : Folders \cup {None}]

ASSUME RegistryAssumption ==
  /\ Default \in Workspaces /\ Main \in Chats /\ Seeded \subseteq Agents
  /\ Seeded # {}
  /\ {MaxCalls, MaxSwitches, MaxCrashes} \subseteq Nat
  /\ \A S \in {Workspaces, Chats, Agents, Folders, Notes, Links} : None \notin S
  /\ None \notin ChatRows /\ None \notin NoteRows

VARIABLES
  ws,       \* rows of workspace
  chat,     \* id -> row of chat, or None
  said,     \* chats that message rows name
  agent,    \* id -> workspace of the agent, or None
  folder,   \* id -> workspace of the folder, or None
  note,     \* id -> row of note, or None
  edits,    \* notes that note_edit rows name
  edge,     \* chats and old links that edges start from, with their workspace
  links,    \* rows of the old link table
  migrated, \* the link_migration row of graph_meta
  uncopied, \* history: old links whose copy, or whose SELECT, has failed
  used,     \* ids given out
  startup,  \* what is left of open()
  todo,     \* slot -> statements its handler has left
  view,     \* the window: workspace and the lists it shows
  asked,    \* lists the window waits for
  default,  \* the window's default agent for new chats
  calls, switches, crashes,
  loose,    \* history: chats bound to an agent that was going, gone or foreign
  late,     \* history: rows written for an owner that was going or gone
  misfiled, \* history: notes moved to a folder that was going or gone
  overlapped \* history: a workspace was counted while another was going

owners  == <<ws, chat, agent, folder>>
content == <<said, note, edits, edge>>
tables  == <<owners, content, used>>
old     == <<links, migrated, uncopied, startup>>
window  == <<view, asked, default>>
bounds  == <<calls, switches, crashes>>
history == <<loose, late, misfiled, overlapped>>
vars    == <<tables, old, todo, window, bounds, history>>

ChatRow(w) == [ws |-> w, agent |-> None, agents |-> << >>]
Empty(ids) == [x \in ids |-> None]
Present(table) == {x \in DOMAIN table : table[x] # None}

Stmt(do, at, to) == [do |-> do, at |-> at, to |-> to]
At(s, do)        == todo[s] # << >> /\ Head(todo[s]).do = do
Arg(s)           == Head(todo[s]).at
Arg2(s)          == Head(todo[s]).to
Then(s, stmts)   == todo' = [todo EXCEPT ![s] = stmts \o Tail(@)]
Done(s)          == Then(s, << >>)

(* A row is going when a handler is about to delete it.                    *)
Going(x) == \E s \in Slots : \E i \in DOMAIN todo[s] :
              /\ todo[s][i].at = x
              /\ todo[s][i].do \in {"delWorkspace", "delChat", "delAgent", "delFolder"}
GoneWs(w)   == w \notin ws \/ Going(w)
GoneChat(c) == chat[c] = None \/ Going(c) \/ GoneWs(chat[c].ws)
GoneNote(n) == note[n] = None \/ GoneWs(note[n].ws)
Marked(row, gone) == late' = IF gone THEN late \cup {row} ELSE late

(* A chat is loose when it was bound to an agent that was gone or going, or*)
(* of another workspace, which may go on its own.                          *)
Firm(c, a)     == agent[a] = chat[c].ws /\ ~Going(a) /\ ~GoneWs(agent[a])
Rebound(c, as) == loose' = IF chat[c] = None \/ \A a \in as : Firm(c, a) THEN loose \ {c} ELSE loose \cup {c}

-----------------------------------------------------------------------------
(* open(): schema, seeding, migration. Nothing else runs before it ends.   *)
Begin(stage, left) == startup' = [at |-> stage, left |-> left]
Boot(stage)        == startup.at = stage
Up                 == Boot("up")

Shown == [ws |-> None, chats |-> Empty(Chats), agents |-> {}]

(* A new installation, or one in use, which may be of a version before     *)
(* chats had lists of agents and links were edges.                         *)
New == /\ ws = {} /\ chat = Empty(Chats) /\ agent = Empty(Agents) /\ used = {}
       /\ folder = Empty(Folders) /\ note = Empty(Notes) /\ links = {} /\ migrated = FALSE

InUse ==
  \E w \in Workspaces \ {Default}, f \in Folders, n \in Notes, lead \in Seeded \cup {None} :
    /\ ws = {Default, w} /\ used = ws \cup Agents \cup {Main, f, n}
    /\ migrated \in BOOLEAN /\ links = IF migrated THEN {} ELSE Links
    /\ agent = [a \in Agents |-> IF a \in Seeded THEN Default ELSE w]
    /\ chat = [Empty(Chats) EXCEPT ![Main] =
                 [ChatRow(Default) EXCEPT !.agent = lead,
                                          !.agents = IF migrated /\ lead # None THEN <<lead>> ELSE << >>]]
    /\ folder = [Empty(Folders) EXCEPT ![f] = Default]
    /\ note = [Empty(Notes) EXCEPT ![n] = [ws |-> Default, folder |-> None]]

Init ==
  /\ New \/ InUse
  /\ said = {} /\ edits = {} /\ edge = {} /\ uncopied = {}
  /\ startup = [at |-> "backfill", left |-> {}] /\ todo = [s \in Slots |-> << >>]
  /\ view = Shown /\ asked = {} /\ default = None /\ calls = 0 /\ switches = 0 /\ crashes = 0
  /\ loose = {} /\ late = {} /\ misfiled = {} /\ overlapped = FALSE

(* UPDATE chat SET agents = [agent] WHERE the list is empty.               *)
Backfill ==
  /\ Boot("backfill") /\ Begin("seed", {})
  /\ chat' = [c \in Chats |->
       IF chat[c] # None /\ chat[c].agent # None /\ chat[c].agents = << >>
       THEN [chat[c] EXCEPT !.agents = <<chat[c].agent>>] ELSE chat[c]]
  /\ UNCHANGED <<ws, agent, folder, content, used, links, migrated, uncopied, todo, window, bounds, history>>

(* Rows are seeded when there is no workspace:default, each by a CREATE of *)
(* its own. A CREATE of a row that is there fails, open() with it, and the *)
(* expect() of setup ends the process.                                     *)
Seed ==
  /\ Boot("seed") /\ Begin(IF Default \in ws THEN "migrate" ELSE "seedWorkspace", {})
  /\ UNCHANGED <<tables, links, migrated, uncopied, todo, window, bounds, history>>

SeedWorkspace ==
  /\ Boot("seedWorkspace") /\ Begin("seedChat", {})
  /\ ws' = ws \cup {Default} /\ used' = used \cup {Default}
  /\ UNCHANGED <<chat, agent, folder, content, links, migrated, uncopied, todo, window, bounds, history>>

SeedChat ==
  /\ Boot("seedChat") /\ Begin("seedAgents", Seeded)
  /\ chat[Main] = None /\ chat' = [chat EXCEPT ![Main] = ChatRow(Default)]
  /\ used' = used \cup {Main}
  /\ UNCHANGED <<ws, agent, folder, content, links, migrated, uncopied, todo, window, bounds, history>>

SeedAgent ==
  /\ Boot("seedAgents")
  /\ \E a \in startup.left :
       /\ agent[a] = None /\ agent' = [agent EXCEPT ![a] = Default] /\ used' = used \cup {a}
       /\ LET left == startup.left \ {a}
          IN Begin(IF left = {} THEN "migrate" ELSE "seedAgents", left)
  /\ UNCHANGED <<ws, chat, folder, content, links, migrated, uncopied, todo, window, bounds, history>>

(* migrate_link_to_edge: the rows found are copied, then the table is      *)
(* removed, then the marker is written. An edge that is there is refused.  *)

(* mutant: off by one *)
CopyOrRemove_OneLeft(left) == Begin(IF Cardinality(left) <= 1 THEN "remove" ELSE "copy", left)
CopyOrRemove(left) == Begin(IF left = {} THEN "remove" ELSE "copy", left)

(* A SELECT that fails reads as no rows.                                   *)
Migrate ==
  /\ Boot("migrate")
  /\ \/ migrated /\ Begin("up", {}) /\ UNCHANGED uncopied
     \/ ~migrated /\ CopyOrRemove(links) /\ UNCHANGED uncopied
     \/ ~migrated /\ CopyOrRemove({}) /\ uncopied' = uncopied \cup links
  /\ UNCHANGED <<tables, links, migrated, todo, window, bounds, history>>

(* The error of a CREATE is dropped (`let _ =`), and the next row copied.  *)
CopyLink ==
  /\ Boot("copy")
  /\ \E l \in startup.left :
       /\ \/ edge' = edge \cup {[from |-> l, ws |-> None]} /\ uncopied' = uncopied \ {l}
          \/ edge' = edge /\ uncopied' = uncopied \cup {l}
       /\ CopyOrRemove(startup.left \ {l})
  /\ UNCHANGED <<owners, said, note, edits, used, links, migrated, todo, window, bounds, history>>

RemoveLinks ==
  /\ Boot("remove") /\ Begin("mark", {}) /\ links' = {}
  /\ UNCHANGED <<tables, migrated, uncopied, todo, window, bounds, history>>

MarkMigrated ==
  /\ Boot("mark") /\ Begin("up", {}) /\ migrated' = TRUE
  /\ UNCHANGED <<tables, links, uncopied, todo, window, bounds, history>>

(* The process ends anywhere; only the tables and the window's settings    *)
(* stay.                                                                   *)
Crash ==
  /\ crashes < MaxCrashes /\ crashes' = crashes + 1
  /\ Begin("backfill", {}) /\ todo' = [s \in Slots |-> << >>]
  /\ view' = Shown /\ asked' = {}
  /\ UNCHANGED <<tables, links, migrated, uncopied, default, calls, switches, history>>

-----------------------------------------------------------------------------
(* The window. It lists what the server says at the time, and the answer   *)
(* fills the list of the workspace that is shown when it arrives.          *)
ChatsOf(w)  == [c \in Chats |-> IF chat[c] # None /\ chat[c].ws = w THEN chat[c] ELSE None]
AgentsOf(w) == {a \in Agents : agent[a] = w}
Listed      == {c \in Chats : view.chats[c] # None}

Only(q, S) == LET kept[i \in 0..Len(q)] ==
                    IF i = 0 THEN << >>
                    ELSE IF q[i] \in S THEN Append(kept[i - 1], q[i]) ELSE kept[i - 1]
              IN kept[Len(q)]

(* currentChatAgents: the bound agents as far as the window lists them.    *)
Members(c) ==
  LET row == view.chats[c]
      ids == IF row.agents # << >> THEN row.agents
             ELSE IF row.agent # None THEN <<row.agent>> ELSE << >>
  IN Only(ids, view.agents)

(* switchToWorkspace clears the lists and asks for them; so does the start,*)
(* and the loss of the workspace shown.                                    *)
Switch ==
  /\ Up /\ switches < MaxSwitches /\ switches' = switches + 1
  /\ \E w \in ws \ {view.ws} :
       /\ view' = [Shown EXCEPT !.ws = w]
       /\ asked' = asked \cup {w}
  /\ UNCHANGED <<tables, old, todo, default, calls, crashes, history>>

(* chats:updated and agents:updated make the window ask again; here that   *)
(* answer comes at once, those to a switch come late enough.               *)
Lists(w) == [view EXCEPT !.chats = ChatsOf(w), !.agents = AgentsOf(w)]
Refresh ==
  /\ Up /\ view.ws # None /\ asked = {} /\ view' = Lists(view.ws) /\ view' # view
  /\ UNCHANGED <<tables, old, todo, asked, default, bounds, history>>

Answer ==
  /\ Up /\ \E w \in asked : asked' = asked \ {w} /\ view' = Lists(w)
  /\ UNCHANGED <<tables, old, todo, default, bounds, history>>

PickDefault ==
  /\ Up /\ \E a \in view.agents \ {default} : default' = a
  /\ UNCHANGED <<tables, old, todo, view, asked, bounds, history>>

(* The commands of one statement.                                          *)
Command == Up /\ calls < MaxCalls /\ calls' = calls + 1

CreateWorkspace ==
  /\ Command
  /\ \E w \in Workspaces \ (used \cup {Default}) : ws' = ws \cup {w} /\ used' = used \cup {w}
  /\ UNCHANGED <<chat, agent, folder, content, old, todo, window, switches, crashes, history>>

CreateAgent ==
  /\ Command /\ view.ws # None
  /\ \E a \in Agents \ (used \cup Seeded) :
       /\ agent' = [agent EXCEPT ![a] = view.ws] /\ used' = used \cup {a}
       /\ Marked(<<"agent", a>>, GoneWs(view.ws))
  /\ UNCHANGED <<ws, chat, folder, content, old, todo, window, switches, crashes, loose, misfiled, overlapped>>

(* toggleChatAgent and set_chat_agents: the list, and its first as agent.  *)
Toggled(c, a) == IF a \in Range(Members(c)) THEN Only(Members(c), Agents \ {a})
                 ELSE Append(Members(c), a)
Lead(list)    == IF list = << >> THEN None ELSE Head(list)
SetChatAgents ==
  /\ Command
  /\ \E c \in Listed, a \in view.agents :
       LET list == Toggled(c, a)
       IN /\ chat' = IF chat[c] = None THEN chat
                     ELSE [chat EXCEPT ![c].agents = list, ![c].agent = Lead(list)]
          /\ Rebound(c, Range(list))
  /\ UNCHANGED <<ws, agent, folder, content, used, old, todo, window, switches, crashes, late, misfiled, overlapped>>

-----------------------------------------------------------------------------
(* The handlers of several statements.                                     *)
Free(s) == Command /\ todo[s] = << >>
Call(s, stmts) == Free(s) /\ todo' = [todo EXCEPT ![s] = stmts]

(* newChat: the window waits for the row, then binds its default agent,    *)
(* which it remembers over deletions, workspaces and restarts.             *)
NewChat(s) ==
  /\ view.ws # None
  /\ \E c \in Chats \ (used \cup {Main}) :
       /\ Call(s, IF default = None THEN << >> ELSE <<Stmt("bind", c, default)>>)
       /\ chat' = [chat EXCEPT ![c] = ChatRow(view.ws)] /\ used' = used \cup {c}
       /\ Marked(<<"chat", c>>, GoneWs(view.ws))
  /\ UNCHANGED <<ws, agent, folder, content, old, window, switches, crashes, loose, misfiled, overlapped>>

(* set_chat_agent writes the agent and not the list.                       *)
Bind(s) ==
  /\ At(s, "bind") /\ Done(s)
  /\ chat' = IF chat[Arg(s)] = None THEN chat ELSE [chat EXCEPT ![Arg(s)].agent = Arg2(s)]
  /\ Rebound(Arg(s), {Arg2(s)})
  /\ UNCHANGED <<ws, agent, folder, content, used, old, window, bounds, late, misfiled, overlapped>>

(* delete_agent: chats are unbound first; their lists keep the id.         *)
DeleteAgent(s) ==
  /\ \E a \in view.agents : Call(s, <<Stmt("unbind", a, None), Stmt("delAgent", a, None)>>)
  /\ UNCHANGED <<tables, old, window, switches, crashes, history>>

(* mutant: only the chats that list the agent *)
Freed_Listed(a) == [c \in Chats |-> IF chat[c] # None /\ chat[c].agent = a /\ a \in Range(chat[c].agents)
                                   THEN [chat[c] EXCEPT !.agent = None] ELSE chat[c]]
Freed(a) == [c \in Chats |-> IF chat[c] # None /\ chat[c].agent = a
                            THEN [chat[c] EXCEPT !.agent = None] ELSE chat[c]]

Unbind(s) ==
  /\ At(s, "unbind") /\ Done(s) /\ chat' = Freed(Arg(s))
  /\ UNCHANGED <<ws, agent, folder, content, used, old, window, bounds, history>>

DelAgent(s) ==
  /\ At(s, "delAgent") /\ Done(s)
  /\ agent' = [agent EXCEPT ![Arg(s)] = None]
  /\ UNCHANGED <<ws, chat, folder, content, used, old, window, bounds, history>>

DeleteChat(s) ==
  /\ \E c \in Listed : Call(s, <<Stmt("delMessages", c, None), Stmt("delChat", c, None)>>)
  /\ UNCHANGED <<tables, old, window, switches, crashes, history>>

DelMessages(s) ==
  /\ At(s, "delMessages") /\ Done(s) /\ said' = said \ {Arg(s)}
  /\ UNCHANGED <<owners, note, edits, edge, used, old, window, bounds, history>>

DelChat(s) ==
  /\ At(s, "delChat") /\ Done(s) /\ chat' = [chat EXCEPT ![Arg(s)] = None]
  /\ UNCHANGED <<ws, agent, folder, content, used, old, window, bounds, history>>

(* mutant: chats before their messages *)
Cascade_Reversed(w) ==
  <<Stmt("delEdits", w, None), Stmt("delEdges", w, None), Stmt("delNotes", w, None),
    Stmt("delChats", w, None), Stmt("delChatMessages", w, None), Stmt("delAgents", w, None),
    Stmt("delWorkspace", w, None)>>

(* mutant: the workspace before what it owns *)
Cascade_RowFirst(w) ==
  <<Stmt("delWorkspace", w, None), Stmt("delEdits", w, None), Stmt("delEdges", w, None),
    Stmt("delNotes", w, None), Stmt("delChatMessages", w, None), Stmt("delChats", w, None),
    Stmt("delAgents", w, None)>>

(* delete_workspace counts, and then deletes in this order; folders stay.  *)
Cascade(w) ==
  <<Stmt("delEdits", w, None), Stmt("delEdges", w, None), Stmt("delNotes", w, None),
    Stmt("delChatMessages", w, None), Stmt("delChats", w, None), Stmt("delAgents", w, None),
    Stmt("delWorkspace", w, None)>>

DeleteWorkspace(s) ==
  /\ \E w \in ws : Call(s, <<Stmt("count", w, None)>>)
  /\ UNCHANGED <<tables, old, window, switches, crashes, history>>

(* mutant: off by one *)
LastOne_None == Cardinality(ws) = 0
LastOne == Cardinality(ws) <= 1

Count(s) ==
  /\ At(s, "count") /\ Then(s, IF LastOne THEN << >> ELSE Cascade(Arg(s)))
  /\ overlapped' = (overlapped \/ \E w \in Workspaces : Going(w))
  /\ UNCHANGED <<tables, old, window, bounds, loose, late, misfiled>>

Kept(table, w) == [x \in DOMAIN table |-> IF table[x] # None /\ table[x].ws = w THEN None ELSE table[x]]
DelRows(s) ==
  /\ \E do \in {"delEdits", "delEdges", "delNotes", "delChatMessages", "delChats", "delAgents", "delWorkspace"} :
       At(s, do)
  /\ Done(s)
  /\ LET w == Arg(s)
     IN /\ edits' = IF At(s, "delEdits") THEN {n \in edits : note[n] = None \/ note[n].ws # w} ELSE edits
        /\ edge' = IF At(s, "delEdges") THEN {e \in edge : e.ws # w} ELSE edge
        /\ note' = IF At(s, "delNotes") THEN Kept(note, w) ELSE note
        /\ said' = IF At(s, "delChatMessages") THEN {c \in said : chat[c] = None \/ chat[c].ws # w} ELSE said
        /\ chat' = IF At(s, "delChats") THEN Kept(chat, w) ELSE chat
        /\ agent' = IF At(s, "delAgents") THEN [a \in Agents |-> IF agent[a] = w THEN None ELSE agent[a]] ELSE agent
        /\ ws' = IF At(s, "delWorkspace") THEN ws \ {w} ELSE ws
  /\ UNCHANGED <<folder, used, old, window, bounds, history>>

-----------------------------------------------------------------------------
(* Folders. The name is looked for and then created under folder_unique_   *)
(* name; a note is looked for by its title and then moved.                 *)
FoldersOf(w) == {f \in Folders : folder[f] = w}
NotesOf(w)   == {n \in Notes : note[n] # None /\ note[n].ws = w}

CreateFolder(s) ==
  /\ view.ws # None /\ Call(s, <<Stmt("findFolder", view.ws, None)>>)
  /\ UNCHANGED <<tables, old, window, switches, crashes, history>>

FindFolder(s) ==
  /\ At(s, "findFolder")
  /\ Then(s, IF FoldersOf(Arg(s)) # {} THEN << >> ELSE <<Stmt("makeFolder", Arg(s), None)>>)
  /\ UNCHANGED <<tables, old, window, bounds, history>>

MakeFolder(s) ==
  /\ At(s, "makeFolder") /\ Done(s)
  /\ \/ FoldersOf(Arg(s)) # {} /\ UNCHANGED <<folder, used>>
     \/ /\ FoldersOf(Arg(s)) = {}
        /\ \E f \in Folders \ used : folder' = [folder EXCEPT ![f] = Arg(s)] /\ used' = used \cup {f}
  /\ UNCHANGED <<ws, chat, agent, content, old, window, bounds, history>>

DeleteFolder(s) ==
  /\ view.ws # None /\ \E f \in FoldersOf(view.ws) : Call(s, <<Stmt("unfile", f, None), Stmt("delFolder", f, None)>>)
  /\ UNCHANGED <<tables, old, window, switches, crashes, history>>

Unfile(s) ==
  /\ At(s, "unfile") /\ Done(s)
  /\ note' = [n \in Notes |-> IF note[n] # None /\ note[n].folder = Arg(s)
                             THEN [note[n] EXCEPT !.folder = None] ELSE note[n]]
  /\ UNCHANGED <<owners, said, edits, edge, used, old, window, bounds, history>>

DelFolder(s) ==
  /\ At(s, "delFolder") /\ Done(s) /\ folder' = [folder EXCEPT ![Arg(s)] = None]
  /\ UNCHANGED <<ws, chat, agent, content, used, old, window, bounds, history>>

SetNoteFolder(s) ==
  /\ NotesOf(view.ws) # {}
  /\ \E f \in FoldersOf(view.ws) \cup {None} : Call(s, <<Stmt("findNote", view.ws, f)>>)
  /\ UNCHANGED <<tables, old, window, switches, crashes, history>>

FindNote(s) ==
  /\ At(s, "findNote")
  /\ \/ NotesOf(Arg(s)) = {} /\ Done(s)
     \/ \E n \in NotesOf(Arg(s)) : Then(s, <<Stmt("move", n, Arg2(s)), Stmt("log", n, None)>>)
  /\ UNCHANGED <<tables, old, window, bounds, history>>

Stray(f) == f # None /\ (folder[f] = None \/ Going(f))
Move(s) ==
  /\ At(s, "move") /\ Done(s)
  /\ LET n == Arg(s) f == Arg2(s)
     IN /\ note' = IF note[n] = None THEN note ELSE [note EXCEPT ![n].folder = f]
        /\ misfiled' = IF Stray(f) THEN misfiled \cup {n} ELSE misfiled \ {n}
  /\ UNCHANGED <<owners, said, edits, edge, used, old, window, bounds, loose, late, overlapped>>

Log(s) ==
  /\ At(s, "log") /\ Done(s) /\ edits' = edits \cup {Arg(s)}
  /\ Marked(<<"edit", Arg(s)>>, GoneNote(Arg(s)))
  /\ UNCHANGED <<owners, said, note, edge, used, old, window, bounds, loose, misfiled, overlapped>>

-----------------------------------------------------------------------------
(* A turn: the user's message, who answers, and at its end the answer.     *)
(* Both messages mention the note; the turn ends with another ensure of    *)
(* the notes it mentions. To address none, or none who is there, is to     *)
(* address the lead.                                                       *)
Mentioned(c, m) == Len(Members(c)) >= 2 /\ m \in Range(Members(c))
Override(c, m)  == IF Mentioned(c, m) THEN m ELSE Lead(Members(c))
Turn(s) ==
  /\ \E c \in Listed, m \in Agents :
       Call(s, <<Stmt("say", c, None), Stmt("link", c, None), Stmt("speak", c, <<m, Override(c, m)>>),
                 Stmt("say", c, None), Stmt("link", c, None), Stmt("ensure", view.ws, None)>>)
  /\ UNCHANGED <<tables, old, window, switches, crashes, history>>

(* save_message checks no chat.                                            *)
Say(s) ==
  /\ At(s, "say") /\ Done(s) /\ said' = said \cup {Arg(s)}
  /\ Marked(<<"said", Arg(s)>>, GoneChat(Arg(s)))
  /\ UNCHANGED <<owners, note, edits, edge, used, old, window, bounds, loose, misfiled, overlapped>>

(* The links of a message belong to the workspace of its chat.             *)
LinkChat(s) ==
  /\ At(s, "link")
  /\ LET row == chat[Arg(s)]
     IN Then(s, IF row = None THEN << >>
                ELSE <<Stmt("ensure", row.ws, None), Stmt("relate", Arg(s), row.ws)>>)
  /\ UNCHANGED <<tables, old, window, bounds, history>>

(* ensure_notes_exist; it creates nothing when the title is taken, or when *)
(* the ids are used up (a bound).                                          *)
Ensure(s) ==
  /\ At(s, "ensure")
  /\ \/ NotesOf(Arg(s)) # {} /\ Done(s) /\ UNCHANGED <<note, used, late>>
     \/ NotesOf(Arg(s)) = {} /\ Notes \subseteq used /\ Done(s) /\ UNCHANGED <<note, used, late>>
     \/ /\ NotesOf(Arg(s)) = {}
        /\ \E n \in Notes \ used :
             /\ note' = [note EXCEPT ![n] = [ws |-> Arg(s), folder |-> None]]
             /\ used' = used \cup {n} /\ Then(s, <<Stmt("log", n, None)>>)
             /\ Marked(<<"note", n>>, GoneWs(Arg(s)))
  /\ UNCHANGED <<owners, said, edits, edge, old, window, bounds, loose, misfiled, overlapped>>

Relate(s) ==
  /\ At(s, "relate") /\ Done(s)
  /\ edge' = IF NotesOf(Arg2(s)) = {} THEN edge ELSE edge \cup {[from |-> Arg(s), ws |-> Arg2(s)]}
  /\ Marked(<<"edge", Arg(s)>>, GoneWs(Arg2(s)))
  /\ UNCHANGED <<owners, said, note, edits, used, old, window, bounds, loose, misfiled, overlapped>>

(* resolve_mentioned_agent_id: a mention counts among the agents of the    *)
(* chat's list; then what the window chose; then the agent of the chat.    *)
ListOf(c)   == IF chat[c] = None THEN {} ELSE {a \in Range(chat[c].agents) : agent[a] # None}
Alive(a)    == IF a # None /\ agent[a] # None THEN a ELSE None

(* mutant: a mention counts among all agents *)
Named_Any(c, m) == Alive(m) # None
Named(c, m) == m \in ListOf(c)

Speaker(s) ==
  LET c == Arg(s) m == Arg2(s)[1] chosen == Arg2(s)[2]
  IN IF Named(c, m) THEN m
     ELSE IF chosen # None THEN Alive(chosen)
     ELSE IF chat[c] = None THEN None ELSE Alive(chat[c].agent)
Speak(s) == At(s, "speak") /\ Done(s) /\ UNCHANGED <<tables, old, window, bounds, history>>

-----------------------------------------------------------------------------
Starting == \/ Backfill \/ Seed \/ SeedWorkspace \/ SeedChat \/ SeedAgent
            \/ Migrate \/ CopyLink \/ RemoveLinks \/ MarkMigrated \/ Crash
Window   == Switch \/ Refresh \/ Answer \/ PickDefault \/ CreateWorkspace \/ CreateAgent \/ SetChatAgents

Agency(s)    == NewChat(s) \/ Bind(s) \/ DeleteAgent(s) \/ Unbind(s) \/ DelAgent(s)
Deletion(s)  == DeleteChat(s) \/ DelMessages(s) \/ DelChat(s) \/ DeleteWorkspace(s) \/ Count(s) \/ DelRows(s)
Filing(s)    == \/ CreateFolder(s) \/ FindFolder(s) \/ MakeFolder(s) \/ DeleteFolder(s) \/ Unfile(s)
                \/ DelFolder(s) \/ SetNoteFolder(s) \/ FindNote(s) \/ Move(s) \/ Log(s)
Talk(s)      == Turn(s) \/ Say(s) \/ LinkChat(s) \/ Ensure(s) \/ Relate(s) \/ Speak(s)

Next == Starting \/ Window \/ \E s \in Slots : Agency(s) \/ Deletion(s) \/ Filing(s) \/ Talk(s)
Spec == Init /\ [][Next]_vars

-----------------------------------------------------------------------------
(* "Unbind chats first so chat.agent doesn't dangle" (delete_agent), and   *)
(* what must not be lost: notes of a folder that is deleted become unfiled,*)
(* since the window shows no note of an unknown folder. A reference        *)
(* dangles only when it was made to something gone, going or foreign.      *)
Dangling    == {c \in Present(chat) : chat[c].agent # None /\ agent[chat[c].agent] = None}
Lost        == {n \in Present(note) : note[n].folder # None /\ folder[note[n].folder] = None}
AgentsLive  == Dangling \subseteq loose
FoldersLive == Lost \subseteq misfiled
ReferencesLive == AgentsLive /\ FoldersLive

(* Rows whose owner is not there: "chatEdge" is an edge from a chat that   *)
(* was deleted, "edge" one of a workspace that was.                        *)
Orphans ==
  UNION {{<<"chat", c>> : c \in {x \in Present(chat) : chat[x].ws \notin ws}},
         {<<"agent", a>> : a \in {x \in Present(agent) : agent[x] \notin ws}},
         {<<"folder", f>> : f \in {x \in Present(folder) : folder[x] \notin ws}},
         {<<"note", n>> : n \in {x \in Present(note) : note[x].ws \notin ws}},
         {<<"said", c>> : c \in {x \in said : chat[x] = None}},
         {<<"edit", n>> : n \in {x \in edits : note[x] = None}},
         {<<"chatEdge", e.from>> : e \in {x \in edge : x.from \in Chats /\ chat[x.from] = None}},
         {<<"edge", e.from>> : e \in {x \in edge : x.ws # None /\ x.ws \notin ws}}}

(* No statement of delete_workspace is about folders, none of delete_chat  *)
(* about the edges that save_message made from the chat; those go with the *)
(* workspace.                                                              *)
Undeleted == {<<"folder", f>> : f \in Folders} \cup {<<"chatEdge", c>> : c \in Chats}

(* "cascade everything it owns" (delete_workspace) holds of workspaces and *)
(* chats but for those two: what else remains of one that is gone was      *)
(* written by a handler that was under way, or called from a list that was *)
(* not yet asked for again.                                                *)
NothingLeft == Orphans \subseteq late \cup Undeleted

(* "always keep at least one": the last workspace goes only when two       *)
(* deletions overlapped, each having counted the other's workspace.        *)
OneStays == Up /\ ws = {} => overlapped

(* A start can always seed: whatever deletion or start was cut before, a   *)
(* row that seed_defaults creates is not there when it creates it.         *)
SeedFits ==
  /\ Boot("seedChat") => chat[Main] = None
  /\ Boot("seedAgents") => \A a \in startup.left : agent[a] = None

(* However often the start is cut, an old link goes only when it is an     *)
(* edge, or when its copy or the SELECT of the links failed in this or an  *)
(* earlier start and no later start copied it: such a link is lost, since  *)
(* the table is removed whatever failed.                                   *)
LinksKept ==
  [][\A l \in links : l \in links' \/ (\E e \in edge' : e.from = l) \/ l \in uncopied']_vars

(* Who answers a turn is an agent of the chat's own workspace, unless the  *)
(* chat was bound elsewhere.                                               *)
SpeakersAreMembers ==
  \A s \in Slots : At(s, "speak") /\ chat[Arg(s)] # None /\ Speaker(s) # None
    => agent[Speaker(s)] = chat[Arg(s)].ws \/ Arg(s) \in loose
=============================================================================
