# Clome: specifications, model checking and proofs

Clome is a desktop assistant: a Tauri application with a Rust core
(`src/src-tauri/src`), a Solid window (`src/src`), an embedded SurrealDB for the
vault and the chats, and SQLite plus `.eml` files for mail. This directory holds
TLA+ models of its stateful parts, the TLC runs that check them and the TLAPS
proofs about them. `PROJECT.json` is the machine-readable inventory: components,
runs, the lines every definition models, mutants, findings, hazards, theorems.

    tlc -workers 2 -config MCOutbox.cfg MCOutbox      # any MC*.cfg with its module
    tlapm OutboxProofs.tla

## 1. Inventory

| Component | State | Operations | Hard behaviour |
|---|---|---|---|
| **Outbox** `mail/outbox.rs` | table `outbox` (state, send_at, undo_until, attempt_count) | enqueue, cancel (undo), one supervisor: snapshot, claim, send, record | crash or lost write between claim and result, lost SMTP reply, undo racing the claim, retries |
| **Mail sync** `mail/sync.rs`, `store.rs`, `commands.rs`, `idle.rs` | table `message`, `<uid>.eml` and `<uid>.tmp` | sync newer, load older, refresh flags, set flag, move, delete | several syncs of one folder without a lock, stale bounds, caps, torn files, stale flags |
| **Accounts** `commands.rs`, `oauth.rs`, `keychain.rs`, `idle.rs`, `db.rs` | `email_account` rows, Keychain items, supervisor tasks | sign-in, removal, token refresh, start-up | two stores without a transaction, refresh racing removal, two sign-ins |
| **Chat turn** `lib.rs`, `mlx.rs`, `App.tsx` | messages, stop registry, rows of the window, live copies, row numbers | send, stream, dispatch tools, stop, save, open another chat | renumbered rows while tokens arrive, stop at any point, failure in any iteration |
| **Vault** `db.rs`, `graph.rs`, `embed.rs`, `lib.rs`, `tools.rs` | notes, mention edges, embeddings | create, save, append, edit, rename, delete, link replay, embedding rounds | window and tools write at once, rename between write and replay, panic of the loop |
| **Note editor** `InspectorPane.tsx`, `App.tsx` | page pane and side pane, of each: title, draft, buffer, last saved body, debounce timer, save sequence | type, save, load, switch, ghost page, rename, delete | timer, save, reload and load of different notes overlap and answer in any order; two panes may have one note |
| **Threading** `threading.rs`, `sync.rs` | parent map of a batch, `thread_id` of rows | assign, store | order and split of batches, headers that contradict each other |
| **Shadows** `sync.rs`, `db.rs`, `embed.rs` | `email_thread` rows beside `mail.db` | upsert, backfill, promote, unpromote, embed | two databases, overlapping upserts, LIMIT 8, panic on a body |
| **Terminals** `App.tsx`, `NativeTerminalHost.tsx`, `ghostty_native.rs`, swift | tabs, sessions, generation, frames and retries; fence, closed tabs, surfaces | open, split, close, switch, show, hide, reset | calls overtaken, frame against retry, reload of the page |
| **Registry** `db.rs`, `lib.rs`, `App.tsx` | workspaces, chats, agents, folders, notes and their references; the window's lists and default agent | create, bind, move, delete; schema, seeding, migration | handlers of several statements overlap, a crash cuts one, stale lists |
| **Prompt, tools, capabilities** `lib.rs`, `tools.rs`, `caps.rs`, `App.tsx` | history, messages of a request, tool surface of a turn | build, coerce, offer, parse, gate, execute | broken histories, three tables that must agree, edits during a turn |
| **Mail window** `MailApp.tsx` | mail list, drafts, selection | open, select, poll | answers that arrive after the selection moved (only the poll is modelled) |
| **Model bridge** `mlx.rs` | none | stream until end, error, stop | inside Chat turn and Prompt |
| **Search and graph views**, **mail parsing**, **rendering**, **Mail.app bridge**, **EventKit helper**, **scripts, site** | none or once at start | – | see section 7 |

How they interact. The window calls commands (each an async function of its own
task) and hears events. The outbox supervisor, one IDLE supervisor per account
and the embedding loop are tasks that live as long as the process. Outbox, sync
and message commands take credentials through `resolve_account` and
`ensure_fresh_access` (Accounts). Sync and outbox share `mail.db` behind one
mutex: a closure given to `with_conn` is atomic, two of them are not. A chat turn
runs tools, which write to the vault through the same functions as the window.
SurrealDB has no transaction around several queries of one function; each query
is atomic and every `await` lets others run. A removed account leaves mail.db,
its supervisor and the outbox as they are.

What makes each part correct, in a line. Outbox: every message gets one verdict, in time, after a
bounded number of hand-offs. Mail sync: no hole opens in the mirror, files of rows are whole, flags
and arrivals get through. Accounts: no row without tokens, no forgotten tokens, every account
watched. Chat turn: a bubble holds the words of its turn, once, until the turn ends; stop stops.
Vault: edges follow bodies, vectors follow texts. Note editor: the text of a note stays its own and
gets through. Threading: no loops, no dependence on order, no mixed conversations. Shadows: rows
follow mail, nobody starves. Terminals: what is closed stays closed, nothing covers another view,
what is on the stage appears. Registry: references are live, a deletion leaves no row that one of
its statements is about, a start can always seed. Prompt: every request is one a chat template
accepts, and a call does what its speaker was granted, no more, no less.

## 2. Modules

| Module | Models | Lines | Checked by |
|---|---|---|---|
| `Outbox` | the table, the supervisor, undo, crashes, SMTP, the clock | 430 | `outbox`, proofs |
| `OutboxAbs` | what the queue promises about one message | 50 | refined by `Outbox` (TLC and TLAPS) |
| `OutboxProofs` | theorems about `Outbox` and `NoteEditor` | 2130 | tlapm |
| `MailSync` | one folder: server, table, files, concurrent syncs, commands | 460 | `mail_sync`, `mail_sync_live`, proofs |
| `MailSyncProofs` | theorems about `MailSync` | 1130 | tlapm |
| `Accounts` | rows, Keychain, sign-ins, removals, supervisors, refresh | 380 | `accounts`, proofs |
| `AccountsProofs` | theorems about `Accounts` | 1450 | tlapm |
| `ChatTurn` | window and agent loop of a chat | 420 | `chat`, proofs |
| `ChatTurnProofs` | theorems about `ChatTurn` | 2040 | tlapm |
| `Prompt` | what the model is asked and what its calls may do | 490 | `prompt`, proofs |
| `PromptProofs` | theorems about `Prompt` | 1970 | tlapm |
| `Vault` | notes, links, edges, embedding loop | 390 | `vault`, proofs |
| `NoteEditor` | the page pane and the side pane with their autosave, and the commands they call | 300 | `note_editor`, proofs |
| `Threading` | links between Message-IDs, batch by batch | 180 | `threads`, proofs |
| `ThreadingProofs` | theorems about `Threading` and `Shadows` | 1450 | tlapm |
| `Shadows` | thread rows, promotion, the thread step of the embedding loop | 220 | `shadows`, proofs |
| `Registry` | workspaces and what they own; the start of the database | 570 | `registry`, proofs |
| `RegistryProofs` | theorems about `Registry` and `Vault` | 4590 | tlapm |
| `Terminal` | tabs, hosts and native surfaces | 300 | `terminal`, proofs |
| `TerminalProofs` | theorems about `Terminal` | 2710 | tlapm |

How the modules meet. Each models the part of a shared table its operations decide on,
and takes what the others do to it as one step. `NoteEditor` runs each note command
in one step where `Vault` interleaves its queries; `ChatTurn` has the rows and streams
of a turn where `Prompt` has its messages and calls and `Registry` its two ends;
`MailSync` stores the batches that `Threading` threads and `Shadows` counts; `Accounts`
hands out the credentials the others use. `Outbox` implements `OutboxAbs`.

A proof module may hold the theorems of two components that have nothing to do with each
other: it extends both, their names and their assumptions are disjoint, and each theorem is
about the specification of one (`Spec` and `VaultSpec`, `ShadowsSpec`, `EditorSpec`).

`MC*` modules extend one of them and give finite values to its constants. The
models follow the code's own steps: an action is one SQL statement, query, IMAP
command, file system call or event handler, with everything it changes; between
two actions of one task any other task may act. Constants of the code
(`MAX_ATTEMPTS`, the fetch caps, `MAX_ITERS`) are CONSTANTS; bounds that exist
only for TLC are marked "bound" where they are declared.

### Outbox
`state`, `sendAt`, `undoUntil`, `attempts` are columns. `pc`, `now`, `due`, `cur`
are the locals of `run_once`: the `now` it reads once, the rows its snapshot
still lists, the row in flight. `Snapshot`, `Claim` (compare-and-set to
'sending'), `Preflight`, the relay's answer, `RecordSent`, `Requeue`,
`MarkFailed` follow its lines; each `let _ =` write has a `LoseWrite` twin.
`Crash` and `Restart` keep the table and drop the task. `OutboxAbs` forgets all
of this: a message is pending, is offered to the relay at most `MaxAttempts`
times, gets one verdict, is never offered again. The refinement maps
'queued' and 'sending' to pending.

### MailSync
A message is its UID and `\Seen`; both spellings of the flag that the code writes
into `flags_json` are kept. `sync_folder` is `BeginNewer`/`BeginOlder` (MIN or MAX
of the stored UIDs), `Search`, `Fetch`, then one message after another with
`Create`, `Write`, `Rename` of its file and `Insert` of its row; `RefreshFlags` to
`ApplyFlags` is the flag half, which lists the newest `RefreshCap` rows (ORDER BY uid
DESC LIMIT).
`<uid>.tmp` has one name for all writers, and an
open handle follows its file through a rename (`handle`). Two syncs, a flag
refresh, a command of the user, another mail client, arriving mail, errors and a
crash interleave.

### Accounts
A Keychain item is present or not. A sign-in stores tokens, then looks for the
row of the address, then updates or creates it, then spawns a supervisor; a
removal reads `keychain_ref`, deletes the row, deletes the item; a supervisor or
caller resolves the account, loads the tokens and may store refreshed ones.
Any of these steps may fail where the code has an error path, and a crash drops
all tasks but no store.

### ChatTurn
`turn[n]` is one run of the agent loop (`SaveUser`, `Register`, `Chunk`, `Answer`,
`Dispatch`, `ToolDone`, `Rejected`, `Again`, `SaveAgent`, `Finish`, `Forget`); the
window has `rows`, `nextId`, `busy`, `active`, `live` and one load per chat under
way. A message is known by the row number the window gave it, and `Show`
renumbers rows: this is the mechanism most properties are about. Two history
variables name the turns for which the code has no protection: a turn `strayed`
when the rows of another chat were put under it (its tokens then land on
whatever row has the number), and was `reloaded` when its own chat was loaded in
mid-turn (its saved message and its live copy then both show). The properties
hold for all other turns, for the text of such turns they claim nothing.

### Vault
A body is a set of links and texts. A link is the title it names, or that title with
space around it (`Spaced`): the parser of links trims it (`TitlesIn`), so that both
name the same note. Every operation looks the note up, writes the
body, then replays its links: make missing notes (`EnsureNext`, `Stub`), resolve the
titles (`Resolve`), compare with the stored edges (`Diff`), drop, relate (`Link`).
Window commands ensure the titles a second time at their end, tools do not.
`rename` changes the title and then, in one UPDATE, the links of all bodies that have
it to the letter (`Relinked`); `strayed` collects the notes in which it missed a spaced
one, until their next write. `delete` removes edges, then the row. The embedding loop
reads what is pending, builds documents (a body whose byte 4000 lies inside a character
panics and ends the task until the next start), and writes vectors one by one. A vector
is the document it was made of, title and body, so that one of an old text shows;
`missed` collects the notes whose text changed where `embedded_at < updated_at` cannot
tell: after the query of the round and before its UPDATE, or by the rename of another
note. A note leaves `missed` with the first vector of its present text.

### NoteEditor
There are two places for a pane, the page of a tab and the side panel (`Places`). `shown`
is the note of the active tab and `inspectorTitle`; which panes there are and what each
has as its title follows from both (`Show`), for every way in which tabs and panel
change (`Go`, renames, deletions): the panel goes when its note is on top, and both
panes have the note of the tab when there is one, so that both may have the same. Which
tab comes next is left open. `pane[s]` holds the signals of the `InspectorPane` there and
the buffer of the editor in it, which is filled once, when it is mounted; `panes` numbers
the mounts, since an answer reaches only the pane that asked. A change of title clears the timer and
asks for
the note (`Retitled`, `Loaded`); typing sets the timer (`Type`, `Timer`); a save asks
for the note again when it is done, and both answers count only while no newer save
was begun (`Flush`, `AfterSave`, `Reloaded`). `Ghost`, `Rename`, `Delete` and
`AgentAppends` are what else happens to notes. A call is under way until `Run`, its
answer until `Answer`; both come in any order, and any call may fail. A text is the
note it was written in and a version, so that a text in the wrong note shows. `excuse`
collects the orders of steps nothing in the pane guards against, by name; the
user rests once there is one, and panes and commands rest once there is one of those
`OwnText` excepts (`Mixed`), which bounds the state space and hides nothing the
properties claim. One of them is typing while there are two panes ("two panes"): `OwnText`
holds all the same, `EditsGetThrough` does not. `InHand` is what could still be written
under a title, or be shown as its text: the draft of a pane, a save under way, an answer
that has not arrived.

### Threading
`Fetch` takes a batch in any order; `WireAncestor` and `WireMessage` set one link each,
unless the ID has a parent or `CreatesCycle`; `Store` gives every message of the batch
the root above it. `Up` is the smallest set closed under parents, which stands for the
climbs of the code and terminates whatever the links are. `truth` is the forest of
real answers the headers stem from; the code does not see it.

### Shadows
`inbox` counts messages of a thread, `row` is its `email_thread`. A task aggregates
(`Aggregate`), then looks up and writes row after row (`Find`, `Write`); `Collect` is
the backfill of a start. `Pick`, `Read`, `Embed`, `StoreEmbedding`, `Sleep` are
`step_email_threads` with its LIMIT. `raced` names threads whose messages changed
while a count was on its way.

### Registry
A handler that runs several statements is a list of them (`Stmt`, `Then`); each is one
action, two handlers interleave between any two, and a crash drops them all. The
start is `Backfill`, `Seed*`, `Migrate`, `CopyLink`, `RemoveLinks`, `MarkMigrated`.
A SELECT of the links that fails reads as none, a CREATE that fails is passed over, and
the table is removed all the same; `uncopied` collects the links this concerns, until a
later start copies them. The window acts on its own lists, which an event makes it ask
for again. `loose`, `misfiled`, `late` and `overlapped` name the references and rows that
a race or a stale list has spoiled; the properties hold for all others. `Orphans` counts
every row whose owner is gone; `Undeleted` names the two kinds that no statement of a
deletion is about, folders of a workspace and edges of a chat.

### Terminal
`tabs`, `sess`, `saved`, `active` are App.tsx; `host` is the frame and the retry timer of
a pane's component; `calls` and `answers` are in the IPC; `latest`, `closed`,
`visible` are the native side. Every render of a pane takes a new generation; a show of an
older one is stale. `Overtake` lets one call be carried out after later ones.

### Prompt
`Send` takes the window's history (`BuildPromptHistory`), `Prepare` picks the speaker
and adds persona, tool docs, vault notes and clock, `Ask` coerces
(`NormalizeRoleAlternation`) and `Answer`, `Call`, `Again` run the loop. `Offered`,
`FromFunctionCall` and `Passes` are the three tables; `surface` is the snapshot of
capabilities of the turn, `granted` what the speaker had, `astray` collects calls
whose effect or refusal does not fit.

## 3. Runs

| Run | Result | Bounds and why they are enough |
|---|---|---|
| `outbox` | holds | two messages, two attempts, batch of one, three instants, one fault: with two rows due and LIMIT 1 one is left out of the snapshot, behind one that may be put back again and again; two attempts give one retry and one refusal to retry |
| `mail_sync` | holds | two syncs, alike (the flag refresh of the window, which makes no rows, is in `mail_sync_live`), four UIDs of which one is there at the start, a newer fetch of two, the others of one, one event of the user, another client, a fault or a crash: with three new messages the cap of two binds, and a batch of two can be cut between its rows |
| `mail_sync_live` | holds | two UIDs, for the size of the liveness graph; a refresh cap of one, so that with both stored one row is beyond it, and a fetch cap of two |
| `accounts` | holds | two sign-ins of one address, one removal, one caller, one fault: all pairs of writers of a row and its tokens |
| `chat` | holds | two turns, two chats (one empty, one with a message), two chat switches, two iterations, two calls per answer, one failure: a load can start before, during and after a turn, and one can overtake another |
| `vault` | holds | a window task and a tool task, three titles, a link in either spelling, a text, one that makes the loop panic, two notes, two operations: a save and a rename, or two saves, in turn or at any interleaving, the rounds of the loop between any two steps |
| `note_editor` | holds | two panes, two notes and a free title, two edits, two moves, one event (ghost page, rename, deletion, an agent, a failed command), four of these in all: one move leaves a call of the note before behind, a second one comes back, or puts the note of the page beside it; two edits give a second save and an undo |
| `threads` | holds | every forest of four IDs, three messages with full, shortened or missing References, or headers that contradict each other, in every order and every split into two batches |
| `shadows` | holds | two threads, a sync, the backfill, one promoter, LIMIT 1, one arrival, one removal, two promotions, one crash: LIMIT 1 of two threads is the least head that can starve a tail |
| `registry` | holds | two of each id but folders, two handlers at once, two calls, two switches of workspace, one crash, one old link, whose SELECT or CREATE may fail at every start: two handlers are the least that overlap, two workspaces the least for "keep one" |
| `terminal` | holds | two panes, two workspaces, two actions on tabs, one bump, failure, reload and overtaken call |
| `prompt` | holds | two agents in a room, two turns, all tools and an unknown one, two calls per answer, two iterations, a history of two messages and three units, one edit, one restart |

Where a run disables the deadlock check the user may be out of actions: the
bounded supply of calls, turns or sign-ins is used up and the system rests.

### What the holding runs show
- `outbox`: no hand-off before the undo window and the schedule end
  (`NeverEarly`), not one more than the budget although attempts are counted after
  the hand-off (`AttemptBudget`), 'sent' only of accepted mail, settled rows rest
  although a stale snapshot lists them (`SettledRowsRest`), every queued row is
  settled unless a fault strands it, although one row fills the batch
  (`QueueDrains`), and all of it implements
  `OutboxAbs` (`KeepsPromise`).
- `mail_sync`: no gap opens between stored messages that is not the work of the
  user, a cap or an error (`NoGap`), and a row has a torn file only while a second
  writer is at it or was cut off (`TornOnlyWhileRewritten`). `mail_sync_live`:
  the mirror catches up (`CatchesUp`) and the list shows the server's flags of the
  newest rows, as many as the refresh takes, in the end (`FlagsSettle`).
- `accounts`: no row without tokens (`NoDanglingRow`), no tokens without an owner
  but for named causes (`OrphansKnown`), a supervisor for every account
  (`EveryAccountWatched`).
- `chat`: `OwnWords`, `ShownOnce`, `SpinnerEnds`, `LockedByTurn` (the window),
  `EveryCallAnswered`, `StopHolds` (the loop).
- `vault`: undisturbed operations leave the edges of every note equal to its links
  (`EdgesFollowBodies`), but where a rename missed a spaced one, and no edge at a
  deleted note (`EdgesHaveEnds`); in the end every vector is of the present title and body
  of its note, unless a body makes the loop panic or the note is in `missed`
  (`EmbeddingsCatchUp`).
- `note_editor`: the text of one note never ends up in another (`OwnText`), and what is
  in a pane is stored in the end or that pane says that a save failed
  (`EditsGetThrough`), but for the orders in `excuse`, typing beside a second pane among
  them.
- `threads`: links never loop (`NoLoop`), a batch's links depend on the set of its
  messages only, where headers agree (`OrderIndependent`), and a thread is one
  conversation, over all batches (`ThreadsAreConversations`).
- `shadows`: at rest every thread with mail has its row and its count
  (`ShadowsFollow`); a promoted thread is embedded unless the head of the queue is
  stuck (`NoneStarves`).
- `registry`: references are live (`ReferencesLive`), of what deletions cut anywhere
  leave behind all is folders, edges of chats or written late (`NothingLeft`), one
  workspace stays (`OneStays`), a start can seed after any cut
  (`SeedFits`), a speaker belongs to the workspace (`SpeakersAreMembers`), no old link
  goes before its edge is there, unless a query of the migration failed (`LinksKept`),
  each but for the races it names.
- `terminal`: `ClosedStayClosed`, `NothingLeftOver`, `StartingEnds`.
- `prompt`: every request is whole (`RequestsAreWhole`), every call gets what its
  speaker was granted (`ToolsFollowCapabilities`).

### Seen while modelling
Places where the code does less than one would think. The models contain all of
them; the properties above except them by name, so that they hold for the rest.

Mail:
- a crash or lost write in 'sending' leaves the row there for ever (outbox.rs:224);
- undo during the backoff of a row whose reply was lost answers true for delivered
  mail (outbox.rs:150 says otherwise);
- the five attempts of the outbox span 336 seconds by the backoff table; the comment
  at outbox.rs:40-44 speaks of about 30 minutes;
- two syncs share `<uid>.tmp`; a row can stand beside an empty file (store.rs:56);
- mail beyond INCREMENTAL_FETCH_CAP is never fetched: the newest part is stored and
  moves MAX(uid) (sync.rs:228), while the comment at sync.rs:34-37 says "Anything
  beyond gets fetched on the next tick";
- flags are refreshed for the newest rows only (sync.rs:287, 398): a change of the flags
  of an older row, by any other client, never arrives;
- messages another client archived keep their rows (sync.rs:270-272 lists archiving
  among what propagates);
- a token refresh that overlaps a removal stores the tokens again, and nothing
  deletes them (oauth.rs:194);
- deletion of a message updates no thread row until the next upsert; a promoted
  thread can be bound to a workspace that is gone.

Vault, notes:
- operations that overlap leave bodies and edges apart for good (a rename between
  the write of a body and its replay, db.rs:977);
- a rename of Foo replaces `[[Foo]]` to the letter (db.rs:974-979), while the parser of
  links trims (db.rs:845): `[[ Foo ]]` keeps the old title, and its edge until the body
  is written again, when the link gets a stub of the old title;
- a body whose byte 4000 lies inside a character ends the embedding loop, at every
  start again (embed.rs:85);
- an embedding is stamped after the model ran (embed.rs:289), so an edit during the run
  counts as embedded and keeps the vector of the old text until the next edit; a rename
  changes other bodies without updated_at. The comment at embed.rs:8-11 calls the index
  eventually consistent;
- two panes can show one note: the side panel is hidden when its own note has a tab, but
  takes the title of the active tab (App.tsx:5469, 1723). If a tab of another note comes to
  the top (a note tab goes to the side with a note tab next to it, App.tsx:2245), the
  panel mirrors it, which the comment at App.tsx:5455-5458 rules out. What is typed in
  one is written over by the next save of the other, and both say "saved";
- a change of note or an unmount drops what was typed within the debounce (the timer
  is cleared, nothing is flushed: InspectorPane.tsx:180, 214);
- an answer of `inspect_note` that comes late is shown under another title, and the
  next save writes it there (InspectorPane.tsx:195);
- undo to the text saved last, while a save is under way, stops nothing: the store
  keeps the newer text and the pane says "saved" (InspectorPane.tsx:247);
- a save to a title that was renamed or deleted meanwhile is "saved" (db.rs:748); one
  whose title was given to another note meanwhile (two renames) is written there;
- a reload of an earlier note makes a ghost page look editable; a toggle during a
  load saves the old draft under the new title; the next autosave overwrites what an
  agent has appended;
- `<Show when={editorKey() >= 0} keyed>` never remounts, since its value stays true;
  the comment above it (InspectorPane.tsx:561-563) says it does.

Chats, agents, workspaces:
- the default agent is remembered over its deletion and bound to new chats
  (App.tsx:3070), though delete_agent unbinds chats so that nothing dangles;
- capabilities the user takes from a seeded agent come back at the next start
  (db.rs:475-528); so does a default workspace that was deleted;
- migrated links carry no workspace, and so survive `delete_workspace`;
- the migration drops the error of a CREATE and takes a SELECT that failed for an empty
  table (db.rs:400-419), then removes the table (db.rs:423): such links are lost;
- `delete_workspace` leaves the folders of the workspace (db.rs:1803-1811), though its doc
  says it cascades everything it owns (db.rs:1789); `delete_chat` leaves the edges that
  `save_message` made from the chat (db.rs:618-624, 553-574) until the workspace goes;
- the request for closing prose at the iteration cap (lib.rs:492-500) is added after
  the last request to the model;
- a write of a tool that fails is acknowledged with ok:true (tools.rs:1003); a turn
  ends without a word when all its calls are rejected;
- tool answers of earlier turns are left out of the history, so that the question
  they belong to is joined to the next one;
- the schema of `delete_event` requires nothing, its parser an id or a title; the
  fence parser knows no `read_thread`.

Terminals:
- a terminal that is on the stage only because no tab is active (after a restore, when
  a chat was active) is never shown: its pane waits with "starting terminal..." until
  its tab is clicked (App.tsx:1707);
- a retry timer of an older generation can replace a newer frame, whose show is then
  never sent (NativeTerminalHost.tsx:48).

## 4. Fairness
- `Outbox`: weak fairness of the supervisor (the runtime polls it, SMTP has a
  timeout), of the clock and of a restart. None for the user or for faults.
- `MailSync`: a sync and a flag refresh are begun again and again (the supervisor's
  cycle and the 30 s poll of `MailApp.tsx`), strong because a call in progress
  disables the next one; steps of a call are weakly fair (IMAP calls end).
  Nothing for commands, arrivals or other clients.
- `Vault`: steps of an operation, rounds of the loop and the restart of the
  application are weakly fair; the UPDATE of one note's vector is strongly fair: a
  round may fail any number of times, but not the same note for ever.
- `NoteEditor`: timers fire, commands end, answers arrive (each weakly fair, any of
  the calls under way may be the next). The user owes nothing.
- `Shadows`: the loop never stops (`Pick`, `Read`, `StoreEmbedding` weakly fair), and the model
  is there in the end (`Embed` strongly fair: it may fail any number of times).
  Nothing for syncs and promotions.
- `Terminal`: frames, timers, calls, answers and the end of a start come (weakly fair).
- `Accounts`, `ChatTurn`, `Threading`, `Registry` and `Prompt`: safety only.

## 5. Proofs
`OutboxProofs` proves for every set of messages, number of attempts, batch size,
window, schedule, clock and number of faults, from `OutboxAssumption` alone:

| Theorem | Statement |
|---|---|
| `TypeCorrect` | `Spec => []TypeOK` |
| `OutboxSafety` | `Spec => [](NeverEarly /\ AttemptBudget /\ SentWasAccepted)`, whose parts `UndoWindowKept` and `SentOnlyIfAccepted` state by themselves |
| `SettledRest` | `Spec => SettledRowsRest` |
| `Refinement` | `Spec => KeepsPromise`, the refinement of `OutboxAbs` |

The three safety invariants are not inductive: that a hand-off is not early
depends on what the snapshot saw, and the budget on where the row is. `OutboxInv`
adds: for every row, how `tries`, `attempts` and `state` go together (`RowInv`);
rows the snapshot still lists had their window and schedule behind them at
`now <= clock` (`SnapshotInv`); the row in flight is 'sending' and its counters match its stage
(`FlightInv`). `InvStep` shows it step by step, with one lemma for the three
writes that end a row's turn (`InvTurnEnds`). `OneRowMoves` then describes every
step as a move of at most one row; `SettledRest` and `Refinement` both follow
from it.

`AccountsProofs` proves for every set of addresses, sign-ins, removals and callers
and every number of faults, from `AccountsAssumption` alone:

| Theorem | Statement |
|---|---|
| `TypeCorrect` | `Spec => []TypeOK` |
| `RowsHaveTokens` | `Spec => []NoDanglingRow` |
| `LeftoversKnown` | `Spec => []OrphansKnown` |
| `AccountsAreWatched` | `Spec => []EveryAccountWatched` |

`TypeOK` needs `Shapes`: what a stage says of the locals (a stored sign-in has a
kref, a removal drops only a kref it read). `NoDanglingRow` alone does not say why a
deletion cannot hit a live row; `Ownership` does. A sign-in between
`keychain::store` and its row write is alone with its kref (`Unshared`), no row has a
kref that a spawned deletion or a removal past its DELETE holds, and a removal
before its DELETE can hold the kref only of the account it removes
(`DoomedNotOwned`); two rows never share one (`RowsDiffer`). `OrphansKnown` lets any
sign-in or removal explain an item, which is too weak to carry over the step that
ends it; `Accounted` counts only those that will still turn to the item. Each of the
three is kept step by step, with one lemma for the steps that change nothing
it speaks of (`OwnershipKept`, `AccountedKept`).

`Watched` is about counting. Each supervisor has its slot, and there are as many slots as
sign-ins may ever be begun, so that the theorem must show that none is refused one for
want of a slot: `Room` counts the krefs handed out and the sign-ins that may still
take one, `Filling` says that slots fill from the first and, until the start has listed
the accounts, no more are filled than sign-ins have come through. `Placement` then
finds the accounts of a start their slots.

`ThreadingProofs` proves for every folder, every set of Message-IDs and every number
of batches, from `ThreadingAssumption` alone:

| Theorem | Statement |
|---|---|
| `TypeCorrect` | `Spec => []TypeOK` |
| `LinksNeverLoop` | `Spec => []NoLoop` |
| `OrderDoesNotMatter` | `Spec => []OrderIndependent` |
| `ConversationsHold` | `Spec => []ThreadsAreConversations` |

`UpLeast` says what the climb reaches without induction: whatever holds of an ID and
goes from a child to its parent holds of all above. `LinkKeepsLoopless` follows: a
link from an ID to one that is not below it closes no loop; `CreatesCycle` is that
test. For the order, `Inv2` says that all links set so far are true ones, told by the
part of the batch already read (`AsTold`); since the truth has no loop either, the
guard refuses no true link (`TrueLink`), so that each step adds exactly what its
message tells (`WireAncestorTold`, `WireMessageTold`).

A thread is the top of a climb, so `ConversationsHold` is about a recursive function: `PathLeadsUp`
and `RootIsTop` show, by the well-founded order on the IDs not yet seen, that `FindRoot` ends at an
ID above the message that has no parent, and `OneTop` that there is one such ID. When a batch is
stored its links are all true and have all that its messages tell; `TrueRoot` says that a message
then gets a true ancestor as its thread, and the start of the conversation if it tells the whole
way. `Ids` must be finite for that: over infinitely many the climb might not end.

`PromptProofs` proves for every set of agents, capabilities, lengths and bounds, from
`PromptAssumption` alone:

| Theorem | Statement |
|---|---|
| `RequestsStayWhole` | `Spec => []RequestsAreWhole` |
| `NormalizeFresh`, `NormalizeWhole` | what `normalize_role_alternation` makes of a new prompt; that it leaves a whole one alone |
| `ToolsSafety` | `Spec => []ToolsFollowCapabilities` |
| `GateWithinOffer`, `OfferWithinGate`, `ParserWithinSchema` | the three tables agree |

The tables are finite and compared case by case; the invariant `GateInv` carries from
the snapshot of the turn to each call that what passes is granted.

For the requests, `Talk` says what the messages are at each stage: before the first
request they are a system message and then the history (`Fresh`), of which
only its end is known, the user's text (`Sent`: rows of failed, stopped and lost turns may
come in any order before it); in every later one they are `Whole`. In between, `Pending`
says which call of the last answer has its result. `NormalizeFresh` is the core: the walk
is a recursive function, and `Alternates` with the user's words read so far is kept by
each of its steps (`WalkAlternates`, `WalkWords`). As no induction rule can be
cited, `UpTo` takes the place of one: a property of numbers is passed as the set
of numbers that have it, and the least number outside gives the contradiction;
`Recursion` proves that the recursive functions of the model exist and do what their
bodies say.

`ChatTurnProofs` proves for any number of chats, turns, iterations, calls, loads and
faults, from `ChatTurnAssumption` alone:

| Theorem | Statement |
|---|---|
| `WordsStayApart` | `Spec => []OwnWords` |
| `MessagesShowOnce` | `Spec => []ShownOnce` |
| `SpinnersEnd` | `Spec => []SpinnerEnds` |
| `LockFollowsTurn` | `Spec => []LockedByTurn` |
| `CallsAreAnswered` | `Spec => []EveryCallAnswered` |
| `StopsHold` | `Spec => StopHolds` |

`Inv` says what the loop owes at each stage (`Owed`), that the lock stands for exactly one
turn under way (`Locked`), and that only turns that have begun to stream are in the registry or
cancelled (`Registered`). Most steps are one turn going from some stage to another;
`Moves` describes that, and `MovesKeepShape`, `GoesOn` and `Ends` settle the invariant for
all of them. `StopHolds` follows from `Registered`: the steps that dispatch before the
token is looked at belong to turns not yet registered.

What the window shows rests on `Screen`. `Copies`: a live copy is of a turn of its chat that
goes on or has failed, and there is one of each message. `Spin`: what streams belongs to the
turn under way and has its number. `Single`: the database, the answers of `list_messages` and
the window hold a message once. `Numbers`: what has the number of a turn that did not stray
is that turn's own, in the window, in its live copies, and by position in the database and
in an answer on its way, since `Show` numbers rows by position. The attempt showed that
`OwnWords` was false beyond the bounds of the run: after a late answer of another chat has
renumbered from 0, a new turn could take a number that the live copy of a failed turn
still has, and its tokens would go to that copy. `OnScreen` now counts such a turn as
strayed, so that the property says for which turns it holds.

`MailSyncProofs` proves for any number of concurrent syncs, UIDs, caps and faults, from
`MailSyncAssumption` alone:

| Theorem | Statement |
|---|---|
| `FilesAreWhole` | `Spec => []TornOnlyWhileRewritten` |
| `NoGapOpens` | `Spec => []NoGap` |

The first property is about the final file, the race about `<uid>.tmp`: `HalfTmp` and `HalfFile`
say of each place that what is truncated there is still held open there, or its writer was cut
off, `Open` that a file held open exists, and `FileFirst` that a row has its file. A
`rename` moves what others hold open along, from the first place to the second
(`RenameKeeps`).

`NoGap` speaks of the rows there are; what must be kept is that any set of calls in
progress may stop here, and the rest still closes every gap (`AllClosed`, quantified over
the sets of calls that stop). It rests on `Edges` (the row a call
started from is there, or the user took it away), on `InOrder` (what a call that can be
resumed still has to store is all that is missing between its edge and its last
message) and on `Taken`. The attempt found two more orders in which a gap opens,
both beyond the bounds of the run: the user deletes the row an "older" call started
from, a first fetch begins anew above, and its cap cuts between the two; or the user
deletes the row a "newer" call started from, and a crash cuts the call. The history
variable `leftOut` now counts what those leave out, as it did for the other deeds of the user.

`RegistryProofs` proves for every set of ids, number of handlers, calls and crashes,
from `RegistryAssumption` alone:

| Theorem | Statement |
|---|---|
| `TypeCorrect` | `Spec => []TypeOK` |
| `NoDangling` | `Spec => []ReferencesLive` |
| `NoOrphans` | `Spec => []NothingLeft` |
| `StartCanSeed` | `Spec => []SeedFits` |
| `MembersSpeak` | `Spec => []SpeakersAreMembers` |
| `NoLinkLost` | `Spec => LinksKept` |
| `LastWorkspaceStays` | `Spec => []OneStays` |

For `LinksKept`, nothing runs before the start is over (`Alone`), and each old row is still to be
copied, has its edge, or is `uncopied` (`Copied`).
For `OneStays`, while no two deletions overlapped at
most one workspace is about to go and another is there (`OneByOne`); `SplicedFewer` and `Replace`
say that a handler that works off its statements adds no deletion, so that only
`CountKeeps` and `DelRowsKeeps` are about workspaces.

The other five share one invariant, `RegistryInv`. `Cascading` gives the order of the statements of
a deletion (children before the parent: `Ordered`), `UsedOnce` that an id is given out once, `Owned`
that every row has its owner, and each deletion under way of the owner one of the row before it, or
the row is `late` (what is `Undeleted` apart), `SeedInv` what each step of the start has already put
in place, `Referring` that a reference to something gone is one a race has spoiled (`loose`,
`misfiled`, `late`), and `Coherent` what the window's lists and the choices it has sent still say of
the tables. Handlers are treated alike: `Moves` describes what any of them may do to the tables, and
each part of the invariant is shown for `Moves` once. The attempt showed that `DeleteFolder` lacked
the guard that a workspace is shown, without which the window has no list to ask for again.

`TerminalProofs` proves for any number of panes, workspaces, actions, failed frames,
reloads and overtaken calls, from `TerminalAssumption` alone:

| Theorem | Statement |
|---|---|
| `NothingStays` | `Spec => []NothingLeftOver` |
| `ClosedForGood` | `Spec => []ClosedStayClosed` |
| `ClosedGrows` | nothing reopens a tab, a reload included |

The last two are about the native side alone, for any calls in any order.
`NothingLeftOver` speaks of the moment when nothing is on its way; `TerminalInv` says what
must hold until then. A pane is `Wanted` (on the stage of the active terminal) or `Gone`: if it is
visible, a call that hides or closes it is on its way, and each of its shows and its
frame is `Fenced`, stale when it comes or with such a call behind it, or with a newer
generation that raises the fence first. With no terminal on the stage there is more (`Bare`): a
`hide_all` of the window's own generation is on its way, newer than every show, so that not
even panes that were overtaken stay. Between a reload and the return of the tabs nobody
is on the stage; then `Starts` says that what is visible is what was saved as active.
Every handler ends in a render. `Fits` is what a render must be given: a stage
that changes, or stops being active, gets a new generation. `RenderGone`, `RenderBare` and
`RenderKeeps` use it once for all handlers. `Overtake` is a new place for each call
(`OvertakeIs`), which keeps the order of the calls of every pane that is not `overtook`.

Theorems about `Shadows`, `Vault` and `NoteEditor`, each from the module's own assumption
alone, for every value of its constants and bounds:

| Theorem | Module | Statement |
|---|---|---|
| `RowsFollowMail` | `ThreadingProofs` | `ShadowsSpec => []ShadowsFollow` |
| `EdgesEnd` | `RegistryProofs` | `VaultSpec => []EdgesHaveEnds` |
| `EdgesAreLinks` | `RegistryProofs` | `VaultSpec => []EdgesFollowBodies` |
| `TextsStay` | `OutboxProofs` | `EditorSpec => []OwnText` |

`ShadowsFollow` speaks of the moment when no task is at work. `ShadowsInv` says what holds until
then: a thread with mail has its row or is still to be written by some task (`Reached`); a row that
no task will write again has the right count or its thread is `raced` (`Followed`); so have the
counts a task carries (`CountsHold`) and the row another task has created between its SELECT and its
CREATE, which it then leaves as it is (`OthersRow`).

For `Vault` both properties speak of undisturbed runs, and the invariant is `VaultInv`: as long as
no operation met another one, `Sequential` holds. One operation at most runs; `AtStage` says of each
of its stages which links are resolved, which edges are still to go and which to come, and, while no
note was ever deleted (`Whole`), that all notes but the one it works on and those in `strayed` are
`Settled`: their edges are the notes their links find (`TitlesIn`, spaced or not), and every link
finds one. The hard steps are those that change what a title finds. A note that is made has a title
that found none, so that no settled body links to it; between its two UPDATEs a rename leaves bodies
with links that find nothing, and `Renamed` says that they fit as `Relinked` will make them, or have
a spaced link and are `strayed` after the second.

For `NoteEditor` the invariant `EditorInv` follows each text: the draft of either pane fits the
title it came from (`DraftFits`), a save the title it goes to, an answer the title it was asked for
(`CallFits`), where a text fits a title if the note with that title, should there be one, is its
own. That answers belong to the title on screen is a matter of counting: loads of one mount have
different numbers up to its count (`Counted`), and the pane waits, with its timer stopped, as long
as its last load is under way (`Awaited`); a load that is answered with that number finds no timer
set for the note before. `Stands` is the three together, of one place. An answer changes the pane of
its own place only (`OnePaneKeeps`), a change of tabs or panel each of the two in the same way
(`ShowKeeps`), so that two panes of one note need no case of their own: the text of each fits the
note. No draft is saved where none was loaded: only a late reload makes a pane without a note look
as if it had one. The attempt showed that `OwnText` was false beyond the one event of the run. A
note is renamed, its old title is given to another note, and the draft of the first, still in a pane
or in a save under way, is written under that title. `excuse` named this only for a save under way
("title taken" now counts whenever a text of the old note is `InHand`), and a filled ghost page only
when its editor is open ("old buffer" now counts a timer that is still set, too). The run has one
event, so that "title taken" does not occur in it; the theorem is for any number.

Only model-checked:

| Property | Why |
|---|---|
| `QueueDrains`, the liveness of `MailSync`, `Vault`, `Shadows`, `Terminal` and `NoteEditor` | liveness under fairness, which needs ENABLED |

Set expressions such as `(SUBSET S) \ {{}}` are written with their parentheses: TLC and the prover
read them differently without. TLC has checked the inductive invariants on the instances of their
modules' runs (with unbounded quantifiers cut to the instance) before or beside their first proofs;
what was added to them later is proved only. No module uses RECURSIVE operators. Where a module
folded or filtered a sequence it does so by a recursive function now (`Only`, `Without`, `Concat`,
`Walked`), whose steps the proofs can reach. What a recursive definition computes is proved where
the invariants need it, by the least number at which it would fail.

## 6. Plan
Done: `Outbox`, `OutboxAbs`, `MailSync`, `Accounts`, `ChatTurn`, `Vault`, `Threading`,
`Shadows`, `Registry`, `Terminal`, `Prompt`, `NoteEditor`, and the proofs of section 5: every
invariant and action property that a run checks is a theorem.
To come, in this order:
1. `MailSync`: LIST and the folder table, UIDVALIDITY.
2. `Vault`: `relate_notes`, process exit in the middle of a replay.
3. `MailWindow`: selection, optimistic rows, drafts, undo toast, against `MailSync` and
   `Outbox`.

## 7. Not modelled, and why
- Content: headers, bodies, prompts, model output, HTML, ranking of search
  results and layout of graphs. No state of the program depends on more of them
  than the models keep.
- `MailSync` takes the folder as given: LIST, `account_state` (written, never read)
  and a change of UIDVALIDITY are left out.
- Failures of single vault queries other than a refused CREATE, and an exit in the
  middle of a vault operation.
- `Registry`: names, prompts, colours; column migrations of mail.db. `Terminal`:
  snapshots, git information, titles, focus. `NoteEditor`: backlinks and history.
- The mail window beyond its poll, undo and commands: its selection and drafts are
  local to one component and lose nothing stored.
- Search, graph queries, parsing, sanitising, autoconfig, rendering: read-only or
  pure. EventKit helper, Mail.app bridge, seeding, scripts, site: one-shot or
  outside. Vendored headers, themes, icons: third-party data.
