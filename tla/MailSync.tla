------------------------------ MODULE MailSync ------------------------------
(***************************************************************************)
(* One folder of one mail account, kept on the server and mirrored in      *)
(* mail.db and in .eml files (src/src-tauri/src/mail/sync.rs, store.rs and *)
(* the message commands of commands.rs).                                   *)
(*                                                                         *)
(* Several sync_folder calls run at once: the IDLE supervisor, the 30 s    *)
(* poll of the window and "load older" share no lock. Every closure given  *)
(* to with_conn is one step, every IMAP command is one step, every file    *)
(* system call of write_atomic is one step; between two of them any other  *)
(* task, the user, the server and a crash may act.                         *)
(*                                                                         *)
(* Abstracted: a message is its UID and the \Seen flag; headers, bodies    *)
(* and threading are left out, and so are LIST and the folder table (the   *)
(* folder exists throughout and its UIDVALIDITY does not change).          *)
(***************************************************************************)
EXTENDS Integers, FiniteSets, FiniteSetsExt

CONSTANTS
  Syncs,       \* those who call sync_folder: the supervisor, the window
  Polls,       \* those who call refresh_flags_only: the window
  Cmds,        \* concurrent calls of the set_flag, move and delete commands
  Initial,     \* INITIAL_FETCH_COUNT
  NewerCap,    \* INCREMENTAL_FETCH_CAP
  OlderCap,    \* page of "load older", at most OLDER_PAGE_CAP
  RefreshCap,  \* LIMIT of the queries that list the rows to refresh
  StartUid,    \* messages on the server when the application starts
  MaxUid,      \* bound: UIDs the server hands out
  MaxEvents    \* bound: user commands, acts of other clients, faults, in all

ASSUME MailSyncAssumption ==
  /\ {Initial, NewerCap, OlderCap, RefreshCap} \subseteq Nat \ {0}
  /\ {StartUid, MaxUid, MaxEvents} \subseteq Nat
  /\ StartUid <= MaxUid

VARIABLES
  \* the server
  lastUid,     \* highest UID handed out
  inbox,       \* UIDs in the folder
  seen,        \* those with \Seen
  \* mail.db: the message table and the two spellings of the flag in flags_json
  rows,        \* UIDs with a row
  markSeen,    \* rows whose flags_json holds "Seen", as FETCH spells it
  markToken,   \* rows whose flags_json holds "\Seen", as set_flag spells it
  \* the mail directory
  tmp, file,   \* content of <uid>.tmp and <uid>.eml
  \* sync_folder and refresh_flags_only, one record of locals per task
  pc, mode,
  edge,        \* prior_max or prior_min, 0 for None
  batch,       \* to_fetch, then the fetched messages not yet persisted
  batchSeen,   \* those fetched with \Seen
  ask,         \* to_refresh, then flags_pairs
  askSeen,     \* those answered with \Seen
  handle,      \* where the open <uid>.tmp lives by now
  \* message commands
  cmd,
  events,      \* how much of MaxEvents is used
  \* history
  removed,     \* UIDs the user asked to move or delete
  leftOut,     \* UIDs beyond a cap, or given up after an error
  torn         \* UIDs whose writer stopped between truncating and writing

server == <<lastUid, inbox, seen>>
table  == <<rows, markSeen, markToken>>
disk   == <<tmp, file>>
tasks  == <<pc, mode, edge, batch, batchSeen, ask, askSeen, handle>>
hist   == <<removed, leftOut, torn>>
vars   == <<server, table, disk, tasks, cmd, events, hist>>

Tasks == Syncs \cup Polls
Uids  == 1..MaxUid
NoCmd == [pc |-> "idle", op |-> "none", uid |-> 0]

Newest(S, n) == {u \in S : Cardinality({v \in S : v > u}) < n}

(* The list reads: a row is unread when flags_json holds no spelling.      *)
Unread(u) == u \notin markSeen \cup markToken

-----------------------------------------------------------------------------
Init ==
  /\ lastUid = StartUid /\ inbox = 1..StartUid /\ seen \in SUBSET inbox
  /\ rows = {} /\ markSeen = {} /\ markToken = {}
  /\ tmp  = [u \in Uids |-> "none"]
  /\ file = [u \in Uids |-> "none"]
  /\ pc = [t \in Tasks |-> "idle"]
  /\ mode = [t \in Tasks |-> "newer"]
  /\ edge = [t \in Tasks |-> 0]
  /\ batch   = [t \in Tasks |-> {}] /\ batchSeen = [t \in Tasks |-> {}]
  /\ ask     = [t \in Tasks |-> {}] /\ askSeen   = [t \in Tasks |-> {}]
  /\ handle  = [t \in Tasks |-> "none"]
  /\ cmd = [c \in Cmds |-> NoCmd]
  /\ events = 0
  /\ removed = {} /\ leftOut = {} /\ torn = {}

Event == events < MaxEvents /\ events' = events + 1

-----------------------------------------------------------------------------
(* sync_folder: connect, choose the UIDs, fetch the messages.              *)

(* Task t returns: its locals are gone.                                    *)
Return(t) ==
  /\ pc' = [pc EXCEPT ![t] = "idle"]
  /\ mode' = [mode EXCEPT ![t] = "newer"]
  /\ edge' = [edge EXCEPT ![t] = 0]
  /\ batch'   = [batch EXCEPT ![t] = {}] /\ batchSeen' = [batchSeen EXCEPT ![t] = {}]
  /\ ask'     = [ask EXCEPT ![t] = {}]   /\ askSeen'   = [askSeen EXCEPT ![t] = {}]
  /\ handle'  = [handle EXCEPT ![t] = "none"]

(* A call of sync_folder up to SELECT MIN(uid), MAX(uid), before which it   *)
(* changes nothing modelled here.                                           *)
ReadEdge(t, m) ==
  /\ pc[t] = "idle"
  /\ pc' = [pc EXCEPT ![t] = "search"]
  /\ mode' = [mode EXCEPT ![t] = m]
  /\ edge' = [edge EXCEPT ![t] = IF rows = {} THEN 0
                                ELSE IF m = "older" THEN Min(rows) ELSE Max(rows)]
  /\ UNCHANGED <<server, table, disk, batch, batchSeen, ask, askSeen, handle, cmd, hist>>

(* The supervisor or the poll of the window asks for new mail.             *)
BeginNewer(t) == ReadEdge(t, "newer") /\ UNCHANGED events

(* The user asks for older mail (mail_load_older).                         *)
BeginOlder(t) == ReadEdge(t, "older") /\ Event

(* The query fails and the call goes on without a bound.                   *)
BeginBlind(t, m) ==
  /\ pc[t] = "idle"
  /\ Event
  /\ pc' = [pc EXCEPT ![t] = "search"]
  /\ mode' = [mode EXCEPT ![t] = m]
  /\ UNCHANGED <<server, table, disk, edge, batch, batchSeen, ask, askSeen,
                 handle, cmd, hist>>

(* mutant: strictly above the UID that follows MAX(uid) *)
Beyond_OffByOne(t) ==
  {u \in inbox : \/ edge[t] = 0
                 \/ mode[t] = "older" /\ u < edge[t]
                 \/ mode[t] = "newer" /\ u > edge[t] + 1}

(* The UIDs of SEARCH ALL the mode is interested in.                       *)
Beyond(t) ==
  {u \in inbox : \/ edge[t] = 0
                 \/ mode[t] = "older" /\ u < edge[t]
                 \/ mode[t] = "newer" /\ u > edge[t]}

FetchCap(t) ==
  IF mode[t] = "older" THEN OlderCap ELSE IF edge[t] = 0 THEN Initial ELSE NewerCap

(* Messages with a row, or about to get one; and edges below which a call  *)
(* is about to look, be their rows gone meanwhile.                         *)
Held       == rows \cup UNION {batch[t] : t \in Tasks}
Looking(m) == {edge[t] : t \in {x \in Tasks : pc[x] = "search" /\ mode[x] = m /\ edge[x] # 0}}

(* SEARCH ALL, newest first up to the cap. Nothing to fetch: the call      *)
(* returns at once, before the flag refresh.                               *)
Search(t) ==
  LET picked == Newest(Beyond(t), FetchCap(t))
      cut    == Beyond(t) \ picked
  IN /\ pc[t] = "search"
     /\ leftOut' = leftOut \cup {u \in cut : \E r \in Held \cup Looking("older") : r < u}
     /\ IF picked = {}
          THEN Return(t)
          ELSE /\ pc' = [pc EXCEPT ![t] = "fetch"]
               /\ batch' = [batch EXCEPT ![t] = picked]
               /\ UNCHANGED <<mode, edge, batchSeen, ask, askSeen, handle>>
     /\ UNCHANGED <<server, table, disk, cmd, events, removed, torn>>

(* UID FETCH of the bodies: a message removed meanwhile is not answered.   *)
Fetch(t) ==
  /\ pc[t] = "fetch"
  /\ batch' = [batch EXCEPT ![t] = @ \cap inbox]
  /\ batchSeen' = [batchSeen EXCEPT ![t] = batch[t] \cap seen]
  /\ pc' = [pc EXCEPT ![t] = "ask"]
  /\ UNCHANGED <<server, table, disk, mode, edge, ask, askSeen, handle, cmd, events, hist>>

-----------------------------------------------------------------------------
(* The flag refresh: second half of sync_folder, whole of                  *)
(* refresh_flags_only (which starts here).                                 *)

(* After the refresh: persist what was fetched, or return.                 *)
Proceed(t) ==
  IF batch[t] = {} THEN Return(t)
  ELSE /\ pc' = [pc EXCEPT ![t] = "create"]
       /\ ask' = [ask EXCEPT ![t] = {}] /\ askSeen' = [askSeen EXCEPT ![t] = {}]
       /\ UNCHANGED <<mode, edge, batch, batchSeen, handle>>

(* The rows to refresh; an error of the query reads as none.               *)
ListRows(t) ==
  LET known == Newest(rows, RefreshCap) \ batch[t]
  IN /\ \/ /\ known # {}
           /\ pc' = [pc EXCEPT ![t] = "flags"]
           /\ ask' = [ask EXCEPT ![t] = known]
           /\ UNCHANGED <<mode, edge, batch, batchSeen, askSeen, handle, events>>
        \/ known = {} /\ Proceed(t) /\ UNCHANGED events
        \/ known # {} /\ Event /\ Proceed(t)
     /\ UNCHANGED <<server, table, disk, cmd, hist>>

RefreshFlags(t) == pc[t] = "ask" /\ ListRows(t)    \* within sync_folder
BeginFlags(t)   == pc[t] = "idle" /\ ListRows(t)   \* refresh_flags_only

(* UID FETCH of the flags.                                                 *)
FetchFlags(t) ==
  /\ pc[t] = "flags"
  /\ ask' = [ask EXCEPT ![t] = @ \cap inbox]
  /\ askSeen' = [askSeen EXCEPT ![t] = ask[t] \cap seen]
  /\ pc' = [pc EXCEPT ![t] = "apply"]
  /\ UNCHANGED <<server, table, disk, mode, edge, batch, batchSeen, handle, cmd, events, hist>>

(* mutant: adds the flags of the server to the row instead of replacing *)
ApplyFlags_Merge(t) ==
  /\ pc[t] = "apply"
  /\ markSeen' = markSeen \cup (rows \cap askSeen[t])
  /\ Proceed(t)
  /\ UNCHANGED <<server, rows, markToken, disk, cmd, events, hist>>

(* One transaction of UPDATEs; a row deleted meanwhile stays deleted.      *)
ApplyFlags(t) ==
  /\ pc[t] = "apply"
  /\ markSeen' = (markSeen \ ask[t]) \cup (rows \cap askSeen[t])
  /\ markToken' = markToken \ ask[t]
  /\ Proceed(t)
  /\ UNCHANGED <<server, rows, disk, cmd, events, hist>>

-----------------------------------------------------------------------------
(* persist_messages: file, then row, message by message.                   *)

(* mutant: in the order of to_fetch, newest first *)
Current_Newest(t) == Max(batch[t])

(* The message being persisted: the server answers in ascending order.     *)
Current(t) == Min(batch[t])

(* Task t is through with its current message.                             *)
Advance(t) ==
  IF batch[t] = {Current(t)} THEN Return(t)
  ELSE /\ batch' = [batch EXCEPT ![t] = @ \ {Current(t)}]
       /\ pc' = [pc EXCEPT ![t] = "create"]
       /\ batchSeen' = [batchSeen EXCEPT ![t] = @ \ {Current(t)}]
       /\ handle' = [handle EXCEPT ![t] = "none"]
       /\ UNCHANGED <<mode, edge, ask, askSeen>>

(* mutant: the row comes before its file *)
Create_RowFirst(t) ==
  /\ pc[t] = "create"
  /\ tmp' = [tmp EXCEPT ![Current(t)] = "empty"]
  /\ rows' = rows \cup {Current(t)}
  /\ handle' = [handle EXCEPT ![t] = "tmp"]
  /\ pc' = [pc EXCEPT ![t] = "write"]
  /\ UNCHANGED <<server, markSeen, markToken, file, mode, edge, batch, batchSeen, ask,
                 askSeen, cmd, events, hist>>

(* write_atomic, File::create: truncates a <uid>.tmp that is there.        *)
Create(t) ==
  /\ pc[t] = "create"
  /\ tmp' = [tmp EXCEPT ![Current(t)] = "empty"]
  /\ handle' = [handle EXCEPT ![t] = "tmp"]
  /\ pc' = [pc EXCEPT ![t] = "write"]
  /\ UNCHANGED <<server, table, file, mode, edge, batch, batchSeen, ask, askSeen,
                 cmd, events, hist>>

(* write_all: the bytes go to the open file, wherever a rename took it.    *)
Write(t) ==
  LET u == Current(t)
  IN /\ pc[t] = "write"
     /\ tmp'  = IF handle[t] = "tmp"  THEN [tmp EXCEPT ![u] = "full"]  ELSE tmp
     /\ file' = IF handle[t] = "file" THEN [file EXCEPT ![u] = "full"] ELSE file
     /\ handle' = [handle EXCEPT ![t] = "none"]
     /\ pc' = [pc EXCEPT ![t] = "rename"]
     /\ UNCHANGED <<server, table, mode, edge, batch, batchSeen, ask, askSeen,
                    cmd, events, hist>>

(* fs::rename: takes along the handles of others on this <uid>.tmp; fails  *)
(* when another task has renamed it already, and the message is skipped.   *)
Rename(t) ==
  LET u == Current(t)
      Follow(h) == IF h = "tmp" THEN "file" ELSE "lost"
  IN /\ pc[t] = "rename"
     /\ IF tmp[u] = "none"
          THEN Advance(t) /\ leftOut' = leftOut \cup {u} /\ UNCHANGED disk
          ELSE /\ file' = [file EXCEPT ![u] = tmp[u]]
               /\ tmp'  = [tmp EXCEPT ![u] = "none"]
               /\ handle' = [x \in Tasks |->
                     IF pc[x] = "write" /\ Current(x) = u THEN Follow(handle[x]) ELSE handle[x]]
               /\ pc' = [pc EXCEPT ![t] = "row"]
               /\ UNCHANGED <<mode, edge, batch, batchSeen, ask, askSeen, leftOut>>
     /\ UNCHANGED <<server, table, cmd, events, removed, torn>>

(* INSERT ... ON CONFLICT DO UPDATE SET flags_json.                        *)
Insert(t) ==
  LET u == Current(t)
  IN /\ pc[t] = "row"
     /\ rows' = rows \cup {u}
     /\ markSeen' = IF u \in batchSeen[t] THEN markSeen \cup {u} ELSE markSeen \ {u}
     /\ markToken' = markToken \ {u}
     /\ Advance(t)
     /\ UNCHANGED <<server, disk, cmd, events, hist>>

(* UIDs a writer leaves truncated when it stops now.                       *)
Truncated(x) ==
  IF pc[x] = "write" \/ (pc[x] = "rename" /\ tmp[Current(x)] = "empty")
    THEN {Current(x)} ELSE {}

(* Messages a call that stops now leaves where no other call looks: those  *)
(* of a page of older mail, and of a first fetch overtaken by others. That *)
(* is so too when the user took away the row a call started from: another  *)
(* may have begun anew above it.                                           *)
Resumes(x)     == mode[x] = "newer" /\ edge[x] # 0 /\ edge[x] \notin removed
Unreachable(x) == IF Resumes(x) THEN {} ELSE batch[x]

(* Parsing, the file or the INSERT fails: the message is passed over.      *)
Skip(t) ==
  /\ pc[t] \in {"create", "write", "row"}
  /\ Event
  /\ leftOut' = leftOut \cup {Current(t)}
  /\ torn' = torn \cup Truncated(t)
  /\ Advance(t)
  /\ UNCHANGED <<server, table, disk, cmd, removed>>

(* The connection or a statement with `?` fails: the whole call returns.   *)
Drop(t) ==
  /\ pc[t] \in {"search", "fetch", "flags", "apply"}
  /\ Event
  /\ Return(t)
  /\ UNCHANGED <<server, table, disk, cmd, hist>>

-----------------------------------------------------------------------------
(* The message commands.                                                   *)

Ops == {"see", "unsee", "move", "delete"}

(* The user acts on a message of the list. delete drops the row first.     *)
StartCmd(c, op, u) ==
  /\ cmd[c].pc = "idle"
  /\ u \in rows
  /\ cmd' = [cmd EXCEPT ![c] = [pc |-> "remote", op |-> op, uid |-> u]]
  /\ Event
  /\ IF op = "delete"
       THEN /\ rows' = rows \ {u}
            /\ markSeen' = markSeen \ {u} /\ markToken' = markToken \ {u}
       ELSE UNCHANGED table
  /\ removed' = IF op \in {"move", "delete"} THEN removed \cup {u} ELSE removed
  /\ UNCHANGED <<server, disk, tasks, leftOut, torn>>

(* UID STORE, or UID MOVE; the server ignores a UID that is gone.          *)
Remote(c) ==
  LET u == cmd[c].uid
  IN /\ cmd[c].pc = "remote"
     /\ cmd' = [cmd EXCEPT ![c].pc = "local"]
     /\ CASE cmd[c].op = "see"   -> seen' = seen \cup ({u} \cap inbox) /\ UNCHANGED inbox
          [] cmd[c].op = "unsee" -> seen' = seen \ {u} /\ UNCHANGED inbox
          [] OTHER               -> seen' = seen \ {u} /\ inbox' = inbox \ {u}
     /\ UNCHANGED <<lastUid, table, disk, tasks, events, hist>>

(* No session, no Trash folder, or the server refuses; delete says nothing.*)
RemoteFails(c) ==
  /\ cmd[c].pc = "remote"
  /\ cmd' = [cmd EXCEPT ![c] = NoCmd]
  /\ UNCHANGED <<server, table, disk, tasks, events, hist>>

(* set_flag strips and adds its own spelling of the flag, in one closure,  *)
(* and errs when the row is gone; move deletes the row.                    *)
Local(c) ==
  LET u == cmd[c].uid
  IN /\ cmd[c].pc = "local"
     /\ cmd' = [cmd EXCEPT ![c] = NoCmd]
     /\ CASE cmd[c].op = "see"   -> /\ markToken' = markToken \cup ({u} \cap rows)
                                    /\ UNCHANGED <<rows, markSeen>>
          [] cmd[c].op = "unsee" -> markToken' = markToken \ {u} /\ UNCHANGED <<rows, markSeen>>
          [] OTHER -> /\ rows' = rows \ {u}
                      /\ markSeen' = markSeen \ {u} /\ markToken' = markToken \ {u}
     /\ UNCHANGED <<server, disk, tasks, events, hist>>

-----------------------------------------------------------------------------
(* The server, other mail clients, and a crash of the application.         *)

Arrive ==
  /\ lastUid < MaxUid
  /\ lastUid' = lastUid + 1
  /\ inbox' = inbox \cup {lastUid + 1}
  /\ UNCHANGED <<seen, table, disk, tasks, cmd, events, hist>>

OtherClient(u) ==
  /\ u \in inbox
  /\ Event
  /\ \/ seen' = seen \cup {u} /\ UNCHANGED inbox
     \/ u \in seen /\ seen' = seen \ {u} /\ UNCHANGED inbox
     \/ inbox' = inbox \ {u} /\ seen' = seen \ {u}
  /\ UNCHANGED <<lastUid, table, disk, tasks, cmd, hist>>

(* The process ends and is started again.                                  *)
Crash ==
  /\ Event
  /\ pc' = [t \in Tasks |-> "idle"]
  /\ mode' = [t \in Tasks |-> "newer"]
  /\ edge' = [t \in Tasks |-> 0]
  /\ batch' = [t \in Tasks |-> {}] /\ batchSeen' = [t \in Tasks |-> {}]
  /\ ask' = [t \in Tasks |-> {}]   /\ askSeen' = [t \in Tasks |-> {}]
  /\ handle' = [t \in Tasks |-> "none"]
  /\ cmd' = [c \in Cmds |-> NoCmd]
  /\ torn' = torn \cup UNION {Truncated(t) : t \in Tasks}
  /\ leftOut' = leftOut \cup UNION {Unreachable(t) : t \in Tasks}
  /\ UNCHANGED <<server, table, disk, removed>>

-----------------------------------------------------------------------------
SyncStep(t) ==
  \/ Search(t) \/ Fetch(t) \/ RefreshFlags(t) \/ FetchFlags(t)
  \/ ApplyFlags(t) \/ Create(t) \/ Write(t) \/ Rename(t) \/ Insert(t)

Next ==
  \/ \E t \in Syncs : \/ BeginNewer(t) \/ BeginOlder(t)
                      \/ \E m \in {"newer", "older"} : BeginBlind(t, m)
  \/ \E t \in Polls : BeginFlags(t)
  \/ \E t \in Tasks : SyncStep(t) \/ Skip(t) \/ Drop(t)
  \/ \E c \in Cmds : \/ \E op \in Ops, u \in Uids : StartCmd(c, op, u)
                     \/ Remote(c) \/ RemoteFails(c) \/ Local(c)
  \/ Arrive \/ Crash
  \/ \E u \in Uids : OtherClient(u)

(* The supervisor and the poll come back for ever, and every await of a    *)
(* call ends; nothing is assumed of the user, his commands, the server and *)
(* faults.                                                                 *)
Fairness ==
  /\ SF_vars(\E t \in Syncs : BeginNewer(t))
  /\ SF_vars(\E t \in Polls : BeginFlags(t))
  /\ \A t \in Tasks : WF_vars(SyncStep(t))

Spec == Init /\ [][Next]_vars /\ Fairness

-----------------------------------------------------------------------------
(* A row's .eml holds the message, except while another call that had      *)
(* truncated the same <uid>.tmp is about to write it again, or after such  *)
(* a call was cut off. store.rs write_atomic shared by concurrent syncs.   *)
TornOnlyWhileRewritten ==
  \A u \in rows : \/ file[u] = "full"
                  \/ u \in torn
                  \/ \E t \in Syncs : pc[t] = "write" /\ Current(t) = u /\ handle[t] = "file"

(* A message between two rows is in the folder and has no row only because *)
(* the user took it away, a cap or an error passed it over, or a call is   *)
(* about to store it: sync_folder never looks between MIN(uid) and         *)
(* MAX(uid) again. Concurrent syncs, crashes and deletes open no gap.      *)
NoGap ==
  \A u \in inbox \ rows :
    (\E a, b \in rows : a < u /\ u < b)
      => u \in removed \cup leftOut \cup UNION {batch[t] : t \in Syncs}

(* Once the server is quiet the mirror holds every message, except those   *)
(* below the oldest row, which "load older" brings.                        *)
CatchesUp ==
  <>[](\A u \in inbox \ (rows \cup removed \cup leftOut) :
          rows # {} /\ \A r \in rows : u < r)

(* Once the server is quiet the list shows the newest RefreshCap rows as   *)
(* the server does, however stale the answers were that calls have applied *)
(* so far. The refresh lists no older row (ORDER BY uid DESC LIMIT), so    *)
(* those keep the flags they have: a row the server marks read after it    *)
(* has left that window stays unread here.                                 *)
FlagsSettle ==
  <>[](\A u \in Newest(rows, RefreshCap) \cap inbox : Unread(u) <=> u \notin seen)

=============================================================================
