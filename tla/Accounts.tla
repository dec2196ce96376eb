------------------------------ MODULE Accounts ------------------------------
(***************************************************************************)
(* Mail accounts, their OAuth credentials and the tasks that use them      *)
(* (src/src-tauri/src/mail/commands.rs, oauth.rs, keychain.rs, idle.rs and *)
(* the account functions of db.rs).                                        *)
(*                                                                         *)
(* An account is a SurrealDB row that names a Keychain item; the two       *)
(* stores share no transaction. Sign-in, removal, the supervisor of each   *)
(* account and the other users of its credentials read and write both,     *)
(* and each await between two of their steps lets the others run.          *)
(*                                                                         *)
(* Abstracted: a token bundle is the presence of its Keychain item, its    *)
(* expiry a choice; server settings are left out. resolve_account reads    *)
(* the list of accounts and then keychain_ref: the second read decides,    *)
(* so the two are one step.                                                *)
(***************************************************************************)
EXTENDS Integers, FiniteSets

CONSTANTS
  Emails,     \* addresses; the row has a unique index on them
  Logins,     \* sign-in dialogs open at once
  Removals,   \* mail_account_remove commands running at once
  Callers,    \* outbox, poll of the window, message commands
  MaxLogins,  \* bound: Keychain items ever created by a sign-in
  MaxFaults   \* bound: crashes, refused Keychain writes, failed database writes

ASSUME AccountsAssumption ==
  /\ MaxLogins \in Nat /\ MaxFaults \in Nat
  /\ Callers \cap Nat = {}

VARIABLES
  row,      \* email_account: address -> [id, kref], NoRow when there is none
  items,    \* Keychain items: the krefs that hold a token bundle
  login,    \* one record of locals per sign-in
  removal,  \* one record of locals per removal
  cleanup,  \* krefs whose spawned keychain::delete has not run yet
  task,     \* one record of locals per supervisor slot and caller
  boot,     \* spawn_for_existing_accounts: "pending", "done" or "failed"
  krefs,    \* how many krefs have been made; a kref is its number
  ids,      \* how many rows have been created; an account id is its number
  faults,   \* how much of MaxFaults is used
  given_up  \* history: krefs whose deletion nobody will try, and why is listed below

vars == <<row, items, login, removal, cleanup, task, boot, krefs, ids, faults, given_up>>

Krefs == 1..MaxLogins
Slots == 1..(2 * MaxLogins)   \* a supervisor per row at start, one per sign-in
Tasks == Slots \cup Callers

NoRow     == [id |-> 0, kref |-> 0]
NoLogin   == [pc |-> "idle", email |-> "none", kref |-> 0, found |-> 0]
NoRemoval == [pc |-> "idle", id |-> 0, kref |-> 0]
NoTask    == [pc |-> "none", id |-> 0, kref |-> 0, phase |-> "none"]

Owned   == {row[e].kref : e \in Emails} \ {0}
RowOf(id) == {e \in Emails : row[e].id = id /\ id # 0}

(* SELECT keychain_ref FROM $id, 0 for no row.                             *)
KrefOf(id) == IF RowOf(id) = {} THEN 0 ELSE row[CHOOSE e \in RowOf(id) : TRUE].kref

Fault == faults < MaxFaults /\ faults' = faults + 1

-----------------------------------------------------------------------------
Init ==
  /\ row = [e \in Emails |-> NoRow]
  /\ items = {} /\ cleanup = {} /\ given_up = {}
  /\ login = [l \in Logins |-> NoLogin]
  /\ removal = [r \in Removals |-> NoRemoval]
  /\ task = [t \in Tasks |-> NoTask]
  /\ boot = "pending"
  /\ krefs = 0 /\ ids = 0 /\ faults = 0

-----------------------------------------------------------------------------
(* Sign-in: mail_oauth_start, then mail_oauth_complete.                    *)

Account == <<row, items, removal, cleanup, task, boot, krefs, ids, given_up>>

Start(l, e) ==
  /\ login[l].pc = "idle"
  /\ krefs + Cardinality({x \in Logins : login[x].pc \in {"pending", "waiting", "store"}})
       < MaxLogins
  /\ login' = [login EXCEPT ![l] = [pc |-> "pending", email |-> e, kref |-> 0, found |-> 0]]
  /\ UNCHANGED <<Account, faults>>

(* The pending flow leaves the registry: a second completion finds none.   *)
Complete(l) ==
  /\ login[l].pc = "pending"
  /\ login' = [login EXCEPT ![l].pc = "waiting"]
  /\ UNCHANGED <<Account, faults>>

(* oauth::finish: redirect with the right state, code exchanged.           *)
Finish(l) ==
  /\ login[l].pc = "waiting"
  /\ login' = [login EXCEPT ![l].pc = "store"]
  /\ UNCHANGED <<Account, faults>>

(* The five minutes are over, the state differs, the provider refuses.     *)
FinishFails(l) ==
  /\ login[l].pc = "waiting"
  /\ login' = [login EXCEPT ![l] = NoLogin]
  /\ UNCHANGED <<Account, faults>>

(* keychain::store under a new kref, before the row is written.            *)
StoreTokens(l) ==
  /\ login[l].pc = "store"
  /\ krefs' = krefs + 1
  /\ items' = items \cup {krefs + 1}
  /\ login' = [login EXCEPT ![l] = [login[l] EXCEPT !.pc = "select", !.kref = krefs + 1]]
  /\ UNCHANGED <<row, removal, cleanup, task, boot, ids, faults, given_up>>

StoreFails(l) ==
  /\ login[l].pc = "store"
  /\ Fault
  /\ login' = [login EXCEPT ![l] = NoLogin]
  /\ UNCHANGED Account

(* create_email_account: is there a row for the address?                   *)
SelectExisting(l) ==
  /\ login[l].pc = "select"
  /\ login' = [login EXCEPT ![l] = [login[l] EXCEPT !.pc = "write",
                                                !.found = row[login[l].email].id]]
  /\ UNCHANGED <<Account, faults>>

(* mutant: the Keychain item of a sign-in that failed is left behind *)
WriteRefused_Leak(l) ==
  /\ login' = [login EXCEPT ![l] = NoLogin]
  /\ UNCHANGED <<row, items, removal, cleanup, task, boot, krefs, ids, given_up>>

(* create_email_account errs: a spawned task deletes the new item again.   *)
WriteRefused(l) ==
  /\ login' = [login EXCEPT ![l] = NoLogin]
  /\ cleanup' = cleanup \cup {login[l].kref}
  /\ UNCHANGED <<row, items, removal, task, boot, krefs, ids, given_up>>

(* No row was found: CREATE, which the unique index may refuse. A row was  *)
(* found: UPDATE moves it to the new kref, the old item is forgotten; when *)
(* it has been deleted meanwhile the UPDATE returns no row, an error.      *)
WriteAccount(l) ==
  LET e     == login[l].email
      found == login[l].found
  IN /\ login[l].pc = "write"
     /\ IF found # row[e].id
          THEN WriteRefused(l)
          ELSE /\ row' = [row EXCEPT ![e] = [id |-> IF found = 0 THEN ids + 1 ELSE found,
                                             kref |-> login[l].kref]]
               /\ ids' = IF found = 0 THEN ids + 1 ELSE ids
               /\ given_up' = IF found = 0 THEN given_up ELSE given_up \cup {row[e].kref}
               /\ login' = [login EXCEPT ![l] = [login[l] EXCEPT !.pc = "spawn",
                                                                !.found = row'[e].id]]
               /\ UNCHANGED <<items, removal, cleanup, task, boot, krefs>>
     /\ UNCHANGED faults

WriteFails(l) == login[l].pc = "write" /\ Fault /\ WriteRefused(l)

(* The spawned keychain::delete, whose error is dropped.                   *)
Cleanup(k) ==
  /\ k \in cleanup
  /\ cleanup' = cleanup \ {k}
  /\ \/ items' = items \ {k} /\ UNCHANGED <<given_up, faults>>
     \/ Fault /\ given_up' = given_up \cup {k} /\ UNCHANGED items
  /\ UNCHANGED <<row, login, removal, task, boot, krefs, ids>>

-----------------------------------------------------------------------------
(* Supervisors and the other users of an account's credentials.            *)

Mail == <<row, login, removal, cleanup, boot, krefs, ids>>

Supervised(id) == [pc |-> "resolve", id |-> id, kref |-> 0, phase |-> "sync"]

(* End of mail_oauth_complete: one more supervisor for the account, be it  *)
(* new or not.                                                             *)
Spawn(l) ==
  /\ login[l].pc = "spawn"
  /\ login' = [login EXCEPT ![l] = NoLogin]
  /\ \E s \in Slots :
       /\ task[s].pc = "none" /\ \A r \in Slots : r < s => task[r].pc # "none"
       /\ task' = [task EXCEPT ![s] = Supervised(login[l].found)]
  /\ UNCHANGED <<row, items, removal, cleanup, boot, krefs, ids, faults, given_up>>

(* resolve_account, on every cycle and every call: the account may be gone *)
(* or have moved to another kref. A supervisor that fails backs off and    *)
(* comes back, a caller reports the error.                                 *)
GiveUp(t) == IF t \in Slots THEN Supervised(task[t].id) ELSE NoTask

Resolve(t) ==
  /\ task[t].pc = "resolve"
  /\ LET k == KrefOf(task[t].id)
     IN task' = [task EXCEPT ![t] =
                   IF k = 0 THEN GiveUp(t) ELSE [@ EXCEPT !.pc = "load", !.kref = k]]
  /\ UNCHANGED <<Mail, items, faults, given_up>>

(* What follows a use of the credentials, whether it worked or not: the    *)
(* first sync of a cycle goes on to IDLE in any case, a failed IDLE ends   *)
(* the cycle with an error, the second sync ends it.                       *)
After(t, ok) ==
  CASE task[t].phase = "sync"         -> [task[t] EXCEPT !.pc = "load", !.phase = "idle"]
    [] task[t].phase = "idle" /\ ok   -> [task[t] EXCEPT !.pc = "load", !.phase = "resync"]
    [] OTHER                          -> GiveUp(t)

(* ensure_fresh_access finds a fresh bundle and the session that uses it    *)
(* runs to its end, or the bundle has to be refreshed first, or there is   *)
(* none. The session changes nothing here, so it is no step of its own.    *)
Load(t) ==
  /\ task[t].pc = "load"
  /\ IF task[t].kref \in items
       THEN \/ \E ok \in BOOLEAN : task' = [task EXCEPT ![t] = After(t, ok)]
            \/ task' = [task EXCEPT ![t].pc = "refresh"]
       ELSE task' = [task EXCEPT ![t] = After(t, FALSE)]
  /\ UNCHANGED <<Mail, items, faults, given_up>>

(* The token endpoint has answered and keychain::store sets the item, be   *)
(* it still there or not; then the session.                                *)
SaveRefreshed(t) ==
  /\ task[t].pc = "refresh"
  /\ items' = items \cup {task[t].kref}
  /\ given_up' = IF task[t].kref \in items THEN given_up ELSE given_up \cup {task[t].kref}
  /\ \E ok \in BOOLEAN : task' = [task EXCEPT ![t] = After(t, ok)]
  /\ UNCHANGED <<Mail, faults>>

(* The endpoint refuses the refresh token, or the Keychain the new bundle. *)
RefreshFails(t) ==
  /\ task[t].pc = "refresh"
  /\ task' = [task EXCEPT ![t] = After(t, FALSE)]
  /\ UNCHANGED <<Mail, items, faults, given_up>>

(* Outbox, poll or a command turns to an account, which may be gone.       *)
Call(c, id) ==
  /\ task[c].pc = "none"
  /\ task' = [task EXCEPT ![c] = [pc |-> "resolve", id |-> id, kref |-> 0, phase |-> "call"]]
  /\ UNCHANGED <<Mail, items, faults, given_up>>

-----------------------------------------------------------------------------
(* mail_account_remove.                                                    *)

Rest == <<login, cleanup, task, boot, krefs, ids>>

(* mutant: the tokens are dropped before the row *)
SelectKref_DropsFirst(r, id) ==
  /\ removal[r].pc = "idle"
  /\ \E e \in RowOf(id) :
       /\ removal' = [removal EXCEPT ![r] = [pc |-> "delete", id |-> id, kref |-> row[e].kref]]
       /\ items' = items \ {row[e].kref}
  /\ UNCHANGED <<Rest, row, faults, given_up>>

(* delete_email_account: SELECT keychain_ref.                              *)
SelectKref(r, id) ==
  /\ removal[r].pc = "idle"
  /\ removal' = [removal EXCEPT ![r] =
       [pc |-> "delete", id |-> id, kref |-> KrefOf(id)]]
  /\ UNCHANGED <<Rest, row, items, faults, given_up>>

(* DELETE; the row may have moved to another kref since the SELECT.        *)
DeleteRow(r) ==
  LET gone == RowOf(removal[r].id)
  IN /\ removal[r].pc = "delete"
     /\ row' = [e \in Emails |-> IF e \in gone THEN NoRow ELSE row[e]]
     /\ given_up' = given_up \cup ({row[e].kref : e \in gone} \ {removal[r].kref})
     /\ removal' = [removal EXCEPT ![r] =
          IF @.kref = 0 THEN NoRemoval ELSE [@ EXCEPT !.pc = "drop"]]
     /\ UNCHANGED <<Rest, items, faults>>

DeleteFails(r) ==
  /\ removal[r].pc = "delete"
  /\ Fault
  /\ removal' = [removal EXCEPT ![r] = NoRemoval]
  /\ UNCHANGED <<Rest, row, items, given_up>>

(* keychain::delete, after the row is gone; an error is only logged.       *)
DropTokens(r) ==
  /\ removal[r].pc = "drop"
  /\ items' = items \ {removal[r].kref}
  /\ removal' = [removal EXCEPT ![r] = NoRemoval]
  /\ UNCHANGED <<Rest, row, faults, given_up>>

DropFails(r) ==
  /\ removal[r].pc = "drop"
  /\ Fault
  /\ given_up' = given_up \cup {removal[r].kref}
  /\ removal' = [removal EXCEPT ![r] = NoRemoval]
  /\ UNCHANGED <<Rest, row, items>>

-----------------------------------------------------------------------------
(* Start-up and crash.                                                     *)

(* mutant: a restart waits for the next sign-in *)
Boot_NoSpawn ==
  /\ boot = "pending"
  /\ boot' = "done"
  /\ UNCHANGED <<row, items, login, removal, cleanup, task, krefs, ids, faults, given_up>>

(* spawn_for_existing_accounts: a supervisor for every row it lists.       *)
Boot ==
  LET known == {row[e].id : e \in Emails} \ {0}
      free  == {s \in Slots : task[s].pc = "none"}
      place == CHOOSE p \in [known -> free] : \A i, j \in known : p[i] = p[j] => i = j
  IN /\ boot = "pending"
     /\ boot' = "done"
     /\ task' = [t \in Tasks |->
          IF \E i \in known : place[i] = t
            THEN Supervised(CHOOSE i \in known : place[i] = t) ELSE task[t]]
     /\ UNCHANGED <<row, items, login, removal, cleanup, krefs, ids, faults, given_up>>

(* The accounts cannot be listed: no supervisors until the next start.     *)
BootFails ==
  /\ boot = "pending"
  /\ Fault
  /\ boot' = "failed"
  /\ UNCHANGED <<row, items, login, removal, cleanup, task, krefs, ids, given_up>>

(* Rows and Keychain items survive; nothing resumes what was under way.    *)
Crash ==
  /\ Fault
  /\ login' = [l \in Logins |-> NoLogin]
  /\ removal' = [r \in Removals |-> NoRemoval]
  /\ task' = [t \in Tasks |-> NoTask]
  /\ cleanup' = {}
  /\ boot' = "pending"
  /\ given_up' = given_up \cup (items \ Owned)
  /\ UNCHANGED <<row, items, krefs, ids>>

-----------------------------------------------------------------------------
LoginStep(l) ==
  \/ Finish(l) \/ FinishFails(l) \/ StoreTokens(l) \/ SelectExisting(l)
  \/ WriteAccount(l) \/ Spawn(l)

TaskStep(t) ==
  Resolve(t) \/ Load(t) \/ SaveRefreshed(t) \/ RefreshFails(t)

RemovalStep(r) == DeleteRow(r) \/ DropTokens(r)

Next ==
  \/ \E l \in Logins : \/ \E e \in Emails : Start(l, e)
                       \/ Complete(l) \/ LoginStep(l) \/ StoreFails(l) \/ WriteFails(l)
  \/ \E k \in Krefs : Cleanup(k)
  \/ \E t \in Tasks : TaskStep(t)
  \/ \E c \in Callers, id \in 1..ids : Call(c, id)
  \/ \E r \in Removals : \/ \E id \in 1..ids : SelectKref(r, id)
                         \/ RemovalStep(r) \/ DeleteFails(r) \/ DropFails(r)
  \/ Boot \/ BootFails \/ Crash

Spec == Init /\ [][Next]_vars

-----------------------------------------------------------------------------
LoginStages == {"idle", "pending", "waiting", "store", "select", "write", "spawn"}
TaskStages  == {"none", "resolve", "load", "refresh"}
Phases      == {"none", "sync", "idle", "resync", "call"}

(* A task holds a kref exactly between resolve_account and the end of its  *)
(* cycle or call.                                                          *)
TypeOK ==
  /\ krefs \in Nat /\ ids \in Nat /\ faults \in 0..MaxFaults
  /\ row \in [Emails -> [id : 0..ids, kref : 0..krefs]]
  /\ items \subseteq 1..krefs /\ cleanup \subseteq 1..krefs /\ given_up \subseteq 1..krefs
  /\ login \in [Logins -> [pc : LoginStages, email : Emails \cup {"none"},
                           kref : 0..krefs, found : 0..ids]]
  /\ removal \in [Removals -> [pc : {"idle", "delete", "drop"}, id : 0..ids, kref : 0..krefs]]
  /\ task \in [Tasks -> [pc : TaskStages, id : 0..ids, kref : 0..krefs, phase : Phases]]
  /\ \A t \in Tasks : task[t].kref = 0 <=> task[t].pc \in {"none", "resolve"}
  /\ boot \in {"pending", "done", "failed"}

(* An account row never points at nothing, whatever sign-ins, removals,    *)
(* failed writes and crashes do in between (commands.rs:102-104).          *)
NoDanglingRow == \A e \in Emails : row[e].id # 0 => row[e].kref \in items

(* Tokens outlive their account only when somebody is about to store or    *)
(* delete them, or for a known cause: a second sign-in moved the row to    *)
(* another kref, a refresh stored them again after the removal, or a crash *)
(* or a Keychain error got between. Losing a race for the row is no cause. *)
OrphansKnown ==
  items \subseteq Owned \cup cleanup \cup given_up
                 \cup {login[l].kref : l \in Logins} \cup {removal[r].kref : r \in Removals}

(* Once start-up has listed the accounts, every account has a supervisor   *)
(* or is about to get one from the sign-in that wrote it, however the      *)
(* start-up and sign-ins overlap (idle.rs:43-45).                          *)
EveryAccountWatched ==
  boot = "done" => \A e \in Emails : row[e].id # 0 =>
              \/ \E s \in Slots : task[s].id = row[e].id
              \/ \E l \in Logins : login[l].pc = "spawn" /\ login[l].found = row[e].id

=============================================================================
