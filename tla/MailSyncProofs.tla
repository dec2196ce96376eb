--------------------------- MODULE MailSyncProofs ---------------------------
(***************************************************************************)
(* Theorems about MailSync, for every number of concurrent syncs, UIDs,    *)
(* caps, faults and crashes: what the race on <uid>.tmp in write_atomic    *)
(* can leave in the .eml of a row, and that no gap opens between two rows. *)
(***************************************************************************)
EXTENDS MailSync, WellFoundedInduction, FiniteSetTheorems, TLAPS

Contents   == {"none", "empty", "full"}
Handles    == {"none", "tmp", "file", "lost"}
Persisting == {"create", "write", "rename", "row"}
Stages     == {"idle", "search", "fetch", "ask", "flags", "apply"} \cup Persisting

Shape ==
  /\ lastUid \in Nat /\ inbox \subseteq Uids /\ rows \subseteq Uids
  /\ tmp \in [Uids -> Contents] /\ file \in [Uids -> Contents]
  /\ pc \in [Tasks -> Stages] /\ batch \in [Tasks -> SUBSET Uids]
  /\ handle \in [Tasks -> Handles]

(* Who persists has messages to persist; refresh_flags_only never has any. *)
Busy ==
  \A t \in Tasks : /\ pc[t] \in Persisting => batch[t] # {}
                   /\ t \notin Syncs => batch[t] = {} /\ pc[t] # "search"

(* t holds <uid>.tmp of u open, and the file is by now at place h.         *)
Holds(t, u, h) == pc[t] = "write" /\ Current(t) = u /\ handle[t] = h

(* A <uid>.tmp that is held open is there.                                 *)
Open == \A t \in Tasks, u \in Uids : Holds(t, u, "tmp") => tmp[u] # "none"

(* A truncated file is about to be written, or its writer was cut off.     *)
HalfTmp  == \A u \in Uids : tmp[u] = "empty" => u \in torn \/ \E t \in Tasks : Holds(t, u, "tmp")
HalfFile == \A u \in Uids : file[u] = "empty" => u \in torn \/ \E t \in Tasks : Holds(t, u, "file")

(* The file comes before the row.                                          *)
FileFirst ==
  /\ \A u \in rows : file[u] # "none"
  /\ \A t \in Tasks : pc[t] = "row" => file[Current(t)] # "none"

Inv == Shape /\ Busy /\ Open /\ HalfTmp /\ HalfFile /\ FileFirst

-----------------------------------------------------------------------------
LEMMA MinIs == ASSUME NEW S \in SUBSET Nat, S # {} PROVE Min(S) \in S /\ \A m \in S : Min(S) <= m
<1>1. PICK n \in S : \A m \in S : <<m, n>> \notin OpToRel(<, Nat)
  BY WFMin, NatLessThanWellFounded
<1>2. OpToRel(<, Nat) = {ss \in Nat \X Nat : ss[1] < ss[2]}
  BY DEF OpToRel
<1>3. \A m \in S : ~(m < n)
  BY <1>1, <1>2
<1>4. \A m \in S : n <= m
  BY <1>3
<1> QED  BY <1>4 DEF Min

LEMMA CurrentIsUid ==
  ASSUME Inv, NEW t \in Tasks, pc[t] \in Persisting
  PROVE  Current(t) \in batch[t] /\ Current(t) \in Uids
  BY MinIs DEF Inv, Shape, Busy, Current, Uids

LEMMA InitInv == Init => Inv
<1> SUFFICES ASSUME Init PROVE Inv
  OBVIOUS
<1>1. Shape
  BY MailSyncAssumption DEF Init, Shape, Uids, Contents, Handles, Stages
<1> QED  BY <1>1 DEF Init, Inv, Busy, Open, HalfTmp, HalfFile, FileFirst, Holds, Persisting

(* Steps that leave files and tasks alone.                                 *)
LEMMA OutsideKeeps ==
  ASSUME Inv, rows' \subseteq rows, inbox' \subseteq Uids, lastUid' \in Nat,
         UNCHANGED <<tmp, file, pc, batch, handle, torn>>
  PROVE  Inv'
  BY DEF Inv, Shape, Busy, Open, HalfTmp, HalfFile, FileFirst, Holds, Current

(* Steps of one task that leave files alone: a writer it gives up is known *)
(* as cut off, and only a message that has its file gets a row.            *)
LEMMA TaskKeeps ==
  ASSUME Inv, NEW t \in Tasks,
         pc' \in [Tasks -> Stages], batch' \in [Tasks -> SUBSET Uids], handle' \in [Tasks -> Handles],
         \A x \in Tasks \ {t} : pc'[x] = pc[x] /\ batch'[x] = batch[x] /\ handle'[x] = handle[x],
         pc'[t] \notin {"write", "rename", "row"},
         pc'[t] = "create" => batch'[t] # {},
         t \notin Syncs => batch'[t] = {} /\ pc'[t] # "search",
         pc[t] = "write" => Current(t) \in torn',
         torn \subseteq torn',
         rows' \subseteq Uids, \A u \in rows' : file[u] # "none",
         UNCHANGED <<inbox, lastUid, tmp, file>>
  PROVE  Inv'
<1>1. \A x \in Tasks \ {t} : Current(x)' = Current(x)
  BY DEF Current
<1>2. \A x \in Tasks : \A u, h : Holds(x, u, h) => Holds(x, u, h)' \/ u \in torn'
  BY <1>1 DEF Holds
<1>3. \A x \in Tasks : \A u, h : Holds(x, u, h)' => Holds(x, u, h)
  BY <1>1 DEF Holds
<1>4. Shape' /\ Busy'
  BY DEF Inv, Shape, Busy, Persisting
<1>5. Open'
  BY <1>3 DEF Inv, Open
<1>6. HalfTmp' /\ HalfFile'
  BY <1>2 DEF Inv, HalfTmp, HalfFile
<1>7. FileFirst'
  BY <1>1 DEF Inv, FileFirst
<1> QED  BY <1>4, <1>5, <1>6, <1>7 DEF Inv

-----------------------------------------------------------------------------
(* The three system calls of write_atomic.                                 *)

LEMMA CreateKeeps == ASSUME Inv, NEW t \in Tasks, Create(t) PROVE Inv'
<1>1. PICK u \in Uids : u = Current(t)
  BY CurrentIsUid DEF Create, Persisting
<1>2. \A x \in Tasks : Current(x)' = Current(x)
  BY DEF Create, Current
<1>3. \A x \in Tasks : \A v, h : Holds(x, v, h) => Holds(x, v, h)'
  BY <1>1, <1>2 DEF Create, Holds, Inv, Shape
<1>4. Holds(t, u, "tmp")'
  BY <1>1, <1>2 DEF Create, Holds, Inv, Shape
<1>5. Shape' /\ Busy'
  BY <1>1 DEF Create, Inv, Shape, Busy, Contents, Handles, Stages, Persisting, server, table
<1>6. tmp' = [tmp EXCEPT ![u] = "empty"] /\ file' = file /\ torn' = torn
  BY <1>1 DEF Create, hist
<1>7. Open'
  <2> SUFFICES ASSUME NEW x \in Tasks, NEW v \in Uids, Holds(x, v, "tmp")' PROVE tmp'[v] # "none"
    BY DEF Open
  <2>1. v # u => Holds(x, v, "tmp")
    BY <1>1, <1>2 DEF Create, Holds, Inv, Shape
  <2> QED  BY <1>1, <1>6, <2>1 DEF Inv, Open, Shape
<1>8. HalfTmp' /\ HalfFile'
  BY <1>1, <1>3, <1>4, <1>6 DEF Inv, HalfTmp, HalfFile, Shape
<1>9. FileFirst'
  BY <1>1, <1>2 DEF Create, Inv, FileFirst, table, Shape
<1> QED  BY <1>5, <1>7, <1>8, <1>9 DEF Inv

LEMMA WriteKeeps == ASSUME Inv, NEW t \in Tasks, Write(t) PROVE Inv'
<1>1. PICK u \in Uids : u = Current(t)
  BY CurrentIsUid DEF Write, Persisting
<1>2. \A x \in Tasks : Current(x)' = Current(x)
  BY DEF Write, Current
<1>3. \A x \in Tasks \ {t} : \A v, h : Holds(x, v, h)' <=> Holds(x, v, h)
  BY <1>1, <1>2 DEF Write, Holds, Inv, Shape
<1>4. /\ tmp'  = IF handle[t] = "tmp"  THEN [tmp EXCEPT ![u] = "full"]  ELSE tmp
      /\ file' = IF handle[t] = "file" THEN [file EXCEPT ![u] = "full"] ELSE file
      /\ torn' = torn /\ rows' = rows /\ pc' = [pc EXCEPT ![t] = "rename"]
  BY <1>1 DEF Write, hist, table
<1>5. \A v, h : Holds(t, v, h) => v = u /\ h = handle[t]
  BY <1>1 DEF Holds
<1>6. \A v, h : ~Holds(t, v, h)'
  BY <1>1, <1>4 DEF Holds, Inv, Shape
<1>7. Shape' /\ Busy'
  BY <1>1, <1>4 DEF Write, Inv, Shape, Busy, Contents, Handles, Stages, Persisting, server
<1>8. Open'
  BY <1>1, <1>3, <1>4, <1>6 DEF Inv, Open, Shape
<1>9. HalfTmp' /\ HalfFile'
  BY <1>1, <1>3, <1>4, <1>5 DEF Inv, HalfTmp, HalfFile, Shape
<1>10. FileFirst'
  BY <1>1, <1>2, <1>4 DEF Inv, FileFirst, Shape
<1> QED  BY <1>7, <1>8, <1>9, <1>10 DEF Inv

(* A rename that goes through: what others hold open moves with it, and    *)
(* what they held of the file before is lost.                              *)
LEMMA RenameKeeps == ASSUME Inv, NEW t \in Tasks, Rename(t), tmp[Current(t)] # "none" PROVE Inv'
<1>1. PICK u \in Uids : u = Current(t)
  BY CurrentIsUid DEF Rename, Persisting
<1>2. \A x \in Tasks : Current(x)' = Current(x)
  BY <1>1 DEF Rename, Current
<1>3. /\ file' = [file EXCEPT ![u] = tmp[u]] /\ tmp' = [tmp EXCEPT ![u] = "none"]
      /\ torn' = torn /\ rows' = rows /\ pc' = [pc EXCEPT ![t] = "row"] /\ batch' = batch
      /\ inbox' = inbox /\ lastUid' = lastUid /\ pc[t] = "rename"
  BY <1>1 DEF Rename, table, server
<1>4. \A x \in Tasks : handle'[x] = IF pc[x] = "write" /\ Current(x) = u
                                    THEN IF handle[x] = "tmp" THEN "file" ELSE "lost" ELSE handle[x]
  BY <1>1 DEF Rename
<1>5. handle' \in [Tasks -> Handles]
  BY <1>1 DEF Rename, Handles, Inv, Shape
<1>6. \A x \in Tasks : \A v : v # u => \A h : Holds(x, v, h)' <=> Holds(x, v, h)
  BY <1>1, <1>2, <1>3, <1>4 DEF Holds, Inv, Shape
<1>7. \A x \in Tasks : Holds(x, u, "tmp") => Holds(x, u, "file")'
  BY <1>1, <1>2, <1>3, <1>4 DEF Holds, Inv, Shape
<1>8. \A x \in Tasks : ~Holds(x, u, "tmp")'
  BY <1>1, <1>2, <1>3, <1>4 DEF Holds, Inv, Shape
<1>9. Shape' /\ Busy'
  BY <1>1, <1>3, <1>5 DEF Inv, Shape, Busy, Contents, Stages, Persisting
<1>10. Open'
  BY <1>1, <1>3, <1>6, <1>8 DEF Inv, Open, Shape
<1>11. HalfTmp' /\ HalfFile'
  BY <1>1, <1>3, <1>6, <1>7 DEF Inv, HalfTmp, HalfFile, Shape
<1>12. FileFirst'
  <2>1. file'[u] # "none" /\ \A v \in Uids : file[v] # "none" => file'[v] # "none"
    BY <1>1, <1>3 DEF Inv, Shape
  <2>2. \A x \in Tasks : pc[x] = "row" => Current(x) \in Uids
    BY CurrentIsUid DEF Persisting
  <2>3. \A v \in rows' : file'[v] # "none"
    BY <1>3, <2>1 DEF Inv, FileFirst, Shape
  <2>4. \A x \in Tasks : pc'[x] = "row" => x = t \/ pc[x] = "row"
    BY <1>3 DEF Inv, Shape
  <2>5. \A x \in Tasks : pc'[x] = "row" => file'[Current(x)] # "none"
    BY <1>1, <2>1, <2>2, <2>4 DEF Inv, FileFirst
  <2> QED  BY <1>2, <2>3, <2>5 DEF FileFirst
<1> QED  BY <1>9, <1>10, <1>11, <1>12 DEF Inv

-----------------------------------------------------------------------------
(* A call is over, or has further messages to persist.                     *)
LEMMA AdvanceKeeps ==
  ASSUME Inv, NEW t \in Tasks, pc[t] \in Persisting, Advance(t),
         pc[t] = "write" => Current(t) \in torn', torn \subseteq torn',
         rows' \subseteq Uids, \A u \in rows' : file[u] # "none",
         UNCHANGED <<inbox, lastUid, tmp, file>>
  PROVE  Inv'
<1>1. Current(t) \in batch[t]
  BY CurrentIsUid
<1>2. CASE Return(t)
  BY <1>2, TaskKeeps DEF Return, Inv, Shape, Handles, Stages
<1>3. CASE ~Return(t)
  BY <1>1, <1>3, TaskKeeps DEF Advance, Inv, Shape, Busy, Handles, Stages, Persisting
<1> QED  BY <1>2, <1>3

LEMMA FetchingKeeps ==
  ASSUME Inv, NEW t \in Tasks,
         \/ t \in Syncs /\ (BeginNewer(t) \/ BeginOlder(t) \/ \E m \in {"newer", "older"} : BeginBlind(t, m))
         \/ Search(t) \/ Fetch(t) \/ RefreshFlags(t) \/ BeginFlags(t) \/ FetchFlags(t) \/ ApplyFlags(t) \/ Drop(t)
  PROVE  Inv'
<1>1. rows \subseteq Uids /\ \A u \in rows : file[u] # "none"
  BY DEF Inv, Shape, FileFirst
<1>2. CASE t \in Syncs /\ (BeginNewer(t) \/ BeginOlder(t) \/ \E m \in {"newer", "older"} : BeginBlind(t, m))
  BY <1>1, <1>2, TaskKeeps
     DEF BeginNewer, BeginOlder, BeginBlind, ReadEdge, Inv, Shape, Stages, server, table, disk, hist
<1>3. CASE Search(t)
  <2>1. Beyond(t) \subseteq Uids /\ Newest(Beyond(t), FetchCap(t)) \subseteq Beyond(t)
    BY DEF Beyond, Newest, Inv, Shape
  <2>2. t \in Syncs
    BY <1>3 DEF Search, Inv, Busy
  <2> QED  BY <1>1, <1>3, <2>1, <2>2, TaskKeeps
              DEF Search, Return, Inv, Shape, Stages, Handles, server, table, disk
<1>4. CASE Fetch(t)
  BY <1>1, <1>4, TaskKeeps DEF Fetch, Inv, Shape, Busy, Stages, server, table, disk, hist
<1>5. CASE RefreshFlags(t) \/ BeginFlags(t)
  <2>1. pc[t] \in {"ask", "idle"} /\ UNCHANGED <<server, table, disk, hist>>
    BY <1>5 DEF RefreshFlags, BeginFlags, ListRows
  <2>2. \/ Proceed(t)
        \/ pc' = [pc EXCEPT ![t] = "flags"] /\ UNCHANGED <<batch, handle>>
    BY <1>5 DEF RefreshFlags, BeginFlags, ListRows
  <2> QED  BY <1>1, <2>1, <2>2, TaskKeeps
              DEF Proceed, Return, Inv, Shape, Busy, Stages, Persisting, Handles, server, table, disk, hist
<1>6. CASE FetchFlags(t)
  BY <1>1, <1>6, TaskKeeps DEF FetchFlags, Inv, Shape, Busy, Stages, server, table, disk, hist
<1>7. CASE ApplyFlags(t)
  BY <1>1, <1>7, TaskKeeps
     DEF ApplyFlags, Proceed, Return, Inv, Shape, Busy, Stages, Persisting, Handles, server, disk, hist
<1>8. CASE Drop(t)
  BY <1>1, <1>8, TaskKeeps DEF Drop, Return, Inv, Shape, Stages, Handles, server, table, disk, hist
<1> QED  BY <1>2, <1>3, <1>4, <1>5, <1>6, <1>7, <1>8

LEMMA PersistKeeps ==
  ASSUME Inv, NEW t \in Tasks, Create(t) \/ Write(t) \/ Rename(t) \/ Insert(t) \/ Skip(t)
  PROVE  Inv'
<1>1. rows \subseteq Uids /\ \A u \in rows : file[u] # "none"
  BY DEF Inv, Shape, FileFirst
<1>2. CASE Create(t) \/ Write(t)
  BY <1>2, CreateKeeps, WriteKeeps
<1>3. CASE Rename(t)
  <2>1. CASE tmp[Current(t)] = "none"
    BY <1>1, <1>3, <2>1, AdvanceKeeps DEF Rename, Persisting, server, table, disk
  <2> QED  BY <1>3, <2>1, RenameKeeps
<1>4. CASE Insert(t)
  <2>1. Current(t) \in Uids /\ file[Current(t)] # "none"
    BY <1>4, CurrentIsUid DEF Insert, Persisting, Inv, FileFirst
  <2> QED  BY <1>1, <1>4, <2>1, AdvanceKeeps DEF Insert, Persisting, server, disk, hist
<1>5. CASE Skip(t)
  BY <1>1, <1>5, AdvanceKeeps DEF Skip, Truncated, Persisting, server, table, disk
<1> QED  BY <1>2, <1>3, <1>4, <1>5

(* The process ends: every writer is cut off.                              *)
LEMMA CrashKeeps == ASSUME Inv, Crash PROVE Inv'
<1>1. \A t \in Tasks : \A u, h : Holds(t, u, h) => u \in torn'
  BY DEF Crash, Holds, Truncated
<1>2. torn \subseteq torn' /\ UNCHANGED <<rows, tmp, file, inbox, lastUid>>
  BY DEF Crash, server, table, disk
<1>3. /\ pc' = [t \in Tasks |-> "idle"] /\ batch' = [t \in Tasks |-> {}]
      /\ handle' = [t \in Tasks |-> "none"]
  BY DEF Crash
<1>4. Shape' /\ Busy' /\ Open' /\ FileFirst'
  BY <1>2, <1>3 DEF Inv, Shape, Busy, Open, FileFirst, Holds, Stages, Persisting, Handles
<1>5. HalfTmp' /\ HalfFile'
  BY <1>1, <1>2 DEF Inv, HalfTmp, HalfFile
<1> QED  BY <1>4, <1>5 DEF Inv

LEMMA StepInv == Inv /\ [Next]_vars => Inv'
<1> SUFFICES ASSUME Inv, [Next]_vars PROVE Inv'
  OBVIOUS
<1>1. CASE \E c \in Cmds : \/ \E op \in Ops, u \in Uids : StartCmd(c, op, u)
                           \/ Remote(c) \/ RemoteFails(c) \/ Local(c)
  <2> PICK c \in Cmds : \/ \E op \in Ops, u \in Uids : StartCmd(c, op, u)
                        \/ Remote(c) \/ RemoteFails(c) \/ Local(c)
    BY <1>1
  <2>1. rows' \subseteq rows /\ inbox' \subseteq inbox /\ lastUid' = lastUid
        /\ UNCHANGED <<disk, tasks, torn>>
    BY DEF StartCmd, Remote, RemoteFails, Local, server, table, hist
  <2> QED  BY <2>1, OutsideKeeps DEF Inv, Shape, disk, tasks
<1>2. CASE Arrive \/ \E u \in Uids : OtherClient(u)
  <2>1. Arrive => lastUid' \in Uids /\ inbox' = inbox \cup {lastUid'}
    BY MailSyncAssumption DEF Arrive, Inv, Shape, Uids
  <2>2. (\E u \in Uids : OtherClient(u)) => lastUid' = lastUid /\ inbox' \subseteq inbox
    BY DEF OtherClient
  <2>3. rows' = rows /\ UNCHANGED <<disk, tasks, torn>>
    BY <1>2 DEF Arrive, OtherClient, table, hist
  <2>4. inbox \subseteq Uids /\ lastUid \in Nat /\ Uids \subseteq Nat
    BY DEF Inv, Shape, Uids
  <2>5. inbox' \subseteq Uids /\ lastUid' \in Nat
    BY <1>2, <2>1, <2>2, <2>4
  <2> QED  BY <2>3, <2>5, OutsideKeeps DEF disk, tasks
<1>3. CASE Crash
  BY <1>3, CrashKeeps
<1>4. CASE \E t \in Syncs : BeginNewer(t) \/ BeginOlder(t) \/ \E m \in {"newer", "older"} : BeginBlind(t, m)
  BY <1>4, FetchingKeeps DEF Tasks
<1>5. CASE \E t \in Polls : BeginFlags(t)
  BY <1>5, FetchingKeeps DEF Tasks
<1>6. CASE \E t \in Tasks : SyncStep(t) \/ Skip(t) \/ Drop(t)
  BY <1>6, FetchingKeeps, PersistKeeps DEF SyncStep
<1>7. CASE UNCHANGED vars
  BY <1>7, OutsideKeeps DEF Inv, Shape, vars, server, table, disk, tasks, hist
<1> QED  BY <1>1, <1>2, <1>3, <1>4, <1>5, <1>6, <1>7 DEF Next

(* The file of a row is whole, unless another sync that truncated the same *)
(* <uid>.tmp is about to write it, or such a one was cut off (store.rs     *)
(* write_atomic).                                                          *)
THEOREM FilesAreWhole == Spec => []TornOnlyWhileRewritten
<1>1. Inv => TornOnlyWhileRewritten
  <2> SUFFICES ASSUME Inv, NEW u \in rows, file[u] # "full", u \notin torn
               PROVE  \E t \in Syncs : Holds(t, u, "file")
    BY DEF TornOnlyWhileRewritten, Holds
  <2>1. u \in Uids /\ file[u] = "empty"
    BY DEF Inv, Shape, FileFirst, Contents
  <2>2. PICK t \in Tasks : Holds(t, u, "file")
    BY <2>1 DEF Inv, HalfFile
  <2>3. t \in Syncs
    BY <2>2 DEF Inv, Busy, Holds, Persisting
  <2> QED  BY <2>2, <2>3
<1> QED  BY <1>1, InitInv, StepInv, PTL DEF Spec

-----------------------------------------------------------------------------
(* The gaps between rows.                                                  *)

Modes == {"newer", "older"}
Missing == inbox \ (rows \cup removed \cup leftOut)

(* A call that has not begun to persist gives up without a trace; one that *)
(* can be resumed leaves nothing out when the process ends.                *)
Early(t)   == pc[t] \in {"fetch", "ask", "flags", "apply"}
MayStop(t) == Early(t) \/ Resumes(t)

(* Without the calls in T: what holds a message, what is below and above.  *)
About(t, m, e) == pc[t] = "search" /\ mode[t] = m /\ edge[t] = e /\ e # 0
HeldBy(T, u)   == \E t \in Tasks \ T : u \in batch[t]
Held0(T, u)    == u \in rows \/ HeldBy(T, u)
Under(T, u)    == \E a \in Nat : a < u /\ (Held0(T, a) \/ \E t \in Tasks : About(t, "older", a))
Over(T, u)     == \E b \in Nat : u < b /\ (Held0(T, b) \/ \E t \in Tasks : About(t, "newer", b))

(* What is missing between two messages that are held, or where a call is  *)
(* about to look from, is held by a call, and stays so if some calls that  *)
(* leave nothing out when they stop do so.                                 *)
Closed(T) == \A u \in Missing : Under(T, u) /\ Over(T, u) => HeldBy(T, u)
AllClosed == \A T \in SUBSET Tasks : (\A t \in T : MayStop(t)) => Closed(T)

Known ==
  /\ lastUid <= MaxUid /\ inbox \cup rows \subseteq 1..lastUid
  /\ \A t \in Tasks : batch[t] \subseteq 1..lastUid /\ edge[t] \in 0..lastUid
  /\ mode \in [Tasks -> Modes] /\ edge \in [Tasks -> Nat]

(* The row a call started from is there, unless the user took it away.     *)
Edges ==
  \A t \in Tasks :
    /\ edge[t] # 0 => edge[t] \in rows \cup removed
    /\ pc[t] = "idle" => edge[t] = 0
    /\ pc[t] \in {"idle", "search"} => batch[t] = {}
    /\ mode[t] = "newer" => \A m \in batch[t] : edge[t] < m

(* A call that can be resumed has all that is missing from its edge up.    *)
InOrder ==
  \A t \in Tasks : Resumes(t) =>
    \A m \in batch[t], u \in Missing : edge[t] < u /\ u < m => u \in batch[t]

(* What a move or delete is about was taken away by the user.              *)
Taken ==
  /\ cmd \in [Cmds -> [pc : {"idle", "remote", "local"}, op : Ops \cup {"none"}, uid : Nat]]
  /\ \A c \in Cmds : /\ cmd[c].op \in {"move", "delete"} => cmd[c].uid \in removed
                     /\ cmd[c].op = "none" => cmd[c].pc = "idle"

GapInv == Known /\ Edges /\ InOrder /\ Taken /\ AllClosed

-----------------------------------------------------------------------------
LEMMA MaxIs == ASSUME NEW n \in Nat, NEW S \in SUBSET (0..n), S # {} PROVE Max(S) \in S
<1> DEFINE M == {n - m : m \in S}
<1>1. M \in SUBSET Nat /\ M # {}
  <2>1. \A m \in S : n - m \in Nat
    OBVIOUS
  <2> QED  BY <2>1
<1>2. Min(M) \in M /\ \A m \in M : Min(M) <= m
  BY <1>1, MinIs
<1>3. PICK x \in S : n - x = Min(M)
  BY <1>2
<1>4. \A y \in S : n - x <= n - y
  BY <1>2, <1>3
<1>5. \A y \in S : x >= y
  BY <1>4
<1> QED  BY <1>5 DEF Max

(* Newest takes from the top.                                              *)
LEMMA NewestIs ==
  ASSUME NEW S \in SUBSET Uids, NEW n \in Nat
  PROVE  /\ Newest(S, n) \subseteq S
         /\ \A m \in Newest(S, n), u \in S : m < u => u \in Newest(S, n)
<1> SUFFICES ASSUME NEW m \in Newest(S, n), NEW u \in S, m < u PROVE u \in Newest(S, n)
  BY DEF Newest
<1> DEFINE A == {v \in S : v > u}
           B == {v \in S : v > m}
<1>1. IsFiniteSet(B)
  <2>1. IsFiniteSet(1..MaxUid)
    BY FS_Interval, MailSyncAssumption
  <2> QED  BY <2>1, FS_Subset DEF Uids
<1>2. A \subseteq B
  <2>1. S \subseteq Nat /\ m \in Nat /\ u \in Nat
    BY DEF Newest, Uids
  <2>2. \A v \in S : v > u => v > m
    BY <2>1
  <2> QED  BY <2>2
<1>3. Cardinality(A) <= Cardinality(B) /\ Cardinality(A) \in Nat /\ Cardinality(B) \in Nat
  BY <1>1, <1>2, FS_Subset, FS_CardinalityType
<1>4. Cardinality(B) < n
  BY DEF Newest
<1>5. Cardinality(A) < n
  BY <1>3, <1>4
<1> QED  BY <1>5 DEF Newest

LEMMA ClosedFrom ==
  ASSUME NEW T, NEW V, Closed(V),
         \A u \in Missing' : /\ u \in Missing
                             /\ Under(T, u)' => Under(V, u)
                             /\ Over(T, u)' => Over(V, u)
                             /\ HeldBy(V, u) => HeldBy(T, u)'
  PROVE  Closed(T)'
  BY DEF Closed

(* Steps of a call that neither begins to look nor ends, and lets go of    *)
(* what is not in the folder any more.                                     *)
LEMMA QuietGap ==
  ASSUME Inv, GapInv, NEW t \in Tasks, pc' \in [Tasks -> Stages],
         batch' \in [Tasks -> SUBSET Uids],
         \A x \in Tasks \ {t} : pc'[x] = pc[x] /\ batch'[x] = batch[x],
         pc[t] # "search", pc'[t] \notin {"search", "idle"},
         batch'[t] \subseteq batch[t], \A u \in batch[t] \cap inbox : u \in batch'[t],
         Early(t)' => Early(t) \/ batch[t] = {},
         UNCHANGED <<mode, edge, rows, inbox, lastUid, removed, leftOut, cmd>>
  PROVE  GapInv'
<1>1. Missing' = Missing /\ Missing \subseteq inbox
  BY DEF Missing
<1>2. \A x \in Tasks : Resumes(x)' <=> Resumes(x)
  BY DEF Resumes
<1>3. \A x \in Tasks : batch'[x] \subseteq batch[x] /\ \A u \in Missing : u \in batch[x] => u \in batch'[x]
  BY <1>1
<1>4. Known' /\ Taken'
  BY <1>3 DEF GapInv, Known, Taken
<1>5. Edges'
  BY <1>3 DEF GapInv, Edges
<1>6. InOrder'
  BY <1>1, <1>2, <1>3 DEF GapInv, InOrder
<1>7. ASSUME NEW T \in SUBSET Tasks, \A x \in T : MayStop(x)' PROVE Closed(T)'
  <2> DEFINE V == {x \in T : MayStop(x)}
  <2>1. \A x \in T \ V : batch[x] = {}
    BY <1>2, <1>7 DEF MayStop, Early
  <2>2. Closed(V)
    BY DEF GapInv, AllClosed
  <2> HIDE DEF V
  <2>3. V \subseteq T
    BY DEF V
  <2>4. \A u : HeldBy(T, u)' => HeldBy(V, u)
    BY <1>3, <2>3 DEF HeldBy
  <2>5. \A u \in Missing : HeldBy(V, u) => HeldBy(T, u)'
    BY <1>3, <2>1 DEF HeldBy
  <2>6. \A x \in Tasks : \A m, e : About(x, m, e)' => About(x, m, e)
    BY DEF About
  <2>7. \A u : (Under(T, u)' => Under(V, u)) /\ (Over(T, u)' => Over(V, u))
    BY <2>4, <2>6 DEF Under, Over, Held0
  <2> QED  BY <1>1, <2>2, <2>5, <2>7, ClosedFrom
<1> QED  BY <1>4, <1>5, <1>6, <1>7 DEF GapInv, AllClosed

(* A call returns before it has persisted anything.                        *)
LEMMA ReturnGap ==
  ASSUME Inv, GapInv, NEW t \in Tasks, Return(t), batch[t] = {} \/ Early(t),
         \A u \in inbox : u \in leftOut => u \in leftOut',
         UNCHANGED <<rows, inbox, lastUid, removed, cmd>>
  PROVE  GapInv'
<1>1. Missing' \subseteq Missing
  BY DEF Missing
<1>2. /\ pc'[t] = "idle" /\ mode'[t] = "newer" /\ edge'[t] = 0 /\ batch'[t] = {}
      /\ \A x \in Tasks \ {t} : pc'[x] = pc[x] /\ mode'[x] = mode[x] /\ edge'[x] = edge[x] /\ batch'[x] = batch[x]
  BY DEF Return, Inv, Shape, GapInv, Known
<1>3. \A x \in Tasks \ {t} : Resumes(x)' <=> Resumes(x)
  BY <1>2 DEF Resumes
<1>4. ~MayStop(t)'
  BY <1>2 DEF MayStop, Early, Resumes
<1>5. Known' /\ Taken'
  <2>1. mode' \in [Tasks -> Modes] /\ edge' \in [Tasks -> Nat]
    BY DEF Return, GapInv, Known, Modes
  <2>2. lastUid \in Nat
    BY DEF Inv, Shape
  <2> QED  BY <1>2, <2>1, <2>2 DEF GapInv, Known, Taken
<1>6. Edges'
  BY <1>2 DEF GapInv, Edges
<1>7. InOrder'
  BY <1>1, <1>2, <1>3 DEF GapInv, InOrder
<1>8. ASSUME NEW T \in SUBSET Tasks, \A x \in T : MayStop(x)' PROVE Closed(T)'
  <2> DEFINE V == IF Early(t) THEN T \cup {t} ELSE T
  <2>1. t \notin T
    BY <1>4, <1>8
  <2>2. \A x \in V : MayStop(x)
    BY <1>2, <1>3, <1>8, <2>1 DEF MayStop, Early
  <2>3. Closed(V)
    BY <2>2 DEF GapInv, AllClosed
  <2>4. T \subseteq V /\ V \subseteq T \cup {t} /\ (t \notin V => batch[t] = {})
    OBVIOUS
  <2> HIDE DEF V
  <2>5. \A u : HeldBy(T, u)' <=> HeldBy(V, u)
    BY <1>2, <2>1, <2>4 DEF HeldBy
  <2>6. \A x \in Tasks : \A m, e : About(x, m, e)' => About(x, m, e)
    BY <1>2 DEF About
  <2>7. \A u : (Under(T, u)' => Under(V, u)) /\ (Over(T, u)' => Over(V, u))
    BY <2>5, <2>6 DEF Under, Over, Held0
  <2> QED  BY <1>1, <2>3, <2>5, <2>7, ClosedFrom
<1> QED  BY <1>5, <1>6, <1>7, <1>8 DEF GapInv, AllClosed

(* A call reads its edge.                                                  *)
LEMMA BeginGap ==
  ASSUME Inv, GapInv, NEW t \in Tasks, pc[t] = "idle", pc' = [pc EXCEPT ![t] = "search"],
         NEW m \in Modes, mode' = [mode EXCEPT ![t] = m],
         NEW e, e \in rows \cup {0}, edge' = [edge EXCEPT ![t] = e],
         UNCHANGED <<batch, rows, inbox, lastUid, removed, leftOut, cmd>>
  PROVE  GapInv'
<1>1. Missing' = Missing
  BY DEF Missing
<1>2. /\ pc'[t] = "search" /\ mode'[t] = m /\ edge'[t] = e /\ batch[t] = {}
      /\ \A x \in Tasks \ {t} : pc'[x] = pc[x] /\ mode'[x] = mode[x] /\ edge'[x] = edge[x]
  BY DEF Inv, Shape, GapInv, Known, Edges
<1>3. \A x \in Tasks \ {t} : Resumes(x)' <=> Resumes(x)
  BY <1>2 DEF Resumes
<1>4. e \in Nat /\ e \in 0..lastUid
  BY DEF Inv, Shape, GapInv, Known, Uids
<1>5. Known' /\ Taken'
  BY <1>2, <1>4 DEF GapInv, Known, Taken
<1>6. Edges'
  BY <1>2 DEF GapInv, Edges
<1>7. InOrder'
  BY <1>1, <1>2, <1>3 DEF GapInv, InOrder
<1>8. ASSUME NEW T \in SUBSET Tasks, \A x \in T : MayStop(x)' PROVE Closed(T)'
  <2> DEFINE V == T \ {t}
  <2>1. \A x \in V : MayStop(x)
    BY <1>2, <1>3, <1>8 DEF MayStop, Early
  <2>2. Closed(V)
    BY <2>1 DEF GapInv, AllClosed
  <2> HIDE DEF V
  <2>3. \A u : HeldBy(T, u)' <=> HeldBy(V, u)
    BY <1>2 DEF HeldBy, V
  <2>4. \A x \in Tasks : \A n, f : About(x, n, f)' => About(x, n, f) \/ f \in rows
    BY <1>2 DEF About
  <2>5. \A u : (Under(T, u)' => Under(V, u)) /\ (Over(T, u)' => Over(V, u))
    BY <2>3, <2>4 DEF Under, Over, Held0
  <2> QED  BY <1>1, <2>2, <2>3, <2>5, ClosedFrom
<1> QED  BY <1>5, <1>6, <1>7, <1>8 DEF GapInv, AllClosed

(* SEARCH answers: what is cut off is left out if anything is below it.    *)
LEMMA SearchGap ==
  ASSUME Inv, GapInv, NEW t \in Tasks, pc[t] = "search",
         NEW picked, picked = Newest(Beyond(t), FetchCap(t)),
         pc' = [pc EXCEPT ![t] = "fetch"], batch' = [batch EXCEPT ![t] = picked],
         leftOut' = leftOut \cup {u \in Beyond(t) \ picked : \E r \in Held \cup Looking("older") : r < u},
         UNCHANGED <<mode, edge, rows, inbox, lastUid, removed, cmd>>
  PROVE  GapInv'
<1>1. /\ Beyond(t) \subseteq inbox /\ picked \subseteq Beyond(t) /\ inbox \subseteq Uids
      /\ \A m \in picked, u \in Beyond(t) : m < u => u \in picked
  <2>1. Beyond(t) \subseteq inbox /\ inbox \subseteq Uids
    BY DEF Beyond, Inv, Shape
  <2>2. FetchCap(t) \in Nat
    BY MailSyncAssumption DEF FetchCap
  <2> QED  BY <2>1, <2>2, NewestIs
<1>2. /\ pc'[t] = "fetch" /\ batch'[t] = picked /\ batch[t] = {}
      /\ \A x \in Tasks \ {t} : pc'[x] = pc[x] /\ batch'[x] = batch[x]
  BY DEF Inv, Shape, GapInv, Edges
<1>3. Missing' \subseteq Missing
  BY DEF Missing
<1>4. \A x \in Tasks : Resumes(x)' <=> Resumes(x)
  BY DEF Resumes
<1>5. \A u \in Missing' : \A r : r \in Held \cup Looking("older") /\ r < u => u \in picked \/ u \notin Beyond(t)
  BY DEF Missing
<1>6. /\ edge[t] \in Nat
      /\ edge[t] # 0 => edge[t] \in rows \cup removed
      /\ mode[t] \in Modes /\ Uids \subseteq Nat
  BY DEF GapInv, Known, Edges, Uids
<1>7. Known' /\ Taken'
  BY <1>1, <1>2 DEF GapInv, Known, Taken
<1>8. Edges'
  <2>1. mode[t] = "newer" => \A m \in picked : edge[t] < m
    BY <1>1 DEF Beyond, GapInv, Known
  <2> QED  BY <1>2, <2>1 DEF GapInv, Edges
<1>9. InOrder'
  <2> SUFFICES ASSUME NEW x \in Tasks, Resumes(x), NEW m \in batch'[x], NEW u \in Missing', edge[x] < u, u < m
               PROVE  u \in batch'[x]
    BY <1>4 DEF InOrder
  <2>1. CASE x = t
    <3>1. edge[t] \in rows /\ edge[t] \in Held
      BY <1>6, <2>1 DEF Resumes, Held
    <3>2. u \in Beyond(t)
      BY <1>3, <2>1 DEF Beyond, Missing, Resumes
    <3> QED  BY <1>2, <1>5, <2>1, <3>1, <3>2
  <2>2. CASE x # t
    BY <1>2, <1>3, <2>2 DEF GapInv, InOrder
  <2> QED  BY <2>1, <2>2
<1>10. ASSUME NEW T \in SUBSET Tasks, \A x \in T : MayStop(x)' PROVE Closed(T)'
  <2> DEFINE V == {x \in T : MayStop(x)}
  <2>1. \A x \in T \ V : x = t
    BY <1>2, <1>4, <1>10 DEF MayStop, Early
  <2>2. Closed(V)
    BY DEF GapInv, AllClosed
  <2>3. V \subseteq T
    OBVIOUS
  <2> HIDE DEF V
  <2>4. \A u : HeldBy(V, u) => HeldBy(T, u)'
    BY <1>2, <2>1 DEF HeldBy
  <2>5. \A u : HeldBy(T, u)' => HeldBy(V, u) \/ (t \notin T /\ u \in picked)
    BY <1>2, <2>3 DEF HeldBy
  <2>6. \A x \in Tasks : \A m, e : About(x, m, e)' => About(x, m, e)
    BY <1>2 DEF About
  <2> SUFFICES ASSUME NEW u \in Missing', Under(T, u)', Over(T, u)', ~HeldBy(T, u)' PROVE FALSE
    BY DEF Closed
  <2>7. u \in Missing /\ u \in Uids /\ u \in inbox /\ u # edge[t]
    <3>1. u \in Missing
      BY <1>3
    <3>2. u \in inbox /\ u \notin rows \cup removed
      BY <3>1 DEF Missing
    <3>3. u \in Uids
      BY <1>1, <3>2
    <3>4. u # 0
      BY <3>3 DEF Uids
    <3> QED  BY <1>6, <3>1, <3>2, <3>3, <3>4
  <2>8. t \notin T => u \notin picked
    BY <1>2 DEF HeldBy
  <2>9. Under(V, u)
    <3>1. PICK a \in Nat : a < u /\ (Held0(T, a)' \/ \E x \in Tasks : About(x, "older", a)')
      BY DEF Under
    <3>2. CASE t \notin T /\ a \in picked
      <4>1. u \notin Beyond(t)
        BY <1>1, <2>8, <3>1, <3>2
      <4>2. edge[t] # 0 /\ mode[t] = "older" /\ edge[t] < u
        BY <1>1, <1>6, <2>7, <3>1, <3>2, <4>1 DEF Beyond, Modes
      <4> QED  BY <1>6, <4>2 DEF Under, About
    <3>3. CASE ~(t \notin T /\ a \in picked)
      BY <2>5, <2>6, <3>1, <3>3 DEF Under, Held0
    <3> QED  BY <3>2, <3>3
  <2>10. t \notin T => u \notin Beyond(t)
    <3>1. PICK a \in Nat : a < u /\ (Held0(V, a) \/ \E x \in Tasks : About(x, "older", a))
      BY <2>9 DEF Under
    <3>2. a \in Held \cup Looking("older")
      BY <3>1 DEF Held0, HeldBy, Held, About, Looking
    <3> QED  BY <1>5, <2>8, <3>1, <3>2
  <2>11. Over(V, u)
    <3>1. PICK b \in Nat : u < b /\ (Held0(T, b)' \/ \E x \in Tasks : About(x, "newer", b)')
      BY DEF Over
    <3>2. CASE t \notin T /\ b \in picked
      <4>1. u \notin Beyond(t) /\ b \in Beyond(t)
        BY <1>1, <2>10, <3>2
      <4>2. edge[t] # 0 /\ ~(mode[t] = "older" /\ u < edge[t]) /\ ~(mode[t] = "newer" /\ u > edge[t])
        BY <2>7, <4>1 DEF Beyond
      <4>3. (mode[t] = "older" /\ b < edge[t]) \/ (mode[t] = "newer" /\ b > edge[t])
        BY <4>1, <4>2 DEF Beyond
      <4>4. mode[t] = "newer" /\ u < edge[t]
        BY <1>6, <2>7, <3>1, <4>2, <4>3 DEF Uids, Modes
      <4> QED  BY <1>6, <4>2, <4>4 DEF Over, About
    <3>3. CASE ~(t \notin T /\ b \in picked)
      BY <2>5, <2>6, <3>1, <3>3 DEF Over, Held0
    <3> QED  BY <3>2, <3>3
  <2> QED  BY <2>2, <2>4, <2>7, <2>9, <2>11 DEF Closed
<1> QED  BY <1>7, <1>8, <1>9, <1>10 DEF GapInv, AllClosed

(* A call is through with its oldest message: it has a row or is left out. *)
LEMMA AdvanceGap ==
  ASSUME Inv, GapInv, NEW t \in Tasks, pc[t] \in Persisting, Advance(t),
         rows \subseteq rows', rows' \subseteq rows \cup {Current(t)},
         leftOut \subseteq leftOut', Current(t) \in rows' \cup leftOut',
         UNCHANGED <<inbox, lastUid, removed, cmd>>
  PROVE  GapInv'
<1>1. PICK c : c = Current(t) /\ c \in batch[t] /\ c \in Nat /\ (\A m \in batch[t] : c <= m)
  <2>1. batch[t] # {} /\ batch[t] \in SUBSET Nat
    BY DEF Inv, Shape, Busy, Uids
  <2>2. Min(batch[t]) \in batch[t] /\ \A m \in batch[t] : Min(batch[t]) <= m
    BY <2>1, MinIs
  <2> QED  BY <2>1, <2>2 DEF Current
<1>2. /\ batch'[t] = batch[t] \ {c} /\ pc'[t] \in {"idle", "create"} /\ pc[t] \notin {"search", "idle"}
      /\ ~Early(t)
      /\ \/ batch'[t] = {} /\ mode'[t] = "newer" /\ edge'[t] = 0
         \/ pc'[t] = "create" /\ mode'[t] = mode[t] /\ edge'[t] = edge[t]
      /\ \A x \in Tasks \ {t} : pc'[x] = pc[x] /\ mode'[x] = mode[x] /\ edge'[x] = edge[x] /\ batch'[x] = batch[x]
  <2>1. pc \in [Tasks -> Stages] /\ batch \in [Tasks -> SUBSET Uids] /\ mode \in [Tasks -> Modes] /\ edge \in [Tasks -> Nat]
    BY DEF Inv, Shape, GapInv, Known
  <2>2. CASE batch[t] = {c}
    BY <1>1, <2>1, <2>2 DEF Advance, Return, Persisting, Early
  <2>3. CASE batch[t] # {c}
    BY <1>1, <2>1, <2>3 DEF Advance, Persisting, Early
  <2> QED  BY <2>2, <2>3
<1>3. mode' \in [Tasks -> Modes] /\ edge' \in [Tasks -> Nat]
  BY DEF Advance, Return, GapInv, Known, Modes
<1>4. Missing' \subseteq Missing /\ c \notin Missing'
  BY <1>1 DEF Missing
<1>5. /\ \A x \in Tasks \ {t} : Resumes(x)' <=> Resumes(x)
      /\ Resumes(t)' => Resumes(t) /\ pc'[t] = "create" /\ edge'[t] = edge[t]
  BY <1>2 DEF Resumes
<1>6. Known' /\ Taken'
  <2>1. c \in 1..lastUid
    BY <1>1 DEF GapInv, Known
  <2>2. rows' \subseteq 1..lastUid /\ inbox' \subseteq 1..lastUid
    BY <1>1, <2>1 DEF GapInv, Known
  <2>3. \A x \in Tasks : batch'[x] \subseteq 1..lastUid /\ edge'[x] \in 0..lastUid
    <3>1. lastUid \in Nat
      BY DEF Inv, Shape
    <3> QED  BY <1>2, <3>1 DEF GapInv, Known
  <2> QED  BY <1>3, <2>2, <2>3 DEF GapInv, Known, Taken
<1>7. Edges'
  BY <1>2 DEF GapInv, Edges
<1>8. InOrder'
  BY <1>2, <1>4, <1>5 DEF GapInv, InOrder
<1>9. ASSUME NEW T \in SUBSET Tasks, \A x \in T : MayStop(x)' PROVE Closed(T)'
  <2>1. \A x \in T : MayStop(x)
    BY <1>2, <1>5, <1>9 DEF MayStop, Early
  <2>2. t \in T => Resumes(t)
    BY <1>2, <2>1 DEF MayStop
  <2>3. Closed(T)
    BY <2>1 DEF GapInv, AllClosed
  <2>4. \A u : HeldBy(T, u)' => HeldBy(T, u)
    BY <1>2 DEF HeldBy
  <2>5. \A u \in Missing' : HeldBy(T, u) => HeldBy(T, u)'
    BY <1>2, <1>4 DEF HeldBy
  <2>6. \A x \in Tasks : \A m, e : About(x, m, e)' => About(x, m, e)
    BY <1>2 DEF About
  <2>7. \A a : Held0(T, a)' => Held0(T, a) \/ (a = c /\ t \in T)
    BY <1>1, <2>4 DEF Held0, HeldBy
  <2>8. t \in T => edge[t] \in rows /\ edge[t] < c /\ edge[t] \in Nat
    BY <1>1, <2>2 DEF Resumes, GapInv, Edges, Known
  <2>9. \A u \in Missing : u \in Nat /\ u \notin rows
    BY DEF Missing, Inv, Shape, Uids
  <2>10. ASSUME NEW u \in Missing', Under(T, u)' PROVE Under(T, u)
    <3>1. PICK a \in Nat : a < u /\ (Held0(T, a)' \/ \E x \in Tasks : About(x, "older", a)')
      BY <2>10 DEF Under
    <3>2. CASE a = c /\ t \in T
      BY <1>1, <1>4, <2>8, <2>9, <3>1, <3>2 DEF Under, Held0
    <3>3. CASE ~(a = c /\ t \in T)
      BY <2>6, <2>7, <3>1, <3>3 DEF Under
    <3> QED  BY <3>2, <3>3
  <2>11. ASSUME NEW u \in Missing', Over(T, u)' PROVE Over(T, u)
    <3>1. PICK b \in Nat : u < b /\ (Held0(T, b)' \/ \E x \in Tasks : About(x, "newer", b)')
      BY <2>11 DEF Over
    <3>2. CASE b = c /\ t \in T
      <4>1. u \in Nat /\ u # edge[t]
        BY <1>4, <2>8, <2>9, <3>2
      <4>2. ~(edge[t] < u)
        <5>1. edge[t] < u => u \in batch[t]
          BY <1>1, <1>4, <2>2, <3>1, <3>2 DEF GapInv, InOrder
        <5> QED  BY <1>1, <3>1, <3>2, <4>1, <5>1
      <4> QED  BY <2>8, <3>2, <4>1, <4>2 DEF Over, Held0
    <3>3. CASE ~(b = c /\ t \in T)
      BY <2>6, <2>7, <3>1, <3>3 DEF Over
    <3> QED  BY <3>2, <3>3
  <2> QED  BY <1>4, <2>3, <2>5, <2>10, <2>11, ClosedFrom
<1> QED  BY <1>6, <1>7, <1>8, <1>9 DEF GapInv, AllClosed

(* Commands, other clients and new messages: a row goes only with a        *)
(* message the user took away, and new messages are above all others.      *)
LEMMA OutsideGap ==
  ASSUME Inv, GapInv, Taken',
         rows' \subseteq rows, rows \ rows' \subseteq removed', removed \subseteq removed',
         lastUid' \in Nat, lastUid <= lastUid', lastUid' <= MaxUid, inbox' \subseteq 1..lastUid',
         \A u \in inbox' \ inbox : lastUid < u,
         UNCHANGED <<pc, mode, edge, batch, leftOut>>
  PROVE  GapInv'
<1>1. lastUid \in Nat
  BY DEF Inv, Shape
<1>2. \A u \in Missing' : u \in Nat /\ (u \in Missing \/ lastUid < u)
  BY DEF Missing
<1>3. \A x \in Tasks : Resumes(x)' => Resumes(x)
  BY DEF Resumes
<1>4. Known'
  <2>1. 1..lastUid \subseteq 1..lastUid' /\ 0..lastUid \subseteq 0..lastUid'
    BY <1>1
  <2>2. inbox' \cup rows' \subseteq 1..lastUid'
    BY <2>1 DEF GapInv, Known
  <2>3. \A x \in Tasks : batch[x] \subseteq 1..lastUid' /\ edge[x] \in 0..lastUid'
    BY <2>1 DEF GapInv, Known
  <2> QED  BY <2>2, <2>3 DEF GapInv, Known
<1>5. Edges'
  BY DEF GapInv, Edges
<1>6. InOrder'
  <2> SUFFICES ASSUME NEW x \in Tasks, Resumes(x), NEW m \in batch[x], NEW u \in Missing', edge[x] < u, u < m
               PROVE  u \in batch[x]
    BY <1>3 DEF InOrder
  <2>1. u \in Missing
    BY <1>1, <1>2 DEF GapInv, Known
  <2> QED  BY <2>1 DEF GapInv, InOrder
<1>7. ASSUME NEW T \in SUBSET Tasks, \A x \in T : MayStop(x)' PROVE Closed(T)'
  <2>1. Closed(T)
    BY <1>3, <1>7 DEF MayStop, Early, GapInv, AllClosed
  <2>2. \A u : /\ HeldBy(T, u)' <=> HeldBy(T, u)
               /\ Under(T, u)' => Under(T, u)
               /\ Over(T, u)' => Over(T, u)
    BY DEF HeldBy, Under, Over, Held0, About
  <2>3. \A b \in Nat : Held0(T, b) \/ (\E x \in Tasks : About(x, "newer", b)) => b <= lastUid
    BY <1>1 DEF Held0, HeldBy, About, GapInv, Known
  <2>4. \A u \in Missing' : Over(T, u)' => u \in Missing
    BY <1>1, <1>2, <2>2, <2>3 DEF Over
  <2> QED  BY <2>1, <2>2, <2>4 DEF Closed
<1> QED  BY <1>4, <1>5, <1>6, <1>7 DEF GapInv, AllClosed

(* The process ends: what cannot be resumed is left out.                   *)
LEMMA CrashGap == ASSUME Inv, GapInv, Crash PROVE GapInv'
<1>1. /\ \A t \in Tasks : pc'[t] = "idle" /\ mode'[t] = "newer" /\ edge'[t] = 0 /\ batch'[t] = {}
      /\ mode' \in [Tasks -> Modes] /\ edge' \in [Tasks -> Nat]
      /\ UNCHANGED <<rows, inbox, lastUid, removed>>
  BY DEF Crash, server, table, Modes
<1>2. /\ Missing' \subseteq Missing
      /\ \A u \in Missing', t \in Tasks : u \in batch[t] => Resumes(t)
  <2>1. leftOut' = leftOut \cup UNION {Unreachable(t) : t \in Tasks}
    BY DEF Crash
  <2>2. \A t \in Tasks : Unreachable(t) \subseteq leftOut'
    BY <2>1
  <2>3. \A t \in Tasks : \A u : u \in batch[t] => Resumes(t) \/ u \in leftOut'
    BY <2>2 DEF Unreachable
  <2> QED  BY <1>1, <2>1, <2>3 DEF Missing
<1>3. lastUid \in Nat
  BY DEF Inv, Shape
<1>4. Known'
  BY <1>1, <1>3 DEF GapInv, Known
<1>5. Taken'
  BY DEF Crash, Taken, NoCmd
<1>6. Edges' /\ InOrder'
  BY <1>1 DEF Edges, InOrder
<1>7. ASSUME NEW T \in SUBSET Tasks PROVE Closed(T)'
  <2> DEFINE V == {x \in Tasks : MayStop(x)}
  <2>1. Closed(V)
    BY DEF GapInv, AllClosed
  <2>2. \A u \in Missing' : ~HeldBy(V, u)
    BY <1>2 DEF HeldBy, MayStop
  <2> HIDE DEF V
  <2>3. \A a : Held0(T, a)' => Held0(V, a)
    BY <1>1 DEF Held0, HeldBy
  <2>4. \A x \in Tasks : \A m, e : ~About(x, m, e)'
    BY <1>1 DEF About
  <2>5. \A u : (Under(T, u)' => Under(V, u)) /\ (Over(T, u)' => Over(V, u))
    BY <2>3, <2>4 DEF Under, Over
  <2> QED  BY <1>2, <2>1, <2>2, <2>5, ClosedFrom
<1> QED  BY <1>4, <1>5, <1>6, <1>7 DEF GapInv, AllClosed

-----------------------------------------------------------------------------
LEMMA ProceedGap ==
  ASSUME Inv, GapInv, NEW t \in Tasks, pc[t] \in {"idle", "ask", "apply"}, Proceed(t),
         UNCHANGED <<rows, inbox, lastUid, removed, leftOut, cmd>>
  PROVE  GapInv'
<1>1. CASE batch[t] = {}
  BY <1>1, ReturnGap DEF Proceed
<1>2. CASE batch[t] # {}
  <2>1. pc[t] # "idle" /\ pc' = [pc EXCEPT ![t] = "create"] /\ UNCHANGED <<mode, edge, batch>>
    BY <1>2 DEF Proceed, GapInv, Edges
  <2>2. pc' \in [Tasks -> Stages] /\ batch' \in [Tasks -> SUBSET Uids] /\ pc'[t] = "create"
        /\ \A x \in Tasks \ {t} : pc'[x] = pc[x] /\ batch'[x] = batch[x]
    BY <2>1 DEF Inv, Shape, Stages, Persisting
  <2>3. ~Early(t)'
    BY <2>2 DEF Early
  <2> QED  BY <2>1, <2>2, <2>3, QuietGap
<1> QED  BY <1>1, <1>2

LEMMA FetchingGap ==
  ASSUME Inv, GapInv, NEW t \in Tasks,
         \/ BeginNewer(t) \/ BeginOlder(t) \/ \E m \in {"newer", "older"} : BeginBlind(t, m)
         \/ Search(t) \/ Fetch(t) \/ RefreshFlags(t) \/ BeginFlags(t) \/ FetchFlags(t) \/ ApplyFlags(t) \/ Drop(t)
  PROVE  GapInv'
<1>1. /\ pc \in [Tasks -> Stages] /\ batch \in [Tasks -> SUBSET Uids] /\ edge \in [Tasks -> Nat]
      /\ pc[t] = "idle" => edge[t] = 0 /\ batch[t] = {}
  BY DEF Inv, Shape, GapInv, Known, Edges
<1>2. ASSUME NEW m \in Modes, ReadEdge(t, m) PROVE GapInv'
  <2>1. rows \in SUBSET Nat /\ rows \in SUBSET (0..MaxUid) /\ MaxUid \in Nat
    BY MailSyncAssumption DEF Inv, Shape, Uids
  <2>2. PICK e : e = IF rows = {} THEN 0 ELSE IF m = "older" THEN Min(rows) ELSE Max(rows)
    OBVIOUS
  <2>3. e \in rows \cup {0}
    BY <2>1, <2>2, MinIs, MaxIs
  <2>4. /\ pc[t] = "idle" /\ pc' = [pc EXCEPT ![t] = "search"]
        /\ mode' = [mode EXCEPT ![t] = m] /\ edge' = [edge EXCEPT ![t] = e]
        /\ UNCHANGED <<batch, rows, inbox, lastUid, removed, leftOut, cmd>>
    BY <1>2, <2>2 DEF ReadEdge, server, table, hist
  <2> QED  BY <2>3, <2>4, BeginGap
<1>3. CASE BeginNewer(t) \/ BeginOlder(t)
  BY <1>2, <1>3 DEF BeginNewer, BeginOlder, Modes
<1>4. ASSUME NEW m \in Modes, BeginBlind(t, m) PROVE GapInv'
  <2>1. edge' = [edge EXCEPT ![t] = 0]
    BY <1>1, <1>4 DEF BeginBlind
  <2>2. /\ pc[t] = "idle" /\ pc' = [pc EXCEPT ![t] = "search"] /\ mode' = [mode EXCEPT ![t] = m]
        /\ UNCHANGED <<batch, rows, inbox, lastUid, removed, leftOut, cmd>>
    BY <1>4 DEF BeginBlind, server, table, hist
  <2> QED  BY <2>1, <2>2, BeginGap
<1>5. CASE Search(t)
  <2>1. PICK picked : picked = Newest(Beyond(t), FetchCap(t))
    OBVIOUS
  <2>2. /\ pc[t] = "search"
        /\ leftOut' = leftOut \cup {u \in Beyond(t) \ picked : \E r \in Held \cup Looking("older") : r < u}
        /\ UNCHANGED <<rows, inbox, lastUid, removed, cmd>>
    BY <1>5, <2>1 DEF Search, server, table
  <2>3. CASE picked = {}
    <3>1. Return(t) /\ batch[t] = {}
      BY <1>5, <2>1, <2>2, <2>3 DEF Search, GapInv, Edges
    <3> QED  BY <2>2, <3>1, ReturnGap
  <2>4. CASE picked # {}
    <3>1. /\ pc' = [pc EXCEPT ![t] = "fetch"] /\ batch' = [batch EXCEPT ![t] = picked]
          /\ UNCHANGED <<mode, edge>>
      BY <1>5, <2>1, <2>4 DEF Search
    <3> QED  BY <2>1, <2>2, <3>1, SearchGap
  <2> QED  BY <2>3, <2>4
<1>6. CASE Fetch(t)
  <2>1. /\ pc[t] = "fetch" /\ pc' = [pc EXCEPT ![t] = "ask"] /\ batch' = [batch EXCEPT ![t] = @ \cap inbox]
        /\ UNCHANGED <<mode, edge, rows, inbox, lastUid, removed, leftOut, cmd>>
    BY <1>6 DEF Fetch, server, table, hist
  <2>2. pc' \in [Tasks -> Stages] /\ batch' \in [Tasks -> SUBSET Uids]
    BY <1>1, <2>1 DEF Stages
  <2>3. Early(t)
    BY <2>1 DEF Early
  <2> QED  BY <1>1, <2>1, <2>2, <2>3, QuietGap
<1>7. CASE RefreshFlags(t) \/ BeginFlags(t)
  <2>1. pc[t] \in {"ask", "idle"} /\ UNCHANGED <<rows, inbox, lastUid, removed, leftOut, cmd>>
    BY <1>7 DEF RefreshFlags, BeginFlags, ListRows, server, table, hist
  <2>2. CASE Proceed(t)
    BY <2>1, <2>2, ProceedGap
  <2>3. CASE ~Proceed(t)
    <3>1. pc' = [pc EXCEPT ![t] = "flags"] /\ UNCHANGED <<mode, edge, batch>>
      BY <1>7, <2>3 DEF RefreshFlags, BeginFlags, ListRows
    <3>2. pc' \in [Tasks -> Stages] /\ batch' \in [Tasks -> SUBSET Uids]
      BY <1>1, <3>1 DEF Stages
    <3>3. Early(t) \/ batch[t] = {}
      BY <1>1, <2>1 DEF Early
    <3> QED  BY <1>1, <2>1, <3>1, <3>2, <3>3, QuietGap
  <2> QED  BY <2>2, <2>3
<1>8. CASE FetchFlags(t)
  <2>1. /\ pc[t] = "flags" /\ pc' = [pc EXCEPT ![t] = "apply"]
        /\ UNCHANGED <<mode, edge, batch, rows, inbox, lastUid, removed, leftOut, cmd>>
    BY <1>8 DEF FetchFlags, server, table, hist
  <2>2. pc' \in [Tasks -> Stages] /\ batch' \in [Tasks -> SUBSET Uids]
    BY <1>1, <2>1 DEF Stages
  <2>3. Early(t)
    BY <2>1 DEF Early
  <2> QED  BY <1>1, <2>1, <2>2, <2>3, QuietGap
<1>9. CASE ApplyFlags(t)
  BY <1>9, ProceedGap DEF ApplyFlags, server, hist
<1>10. CASE Drop(t)
  <2>1. /\ pc[t] \in {"search", "fetch", "flags", "apply"} /\ Return(t)
        /\ UNCHANGED <<rows, inbox, lastUid, removed, leftOut, cmd>>
    BY <1>10 DEF Drop, server, table, hist
  <2>2. batch[t] = {} \/ Early(t)
    BY <2>1 DEF Early, GapInv, Edges
  <2> QED  BY <2>1, <2>2, ReturnGap
<1> QED  BY <1>3, <1>4, <1>5, <1>6, <1>7, <1>8, <1>9, <1>10 DEF Modes

LEMMA PersistGap ==
  ASSUME Inv, GapInv, NEW t \in Tasks, Create(t) \/ Write(t) \/ Rename(t) \/ Insert(t) \/ Skip(t)
  PROVE  GapInv'
<1>1. ASSUME NEW s \in {"write", "rename", "row"}, pc[t] \in Persisting, pc' = [pc EXCEPT ![t] = s],
             UNCHANGED <<batch, mode, edge, rows, inbox, lastUid, removed, leftOut, cmd>>
      PROVE  GapInv'
  <2>1. pc' \in [Tasks -> Stages] /\ batch' \in [Tasks -> SUBSET Uids] /\ pc'[t] = s
        /\ \A x \in Tasks \ {t} : pc'[x] = pc[x] /\ batch'[x] = batch[x]
    BY <1>1 DEF Inv, Shape, Stages, Persisting
  <2>2. ~Early(t)'
    BY <2>1 DEF Early
  <2>3. pc[t] # "search" /\ s \notin {"search", "idle"}
    BY <1>1 DEF Persisting
  <2> QED  BY <1>1, <2>1, <2>2, <2>3, QuietGap
<1>2. CASE Create(t)
  BY <1>1, <1>2 DEF Create, Persisting, server, table, hist
<1>3. CASE Write(t)
  BY <1>1, <1>3 DEF Write, Persisting, server, table, hist
<1>4. CASE Rename(t) /\ tmp[Current(t)] # "none"
  BY <1>1, <1>4 DEF Rename, Persisting, server, table
<1>5. CASE Rename(t) /\ tmp[Current(t)] = "none"
  BY <1>5, AdvanceGap DEF Rename, Persisting, server, table
<1>6. CASE Insert(t)
  BY <1>6, AdvanceGap DEF Insert, Persisting, server, hist
<1>7. CASE Skip(t)
  BY <1>7, AdvanceGap DEF Skip, Persisting, server, table
<1> QED  BY <1>2, <1>3, <1>4, <1>5, <1>6, <1>7

LEMMA CommandGap ==
  ASSUME Inv, GapInv, NEW c \in Cmds,
         (\E op \in Ops, u \in Uids : StartCmd(c, op, u)) \/ Remote(c) \/ RemoteFails(c) \/ Local(c)
  PROVE  GapInv'
<1>1. UNCHANGED <<pc, mode, edge, batch, leftOut, lastUid>> /\ inbox' \subseteq inbox
  BY DEF StartCmd, Remote, RemoteFails, Local, server, tasks, hist
<1>2. lastUid \in Nat /\ lastUid <= MaxUid /\ inbox \subseteq 1..lastUid
  BY DEF Inv, Shape, GapInv, Known
<1>3. Taken
  BY DEF GapInv
<1>4. ASSUME rows' \subseteq rows, rows \ rows' \subseteq removed', removed \subseteq removed', Taken' PROVE GapInv'
  <2>1. inbox' \subseteq 1..lastUid' /\ \A u \in inbox' \ inbox : lastUid < u
    BY <1>1, <1>2
  <2> QED  BY <1>1, <1>2, <1>4, <2>1, OutsideGap
<1>5. ASSUME NEW op \in Ops, NEW u \in Uids, StartCmd(c, op, u) PROVE GapInv'
  <2>1. cmd' = [cmd EXCEPT ![c] = [pc |-> "remote", op |-> op, uid |-> u]]
        /\ removed' = IF op \in {"move", "delete"} THEN removed \cup {u} ELSE removed
    BY <1>5 DEF StartCmd
  <2>2. PICK r : r = [pc |-> "remote", op |-> op, uid |-> u]
    OBVIOUS
  <2>3. r \in [pc : {"idle", "remote", "local"}, op : Ops \cup {"none"}, uid : Nat] /\ r.op = op /\ r.uid = u
    BY <2>2 DEF Uids
  <2>4. op # "none"
    BY DEF Ops
  <2>5. Taken'
    BY <1>3, <2>1, <2>2, <2>3, <2>4 DEF Taken
  <2>6. rows' \subseteq rows /\ rows \ rows' \subseteq removed'
    BY <1>5, <2>1 DEF StartCmd, table
  <2> QED  BY <1>4, <2>1, <2>5, <2>6
<1>6. CASE Remote(c)
  <2>1. cmd' = [cmd EXCEPT ![c].pc = "local"] /\ UNCHANGED <<rows, removed>> /\ cmd[c].pc = "remote"
    BY <1>6 DEF Remote, table, hist
  <2>2. Taken'
    BY <1>3, <2>1 DEF Taken
  <2> QED  BY <1>4, <2>1, <2>2
<1>7. CASE RemoteFails(c) \/ Local(c)
  <2>1. cmd' = [cmd EXCEPT ![c] = NoCmd] /\ removed' = removed
    BY <1>7 DEF RemoteFails, Local, hist
  <2>2. NoCmd \in [pc : {"idle", "remote", "local"}, op : Ops \cup {"none"}, uid : Nat]
        /\ NoCmd.op = "none" /\ NoCmd.pc = "idle"
    BY DEF NoCmd
  <2>3. Taken'
    BY <1>3, <2>1, <2>2 DEF Taken
  <2>4. rows' \subseteq rows /\ rows \ rows' \subseteq removed
    <3>1. CASE RemoteFails(c)
      BY <3>1 DEF RemoteFails, table
    <3>2. CASE Local(c)
      <4>1. cmd[c].pc = "local" /\ cmd[c].op \in Ops \cup {"none"}
        BY <1>3, <3>2 DEF Local, Taken
      <4>2. cmd[c].op \in Ops
        BY <1>3, <4>1 DEF Taken
      <4>3. CASE cmd[c].op \in {"see", "unsee"}
        BY <3>2, <4>3 DEF Local
      <4>4. CASE cmd[c].op \in {"move", "delete"}
        <5>1. rows' = rows \ {cmd[c].uid}
          BY <3>2, <4>4 DEF Local
        <5> QED  BY <1>3, <4>4, <5>1 DEF Taken
      <4> QED  BY <4>2, <4>3, <4>4 DEF Ops
    <3> QED  BY <1>7, <3>1, <3>2
  <2> QED  BY <1>4, <2>1, <2>3, <2>4
<1> QED  BY <1>5, <1>6, <1>7

LEMMA InitGap == Init => GapInv
<1> SUFFICES ASSUME Init PROVE GapInv
  OBVIOUS
<1>1. /\ \A t \in Tasks : pc[t] = "idle" /\ mode[t] = "newer" /\ edge[t] = 0 /\ batch[t] = {}
      /\ mode \in [Tasks -> Modes] /\ edge \in [Tasks -> Nat] /\ rows = {}
      /\ lastUid = StartUid /\ inbox = 1..StartUid /\ cmd = [c \in Cmds |-> NoCmd]
  BY DEF Init, Modes
<1>2. Known
  BY <1>1, MailSyncAssumption DEF Known
<1>3. Edges /\ InOrder
  BY <1>1 DEF Edges, InOrder
<1>4. Taken
  BY <1>1 DEF Taken, NoCmd
<1>5. AllClosed
  BY <1>1 DEF AllClosed, Closed, Under, Held0, HeldBy, About
<1> QED  BY <1>2, <1>3, <1>4, <1>5 DEF GapInv

LEMMA StepGap == Inv /\ GapInv /\ [Next]_vars => GapInv'
<1> SUFFICES ASSUME Inv, GapInv, [Next]_vars PROVE GapInv'
  OBVIOUS
<1>1. lastUid \in Nat /\ lastUid <= MaxUid /\ inbox \subseteq 1..lastUid /\ MaxUid \in Nat
  BY MailSyncAssumption DEF Inv, Shape, GapInv, Known
<1>2. Taken
  BY DEF GapInv
<1>3. CASE \E c \in Cmds : \/ \E op \in Ops, u \in Uids : StartCmd(c, op, u)
                           \/ Remote(c) \/ RemoteFails(c) \/ Local(c)
  BY <1>3, CommandGap
<1>4. CASE Arrive
  <2>1. lastUid' = lastUid + 1 /\ lastUid < MaxUid /\ inbox' = inbox \cup {lastUid + 1}
        /\ UNCHANGED <<pc, mode, edge, batch, leftOut, rows, removed, cmd>>
    BY <1>4 DEF Arrive, table, tasks, hist
  <2>2. Taken'
    BY <1>2, <2>1 DEF Taken
  <2>3. lastUid' \in Nat /\ lastUid <= lastUid' /\ lastUid' <= MaxUid /\ inbox' \subseteq 1..lastUid'
        /\ \A u \in inbox' \ inbox : lastUid < u
    BY <1>1, <2>1
  <2> QED  BY <2>1, <2>2, <2>3, OutsideGap
<1>5. CASE (\E u \in Uids : OtherClient(u)) \/ UNCHANGED vars
  <2>1. lastUid' = lastUid /\ inbox' \subseteq inbox
        /\ UNCHANGED <<pc, mode, edge, batch, leftOut, rows, removed, cmd>>
    BY <1>5 DEF OtherClient, vars, server, table, tasks, hist
  <2>2. Taken'
    BY <1>2, <2>1 DEF Taken
  <2>3. lastUid' \in Nat /\ lastUid <= lastUid' /\ lastUid' <= MaxUid /\ inbox' \subseteq 1..lastUid'
        /\ \A u \in inbox' \ inbox : lastUid < u
    BY <1>1, <2>1
  <2> QED  BY <2>1, <2>2, <2>3, OutsideGap
<1>6. CASE Crash
  BY <1>6, CrashGap
<1>7. CASE \E t \in Syncs : BeginNewer(t) \/ BeginOlder(t) \/ \E m \in {"newer", "older"} : BeginBlind(t, m)
  BY <1>7, FetchingGap DEF Tasks
<1>8. CASE \E t \in Polls : BeginFlags(t)
  BY <1>8, FetchingGap DEF Tasks
<1>9. CASE \E t \in Tasks : SyncStep(t) \/ Skip(t) \/ Drop(t)
  BY <1>9, FetchingGap, PersistGap DEF SyncStep
<1> QED  BY <1>3, <1>4, <1>5, <1>6, <1>7, <1>8, <1>9 DEF Next

(* sync_folder never looks between MIN(uid) and MAX(uid) again, and yet    *)
(* concurrent calls, crashes and deletes open no gap there: a message of   *)
(* the folder between two rows has a row, was taken away by the user, was  *)
(* passed over by a cap or an error, or is about to be stored by a call.   *)
THEOREM NoGapOpens == Spec => []NoGap
<1>1. Inv /\ GapInv => NoGap
  <2> SUFFICES ASSUME Inv, GapInv, NEW u \in inbox \ rows, NEW a \in rows, NEW b \in rows, a < u, u < b,
                      u \notin removed \cup leftOut
               PROVE  \E t \in Syncs : u \in batch[t]
    BY DEF NoGap
  <2>1. u \in Missing /\ a \in Nat /\ b \in Nat
    BY DEF Missing, Inv, Shape, Uids
  <2>2. Under({}, u) /\ Over({}, u)
    BY <2>1 DEF Under, Over, Held0
  <2>3. Closed({})
    BY DEF GapInv, AllClosed
  <2>4. PICK t \in Tasks : u \in batch[t]
    BY <2>1, <2>2, <2>3 DEF Closed, HeldBy
  <2> QED  BY <2>4 DEF Inv, Busy
<1> QED  BY <1>1, InitInv, StepInv, InitGap, StepGap, PTL DEF Spec
=============================================================================
