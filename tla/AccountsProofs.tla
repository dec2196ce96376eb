--------------------------- MODULE AccountsProofs ---------------------------
(***************************************************************************)
(* Theorems about Accounts, for every set of addresses, sign-ins, removals *)
(* and callers and every number of faults: the type invariant, that no row *)
(* points at a missing Keychain item, that every leftover item has one of  *)
(* the known causes, and that every account has a supervisor.              *)
(***************************************************************************)
EXTENDS Accounts, FiniteSetTheorems, TLAPS

(* What a stage says of the locals and of a row: an account has a kref, a  *)
(* sign-in is for an address and has a kref once its tokens are stored, a  *)
(* removal drops only a kref it has read.                                  *)
LoginShape(x) ==
  /\ x.pc \in {"select", "write"} => x.kref # 0
  /\ x.pc # "idle" => x.email \in Emails

Shapes ==
  /\ \A e \in Emails : row[e].id = 0 <=> row[e].kref = 0
  /\ \A l \in Logins : LoginShape(login[l])
  /\ \A r \in Removals : removal[r].pc = "drop" => removal[r].kref # 0

(* Whose a kref is. A sign-in that has not written its row is alone with   *)
(* its tokens; a spawned deletion and a removal past its DELETE hold krefs *)
(* no row has; a removal before its DELETE holds one that only the account *)
(* it removes may have.                                                    *)
Writing(l) == login[l].pc \in {"select", "write"}

RowsDiffer ==
  \A e, f \in Emails : row[e].kref = row[f].kref /\ row[e].kref # 0 => e = f

Unshared ==
  \A l \in Logins : Writing(l) =>
    /\ login[l].kref \in items /\ login[l].kref \notin cleanup
    /\ \A e \in Emails : row[e].kref # login[l].kref
    /\ \A m \in Logins : Writing(m) /\ m # l => login[m].kref # login[l].kref
    /\ \A r \in Removals : removal[r].kref # login[l].kref

DoomedNotOwned ==
  /\ \A e \in Emails : row[e].kref \notin cleanup
  /\ \A r \in Removals, e \in Emails :
       row[e].kref = removal[r].kref /\ row[e].kref # 0 =>
         removal[r].pc = "delete" /\ row[e].id = removal[r].id

Ownership == RowsDiffer /\ Unshared /\ DoomedNotOwned /\ NoDanglingRow

(* OrphansKnown, but of sign-ins and removals only those that will still   *)
(* turn to the item: this is what each step keeps.                         *)
Claimed(k) ==
  \/ \E e \in Emails : row[e].kref = k
  \/ k \in cleanup \cup given_up
  \/ \E l \in Logins : Writing(l) /\ login[l].kref = k
  \/ \E r \in Removals : removal[r].pc = "drop" /\ removal[r].kref = k

Accounted == \A k \in items : Claimed(k)

-----------------------------------------------------------------------------
(* What resolve_account reads is a kref some row of that account has.      *)
LEMMA KrefOfRow ==
  ASSUME TypeOK, NEW id
  PROVE  \/ KrefOf(id) = 0
         \/ \E e \in Emails : row[e].id = id /\ id # 0 /\ KrefOf(id) = row[e].kref
  BY DEF KrefOf, RowOf

LEMMA KrefOfType ==
  ASSUME TypeOK, NEW id
  PROVE  KrefOf(id) \in 0..krefs
<1>1. 0 \in 0..krefs
  BY DEF TypeOK
<1>2. \A e \in Emails : row[e].kref \in 0..krefs
  BY DEF TypeOK
<1> QED BY <1>1, <1>2, KrefOfRow

(* One task's turn keeps the types when its new locals are well formed.    *)
Locals == [pc : TaskStages, id : 0..ids, kref : 0..krefs, phase : Phases]
TaskType(x) == x \in Locals /\ (x.kref = 0 <=> x.pc \in {"none", "resolve"})

LEMMA SupervisedType ==
  ASSUME TypeOK, NEW i \in 0..ids
  PROVE  TaskType(Supervised(i)) /\ TaskType(NoTask)
<1>1. 0 \in 0..ids /\ 0 \in 0..krefs
  BY DEF TypeOK
<1> QED BY <1>1 DEF TaskType, Locals, TaskStages, Phases, Supervised, NoTask

LEMMA TaskOf ==
  ASSUME TypeOK, NEW t \in Tasks
  PROVE  TaskType(task[t])
  BY DEF TypeOK, TaskType, Locals

LEMMA AfterType ==
  ASSUME TypeOK, NEW t \in Tasks, task[t].pc \in {"load", "refresh"}, NEW ok
  PROVE  TaskType(GiveUp(t)) /\ TaskType(After(t, ok))
<1>0. TaskType(task[t])
  BY TaskOf
<1>1. TaskType(GiveUp(t))
  <2>1. task[t].id \in 0..ids
    BY <1>0 DEF TaskType, Locals
  <2> QED BY <2>1, SupervisedType DEF GiveUp
<1>2. /\ TaskType([task[t] EXCEPT !.pc = "load", !.phase = "idle"])
      /\ TaskType([task[t] EXCEPT !.pc = "load", !.phase = "resync"])
  BY <1>0 DEF TaskType, Locals, TaskStages, Phases
<1> QED BY <1>1, <1>2 DEF After

LEMMA TaskTurn ==
  ASSUME TypeOK, NEW t \in Tasks, NEW x, TaskType(x), task' = [task EXCEPT ![t] = x]
  PROVE  /\ task' \in [Tasks -> Locals]
         /\ \A u \in Tasks : task'[u].kref = 0 <=> task'[u].pc \in {"none", "resolve"}
  BY DEF TypeOK, TaskType, Locals

-----------------------------------------------------------------------------
LEMMA TypeInit == Init => TypeOK /\ Shapes
<1> SUFFICES ASSUME Init PROVE TypeOK /\ Shapes
  OBVIOUS
<1>1. 0 \in 0..0 /\ 0 \in 0..MaxFaults
  BY AccountsAssumption
<1>2. TypeOK
  BY <1>1 DEF Init, TypeOK, NoRow, NoLogin, NoRemoval, NoTask, LoginStages, TaskStages, Phases
<1> QED BY <1>2 DEF Init, Shapes, LoginShape, NoRow, NoLogin, NoRemoval

(* The locals of one sign-in, and of one removal, as TypeOK has them.      *)
LoginLocals   == [pc : LoginStages, email : Emails \cup {"none"}, kref : 0..krefs, found : 0..ids]
RemovalLocals == [pc : {"idle", "delete", "drop"}, id : 0..ids, kref : 0..krefs]

LEMMA IdleType ==
  ASSUME TypeOK
  PROVE  NoLogin \in LoginLocals /\ NoRemoval \in RemovalLocals
  BY DEF TypeOK, LoginLocals, RemovalLocals, NoLogin, NoRemoval, LoginStages

(* A sign-in's turn keeps the types when its new locals are well formed.   *)
LEMMA LoginTurn ==
  ASSUME TypeOK, Shapes, NEW l \in Logins, NEW x \in LoginLocals, LoginShape(x),
         login' = [login EXCEPT ![l] = x],
         UNCHANGED <<row, items, removal, cleanup, task, boot, krefs, ids, given_up>>,
         faults' \in 0..MaxFaults
  PROVE  TypeOK' /\ Shapes'
<1>1. TypeOK'
  BY DEF TypeOK, LoginLocals
<1>2. \A m \in Logins : login'[m] = IF m = l THEN x ELSE login[m]
  BY DEF TypeOK
<1> QED BY <1>1, <1>2 DEF Shapes, LoginShape

(* Steps of a sign-in.                                                     *)
LEMMA TypeLogin ==
  ASSUME TypeOK, Shapes, NEW l \in Logins,
         \/ \E e \in Emails : Start(l, e)
         \/ Complete(l) \/ LoginStep(l) \/ StoreFails(l) \/ WriteFails(l)
  PROVE  TypeOK' /\ Shapes'
<1>0. /\ login[l] \in LoginLocals /\ LoginShape(login[l])
      /\ NoLogin \in LoginLocals /\ LoginShape(NoLogin)
      /\ 0 \in 0..krefs /\ 0 \in 0..ids /\ faults \in 0..MaxFaults
  <2>1. login[l] \in LoginLocals
    BY DEF TypeOK, LoginLocals
  <2>2. LoginShape(login[l])
    BY DEF Shapes
  <2>3. LoginShape(NoLogin)
    BY DEF LoginShape, NoLogin
  <2>4. 0 \in 0..krefs /\ 0 \in 0..ids /\ faults \in 0..MaxFaults
    BY DEF TypeOK
  <2> QED BY <2>1, <2>2, <2>3, <2>4, IdleType
<1>a. Fault => faults' \in 0..MaxFaults
  BY AccountsAssumption DEF Fault, TypeOK
<1>1. ASSUME NEW e \in Emails, Start(l, e) PROVE TypeOK' /\ Shapes'
  <2> DEFINE x == [pc |-> "pending", email |-> e, kref |-> 0, found |-> 0]
  <2>1. x \in LoginLocals /\ LoginShape(x)
    BY <1>0 DEF LoginLocals, LoginStages, LoginShape
  <2> QED BY <1>0, <1>1, <2>1, LoginTurn DEF Start, Account
<1>2. CASE Complete(l)
  <2> DEFINE x == [login[l] EXCEPT !.pc = "waiting"]
  <2>1. x \in LoginLocals /\ LoginShape(x)
    BY <1>0, <1>2 DEF LoginLocals, LoginStages, LoginShape, Complete
  <2>2. login' = [login EXCEPT ![l] = x]
    BY <1>2 DEF Complete, TypeOK
  <2> QED BY <1>0, <1>2, <2>1, <2>2, LoginTurn DEF Complete, Account
<1>3. CASE Finish(l)
  <2> DEFINE x == [login[l] EXCEPT !.pc = "store"]
  <2>1. x \in LoginLocals /\ LoginShape(x)
    BY <1>0, <1>3 DEF LoginLocals, LoginStages, LoginShape, Finish
  <2>2. login' = [login EXCEPT ![l] = x]
    BY <1>3 DEF Finish, TypeOK
  <2> QED BY <1>0, <1>3, <2>1, <2>2, LoginTurn DEF Finish, Account
<1>4. CASE FinishFails(l)
  BY <1>0, <1>4, LoginTurn DEF FinishFails, Account
<1>5. CASE StoreTokens(l)
  <2>1. 0..krefs \subseteq 0..krefs' /\ 1..krefs \subseteq 1..krefs' /\ krefs + 1 \in 1..krefs'
    BY <1>5 DEF StoreTokens, TypeOK
  <2> DEFINE x == [login[l] EXCEPT !.pc = "select", !.kref = krefs + 1]
  <2>2. /\ login' = [login EXCEPT ![l] = x] /\ login[l].pc = "store"
        /\ krefs' = krefs + 1 /\ items' = items \cup {krefs + 1}
        /\ UNCHANGED <<row, removal, cleanup, task, boot, ids, faults, given_up>>
    BY <1>5 DEF StoreTokens
  <2>3. x \in LoginLocals' /\ x.email = login[l].email /\ x.kref = krefs + 1
    <3>1. krefs + 1 \in 0..(krefs + 1) /\ 0..krefs \subseteq 0..(krefs + 1)
      BY DEF TypeOK
    <3>2. LoginLocals' = [pc : LoginStages, email : Emails \cup {"none"},
                          kref : 0..(krefs + 1), found : 0..ids]
      BY <2>2 DEF LoginLocals
    <3> QED BY <1>0, <3>1, <3>2 DEF LoginLocals, LoginStages
  <2>4. login' \in [Logins -> LoginLocals']
    BY <2>1, <2>2, <2>3 DEF TypeOK, LoginLocals
  <2>5. row' \in [Emails -> [id : 0..ids', kref : 0..krefs']]
    BY <2>1, <2>2 DEF TypeOK
  <2>6. removal' \in [Removals -> RemovalLocals']
    BY <2>1, <2>2 DEF TypeOK, RemovalLocals
  <2>7. task' \in [Tasks -> Locals']
    BY <2>1, <2>2 DEF TypeOK, Locals
  <2>8. /\ items' \subseteq 1..krefs' /\ cleanup' \subseteq 1..krefs'
        /\ given_up' \subseteq 1..krefs' /\ krefs' \in Nat
    BY <2>1, <2>2 DEF TypeOK
  <2>9. TypeOK'
    BY <2>2, <2>4, <2>5, <2>6, <2>7, <2>8 DEF TypeOK, LoginLocals, RemovalLocals, Locals
  <2>10. \A m \in Logins : LoginShape(login'[m])
    BY <1>0, <2>1, <2>2, <2>3 DEF TypeOK, Shapes, LoginShape
  <2> QED BY <2>2, <2>9, <2>10 DEF Shapes, LoginShape
<1>6. CASE StoreFails(l)
  BY <1>0, <1>a, <1>6, LoginTurn DEF StoreFails, Account
<1>7. CASE SelectExisting(l)
  <2> DEFINE x == [login[l] EXCEPT !.pc = "write", !.found = row[login[l].email].id]
  <2>1. row[login[l].email].id \in 0..ids /\ login[l].kref # 0 /\ login[l].email \in Emails
    BY <1>0, <1>7 DEF SelectExisting, TypeOK, LoginShape
  <2>2. x \in LoginLocals /\ LoginShape(x)
    BY <1>0, <2>1 DEF LoginLocals, LoginStages, LoginShape
  <2>3. login' = [login EXCEPT ![l] = x]
    BY <1>7 DEF SelectExisting
  <2> QED BY <1>0, <1>7, <2>2, <2>3, LoginTurn DEF SelectExisting, Account
<1>8. ASSUME WriteRefused(l), login[l].pc = "write", faults' \in 0..MaxFaults
      PROVE  TypeOK' /\ Shapes'
  <2>1. login[l].kref \in 1..krefs
    BY <1>0, <1>8 DEF LoginShape, LoginLocals, TypeOK
  <2>2. TypeOK'
    BY <1>0, <1>8, <2>1 DEF WriteRefused, TypeOK, LoginLocals
  <2> QED BY <1>0, <1>8, <2>2 DEF WriteRefused, TypeOK, Shapes, LoginShape
<1>9. CASE WriteFails(l)
  BY <1>8, <1>9, <1>a DEF WriteFails
<1>10. CASE WriteAccount(l)
  <2> DEFINE e == login[l].email
             n == login[l].found
  <2>1. CASE n # row[e].id
    BY <1>0, <1>8, <1>10, <2>1 DEF WriteAccount
  <2>2. CASE n = row[e].id
    <3> DEFINE x   == [login[l] EXCEPT !.pc = "spawn", !.found = row'[e].id]
               new == [id |-> IF n = 0 THEN ids + 1 ELSE n, kref |-> login[l].kref]
    <3>1. /\ row' = [row EXCEPT ![e] = new]
          /\ ids' = IF n = 0 THEN ids + 1 ELSE ids
          /\ given_up' = IF n = 0 THEN given_up ELSE given_up \cup {row[e].kref}
          /\ login' = [login EXCEPT ![l] = [login[l] EXCEPT !.pc = "spawn", !.found = row'[e].id]]
          /\ UNCHANGED <<items, removal, cleanup, task, boot, krefs, faults>>
          /\ login[l].pc = "write"
      BY <1>10, <2>2 DEF WriteAccount
    <3>2. e \in Emails /\ login[l].kref \in 1..krefs /\ n \in 0..ids
      BY <1>0, <3>1 DEF LoginShape, LoginLocals, TypeOK
    <3>3. 0..ids \subseteq 0..ids' /\ ids' \in Nat /\ new.id \in 0..ids' /\ new.id # 0
      BY <3>1, <3>2 DEF TypeOK
    <3>4. row' \in [Emails -> [id : 0..ids', kref : 0..krefs']]
      BY <3>1, <3>2, <3>3 DEF TypeOK
    <3>5. given_up' \subseteq 1..krefs'
      BY <3>1, <3>2, <2>2 DEF TypeOK, Shapes
    <3>6. row'[e].id \in 0..ids'
      BY <3>2, <3>4
    <3>7. x \in LoginLocals'
      BY <1>0, <3>1, <3>3, <3>6 DEF LoginLocals, LoginStages
    <3>a. login' = [login EXCEPT ![l] = x]
      BY <3>1
    <3>b. login' \in [Logins -> LoginLocals']
      BY <3>1, <3>3, <3>7, <3>a DEF TypeOK, LoginLocals
    <3>8. TypeOK'
      BY <3>1, <3>3, <3>4, <3>5, <3>b DEF TypeOK, LoginLocals
    <3>9. \A f \in Emails : row'[f].id = 0 <=> row'[f].kref = 0
      BY <3>1, <3>2, <3>3 DEF TypeOK, Shapes
    <3>c. \A m \in Logins : login'[m] = IF m = l THEN x ELSE login[m]
      BY <3>a DEF TypeOK
    <3>d. x.pc = "spawn" /\ x.email = e
      BY <1>0 DEF LoginLocals
    <3>10. \A m \in Logins : LoginShape(login[m])'
      BY <3>1, <3>2, <3>c, <3>d DEF Shapes, LoginShape
    <3> QED BY <3>1, <3>8, <3>9, <3>10 DEF Shapes
  <2> QED BY <2>1, <2>2
<1>11. CASE Spawn(l)
  <2>1. PICK s \in Slots : task' = [task EXCEPT ![s] = Supervised(login[l].found)]
    BY <1>11 DEF Spawn
  <2>2. s \in Tasks /\ login[l].found \in 0..ids
    BY <1>0 DEF Tasks, LoginLocals
  <2>3. /\ task' \in [Tasks -> Locals]
        /\ \A u \in Tasks : task'[u].kref = 0 <=> task'[u].pc \in {"none", "resolve"}
    BY <2>1, <2>2, SupervisedType, TaskTurn
  <2>4. /\ login' = [login EXCEPT ![l] = NoLogin]
        /\ UNCHANGED <<row, items, removal, cleanup, boot, krefs, ids, faults, given_up>>
    BY <1>11 DEF Spawn
  <2>5. TypeOK'
    BY <1>0, <2>3, <2>4 DEF TypeOK, LoginLocals, Locals
  <2> QED BY <1>0, <2>4, <2>5 DEF TypeOK, Shapes, LoginShape
<1> QED
  BY <1>1, <1>2, <1>3, <1>4, <1>5, <1>6, <1>7, <1>9, <1>10, <1>11 DEF LoginStep

(* Steps of the spawned deletions, the supervisors and the callers.        *)
LEMMA TypeTask ==
  ASSUME TypeOK, Shapes,
         \/ \E k \in Krefs : Cleanup(k)
         \/ \E t \in Tasks : TaskStep(t)
         \/ \E c \in Callers, id \in 1..ids : Call(c, id)
  PROVE  TypeOK' /\ Shapes'
<1>a. Fault => faults' \in 0..MaxFaults
  BY AccountsAssumption DEF Fault, TypeOK
<1>1. ASSUME NEW k \in Krefs, Cleanup(k) PROVE TypeOK' /\ Shapes'
  BY <1>1, <1>a DEF Cleanup, TypeOK, Shapes
<1>2. ASSUME NEW t \in Tasks, NEW x, TaskType(x), task' = [task EXCEPT ![t] = x],
             items' \in {items, items \cup {task[t].kref}},
             given_up' \in {given_up, given_up \cup {task[t].kref}},
             task[t].kref # 0 \/ (items' = items /\ given_up' = given_up),
             UNCHANGED <<Mail, faults>>
      PROVE  TypeOK' /\ Shapes'
  <2>1. /\ task' \in [Tasks -> Locals]
        /\ \A u \in Tasks : task'[u].kref = 0 <=> task'[u].pc \in {"none", "resolve"}
    BY <1>2, TaskTurn
  <2>2. task[t].kref # 0 => task[t].kref \in 1..krefs
    BY TaskOf DEF TaskType, Locals, TypeOK
  <2>a. items \subseteq 1..krefs /\ given_up \subseteq 1..krefs
    BY DEF TypeOK
  <2>3. items' \subseteq 1..krefs /\ given_up' \subseteq 1..krefs
    BY <1>2, <2>2, <2>a
  <2> QED BY <1>2, <2>1, <2>3 DEF TypeOK, Locals, Shapes, Mail
<1>3. ASSUME NEW t \in Tasks, Resolve(t) PROVE TypeOK' /\ Shapes'
  <2> DEFINE k == KrefOf(task[t].id)
             x == IF k = 0 THEN GiveUp(t) ELSE [task[t] EXCEPT !.pc = "load", !.kref = k]
  <2>1. TaskType(task[t]) /\ k \in 0..krefs
    BY TaskOf, KrefOfType
  <2>2. TaskType(GiveUp(t))
    BY <2>1, SupervisedType DEF GiveUp, TaskType, Locals
  <2>3. k # 0 => TaskType([task[t] EXCEPT !.pc = "load", !.kref = k])
    BY <2>1 DEF TaskType, Locals, TaskStages
  <2>4. TaskType(x)
    BY <2>2, <2>3
  <2>5. task' = [task EXCEPT ![t] = x] /\ UNCHANGED <<Mail, items, faults, given_up>>
    BY <1>3 DEF Resolve
  <2> QED BY <1>2, <2>4, <2>5
<1>4. ASSUME NEW t \in Tasks, task[t].pc \in {"load", "refresh"}
      PROVE  \A ok : TaskType(After(t, ok))
  BY <1>4, AfterType
<1>5. ASSUME NEW t \in Tasks, Load(t) PROVE TypeOK' /\ Shapes'
  <2>1. task[t].pc = "load" /\ UNCHANGED <<Mail, items, faults, given_up>>
    BY <1>5 DEF Load
  <2>2. \A ok : TaskType(After(t, ok))
    BY <1>4, <2>1
  <2>3. TaskType([task[t] EXCEPT !.pc = "refresh"])
    BY <2>1, TaskOf DEF TaskType, Locals, TaskStages
  <2>4. \/ \E ok : task' = [task EXCEPT ![t] = After(t, ok)]
        \/ task' = [task EXCEPT ![t] = [task[t] EXCEPT !.pc = "refresh"]]
    BY <1>5 DEF Load
  <2> QED BY <1>2, <2>1, <2>2, <2>3, <2>4
<1>6. ASSUME NEW t \in Tasks, SaveRefreshed(t) PROVE TypeOK' /\ Shapes'
  <2>1. /\ task[t].pc = "refresh" /\ items' = items \cup {task[t].kref}
        /\ given_up' \in {given_up, given_up \cup {task[t].kref}} /\ UNCHANGED <<Mail, faults>>
        /\ \E ok : task' = [task EXCEPT ![t] = After(t, ok)]
    BY <1>6 DEF SaveRefreshed
  <2>2. task[t].kref # 0
    BY <2>1, TaskOf DEF TaskType
  <2> QED BY <1>2, <1>4, <2>1, <2>2
<1>7. ASSUME NEW t \in Tasks, RefreshFails(t) PROVE TypeOK' /\ Shapes'
  <2>1. /\ task[t].pc = "refresh" /\ UNCHANGED <<Mail, items, faults, given_up>>
        /\ task' = [task EXCEPT ![t] = After(t, FALSE)]
    BY <1>7 DEF RefreshFails
  <2> QED BY <1>2, <1>4, <2>1
<1>8. ASSUME NEW c \in Callers, NEW id \in 1..ids, Call(c, id) PROVE TypeOK' /\ Shapes'
  <2> DEFINE x == [pc |-> "resolve", id |-> id, kref |-> 0, phase |-> "call"]
  <2>1. TaskType(x)
    BY DEF TaskType, Locals, TaskStages, Phases, TypeOK
  <2> QED BY <1>2, <1>8, <2>1 DEF Call, Tasks
<1> QED BY <1>1, <1>3, <1>5, <1>6, <1>7, <1>8 DEF TaskStep

(* Steps of a removal, start-up and crash.                                 *)
LEMMA TypeRemoval ==
  ASSUME TypeOK, Shapes,
         \/ \E r \in Removals : \/ \E id \in 1..ids : SelectKref(r, id)
                                \/ RemovalStep(r) \/ DeleteFails(r) \/ DropFails(r)
         \/ Boot \/ BootFails \/ Crash
  PROVE  TypeOK' /\ Shapes'
<1>a. /\ Fault => faults' \in 0..MaxFaults
      /\ 0 \in 0..krefs /\ 0 \in 0..ids
  BY AccountsAssumption DEF Fault, TypeOK
<1>1. ASSUME NEW r \in Removals, NEW id \in 1..ids, SelectKref(r, id) PROVE TypeOK' /\ Shapes'
  <2>1. KrefOf(id) \in 0..krefs /\ id \in 0..ids
    BY KrefOfType DEF TypeOK
  <2> QED BY <1>1, <2>1 DEF SelectKref, Rest, TypeOK, Shapes
<1>2. ASSUME NEW r \in Removals, DeleteRow(r) PROVE TypeOK' /\ Shapes'
  <2> DEFINE gone == RowOf(removal[r].id)
  <2>1. \A e \in gone : e \in Emails /\ row[e].kref \in 1..krefs
    BY DEF RowOf, TypeOK, Shapes
  <2>2. /\ row' = [e \in Emails |-> IF e \in gone THEN NoRow ELSE row[e]]
        /\ given_up' = given_up \cup ({row[e].kref : e \in gone} \ {removal[r].kref})
        /\ removal[r].pc = "delete"
        /\ removal' = [removal EXCEPT ![r] =
                         IF removal[r].kref = 0 THEN NoRemoval ELSE [removal[r] EXCEPT !.pc = "drop"]]
        /\ UNCHANGED <<Rest, items, faults>>
    BY <1>2 DEF DeleteRow
  <2>3. row' \in [Emails -> [id : 0..ids, kref : 0..krefs]]
    BY <1>a, <2>2 DEF TypeOK, NoRow
  <2>4. given_up' \subseteq 1..krefs
    BY <2>1, <2>2 DEF TypeOK
  <2>5. removal' \in [Removals -> RemovalLocals]
    BY <2>2, IdleType DEF TypeOK, RemovalLocals
  <2>6. TypeOK'
    BY <2>2, <2>3, <2>4, <2>5 DEF TypeOK, RemovalLocals, Rest
  <2>7. \A e \in Emails : row'[e].id = 0 <=> row'[e].kref = 0
    BY <2>2 DEF Shapes, NoRow
  <2>8. \A q \in Removals : removal'[q].pc = "drop" => removal'[q].kref # 0
    BY <2>2 DEF Shapes, NoRemoval, TypeOK
  <2> QED BY <2>2, <2>6, <2>7, <2>8 DEF Shapes, Rest
<1>3. ASSUME NEW r \in Removals, DropTokens(r) PROVE TypeOK' /\ Shapes'
  BY <1>a, <1>3 DEF DropTokens, Rest, TypeOK, Shapes, NoRemoval
<1>4. ASSUME NEW r \in Removals, DeleteFails(r) PROVE TypeOK' /\ Shapes'
  BY <1>a, <1>4 DEF DeleteFails, Rest, TypeOK, Shapes, NoRemoval
<1>5. ASSUME NEW r \in Removals, DropFails(r) PROVE TypeOK' /\ Shapes'
  <2>1. removal[r].kref \in 1..krefs
    BY <1>5 DEF DropFails, TypeOK, Shapes
  <2> QED BY <1>a, <1>5, <2>1 DEF DropFails, Rest, TypeOK, Shapes, NoRemoval
<1>6. CASE Boot
  <2> DEFINE known == {row[e].id : e \in Emails} \ {0}
             free  == {s \in Slots : task[s].pc = "none"}
             place == CHOOSE p \in [known -> free] : \A i, j \in known : p[i] = p[j] => i = j
             pick(t) == CHOOSE i \in known : place[i] = t
  <2>1. /\ task' = [t \in Tasks |-> IF \E i \in known : place[i] = t
                                      THEN Supervised(pick(t)) ELSE task[t]]
        /\ boot' = "done"
        /\ UNCHANGED <<row, items, login, removal, cleanup, krefs, ids, faults, given_up>>
    BY <1>6 DEF Boot
  <2>2. known \subseteq 0..ids
    BY DEF TypeOK
  <2> HIDE DEF known, place
  <2>3. \A t \in Tasks : TaskType(task'[t])
    <3> TAKE t \in Tasks
    <3>1. CASE \E i \in known : place[i] = t
      <4>1. pick(t) \in known
        BY <3>1
      <4> QED BY <2>1, <2>2, <3>1, <4>1, SupervisedType
    <3> QED BY <2>1, <3>1, TaskOf
  <2>4. task' \in [Tasks -> Locals]
    BY <2>1, <2>3 DEF TaskType
  <2> QED BY <2>1, <2>3, <2>4 DEF TypeOK, Shapes, Locals, TaskType
<1>7. CASE BootFails
  BY <1>a, <1>7 DEF BootFails, TypeOK, Shapes
<1>8. CASE Crash
  <2>1. \A t \in Tasks : TaskType(NoTask)
    BY <1>a, SupervisedType
  <2>2. task' \in [Tasks -> Locals] /\ \A t \in Tasks : TaskType(task'[t])
    BY <1>8, <2>1 DEF Crash, TaskType
  <2>3. login' \in [Logins -> LoginLocals] /\ removal' \in [Removals -> RemovalLocals]
    BY <1>8, IdleType DEF Crash
  <2>4. given_up' \subseteq 1..krefs
    BY <1>8 DEF Crash, TypeOK
  <2>5. TypeOK'
    BY <1>8, <1>a, <2>2, <2>3, <2>4
    DEF Crash, TypeOK, LoginLocals, RemovalLocals, Locals, TaskType
  <2> QED BY <1>8, <2>5 DEF Crash, Shapes, LoginShape, NoLogin, NoRemoval
<1> QED BY <1>1, <1>2, <1>3, <1>4, <1>5, <1>6, <1>7, <1>8 DEF RemovalStep

LEMMA TypeStep == TypeOK /\ Shapes /\ [Next]_vars => TypeOK' /\ Shapes'
<1> SUFFICES ASSUME TypeOK, Shapes, [Next]_vars PROVE TypeOK' /\ Shapes'
  OBVIOUS
<1>1. CASE Next
  BY <1>1, TypeLogin, TypeTask, TypeRemoval DEF Next
<1>2. CASE UNCHANGED vars
  BY <1>2 DEF vars, TypeOK, Shapes
<1> QED BY <1>1, <1>2

(* Type correctness: a task holds a kref exactly between resolve_account   *)
(* and the end of its cycle or call (idle.rs:191, commands.rs:247).        *)
THEOREM TypeCorrect == Spec => []TypeOK
  BY TypeInit, TypeStep, PTL DEF Spec

-----------------------------------------------------------------------------
(* Ownership is kept when no row, no kref in a stage and no deletion       *)
(* changes and no item goes, which is most steps.                          *)
SameLogins ==
  \A l \in Logins : Writing(l)' => Writing(l) /\ login'[l].kref = login[l].kref

SameRemovals ==
  \A r \in Removals : \/ removal'[r].kref = 0
                      \/ removal'[r] = removal[r]

LEMMA OwnershipKept ==
  ASSUME TypeOK, Shapes, Ownership, row' = row, cleanup' \subseteq cleanup,
         items \ cleanup \subseteq items' \/ items \subseteq items',
         SameLogins, SameRemovals
  PROVE  Ownership'
<1>1. RowsDiffer'
  BY DEF Ownership, RowsDiffer
<1>2. Unshared'
  <2> SUFFICES ASSUME NEW l \in Logins, Writing(l)'
               PROVE  /\ login'[l].kref \in items' /\ login'[l].kref \notin cleanup'
                      /\ \A e \in Emails : row'[e].kref # login'[l].kref
                      /\ \A m \in Logins : Writing(m)' /\ m # l => login'[m].kref # login'[l].kref
                      /\ \A r \in Removals : removal'[r].kref # login'[l].kref
    BY DEF Unshared
  <2>1. Writing(l) /\ login'[l].kref = login[l].kref /\ login[l].kref # 0
    BY DEF SameLogins, Shapes, LoginShape, Writing
  <2> QED BY <2>1 DEF Ownership, Unshared, SameLogins, SameRemovals
<1>3. DoomedNotOwned'
  BY DEF Ownership, DoomedNotOwned, SameRemovals
<1>4. NoDanglingRow'
  BY DEF Ownership, NoDanglingRow, DoomedNotOwned
<1> QED BY <1>1, <1>2, <1>3, <1>4 DEF Ownership

LEMMA OwnInit == Init => Ownership
  BY DEF Init, Ownership, RowsDiffer, Unshared, Writing, DoomedNotOwned, NoDanglingRow,
         NoRow, NoLogin, NoRemoval

LEMMA OwnLogin ==
  ASSUME TypeOK, Shapes, Ownership, NEW l \in Logins,
         \/ \E e \in Emails : Start(l, e)
         \/ Complete(l) \/ LoginStep(l) \/ StoreFails(l) \/ WriteFails(l)
  PROVE  Ownership'
<1>1. CASE \/ \E e \in Emails : Start(l, e)
           \/ Complete(l) \/ Finish(l) \/ FinishFails(l) \/ StoreFails(l)
           \/ SelectExisting(l) \/ Spawn(l)
  <2>a. ASSUME SelectExisting(l) PROVE SameLogins
    <3>1. /\ login[l].pc = "select"
          /\ login' = [login EXCEPT ![l] = [login[l] EXCEPT !.pc = "write",
                                                           !.found = row[login[l].email].id]]
      BY <2>a DEF SelectExisting
    <3>2. /\ \A m \in Logins : m # l => login'[m] = login[m]
          /\ login'[l].kref = login[l].kref
      BY <3>1 DEF TypeOK
    <3> QED BY <3>1, <3>2 DEF SameLogins, Writing
  <2>b. ASSUME ~SelectExisting(l) PROVE SameLogins
    <3>1. \E x : x.pc \notin {"select", "write"} /\ login' = [login EXCEPT ![l] = x]
      <4>1. ASSUME NEW e \in Emails, Start(l, e)
            PROVE  \E x : x.pc \notin {"select", "write"} /\ login' = [login EXCEPT ![l] = x]
        <5> WITNESS [pc |-> "pending", email |-> e, kref |-> 0, found |-> 0]
        <5> QED BY <4>1 DEF Start
      <4>2. CASE Complete(l)
        <5> WITNESS [login[l] EXCEPT !.pc = "waiting"]
        <5> QED BY <4>2 DEF Complete, TypeOK
      <4>3. CASE Finish(l)
        <5> WITNESS [login[l] EXCEPT !.pc = "store"]
        <5> QED BY <4>3 DEF Finish, TypeOK
      <4>4. CASE FinishFails(l) \/ StoreFails(l) \/ Spawn(l)
        <5> WITNESS NoLogin
        <5> QED BY <4>4 DEF FinishFails, StoreFails, Spawn, NoLogin
      <4> QED BY <1>1, <2>b, <4>1, <4>2, <4>3, <4>4
    <3>2. PICK x : x.pc \notin {"select", "write"} /\ login' = [login EXCEPT ![l] = x]
      BY <3>1
    <3>3. login'[l] = x /\ \A m \in Logins : m # l => login'[m] = login[m]
      BY <3>2 DEF TypeOK
    <3> QED BY <3>2, <3>3 DEF SameLogins, Writing
  <2>1. SameLogins
    BY <2>a, <2>b
  <2>2. UNCHANGED <<row, items, cleanup, removal>>
    BY <1>1 DEF Start, Complete, Finish, FinishFails, StoreFails, SelectExisting, Spawn, Account
  <2> QED BY <2>1, <2>2, OwnershipKept DEF SameRemovals
<1>2. CASE StoreTokens(l)
  <2> DEFINE k == krefs + 1
  <2>1. /\ login' = [login EXCEPT ![l] = [login[l] EXCEPT !.pc = "select", !.kref = k]]
        /\ items' = items \cup {k} /\ UNCHANGED <<row, cleanup, removal>>
    BY <1>2 DEF StoreTokens
  <2>2. /\ \A m \in Logins : m # l => login'[m] = login[m]
        /\ login'[l].kref = k
    BY <2>1 DEF TypeOK
  <2>3. /\ k # 0 /\ k \notin cleanup
        /\ \A e \in Emails : row[e].kref # k
        /\ \A m \in Logins : login[m].kref # k
        /\ \A r \in Removals : removal[r].kref # k
    BY DEF TypeOK
  <2> HIDE DEF k
  <2>4. Unshared'
    BY <2>1, <2>2, <2>3 DEF Ownership, Unshared, Writing
  <2> QED BY <2>1, <2>4 DEF Ownership, RowsDiffer, DoomedNotOwned, NoDanglingRow
<1>3. ASSUME WriteRefused(l), login[l].pc = "write"
      PROVE  Ownership'
  <2>1. /\ login' = [login EXCEPT ![l] = NoLogin]
        /\ cleanup' = cleanup \cup {login[l].kref} /\ UNCHANGED <<row, items, removal>>
    BY <1>3 DEF WriteRefused
  <2>2. Writing(l) /\ ~Writing(l)' /\ \A m \in Logins : m # l => login'[m] = login[m]
    BY <1>3, <2>1 DEF TypeOK, Writing, NoLogin
  <2>3. Unshared'
    BY <2>1, <2>2 DEF Ownership, Unshared, Writing
  <2>4. DoomedNotOwned'
    BY <2>1, <2>2 DEF Ownership, Unshared, DoomedNotOwned
  <2> QED BY <2>1, <2>3, <2>4 DEF Ownership, RowsDiffer, NoDanglingRow
<1>4. CASE WriteFails(l)
  BY <1>3, <1>4 DEF WriteFails
<1>5. CASE WriteAccount(l)
  <2> DEFINE e == login[l].email
             k == login[l].kref
             n == login[l].found
  <2>1. CASE n # row[e].id
    BY <1>3, <1>5, <2>1 DEF WriteAccount
  <2>2. CASE n = row[e].id
    <3>1. /\ row' = [row EXCEPT ![e] = [id |-> IF n = 0 THEN ids + 1 ELSE n, kref |-> k]]
          /\ login' = [login EXCEPT ![l] = [login[l] EXCEPT !.pc = "spawn", !.found = row'[e].id]]
          /\ UNCHANGED <<items, removal, cleanup>>
          /\ login[l].pc = "write"
      BY <1>5, <2>2 DEF WriteAccount
    <3>2. Writing(l) /\ ~Writing(l)' /\ \A m \in Logins : m # l => login'[m] = login[m]
      BY <3>1 DEF TypeOK, Writing
    <3>3. /\ k \in items /\ k \notin cleanup
          /\ \A f \in Emails : row[f].kref # k
          /\ \A m \in Logins : Writing(m) /\ m # l => login[m].kref # k
          /\ \A r \in Removals : removal[r].kref # k
      BY <3>2 DEF Ownership, Unshared
    <3>4. \A f \in Emails : \/ f # e /\ row'[f] = row[f]
                            \/ f = e /\ row'[f].kref = k
      BY <3>1 DEF TypeOK
    <3> HIDE DEF e, k, n
    <3>5. RowsDiffer'
      BY <3>3, <3>4 DEF Ownership, RowsDiffer
    <3>6. Unshared'
      BY <3>1, <3>2, <3>3, <3>4 DEF Ownership, Unshared, Writing
    <3>7. DoomedNotOwned'
      BY <3>1, <3>3, <3>4 DEF Ownership, DoomedNotOwned
    <3>8. NoDanglingRow'
      BY <3>1, <3>3, <3>4 DEF Ownership, NoDanglingRow
    <3> QED BY <3>5, <3>6, <3>7, <3>8 DEF Ownership
  <2> QED BY <2>1, <2>2
<1> QED BY <1>1, <1>2, <1>4, <1>5 DEF LoginStep

LEMMA OwnTask ==
  ASSUME TypeOK, Shapes, Ownership,
         \/ \E k \in Krefs : Cleanup(k)
         \/ \E t \in Tasks : TaskStep(t)
         \/ \E c \in Callers, id \in 1..ids : Call(c, id)
  PROVE  Ownership'
<1>1. UNCHANGED <<row, login, removal>> /\ cleanup' \subseteq cleanup
  BY DEF Cleanup, TaskStep, Resolve, Load, SaveRefreshed, RefreshFails, Call, Mail
<1>2. items \ cleanup \subseteq items' \/ items \subseteq items'
  BY DEF Cleanup, TaskStep, Resolve, Load, SaveRefreshed, RefreshFails, Call
<1>3. SameLogins /\ SameRemovals
  BY <1>1 DEF SameLogins, SameRemovals, Writing
<1> QED BY <1>1, <1>2, <1>3, OwnershipKept

LEMMA OwnRemoval ==
  ASSUME TypeOK, Shapes, Ownership,
         \/ \E r \in Removals : \/ \E id \in 1..ids : SelectKref(r, id)
                                \/ RemovalStep(r) \/ DeleteFails(r) \/ DropFails(r)
         \/ Boot \/ BootFails \/ Crash
  PROVE  Ownership'
<1>1. ASSUME NEW r \in Removals, NEW id \in 1..ids, SelectKref(r, id) PROVE Ownership'
  <2> DEFINE k == KrefOf(id)
  <2>1. k = 0 \/ \E e \in Emails : row[e].id = id /\ k = row[e].kref
    BY KrefOfRow
  <2>2. /\ removal' = [removal EXCEPT ![r] = [pc |-> "delete", id |-> id, kref |-> k]]
        /\ UNCHANGED <<row, items, login, cleanup>>
    BY <1>1 DEF SelectKref, Rest
  <2>3. \A q \in Removals : \/ q # r /\ removal'[q] = removal[q]
                            \/ q = r /\ removal'[q] = [pc |-> "delete", id |-> id, kref |-> k]
    BY <2>2 DEF TypeOK
  <2> HIDE DEF k
  <2>4. \A m \in Logins : Writing(m) => login[m].kref # k
    BY <2>1 DEF Ownership, Unshared, Shapes, LoginShape, Writing
  <2>5. \A e \in Emails : row[e].kref = k /\ k # 0 => row[e].id = id
    BY <2>1 DEF Ownership, RowsDiffer
  <2>6. Unshared'
    BY <2>2, <2>3, <2>4 DEF Ownership, Unshared, Writing
  <2>7. DoomedNotOwned'
    BY <2>2, <2>3, <2>5 DEF Ownership, DoomedNotOwned
  <2> QED BY <2>2, <2>6, <2>7 DEF Ownership, RowsDiffer, NoDanglingRow
<1>2. ASSUME NEW r \in Removals, DeleteRow(r) PROVE Ownership'
  <2>1. /\ row' = [e \in Emails |-> IF e \in RowOf(removal[r].id) THEN NoRow ELSE row[e]]
        /\ removal' = [removal EXCEPT ![r] =
                         IF removal[r].kref = 0 THEN NoRemoval ELSE [removal[r] EXCEPT !.pc = "drop"]]
        /\ UNCHANGED <<items, login, cleanup>>
    BY <1>2 DEF DeleteRow, Rest
  <2>2. \A e \in Emails : \/ row'[e].id = 0 /\ row'[e].kref = 0
                          \/ row'[e] = row[e] /\ (row[e].id = 0 \/ row[e].id # removal[r].id)
    BY <2>1 DEF RowOf, NoRow
  <2>3. \A q \in Removals : \/ q # r /\ removal'[q] = removal[q]
                            \/ q = r /\ removal'[q].kref = removal[q].kref
    BY <2>1 DEF TypeOK, NoRemoval
  <2>4. RowsDiffer'
    BY <2>2 DEF Ownership, RowsDiffer
  <2>5. Unshared'
    BY <2>1, <2>2, <2>3 DEF Ownership, Unshared, Writing, Shapes, LoginShape
  <2>6. \A e \in Emails : row'[e].kref \notin cleanup'
    BY <2>1, <2>2 DEF Ownership, DoomedNotOwned, TypeOK
  <2>7. \A e \in Emails : row'[e].kref # 0 => row'[e] = row[e] /\ row[e].kref # removal[r].kref
    BY <2>2 DEF Ownership, DoomedNotOwned, Shapes
  <2>8. DoomedNotOwned'
    BY <2>3, <2>6, <2>7 DEF Ownership, DoomedNotOwned
  <2>9. NoDanglingRow'
    BY <2>1, <2>2 DEF Ownership, NoDanglingRow
  <2> QED BY <2>4, <2>5, <2>8, <2>9 DEF Ownership
<1>3. ASSUME NEW r \in Removals, DropTokens(r) PROVE Ownership'
  <2>1. /\ removal' = [removal EXCEPT ![r] = NoRemoval] /\ removal[r].pc = "drop"
        /\ items' = items \ {removal[r].kref} /\ UNCHANGED <<row, login, cleanup>>
    BY <1>3 DEF DropTokens, Rest
  <2>2. \A q \in Removals : removal'[q].kref = 0 \/ removal'[q] = removal[q]
    BY <2>1 DEF TypeOK, NoRemoval
  <2>3. \A e \in Emails : row[e].kref # 0 => row[e].kref # removal[r].kref
    BY <2>1 DEF Ownership, DoomedNotOwned
  <2>4. Unshared'
    BY <2>1, <2>2 DEF Ownership, Unshared, Writing, Shapes, LoginShape
  <2>5. DoomedNotOwned'
    BY <2>1, <2>2 DEF Ownership, DoomedNotOwned
  <2>6. NoDanglingRow'
    BY <2>1, <2>3 DEF Ownership, NoDanglingRow, Shapes
  <2> QED BY <2>1, <2>4, <2>5, <2>6 DEF Ownership, RowsDiffer
<1>4. ASSUME NEW r \in Removals, DeleteFails(r) \/ DropFails(r) PROVE Ownership'
  <2>1. removal' = [removal EXCEPT ![r] = NoRemoval] /\ UNCHANGED <<row, items, login, cleanup>>
    BY <1>4 DEF DeleteFails, DropFails, Rest
  <2>2. SameRemovals /\ SameLogins
    BY <2>1 DEF SameRemovals, SameLogins, TypeOK, NoRemoval, Writing
  <2> QED BY <2>1, <2>2, OwnershipKept
<1>5. CASE Boot \/ BootFails
  <2>1. UNCHANGED <<row, items, login, removal, cleanup>>
    BY <1>5 DEF Boot, BootFails
  <2> QED BY <2>1, OwnershipKept DEF SameRemovals, SameLogins, Writing
<1>6. CASE Crash
  <2>1. SameRemovals /\ SameLogins
    BY <1>6 DEF Crash, SameRemovals, SameLogins, NoRemoval, NoLogin, Writing
  <2> QED BY <1>6, <2>1, OwnershipKept DEF Crash
<1> QED BY <1>1, <1>2, <1>3, <1>4, <1>5, <1>6 DEF RemovalStep

LEMMA OwnStep == TypeOK /\ Shapes /\ Ownership /\ [Next]_vars => Ownership'
<1> SUFFICES ASSUME TypeOK, Shapes, Ownership, [Next]_vars PROVE Ownership'
  OBVIOUS
<1>1. CASE Next
  BY <1>1, OwnLogin, OwnTask, OwnRemoval DEF Next
<1>2. CASE UNCHANGED vars
  BY <1>2, OwnershipKept DEF vars, SameRemovals, SameLogins, Writing
<1> QED BY <1>1, <1>2

(* No account row points at a Keychain item that is not there, whatever    *)
(* sign-ins, removals, faults and crashes overlap (commands.rs:102-104).   *)
THEOREM RowsHaveTokens == Spec => []NoDanglingRow
<1>1. Ownership => NoDanglingRow
  BY DEF Ownership
<1> QED BY <1>1, TypeInit, TypeStep, OwnInit, OwnStep, PTL DEF Spec

-----------------------------------------------------------------------------
(* No claim on an item is lost by a step that keeps rows, deletions to do, *)
(* sign-ins about to write and removals past their DELETE.                 *)
LEMMA AccountedKept ==
  ASSUME Accounted, row' = row, items' \subseteq items \cup given_up',
         cleanup \subseteq cleanup' \cup given_up', given_up \subseteq given_up',
         \A l \in Logins : Writing(l) => Writing(l)' /\ login'[l].kref = login[l].kref,
         \A r \in Removals : removal[r].pc = "drop" =>
            removal'[r].pc = "drop" /\ removal'[r].kref = removal[r].kref
  PROVE  Accounted'
  BY DEF Accounted, Claimed

LEMMA AccLogin ==
  ASSUME TypeOK, Shapes, Accounted, NEW l \in Logins,
         \/ \E e \in Emails : Start(l, e)
         \/ Complete(l) \/ LoginStep(l) \/ StoreFails(l) \/ WriteFails(l)
  PROVE  Accounted'
<1>1. ASSUME \/ \E e \in Emails : Start(l, e)
             \/ Complete(l) \/ Finish(l) \/ FinishFails(l) \/ StoreFails(l)
             \/ SelectExisting(l) \/ Spawn(l)
      PROVE  Accounted'
  <2>1. ASSUME SelectExisting(l)
        PROVE  Writing(l)' /\ login'[l].kref = login[l].kref
    <3> DEFINE x == [login[l] EXCEPT !.pc = "write", !.found = row[login[l].email].id]
    <3>1. login' = [login EXCEPT ![l] = x]
      BY <2>1 DEF SelectExisting
    <3>2. login'[l] = x
      BY <3>1 DEF TypeOK
    <3>3. x.pc = "write" /\ x.kref = login[l].kref
      BY DEF TypeOK
    <3> QED BY <3>2, <3>3 DEF Writing
  <2>2. SelectExisting(l) \/ ~Writing(l)
    BY <1>1 DEF Start, Complete, Finish, FinishFails, StoreFails, Spawn, Writing
  <2>3. \A m \in Logins : m # l => login'[m] = login[m]
    BY <1>1 DEF Start, Complete, Finish, FinishFails, StoreFails, SelectExisting, Spawn, TypeOK
  <2>4. \A m \in Logins : Writing(m) => Writing(m)' /\ login'[m].kref = login[m].kref
    BY <2>1, <2>2, <2>3 DEF Writing
  <2>5. UNCHANGED <<row, items, cleanup, removal, given_up>>
    BY <1>1 DEF Start, Complete, Finish, FinishFails, StoreFails, SelectExisting, Spawn, Account
  <2> QED BY <2>4, <2>5, AccountedKept
<1>2. CASE StoreTokens(l)
  <2> DEFINE x == [login[l] EXCEPT !.pc = "select", !.kref = krefs + 1]
  <2>1. /\ login' = [login EXCEPT ![l] = x] /\ items' = items \cup {krefs + 1}
        /\ login[l].pc = "store" /\ UNCHANGED <<row, cleanup, removal, given_up>>
    BY <1>2 DEF StoreTokens
  <2>2. login'[l] = x /\ \A m \in Logins : m # l => login'[m] = login[m]
    BY <2>1 DEF TypeOK
  <2>3. x.pc = "select" /\ x.kref = krefs + 1
    BY DEF TypeOK
  <2> DEFINE new == krefs + 1
  <2>5. Writing(l)' /\ login'[l].kref = new /\ ~Writing(l)
    BY <2>1, <2>2, <2>3 DEF Writing
  <2>6. items' = items \cup {new}
    BY <2>1
  <2> HIDE DEF new, x
  <2> QED BY <2>1, <2>2, <2>5, <2>6 DEF Accounted, Claimed, Writing
<1>3. ASSUME WriteRefused(l), login[l].pc = "write" PROVE Accounted'
  <2>1. /\ login' = [login EXCEPT ![l] = NoLogin]
        /\ cleanup' = cleanup \cup {login[l].kref} /\ UNCHANGED <<row, items, removal, given_up>>
    BY <1>3 DEF WriteRefused
  <2>2. \A m \in Logins : m # l => login'[m] = login[m]
    BY <2>1 DEF TypeOK
  <2> QED BY <2>1, <2>2 DEF Accounted, Claimed, Writing
<1>4. CASE WriteFails(l)
  BY <1>3, <1>4 DEF WriteFails
<1>5. CASE WriteAccount(l)
  <2> DEFINE e == login[l].email
             k == login[l].kref
             n == login[l].found
             x == [login[l] EXCEPT !.pc = "spawn", !.found = row'[e].id]
  <2>1. CASE n # row[e].id
    BY <1>3, <1>5, <2>1 DEF WriteAccount
  <2>2. CASE n = row[e].id
    <3>1. /\ row' = [row EXCEPT ![e] = [id |-> IF n = 0 THEN ids + 1 ELSE n, kref |-> k]]
          /\ given_up' = IF n = 0 THEN given_up ELSE given_up \cup {row[e].kref}
          /\ login' = [login EXCEPT ![l] = x]
          /\ UNCHANGED <<items, removal, cleanup>>
          /\ login[l].pc = "write"
      BY <1>5, <2>2 DEF WriteAccount
    <3>2. \A m \in Logins : m # l => login'[m] = login[m]
      BY <3>1 DEF TypeOK
    <3>3. e \in Emails
      BY <3>1 DEF Shapes, LoginShape
    <3>4. row'[e].kref = k /\ \A f \in Emails : f # e => row'[f] = row[f]
      BY <3>1, <3>3 DEF TypeOK
    <3>5. row[e].kref # 0 => row[e].kref \in given_up'
      BY <2>2, <3>1, <3>3 DEF Shapes
    <3>6. \A j \in items : j # 0
      BY DEF TypeOK
    <3>7. given_up \subseteq given_up'
      BY <3>1
    <3> HIDE DEF e, n, x
    <3> QED
      <4> SUFFICES ASSUME NEW j \in items PROVE Claimed(j)'
        BY <3>1 DEF Accounted
      <4>1. CASE \E f \in Emails : row[f].kref = j
        BY <4>1, <3>4, <3>5, <3>6 DEF Claimed
      <4>2. CASE j \in cleanup \cup given_up
        BY <4>2, <3>1, <3>7 DEF Claimed
      <4>3. CASE \E m \in Logins : Writing(m) /\ login[m].kref = j
        BY <4>3, <3>2, <3>3, <3>4 DEF Claimed, Writing
      <4>4. CASE \E r \in Removals : removal[r].pc = "drop" /\ removal[r].kref = j
        BY <4>4, <3>1 DEF Claimed
      <4> QED BY <4>1, <4>2, <4>3, <4>4 DEF Accounted, Claimed
  <2> QED BY <2>1, <2>2
<1> QED BY <1>1, <1>2, <1>4, <1>5 DEF LoginStep

LEMMA AccTask ==
  ASSUME Accounted,
         \/ \E k \in Krefs : Cleanup(k)
         \/ \E t \in Tasks : TaskStep(t)
         \/ \E c \in Callers, id \in 1..ids : Call(c, id)
  PROVE  Accounted'
<1>1. ASSUME NEW k \in Krefs, Cleanup(k) PROVE Accounted'
  <2>1. /\ UNCHANGED <<row, login, removal>> /\ cleanup' = cleanup \ {k}
        /\ \/ items' = items \ {k} /\ given_up' = given_up
           \/ items' = items /\ given_up' = given_up \cup {k}
    BY <1>1 DEF Cleanup
  <2> QED BY <2>1 DEF Accounted, Claimed, Writing
<1>2. ASSUME \/ \E t \in Tasks : TaskStep(t)
             \/ \E c \in Callers, id \in 1..ids : Call(c, id)
      PROVE  Accounted'
  <2>1. /\ UNCHANGED <<row, login, removal, cleanup>>
        /\ items' \subseteq items \cup given_up' /\ given_up \subseteq given_up'
    BY <1>2 DEF TaskStep, Resolve, Load, SaveRefreshed, RefreshFails, Call, Mail
  <2> QED BY <2>1, AccountedKept DEF Writing
<1> QED BY <1>1, <1>2

LEMMA AccRemoval ==
  ASSUME TypeOK, Shapes, Accounted,
         \/ \E r \in Removals : \/ \E id \in 1..ids : SelectKref(r, id)
                                \/ RemovalStep(r) \/ DeleteFails(r) \/ DropFails(r)
         \/ Boot \/ BootFails \/ Crash
  PROVE  Accounted'
<1>1. ASSUME NEW r \in Removals, (\E id \in 1..ids : SelectKref(r, id)) \/ DeleteFails(r)
      PROVE  Accounted'
  <2>1. removal[r].pc # "drop" /\ UNCHANGED <<row, items, login, cleanup, given_up>>
    BY <1>1 DEF SelectKref, DeleteFails, Rest
  <2>2. \A q \in Removals : q # r => removal'[q] = removal[q]
    BY <1>1 DEF SelectKref, DeleteFails, TypeOK
  <2> QED BY <2>1, <2>2, AccountedKept DEF Writing
<1>2. ASSUME NEW r \in Removals, DeleteRow(r) PROVE Accounted'
  <2> DEFINE gone == RowOf(removal[r].id)
             k    == removal[r].kref
  <2>1. /\ row' = [e \in Emails |-> IF e \in gone THEN NoRow ELSE row[e]]
        /\ given_up' = given_up \cup ({row[e].kref : e \in gone} \ {k})
        /\ removal' = [removal EXCEPT ![r] =
                         IF k = 0 THEN NoRemoval ELSE [removal[r] EXCEPT !.pc = "drop"]]
        /\ removal[r].pc = "delete"
        /\ UNCHANGED <<items, login, cleanup>>
    BY <1>2 DEF DeleteRow, Rest
  <2>2. \A q \in Removals : q # r => removal'[q] = removal[q]
    BY <2>1 DEF TypeOK
  <2>3. k # 0 => removal'[r].pc = "drop" /\ removal'[r].kref = k
    BY <2>1 DEF TypeOK
  <2>4. \A e \in Emails : \/ row'[e] = row[e]
                          \/ row[e].kref \in given_up' \cup {k}
    BY <2>1
  <2>5. \A j \in items : j # 0
    BY DEF TypeOK
  <2> HIDE DEF gone, k
  <2> QED
    <3> SUFFICES ASSUME NEW j \in items PROVE Claimed(j)'
      BY <2>1 DEF Accounted
    <3>1. CASE \E f \in Emails : row[f].kref = j
      BY <3>1, <2>3, <2>4, <2>5 DEF Claimed
    <3>2. CASE j \in cleanup \cup given_up
      BY <3>2, <2>1 DEF Claimed
    <3>3. CASE \E m \in Logins : Writing(m) /\ login[m].kref = j
      BY <3>3, <2>1 DEF Claimed, Writing
    <3>4. CASE \E q \in Removals : removal[q].pc = "drop" /\ removal[q].kref = j
      BY <3>4, <2>1, <2>2 DEF Claimed
    <3> QED BY <3>1, <3>2, <3>3, <3>4 DEF Accounted, Claimed
<1>3. ASSUME NEW r \in Removals, DropTokens(r) \/ DropFails(r) PROVE Accounted'
  <2>1. /\ removal' = [removal EXCEPT ![r] = NoRemoval]
        /\ \/ items' = items \ {removal[r].kref} /\ given_up' = given_up
           \/ items' = items /\ given_up' = given_up \cup {removal[r].kref}
        /\ UNCHANGED <<row, login, cleanup>>
    BY <1>3 DEF DropTokens, DropFails, Rest
  <2>2. \A q \in Removals : q # r => removal'[q] = removal[q]
    BY <2>1 DEF TypeOK
  <2> QED BY <2>1, <2>2 DEF Accounted, Claimed, Writing
<1>4. CASE Boot \/ BootFails
  <2>1. UNCHANGED <<row, items, login, removal, cleanup, given_up>>
    BY <1>4 DEF Boot, BootFails
  <2> QED BY <2>1, AccountedKept DEF Writing
<1>5. CASE Crash
  <2>1. /\ given_up' = given_up \cup (items \ Owned)
        /\ UNCHANGED <<row, items>>
    BY <1>5 DEF Crash
  <2> QED BY <2>1 DEF Accounted, Claimed, Owned
<1> QED BY <1>1, <1>2, <1>3, <1>4, <1>5 DEF RemovalStep

LEMMA AccStep == TypeOK /\ Shapes /\ Accounted /\ [Next]_vars => Accounted'
<1> SUFFICES ASSUME TypeOK, Shapes, Accounted, [Next]_vars PROVE Accounted'
  OBVIOUS
<1>1. CASE Next
  BY <1>1, AccLogin, AccTask, AccRemoval DEF Next
<1>2. CASE UNCHANGED vars
  BY <1>2, AccountedKept DEF vars, Writing
<1> QED BY <1>1, <1>2

(* Tokens outlive their account only for a cause in given_up or while a    *)
(* sign-in, a removal or a spawned deletion still holds their kref.        *)
THEOREM LeftoversKnown == Spec => []OrphansKnown
<1>1. Init => Accounted
  BY DEF Init, Accounted
<1>2. TypeOK /\ Accounted => OrphansKnown
  <2> SUFFICES ASSUME TypeOK, Accounted, NEW k \in items
               PROVE  k \in Owned \cup cleanup \cup given_up
                              \cup {login[l].kref : l \in Logins}
                              \cup {removal[r].kref : r \in Removals}
    BY DEF OrphansKnown
  <2>1. k # 0
    BY DEF TypeOK
  <2> QED BY <2>1 DEF Accounted, Claimed, Owned
<1> QED BY <1>1, <1>2, TypeInit, TypeStep, AccStep, PTL DEF Spec
-----------------------------------------------------------------------------
(* Supervisors. The sign-ins before their tokens are stored, before their  *)
(* row is written, and before their supervisor is spawned: with what is    *)
(* already there they stay within what the sign-ins may make, so that a    *)
(* start finds a slot for every account.                                   *)
Opening  == {l \in Logins : login[l].pc \in {"pending", "waiting", "store"}}
Storing  == {l \in Logins : login[l].pc \in {"select", "write"}}
Arriving == {l \in Logins : login[l].pc \in {"select", "write", "spawn"}}

Room ==
  /\ IsFiniteSet(Opening) /\ IsFiniteSet(Storing) /\ IsFiniteSet(Arriving)
  /\ krefs + Cardinality(Opening) <= MaxLogins
  /\ ids + Cardinality(Storing) <= krefs

(* Slots fill from the first, and until the accounts are listed no more    *)
(* are filled than sign-ins have come through.                             *)
Filling ==
  /\ \A s \in Slots : task[s].pc = "none" => task[s].id = 0
  /\ boot = "pending" =>
       \E u \in Nat : /\ u + Cardinality(Arriving) <= krefs
                      /\ \A s \in Slots : s > u => task[s].pc = "none"

Watched == Room /\ Filling /\ EveryAccountWatched

LEMMA Counted ==
  ASSUME NEW A, IsFiniteSet(A), NEW l
  PROVE  /\ Cardinality(A) \in Nat
         /\ \A B : B \subseteq A => IsFiniteSet(B) /\ Cardinality(B) \in Nat /\ Cardinality(B) <= Cardinality(A)
         /\ IsFiniteSet(A \cup {l}) /\ Cardinality(A \cup {l}) \in Nat
         /\ l \notin A => Cardinality(A \cup {l}) = Cardinality(A) + 1
         /\ IsFiniteSet(A \ {l}) /\ Cardinality(A \ {l}) \in Nat
         /\ l \in A => Cardinality(A \ {l}) = Cardinality(A) - 1
  BY FS_CardinalityType, FS_Subset, FS_AddElement, FS_RemoveElement

(* A sign-in goes from one stage to another.                               *)
Passes(l, from, to) ==
  /\ login[l].pc \in from
  /\ \A m \in Logins : login'[m].pc = IF m = l THEN to ELSE login[m].pc

LEMMA PassesIs ==
  ASSUME NEW l \in Logins, NEW from, NEW to, Passes(l, from, to)
  PROVE  /\ Opening' = IF to \in {"pending", "waiting", "store"} THEN Opening \cup {l} ELSE Opening \ {l}
         /\ Storing' = IF to \in {"select", "write"} THEN Storing \cup {l} ELSE Storing \ {l}
         /\ Arriving' = IF to \in {"select", "write", "spawn"} THEN Arriving \cup {l} ELSE Arriving \ {l}
  BY DEF Passes, Opening, Storing, Arriving

LEMMA RoomKept ==
  ASSUME TypeOK, Room, Opening' \subseteq Opening, Storing' \subseteq Storing, Arriving' \subseteq Arriving,
         krefs' = krefs, ids' = ids
  PROVE  Room' /\ Cardinality(Arriving') <= Cardinality(Arriving) /\ Cardinality(Arriving') \in Nat
<1>1. /\ IsFiniteSet(Opening') /\ Cardinality(Opening') <= Cardinality(Opening)
      /\ IsFiniteSet(Storing') /\ Cardinality(Storing') <= Cardinality(Storing)
      /\ IsFiniteSet(Arriving') /\ Cardinality(Arriving') <= Cardinality(Arriving)
      /\ Cardinality(Opening) \in Nat /\ Cardinality(Storing) \in Nat /\ Cardinality(Arriving) \in Nat
      /\ Cardinality(Opening') \in Nat /\ Cardinality(Storing') \in Nat /\ Cardinality(Arriving') \in Nat
  BY Counted DEF Room
<1>2. krefs \in Nat /\ ids \in Nat /\ MaxLogins \in Nat
  BY AccountsAssumption DEF TypeOK
<1> QED  BY <1>1, <1>2 DEF Room

LEMMA FillingKept ==
  ASSUME TypeOK, Room, Filling, Opening' \subseteq Opening, Storing' \subseteq Storing,
         Arriving' \subseteq Arriving, krefs' = krefs, ids' = ids, task' = task,
         boot' = boot \/ boot' # "pending"
  PROVE  Room' /\ Filling'
<1>1. Room' /\ Cardinality(Arriving') <= Cardinality(Arriving) /\ Cardinality(Arriving') \in Nat
  BY RoomKept
<1>2. Cardinality(Arriving) \in Nat /\ krefs \in Nat
  BY Counted DEF Room, TypeOK
<1>3. ASSUME boot' = "pending"
      PROVE  \E u \in Nat : u + Cardinality(Arriving') <= krefs' /\ \A s \in Slots : s > u => task'[s].pc = "none"
  <2>1. PICK u \in Nat : u + Cardinality(Arriving) <= krefs /\ \A s \in Slots : s > u => task[s].pc = "none"
    BY <1>3 DEF Filling
  <2>2. u + Cardinality(Arriving') <= krefs
    BY <1>1, <1>2, <2>1
  <2> QED  BY <2>1, <2>2
<1> QED  BY <1>1, <1>3 DEF Filling

(* No account is new, no slot changes hands, and no sign-in forgets its    *)
(* supervisor.                                                             *)
LEMMA WatchKept ==
  ASSUME EveryAccountWatched, boot' = boot \/ boot' # "done",
         \A e \in Emails : row'[e].id \in {row[e].id, 0},
         \A s \in Slots : task'[s].id = task[s].id,
         \A l \in Logins : login[l].pc = "spawn" => login'[l].pc = "spawn" /\ login'[l].found = login[l].found
  PROVE  EveryAccountWatched'
<1> SUFFICES ASSUME boot' = "done", NEW e \in Emails, row'[e].id # 0
             PROVE  \/ \E s \in Slots : task'[s].id = row'[e].id
                    \/ \E l \in Logins : login'[l].pc = "spawn" /\ login'[l].found = row'[e].id
  BY DEF EveryAccountWatched
<1>1. boot = "done" /\ row[e].id = row'[e].id /\ row[e].id # 0
  OBVIOUS
<1> QED  BY <1>1 DEF EveryAccountWatched

LEMMA WatchedInit == Init => Watched
<1> SUFFICES ASSUME Init PROVE Watched
  OBVIOUS
<1>1. Opening = {} /\ Storing = {} /\ Arriving = {}
  BY DEF Init, Opening, Storing, Arriving, NoLogin
<1>2. IsFiniteSet({}) /\ Cardinality({}) = 0
  BY FS_EmptySet
<1>3. Room
  BY <1>1, <1>2, AccountsAssumption DEF Room, Init
<1>4. Filling
  <2>1. \A s \in Slots : task[s].pc = "none" /\ task[s].id = 0
    BY DEF Init, NoTask, Tasks
  <2>2. 0 + Cardinality(Arriving) <= krefs /\ 0 \in Nat
    BY <1>1, <1>2 DEF Init
  <2> QED  BY <2>1, <2>2 DEF Filling
<1>5. EveryAccountWatched
  BY DEF Init, EveryAccountWatched
<1> QED  BY <1>3, <1>4, <1>5 DEF Watched

LEMMA WatchedLogin ==
  ASSUME TypeOK, Shapes, Watched, NEW l \in Logins,
         \/ \E e \in Emails : Start(l, e)
         \/ Complete(l) \/ LoginStep(l) \/ StoreFails(l) \/ WriteFails(l)
  PROVE  Watched'
<1>0. Room /\ Filling /\ EveryAccountWatched
  BY DEF Watched
<1>a. /\ IsFiniteSet(Opening) /\ IsFiniteSet(Storing) /\ IsFiniteSet(Arriving)
      /\ Cardinality(Opening) \in Nat /\ Cardinality(Storing) \in Nat /\ Cardinality(Arriving) \in Nat
      /\ krefs \in Nat /\ ids \in Nat /\ MaxLogins \in Nat
  BY <1>0, Counted, AccountsAssumption DEF Room, TypeOK
<1>b. login \in [Logins -> LoginLocals] /\ login[l] \in LoginLocals
  BY DEF TypeOK, LoginLocals
<1>1. ASSUME NEW e \in Emails, Start(l, e) PROVE Watched'
  <2>1. Passes(l, {"idle"}, "pending") /\ UNCHANGED <<row, task, boot, krefs, ids>>
    BY <1>1, <1>b DEF Start, Passes, Account
  <2>2. l \notin Opening /\ krefs + Cardinality(Opening) < MaxLogins
    BY <1>1 DEF Start, Opening
  <2>3. Opening' = Opening \cup {l} /\ Storing' = Storing \ {l} /\ Arriving' = Arriving \ {l}
    BY <2>1, PassesIs
  <2>4. Storing' = Storing /\ Arriving' = Arriving
    BY <2>1, <2>3 DEF Passes, Storing, Arriving
  <2>5. IsFiniteSet(Opening') /\ Cardinality(Opening') = Cardinality(Opening) + 1
    BY <1>a, <2>2, <2>3, Counted
  <2>6. Room'
    BY <1>0, <1>a, <2>1, <2>2, <2>4, <2>5 DEF Room
  <2>7. Filling'
    BY <1>0, <2>1, <2>4 DEF Filling
  <2>8. EveryAccountWatched'
    BY <1>0, <1>1, <1>b, <2>1, WatchKept DEF Start
  <2> QED  BY <2>6, <2>7, <2>8 DEF Watched
<1>2. ASSUME NEW from, NEW to, Passes(l, from, to), "spawn" \notin from,
             to \in {"idle", "waiting", "store", "write"},
             to \in {"waiting", "store"} => from = {"pending", "waiting"},
             to = "write" => from = {"select"},
             UNCHANGED <<row, task, boot, krefs, ids>>, \A m \in Logins : m # l => login'[m] = login[m]
      PROVE  Watched'
  <2>1. Opening' \subseteq Opening /\ Storing' \subseteq Storing /\ Arriving' \subseteq Arriving
    BY <1>2 DEF Passes, Opening, Storing, Arriving
  <2>2. Room' /\ Filling'
    BY <1>0, <1>2, <2>1, FillingKept
  <2>3. EveryAccountWatched'
    BY <1>0, <1>2, WatchKept DEF Passes
  <2> QED  BY <2>2, <2>3 DEF Watched
<1>3. CASE Complete(l) \/ Finish(l)
  <2>1. \/ Passes(l, {"pending", "waiting"}, "waiting")
        \/ Passes(l, {"pending", "waiting"}, "store")
    BY <1>3, <1>b DEF Complete, Finish, Passes, LoginLocals
  <2>2. UNCHANGED <<row, task, boot, krefs, ids>> /\ \A m \in Logins : m # l => login'[m] = login[m]
    BY <1>3, <1>b DEF Complete, Finish, Account
  <2> QED  BY <1>2, <2>1, <2>2
<1>4. CASE FinishFails(l) \/ StoreFails(l) \/ WriteFails(l) \/ (WriteRefused(l) /\ login[l].pc = "write")
  <2>1. login' = [login EXCEPT ![l] = NoLogin] /\ UNCHANGED <<row, task, boot, krefs, ids>>
    BY <1>4 DEF FinishFails, StoreFails, WriteFails, WriteRefused, Account
  <2>2. login[l].pc \in {"waiting", "store", "write"}
    BY <1>4 DEF FinishFails, StoreFails, WriteFails
  <2>3. Passes(l, {"waiting", "store", "write"}, "idle")
    BY <1>b, <2>1, <2>2 DEF Passes, NoLogin
  <2>4. \A m \in Logins : m # l => login'[m] = login[m]
    BY <1>b, <2>1
  <2> QED  BY <1>2, <2>1, <2>3, <2>4
<1>5. CASE SelectExisting(l)
  <2>1. login' = [login EXCEPT ![l] = [login[l] EXCEPT !.pc = "write", !.found = row[login[l].email].id]]
        /\ login[l].pc = "select" /\ UNCHANGED <<row, task, boot, krefs, ids>>
    BY <1>5 DEF SelectExisting, Account
  <2>2. login'[l].pc = "write" /\ \A m \in Logins : m # l => login'[m] = login[m]
    BY <1>b, <2>1 DEF LoginLocals
  <2>3. Passes(l, {"select"}, "write")
    BY <2>1, <2>2 DEF Passes
  <2> QED  BY <1>2, <2>1, <2>2, <2>3
<1>6. CASE StoreTokens(l)
  <2>1. /\ login' = [login EXCEPT ![l] = [login[l] EXCEPT !.pc = "select", !.kref = krefs + 1]]
        /\ login[l].pc = "store" /\ krefs' = krefs + 1 /\ UNCHANGED <<row, task, boot, ids>>
    BY <1>6 DEF StoreTokens
  <2>2. login'[l].pc = "select" /\ \A m \in Logins : m # l => login'[m] = login[m]
    BY <1>b, <2>1 DEF LoginLocals
  <2>3. Passes(l, {"store"}, "select")
    BY <2>1, <2>2 DEF Passes
  <2>4. Opening' = Opening \ {l} /\ Storing' = Storing \cup {l} /\ Arriving' = Arriving \cup {l}
    BY <2>3, PassesIs
  <2>5. l \in Opening /\ l \notin Storing /\ l \notin Arriving
    BY <2>1 DEF Opening, Storing, Arriving
  <2>6. /\ IsFiniteSet(Opening') /\ Cardinality(Opening') = Cardinality(Opening) - 1
        /\ IsFiniteSet(Storing') /\ Cardinality(Storing') = Cardinality(Storing) + 1
        /\ IsFiniteSet(Arriving') /\ Cardinality(Arriving') = Cardinality(Arriving) + 1
    BY <1>a, <2>4, <2>5, Counted
  <2>7. Room'
    BY <1>0, <1>a, <2>1, <2>6 DEF Room
  <2>8. Filling'
    <3>1. ASSUME boot = "pending"
          PROVE  \E u \in Nat : u + Cardinality(Arriving') <= krefs' /\ \A s \in Slots : s > u => task[s].pc = "none"
      <4>1. PICK u \in Nat : u + Cardinality(Arriving) <= krefs /\ \A s \in Slots : s > u => task[s].pc = "none"
        BY <1>0, <3>1 DEF Filling
      <4>2. u + Cardinality(Arriving') <= krefs'
        BY <1>a, <2>1, <2>6, <4>1
      <4> QED  BY <4>1, <4>2
    <3> QED  BY <1>0, <2>1, <3>1 DEF Filling
  <2>9. EveryAccountWatched'
    BY <1>0, <2>1, <2>2, WatchKept
  <2> QED  BY <2>7, <2>8, <2>9 DEF Watched
<1>7. CASE WriteAccount(l) /\ login[l].found = row[login[l].email].id
  <2>1. PICK e \in Emails : e = login[l].email
    BY <1>7 DEF WriteAccount, Shapes, LoginShape
  <2>2. PICK i : i = IF login[l].found = 0 THEN ids + 1 ELSE login[l].found
    OBVIOUS
  <2>3. /\ row' = [row EXCEPT ![e] = [id |-> i, kref |-> login[l].kref]]
        /\ login' = [login EXCEPT ![l] = [login[l] EXCEPT !.pc = "spawn", !.found = row'[e].id]]
        /\ ids' = IF login[l].found = 0 THEN ids + 1 ELSE ids
        /\ login[l].pc = "write" /\ UNCHANGED <<task, boot, krefs>>
    BY <1>7, <2>1, <2>2 DEF WriteAccount
  <2>4. row'[e].id = i /\ \A f \in Emails : f # e => row'[f] = row[f]
    BY <2>3 DEF TypeOK
  <2>5. /\ login'[l].pc = "spawn" /\ login'[l].found = i
        /\ \A m \in Logins : m # l => login'[m] = login[m]
    BY <1>b, <2>3, <2>4 DEF LoginLocals
  <2>6. Passes(l, {"write"}, "spawn")
    BY <2>3, <2>5 DEF Passes
  <2>7. Opening' = Opening \ {l} /\ Storing' = Storing \ {l} /\ Arriving' = Arriving \cup {l}
    BY <2>6, PassesIs
  <2>8. Opening' = Opening /\ Arriving' = Arriving /\ l \in Storing
    BY <2>3, <2>7 DEF Opening, Arriving, Storing
  <2>9. IsFiniteSet(Storing') /\ Cardinality(Storing') = Cardinality(Storing) - 1
    BY <1>a, <2>7, <2>8, Counted
  <2>10. Room'
    BY <1>0, <1>a, <2>3, <2>8, <2>9 DEF Room
  <2>11. Filling'
    BY <1>0, <2>3, <2>8 DEF Filling
  <2>12. EveryAccountWatched'
    <3> SUFFICES ASSUME boot = "done", NEW f \in Emails, row'[f].id # 0
                 PROVE  \/ \E s \in Slots : task[s].id = row'[f].id
                        \/ \E m \in Logins : login'[m].pc = "spawn" /\ login'[m].found = row'[f].id
      BY <2>3 DEF EveryAccountWatched
    <3>1. CASE f = e
      BY <2>4, <2>5, <3>1
    <3>2. CASE f # e
      <4>1. \/ \E s \in Slots : task[s].id = row[f].id
            \/ \E m \in Logins : login[m].pc = "spawn" /\ login[m].found = row[f].id
        BY <1>0, <2>4, <3>2 DEF EveryAccountWatched
      <4> QED  BY <2>3, <2>4, <2>5, <3>2, <4>1
    <3> QED  BY <3>1, <3>2
  <2> QED  BY <2>10, <2>11, <2>12 DEF Watched
<1>8. CASE WriteAccount(l) /\ login[l].found # row[login[l].email].id
  BY <1>4, <1>8 DEF WriteAccount
<1>9. CASE Spawn(l)
  <2>1. PICK s \in Slots : /\ task[s].pc = "none" /\ \A r \in Slots : r < s => task[r].pc # "none"
                           /\ task' = [task EXCEPT ![s] = Supervised(login[l].found)]
    BY <1>9 DEF Spawn
  <2>2. login' = [login EXCEPT ![l] = NoLogin] /\ login[l].pc = "spawn" /\ UNCHANGED <<row, boot, krefs, ids>>
    BY <1>9 DEF Spawn
  <2>3. s \in Tasks /\ task'[s].pc = "resolve" /\ task'[s].id = login[l].found
        /\ \A r \in Slots : r # s => task'[r] = task[r]
    BY <2>1 DEF Tasks, TypeOK, Supervised
  <2>4. login'[l].pc = "idle" /\ \A m \in Logins : m # l => login'[m] = login[m]
    BY <1>b, <2>2 DEF NoLogin
  <2>5. Passes(l, {"spawn"}, "idle")
    BY <2>2, <2>4 DEF Passes
  <2>6. Opening' = Opening \ {l} /\ Storing' = Storing \ {l} /\ Arriving' = Arriving \ {l} /\ l \in Arriving
    BY <2>2, <2>5, PassesIs DEF Arriving
  <2>7. Room'
    BY <1>0, <2>2, <2>6, RoomKept
  <2>8. Cardinality(Arriving') = Cardinality(Arriving) - 1
    BY <1>a, <2>6, Counted
  <2>9. Filling'
    <3>1. ASSUME boot = "pending"
          PROVE  \E u \in Nat : u + Cardinality(Arriving') <= krefs /\ \A r \in Slots : r > u => task'[r].pc = "none"
      <4>1. PICK u \in Nat : u + Cardinality(Arriving) <= krefs /\ \A r \in Slots : r > u => task[r].pc = "none"
        BY <1>0, <3>1 DEF Filling
      <4>2. (u + 1) + Cardinality(Arriving') <= krefs /\ u + 1 \in Nat
        BY <1>a, <2>8, <4>1
      <4>3. s <= u + 1
        <5> SUFFICES ASSUME s > u + 1 PROVE FALSE
          BY DEF Slots
        <5>1. s \in Nat /\ s <= 2 * MaxLogins /\ 2 * MaxLogins \in Nat
          BY <1>a DEF Slots
        <5>2. u + 1 \in Slots /\ u + 1 < s /\ u + 1 > u
          BY <5>1 DEF Slots
        <5> QED  BY <2>1, <4>1, <5>2
      <4>4. \A r \in Slots : r > u + 1 => r # s /\ r > u
        BY <4>3 DEF Slots
      <4> QED  BY <2>3, <4>1, <4>2, <4>4
    <3> QED  BY <1>0, <2>2, <2>3, <3>1 DEF Filling
  <2>10. EveryAccountWatched'
    <3> SUFFICES ASSUME boot = "done", NEW f \in Emails, row[f].id # 0
                 PROVE  \/ \E r \in Slots : task'[r].id = row[f].id
                        \/ \E m \in Logins : login'[m].pc = "spawn" /\ login'[m].found = row[f].id
      BY <2>2 DEF EveryAccountWatched
    <3>1. CASE \E r \in Slots : task[r].id = row[f].id
      <4>1. task[s].id = 0
        BY <1>0, <2>1 DEF Filling
      <4> QED  BY <2>3, <3>1, <4>1
    <3>2. CASE \E m \in Logins : login[m].pc = "spawn" /\ login[m].found = row[f].id
      BY <2>3, <2>4, <3>2
    <3> QED  BY <1>0, <3>1, <3>2 DEF EveryAccountWatched
  <2> QED  BY <2>7, <2>9, <2>10 DEF Watched
<1> QED
  BY <1>1, <1>3, <1>4, <1>5, <1>6, <1>7, <1>8, <1>9 DEF LoginStep

LEMMA WatchedTask ==
  ASSUME TypeOK, Watched,
         \/ \E k \in Krefs : Cleanup(k)
         \/ \E t \in Tasks : TaskStep(t)
         \/ \E c \in Callers, id \in 1..ids : Call(c, id)
  PROVE  Watched'
<1>0. Room /\ Filling /\ EveryAccountWatched
  BY DEF Watched
<1>1. UNCHANGED <<row, login, boot, krefs, ids>>
  BY DEF Cleanup, TaskStep, Resolve, Load, SaveRefreshed, RefreshFails, Call, Mail
<1>2. \A s \in Slots : task'[s].id = task[s].id /\ (task'[s].pc = "none" <=> task[s].pc = "none")
  <2>1. CASE \E k \in Krefs : Cleanup(k)
    BY <2>1 DEF Cleanup
  <2>2. CASE \E t \in Tasks : TaskStep(t)
    <3>1. PICK t \in Tasks : TaskStep(t)
      BY <2>2
    <3>2. PICK x : task' = [task EXCEPT ![t] = x] /\ (t \in Slots => x.id = task[t].id /\ x.pc # "none")
      <4>1. task[t] \in Locals
        BY TaskOf DEF TaskType
      <4>2. t \in Slots => GiveUp(t).id = task[t].id /\ GiveUp(t).pc # "none"
        BY DEF GiveUp, Supervised
      <4>3. \A ok : t \in Slots => After(t, ok).id = task[t].id /\ After(t, ok).pc # "none"
        BY <4>1, <4>2 DEF After, Locals
      <4>4. CASE Resolve(t)
        <5>1. PICK k : task' = [task EXCEPT ![t] = IF k = 0 THEN GiveUp(t) ELSE [task[t] EXCEPT !.pc = "load", !.kref = k]]
          BY <4>4 DEF Resolve
        <5>2. PICK x : x = IF k = 0 THEN GiveUp(t) ELSE [task[t] EXCEPT !.pc = "load", !.kref = k]
          OBVIOUS
        <5>3. t \in Slots => x.id = task[t].id /\ x.pc # "none"
          BY <4>1, <4>2, <5>2 DEF Locals
        <5> QED  BY <5>1, <5>2, <5>3
      <4>5. CASE Load(t)
        <5>1. \/ \E ok : task' = [task EXCEPT ![t] = After(t, ok)]
              \/ task' = [task EXCEPT ![t].pc = "refresh"]
          BY <4>5 DEF Load
        <5>2. CASE task' = [task EXCEPT ![t].pc = "refresh"]
          <6>1. PICK x : x = [task[t] EXCEPT !.pc = "refresh"]
            OBVIOUS
          <6>2. x.id = task[t].id /\ x.pc # "none"
            BY <4>1, <6>1 DEF Locals
          <6> QED  BY <5>2, <6>1, <6>2
        <5> QED  BY <4>3, <5>1, <5>2
      <4>6. CASE SaveRefreshed(t) \/ RefreshFails(t)
        BY <4>3, <4>6 DEF SaveRefreshed, RefreshFails
      <4> QED  BY <3>1, <4>4, <4>5, <4>6 DEF TaskStep
    <3>3. \A s \in Slots : s \in Tasks
      BY DEF Tasks
    <3>4. t \in Slots => task[t].pc # "none"
      BY <3>1 DEF TaskStep, Resolve, Load, SaveRefreshed, RefreshFails
    <3> QED  BY <3>2, <3>3, <3>4 DEF TypeOK
  <2>3. CASE \E c \in Callers, id \in 1..ids : Call(c, id)
    <3>1. \A s \in Slots : s \in Nat
      BY DEF Slots
    <3>2. PICK c \in Callers, id \in 1..ids : Call(c, id)
      BY <2>3
    <3>3. \A s \in Slots : task'[s] = task[s]
      BY <3>1, <3>2, AccountsAssumption DEF Call, Tasks, TypeOK
    <3> QED  BY <3>3
  <2> QED  BY <2>1, <2>2, <2>3
<1>3. EveryAccountWatched'
  BY <1>0, <1>1, <1>2, WatchKept
<1>4. Opening' = Opening /\ Storing' = Storing /\ Arriving' = Arriving
  BY <1>1 DEF Opening, Storing, Arriving
<1>5. Room' /\ Filling'
  BY <1>0, <1>1, <1>2, <1>4 DEF Room, Filling
<1> QED  BY <1>3, <1>5 DEF Watched

(* A start finds a slot of its own for every account.                      *)
LEMMA Placement ==
  ASSUME TypeOK, Room, Filling, boot = "pending",
         NEW known \in SUBSET (1..ids), NEW free, free = {s \in Slots : task[s].pc = "none"}
  PROVE  \E p \in [known -> free] : \A i, j \in known : p[i] = p[j] => i = j
<1>1. /\ Cardinality(Storing) \in Nat /\ Cardinality(Arriving) \in Nat /\ Cardinality(Opening) \in Nat
      /\ krefs \in Nat /\ ids \in Nat /\ MaxLogins \in Nat
  BY Counted, AccountsAssumption DEF Room, TypeOK
<1>2. PICK u \in Nat : u + Cardinality(Arriving) <= krefs /\ \A s \in Slots : s > u => task[s].pc = "none"
  BY DEF Filling
<1>3. u <= MaxLogins /\ ids <= MaxLogins
  BY <1>1, <1>2 DEF Room
<1> DEFINE p == [i \in known |-> MaxLogins + i]
<1>4. \A i \in known : p[i] = MaxLogins + i /\ i \in Nat /\ MaxLogins + i \in Slots /\ MaxLogins + i > u
  BY <1>1, <1>3 DEF Slots
<1>5. p \in [known -> free]
  BY <1>2, <1>4
<1>6. \A i, j \in known : p[i] = p[j] => i = j
  BY <1>1, <1>4
<1> QED  BY <1>5, <1>6

LEMMA WatchedBoot == ASSUME TypeOK, Watched, Boot PROVE Watched'
<1>0. Room /\ Filling /\ EveryAccountWatched
  BY DEF Watched
<1> DEFINE known == {row[e].id : e \in Emails} \ {0}
           free  == {s \in Slots : task[s].pc = "none"}
           place == CHOOSE p \in [known -> free] : \A i, j \in known : p[i] = p[j] => i = j
<1>1. /\ boot = "pending" /\ boot' = "done"
      /\ task' = [t \in Tasks |->
           IF \E i \in known : place[i] = t
             THEN Supervised(CHOOSE i \in known : place[i] = t) ELSE task[t]]
      /\ UNCHANGED <<row, login, krefs, ids>>
  BY DEF Boot
<1>2. known \in SUBSET (1..ids)
  <2>1. \A e \in Emails : row[e].id \in 0..ids
    BY DEF TypeOK
  <2>2. ids \in Nat
    BY DEF TypeOK
  <2> QED  BY <2>1, <2>2
<1>3. place \in [known -> free] /\ \A i, j \in known : place[i] = place[j] => i = j
  <2>1. \E p \in [known -> free] : \A i, j \in known : p[i] = p[j] => i = j
    BY <1>0, <1>1, <1>2, Placement
  <2> HIDE DEF known, free
  <2> QED  BY <2>1
<1>4. free \subseteq Slots /\ Slots \subseteq Tasks
  BY DEF Tasks
<1> HIDE DEF place, free
<1>5. \A i \in known : place[i] \in Slots /\ task'[place[i]] = Supervised(i)
  <2> SUFFICES ASSUME NEW i \in known PROVE place[i] \in Slots /\ task'[place[i]] = Supervised(i)
    OBVIOUS
  <2> HIDE DEF known
  <2>1. place[i] \in Slots /\ place[i] \in Tasks
    BY <1>3, <1>4
  <2>2. (CHOOSE j \in known : place[j] = place[i]) = i
    BY <1>3
  <2>3. task'[place[i]] = Supervised(CHOOSE j \in known : place[j] = place[i])
    BY <1>1, <2>1
  <2> QED  BY <2>1, <2>2, <2>3
<1>6. EveryAccountWatched'
  <2>1. \A e \in Emails : row[e].id # 0 => row[e].id \in known
    OBVIOUS
  <2> HIDE DEF known
  <2>2. \A i \in known : \E s \in Slots : task'[s].id = i
    <3> TAKE i \in known
    <3>1. PICK s \in Slots : task'[s] = Supervised(i)
      BY <1>5
    <3>2. task'[s].id = i
      BY <3>1 DEF Supervised
    <3> QED  BY <3>2
  <2> QED  BY <1>1, <2>1, <2>2 DEF EveryAccountWatched
<1>7. \A s \in Slots : task'[s].pc = "none" => task'[s].id = 0
  <2> HIDE DEF known
  <2>1. \A s \in Slots : task'[s] = task[s] \/ task'[s].pc = "resolve"
    BY <1>1, <1>4 DEF Supervised
  <2> QED  BY <1>0, <2>1 DEF Filling
<1>8. Opening' = Opening /\ Storing' = Storing /\ Arriving' = Arriving
  BY <1>1 DEF Opening, Storing, Arriving
<1>9. Room' /\ Filling'
  BY <1>0, <1>1, <1>7, <1>8 DEF Room, Filling
<1> QED  BY <1>6, <1>9 DEF Watched

LEMMA WatchedRemoval ==
  ASSUME TypeOK, Watched,
         \/ \E r \in Removals : \/ \E id \in 1..ids : SelectKref(r, id)
                                \/ RemovalStep(r) \/ DeleteFails(r) \/ DropFails(r)
         \/ BootFails \/ UNCHANGED vars
  PROVE  Watched'
<1>0. Room /\ Filling /\ EveryAccountWatched
  BY DEF Watched
<1>1. UNCHANGED <<login, task, krefs, ids>> /\ (boot' = boot \/ boot' = "failed")
  BY DEF SelectKref, RemovalStep, DeleteRow, DropTokens, DeleteFails, DropFails, BootFails, Rest, vars
<1>2. \A e \in Emails : row'[e].id \in {row[e].id, 0}
  BY DEF SelectKref, RemovalStep, DeleteRow, DropTokens, DeleteFails, DropFails, BootFails, Rest, vars, NoRow
<1>3. EveryAccountWatched'
  BY <1>0, <1>1, <1>2, WatchKept
<1>4. Opening' = Opening /\ Storing' = Storing /\ Arriving' = Arriving
  BY <1>1 DEF Opening, Storing, Arriving
<1>5. Room' /\ Filling'
  BY <1>0, <1>1, <1>4 DEF Room, Filling
<1> QED  BY <1>3, <1>5 DEF Watched

LEMMA WatchedCrash == ASSUME TypeOK, Watched, Crash PROVE Watched'
<1>1. /\ login' = [l \in Logins |-> NoLogin] /\ task' = [t \in Tasks |-> NoTask]
      /\ boot' = "pending" /\ UNCHANGED <<krefs, ids>>
  BY DEF Crash
<1>2. Opening' = {} /\ Storing' = {} /\ Arriving' = {}
  BY <1>1 DEF Opening, Storing, Arriving, NoLogin
<1>3. Room'
  BY <1>1, <1>2, RoomKept DEF Watched
<1>4. Filling'
  <2>1. \A s \in Slots : task'[s].pc = "none" /\ task'[s].id = 0
    BY <1>1 DEF NoTask, Tasks
  <2>2. 0 + Cardinality(Arriving') <= krefs' /\ 0 \in Nat
    BY <1>1, <1>2, FS_EmptySet DEF TypeOK
  <2> QED  BY <2>1, <2>2 DEF Filling
<1>5. EveryAccountWatched'
  BY <1>1 DEF EveryAccountWatched
<1> QED  BY <1>3, <1>4, <1>5 DEF Watched

LEMMA WatchedStep == TypeOK /\ Shapes /\ Watched /\ [Next]_vars => Watched'
<1> SUFFICES ASSUME TypeOK, Shapes, Watched, [Next]_vars PROVE Watched'
  OBVIOUS
<1> QED  BY WatchedLogin, WatchedTask, WatchedBoot, WatchedRemoval, WatchedCrash DEF Next

(* Every account has a supervisor, or the sign-in that wrote it is about   *)
(* to spawn one, from the moment start-up has listed the accounts: a slot  *)
(* never changes hands, and a start finds one for every account it lists   *)
(* (idle.rs spawn_for_existing_accounts, commands.rs mail_oauth_complete). *)
THEOREM AccountsAreWatched == Spec => []EveryAccountWatched
<1>1. Watched => EveryAccountWatched
  BY DEF Watched
<1> QED  BY <1>1, WatchedInit, WatchedStep, TypeInit, TypeStep, PTL DEF Spec
=============================================================================
