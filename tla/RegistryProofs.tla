--------------------------- MODULE RegistryProofs ---------------------------
(***************************************************************************)
(* Theorems about what graph.db holds, for every set of ids, number of     *)
(* handlers that run at once, calls and crashes. Registry: no old link is  *)
(* lost over a start that is cut, unless copying it failed; the last       *)
(* workspace stays unless two deletions overlapped; a deletion leaves no   *)
(* row and no reference behind but what was written late, folders and the  *)
(* edges of chats; a start can always seed; who answers is of the chat's   *)
(* workspace. Vault: the edges of the notes are the links of their bodies, *)
(* and end in notes that are there.                                        *)
(***************************************************************************)
EXTENDS Registry, Vault, FiniteSetTheorems, TLAPS

-----------------------------------------------------------------------------
(* The migration of links.                                                 *)

HasEdge(l) == \E e \in edge : e.from = l

(* The link is an edge, or a statement about it has failed.                *)
Told(l) == HasEdge(l) \/ l \in uncopied

(* Nothing runs before open() has ended.                                   *)
Alone == ~Up => \A s \in Slots : todo[s] = << >>

(* What the migration still has to copy; with the rest it is through.      *)
Copied ==
  /\ Boot("copy") => \A l \in links : l \in startup.left \/ Told(l)
  /\ Boot("remove") => \A l \in links : Told(l)

MigrationInv == Alone /\ Copied

(* The steps of the window and of handlers happen when the start is over,  *)
(* and leave what it works on alone.                                       *)
LEMMA OthersComeLater ==
  ASSUME Alone, Window \/ \E s \in Slots : Agency(s) \/ Deletion(s) \/ Filing(s) \/ Talk(s)
  PROVE  Up /\ UNCHANGED old
<1>1. CASE Window
  BY <1>1 DEF Window, Switch, Refresh, Answer, PickDefault, CreateWorkspace, CreateAgent, SetChatAgents, Command
<1>2. CASE \E s \in Slots : Agency(s) \/ Deletion(s) \/ Filing(s) \/ Talk(s)
  <2> PICK s \in Slots : Agency(s) \/ Deletion(s) \/ Filing(s) \/ Talk(s)
    BY <1>2
  <2>1. CASE Agency(s)
    BY <2>1 DEF Agency, NewChat, Bind, DeleteAgent, Unbind, DelAgent, Call, Free, Command, At, Alone
  <2>2. CASE Deletion(s)
    BY <2>2 DEF Deletion, DeleteChat, DelMessages, DelChat, DeleteWorkspace, Count, DelRows, Call, Free, Command, At, Alone
  <2>3. CASE Filing(s)
    BY <2>3 DEF Filing, CreateFolder, FindFolder, MakeFolder, DeleteFolder, Unfile, DelFolder, SetNoteFolder,
                FindNote, Move, Log, Call, Free, Command, At, Alone
  <2>4. CASE Talk(s)
    BY <2>4 DEF Talk, Turn, Say, LinkChat, Ensure, Relate, Speak, Call, Free, Command, At, Alone
  <2> QED  BY <2>1, <2>2, <2>3, <2>4
<1> QED  BY <1>1, <1>2

(* A step of the start: handlers stay away, and a link goes only when it   *)
(* has become an edge or its copy has failed.                              *)
LEMMA StartingKeeps ==
  ASSUME MigrationInv, Starting
  PROVE  MigrationInv' /\ \A l \in links : l \in links' \/ Told(l)'
<1>1. CASE Backfill \/ Seed \/ SeedWorkspace \/ SeedChat
  BY <1>1 DEF MigrationInv, Alone, Copied, Backfill, Seed, SeedWorkspace, SeedChat, Begin, Boot, Up
<1>2. CASE SeedAgent
  BY <1>2 DEF MigrationInv, Alone, Copied, SeedAgent, Begin, Boot, Up
<1>3. CASE Migrate
  BY <1>3 DEF MigrationInv, Alone, Copied, Told, Migrate, CopyOrRemove, Begin, Boot, Up
<1>4. CASE CopyLink
  <2>1. PICK l \in startup.left :
          /\ \/ edge' = edge \cup {[from |-> l, ws |-> None]} /\ uncopied' = uncopied \ {l}
             \/ edge' = edge /\ uncopied' = uncopied \cup {l}
          /\ CopyOrRemove(startup.left \ {l})
    BY <1>4 DEF CopyLink
  <2>2. Told(l)' /\ \A m : Told(m) => Told(m)'
    <3>1. CASE edge' = edge \cup {[from |-> l, ws |-> None]} /\ uncopied' = uncopied \ {l}
      <4> DEFINE copy == [from |-> l, ws |-> None]
      <4>1. copy.from = l /\ edge' = edge \cup {copy}
        BY <3>1
      <4>2. copy \in edge' /\ \A e \in edge : e \in edge'
        BY <4>1
      <4> HIDE DEF copy
      <4>3. HasEdge(l)' /\ \A m : HasEdge(m) => HasEdge(m)'
        BY <4>1, <4>2 DEF HasEdge
      <4> QED  BY <3>1, <4>3 DEF Told
    <3>2. CASE edge' = edge /\ uncopied' = uncopied \cup {l}
      BY <3>2 DEF Told, HasEdge
    <3> QED  BY <2>1, <3>1, <3>2
  <2>3. links' = links /\ todo' = todo /\ Boot("copy")
    BY <1>4 DEF CopyLink
  <2>4. Copied'
    BY <2>1, <2>2, <2>3 DEF MigrationInv, Copied, CopyOrRemove, Begin, Boot
  <2> QED  BY <2>3, <2>4 DEF MigrationInv, Alone, Boot, Up
<1>5. CASE RemoveLinks
  BY <1>5 DEF MigrationInv, Alone, Copied, Told, RemoveLinks, Begin, Boot, Up, HasEdge, tables, content
<1>6. CASE MarkMigrated
  BY <1>6 DEF MigrationInv, Alone, Copied, MarkMigrated, Begin, Boot, Up
<1>7. CASE Crash
  BY <1>7 DEF MigrationInv, Alone, Copied, Crash, Begin, Boot, Up
<1> QED  BY <1>1, <1>2, <1>3, <1>4, <1>5, <1>6, <1>7 DEF Starting

LEMMA MigrationStep ==
  ASSUME MigrationInv, [Next]_vars
  PROVE  MigrationInv' /\ \A l \in links : l \in links' \/ Told(l)'
<1>1. CASE Starting
  BY <1>1, StartingKeeps
<1>2. CASE Window \/ \E s \in Slots : Agency(s) \/ Deletion(s) \/ Filing(s) \/ Talk(s)
  BY <1>2, OthersComeLater DEF MigrationInv, Alone, Copied, Up, Boot, old
<1>3. CASE UNCHANGED vars
  BY <1>3 DEF MigrationInv, Alone, Copied, Told, Up, Boot, HasEdge, vars, tables, content, old
<1> QED  BY <1>1, <1>2, <1>3 DEF Next

(* However often the start is cut, and whatever handlers do in between, a  *)
(* row of the old table goes only when its edge is there, or when its copy *)
(* or the SELECT of the rows failed and its error was dropped (db.rs       *)
(* migrate_link_to_edge).                                                  *)
THEOREM NoLinkLost == Spec => LinksKept
<1>1. Init => MigrationInv
  BY DEF Init, MigrationInv, Alone, Copied, Boot, Up
<1>2. MigrationInv /\ [Next]_vars => MigrationInv'
  BY MigrationStep
<1>3. MigrationInv /\ [Next]_vars => [\A l \in links : l \in links' \/ (\E e \in edge' : e.from = l) \/ l \in uncopied']_vars
  BY MigrationStep DEF Told, HasEdge
<1> QED  BY <1>1, <1>2, <1>3, PTL DEF Spec, LinksKept

-----------------------------------------------------------------------------
(* The last workspace.                                                     *)

IsSeq(q) == q \in Seq(Range(q))

(* Statements a handler may have left; the workspaces they count or delete *)
(* are workspaces.                                                         *)
OnWorkspace == {"count", "delWorkspace"}
Fine(q)     == IsSeq(q) /\ \A i \in DOMAIN q : q[i].do \in OnWorkspace => q[i].at \in Workspaces
Harmless(q) == Fine(q) /\ \A i \in DOMAIN q : q[i].do # "delWorkspace"

Deletes(q, i) == i \in DOMAIN q /\ q[i].do = "delWorkspace"
Targets(q)    == {q[i].at : i \in {x \in DOMAIN q : Deletes(q, x)}}
AtMostOne(q)  == \A i, j : Deletes(q, i) /\ Deletes(q, j) => i = j

Wellformed == ws \subseteq Workspaces /\ DOMAIN todo = Slots /\ \A s \in Slots : Fine(todo[s])

(* One deletion at a time, and it leaves a workspace; past the seeding     *)
(* there is one.                                                           *)
Past == {"seedChat", "seedAgents", "migrate", "copy", "remove", "mark", "up"}
OneByOne ==
  /\ startup.at \in Past => ws # {}
  /\ \A s \in Slots : AtMostOne(todo[s]) /\ \A w \in Targets(todo[s]) : \E v \in ws : v # w
  /\ \A s, t \in Slots : s = t \/ Targets(todo[s]) = {} \/ Targets(todo[t]) = {}

OneInv == Wellformed /\ Alone /\ (~overlapped => OneByOne)

(* What a handler has left after its first statement gave way to others.   *)
LEMMA Spliced ==
  ASSUME NEW p, NEW q, IsSeq(p), IsSeq(q), q # << >>
  PROVE  /\ IsSeq(p \o Tail(q))
         /\ \A i \in DOMAIN (p \o Tail(q)) :
              \/ i \in DOMAIN p /\ (p \o Tail(q))[i] = p[i]
              \/ /\ i - Len(p) + 1 \in DOMAIN q /\ i - Len(p) + 1 # 1 /\ i \in Int
                 /\ (p \o Tail(q))[i] = q[i - Len(p) + 1]
<1> DEFINE S == Range(p) \cup Range(q)
<1>1. p \in Seq(S) /\ q \in Seq(S)
  BY DEF IsSeq
<1> HIDE DEF S
<1> DEFINE r == p \o Tail(q)
<1>2. r \in Seq(S) /\ Len(r) = Len(p) + Len(q) - 1
  BY <1>1
<1>3. \A i \in 1..Len(r) : \/ i \in 1..Len(p) /\ r[i] = p[i]
                           \/ i \in (Len(p) + 1)..Len(r) /\ r[i] = q[i - Len(p) + 1]
  BY <1>1, <1>2
<1>4. DOMAIN r = 1..Len(r) /\ DOMAIN p = 1..Len(p) /\ DOMAIN q = 1..Len(q) /\ Len(p) \in Nat /\ Len(q) \in Nat
  BY <1>1, <1>2
<1> HIDE DEF r
<1>5. IsSeq(r)
  BY <1>2 DEF IsSeq, Range
<1>6. \A i \in DOMAIN r : \/ i \in DOMAIN p /\ r[i] = p[i]
                          \/ /\ i - Len(p) + 1 \in DOMAIN q /\ i - Len(p) + 1 # 1 /\ i \in Int
                             /\ r[i] = q[i - Len(p) + 1]
  BY <1>2, <1>3, <1>4
<1> QED  BY <1>5, <1>6 DEF r

(* A handler replaces its first statement by others, or starts with them:  *)
(* the deletions it has left are among those it had.                       *)
Fewer(q, r) == Fine(r) /\ Targets(r) \subseteq Targets(q) /\ (AtMostOne(q) => AtMostOne(r))

LEMMA SplicedFewer ==
  ASSUME NEW p, NEW q, Harmless(p), Fine(q), q # << >>
  PROVE  /\ Fewer(q, p \o Tail(q))
         /\ Deletes(q, 1) /\ AtMostOne(q) => Targets(p \o Tail(q)) = {}
<1> DEFINE r == p \o Tail(q)
<1>1. IsSeq(r)
  BY Spliced DEF Harmless, Fine
<1>2. \A i \in DOMAIN r : \/ i \in DOMAIN p /\ r[i] = p[i]
                          \/ /\ i - Len(p) + 1 \in DOMAIN q /\ i - Len(p) + 1 # 1 /\ i \in Int
                             /\ r[i] = q[i - Len(p) + 1]
  BY Spliced DEF Harmless, Fine
<1>3. Len(p) \in Nat
  BY DEF Harmless, Fine, IsSeq
<1> HIDE DEF r
<1>4. Fine(r)
  BY <1>1, <1>2 DEF Fine, Harmless
<1>5. \A i : Deletes(r, i) => /\ i \in Int /\ Deletes(q, i - Len(p) + 1) /\ i - Len(p) + 1 # 1
                              /\ r[i] = q[i - Len(p) + 1]
  BY <1>2 DEF Deletes, Harmless
<1>6. Targets(r) \subseteq Targets(q)
  BY <1>5 DEF Targets, Deletes
<1>7. AtMostOne(q) => AtMostOne(r)
  BY <1>3, <1>5 DEF AtMostOne
<1>8. Deletes(q, 1) /\ AtMostOne(q) => Targets(r) = {}
  BY <1>5 DEF AtMostOne, Targets
<1> QED  BY <1>4, <1>6, <1>7, <1>8 DEF r, Fewer

(* What every step but Count and the start keeps: no handler has deletions *)
(* it did not have, and no workspace goes.                                 *)
LEMMA Replace ==
  ASSUME OneInv, NEW s \in Slots, NEW q, Fewer(todo[s], q), todo' = [todo EXCEPT ![s] = q],
         ws \subseteq ws', ws' \subseteq Workspaces, startup' = startup, overlapped' = overlapped, Up
  PROVE  OneInv'
<1>1. todo'[s] = q /\ \A t \in Slots \ {s} : todo'[t] = todo[t]
  BY DEF OneInv, Wellformed
<1>2. Wellformed' /\ Alone'
  BY <1>1 DEF OneInv, Wellformed, Alone, Up, Boot, Fewer
<1> SUFFICES ASSUME OneByOne PROVE OneByOne'
  BY <1>2 DEF OneInv
<1>3. \A t \in Slots : Targets(todo'[t]) \subseteq Targets(todo[t]) /\ AtMostOne(todo'[t])
  BY <1>1 DEF OneByOne, Fewer
<1>4. \A t \in Slots : \A w \in Targets(todo'[t]) : \E v \in ws' : v # w
  BY <1>3 DEF OneByOne
<1>5. \A t, u \in Slots : t = u \/ Targets(todo'[t]) = {} \/ Targets(todo'[u]) = {}
  BY <1>3 DEF OneByOne
<1>6. ws # {} => ws' # {}
  OBVIOUS
<1> QED  BY <1>3, <1>4, <1>5, <1>6 DEF OneByOne

LEMMA ThenKeeps ==
  ASSUME OneInv, NEW s \in Slots, todo[s] # << >>, NEW p, Harmless(p), Then(s, p),
         ws' = ws, startup' = startup, overlapped' = overlapped
  PROVE  OneInv'
<1>1. Up /\ Fine(todo[s])
  BY DEF OneInv, Alone, Wellformed
<1>2. Fewer(todo[s], p \o Tail(todo[s]))
  BY <1>1, SplicedFewer
<1>3. todo' = [todo EXCEPT ![s] = p \o Tail(todo[s])]
  BY DEF Then
<1>4. ws' \subseteq Workspaces
  BY DEF OneInv, Wellformed
<1> QED  BY <1>1, <1>2, <1>3, <1>4, Replace

LEMMA CallKeeps ==
  ASSUME OneInv, NEW s \in Slots, NEW p, Harmless(p), Call(s, p),
         ws' = ws, startup' = startup, overlapped' = overlapped
  PROVE  OneInv'
<1>1. Up /\ todo' = [todo EXCEPT ![s] = p]
  BY DEF Call, Free, Command
<1>2. Targets(p) = {} /\ AtMostOne(p) /\ Fine(p)
  BY DEF Harmless, Targets, AtMostOne, Deletes
<1>3. ws' \subseteq Workspaces
  BY DEF OneInv, Wellformed
<1> QED  BY <1>1, <1>2, <1>3, Replace DEF Fewer

LEMMA Pure ==
  /\ Harmless(<< >>)
  /\ \A a : IsSeq(<<a>>) /\ DOMAIN <<a>> = {1} /\ <<a>>[1] = a
  /\ \A a, b : IsSeq(<<a, b>>) /\ DOMAIN <<a, b>> = {1, 2} /\ <<a, b>>[1] = a /\ <<a, b>>[2] = b
  BY DEF Harmless, Fine, IsSeq, Range

(* Statements that count or delete no workspace.                           *)
LEMMA Other ==
  /\ \A x : x.do \notin OnWorkspace => Harmless(<<x>>)
  /\ \A x, y : x.do \notin OnWorkspace /\ y.do \notin OnWorkspace => Harmless(<<x, y>>)
  BY Pure DEF Harmless, Fine, OnWorkspace

(* Of all statements of a deletion the last one takes the workspace.       *)
LEMMA CascadeIs ==
  ASSUME NEW w \in Workspaces
  PROVE  /\ Fine(Cascade(w)) /\ Len(Cascade(w)) = 7 /\ DOMAIN Cascade(w) = 1..7
         /\ \A i : Deletes(Cascade(w), i) => i = 7 /\ Cascade(w)[i].at = w
<1> DEFINE c == Cascade(w)
<1>1. IsSeq(c) /\ Len(c) = 7 /\ DOMAIN c = 1..7
  BY DEF Cascade, IsSeq, Range
<1>2. /\ c[1].do = "delEdits" /\ c[2].do = "delEdges" /\ c[3].do = "delNotes" /\ c[4].do = "delChatMessages"
      /\ c[5].do = "delChats" /\ c[6].do = "delAgents" /\ c[7].do = "delWorkspace" /\ c[7].at = w
  BY DEF Cascade, Stmt
<1> HIDE DEF c
<1>3. \A i \in DOMAIN c : i \in {1, 2, 3, 4, 5, 6, 7}
  BY <1>1
<1>4. \A i \in DOMAIN c : c[i].do \in OnWorkspace => i = 7
  BY <1>2, <1>3 DEF OnWorkspace
<1> QED  BY <1>1, <1>2, <1>4 DEF Fine, Deletes, OnWorkspace, c

(* Two workspaces at least, when one is not the last.                      *)
LEMMA AnotherOne == ASSUME NEW w, ~LastOne PROVE \E v \in ws : v # w
<1>1. CASE ws = {}
  BY <1>1, FS_EmptySet DEF LastOne
<1>2. CASE ws = {w}
  BY <1>2, FS_Singleton DEF LastOne
<1> QED  BY <1>1, <1>2

(* A workspace is deleted only while another is there that no handler      *)
(* deletes.                                                                *)
LEMMA CountKeeps == ASSUME OneInv, NEW s \in Slots, Count(s) PROVE OneInv'
<1> DEFINE w == Arg(s)
           p == IF LastOne THEN << >> ELSE Cascade(w)
           q == p \o Tail(todo[s])
<1>1. /\ todo[s] # << >> /\ ws' = ws /\ startup' = startup /\ Up
      /\ overlapped' = (overlapped \/ \E v \in Workspaces : Going(v))
  BY DEF Count, At, tables, owners, old, OneInv, Alone
<1>2. w \in Workspaces /\ Fine(todo[s])
  <2>1. Fine(todo[s]) /\ 1 \in DOMAIN todo[s] /\ todo[s][1] = Head(todo[s])
    BY <1>1 DEF OneInv, Wellformed, Fine, IsSeq
  <2> QED  BY <2>1 DEF Count, At, Arg, Fine, OnWorkspace
<1>3. todo'[s] = q /\ (\A t \in Slots \ {s} : todo'[t] = todo[t]) /\ DOMAIN todo' = Slots
  BY DEF Count, Then, OneInv, Wellformed
<1>4. Fine(p)
  BY <1>2, CascadeIs, Pure DEF Harmless
<1> HIDE DEF w, p
<1>5. /\ IsSeq(q)
      /\ \A i \in DOMAIN q : \/ i \in DOMAIN p /\ q[i] = p[i]
                             \/ \E j \in DOMAIN todo[s] : q[i] = todo[s][j]
  BY <1>1, <1>2, <1>4, Spliced DEF Fine
<1> HIDE DEF q
<1>6. Fine(q)
  BY <1>2, <1>4, <1>5 DEF Fine
<1>7. Wellformed' /\ Alone'
  BY <1>1, <1>3, <1>6 DEF OneInv, Wellformed, Alone, Up, Boot
<1>8. ASSUME ~overlapped' PROVE OneByOne'
  <2>1. OneByOne /\ \A v \in Workspaces : ~Going(v)
    BY <1>1, <1>8 DEF OneInv
  <2>2. \A t \in Slots : \A i : ~Deletes(todo[t], i)
    BY <2>1 DEF Deletes, Going, OneInv, Wellformed, Fine, OnWorkspace
  <2>3. \A i : Deletes(q, i) => Deletes(p, i) /\ q[i] = p[i]
    BY <1>5, <2>2 DEF Deletes
  <2>4. \A i : Deletes(p, i) => ~LastOne /\ i = 7 /\ p[i].at = w
    BY <1>2, CascadeIs, Pure DEF p, Deletes, Harmless
  <2>5. AtMostOne(todo'[s]) /\ Targets(todo'[s]) \subseteq {w}
    BY <1>3, <2>3, <2>4 DEF AtMostOne, Targets
  <2>6. Targets(todo'[s]) # {} => \E v \in ws : v # w
    BY <1>3, <2>3, <2>4, AnotherOne DEF Targets
  <2>7. \A t \in Slots \ {s} : AtMostOne(todo'[t]) /\ Targets(todo'[t]) = {}
    BY <1>3, <2>2 DEF AtMostOne, Targets
  <2> QED  BY <1>1, <2>1, <2>5, <2>6, <2>7 DEF OneByOne
<1> QED  BY <1>7, <1>8 DEF OneInv

(* The deletion that is under way is the only one, and leaves a workspace. *)
LEMMA DelRowsKeeps == ASSUME OneInv, NEW s \in Slots, DelRows(s) PROVE OneInv'
<1>1. todo[s] # << >> /\ Done(s) /\ startup' = startup /\ overlapped' = overlapped /\ Up
  BY DEF DelRows, At, old, history, OneInv, Alone
<1>2. CASE ~At(s, "delWorkspace")
  BY <1>1, <1>2, ThenKeeps, Pure DEF DelRows, Done
<1>3. CASE At(s, "delWorkspace")
  <2>1. ws' = ws \ {Arg(s)}
    BY <1>3 DEF DelRows
  <2>2. Deletes(todo[s], 1) /\ todo[s][1] = Head(todo[s]) /\ Fine(todo[s])
    BY <1>1, <1>3 DEF OneInv, Wellformed, Fine, IsSeq, Deletes, At
  <2> DEFINE q == << >> \o Tail(todo[s])
  <2>3. Fewer(todo[s], q) /\ (AtMostOne(todo[s]) => Targets(q) = {})
    BY <1>1, <2>2, SplicedFewer, Pure
  <2>4. todo'[s] = q /\ (\A t \in Slots \ {s} : todo'[t] = todo[t]) /\ DOMAIN todo' = Slots
    BY <1>1 DEF Done, Then, OneInv, Wellformed
  <2> HIDE DEF q
  <2>5. Wellformed' /\ Alone'
    BY <1>1, <2>1, <2>3, <2>4 DEF OneInv, Wellformed, Alone, Up, Boot, Fewer
  <2>6. ASSUME OneByOne PROVE OneByOne'
    <3>1. Arg(s) \in Targets(todo[s])
      BY <2>2 DEF Targets, Deletes, Arg
    <3>2. \A t \in Slots : Targets(todo'[t]) = {} /\ AtMostOne(todo'[t])
      BY <2>3, <2>4, <2>6, <3>1 DEF OneByOne, Fewer
    <3>3. ws' # {}
      BY <2>1, <2>6, <3>1 DEF OneByOne
    <3> QED  BY <3>2, <3>3 DEF OneByOne
  <2> QED  BY <1>1, <2>5, <2>6 DEF OneInv
<1> QED  BY <1>2, <1>3

LEMMA HandlersKeep ==
  ASSUME OneInv, NEW s \in Slots, Agency(s) \/ Deletion(s) \/ Filing(s) \/ Talk(s)
  PROVE  OneInv'
<1> USE Pure, Other, ThenKeeps, CallKeeps DEF Stmt, OnWorkspace, At, Done, tables, owners, old, history
<1>1. CASE Agency(s)
  <2>1. CASE NewChat(s)
    BY <2>1 DEF NewChat
  <2>2. CASE DeleteAgent(s)
    BY <2>2 DEF DeleteAgent
  <2>3. CASE Bind(s) \/ Unbind(s) \/ DelAgent(s)
    BY <2>3 DEF Bind, Unbind, DelAgent
  <2> QED  BY <1>1, <2>1, <2>2, <2>3 DEF Agency
<1>2. CASE Deletion(s)
  <2>1. CASE DeleteChat(s)
    BY <2>1 DEF DeleteChat
  <2>2. CASE DeleteWorkspace(s)
    <3>1. PICK w \in ws : Call(s, <<Stmt("count", w, None)>>)
      BY <2>2 DEF DeleteWorkspace
    <3>2. Harmless(<<Stmt("count", w, None)>>)
      BY DEF Harmless, Fine, OneInv, Wellformed
    <3> QED  BY <2>2, <3>1, <3>2 DEF DeleteWorkspace
  <2>3. CASE DelMessages(s) \/ DelChat(s)
    BY <2>3 DEF DelMessages, DelChat
  <2>4. CASE Count(s) \/ DelRows(s)
    BY <2>4, CountKeeps, DelRowsKeeps
  <2> QED  BY <1>2, <2>1, <2>2, <2>3, <2>4 DEF Deletion
<1>3. CASE Filing(s)
  <2>1. CASE CreateFolder(s)
    BY <2>1 DEF CreateFolder
  <2>2. CASE FindFolder(s)
    BY <2>2 DEF FindFolder
  <2>3. CASE MakeFolder(s) \/ Unfile(s) \/ DelFolder(s) \/ Move(s) \/ Log(s)
    BY <2>3 DEF MakeFolder, Unfile, DelFolder, Move, Log
  <2>4. CASE DeleteFolder(s)
    BY <2>4 DEF DeleteFolder
  <2>5. CASE SetNoteFolder(s)
    BY <2>5 DEF SetNoteFolder
  <2>6. CASE FindNote(s)
    BY <2>6 DEF FindNote
  <2> QED  BY <1>3, <2>1, <2>2, <2>3, <2>4, <2>5, <2>6 DEF Filing
<1>4. CASE Talk(s)
  <2>1. CASE Turn(s)
    <3>1. PICK c \in Listed, m \in Agents :
            Call(s, <<Stmt("say", c, None), Stmt("link", c, None), Stmt("speak", c, <<m, Override(c, m)>>),
                      Stmt("say", c, None), Stmt("link", c, None), Stmt("ensure", view.ws, None)>>)
      BY <2>1 DEF Turn
    <3> DEFINE p == <<Stmt("say", c, None), Stmt("link", c, None), Stmt("speak", c, <<m, Override(c, m)>>),
                      Stmt("say", c, None), Stmt("link", c, None), Stmt("ensure", view.ws, None)>>
    <3>2. IsSeq(p) /\ DOMAIN p = 1..6
      BY DEF IsSeq, Range
    <3>3. /\ p[1].do = "say" /\ p[2].do = "link" /\ p[3].do = "speak" /\ p[4].do = "say"
          /\ p[5].do = "link" /\ p[6].do = "ensure"
      OBVIOUS
    <3>4. Call(s, p)
      BY <3>1
    <3> HIDE DEF p
    <3>5. \A i \in DOMAIN p : i \in {1, 2, 3, 4, 5, 6}
      BY <3>2
    <3>6. \A i \in DOMAIN p : p[i].do \notin OnWorkspace
      BY <3>3, <3>5
    <3>7. Harmless(p)
      BY <3>2, <3>6 DEF Harmless, Fine
    <3> QED  BY <2>1, <3>4, <3>7 DEF Turn
  <2>2. CASE LinkChat(s)
    BY <2>2 DEF LinkChat
  <2>3. CASE Ensure(s)
    BY <2>3 DEF Ensure
  <2>4. CASE Say(s) \/ Relate(s) \/ Speak(s)
    BY <2>4 DEF Say, Relate, Speak
  <2> QED  BY <1>4, <2>1, <2>2, <2>3, <2>4 DEF Talk
<1> QED  BY <1>1, <1>2, <1>3, <1>4

LEMMA BootKeeps == ASSUME OneInv, Starting PROVE OneInv'
<1>1. CASE Crash
  <2>1. todo' = [s \in Slots |-> << >>] /\ ws' = ws /\ startup'.at = "backfill"
    BY <1>1 DEF Crash, Begin, tables, owners
  <2>2. Wellformed' /\ Alone'
    BY <2>1, Pure DEF OneInv, Wellformed, Alone, Harmless
  <2> QED  BY <2>1, <2>2 DEF OneInv, OneByOne, Past, AtMostOne, Targets, Deletes
<1>2. CASE ~Crash
  <2>1. /\ ~Up /\ todo' = todo /\ overlapped' = overlapped
        /\ ws' = ws \/ ws' = ws \cup {Default}
        /\ startup'.at \in Past => ws' # {} \/ (startup.at \in Past /\ ws' = ws)
    BY <1>2 DEF Starting, Backfill, Seed, SeedWorkspace, SeedChat, SeedAgent, Migrate, CopyLink, RemoveLinks,
                MarkMigrated, CopyOrRemove, Begin, Boot, Up, Past, tables, owners, history
  <2>2. Wellformed' /\ (Alone' \/ \E s \in Slots : todo[s] # << >>)
    BY <2>1, RegistryAssumption DEF OneInv, Wellformed, Alone
  <2>3. \A s \in Slots : todo[s] = << >>
    BY <2>1 DEF OneInv, Alone
  <2> QED  BY <2>1, <2>2, <2>3 DEF OneInv, OneByOne, AtMostOne, Targets, Deletes
<1> QED  BY <1>1, <1>2

LEMMA OneStep == OneInv /\ [Next]_vars => OneInv'
<1> SUFFICES ASSUME OneInv, [Next]_vars PROVE OneInv'
  OBVIOUS
<1>1. CASE Starting
  BY <1>1, BootKeeps
<1>2. CASE Window
  <2>1. /\ todo' = todo /\ startup' = startup /\ overlapped' = overlapped
        /\ ws \subseteq ws' /\ ws' \subseteq Workspaces
    BY <1>2 DEF Window, Switch, Refresh, Answer, PickDefault, CreateWorkspace, CreateAgent, SetChatAgents,
                tables, owners, old, history, OneInv, Wellformed
  <2> QED  BY <2>1 DEF OneInv, Wellformed, Alone, OneByOne, Up, Boot
<1>3. CASE \E s \in Slots : Agency(s) \/ Deletion(s) \/ Filing(s) \/ Talk(s)
  BY <1>3, HandlersKeep
<1>4. CASE UNCHANGED vars
  BY <1>4 DEF vars, tables, owners, old, history, OneInv, Wellformed, Alone, OneByOne, Up, Boot
<1> QED  BY <1>1, <1>2, <1>3, <1>4 DEF Next

(* The last workspace goes only when two deletions overlapped, for any     *)
(* number of handlers, crashes and starts (db.rs delete_workspace, "always  *)
(* keep at least one").                                                    *)
THEOREM LastWorkspaceStays == Spec => []OneStays
<1>1. Init => OneInv
  <2>1. Init => startup.at \notin Past
    BY DEF Init, Past
  <2>2. Init => ws \subseteq Workspaces
    <3>1. New => ws = {}
      BY DEF New
    <3>2. InUse => \E w \in Workspaces : ws = {Default, w}
      BY DEF InUse
    <3> QED  BY <3>1, <3>2, RegistryAssumption DEF Init
  <2> QED  BY <2>1, <2>2, Pure DEF Init, OneInv, Wellformed, Alone, Harmless, OneByOne, AtMostOne, Targets, Deletes
<1>2. OneInv => OneStays
  BY DEF OneInv, OneByOne, OneStays, Past, Up, Boot
<1> QED  BY <1>1, <1>2, OneStep, PTL DEF Spec

-----------------------------------------------------------------------------
(* Types, and what the statements a handler has left are about.            *)
Subjects(do) ==
  CASE do \in {"bind", "delMessages", "delChat", "say", "link", "speak", "relate"} -> Chats
    [] do \in {"unbind", "delAgent"} -> Agents
    [] do \in {"unfile", "delFolder"} -> Folders
    [] do \in {"move", "log"} -> Notes
    [] OTHER -> Workspaces

Statement(x) ==
  /\ x.at \in Subjects(x.do)
  /\ x.do = "bind" => x.to \in Agents
  /\ x.do = "relate" => x.to \in Workspaces
  /\ x.do \in {"move", "findNote"} => x.to \in Folders \cup {None}

Views == [ws : Workspaces \cup {None}, chats : [Chats -> ChatRows \cup {None}], agents : SUBSET Agents]

TypeOK ==
  /\ ws \subseteq Workspaces
  /\ chat \in [Chats -> ChatRows \cup {None}]
  /\ agent \in [Agents -> Workspaces \cup {None}]
  /\ folder \in [Folders -> Workspaces \cup {None}]
  /\ note \in [Notes -> NoteRows \cup {None}]
  /\ DOMAIN todo = Slots
  /\ \A s \in Slots : IsSeq(todo[s]) /\ \A i \in DOMAIN todo[s] : Statement(todo[s][i])
  /\ view \in Views
  /\ asked \subseteq Workspaces
  /\ view.ws = None => asked = {} /\ Listed = {}
  /\ default \in Agents \cup {None}

(* In q, what is done to x comes after what must come first.               *)
Led(q, do, first, x) ==
  \A i \in DOMAIN q : q[i].do = do /\ q[i].at = x
    => \E j \in DOMAIN q : j < i /\ q[j].do = first /\ q[j].at = x
LedAll(do, first, x) == \A s \in Slots : Led(todo[s], do, first, x)

(* A cascade ends with the workspace.                                      *)
OfCascade   == {"delEdits", "delEdges", "delNotes", "delChatMessages", "delChats", "delAgents", "delWorkspace"}
Followed(q) == \A i \in DOMAIN q : q[i].do \in OfCascade
                 => \E j \in DOMAIN q : i <= j /\ q[j].do = "delWorkspace" /\ q[j].at = q[i].at
Cascading   == \A s \in Slots : Followed(todo[s])

(* Ids are given out once, but for those of the seeds.                     *)
UsedOnce ==
  /\ Present(chat) \subseteq used /\ Present(agent) \subseteq used /\ Present(note) \subseteq used

ChatOwned(c)  == chat[c].ws \in ws /\ LedAll("delWorkspace", "delChats", chat[c].ws)
AgentOwned(a) == agent[a] \in ws /\ LedAll("delWorkspace", "delAgents", agent[a])
NoteOwned(n)  == note[n].ws \in ws /\ LedAll("delWorkspace", "delNotes", note[n].ws)
SaidOwned(c)  == chat[c] # None /\ LedAll("delChat", "delMessages", c) /\ LedAll("delChats", "delChatMessages", chat[c].ws)
EditOwned(n)  == note[n] # None /\ LedAll("delNotes", "delEdits", note[n].ws)
EdgeOwned(e)  == e.ws # None => e.ws \in ws /\ LedAll("delWorkspace", "delEdges", e.ws)

Owned ==
  /\ \A c \in Present(chat) : <<"chat", c>> \in late \/ ChatOwned(c)
  /\ \A a \in Present(agent) : <<"agent", a>> \in late \/ AgentOwned(a)
  /\ \A n \in Present(note) : <<"note", n>> \in late \/ NoteOwned(n)
  /\ \A c \in said : c \in Chats /\ (<<"said", c>> \in late \/ SaidOwned(c))
  /\ \A n \in edits : n \in Notes /\ (<<"edit", n>> \in late \/ EditOwned(n))
  /\ \A e \in edge : <<"edge", e.from>> \in late \/ EdgeOwned(e)

SeedInv ==
  /\ <<"chat", Main>> \notin late /\ (chat[Main] # None => chat[Main].ws = Default)
  /\ \A a \in Seeded : <<"agent", a>> \notin late /\ agent[a] \in {None, Default}
  /\ Boot("seedWorkspace") => Default \notin ws
  /\ Boot("seedChat") => Default \in ws /\ chat[Main] = None /\ \A a \in Seeded : agent[a] = None
  /\ Boot("seedAgents") => /\ Default \in ws /\ startup.left \subseteq Seeded
                           /\ \A a \in startup.left : agent[a] = None

Bound(c) ==
  LET a == chat[c].agent
  IN a # None => /\ agent[a] = chat[c].ws /\ LedAll("delAgent", "unbind", a)
                 /\ LedAll("delAgents", "delChats", chat[c].ws)
Filed(n) ==
  LET f == note[n].folder
  IN f # None => folder[f] # None /\ LedAll("delFolder", "unfile", f)
Referring ==
  /\ \A c \in Present(chat) : c \in loose \/ Bound(c)
  /\ \A n \in Present(note) : n \in misfiled \/ Filed(n)

InWs(c, w) == c \in used \cup {Main} /\ (chat[c] = None \/ chat[c].ws = w) /\ (c = Main => w = Default)
Of(a, w)   == a \in used \cup Seeded /\ agent[a] \in {None, w} /\ (a \in Seeded => w = Default)
Binding(c) == \E s \in Slots : \E i \in DOMAIN todo[s] : todo[s][i].do = "bind" /\ todo[s][i].at = c
Local(c)   == \A a \in Range(chat[c].agents) : Of(a, chat[c].ws)
Choice(x)  ==
  x.do = "speak" => x.to[2] = None \/ (x.to[2] \in Agents /\ \E w \in Workspaces : InWs(x.at, w) /\ Of(x.to[2], w))
Coherent ==
  /\ \E w \in Workspaces : /\ \A c \in Listed : InWs(c, w)
                           /\ \A a \in view.agents : Of(a, w)
  /\ \A c \in Present(chat) : Local(c) \/ (c \in loose /\ ~Binding(c))
  /\ \A s \in Slots : \A i \in DOMAIN todo[s] : Choice(todo[s][i])

RegistryInv == TypeOK /\ Alone /\ Cascading /\ UsedOnce /\ Owned /\ SeedInv /\ Referring /\ Coherent

-----------------------------------------------------------------------------
(* Sequences: what Only leaves, and where the statements of a list are     *)
(* after the first gave way to others.                                     *)

(* A property of numbers that holds at 0, and at each one after it holds   *)
(* below, holds up to n: given as the set of the numbers that have it.     *)
LEMMA UpTo ==
  ASSUME NEW n \in Nat, NEW P, 0 \in P, \A i \in 1..n : i - 1 \in P => i \in P
  PROVE  0..n \subseteq P
<1> SUFFICES ASSUME (0..n) \ P # {} PROVE FALSE
  OBVIOUS
<1> DEFINE Rest == (0..n) \ P
<1>1. Rest \subseteq Nat /\ Rest # {}
  OBVIOUS
<1>2. PICK m \in Rest : \A i \in Rest : <<i, m>> \notin OpToRel(<, Nat)
  BY <1>1, WFMin, NatLessThanWellFounded
<1>3. OpToRel(<, Nat) = {ss \in Nat \X Nat : ss[1] < ss[2]}
  BY DEF OpToRel
<1>4. \A i \in Rest : ~(i < m)
  BY <1>1, <1>2, <1>3
<1>5. m \in 0..n /\ m \notin P /\ m # 0
  BY <1>2
<1>6. m \in 1..n /\ m - 1 \in 0..n /\ m - 1 < m
  BY <1>5
<1>7. m - 1 \in Rest
  BY <1>5, <1>6
<1> QED  BY <1>4, <1>6, <1>7

(* Only keeps members of S that were in the list.                          *)
LEMMA OnlyKeeps ==
  ASSUME NEW T, NEW q \in Seq(T), NEW S
  PROVE  Only(q, S) \in Seq(T \cap S)
<1> DEFINE n == Len(q)
           Next1(r, i) == IF q[i] \in S THEN Append(r, q[i]) ELSE r
           R == Seq(T \cap S)
           F(g, m) == \A i \in 0..m : g[i] = IF i = 0 THEN << >> ELSE Next1(g[i - 1], i)
<1>1. n \in Nat /\ << >> \in R /\ \A i \in 1..n, r \in R : Next1(r, i) \in R
  OBVIOUS
<1> HIDE DEF R, Next1
<1>2. \E g \in [0..n -> R] : F(g, n)
  <2> DEFINE P == {m \in 0..n : \E g \in [0..m -> R] : F(g, m)}
  <2>1. 0 \in P
    <3> DEFINE g == [i \in 0..0 |-> << >>]
    <3>1. g \in [0..0 -> R]
      BY <1>1
    <3>2. F(g, 0)
      OBVIOUS
    <3> HIDE DEF g, F
    <3> QED  BY <1>1, <3>1, <3>2
  <2>2. ASSUME NEW m \in 1..n, m - 1 \in P PROVE m \in P
    <3>1. PICK g \in [0..(m - 1) -> R] : F(g, m - 1)
      <4> HIDE DEF F
      <4> QED  BY <2>2
    <3> DEFINE h == [i \in 0..m |-> IF i = m THEN Next1(g[m - 1], m) ELSE g[i]]
    <3>2. g[m - 1] \in R
      BY <1>1
    <3>3. h \in [0..m -> R]
      BY <1>1, <3>2
    <3>4. F(h, m)
      BY <1>1, <3>1
    <3> HIDE DEF h, F
    <3> QED  BY <3>3, <3>4
  <2> HIDE DEF P, F
  <2>3. 0..n \subseteq P
    BY <1>1, <2>1, <2>2, UpTo
  <2>4. n \in P
    BY <1>1, <2>3
  <2> QED  BY <2>4 DEF P
<1> DEFINE kept == CHOOSE g : g = [i \in 0..n |-> IF i = 0 THEN << >> ELSE Next1(g[i - 1], i)]
<1>3. kept = [i \in 0..n |-> IF i = 0 THEN << >> ELSE Next1(kept[i - 1], i)]
  <2>1. PICK g \in [0..n -> R] : F(g, n)
    BY <1>2
  <2>2. g = [i \in 0..n |-> IF i = 0 THEN << >> ELSE Next1(g[i - 1], i)]
    BY <2>1
  <2> QED  BY <2>2
<1>4. Only(q, S) = kept[n]
  BY DEF Only, Next1
<1> HIDE DEF kept
<1>5. kept[n] \in R
  <2> DEFINE P == {i \in 0..n : kept[i] \in R}
  <2>1. 0 \in P
    BY <1>1, <1>3
  <2>2. \A i \in 1..n : i - 1 \in P => i \in P
    BY <1>1, <1>3
  <2> HIDE DEF P
  <2>3. 0..n \subseteq P
    BY <1>1, <2>1, <2>2, UpTo
  <2>4. n \in P
    BY <1>1, <2>3
  <2> QED  BY <2>4 DEF P
<1> QED  BY <1>4, <1>5 DEF R

(* Where each statement goes when r is what p and the rest of q are.       *)
Splice(p, q, r) ==
  /\ \A i \in DOMAIN p : i \in DOMAIN r /\ r[i] = p[i]
  /\ \A k \in DOMAIN q : k # 1 => k + Len(p) - 1 \in DOMAIN r /\ r[k + Len(p) - 1] = q[k]
  /\ \A i \in DOMAIN r : \/ i \in DOMAIN p /\ r[i] = p[i]
                         \/ \E k \in DOMAIN q : k # 1 /\ i = k + Len(p) - 1 /\ r[i] = q[k]

LEMMA SplicedTo ==
  ASSUME NEW p, NEW q, IsSeq(p), IsSeq(q), q # << >>
  PROVE  IsSeq(p \o Tail(q)) /\ Splice(p, q, p \o Tail(q))
<1> DEFINE S == Range(p) \cup Range(q)
           r == p \o Tail(q)
<1>1. p \in Seq(S) /\ q \in Seq(S)
  BY DEF IsSeq
<1> HIDE DEF S
<1>2. \A i \in DOMAIN p : i \in DOMAIN r /\ r[i] = p[i]
  BY <1>1
<1>3. \A k \in DOMAIN q : k # 1 => k + Len(p) - 1 \in DOMAIN r /\ r[k + Len(p) - 1] = q[k]
  BY <1>1
<1>4. Len(p) \in Nat
  BY <1>1
<1>5. \A i \in DOMAIN r : \/ i \in DOMAIN p /\ r[i] = p[i]
                          \/ /\ i - Len(p) + 1 \in DOMAIN q /\ i - Len(p) + 1 # 1 /\ i \in Int
                             /\ r[i] = q[i - Len(p) + 1]
  BY Spliced
<1> HIDE DEF r
<1>6. ASSUME NEW i \in DOMAIN r, ~(i \in DOMAIN p /\ r[i] = p[i])
      PROVE  \E k \in DOMAIN q : k # 1 /\ i = k + Len(p) - 1 /\ r[i] = q[k]
  <2>1. PICK k : k = i - Len(p) + 1
    OBVIOUS
  <2>2. k \in DOMAIN q /\ k # 1 /\ i \in Int /\ r[i] = q[k]
    BY <1>5, <1>6, <2>1
  <2>3. i = k + Len(p) - 1
    BY <1>4, <2>1, <2>2
  <2> QED  BY <2>2, <2>3
<1>7. IsSeq(r)
  BY Spliced DEF r
<1> QED  BY <1>2, <1>3, <1>6, <1>7 DEF r, Splice

-----------------------------------------------------------------------------
(* What a step does to the lists of statements.                            *)

Pairs == {<<"delWorkspace", "delChats">>, <<"delWorkspace", "delAgents">>, <<"delWorkspace", "delNotes">>,
          <<"delWorkspace", "delEdges">>, <<"delAgents", "delChats">>, <<"delChats", "delChatMessages">>,
          <<"delNotes", "delEdits">>, <<"delChat", "delMessages">>, <<"delAgent", "unbind">>,
          <<"delFolder", "unfile">>}

Has(q, do, x)  == \E i \in DOMAIN q : q[i].do = do /\ q[i].at = x
Clear(do, x)   == \A s \in Slots : ~Has(todo[s], do, x)
WellOrdered(p) == IsSeq(p) /\ Followed(p) /\ \A do, first, x : <<do, first>> \in Pairs => Led(p, do, first, x)

(* The handlers that move do the first statement they have left.           *)
Doing(S, do, x) == \E s \in S : At(s, do) /\ Arg(s) = x

(* The deletions left stay in order, unless what came first is done now.   *)
Ordered(S) ==
  /\ Cascading'
  /\ \A do, first, x : <<do, first>> \in Pairs =>
       /\ LedAll(do, first, x) /\ ~Doing(S, first, x) => LedAll(do, first, x)'
       /\ Clear(do, x) => LedAll(do, first, x)'

(* s does its first statement, or is called, and has p to do before what   *)
(* else it has left.                                                       *)
Gives(s, p) == (todo[s] # << >> /\ Then(s, p)) \/ Call(s, p)

LEMMA LedSpliced ==
  ASSUME NEW p, NEW q, NEW r, IsSeq(p), IsSeq(q), q # << >>, Splice(p, q, r),
         NEW do, NEW first, NEW x, Led(p, do, first, x),
         \/ Led(q, do, first, x) /\ ~(Head(q).do = first /\ Head(q).at = x)
         \/ ~Has(q, do, x)
  PROVE  Led(r, do, first, x)
<1>1. Head(q) = q[1] /\ DOMAIN q \subseteq Nat /\ Len(p) \in Nat
  BY DEF IsSeq
<1> SUFFICES ASSUME NEW i \in DOMAIN r, r[i].do = do, r[i].at = x
             PROVE  \E j \in DOMAIN r : j < i /\ r[j].do = first /\ r[j].at = x
  BY DEF Led
<1>2. CASE i \in DOMAIN p /\ r[i] = p[i]
  <2>1. PICK j \in DOMAIN p : j < i /\ p[j].do = first /\ p[j].at = x
    BY <1>2 DEF Led
  <2> QED  BY <2>1 DEF Splice
<1>3. CASE \E k \in DOMAIN q : k # 1 /\ i = k + Len(p) - 1 /\ r[i] = q[k]
  <2>1. PICK k \in DOMAIN q : k # 1 /\ i = k + Len(p) - 1 /\ r[i] = q[k]
    BY <1>3
  <2>2. Led(q, do, first, x) /\ ~(q[1].do = first /\ q[1].at = x)
    BY <1>1, <2>1 DEF Has
  <2>3. PICK j \in DOMAIN q : j < k /\ q[j].do = first /\ q[j].at = x
    BY <2>1, <2>2 DEF Led
  <2>4. j # 1 /\ j + Len(p) - 1 < i
    BY <1>1, <2>1, <2>2, <2>3
  <2>5. j + Len(p) - 1 \in DOMAIN r /\ r[j + Len(p) - 1] = q[j]
    BY <2>4 DEF Splice
  <2> QED  BY <2>3, <2>4, <2>5
<1> QED  BY <1>2, <1>3 DEF Splice

LEMMA FollowedSpliced ==
  ASSUME NEW p, NEW q, NEW r, IsSeq(p), IsSeq(q), q # << >>, Splice(p, q, r), Followed(p), Followed(q)
  PROVE  Followed(r)
<1>1. DOMAIN q = 1..Len(q) /\ Len(p) \in Nat
  BY DEF IsSeq
<1> SUFFICES ASSUME NEW i \in DOMAIN r, r[i].do \in OfCascade
             PROVE  \E j \in DOMAIN r : i <= j /\ r[j].do = "delWorkspace" /\ r[j].at = r[i].at
  BY DEF Followed
<1>2. CASE i \in DOMAIN p /\ r[i] = p[i]
  <2>1. PICK j \in DOMAIN p : i <= j /\ p[j].do = "delWorkspace" /\ p[j].at = p[i].at
    BY <1>2 DEF Followed
  <2> QED  BY <1>2, <2>1 DEF Splice
<1>3. CASE \E k \in DOMAIN q : k # 1 /\ i = k + Len(p) - 1 /\ r[i] = q[k]
  <2>1. PICK k \in DOMAIN q : k # 1 /\ i = k + Len(p) - 1 /\ r[i] = q[k]
    BY <1>3
  <2>2. PICK j \in DOMAIN q : k <= j /\ q[j].do = "delWorkspace" /\ q[j].at = q[k].at
    BY <2>1 DEF Followed
  <2>3. j # 1 /\ i <= j + Len(p) - 1
    BY <1>1, <2>1, <2>2
  <2>4. j + Len(p) - 1 \in DOMAIN r /\ r[j + Len(p) - 1] = q[j]
    BY <2>3 DEF Splice
  <2> QED  BY <2>1, <2>2, <2>3, <2>4
<1> QED  BY <1>2, <1>3 DEF Splice

(* What is left after a step was left before, or was given by it.          *)
Known(p) ==
  \A t \in Slots : /\ IsSeq(todo'[t])
                   /\ \A i \in DOMAIN todo'[t] : \/ \E j \in DOMAIN p : todo'[t][i] = p[j]
                                                 \/ \E j \in DOMAIN todo[t] : todo'[t][i] = todo[t][j]

LEMMA GivesOrdered ==
  ASSUME TypeOK, Cascading, NEW s \in Slots, NEW p, WellOrdered(p), Gives(s, p)
  PROVE  Ordered({s}) /\ DOMAIN todo' = Slots /\ Known(p)
<1>1. DOMAIN todo = Slots /\ \A t \in Slots : IsSeq(todo[t])
  BY DEF TypeOK
<1>2. DOMAIN todo' = Slots /\ \A t \in Slots : t # s => todo'[t] = todo[t]
  BY <1>1 DEF Gives, Then, Call
<1>0. \A q, do, first, x : ~Has(q, do, x) => Led(q, do, first, x)
  BY DEF Has, Led
<1>3. CASE todo[s] # << >> /\ Then(s, p)
  <2>1. todo'[s] = p \o Tail(todo[s])
    BY <1>1, <1>3 DEF Then
  <2>2. IsSeq(p) /\ Followed(p) /\ IsSeq(todo[s]) /\ Followed(todo[s])
    BY <1>1 DEF WellOrdered, Cascading
  <2>3. IsSeq(todo'[s]) /\ Splice(p, todo[s], todo'[s])
    BY <1>3, <2>1, <2>2, SplicedTo
  <2>4. Followed(todo'[s])
    BY <1>3, <2>2, <2>3, FollowedSpliced
  <2>5. \A i \in DOMAIN todo'[s] : \/ \E j \in DOMAIN p : todo'[s][i] = p[j]
                                   \/ \E j \in DOMAIN todo[s] : todo'[s][i] = todo[s][j]
    BY <2>3 DEF Splice
  <2>6. ASSUME NEW do, NEW first, NEW x, <<do, first>> \in Pairs
        PROVE  /\ Led(todo[s], do, first, x) /\ ~Doing({s}, first, x) => Led(todo'[s], do, first, x)
               /\ ~Has(todo[s], do, x) => Led(todo'[s], do, first, x)
    <3>1. Led(p, do, first, x)
      BY <2>6 DEF WellOrdered
    <3>2. ~Doing({s}, first, x) => ~(Head(todo[s]).do = first /\ Head(todo[s]).at = x)
      BY <1>3 DEF Doing, At, Arg
    <3> QED  BY <1>3, <2>2, <2>3, <3>1, <3>2, LedSpliced
  <2>7. Cascading'
    BY <1>2, <2>4 DEF Cascading
  <2>8. ASSUME NEW do, NEW first, NEW x, <<do, first>> \in Pairs
        PROVE  /\ LedAll(do, first, x) /\ ~Doing({s}, first, x) => LedAll(do, first, x)'
               /\ Clear(do, x) => LedAll(do, first, x)'
    BY <1>2, <1>0, <2>6, <2>8 DEF LedAll, Clear
  <2> QED  BY <1>1, <1>2, <2>3, <2>5, <2>7, <2>8 DEF Ordered, Known
<1>4. CASE todo[s] = << >> /\ todo'[s] = p
  <2>1. Cascading'
    BY <1>2, <1>4 DEF Cascading, WellOrdered
  <2>2. ASSUME NEW do, NEW first, NEW x, <<do, first>> \in Pairs
        PROVE  /\ LedAll(do, first, x) => LedAll(do, first, x)'
               /\ Clear(do, x) => LedAll(do, first, x)'
    BY <1>2, <1>0, <1>4, <2>2 DEF LedAll, Clear, WellOrdered
  <2> QED  BY <1>1, <1>2, <1>4, <2>1, <2>2 DEF Ordered, WellOrdered, Known
<1> QED  BY <1>1, <1>3, <1>4 DEF Gives, Call, Free

(* The lists that handlers are given.                                      *)
Doomed == OfCascade \cup {"delChat", "delAgent", "delFolder"}

LEMMA CalmOrdered ==
  ASSUME NEW p, IsSeq(p), \A i \in DOMAIN p : p[i].do \notin Doomed
  PROVE  WellOrdered(p)
<1>1. Followed(p)
  BY DEF Followed, Doomed
<1>2. \A do, first : <<do, first>> \in Pairs => do \in Doomed
  BY DEF Pairs, Doomed, OfCascade
<1> QED  BY <1>1, <1>2 DEF WellOrdered, Led

LEMMA TwoOrdered ==
  ASSUME NEW x, NEW p, NEW first, NEW do, p = <<Stmt(first, x, None), Stmt(do, x, None)>>,
         <<do, first>> \in {<<"delChat", "delMessages">>, <<"delAgent", "unbind">>, <<"delFolder", "unfile">>}
  PROVE  WellOrdered(p)
<1>1. IsSeq(p) /\ DOMAIN p = {1, 2} /\ p[1] = Stmt(first, x, None) /\ p[2] = Stmt(do, x, None)
  BY Pure
<1> HIDE DEF Stmt
<1>2. p[1].do = first /\ p[1].at = x /\ p[2].do = do /\ p[2].at = x
  BY <1>1 DEF Stmt
<1>3. Followed(p)
  BY <1>1, <1>2 DEF Followed, OfCascade
<1>4. ASSUME NEW d, NEW f, NEW y, <<d, f>> \in Pairs PROVE Led(p, d, f, y)
  BY <1>1, <1>2, <1>4 DEF Led, Pairs
<1> QED  BY <1>1, <1>3, <1>4 DEF WellOrdered

LEMMA CascadeOrdered ==
  ASSUME NEW w \in Workspaces
  PROVE  WellOrdered(Cascade(w)) /\ \A i \in DOMAIN Cascade(w) : Cascade(w)[i].do \in OfCascade /\ Cascade(w)[i].at = w
<1>1. PICK c : c = Cascade(w)
  OBVIOUS
<1>2. IsSeq(c) /\ DOMAIN c = 1..7
  BY <1>1, CascadeIs DEF Fine
<1>3. /\ c[1].do = "delEdits" /\ c[2].do = "delEdges" /\ c[3].do = "delNotes" /\ c[4].do = "delChatMessages"
      /\ c[5].do = "delChats" /\ c[6].do = "delAgents" /\ c[7].do = "delWorkspace"
      /\ c[1].at = w /\ c[2].at = w /\ c[3].at = w /\ c[4].at = w /\ c[5].at = w /\ c[6].at = w /\ c[7].at = w
  BY <1>1 DEF Cascade, Stmt
<1>4. \A i \in DOMAIN c : i \in {1, 2, 3, 4, 5, 6, 7}
  BY <1>2
<1>5. \A i \in DOMAIN c : c[i].do \in OfCascade /\ c[i].at = w
  BY <1>3, <1>4 DEF OfCascade
<1>6. Followed(c)
  <2>1. 7 \in DOMAIN c /\ \A i \in DOMAIN c : i <= 7
    BY <1>2
  <2> QED  BY <1>3, <1>5, <2>1 DEF Followed
<1>7. ASSUME NEW do, NEW first, NEW x, <<do, first>> \in Pairs PROVE Led(c, do, first, x)
  <2> SUFFICES ASSUME NEW i \in DOMAIN c, c[i].do = do, c[i].at = x
               PROVE  \E j \in DOMAIN c : j < i /\ c[j].do = first /\ c[j].at = x
    BY DEF Led
  <2>1. x = w /\ {1, 2, 3, 4, 5, 6, 7} \subseteq DOMAIN c
    BY <1>2, <1>5
  <2>2. \/ i = 7 /\ first \in {"delChats", "delAgents", "delNotes", "delEdges"}
        \/ i = 6 /\ first = "delChats"
        \/ i = 5 /\ first = "delChatMessages"
        \/ i = 3 /\ first = "delEdits"
    BY <1>3, <1>4, <1>7 DEF Pairs
  <2> QED  BY <1>3, <2>1, <2>2
<1> QED  BY <1>1, <1>2, <1>5, <1>6, <1>7 DEF WellOrdered

Plain(p) == WellOrdered(p) /\ \A i \in DOMAIN p : Statement(p[i]) /\ p[i].do \notin {"speak", "bind"}

Mild(x)  == Statement(x) /\ x.do \notin Doomed \cup {"speak", "bind"}

LEMMA PlainOnes ==
  /\ Plain(<< >>)
  /\ \A x : Mild(x) => Plain(<<x>>)
  /\ \A x, y : Mild(x) /\ Mild(y) => Plain(<<x, y>>)
<1>1. Plain(<< >>)
  BY Pure, CalmOrdered DEF Harmless, Fine, Plain
<1>2. ASSUME NEW x, Mild(x) PROVE Plain(<<x>>)
  <2>1. PICK p : p = <<x>>
    OBVIOUS
  <2>2. IsSeq(p) /\ DOMAIN p = {1} /\ p[1] = x
    BY <2>1, Pure
  <2>3. WellOrdered(p)
    BY <1>2, <2>2, CalmOrdered DEF Mild
  <2> QED  BY <1>2, <2>1, <2>2, <2>3 DEF Plain, Mild
<1>3. ASSUME NEW x, NEW y, Mild(x), Mild(y) PROVE Plain(<<x, y>>)
  <2>1. PICK p : p = <<x, y>>
    OBVIOUS
  <2>2. IsSeq(p) /\ DOMAIN p = {1, 2} /\ p[1] = x /\ p[2] = y
    BY <2>1, Pure
  <2>3. WellOrdered(p)
    BY <1>3, <2>2, CalmOrdered DEF Mild
  <2> QED  BY <1>3, <2>1, <2>2, <2>3 DEF Plain, Mild
<1> QED  BY <1>1, <1>2, <1>3

(* What statement a handler is at.                                         *)
LEMMA FirstIs ==
  ASSUME TypeOK, NEW s \in Slots, todo[s] # << >>
  PROVE  1 \in DOMAIN todo[s] /\ Head(todo[s]) = todo[s][1] /\ Statement(Head(todo[s]))
<1>1. IsSeq(todo[s]) /\ \A i \in DOMAIN todo[s] : Statement(todo[s][i])
  BY DEF TypeOK
<1>2. 1 \in DOMAIN todo[s] /\ Head(todo[s]) = todo[s][1]
  BY <1>1 DEF IsSeq
<1> QED  BY <1>1, <1>2

LEMMA ArgIs ==
  ASSUME TypeOK, NEW s \in Slots
  PROVE  /\ \A do \in {"bind", "delMessages", "delChat", "say", "link", "speak", "relate"} : At(s, do) => Arg(s) \in Chats
         /\ \A do \in {"unbind", "delAgent"} : At(s, do) => Arg(s) \in Agents
         /\ \A do \in {"unfile", "delFolder"} : At(s, do) => Arg(s) \in Folders
         /\ \A do \in {"move", "log"} : At(s, do) => Arg(s) \in Notes
         /\ \A do \in {"count", "findFolder", "makeFolder", "findNote", "ensure"} \cup OfCascade :
              At(s, do) => Arg(s) \in Workspaces
         /\ At(s, "bind") => Arg2(s) \in Agents
         /\ At(s, "relate") => Arg2(s) \in Workspaces
         /\ \A do \in {"move", "findNote"} : At(s, do) => Arg2(s) \in Folders \cup {None}
<1> SUFFICES ASSUME todo[s] # << >> PROVE Statement(Head(todo[s])) => 
         /\ \A do \in {"bind", "delMessages", "delChat", "say", "link", "speak", "relate"} : At(s, do) => Arg(s) \in Chats
         /\ \A do \in {"unbind", "delAgent"} : At(s, do) => Arg(s) \in Agents
         /\ \A do \in {"unfile", "delFolder"} : At(s, do) => Arg(s) \in Folders
         /\ \A do \in {"move", "log"} : At(s, do) => Arg(s) \in Notes
         /\ \A do \in {"count", "findFolder", "makeFolder", "findNote", "ensure"} \cup OfCascade :
              At(s, do) => Arg(s) \in Workspaces
         /\ At(s, "bind") => Arg2(s) \in Agents
         /\ At(s, "relate") => Arg2(s) \in Workspaces
         /\ \A do \in {"move", "findNote"} : At(s, do) => Arg2(s) \in Folders \cup {None}
  BY FirstIs DEF At
<1> QED  BY DEF Statement, Subjects, At, Arg, Arg2, OfCascade

LEMMA ViewIs ==
  ASSUME TypeOK
  PROVE  /\ view.ws \in Workspaces \cup {None} /\ view.chats \in [Chats -> ChatRows \cup {None}]
         /\ view.agents \in SUBSET Agents
  BY DEF TypeOK, Views

(* Every handler but a new chat and a turn.                                *)
LEMMA HandlersGive ==
  ASSUME TypeOK, NEW s \in Slots, Agency(s) \/ Deletion(s) \/ Filing(s) \/ Talk(s), ~NewChat(s), ~Turn(s)
  PROVE  \E p : Plain(p) /\ Gives(s, p)
<1> USE DEF Gives, Done
<1>1. CASE Bind(s) \/ Unbind(s) \/ DelAgent(s) \/ DelMessages(s) \/ DelChat(s) \/ DelRows(s) \/ MakeFolder(s)
           \/ Unfile(s) \/ DelFolder(s) \/ Move(s) \/ Log(s) \/ Say(s) \/ Relate(s) \/ Speak(s)
  <2>1. todo[s] # << >> /\ Then(s, << >>)
    BY <1>1 DEF Bind, Unbind, DelAgent, DelMessages, DelChat, DelRows, MakeFolder, Unfile, DelFolder, Move, Log,
                Say, Relate, Speak, At
  <2> QED  BY <2>1, PlainOnes
<1>2. CASE DeleteAgent(s)
  <2>1. PICK a \in view.agents : Call(s, <<Stmt("unbind", a, None), Stmt("delAgent", a, None)>>)
    BY <1>2 DEF DeleteAgent
  <2>2. PICK p : p = <<Stmt("unbind", a, None), Stmt("delAgent", a, None)>>
    OBVIOUS
  <2>3. WellOrdered(p)
    BY <2>2, TwoOrdered
  <2>4. DOMAIN p = {1, 2} /\ p[1] = Stmt("unbind", a, None) /\ p[2] = Stmt("delAgent", a, None)
    BY <2>2, Pure
  <2>5. a \in Agents
    BY ViewIs
  <2>6. Plain(p)
    BY <2>3, <2>4, <2>5 DEF Plain, Stmt, Statement, Subjects
  <2> QED  BY <2>1, <2>2, <2>6
<1>3. CASE DeleteChat(s)
  <2>1. PICK c \in Listed : Call(s, <<Stmt("delMessages", c, None), Stmt("delChat", c, None)>>)
    BY <1>3 DEF DeleteChat
  <2>2. PICK p : p = <<Stmt("delMessages", c, None), Stmt("delChat", c, None)>>
    OBVIOUS
  <2>3. WellOrdered(p)
    BY <2>2, TwoOrdered
  <2>4. DOMAIN p = {1, 2} /\ p[1] = Stmt("delMessages", c, None) /\ p[2] = Stmt("delChat", c, None)
    BY <2>2, Pure
  <2>5. Plain(p)
    BY <2>3, <2>4 DEF Plain, Stmt, Statement, Subjects, Listed
  <2> QED  BY <2>1, <2>2, <2>5
<1>4. CASE DeleteFolder(s)
  <2>1. PICK f \in FoldersOf(view.ws) : Call(s, <<Stmt("unfile", f, None), Stmt("delFolder", f, None)>>)
    BY <1>4 DEF DeleteFolder
  <2>2. PICK p : p = <<Stmt("unfile", f, None), Stmt("delFolder", f, None)>>
    OBVIOUS
  <2>3. WellOrdered(p)
    BY <2>2, TwoOrdered
  <2>4. DOMAIN p = {1, 2} /\ p[1] = Stmt("unfile", f, None) /\ p[2] = Stmt("delFolder", f, None)
    BY <2>2, Pure
  <2>5. Plain(p)
    BY <2>3, <2>4 DEF Plain, Stmt, Statement, Subjects, FoldersOf
  <2> QED  BY <2>1, <2>2, <2>5
<1>5. CASE DeleteWorkspace(s)
  <2>1. PICK w \in ws : Call(s, <<Stmt("count", w, None)>>)
    BY <1>5 DEF DeleteWorkspace
  <2>2. Mild(Stmt("count", w, None))
    BY DEF Mild, Stmt, Statement, Subjects, TypeOK, Doomed, OfCascade
  <2> QED  BY <2>1, <2>2, PlainOnes
<1>6. CASE Count(s)
  <2>1. Arg(s) \in Workspaces
    BY <1>6, ArgIs DEF Count
  <2>2. Plain(Cascade(Arg(s)))
    <3>1. PICK p : p = Cascade(Arg(s))
      OBVIOUS
    <3>2. \A i \in DOMAIN p : p[i].do \in OfCascade /\ p[i].at \in Workspaces
      BY <2>1, <3>1, CascadeOrdered
    <3>3. \A i \in DOMAIN p : Statement(p[i]) /\ p[i].do \notin {"speak", "bind"}
      BY <3>2 DEF Statement, Subjects, OfCascade
    <3> QED  BY <2>1, <3>1, <3>3, CascadeOrdered DEF Plain
  <2> QED  BY <1>6, <2>2, PlainOnes DEF Count, At
<1>7. CASE CreateFolder(s)
  <2>1. Mild(Stmt("findFolder", view.ws, None))
    BY <1>7, ViewIs DEF CreateFolder, Mild, Stmt, Statement, Subjects, Doomed, OfCascade
  <2> QED  BY <1>7, <2>1, PlainOnes DEF CreateFolder
<1>8. CASE FindFolder(s)
  <2>1. Arg(s) \in Workspaces
    BY <1>8, ArgIs DEF FindFolder
  <2>2. Mild(Stmt("makeFolder", Arg(s), None))
    BY <2>1 DEF Mild, Stmt, Statement, Subjects, Doomed, OfCascade
  <2> QED  BY <1>8, <2>2, PlainOnes DEF FindFolder, At
<1>9. CASE SetNoteFolder(s)
  <2>1. PICK f \in FoldersOf(view.ws) \cup {None} : Call(s, <<Stmt("findNote", view.ws, f)>>)
    BY <1>9 DEF SetNoteFolder
  <2>2. view.ws \in Workspaces
    BY <1>9 DEF SetNoteFolder, NotesOf, TypeOK, NoteRows
  <2>3. Mild(Stmt("findNote", view.ws, f))
    BY <2>2 DEF Mild, Stmt, Statement, Subjects, Doomed, OfCascade, FoldersOf
  <2> QED  BY <2>1, <2>3, PlainOnes
<1>10. CASE FindNote(s)
  <2>1. CASE Done(s)
    BY <1>10, <2>1, PlainOnes DEF FindNote, At
  <2>2. CASE \E n \in NotesOf(Arg(s)) : Then(s, <<Stmt("move", n, Arg2(s)), Stmt("log", n, None)>>)
    <3>1. PICK n \in NotesOf(Arg(s)) : Then(s, <<Stmt("move", n, Arg2(s)), Stmt("log", n, None)>>)
      BY <2>2
    <3>2. Arg2(s) \in Folders \cup {None}
      BY <1>10, ArgIs DEF FindNote
    <3>3. Mild(Stmt("move", n, Arg2(s))) /\ Mild(Stmt("log", n, None))
      BY <3>2 DEF Mild, Stmt, Statement, Subjects, Doomed, OfCascade, NotesOf
    <3> QED  BY <1>10, <3>1, <3>3, PlainOnes DEF FindNote, At
  <2> QED  BY <1>10, <2>1, <2>2 DEF FindNote
<1>11. CASE LinkChat(s)
  <2>1. Arg(s) \in Chats
    BY <1>11, ArgIs DEF LinkChat
  <2>2. chat[Arg(s)] # None => chat[Arg(s)].ws \in Workspaces
    BY <2>1 DEF TypeOK, ChatRows
  <2>3. chat[Arg(s)] # None => Mild(Stmt("ensure", chat[Arg(s)].ws, None)) /\ Mild(Stmt("relate", Arg(s), chat[Arg(s)].ws))
    BY <2>1, <2>2 DEF Mild, Stmt, Statement, Subjects, Doomed, OfCascade
  <2> QED  BY <1>11, <2>3, PlainOnes DEF LinkChat, At
<1>12. CASE Ensure(s)
  <2>1. CASE Done(s)
    BY <1>12, <2>1, PlainOnes DEF Ensure, At
  <2>2. CASE \E n \in Notes : Then(s, <<Stmt("log", n, None)>>)
    <3>1. PICK n \in Notes : Then(s, <<Stmt("log", n, None)>>)
      BY <2>2
    <3>2. Mild(Stmt("log", n, None))
      BY DEF Mild, Stmt, Statement, Subjects, Doomed, OfCascade
    <3> QED  BY <1>12, <3>1, <3>2, PlainOnes DEF Ensure, At
  <2> QED  BY <1>12, <2>1, <2>2 DEF Ensure
<1> QED  BY <1>1, <1>2, <1>3, <1>4, <1>5, <1>6, <1>7, <1>8, <1>9, <1>10, <1>11, <1>12
         DEF Agency, Deletion, Filing, Talk

LEMMA NewChatGives ==
  ASSUME TypeOK, NEW s \in Slots, NewChat(s)
  PROVE  \E c \in Chats \ (used \cup {Main}) : \E p :
           /\ WellOrdered(p) /\ Gives(s, p)
           /\ \A i \in DOMAIN p : Statement(p[i]) /\ p[i].do = "bind" /\ p[i].at = c
           /\ chat' = [chat EXCEPT ![c] = ChatRow(view.ws)] /\ used' = used \cup {c}
           /\ Marked(<<"chat", c>>, GoneWs(view.ws))
<1>1. PICK c \in Chats \ (used \cup {Main}) :
        /\ Call(s, IF default = None THEN << >> ELSE <<Stmt("bind", c, default)>>)
        /\ chat' = [chat EXCEPT ![c] = ChatRow(view.ws)] /\ used' = used \cup {c}
        /\ Marked(<<"chat", c>>, GoneWs(view.ws))
  BY DEF NewChat
<1>2. PICK p : p = IF default = None THEN << >> ELSE <<Stmt("bind", c, default)>>
  OBVIOUS
<1>3. IsSeq(p) /\ \A i \in DOMAIN p : default # None /\ p[i] = Stmt("bind", c, default)
  <2>1. CASE default = None
    BY <1>2, <2>1, Pure DEF Harmless, Fine
  <2>2. CASE default # None
    BY <1>2, <2>2, Pure
  <2> QED  BY <2>1, <2>2
<1>4. WellOrdered(p)
  BY <1>3, CalmOrdered DEF Stmt, Doomed, OfCascade
<1>5. \A i \in DOMAIN p : Statement(p[i]) /\ p[i].do = "bind" /\ p[i].at = c
  BY <1>3 DEF Statement, Subjects, Stmt, TypeOK
<1> QED  BY <1>1, <1>2, <1>4, <1>5 DEF Gives

LEMMA TurnGives ==
  ASSUME TypeOK, NEW s \in Slots, Turn(s)
  PROVE  \E c \in Listed, m \in Agents : \E p :
           /\ WellOrdered(p) /\ Gives(s, p)
           /\ \A i \in DOMAIN p : Statement(p[i]) /\ p[i].do # "bind"
           /\ \A i \in DOMAIN p : p[i].do = "speak" => p[i].at = c /\ p[i].to[2] = Override(c, m)
<1>1. PICK c \in Listed, m \in Agents :
        Call(s, <<Stmt("say", c, None), Stmt("link", c, None), Stmt("speak", c, <<m, Override(c, m)>>),
                  Stmt("say", c, None), Stmt("link", c, None), Stmt("ensure", view.ws, None)>>)
  BY DEF Turn
<1>2. PICK p : p = <<Stmt("say", c, None), Stmt("link", c, None), Stmt("speak", c, <<m, Override(c, m)>>),
                     Stmt("say", c, None), Stmt("link", c, None), Stmt("ensure", view.ws, None)>>
  OBVIOUS
<1>3. IsSeq(p) /\ DOMAIN p = 1..6
  BY <1>2 DEF IsSeq, Range
<1>4. \A i \in DOMAIN p : i \in {1, 2, 3, 4, 5, 6}
  BY <1>3
<1>5. /\ p[1] = Stmt("say", c, None) /\ p[2] = Stmt("link", c, None) /\ p[3] = Stmt("speak", c, <<m, Override(c, m)>>)
      /\ p[4] = Stmt("say", c, None) /\ p[5] = Stmt("link", c, None) /\ p[6] = Stmt("ensure", view.ws, None)
  BY <1>2
<1>6. c \in Chats /\ view.ws \in Workspaces
  BY ViewIs DEF TypeOK, Listed
<1>7. PICK ch : ch = <<m, Override(c, m)>>
  OBVIOUS
<1>8. /\ p[1].do = "say" /\ p[2].do = "link" /\ p[3].do = "speak" /\ p[4].do = "say" /\ p[5].do = "link"
      /\ p[6].do = "ensure" /\ p[1].at = c /\ p[2].at = c /\ p[3].at = c /\ p[4].at = c /\ p[5].at = c
      /\ p[6].at = view.ws /\ p[3].to = ch
  BY <1>5, <1>7 DEF Stmt
<1>9. \A i \in DOMAIN p : p[i].do \in {"say", "link", "speak", "ensure"} /\ (p[i].do = "speak" => i = 3)
                          /\ (p[i].do = "ensure" => p[i].at = view.ws) /\ (p[i].do # "ensure" => p[i].at = c)
  BY <1>4, <1>8
<1>10. WellOrdered(p)
  BY <1>3, <1>9, CalmOrdered DEF Doomed, OfCascade
<1>11. \A i \in DOMAIN p : Statement(p[i]) /\ p[i].do # "bind"
  BY <1>6, <1>9 DEF Statement, Subjects
<1>12. \A i \in DOMAIN p : p[i].do = "speak" => p[i].at = c /\ p[i].to[2] = Override(c, m)
  BY <1>7, <1>8, <1>9
<1>13. Gives(s, p)
  BY <1>1, <1>2 DEF Gives
<1> QED  BY <1>10, <1>11, <1>12, <1>13

(* Any handler, then.                                                      *)
LEMMA AllGive ==
  ASSUME TypeOK, NEW s \in Slots, Agency(s) \/ Deletion(s) \/ Filing(s) \/ Talk(s)
  PROVE  \E p : WellOrdered(p) /\ Gives(s, p) /\ \A i \in DOMAIN p : Statement(p[i])
<1>1. CASE NewChat(s)
  BY <1>1, NewChatGives
<1>2. CASE Turn(s)
  BY <1>2, TurnGives
<1>3. CASE ~NewChat(s) /\ ~Turn(s)
  BY <1>3, HandlersGive DEF Plain
<1> QED  BY <1>1, <1>2, <1>3

TodoOK == DOMAIN todo = Slots /\ \A s \in Slots : IsSeq(todo[s]) /\ \A i \in DOMAIN todo[s] : Statement(todo[s][i])

LEMMA HandlersKeepTodo ==
  ASSUME TypeOK, Cascading, NEW s \in Slots, Agency(s) \/ Deletion(s) \/ Filing(s) \/ Talk(s)
  PROVE  TodoOK' /\ Ordered({s})
<1>1. PICK p : WellOrdered(p) /\ Gives(s, p) /\ \A i \in DOMAIN p : Statement(p[i])
  BY AllGive
<1>2. Ordered({s}) /\ DOMAIN todo' = Slots /\ Known(p)
  BY <1>1, GivesOrdered
<1>3. \A t \in Slots : \A i \in DOMAIN todo[t] : Statement(todo[t][i])
  BY DEF TypeOK
<1>4. \A t \in Slots : \A i \in DOMAIN todo'[t] : Statement(todo'[t][i])
  BY <1>1, <1>2, <1>3 DEF Known
<1> QED  BY <1>2, <1>4 DEF TodoOK, Known, Statement, Subjects

-----------------------------------------------------------------------------
(* Types.                                                                  *)
TablesOK ==
  /\ ws \subseteq Workspaces
  /\ chat \in [Chats -> ChatRows \cup {None}] /\ agent \in [Agents -> Workspaces \cup {None}]
  /\ folder \in [Folders -> Workspaces \cup {None}] /\ note \in [Notes -> NoteRows \cup {None}]

WindowOK ==
  /\ view \in Views /\ asked \subseteq Workspaces
  /\ view.ws = None => asked = {} /\ Listed = {}
  /\ default \in Agents \cup {None}

LEMMA ShownIs ==
  /\ Shown \in Views /\ Shown.ws = None /\ Shown.chats = Empty(Chats) /\ Shown.agents = {}
  /\ \A w \in Workspaces : /\ [Shown EXCEPT !.ws = w] \in Views /\ [Shown EXCEPT !.ws = w].ws = w
                            /\ [Shown EXCEPT !.ws = w].chats = Empty(Chats)
                            /\ [Shown EXCEPT !.ws = w].agents = {}
  /\ \A c \in Chats : Empty(Chats)[c] = None
<1>1. Empty(Chats) \in [Chats -> ChatRows \cup {None}] /\ \A c \in Chats : Empty(Chats)[c] = None
  BY DEF Empty
<1> HIDE DEF Empty
<1> QED  BY <1>1 DEF Shown, Views

LEMMA ListsAre ==
  ASSUME TypeOK, NEW w
  PROVE  Lists(w) \in Views /\ Lists(w).ws = view.ws /\ Lists(w).chats = ChatsOf(w) /\ Lists(w).agents = AgentsOf(w)
<1>1. ChatsOf(w) \in [Chats -> ChatRows \cup {None}] /\ AgentsOf(w) \in SUBSET Agents
  BY DEF ChatsOf, AgentsOf, TypeOK
<1>2. view \in Views
  BY DEF TypeOK
<1> QED  BY <1>1, <1>2 DEF Lists, Views

LEMMA MembersAre ==
  ASSUME TypeOK, NEW c \in Listed
  PROVE  Members(c) \in Seq(Agents \cap view.agents)
<1> DEFINE row == view.chats[c]
           ids == IF row.agents # << >> THEN row.agents ELSE IF row.agent # None THEN <<row.agent>> ELSE << >>
<1>1. row \in ChatRows
  BY ViewIs DEF Listed
<1>2. row.agents \in Seq(Agents) /\ row.agent \in Agents \cup {None}
  BY <1>1 DEF ChatRows
<1> HIDE DEF row
<1>3. ids \in Seq(Agents)
  BY <1>2
<1>4. Members(c) = Only(ids, view.agents)
  BY DEF Members, row
<1> QED  BY <1>3, <1>4, OnlyKeeps

LEMMA ToggledIs ==
  ASSUME TypeOK, NEW c \in Listed, NEW a \in view.agents
  PROVE  Toggled(c, a) \in Seq(Agents) /\ Range(Toggled(c, a)) \subseteq view.agents
<1> DEFINE M == Agents \cap view.agents
<1>1. Members(c) \in Seq(M) /\ a \in M
  BY MembersAre, ViewIs
<1> HIDE DEF M
<1>2. Only(Members(c), Agents \ {a}) \in Seq(M \cap (Agents \ {a}))
  BY <1>1, OnlyKeeps
<1>3. Only(Members(c), Agents \ {a}) \in Seq(M)
  BY <1>2
<1>4. Append(Members(c), a) \in Seq(M)
  BY <1>1
<1>5. Toggled(c, a) \in Seq(M)
  BY <1>3, <1>4 DEF Toggled
<1>6. M \subseteq Agents /\ M \subseteq view.agents
  BY DEF M
<1>7. \A q : q \in Seq(M) => q \in Seq(Agents) /\ Range(q) \subseteq view.agents
  BY <1>6 DEF Range
<1> QED  BY <1>5, <1>7

LEMMA LeadIs ==
  ASSUME NEW S, NEW q \in Seq(S)
  PROVE  Lead(q) = None \/ Lead(q) \in Range(q)
<1>1. q # << >> => 1 \in DOMAIN q /\ Head(q) = q[1]
  OBVIOUS
<1> QED  BY <1>1 DEF Lead, Range

LEMMA RowIs == ASSUME NEW w \in Workspaces PROVE ChatRow(w) \in ChatRows /\ ChatRow(w) # None
               /\ ChatRow(w).ws = w /\ ChatRow(w).agent = None /\ ChatRow(w).agents = << >>
<1>1. ChatRow(w) \in ChatRows
  BY DEF ChatRow, ChatRows
<1>2. ChatRow(w).ws = w /\ ChatRow(w).agent = None /\ ChatRow(w).agents = << >>
  BY DEF ChatRow
<1> QED  BY <1>1, <1>2, RegistryAssumption

LEMMA Relisted ==
  ASSUME NEW row \in ChatRows, NEW q \in Seq(Agents)
  PROVE  /\ [row EXCEPT !.agents = q] \in ChatRows /\ [row EXCEPT !.agents = q] # None
         /\ [row EXCEPT !.agents = q].ws = row.ws /\ [row EXCEPT !.agents = q].agent = row.agent
         /\ [row EXCEPT !.agents = q].agents = q
<1>1. [row EXCEPT !.agents = q] \in ChatRows
  BY DEF ChatRows
<1>2. /\ [row EXCEPT !.agents = q].ws = row.ws /\ [row EXCEPT !.agents = q].agent = row.agent
      /\ [row EXCEPT !.agents = q].agents = q
  BY DEF ChatRows
<1> QED  BY <1>1, <1>2, RegistryAssumption

LEMMA HandlersKeepTables ==
  ASSUME TypeOK, NEW s \in Slots, Agency(s) \/ Deletion(s) \/ Filing(s) \/ Talk(s)
  PROVE  TablesOK'
<1>0. TablesOK
  BY DEF TypeOK, TablesOK
<1>1. CASE NewChat(s)
  <2>1. PICK c \in Chats : chat' = [chat EXCEPT ![c] = ChatRow(view.ws)]
    BY <1>1 DEF NewChat
  <2>2. view.ws \in Workspaces
    BY <1>1, ViewIs DEF NewChat
  <2> QED  BY <1>0, <1>1, <2>1, <2>2, RowIs DEF NewChat, TablesOK, content
<1>2. CASE Bind(s)
  <2>1. Arg(s) \in Chats /\ Arg2(s) \in Agents
    BY <1>2, ArgIs DEF Bind
  <2>2. chat' \in [Chats -> ChatRows \cup {None}]
    BY <1>0, <1>2, <2>1 DEF Bind, TablesOK, ChatRows
  <2> QED  BY <1>0, <1>2, <2>2 DEF Bind, TablesOK, content
<1>3. CASE Unbind(s)
  <2>1. chat' \in [Chats -> ChatRows \cup {None}]
    BY <1>0, <1>3 DEF Unbind, Freed, TablesOK, ChatRows
  <2> QED  BY <1>0, <1>3, <2>1 DEF Unbind, TablesOK, content
<1>4. CASE DelAgent(s) \/ DelChat(s) \/ DelFolder(s)
  BY <1>0, <1>4 DEF DelAgent, DelChat, DelFolder, TablesOK, content
<1>5. CASE DelRows(s)
  BY <1>0, <1>5 DEF DelRows, Kept, TablesOK
<1>6. CASE MakeFolder(s)
  <2>1. Arg(s) \in Workspaces
    BY <1>6, ArgIs DEF MakeFolder
  <2> QED  BY <1>0, <1>6, <2>1 DEF MakeFolder, TablesOK, content
<1>7. CASE Unfile(s)
  <2>1. note' \in [Notes -> NoteRows \cup {None}]
    BY <1>0, <1>7 DEF Unfile, TablesOK, NoteRows
  <2> QED  BY <1>0, <1>7, <2>1 DEF Unfile, TablesOK, owners
<1>8. CASE Move(s)
  <2>1. Arg(s) \in Notes /\ Arg2(s) \in Folders \cup {None}
    BY <1>8, ArgIs DEF Move
  <2>2. note' \in [Notes -> NoteRows \cup {None}]
    BY <1>0, <1>8, <2>1 DEF Move, TablesOK, NoteRows
  <2> QED  BY <1>0, <1>8, <2>2 DEF Move, TablesOK, owners
<1>9. CASE Ensure(s)
  <2>1. Arg(s) \in Workspaces
    BY <1>9, ArgIs DEF Ensure
  <2>2. note' \in [Notes -> NoteRows \cup {None}]
    <3>1. PICK row : row = [ws |-> Arg(s), folder |-> None]
      OBVIOUS
    <3>2. row \in NoteRows
      BY <2>1, <3>1 DEF NoteRows
    <3>3. note' = note \/ \E n \in Notes : note' = [note EXCEPT ![n] = row]
      BY <1>9, <3>1 DEF Ensure
    <3> QED  BY <1>0, <3>2, <3>3 DEF TablesOK
  <2> QED  BY <1>0, <1>9, <2>2 DEF Ensure, TablesOK, owners
<1>10. CASE DelMessages(s) \/ Log(s) \/ Say(s) \/ Relate(s)
  BY <1>0, <1>10 DEF DelMessages, Log, Say, Relate, TablesOK, owners
<1>11. CASE DeleteAgent(s) \/ DeleteChat(s) \/ DeleteWorkspace(s) \/ Count(s) \/ CreateFolder(s) \/ FindFolder(s)
            \/ DeleteFolder(s) \/ SetNoteFolder(s) \/ FindNote(s) \/ Turn(s) \/ LinkChat(s) \/ Speak(s)
  BY <1>0, <1>11 DEF DeleteAgent, DeleteChat, DeleteWorkspace, Count, CreateFolder, FindFolder, DeleteFolder,
                     SetNoteFolder, FindNote, Turn, LinkChat, Speak, TablesOK, tables, owners, content
<1> QED  BY <1>1, <1>2, <1>3, <1>4, <1>5, <1>6, <1>7, <1>8, <1>9, <1>10, <1>11
         DEF Agency, Deletion, Filing, Talk

LEMMA HandlersKeepWindow ==
  ASSUME NEW s \in Slots, Agency(s) \/ Deletion(s) \/ Filing(s) \/ Talk(s)
  PROVE  UNCHANGED <<view, asked, default>>
<1>1. CASE Agency(s)
  BY <1>1 DEF Agency, NewChat, Bind, DeleteAgent, Unbind, DelAgent, window
<1>2. CASE Deletion(s)
  BY <1>2 DEF Deletion, DeleteChat, DelMessages, DelChat, DeleteWorkspace, Count, DelRows, window
<1>3. CASE Filing(s)
  BY <1>3 DEF Filing, CreateFolder, FindFolder, MakeFolder, DeleteFolder, Unfile, DelFolder, SetNoteFolder,
              FindNote, Move, Log, window
<1>4. CASE Talk(s)
  BY <1>4 DEF Talk, Turn, Say, LinkChat, Ensure, Relate, Speak, window
<1> QED  BY <1>1, <1>2, <1>3, <1>4

LEMMA TypeParts == TypeOK <=> TablesOK /\ TodoOK /\ WindowOK
  BY DEF TypeOK, TablesOK, TodoOK, WindowOK

LEMMA WindowKeepsType == ASSUME TypeOK, Window PROVE TypeOK'
<1>0. TablesOK /\ TodoOK /\ WindowOK
  BY TypeParts
<1>1. CASE Switch
  <2>1. PICK w \in ws : view' = [Shown EXCEPT !.ws = w] /\ asked' = asked \cup {w}
    BY <1>1 DEF Switch
  <2>2. w \in Workspaces /\ w # None
    BY <1>0, RegistryAssumption DEF TablesOK
  <2>3. view' \in Views /\ view'.ws = w /\ view'.chats = Empty(Chats)
    BY <2>1, <2>2, ShownIs
  <2>4. WindowOK'
    BY <1>0, <1>1, <2>1, <2>2, <2>3 DEF Switch, WindowOK
  <2> QED  BY <1>0, <1>1, <2>4 DEF Switch, TypeOK, TablesOK, TodoOK, WindowOK, tables, owners, content
<1>2. CASE Refresh \/ Answer
  <2>1. PICK w : view' = Lists(w) /\ asked' \subseteq asked /\ view.ws # None
    BY <1>0, <1>2 DEF Refresh, Answer, WindowOK
  <2>2. view' \in Views /\ view'.ws = view.ws
    BY <2>1, ListsAre
  <2> QED  BY <1>0, <1>2, <2>1, <2>2 DEF Refresh, Answer, TypeOK, tables, owners, content
<1>3. CASE PickDefault
  BY <1>0, <1>3, ViewIs DEF PickDefault, TypeOK, TablesOK, TodoOK, WindowOK, Listed, tables, owners, content
<1>4. CASE CreateWorkspace \/ CreateAgent
  BY <1>0, <1>4, ViewIs DEF CreateWorkspace, CreateAgent, TypeOK, TablesOK, TodoOK, WindowOK, Listed, window, content
<1>5. CASE SetChatAgents
  <2>1. PICK c \in Listed, a \in view.agents :
          chat' = IF chat[c] = None THEN chat
                  ELSE [chat EXCEPT ![c].agents = Toggled(c, a), ![c].agent = Lead(Toggled(c, a))]
    BY <1>5 DEF SetChatAgents
  <2>2. Toggled(c, a) \in Seq(Agents) /\ Lead(Toggled(c, a)) \in Agents \cup {None}
    BY ToggledIs, LeadIs, ViewIs
  <2>3. chat' \in [Chats -> ChatRows \cup {None}]
    <3>1. chat[c] # None => [chat[c] EXCEPT !.agents = Toggled(c, a), !.agent = Lead(Toggled(c, a))] \in ChatRows
      BY <1>0, <2>2 DEF TablesOK, ChatRows, Listed
    <3> QED  BY <1>0, <2>1, <3>1 DEF TablesOK
  <2> QED  BY <1>0, <1>5, <2>3 DEF SetChatAgents, TypeOK, TablesOK, TodoOK, WindowOK, Listed, window, content
<1> QED  BY <1>1, <1>2, <1>3, <1>4, <1>5 DEF Window

LEMMA StartingKeepsType == ASSUME TypeOK, Starting PROVE TypeOK'
<1>0. TablesOK /\ TodoOK /\ WindowOK
  BY TypeParts
<1>1. CASE Crash
  <2>1. TodoOK'
    BY <1>1, Pure DEF Crash, TodoOK, Harmless, Fine
  <2>2. view' = Shown /\ asked' = {} /\ default' = default
    BY <1>1 DEF Crash
  <2>3. WindowOK'
    BY <1>0, <2>2, ShownIs DEF WindowOK, Listed
  <2>4. TablesOK'
    BY <1>0, <1>1 DEF Crash, TablesOK, tables, owners, content
  <2> QED  BY <2>1, <2>3, <2>4 DEF TypeOK, TablesOK, TodoOK, WindowOK
<1>2. CASE ~Crash
  <2>1. TodoOK' /\ WindowOK'
    <3>1. UNCHANGED <<todo, view, asked, default>>
      BY <1>2 DEF Starting, Backfill, Seed, SeedWorkspace, SeedChat, SeedAgent, Migrate, CopyLink, RemoveLinks,
                  MarkMigrated, window
    <3> QED  BY <1>0, <3>1 DEF TodoOK, WindowOK, Listed
  <2>2. CASE Backfill
    <3>1. \A c \in Chats : chat[c] # None /\ chat[c].agent # None => [chat[c] EXCEPT !.agents = <<chat[c].agent>>] \in ChatRows
      <4> SUFFICES ASSUME NEW c \in Chats, chat[c] # None, chat[c].agent # None
                   PROVE  [chat[c] EXCEPT !.agents = <<chat[c].agent>>] \in ChatRows
        OBVIOUS
      <4>1. chat[c] \in ChatRows /\ chat[c].agent \in Agents
        BY <1>0 DEF TablesOK, ChatRows
      <4>2. <<chat[c].agent>> \in Seq(Agents)
        BY <4>1
      <4> QED  BY <4>1, <4>2, Relisted
    <3>2. chat' \in [Chats -> ChatRows \cup {None}]
      BY <1>0, <2>2, <3>1 DEF Backfill, TablesOK
    <3>3. TablesOK'
      BY <1>0, <2>2, <3>2 DEF Backfill, TablesOK, content
    <3> QED  BY <2>1, <3>3 DEF TypeOK, TablesOK, TodoOK, WindowOK
  <2>3. CASE SeedWorkspace
    <3>1. TablesOK'
      BY <1>0, <2>3, RegistryAssumption DEF SeedWorkspace, TablesOK, content
    <3> QED  BY <2>1, <3>1 DEF TypeOK, TablesOK, TodoOK, WindowOK
  <2>4. CASE SeedAgent
    <3>1. PICK a : agent' = [agent EXCEPT ![a] = Default]
      BY <2>4 DEF SeedAgent
    <3>2. TablesOK'
      BY <1>0, <2>4, <3>1, RegistryAssumption DEF SeedAgent, TablesOK, content
    <3> QED  BY <2>1, <3>2 DEF TypeOK, TablesOK, TodoOK, WindowOK
  <2>5. CASE SeedChat
    <3>1. TablesOK'
      BY <1>0, <2>5, RegistryAssumption, RowIs DEF SeedChat, TablesOK, content
    <3> QED  BY <2>1, <3>1 DEF TypeOK, TablesOK, TodoOK, WindowOK
  <2>6. CASE Seed \/ Migrate \/ CopyLink \/ RemoveLinks \/ MarkMigrated
    <3>1. TablesOK'
      BY <1>0, <2>6 DEF Seed, Migrate, CopyLink, RemoveLinks, MarkMigrated, TablesOK, tables, owners, content
    <3> QED  BY <2>1, <3>1 DEF TypeOK, TablesOK, TodoOK, WindowOK
  <2> QED  BY <1>2, <2>2, <2>3, <2>4, <2>5, <2>6 DEF Starting
<1> QED  BY <1>1, <1>2

LEMMA TypeStep == ASSUME TypeOK, Cascading, [Next]_vars PROVE TypeOK'
<1>1. CASE Starting
  BY <1>1, StartingKeepsType
<1>2. CASE Window
  BY <1>2, WindowKeepsType
<1>3. CASE \E s \in Slots : Agency(s) \/ Deletion(s) \/ Filing(s) \/ Talk(s)
  <2> PICK s \in Slots : Agency(s) \/ Deletion(s) \/ Filing(s) \/ Talk(s)
    BY <1>3
  <2>1. TodoOK' /\ TablesOK'
    BY HandlersKeepTodo, HandlersKeepTables
  <2>2. WindowOK'
    BY HandlersKeepWindow, TypeParts DEF WindowOK, Listed
  <2> QED  BY <2>1, <2>2 DEF TypeOK, TablesOK, TodoOK, WindowOK
<1>4. CASE UNCHANGED vars
  BY <1>4 DEF vars, tables, owners, content, window, TypeOK, Listed
<1> QED  BY <1>1, <1>2, <1>3, <1>4 DEF Next

-----------------------------------------------------------------------------
(* What a step does to the tables, when the handlers in S move: nothing is *)
(* removed but by the statement that does so, and what is written is new,  *)
(* its owner there and no handler about to delete it, or it is in late.    *)

ChatsMove(S) ==
  \A c \in Chats :
    /\ chat'[c] # None =>
         \/ /\ chat[c] # None /\ chat'[c].ws = chat[c].ws
            /\ ~Doing(S, "delChats", chat[c].ws) /\ ~Doing(S, "delChat", c)
         \/ /\ chat[c] = None /\ c \in used' /\ c \notin used \ {Main}
            /\ c = Main => chat'[c].ws = Default
            /\ chat'[c].agent = None /\ chat'[c].agents = << >>
            /\ GoneWs(chat'[c].ws) => <<"chat", c>> \in late'
    /\ chat[c] # None /\ chat'[c] = None => Doing(S, "delChats", chat[c].ws) \/ Doing(S, "delChat", c)

AgentsMove(S) ==
  \A a \in Agents :
    /\ agent'[a] # None =>
         \/ agent'[a] = agent[a] /\ ~Doing(S, "delAgents", agent[a]) /\ ~Doing(S, "delAgent", a)
         \/ /\ agent[a] = None /\ a \in used' /\ a \notin used \ Seeded
            /\ a \in Seeded => agent'[a] = Default
            /\ GoneWs(agent'[a]) => <<"agent", a>> \in late'
    /\ agent[a] # None /\ agent'[a] = None => Doing(S, "delAgents", agent[a]) \/ Doing(S, "delAgent", a)

NotesMove(S) ==
  \A n \in Notes :
    /\ note'[n] # None =>
         \/ note[n] # None /\ note'[n].ws = note[n].ws /\ ~Doing(S, "delNotes", note[n].ws)
         \/ /\ note[n] = None /\ n \in used' \ used /\ note'[n].folder = None
            /\ GoneWs(note'[n].ws) => <<"note", n>> \in late'
    /\ note[n] # None /\ note'[n] = None => Doing(S, "delNotes", note[n].ws)

SaidMoves(S) ==
  \A c \in said' :
    \/ c \in said /\ ~Doing(S, "delMessages", c) /\ (chat[c] # None => ~Doing(S, "delChatMessages", chat[c].ws))
    \/ c \in Chats /\ (GoneChat(c) => <<"said", c>> \in late') /\ chat' = chat

EditsMove(S) ==
  \A n \in edits' :
    \/ n \in edits /\ (note[n] # None => ~Doing(S, "delEdits", note[n].ws))
    \/ n \in Notes /\ (GoneNote(n) => <<"edit", n>> \in late') /\ note' = note

EdgesMove(S) ==
  \A e \in edge' :
    \/ e \in edge /\ ~Doing(S, "delEdges", e.ws)
    \/ e.ws = None
    \/ GoneWs(e.ws) => <<"edge", e.from>> \in late'

WsMove(S) == \A w \in ws : w \in ws' \/ Doing(S, "delWorkspace", w)

FoldersMove(S) == \A f \in Folders : folder[f] # None /\ folder'[f] = None => Doing(S, "delFolder", f)

(* The references of chats and notes.                                      *)
BindingsMove(S) ==
  \A c \in Chats : chat'[c] # None /\ c \notin loose' /\ chat'[c].agent # None =>
    \/ chat[c] # None /\ c \notin loose /\ chat'[c].agent = chat[c].agent /\ ~Doing(S, "unbind", chat[c].agent)
    \/ chat[c] # None /\ Firm(c, chat'[c].agent) /\ agent' = agent /\ ~Doing(S, "unbind", chat'[c].agent)
FilingMoves(S) ==
  \A n \in Notes : note'[n] # None /\ n \notin misfiled' /\ note'[n].folder # None =>
    \/ note[n] # None /\ n \notin misfiled /\ note'[n].folder = note[n].folder /\ ~Doing(S, "unfile", note[n].folder)
    \/ ~Stray(note'[n].folder) /\ folder' = folder /\ ~Doing(S, "unfile", note'[n].folder)

Grow == late \subseteq late' /\ used \subseteq used'

Moves(S) ==
  /\ ChatsMove(S) /\ AgentsMove(S) /\ NotesMove(S) /\ SaidMoves(S) /\ EditsMove(S) /\ EdgesMove(S) /\ WsMove(S)
  /\ FoldersMove(S) /\ BindingsMove(S) /\ FilingMoves(S) /\ Grow

(* A table stays as it is, and nothing is removed from it.                 *)
LEMMA Still ==
  ASSUME NEW S
  PROVE  /\ chat' = chat /\ (\A x : ~Doing(S, "delChats", x) /\ ~Doing(S, "delChat", x)) => ChatsMove(S)
         /\ agent' = agent /\ (\A x : ~Doing(S, "delAgents", x) /\ ~Doing(S, "delAgent", x)) => AgentsMove(S)
         /\ note' = note /\ (\A x : ~Doing(S, "delNotes", x)) => NotesMove(S)
         /\ said' \subseteq said /\ (\A x : ~Doing(S, "delMessages", x) /\ ~Doing(S, "delChatMessages", x)) => SaidMoves(S)
         /\ edits' \subseteq edits /\ (\A x : ~Doing(S, "delEdits", x)) => EditsMove(S)
         /\ edge' \subseteq edge /\ (\A x : ~Doing(S, "delEdges", x)) => EdgesMove(S)
         /\ ws \subseteq ws' => WsMove(S)
         /\ folder' = folder => FoldersMove(S)
         /\ chat' = chat /\ loose \subseteq loose' /\ (\A x : ~Doing(S, "unbind", x)) => BindingsMove(S)
         /\ note' = note /\ misfiled \subseteq misfiled' /\ (\A x : ~Doing(S, "unfile", x)) => FilingMoves(S)
         /\ late' = late /\ used \subseteq used' => Grow
  BY DEF ChatsMove, AgentsMove, NotesMove, SaidMoves, EditsMove, EdgesMove, WsMove, FoldersMove, BindingsMove,
         FilingMoves, Grow

LEMMA DoingIs ==
  ASSUME NEW s
  PROVE  /\ \A do, x : Doing({s}, do, x) <=> At(s, do) /\ Arg(s) = x
         /\ \A d, e : At(s, d) /\ At(s, e) => d = e
         /\ todo[s] = << >> => \A d : ~At(s, d)
  BY DEF Doing, At

Removing == Doomed \cup {"delMessages", "unbind", "unfile"}

(* Steps of handlers that leave the tables alone, or only write to them.   *)
LEMMA Lookers ==
  ASSUME TypeOK, NEW s \in Slots,
         \/ DeleteAgent(s) \/ DeleteChat(s) \/ DeleteWorkspace(s) \/ Count(s) \/ CreateFolder(s) \/ FindFolder(s)
         \/ DeleteFolder(s) \/ SetNoteFolder(s) \/ FindNote(s) \/ Turn(s) \/ LinkChat(s) \/ Speak(s)
  PROVE  Moves({s})
<1>1. UNCHANGED <<ws, chat, agent, folder, note, said, edits, edge, used, loose, late, misfiled>>
  BY DEF DeleteAgent, DeleteChat, DeleteWorkspace, Count, CreateFolder, FindFolder, DeleteFolder,
         SetNoteFolder, FindNote, Turn, LinkChat, Speak, tables, owners, content, history
<1>2. \A d \in Removing : ~At(s, d)
  <2>1. todo[s] = << >> \/ At(s, "count") \/ At(s, "findFolder") \/ At(s, "findNote") \/ At(s, "link") \/ At(s, "speak")
    BY DEF DeleteAgent, DeleteChat, DeleteWorkspace, Count, CreateFolder, FindFolder, DeleteFolder,
           SetNoteFolder, FindNote, Turn, LinkChat, Speak, Call, Free
  <2> QED  BY <2>1, DoingIs DEF Removing, Doomed, OfCascade
<1>3. \A d \in Removing : \A x : ~Doing({s}, d, x)
  BY <1>2, DoingIs
<1>4. \A x : /\ ~Doing({s}, "delChats", x) /\ ~Doing({s}, "delChat", x) /\ ~Doing({s}, "delAgents", x)
             /\ ~Doing({s}, "delAgent", x) /\ ~Doing({s}, "delNotes", x) /\ ~Doing({s}, "delMessages", x)
             /\ ~Doing({s}, "delChatMessages", x) /\ ~Doing({s}, "delEdits", x) /\ ~Doing({s}, "delEdges", x)
             /\ ~Doing({s}, "unbind", x) /\ ~Doing({s}, "unfile", x)
  BY <1>3 DEF Removing, Doomed, OfCascade
<1> QED  BY <1>1, <1>4, Still DEF Moves

LEMMA NotDoing ==
  ASSUME NEW s, NEW d, todo[s] = << >> \/ At(s, d)
  PROVE  \A x : \A do : do # d => ~Doing({s}, do, x)
  BY DoingIs

LEMMA ChatHandlersMove ==
  ASSUME TypeOK, UsedOnce, NEW s \in Slots,
         NewChat(s) \/ Bind(s) \/ Unbind(s) \/ DelAgent(s) \/ DelMessages(s) \/ DelChat(s) \/ Say(s)
  PROVE  Moves({s})
<1>0. TablesOK
  BY TypeParts
<1>1. CASE NewChat(s)
  <2>1. PICK c \in Chats \ (used \cup {Main}) :
          /\ chat' = [chat EXCEPT ![c] = ChatRow(view.ws)] /\ used' = used \cup {c}
          /\ Marked(<<"chat", c>>, GoneWs(view.ws))
    BY <1>1 DEF NewChat
  <2>2. /\ view.ws \in Workspaces /\ todo[s] = << >>
        /\ UNCHANGED <<ws, agent, folder, note, said, edits, edge, loose, misfiled>>
    BY <1>1, ViewIs DEF NewChat, Call, Free, content
  <2>3. chat[c] = None /\ c # Main
    BY <2>1 DEF UsedOnce, Present, TypeOK
  <2>4. \A do, x : ~Doing({s}, do, x)
    BY <2>2, DoingIs
  <2>5. chat'[c].ws = view.ws /\ chat'[c].agent = None /\ chat'[c].agents = << >> /\ \A d \in Chats \ {c} : chat'[d] = chat[d]
    BY <1>0, <2>1, <2>2, RowIs DEF TablesOK
  <2>6. late' = IF GoneWs(view.ws) THEN late \cup {<<"chat", c>>} ELSE late
    BY <2>1 DEF Marked
  <2>7. ChatsMove({s})
    BY <2>1, <2>3, <2>4, <2>5, <2>6 DEF ChatsMove
  <2>8. BindingsMove({s})
    BY <2>2, <2>4, <2>5 DEF BindingsMove
  <2>9. Grow
    BY <2>1, <2>6 DEF Grow
  <2> QED  BY <2>2, <2>4, <2>7, <2>8, <2>9, Still DEF Moves
<1>2. CASE Bind(s)
  <2>1. /\ Arg(s) \in Chats /\ Arg2(s) \in Agents
        /\ chat' = IF chat[Arg(s)] = None THEN chat ELSE [chat EXCEPT ![Arg(s)].agent = Arg2(s)]
        /\ loose' = IF chat[Arg(s)] = None \/ Firm(Arg(s), Arg2(s)) THEN loose \ {Arg(s)} ELSE loose \cup {Arg(s)}
        /\ UNCHANGED <<ws, agent, folder, note, said, edits, edge, used, late, misfiled>>
    BY <1>2, ArgIs DEF Bind, Rebound, content
  <2>2. \A x : \A do : do # "bind" => ~Doing({s}, do, x)
    BY <1>2, NotDoing DEF Bind
  <2>3. /\ \A c \in Chats : c # Arg(s) => chat'[c] = chat[c]
        /\ chat[Arg(s)] = None => chat' = chat
        /\ chat[Arg(s)] # None => chat'[Arg(s)].ws = chat[Arg(s)].ws /\ chat'[Arg(s)].agent = Arg2(s) /\ chat'[Arg(s)] # None
    BY <1>0, <2>1, RegistryAssumption DEF TablesOK, ChatRows
  <2>4. ChatsMove({s})
    BY <2>2, <2>3 DEF ChatsMove
  <2>5. BindingsMove({s})
    BY <2>1, <2>2, <2>3 DEF BindingsMove
  <2> QED  BY <2>1, <2>2, <2>4, <2>5, Still DEF Moves
<1>3. CASE Unbind(s)
  <2>1. chat' = Freed(Arg(s)) /\ UNCHANGED <<ws, agent, folder, note, said, edits, edge, used, loose, late, misfiled>>
    BY <1>3 DEF Unbind, content, history
  <2>2. \A x : \A do : do # "unbind" => ~Doing({s}, do, x)
    BY <1>3, NotDoing DEF Unbind
  <2>3. \A x : Doing({s}, "unbind", x) => x = Arg(s)
    BY DoingIs
  <2>4. \A c \in Chats : /\ chat[c] = None <=> chat'[c] = None
                         /\ chat[c] # None => /\ chat'[c].ws = chat[c].ws
                                              /\ chat'[c].agent = IF chat[c].agent = Arg(s) THEN None ELSE chat[c].agent
    BY <1>0, <2>1, RegistryAssumption DEF TablesOK, ChatRows, Freed
  <2>5. ChatsMove({s})
    BY <2>2, <2>4 DEF ChatsMove
  <2>6. BindingsMove({s})
    BY <2>1, <2>3, <2>4 DEF BindingsMove
  <2> QED  BY <2>1, <2>2, <2>5, <2>6, Still DEF Moves
<1>4. CASE DelAgent(s)
  <2>1. agent' = [agent EXCEPT ![Arg(s)] = None]
        /\ UNCHANGED <<ws, chat, folder, note, said, edits, edge, used, loose, late, misfiled>>
    BY <1>4 DEF DelAgent, content, history
  <2>2. \A x : \A do : do # "delAgent" => ~Doing({s}, do, x)
    BY <1>4, NotDoing DEF DelAgent
  <2>3. \A x : Doing({s}, "delAgent", x) <=> x = Arg(s)
    BY <1>4, DoingIs DEF DelAgent
  <2>4. AgentsMove({s})
    BY <1>0, <2>1, <2>2, <2>3 DEF AgentsMove, TablesOK
  <2> QED  BY <2>1, <2>2, <2>4, Still DEF Moves
<1>5. CASE DelMessages(s)
  <2>1. said' = said \ {Arg(s)} /\ UNCHANGED <<ws, chat, agent, folder, note, edits, edge, used, loose, late, misfiled>>
    BY <1>5 DEF DelMessages, owners, history
  <2>2. \A x : \A do : do # "delMessages" => ~Doing({s}, do, x)
    BY <1>5, NotDoing DEF DelMessages
  <2>3. \A x : Doing({s}, "delMessages", x) => x = Arg(s)
    BY DoingIs
  <2>4. SaidMoves({s})
    BY <2>1, <2>2, <2>3 DEF SaidMoves
  <2> QED  BY <2>1, <2>2, <2>4, Still DEF Moves
<1>6. CASE DelChat(s)
  <2>1. chat' = [chat EXCEPT ![Arg(s)] = None]
        /\ UNCHANGED <<ws, agent, folder, note, said, edits, edge, used, loose, late, misfiled>>
    BY <1>6 DEF DelChat, content, history
  <2>2. \A x : \A do : do # "delChat" => ~Doing({s}, do, x)
    BY <1>6, NotDoing DEF DelChat
  <2>3. \A x : Doing({s}, "delChat", x) <=> x = Arg(s)
    BY <1>6, DoingIs DEF DelChat
  <2>4. ChatsMove({s}) /\ BindingsMove({s})
    BY <1>0, <2>1, <2>2, <2>3 DEF ChatsMove, BindingsMove, TablesOK
  <2> QED  BY <2>1, <2>2, <2>4, Still DEF Moves
<1>7. CASE Say(s)
  <2>1. said' = said \cup {Arg(s)} /\ UNCHANGED <<ws, chat, agent, folder, note, edits, edge, used, loose, misfiled>>
        /\ late' = (IF GoneChat(Arg(s)) THEN late \cup {<<"said", Arg(s)>>} ELSE late) /\ Arg(s) \in Chats
    BY <1>7, ArgIs DEF Say, owners, Marked
  <2>2. \A x : \A do : do # "say" => ~Doing({s}, do, x)
    BY <1>7, NotDoing DEF Say
  <2>3. SaidMoves({s}) /\ Grow
    BY <2>1, <2>2 DEF SaidMoves, Grow
  <2> QED  BY <2>1, <2>2, <2>3, Still DEF Moves
<1> QED  BY <1>1, <1>2, <1>3, <1>4, <1>5, <1>6, <1>7

LEMMA DelRowsMoves == ASSUME TypeOK, NEW s \in Slots, DelRows(s) PROVE Moves({s})
<1>0. TablesOK
  BY TypeParts
<1>1. PICK w : w = Arg(s)
  OBVIOUS
<1>2. /\ edits' = IF At(s, "delEdits") THEN {n \in edits : note[n] = None \/ note[n].ws # w} ELSE edits
      /\ edge' = IF At(s, "delEdges") THEN {e \in edge : e.ws # w} ELSE edge
      /\ note' = IF At(s, "delNotes") THEN Kept(note, w) ELSE note
      /\ said' = IF At(s, "delChatMessages") THEN {c \in said : chat[c] = None \/ chat[c].ws # w} ELSE said
      /\ chat' = IF At(s, "delChats") THEN Kept(chat, w) ELSE chat
      /\ agent' = IF At(s, "delAgents") THEN [a \in Agents |-> IF agent[a] = w THEN None ELSE agent[a]] ELSE agent
      /\ ws' = IF At(s, "delWorkspace") THEN ws \ {w} ELSE ws
      /\ UNCHANGED <<folder, used, loose, late, misfiled>>
  BY <1>1 DEF DelRows, history
<1>3. \A do, x : Doing({s}, do, x) <=> At(s, do) /\ x = w
  BY <1>1, DoingIs
<1>4. \A do \in {"delChat", "delAgent", "delMessages", "unbind", "unfile"} : ~At(s, do)
  BY DoingIs DEF DelRows
<1>5. ChatsMove({s})
  <2>1. \A c \in Chats : chat'[c] = IF At(s, "delChats") /\ chat[c] # None /\ chat[c].ws = w THEN None ELSE chat[c]
    BY <1>0, <1>2 DEF Kept, TablesOK
  <2> QED  BY <1>3, <1>4, <2>1 DEF ChatsMove
<1>6. AgentsMove({s})
  <2>1. \A a \in Agents : agent'[a] = IF At(s, "delAgents") /\ agent[a] = w THEN None ELSE agent[a]
    BY <1>2
  <2> QED  BY <1>3, <1>4, <2>1 DEF AgentsMove
<1>7. NotesMove({s})
  <2>1. \A n \in Notes : note'[n] = IF At(s, "delNotes") /\ note[n] # None /\ note[n].ws = w THEN None ELSE note[n]
    BY <1>0, <1>2 DEF Kept, TablesOK
  <2> QED  BY <1>3, <2>1 DEF NotesMove
<1>8. SaidMoves({s})
  BY <1>2, <1>3, <1>4 DEF SaidMoves
<1>9. EditsMove({s})
  BY <1>2, <1>3 DEF EditsMove
<1>10. EdgesMove({s})
  BY <1>2, <1>3 DEF EdgesMove
<1>11. WsMove({s}) /\ FoldersMove({s}) /\ Grow
  BY <1>2, <1>3 DEF WsMove, FoldersMove, Grow
<1>12. BindingsMove({s})
  <2>1. \A c \in Chats : chat'[c] # None => chat'[c] = chat[c]
    BY <1>0, <1>2 DEF Kept, TablesOK
  <2> QED  BY <1>2, <1>3, <1>4, <2>1 DEF BindingsMove
<1>13. FilingMoves({s})
  <2>1. \A n \in Notes : note'[n] # None => note'[n] = note[n]
    BY <1>0, <1>2 DEF Kept, TablesOK
  <2> QED  BY <1>2, <1>3, <1>4, <2>1 DEF FilingMoves
<1> QED  BY <1>5, <1>6, <1>7, <1>8, <1>9, <1>10, <1>11, <1>12, <1>13 DEF Moves

LEMMA NoteHandlersMove ==
  ASSUME TypeOK, UsedOnce, NEW s \in Slots,
         MakeFolder(s) \/ Unfile(s) \/ DelFolder(s) \/ Move(s) \/ Log(s) \/ Ensure(s) \/ Relate(s)
  PROVE  Moves({s})
<1>0. TablesOK
  BY TypeParts
<1>1. CASE MakeFolder(s)
  <2>1. /\ Arg(s) \in Workspaces /\ used \subseteq used'
        /\ folder' = folder \/ \E f \in Folders : folder' = [folder EXCEPT ![f] = Arg(s)]
        /\ UNCHANGED <<ws, chat, agent, note, said, edits, edge, loose, late, misfiled>>
    BY <1>1, ArgIs DEF MakeFolder, content, history
  <2>2. \A x : \A do : do # "makeFolder" => ~Doing({s}, do, x)
    BY <1>1, NotDoing DEF MakeFolder
  <2>3. FoldersMove({s})
    BY <1>0, <2>1, RegistryAssumption DEF FoldersMove, TablesOK
  <2> QED  BY <2>1, <2>2, <2>3, Still DEF Moves
<1>2. CASE Unfile(s)
  <2>1. /\ note' = [n \in Notes |-> IF note[n] # None /\ note[n].folder = Arg(s)
                                    THEN [note[n] EXCEPT !.folder = None] ELSE note[n]]
        /\ UNCHANGED <<ws, chat, agent, folder, said, edits, edge, used, loose, late, misfiled>>
    BY <1>2 DEF Unfile, owners, history
  <2>2. \A x : \A do : do # "unfile" => ~Doing({s}, do, x)
    BY <1>2, NotDoing DEF Unfile
  <2>3. \A x : Doing({s}, "unfile", x) => x = Arg(s)
    BY DoingIs
  <2>4. \A n \in Notes : /\ note[n] = None <=> note'[n] = None
                         /\ note[n] # None => /\ note'[n].ws = note[n].ws
                                              /\ note'[n].folder = IF note[n].folder = Arg(s) THEN None ELSE note[n].folder
    BY <1>0, <2>1, RegistryAssumption DEF TablesOK, NoteRows
  <2>5. NotesMove({s})
    BY <2>2, <2>4 DEF NotesMove
  <2>6. FilingMoves({s})
    BY <2>1, <2>3, <2>4 DEF FilingMoves
  <2> QED  BY <2>1, <2>2, <2>5, <2>6, Still DEF Moves
<1>3. CASE DelFolder(s)
  <2>1. folder' = [folder EXCEPT ![Arg(s)] = None]
        /\ UNCHANGED <<ws, chat, agent, note, said, edits, edge, used, loose, late, misfiled>>
    BY <1>3 DEF DelFolder, content, history
  <2>2. \A x : \A do : do # "delFolder" => ~Doing({s}, do, x)
    BY <1>3, NotDoing DEF DelFolder
  <2>3. \A x : Doing({s}, "delFolder", x) <=> x = Arg(s)
    BY <1>3, DoingIs DEF DelFolder
  <2>4. FoldersMove({s})
    BY <1>0, <2>1, <2>3 DEF FoldersMove, TablesOK
  <2> QED  BY <2>1, <2>2, <2>4, Still DEF Moves
<1>4. CASE Move(s)
  <2>1. /\ Arg(s) \in Notes /\ Arg2(s) \in Folders \cup {None}
        /\ note' = IF note[Arg(s)] = None THEN note ELSE [note EXCEPT ![Arg(s)].folder = Arg2(s)]
        /\ misfiled' = IF Stray(Arg2(s)) THEN misfiled \cup {Arg(s)} ELSE misfiled \ {Arg(s)}
        /\ UNCHANGED <<ws, chat, agent, folder, said, edits, edge, used, loose, late>>
    BY <1>4, ArgIs DEF Move, owners
  <2>2. \A x : \A do : do # "move" => ~Doing({s}, do, x)
    BY <1>4, NotDoing DEF Move
  <2>3. /\ \A n \in Notes : n # Arg(s) => note'[n] = note[n]
        /\ note[Arg(s)] = None => note' = note
        /\ note[Arg(s)] # None => /\ note'[Arg(s)].ws = note[Arg(s)].ws /\ note'[Arg(s)].folder = Arg2(s)
                                  /\ note'[Arg(s)] # None
    BY <1>0, <2>1, RegistryAssumption DEF TablesOK, NoteRows
  <2>4. NotesMove({s})
    BY <2>2, <2>3 DEF NotesMove
  <2>5. FilingMoves({s})
    BY <2>1, <2>2, <2>3 DEF FilingMoves
  <2> QED  BY <2>1, <2>2, <2>4, <2>5, Still DEF Moves
<1>5. CASE Log(s)
  <2>1. edits' = edits \cup {Arg(s)} /\ UNCHANGED <<ws, chat, agent, folder, note, said, edge, used, loose, misfiled>>
        /\ late' = (IF GoneNote(Arg(s)) THEN late \cup {<<"edit", Arg(s)>>} ELSE late) /\ Arg(s) \in Notes
    BY <1>5, ArgIs DEF Log, owners, Marked
  <2>2. \A x : \A do : do # "log" => ~Doing({s}, do, x)
    BY <1>5, NotDoing DEF Log
  <2>3. EditsMove({s}) /\ Grow
    BY <2>1, <2>2 DEF EditsMove, Grow
  <2> QED  BY <2>1, <2>2, <2>3, Still DEF Moves
<1>6. CASE Ensure(s)
  <2>1. UNCHANGED <<ws, chat, agent, folder, said, edits, edge, loose, misfiled>> /\ Arg(s) \in Workspaces
    BY <1>6, ArgIs DEF Ensure, owners
  <2>2. \A x : \A do : do # "ensure" => ~Doing({s}, do, x)
    BY <1>6, NotDoing DEF Ensure
  <2>3. CASE UNCHANGED <<note, used, late>>
    BY <2>1, <2>2, <2>3, Still DEF Moves
  <2>4. CASE ~UNCHANGED <<note, used, late>>
    <3>1. PICK row : row = [ws |-> Arg(s), folder |-> None]
      OBVIOUS
    <3>2. PICK n \in Notes \ used : /\ note' = [note EXCEPT ![n] = row] /\ used' = used \cup {n}
                                    /\ Marked(<<"note", n>>, GoneWs(Arg(s)))
      BY <1>6, <2>4, <3>1 DEF Ensure
    <3>3. note[n] = None
      BY <3>2 DEF UsedOnce, Present, TypeOK
    <3>4. /\ note'[n].ws = Arg(s) /\ note'[n].folder = None
          /\ \A m \in Notes \ {n} : note'[m] = note[m]
      BY <1>0, <3>1, <3>2 DEF TablesOK
    <3>5. late' = IF GoneWs(Arg(s)) THEN late \cup {<<"note", n>>} ELSE late
      BY <3>2 DEF Marked
    <3>6. NotesMove({s}) /\ Grow
      BY <2>2, <3>2, <3>3, <3>4, <3>5 DEF NotesMove, Grow
    <3>7. FilingMoves({s})
      BY <2>1, <2>2, <3>4 DEF FilingMoves
    <3> QED  BY <2>1, <2>2, <3>6, <3>7, Still DEF Moves
  <2> QED  BY <2>3, <2>4
<1>7. CASE Relate(s)
  <2>1. PICK e : e = [from |-> Arg(s), ws |-> Arg2(s)]
    OBVIOUS
  <2>2. /\ edge' \subseteq edge \cup {e} /\ e.from = Arg(s) /\ e.ws = Arg2(s)
        /\ UNCHANGED <<ws, chat, agent, folder, note, said, edits, used, loose, misfiled>>
        /\ late' = (IF GoneWs(Arg2(s)) THEN late \cup {<<"edge", Arg(s)>>} ELSE late)
    BY <1>7, <2>1 DEF Relate, owners, Marked
  <2>3. \A x : \A do : do # "relate" => ~Doing({s}, do, x)
    BY <1>7, NotDoing DEF Relate
  <2>4. EdgesMove({s}) /\ Grow
    BY <2>2, <2>3 DEF EdgesMove, Grow
  <2> QED  BY <2>2, <2>3, <2>4, Still DEF Moves
<1> QED  BY <1>1, <1>2, <1>3, <1>4, <1>5, <1>6, <1>7

LEMMA HandlersMove ==
  ASSUME TypeOK, UsedOnce, NEW s \in Slots, Agency(s) \/ Deletion(s) \/ Filing(s) \/ Talk(s)
  PROVE  Moves({s})
<1>1. CASE NewChat(s) \/ Bind(s) \/ Unbind(s) \/ DelAgent(s) \/ DelMessages(s) \/ DelChat(s) \/ Say(s)
  BY <1>1, ChatHandlersMove
<1>2. CASE MakeFolder(s) \/ Unfile(s) \/ DelFolder(s) \/ Move(s) \/ Log(s) \/ Ensure(s) \/ Relate(s)
  BY <1>2, NoteHandlersMove
<1>3. CASE DelRows(s)
  BY <1>3, DelRowsMoves
<1>4. CASE \/ DeleteAgent(s) \/ DeleteChat(s) \/ DeleteWorkspace(s) \/ Count(s) \/ CreateFolder(s) \/ FindFolder(s)
           \/ DeleteFolder(s) \/ SetNoteFolder(s) \/ FindNote(s) \/ Turn(s) \/ LinkChat(s) \/ Speak(s)
  BY <1>4, Lookers
<1> QED  BY <1>1, <1>2, <1>3, <1>4 DEF Agency, Deletion, Filing, Talk

LEMMA WindowMoves == ASSUME TypeOK, UsedOnce, Window PROVE Moves({}) /\ todo' = todo
<1>0. TablesOK
  BY TypeParts
<1>1. \A do, x : ~Doing({}, do, x)
  BY DEF Doing
<1>2. CASE Switch \/ Refresh \/ Answer \/ PickDefault
  <2>1. UNCHANGED <<ws, chat, agent, folder, note, said, edits, edge, used, loose, late, misfiled, todo>>
    BY <1>2 DEF Switch, Refresh, Answer, PickDefault, tables, owners, content, history
  <2> QED  BY <1>1, <2>1, Still DEF Moves
<1>3. CASE CreateWorkspace
  <2>1. ws \subseteq ws' /\ used \subseteq used'
        /\ UNCHANGED <<chat, agent, folder, note, said, edits, edge, loose, late, misfiled, todo>>
    BY <1>3 DEF CreateWorkspace, content, history
  <2> QED  BY <1>1, <2>1, Still DEF Moves
<1>4. CASE CreateAgent
  <2>1. PICK a \in Agents \ (used \cup Seeded) :
          /\ agent' = [agent EXCEPT ![a] = view.ws] /\ used' = used \cup {a}
          /\ late' = IF GoneWs(view.ws) THEN late \cup {<<"agent", a>>} ELSE late
    BY <1>4 DEF CreateAgent, Marked
  <2>2. UNCHANGED <<ws, chat, folder, note, said, edits, edge, loose, misfiled, todo>> /\ view.ws # None
    BY <1>4 DEF CreateAgent, content
  <2>3. agent[a] = None
    BY <2>1 DEF UsedOnce, Present, TypeOK
  <2>4. AgentsMove({}) /\ Grow
    BY <1>0, <1>1, <2>1, <2>2, <2>3 DEF AgentsMove, Grow, TablesOK
  <2> QED  BY <1>1, <2>2, <2>4, Still DEF Moves
<1>5. CASE SetChatAgents
  <2>1. PICK c \in Listed, a \in view.agents :
          /\ chat' = IF chat[c] = None THEN chat
                     ELSE [chat EXCEPT ![c].agents = Toggled(c, a), ![c].agent = Lead(Toggled(c, a))]
          /\ Rebound(c, Range(Toggled(c, a)))
    BY <1>5 DEF SetChatAgents
  <2>2. UNCHANGED <<ws, agent, folder, note, said, edits, edge, used, late, misfiled, todo>>
    BY <1>5 DEF SetChatAgents, content
  <2>3. Lead(Toggled(c, a)) \in Range(Toggled(c, a)) \cup {None} /\ c \in Chats
    BY ToggledIs, LeadIs DEF Listed
  <2>4. chat[c] # None => chat[c] \in ChatRows /\ Toggled(c, a) \in Seq(Agents) /\ Lead(Toggled(c, a)) \in Agents \cup {None}
    BY <1>0, <2>3, ToggledIs, ViewIs DEF TablesOK
  <2>5. chat[c] # None => /\ chat'[c] # None /\ chat'[c].ws = chat[c].ws /\ chat'[c].agent = Lead(Toggled(c, a))
    <3> SUFFICES ASSUME chat[c] # None
                 PROVE chat'[c] # None /\ chat'[c].ws = chat[c].ws /\ chat'[c].agent = Lead(Toggled(c, a))
      OBVIOUS
    <3>1. chat'[c] = [chat[c] EXCEPT !.agents = Toggled(c, a), !.agent = Lead(Toggled(c, a))]
      BY <1>0, <2>1, <2>3 DEF TablesOK
    <3>2. chat'[c] \in ChatRows /\ chat'[c].ws = chat[c].ws /\ chat'[c].agent = Lead(Toggled(c, a))
      BY <2>4, <3>1 DEF ChatRows
    <3> QED  BY <3>2, RegistryAssumption
  <2>6. /\ \A d \in Chats : d # c => chat'[d] = chat[d] /\ (d \in loose <=> d \in loose')
        /\ chat[c] = None => chat' = chat
        /\ chat[c] # None => chat'[c] # None /\ chat'[c].ws = chat[c].ws /\ chat'[c].agent = Lead(Toggled(c, a))
    BY <1>0, <2>1, <2>3, <2>5 DEF TablesOK, Rebound
  <2>7. chat[c] = None \/ c \in loose' \/ \A b \in Range(Toggled(c, a)) : Firm(c, b)
    BY <2>1 DEF Rebound
  <2>8. ChatsMove({})
    BY <1>1, <2>6 DEF ChatsMove
  <2>9. BindingsMove({})
    BY <1>1, <2>2, <2>3, <2>6, <2>7 DEF BindingsMove
  <2> QED  BY <1>1, <2>2, <2>8, <2>9, Still DEF Moves
<1> QED  BY <1>2, <1>3, <1>4, <1>5 DEF Window

(* At a start no handler is about to delete.                               *)
LEMMA StartingMoves == ASSUME TypeOK, UsedOnce, SeedInv, Alone, Starting PROVE Moves({})
<1>0. TablesOK
  BY TypeParts
<1>1. \A do, x : ~Doing({}, do, x)
  BY DEF Doing
<1>2. CASE Seed \/ Migrate \/ RemoveLinks \/ MarkMigrated \/ Crash
  <2>1. UNCHANGED <<ws, chat, agent, folder, note, said, edits, edge, used, loose, late, misfiled>>
    BY <1>2 DEF Seed, Migrate, RemoveLinks, MarkMigrated, Crash, tables, owners, content, history
  <2> QED  BY <1>1, <2>1, Still DEF Moves
<1>3. CASE Backfill
  <2>1. UNCHANGED <<ws, agent, folder, note, said, edits, edge, used, loose, late, misfiled>>
    BY <1>3 DEF Backfill, content, history
  <2>2. \A c \in Chats : /\ chat[c] = None <=> chat'[c] = None
                         /\ chat[c] # None => chat'[c].ws = chat[c].ws /\ chat'[c].agent = chat[c].agent
    <3> SUFFICES ASSUME NEW c \in Chats
                 PROVE  /\ chat[c] = None <=> chat'[c] = None
                        /\ chat[c] # None => chat'[c].ws = chat[c].ws /\ chat'[c].agent = chat[c].agent
      OBVIOUS
    <3>1. chat[c] # None => chat[c] \in ChatRows
      BY <1>0 DEF TablesOK
    <3>2. chat[c] # None /\ chat[c].agent # None => <<chat[c].agent>> \in Seq(Agents)
      BY <3>1 DEF ChatRows
    <3> QED  BY <1>3, <3>1, <3>2, Relisted DEF Backfill
  <2>3. ChatsMove({}) /\ BindingsMove({})
    BY <1>1, <2>1, <2>2 DEF ChatsMove, BindingsMove
  <2> QED  BY <1>1, <2>1, <2>3, Still DEF Moves
<1>4. CASE SeedWorkspace
  <2>1. ws \subseteq ws' /\ used \subseteq used'
        /\ UNCHANGED <<chat, agent, folder, note, said, edits, edge, loose, late, misfiled>>
    BY <1>4 DEF SeedWorkspace, content, history
  <2> QED  BY <1>1, <2>1, Still DEF Moves
<1>5. CASE CopyLink
  <2>1. PICK l : edge' = edge \cup {[from |-> l, ws |-> None]} \/ edge' = edge
    BY <1>5 DEF CopyLink
  <2>2. UNCHANGED <<ws, chat, agent, folder, note, said, edits, used, loose, late, misfiled>>
    BY <1>5 DEF CopyLink, owners, history
  <2>3. \A e \in edge' : e \in edge \/ e.ws = None
    BY <2>1
  <2>4. EdgesMove({})
    BY <1>1, <2>3 DEF EdgesMove
  <2> QED  BY <1>1, <2>2, <2>4, Still DEF Moves
<1>6. CASE SeedChat
  <2>1. /\ chat[Main] = None /\ chat' = [chat EXCEPT ![Main] = ChatRow(Default)] /\ used' = used \cup {Main}
        /\ UNCHANGED <<ws, agent, folder, note, said, edits, edge, loose, late, misfiled>>
    BY <1>6 DEF SeedChat, content, history
  <2>2. ~GoneWs(Default)
    BY <1>6 DEF SeedChat, SeedInv, Boot, Up, Alone, GoneWs, Going
  <2>3. /\ chat'[Main].ws = Default /\ chat'[Main].agent = None /\ chat'[Main].agents = << >>
        /\ \A d \in Chats \ {Main} : chat'[d] = chat[d]
    BY <1>0, <2>1, RowIs, RegistryAssumption DEF TablesOK
  <2>4. ChatsMove({}) /\ BindingsMove({}) /\ Grow
    BY <1>1, <2>1, <2>2, <2>3 DEF ChatsMove, BindingsMove, Grow
  <2> QED  BY <1>1, <2>1, <2>4, Still DEF Moves
<1>7. CASE SeedAgent
  <2>1. PICK a \in startup.left : agent[a] = None /\ agent' = [agent EXCEPT ![a] = Default] /\ used' = used \cup {a}
    BY <1>7 DEF SeedAgent
  <2>2. UNCHANGED <<ws, chat, folder, note, said, edits, edge, loose, late, misfiled>>
    BY <1>7 DEF SeedAgent, content, history
  <2>3. ~GoneWs(Default) /\ a \in Seeded /\ Default # None /\ a \in Agents
    BY <1>7, RegistryAssumption DEF SeedAgent, SeedInv, Boot, Up, Alone, GoneWs, Going
  <2>4. AgentsMove({}) /\ Grow
    BY <1>0, <1>1, <2>1, <2>3, <2>2 DEF AgentsMove, Grow, TablesOK
  <2> QED  BY <1>1, <2>2, <2>4, Still DEF Moves
<1> QED  BY <1>2, <1>3, <1>4, <1>5, <1>6, <1>7 DEF Starting

(* The lists of statements of the start are empty before and after.        *)
LEMMA StartingOrdered == ASSUME TypeOK, Alone, Starting PROVE Ordered({})
<1>1. \A s \in Slots : todo'[s] = << >>
  <2>1. CASE Crash
    BY <2>1 DEF Crash
  <2>2. CASE ~Crash
    BY <2>2 DEF Starting, Backfill, Seed, SeedWorkspace, SeedChat, SeedAgent, Migrate, CopyLink, RemoveLinks,
                MarkMigrated, Boot, Up, Alone
  <2> QED  BY <2>1, <2>2
<1>2. Cascading' /\ \A do, first, x : LedAll(do, first, x)'
  BY <1>1 DEF Cascading, Followed, LedAll, Led
<1> QED  BY <1>2 DEF Ordered

LEMMA SameOrdered == ASSUME Cascading, todo' = todo PROVE Ordered({})
<1>1. \A do, first, x : Clear(do, x) => LedAll(do, first, x)
  BY DEF Clear, Has, LedAll, Led
<1>2. Cascading' /\ \A do, first, x : LedAll(do, first, x)' <=> LedAll(do, first, x)
  BY DEF Cascading, LedAll
<1> QED  BY <1>1, <1>2 DEF Ordered

-----------------------------------------------------------------------------
(* A deletion that must come after another is not what is done now.        *)
LEMMA NotYet ==
  ASSUME TypeOK, NEW S \in SUBSET Slots, NEW do, NEW first, NEW x, LedAll(do, first, x)
  PROVE  ~Doing(S, do, x)
<1> SUFFICES ASSUME NEW s \in S, At(s, do), Arg(s) = x PROVE FALSE
  BY DEF Doing
<1>1. 1 \in DOMAIN todo[s] /\ todo[s][1].do = do /\ todo[s][1].at = x /\ DOMAIN todo[s] \subseteq Nat \ {0}
  BY FirstIs DEF At, Arg, TypeOK, IsSeq
<1>2. PICK j \in DOMAIN todo[s] : j < 1
  BY <1>1 DEF LedAll, Led
<1> QED  BY <1>1, <1>2

(* No statement of a cascade is left for a workspace that is not going.    *)
LEMMA NotGone ==
  ASSUME TypeOK, Cascading, NEW w, ~GoneWs(w)
  PROVE  /\ w \in ws /\ \A do \in OfCascade : Clear(do, w)
         /\ \A S \in SUBSET Slots : ~Doing(S, "delWorkspace", w)
<1>1. w \in ws /\ \A s \in Slots : \A i \in DOMAIN todo[s] : ~(todo[s][i].at = w /\ todo[s][i].do = "delWorkspace")
  BY DEF GoneWs, Going
<1>2. \A do \in OfCascade : Clear(do, w)
  BY <1>1 DEF Cascading, Followed, Clear, Has
<1>3. \A S \in SUBSET Slots : ~Doing(S, "delWorkspace", w)
  BY <1>1, FirstIs DEF Doing, At, Arg
<1> QED  BY <1>1, <1>2, <1>3

LEMMA NotGoing ==
  ASSUME NEW x, ~Going(x)
  PROVE  \A do \in {"delWorkspace", "delChat", "delAgent", "delFolder"} : Clear(do, x)
  BY DEF Going, Clear, Has

LEMMA OwnedKeeps ==
  ASSUME TypeOK, TypeOK', Cascading, UsedOnce, Owned, NEW S \in SUBSET Slots, Moves(S), Ordered(S)
  PROVE  Owned'
<1>1. WsMove(S) /\ Grow
  BY DEF Moves
<1>2. \A do, first, x : <<do, first>> \in Pairs =>
        /\ LedAll(do, first, x) /\ ~Doing(S, first, x) => LedAll(do, first, x)'
        /\ Clear(do, x) => LedAll(do, first, x)'
  BY DEF Ordered
<1>3. \A w : ~GoneWs(w) => w \in ws' /\ w \in ws /\ \A do \in OfCascade : Clear(do, w)
  BY <1>1, NotGone DEF WsMove
<1>4. \A w \in ws : \A first : LedAll("delWorkspace", first, w) => w \in ws'
  BY <1>1, NotYet DEF WsMove
<1>5. \A c \in Present(chat)' : <<"chat", c>> \in late' \/ ChatOwned(c)'
  <2> SUFFICES ASSUME NEW c \in Chats, chat'[c] # None, <<"chat", c>> \notin late' PROVE ChatOwned(c)'
    BY DEF Present, TypeOK
  <2>1. ChatsMove(S) /\ <<"chat", c>> \notin late
    BY <1>1 DEF Moves, Grow
  <2>2. CASE chat[c] # None /\ chat'[c].ws = chat[c].ws /\ ~Doing(S, "delChats", chat[c].ws)
    <3>1. ChatOwned(c)
      BY <2>1, <2>2 DEF Owned, Present, TypeOK
    <3> QED  BY <1>2, <1>4, <2>2, <3>1 DEF ChatOwned, Pairs
  <2>3. CASE ~GoneWs(chat'[c].ws)
    BY <1>2, <1>3, <2>3 DEF ChatOwned, Pairs, OfCascade
  <2> QED  BY <2>1, <2>2, <2>3 DEF ChatsMove
<1>6. \A a \in Present(agent)' : <<"agent", a>> \in late' \/ AgentOwned(a)'
  <2> SUFFICES ASSUME NEW a \in Agents, agent'[a] # None, <<"agent", a>> \notin late' PROVE AgentOwned(a)'
    BY DEF Present, TypeOK
  <2>1. AgentsMove(S) /\ <<"agent", a>> \notin late
    BY <1>1 DEF Moves, Grow
  <2>2. CASE agent'[a] = agent[a] /\ ~Doing(S, "delAgents", agent[a])
    <3>1. AgentOwned(a)
      BY <2>1, <2>2 DEF Owned, Present, TypeOK
    <3> QED  BY <1>2, <1>4, <2>2, <3>1 DEF AgentOwned, Pairs
  <2>3. CASE ~GoneWs(agent'[a])
    BY <1>2, <1>3, <2>3 DEF AgentOwned, Pairs, OfCascade
  <2> QED  BY <2>1, <2>2, <2>3 DEF AgentsMove
<1>7. \A n \in Present(note)' : <<"note", n>> \in late' \/ NoteOwned(n)'
  <2> SUFFICES ASSUME NEW n \in Notes, note'[n] # None, <<"note", n>> \notin late' PROVE NoteOwned(n)'
    BY DEF Present, TypeOK
  <2>1. NotesMove(S) /\ <<"note", n>> \notin late
    BY <1>1 DEF Moves, Grow
  <2>2. CASE note[n] # None /\ note'[n].ws = note[n].ws /\ ~Doing(S, "delNotes", note[n].ws)
    <3>1. NoteOwned(n)
      BY <2>1, <2>2 DEF Owned, Present, TypeOK
    <3> QED  BY <1>2, <1>4, <2>2, <3>1 DEF NoteOwned, Pairs
  <2>3. CASE ~GoneWs(note'[n].ws)
    BY <1>2, <1>3, <2>3 DEF NoteOwned, Pairs, OfCascade
  <2> QED  BY <2>1, <2>2, <2>3 DEF NotesMove
<1>8. ASSUME NEW c \in said', <<"said", c>> \notin late' PROVE SaidOwned(c)'
  <2>1. ChatsMove(S) /\ SaidMoves(S) /\ <<"said", c>> \notin late
    BY <1>1, <1>8 DEF Moves, Grow
  <2>2. CASE c \in said /\ ~Doing(S, "delMessages", c) /\ (chat[c] # None => ~Doing(S, "delChatMessages", chat[c].ws))
    <3>1. c \in Chats /\ SaidOwned(c)
      BY <2>1, <2>2 DEF Owned
    <3>2. ~Doing(S, "delChat", c) /\ ~Doing(S, "delChats", chat[c].ws)
      BY <3>1, NotYet DEF SaidOwned
    <3>3. chat'[c] # None /\ chat'[c].ws = chat[c].ws
      BY <2>1, <3>1, <3>2 DEF ChatsMove, SaidOwned
    <3> QED  BY <1>2, <2>2, <3>1, <3>3 DEF SaidOwned, Pairs
  <2>3. CASE ~GoneChat(c) /\ chat' = chat
    <3>1. chat[c] # None /\ Clear("delChat", c) /\ Clear("delChats", chat[c].ws)
      BY <1>3, <2>3, NotGoing DEF GoneChat, OfCascade
    <3> QED  BY <1>2, <2>3, <3>1 DEF SaidOwned, Pairs
  <2> QED  BY <1>8, <2>1, <2>2, <2>3 DEF SaidMoves
<1>9. ASSUME NEW n \in edits', <<"edit", n>> \notin late' PROVE EditOwned(n)'
  <2>1. NotesMove(S) /\ EditsMove(S) /\ <<"edit", n>> \notin late
    BY <1>1, <1>9 DEF Moves, Grow
  <2>2. CASE n \in edits /\ (note[n] # None => ~Doing(S, "delEdits", note[n].ws))
    <3>1. n \in Notes /\ EditOwned(n)
      BY <2>1, <2>2 DEF Owned
    <3>2. ~Doing(S, "delNotes", note[n].ws)
      BY <3>1, NotYet DEF EditOwned
    <3>3. note'[n] # None /\ note'[n].ws = note[n].ws
      BY <2>1, <3>1, <3>2 DEF NotesMove, EditOwned
    <3> QED  BY <1>2, <2>2, <3>1, <3>3 DEF EditOwned, Pairs
  <2>3. CASE ~GoneNote(n) /\ note' = note
    <3>1. note[n] # None /\ Clear("delNotes", note[n].ws)
      BY <1>3, <2>3 DEF GoneNote, OfCascade
    <3> QED  BY <1>2, <2>3, <3>1 DEF EditOwned, Pairs
  <2> QED  BY <1>9, <2>1, <2>2, <2>3 DEF EditsMove
<1>10. ASSUME NEW e \in edge', <<"edge", e.from>> \notin late' PROVE EdgeOwned(e)'
  <2>1. EdgesMove(S) /\ <<"edge", e.from>> \notin late
    BY <1>1, <1>10 DEF Moves, Grow
  <2>2. CASE e \in edge /\ ~Doing(S, "delEdges", e.ws)
    <3>1. EdgeOwned(e)
      BY <2>1, <2>2 DEF Owned
    <3> QED  BY <1>2, <1>4, <2>2, <3>1 DEF EdgeOwned, Pairs
  <2>3. CASE e.ws = None
    BY <2>3 DEF EdgeOwned
  <2>4. CASE ~GoneWs(e.ws)
    BY <1>2, <1>3, <2>4 DEF EdgeOwned, Pairs, OfCascade
  <2> QED  BY <1>10, <2>1, <2>2, <2>3, <2>4 DEF EdgesMove
<1>11. (\A c \in said' : c \in Chats) /\ \A n \in edits' : n \in Notes
  BY DEF Owned, Moves, SaidMoves, EditsMove
<1> QED  BY <1>5, <1>6, <1>7, <1>8, <1>9, <1>10, <1>11 DEF Owned

LEMMA UsedKeeps ==
  ASSUME TypeOK', UsedOnce, TypeOK, NEW S \in SUBSET Slots, Moves(S)
  PROVE  UsedOnce'
  BY DEF UsedOnce, Present, TypeOK, Moves, ChatsMove, AgentsMove, NotesMove, Grow

(* A reference stays true, for what it names goes after it.                *)
LEMMA ReferringKeeps ==
  ASSUME TypeOK, TypeOK', Cascading, Referring, NEW S \in SUBSET Slots, Moves(S), Ordered(S)
  PROVE  Referring'
<1>1. \A do, first, x : <<do, first>> \in Pairs =>
        /\ LedAll(do, first, x) /\ ~Doing(S, first, x) => LedAll(do, first, x)'
        /\ Clear(do, x) => LedAll(do, first, x)'
  BY DEF Ordered
<1>2. ASSUME NEW c \in Chats, chat'[c] # None, c \notin loose' PROVE Bound(c)'
  <2>0. CASE chat'[c].agent = None
    BY <2>0 DEF Bound
  <2> SUFFICES ASSUME chat'[c].agent # None PROVE Bound(c)'
    BY <2>0
  <2> PICK a : a = chat'[c].agent
    OBVIOUS
  <2>1. ChatsMove(S) /\ BindingsMove(S) /\ AgentsMove(S)
    BY DEF Moves
  <2>2. chat[c] # None /\ chat'[c].ws = chat[c].ws /\ ~Doing(S, "delChats", chat[c].ws)
    BY <1>2, <2>1 DEF ChatsMove
  <2>3. CASE c \notin loose /\ chat'[c].agent = chat[c].agent /\ ~Doing(S, "unbind", chat[c].agent)
    <3>1. agent[a] = chat[c].ws /\ LedAll("delAgent", "unbind", a) /\ LedAll("delAgents", "delChats", chat[c].ws)
      BY <2>2, <2>3 DEF Referring, Bound, Present, TypeOK
    <3>2. a \in Agents /\ agent[a] # None
      <4>1. chat[c] \in ChatRows /\ a = chat[c].agent
        BY <2>2, <2>3 DEF TypeOK
      <4>2. a \in Agents /\ chat[c].ws \in Workspaces
        BY <4>1 DEF ChatRows
      <4> QED  BY <3>1, <4>2, RegistryAssumption
    <3>3. ~Doing(S, "delAgent", a) /\ ~Doing(S, "delAgents", agent[a])
      BY <3>1, NotYet
    <3>4. agent'[a] = agent[a]
      BY <2>1, <3>2, <3>3 DEF AgentsMove
    <3> QED  BY <1>1, <2>2, <2>3, <3>1, <3>4 DEF Bound, Pairs
  <2>4. CASE Firm(c, a) /\ agent' = agent /\ ~Doing(S, "unbind", a)
    <3>1. agent[a] = chat[c].ws /\ Clear("delAgent", a) /\ Clear("delAgents", chat[c].ws)
      BY <2>4, NotGoing, NotGone DEF Firm, OfCascade
    <3> QED  BY <1>1, <2>2, <2>4, <3>1 DEF Bound, Pairs
  <2> QED  BY <1>2, <2>1, <2>3, <2>4 DEF BindingsMove
<1>3. ASSUME NEW n \in Notes, note'[n] # None, n \notin misfiled' PROVE Filed(n)'
  <2>0. CASE note'[n].folder = None
    BY <2>0 DEF Filed
  <2> SUFFICES ASSUME note'[n].folder # None PROVE Filed(n)'
    BY <2>0
  <2> PICK f : f = note'[n].folder
    OBVIOUS
  <2>1. NotesMove(S) /\ FilingMoves(S) /\ FoldersMove(S)
    BY DEF Moves
  <2>2. CASE note[n] # None /\ n \notin misfiled /\ note'[n].folder = note[n].folder /\ ~Doing(S, "unfile", note[n].folder)
    <3>1. folder[f] # None /\ LedAll("delFolder", "unfile", f)
      BY <2>2 DEF Referring, Filed, Present, TypeOK
    <3>2. f \in Folders
      BY <2>2, RegistryAssumption DEF TypeOK, NoteRows
    <3>3. folder'[f] # None
      BY <2>1, <3>1, <3>2, NotYet DEF FoldersMove
    <3> QED  BY <1>1, <2>2, <3>1, <3>3 DEF Filed, Pairs
  <2>3. CASE ~Stray(f) /\ folder' = folder
    BY <1>1, <2>3, NotGoing DEF Stray, Filed, Pairs
  <2> QED  BY <1>3, <2>1, <2>2, <2>3 DEF FilingMoves
<1> QED  BY <1>2, <1>3 DEF Referring, Present, TypeOK

(* What the seeds are made of is never late, and of no other workspace.    *)
LEMMA LateIs ==
  ASSUME NEW s \in Slots, Agency(s) \/ Deletion(s) \/ Filing(s) \/ Talk(s)
  PROVE  <<"chat", Main>> \in late' \/ (\E a : a \in Seeded /\ <<"agent", a>> \in late')
           => <<"chat", Main>> \in late \/ (\E a : a \in Seeded /\ <<"agent", a>> \in late)
<1> SUFFICES late' = late \/ \E kind, x : /\ late' = late \cup {<<kind, x>>}
                                          /\ kind \in {"said", "edit", "note", "edge"} \/ (kind = "chat" /\ x # Main)
  <2>1. ASSUME NEW kind, NEW x, late' = late \cup {<<kind, x>>},
               kind \in {"said", "edit", "note", "edge"} \/ (kind = "chat" /\ x # Main)
        PROVE  \A y : /\ <<"agent", y>> \in late' => <<"agent", y>> \in late
                      /\ <<"chat", Main>> \in late' => <<"chat", Main>> \in late
    <3>1. <<"chat", Main>> # <<kind, x>>
      BY <2>1
    <3>2. \A y : <<"agent", y>> # <<kind, x>>
      BY <2>1
    <3> QED  BY <2>1, <3>1, <3>2
  <2> QED  BY <2>1
<1>1. CASE Agency(s)
  BY <1>1 DEF Agency, NewChat, Bind, DeleteAgent, Unbind, DelAgent, Marked, history
<1>2. CASE Deletion(s)
  BY <1>2 DEF Deletion, DeleteChat, DelMessages, DelChat, DeleteWorkspace, Count, DelRows, history
<1>3. CASE Filing(s)
  BY <1>3 DEF Filing, CreateFolder, FindFolder, MakeFolder, DeleteFolder, Unfile, DelFolder, SetNoteFolder,
              FindNote, Move, Log, Marked, history
<1>4. CASE Talk(s)
  BY <1>4 DEF Talk, Turn, Say, LinkChat, Ensure, Relate, Speak, Marked, history
<1> QED  BY <1>1, <1>2, <1>3, <1>4

LEMMA SeedsKeep ==
  ASSUME TypeOK, UsedOnce, Owned, SeedInv, Alone, NEW S \in SUBSET Slots, Moves(S),
         Window \/ \E s \in Slots : Agency(s) \/ Deletion(s) \/ Filing(s) \/ Talk(s)
  PROVE  SeedInv'
<1>1. <<"chat", Main>> \notin late' /\ \A a \in Seeded : <<"agent", a>> \notin late'
  <2>1. CASE Window
    <3>1. late' = late \/ \E a \in Agents \ Seeded : late' = late \cup {<<"agent", a>>}
      BY <2>1 DEF Window, Switch, Refresh, Answer, PickDefault, CreateWorkspace, CreateAgent, SetChatAgents, Marked, history
    <3> QED  BY <3>1 DEF SeedInv
  <2>2. CASE \E s \in Slots : Agency(s) \/ Deletion(s) \/ Filing(s) \/ Talk(s)
    BY <2>2, LateIs DEF SeedInv
  <2> QED  BY <2>1, <2>2
<1>2. Up /\ startup' = startup
  BY OthersComeLater DEF old
<1>3. chat'[Main] # None => chat'[Main].ws = Default
  BY RegistryAssumption DEF SeedInv, Moves, ChatsMove
<1>4. \A a \in Seeded : agent'[a] \in {None, Default}
  BY RegistryAssumption DEF SeedInv, Moves, AgentsMove
<1> QED  BY <1>1, <1>2, <1>3, <1>4 DEF SeedInv, Boot, Up

LEMMA NoSeedYet ==
  ASSUME TypeOK, Owned, SeedInv, Default \notin ws
  PROVE  chat[Main] = None /\ \A a \in Seeded : agent[a] = None
<1>1. ASSUME chat[Main] # None PROVE FALSE
  <2>1. Main \in Present(chat) /\ <<"chat", Main>> \notin late /\ chat[Main].ws = Default
    BY <1>1, RegistryAssumption DEF TypeOK, Present, SeedInv
  <2> QED  BY <2>1 DEF Owned, ChatOwned
<1>2. ASSUME NEW a \in Seeded, agent[a] # None PROVE FALSE
  <2>1. a \in Present(agent) /\ <<"agent", a>> \notin late /\ agent[a] = Default
    BY <1>2, RegistryAssumption DEF TypeOK, Present, SeedInv
  <2> QED  BY <2>1 DEF Owned, AgentOwned
<1> QED  BY <1>1, <1>2

LEMMA StartingSeeds ==
  ASSUME TypeOK, UsedOnce, Owned, SeedInv, Alone, Starting
  PROVE  SeedInv'
<1>0. Moves({}) /\ late' = late
  BY StartingMoves DEF Starting, Backfill, Seed, SeedWorkspace, SeedChat, SeedAgent, Migrate, CopyLink, RemoveLinks,
                       MarkMigrated, Crash, history
<1>1. chat'[Main] # None => chat'[Main].ws = Default
  BY <1>0, RegistryAssumption DEF SeedInv, Moves, ChatsMove
<1>2. \A a \in Seeded : agent'[a] \in {None, Default}
  BY <1>0, RegistryAssumption DEF SeedInv, Moves, AgentsMove
<1> SUFFICES /\ Boot("seedWorkspace")' => Default \notin ws'
             /\ Boot("seedChat")' => Default \in ws' /\ chat'[Main] = None /\ \A a \in Seeded : agent'[a] = None
             /\ Boot("seedAgents")' => /\ Default \in ws' /\ startup'.left \subseteq Seeded
                                       /\ \A a \in startup'.left : agent'[a] = None
  BY <1>0, <1>1, <1>2 DEF SeedInv
<1>3. CASE Backfill \/ Migrate \/ CopyLink \/ RemoveLinks \/ MarkMigrated \/ Crash
  BY <1>3 DEF Backfill, Migrate, CopyLink, RemoveLinks, MarkMigrated, Crash, Begin, CopyOrRemove, Boot
<1>4. CASE Seed
  BY <1>4 DEF Seed, Begin, Boot, tables, owners
<1>5. CASE SeedWorkspace
  BY <1>5, NoSeedYet DEF SeedWorkspace, SeedInv, Begin, Boot
<1>6. CASE SeedChat
  BY <1>6 DEF SeedChat, SeedInv, Begin, Boot
<1>7. CASE SeedAgent
  <2>1. PICK a \in startup.left : /\ agent[a] = None /\ agent' = [agent EXCEPT ![a] = Default]
                                  /\ Begin(IF startup.left \ {a} = {} THEN "migrate" ELSE "seedAgents", startup.left \ {a})
    BY <1>7 DEF SeedAgent
  <2>2. ws' = ws /\ Default \in ws /\ startup.left \subseteq Seeded /\ \A b \in startup.left : agent[b] = None
    BY <1>7 DEF SeedAgent, SeedInv
  <2> QED  BY <2>1, <2>2 DEF Begin, Boot, TypeOK
<1> QED  BY <1>3, <1>4, <1>5, <1>6, <1>7 DEF Starting

-----------------------------------------------------------------------------
(* Lists of agents: who is of a workspace stays of it or goes.             *)
LEMMA Stable ==
  ASSUME NEW S, Moves(S), NEW w
  PROVE  /\ \A c \in Chats : InWs(c, w) => InWs(c, w)'
         /\ \A a \in Agents : Of(a, w) => Of(a, w)'
  BY DEF Moves, ChatsMove, AgentsMove, Grow, InWs, Of

ViewOK == \E w \in Workspaces : /\ \A c \in Listed : InWs(c, w)
                                /\ \A a \in view.agents : Of(a, w)
Listing == \A c \in Present(chat) : Local(c) \/ (c \in loose /\ ~Binding(c))
ChoicesMade == \A s \in Slots : \A i \in DOMAIN todo[s] : Choice(todo[s][i])

(* What the lists say now is of the workspace they are of.                 *)
LEMMA ListedNow ==
  ASSUME TypeOK, UsedOnce, SeedInv, NEW w \in Workspaces
  PROVE  /\ \A c \in Chats : ChatsOf(w)[c] # None => InWs(c, w)
         /\ \A a \in AgentsOf(w) : Of(a, w)
<1>1. ASSUME NEW c \in Chats, ChatsOf(w)[c] # None PROVE InWs(c, w)
  <2>1. chat[c] # None /\ chat[c].ws = w
    BY <1>1 DEF ChatsOf
  <2> QED  BY <2>1 DEF InWs, UsedOnce, Present, TypeOK, SeedInv
<1>2. ASSUME NEW a \in Agents, agent[a] = w PROVE Of(a, w)
  <2>1. agent[a] # None
    BY <1>2, RegistryAssumption
  <2> QED  BY <1>2, <2>1 DEF Of, UsedOnce, Present, TypeOK, SeedInv
<1> QED  BY <1>1, <1>2 DEF AgentsOf

LEMMA ViewKeeps ==
  ASSUME TypeOK, TypeOK', UsedOnce, SeedInv, ViewOK, NEW S, Moves(S),
         \/ view' = view
         \/ view'.agents = {} /\ Listed' = {}
         \/ /\ Refresh \/ Answer
            /\ UNCHANGED tables
  PROVE  ViewOK'
<1>1. CASE view' = view
  <2>1. PICK w \in Workspaces : (\A c \in Listed : InWs(c, w)) /\ \A a \in view.agents : Of(a, w)
    BY DEF ViewOK
  <2>2. Listed' = Listed /\ Listed \subseteq Chats /\ view.agents \subseteq Agents
    BY <1>1, ViewIs DEF Listed
  <2>3. (\A c \in Listed' : InWs(c, w)') /\ \A a \in view'.agents : Of(a, w)'
    BY <1>1, <2>1, <2>2, Stable
  <2> QED  BY <2>3 DEF ViewOK
<1>2. CASE view'.agents = {} /\ Listed' = {}
  BY <1>2, RegistryAssumption DEF ViewOK
<1>3. CASE (Refresh \/ Answer) /\ UNCHANGED tables
  <2>1. PICK w \in Workspaces : view' = Lists(w)
    BY <1>3, ViewIs DEF Refresh, Answer, TypeOK
  <2>2. view'.chats = ChatsOf(w) /\ view'.agents = AgentsOf(w)
    BY <2>1, ListsAre
  <2>3. (\A c \in Listed' : InWs(c, w)) /\ \A a \in view'.agents : Of(a, w)
    BY <2>2, ListedNow DEF Listed
  <2>4. Listed' \subseteq Chats /\ view'.agents \subseteq Agents
    BY DEF Listed, TypeOK, Views
  <2>5. (\A c \in Listed' : InWs(c, w)') /\ \A a \in view'.agents : Of(a, w)'
    BY <2>3, <2>4, Stable
  <2> QED  BY <2>5 DEF ViewOK
<1> QED  BY <1>1, <1>2, <1>3

(* Lists change when the window sets them, and at a start.                 *)
ListsMove(S) ==
  \A c \in Chats : chat'[c] # None =>
    \/ /\ chat[c] # None /\ chat'[c].agents = chat[c].agents /\ chat'[c].ws = chat[c].ws
       /\ c \in loose => c \in loose' \/ Doing(S, "bind", c)
    \/ chat'[c].agents = << >>
    \/ Local(c)'
    \/ c \in loose' /\ \A s \in Slots : todo'[s] = << >>

BindsMove == \A c \in used : Binding(c)' => Binding(c)

LEMMA ListingKeeps ==
  ASSUME TypeOK, TypeOK', UsedOnce, Listing, NEW S \in SUBSET Slots, Moves(S), ListsMove(S), BindsMove
  PROVE  Listing'
<1> SUFFICES ASSUME NEW c \in Chats, chat'[c] # None PROVE Local(c)' \/ (c \in loose' /\ ~Binding(c)')
  BY DEF Listing, Present, TypeOK
<1>1. CASE /\ chat[c] # None /\ chat'[c].agents = chat[c].agents /\ chat'[c].ws = chat[c].ws
           /\ c \in loose => c \in loose' \/ Doing(S, "bind", c)
  <2>1. CASE Local(c)
    <3>1. Range(chat[c].agents) \subseteq Agents
      BY <1>1 DEF TypeOK, ChatRows, Range
    <3>2. \A a \in Range(chat[c].agents) : Of(a, chat[c].ws)'
      <4>1. PICK w : w = chat[c].ws
        OBVIOUS
      <4>2. \A a \in Agents : Of(a, w) => Of(a, w)'
        BY Stable
      <4> QED  BY <1>1, <2>1, <3>1, <4>1, <4>2 DEF Local, Of
    <3> QED  BY <1>1, <3>2 DEF Local, Of
  <2>2. CASE c \in loose /\ ~Binding(c)
    <3>1. ~Doing(S, "bind", c)
      BY <2>2, FirstIs DEF Binding, Doing, At, Arg
    <3>2. c \in used
      BY <1>1 DEF UsedOnce, Present, TypeOK
    <3> QED  BY <1>1, <2>2, <3>1, <3>2 DEF BindsMove
  <2> QED  BY <1>1, <2>1, <2>2 DEF Listing, Present, TypeOK
<1>2. CASE chat'[c].agents = << >>
  BY <1>2 DEF Local, Range
<1>3. CASE c \in loose' /\ \A s \in Slots : todo'[s] = << >>
  BY <1>3 DEF Binding
<1> QED  BY <1>1, <1>2, <1>3 DEF ListsMove

(* Statements that are new.                                                *)
LEMMA HandlersBind ==
  ASSUME TypeOK, Cascading, NEW s \in Slots, Agency(s) \/ Deletion(s) \/ Filing(s) \/ Talk(s)
  PROVE  BindsMove
<1>1. \E p : /\ WellOrdered(p) /\ Gives(s, p)
             /\ \A c \in used : \A i \in DOMAIN p : ~(p[i].do = "bind" /\ p[i].at = c)
  <2>1. CASE NewChat(s)
    <3>1. PICK c \in Chats \ (used \cup {Main}) : \E p :
            /\ WellOrdered(p) /\ Gives(s, p)
            /\ \A i \in DOMAIN p : Statement(p[i]) /\ p[i].do = "bind" /\ p[i].at = c
            /\ chat' = [chat EXCEPT ![c] = ChatRow(view.ws)] /\ used' = used \cup {c}
            /\ Marked(<<"chat", c>>, GoneWs(view.ws))
      BY <2>1, NewChatGives
    <3>2. PICK p : WellOrdered(p) /\ Gives(s, p) /\ \A i \in DOMAIN p : p[i].at = c
      BY <3>1
    <3> QED  BY <3>2
  <2>2. CASE Turn(s)
    BY <2>2, TurnGives
  <2>3. CASE ~NewChat(s) /\ ~Turn(s)
    BY <2>3, HandlersGive DEF Plain
  <2> QED  BY <2>1, <2>2, <2>3
<1>2. PICK p : /\ WellOrdered(p) /\ Gives(s, p)
               /\ \A c \in used : \A i \in DOMAIN p : ~(p[i].do = "bind" /\ p[i].at = c)
  BY <1>1
<1>3. Known(p)
  BY <1>2, GivesOrdered
<1> QED  BY <1>2, <1>3 DEF Known, BindsMove, Binding

LEMMA HandlersList ==
  ASSUME TypeOK, UsedOnce, NEW s \in Slots, Agency(s) \/ Deletion(s) \/ Filing(s) \/ Talk(s)
  PROVE  ListsMove({s})
<1>0. TablesOK
  BY TypeParts
<1>1. CASE NewChat(s)
  <2>1. PICK c \in Chats : chat' = [chat EXCEPT ![c] = ChatRow(view.ws)]
    BY <1>1 DEF NewChat
  <2>2. loose' = loose /\ view.ws \in Workspaces
    BY <1>1, ViewIs DEF NewChat
  <2>3. chat'[c].agents = << >> /\ \A d \in Chats \ {c} : chat'[d] = chat[d]
    BY <1>0, <2>1, <2>2, RowIs DEF TablesOK
  <2> QED  BY <2>2, <2>3 DEF ListsMove
<1>2. CASE Bind(s)
  <2>1. /\ Arg(s) \in Chats /\ Arg2(s) \in Agents /\ loose \ {Arg(s)} \subseteq loose'
        /\ chat' = IF chat[Arg(s)] = None THEN chat ELSE [chat EXCEPT ![Arg(s)].agent = Arg2(s)]
    BY <1>2, ArgIs DEF Bind, Rebound
  <2>2. Doing({s}, "bind", Arg(s))
    BY <1>2, DoingIs DEF Bind
  <2>3. \A c \in Chats : chat'[c] # None => chat[c] # None /\ chat'[c].agents = chat[c].agents /\ chat'[c].ws = chat[c].ws
    BY <1>0, <2>1 DEF TablesOK, ChatRows
  <2> QED  BY <2>1, <2>2, <2>3 DEF ListsMove
<1>3. CASE Unbind(s)
  <2>1. chat' = Freed(Arg(s)) /\ loose' = loose
    BY <1>3 DEF Unbind, history
  <2>2. \A c \in Chats : chat'[c] # None => chat[c] # None /\ chat'[c].agents = chat[c].agents /\ chat'[c].ws = chat[c].ws
    BY <1>0, <2>1 DEF TablesOK, ChatRows, Freed
  <2> QED  BY <2>1, <2>2 DEF ListsMove
<1>4. CASE ~NewChat(s) /\ ~Bind(s) /\ ~Unbind(s)
  <2>1. loose' = loose /\ \A c \in Chats : chat'[c] # None => chat'[c] = chat[c]
    <3>1. CASE DelChat(s)
      BY <1>0, <3>1 DEF DelChat, TablesOK, history
    <3>2. CASE DelRows(s)
      BY <1>0, <3>2 DEF DelRows, Kept, TablesOK, history
    <3>3. CASE ~DelChat(s) /\ ~DelRows(s)
      <4>1. loose' = loose /\ chat' = chat
        <5>1. CASE Agency(s)
          BY <1>4, <5>1 DEF Agency, DeleteAgent, DelAgent, tables, owners, history
        <5>2. CASE Deletion(s)
          BY <3>3, <5>2 DEF Deletion, DeleteChat, DelMessages, DeleteWorkspace, Count, tables, owners, history
        <5>3. CASE Filing(s)
          BY <5>3 DEF Filing, CreateFolder, FindFolder, MakeFolder, DeleteFolder, Unfile, DelFolder, SetNoteFolder,
                      FindNote, Move, Log, tables, owners, history
        <5>4. CASE Talk(s)
          BY <5>4 DEF Talk, Turn, Say, LinkChat, Ensure, Relate, Speak, tables, owners, history
        <5> QED  BY <5>1, <5>2, <5>3, <5>4
      <4> QED  BY <4>1
    <3> QED  BY <3>1, <3>2, <3>3
  <2> QED  BY <2>1 DEF ListsMove
<1> QED  BY <1>1, <1>2, <1>3, <1>4

LEMMA WindowLists ==
  ASSUME TypeOK, ViewOK, Window
  PROVE  ListsMove({})
<1>0. TablesOK
  BY TypeParts
<1>1. CASE SetChatAgents
  <2>1. PICK c \in Listed, a \in view.agents :
          /\ chat' = IF chat[c] = None THEN chat
                     ELSE [chat EXCEPT ![c].agents = Toggled(c, a), ![c].agent = Lead(Toggled(c, a))]
          /\ Rebound(c, Range(Toggled(c, a)))
    BY <1>1 DEF SetChatAgents
  <2>2. agent' = agent /\ used' = used
    BY <1>1 DEF SetChatAgents
  <2>3. \A d \in Chats \ {c} : chat'[d] = chat[d] /\ (d \in loose => d \in loose')
    BY <1>0, <2>1 DEF TablesOK, Rebound
  <2>4. c \in Chats /\ Toggled(c, a) \in Seq(Agents) /\ Range(Toggled(c, a)) \subseteq view.agents
        /\ Lead(Toggled(c, a)) \in Agents \cup {None}
    BY ToggledIs, LeadIs, ViewIs DEF Listed
  <2>5. ASSUME chat'[c] # None PROVE Local(c)'
    <3>1. chat[c] # None
      BY <2>1, <2>5
    <3>2. chat'[c] = [chat[c] EXCEPT !.agents = Toggled(c, a), !.agent = Lead(Toggled(c, a))] /\ chat[c] \in ChatRows
      BY <1>0, <2>1, <2>4, <3>1 DEF TablesOK
    <3>3. chat'[c].agents = Toggled(c, a) /\ chat'[c].ws = chat[c].ws
      BY <2>4, <3>2 DEF ChatRows
    <3>4. PICK w \in Workspaces : InWs(c, w) /\ \A b \in view.agents : Of(b, w)
      BY DEF ViewOK
    <3>5. chat[c].ws = w
      BY <3>1, <3>4 DEF InWs
    <3> QED  BY <2>2, <2>4, <3>3, <3>4, <3>5 DEF Local, Of
  <2> QED  BY <2>3, <2>5 DEF ListsMove
<1>2. CASE ~SetChatAgents
  <2>1. loose' = loose /\ chat' = chat
    BY <1>2 DEF Window, Switch, Refresh, Answer, PickDefault, CreateWorkspace, CreateAgent, tables, owners, history
  <2> QED  BY <2>1 DEF ListsMove
<1> QED  BY <1>1, <1>2

LEMMA StartingLists ==
  ASSUME TypeOK, UsedOnce, SeedInv, Referring, Alone, Starting
  PROVE  ListsMove({}) /\ BindsMove
<1>0. TablesOK
  BY TypeParts
<1>1. loose' = loose /\ \A s \in Slots : todo'[s] = << >>
  <2>1. CASE Crash
    BY <2>1 DEF Crash, history
  <2>2. CASE ~Crash
    BY <2>2 DEF Starting, Backfill, Seed, SeedWorkspace, SeedChat, SeedAgent, Migrate, CopyLink, RemoveLinks,
                MarkMigrated, Boot, Up, Alone, history
  <2> QED  BY <2>1, <2>2
<1>2. BindsMove
  BY <1>1 DEF BindsMove, Binding
<1>3. CASE Backfill
  <2>1. agent' = agent /\ used' = used
    BY <1>3 DEF Backfill
  <2> SUFFICES ASSUME NEW c \in Chats, chat'[c] # None
               PROVE  \/ chat[c] # None /\ chat'[c].agents = chat[c].agents /\ chat'[c].ws = chat[c].ws
                      \/ Local(c)'
                      \/ c \in loose'
    BY <1>1, <1>2, <2>1 DEF ListsMove
  <2>2. chat[c] # None /\ chat[c] \in ChatRows
    BY <1>0, <1>3 DEF Backfill, TablesOK
  <2>3. CASE chat[c].agent # None /\ chat[c].agents = << >>
    <3> PICK a : a = chat[c].agent
      OBVIOUS
    <3>1. a \in Agents /\ <<a>> \in Seq(Agents) /\ chat[c].ws \in Workspaces
      BY <2>2, <2>3 DEF ChatRows
    <3>2. chat'[c] = [chat[c] EXCEPT !.agents = <<a>>]
      BY <1>3, <2>2, <2>3 DEF Backfill
    <3>3. chat'[c].agents = <<a>> /\ chat'[c].ws = chat[c].ws
      BY <2>2, <3>1, <3>2, Relisted
    <3>4. Range(<<a>>) = {a}
      BY Pure DEF Range
    <3>5. CASE c \in loose
      BY <1>1, <3>5
    <3>6. CASE c \notin loose
      <4>1. agent[a] = chat[c].ws
        BY <2>2, <2>3, <3>6 DEF Referring, Bound, Present, TypeOK
      <4>2. agent[a] # None
        BY <3>1, <4>1, RegistryAssumption
      <4>3. Of(a, chat[c].ws)
        BY <3>1, <4>1, <4>2 DEF Of, UsedOnce, Present, TypeOK, SeedInv
      <4> QED  BY <2>1, <3>3, <3>4, <4>3 DEF Local, Of
    <3> QED  BY <3>5, <3>6
  <2>4. CASE chat[c].agent = None \/ chat[c].agents # << >>
    BY <1>3, <2>2, <2>4 DEF Backfill
  <2> QED  BY <2>3, <2>4
<1>4. CASE SeedChat
  <2>1. chat' = [chat EXCEPT ![Main] = ChatRow(Default)]
    BY <1>4 DEF SeedChat
  <2>2. chat'[Main].agents = << >> /\ \A d \in Chats \ {Main} : chat'[d] = chat[d]
    BY <1>0, <2>1, RowIs, RegistryAssumption DEF TablesOK
  <2> QED  BY <1>1, <1>2, <2>2 DEF ListsMove
<1>5. CASE ~Backfill /\ ~SeedChat
  <2>1. chat' = chat
    BY <1>5 DEF Starting, Seed, SeedWorkspace, SeedAgent, Migrate, CopyLink, RemoveLinks, MarkMigrated, Crash,
                tables, owners
  <2> QED  BY <1>1, <1>2, <2>1 DEF ListsMove
<1> QED  BY <1>2, <1>3, <1>4, <1>5

(* What a turn chose stays of its chat's workspace.                        *)
LEMMA ChoiceKeeps ==
  ASSUME NEW S, Moves(S), NEW x, Statement(x), Choice(x)
  PROVE  Choice(x)'
<1> SUFFICES ASSUME x.do = "speak", x.to[2] # None PROVE Choice(x)'
  BY DEF Choice
<1>1. PICK w \in Workspaces : InWs(x.at, w) /\ Of(x.to[2], w)
  BY DEF Choice
<1>2. x.at \in Chats /\ x.to[2] \in Agents
  BY DEF Statement, Subjects, Choice
<1>3. InWs(x.at, w)' /\ Of(x.to[2], w)'
  BY <1>1, <1>2, Stable
<1> QED  BY <1>2, <1>3 DEF Choice

LEMMA TurnChooses ==
  ASSUME TypeOK, ViewOK, NEW c \in Listed, NEW m \in Agents, NEW S, Moves(S), NEW a, a = Override(c, m)
  PROVE  a = None \/ (a \in Agents /\ \E w \in Workspaces : InWs(c, w)' /\ Of(a, w)')
<1>1. PICK w \in Workspaces : (\A d \in Listed : InWs(d, w)) /\ \A b \in view.agents : Of(b, w)
  BY DEF ViewOK
<1>2. a = None \/ a \in Range(Members(c))
  BY MembersAre, LeadIs DEF Override, Mentioned
<1>3. Range(Members(c)) \subseteq view.agents /\ view.agents \subseteq Agents /\ c \in Chats
  BY MembersAre, ViewIs DEF Listed, Range
<1>4. CASE a \in view.agents
  BY <1>1, <1>3, <1>4, Stable
<1> QED  BY <1>2, <1>3, <1>4

LEMMA HandlersChoose ==
  ASSUME TypeOK, Cascading, ViewOK, ChoicesMade, NEW s \in Slots, Moves({s}),
         Agency(s) \/ Deletion(s) \/ Filing(s) \/ Talk(s)
  PROVE  ChoicesMade'
<1>1. \E p : /\ WellOrdered(p) /\ Gives(s, p)
             /\ \A i \in DOMAIN p : Choice(p[i])'
  <2>1. CASE NewChat(s)
    <3>1. PICK p : WellOrdered(p) /\ Gives(s, p) /\ \A i \in DOMAIN p : p[i].do = "bind"
      BY <2>1, NewChatGives
    <3> QED  BY <3>1 DEF Choice
  <2>2. CASE Turn(s)
    <3>1. PICK c \in Listed, m \in Agents : \E p :
            /\ WellOrdered(p) /\ Gives(s, p)
            /\ \A i \in DOMAIN p : Statement(p[i]) /\ p[i].do # "bind"
            /\ \A i \in DOMAIN p : p[i].do = "speak" => p[i].at = c /\ p[i].to[2] = Override(c, m)
      BY <2>2, TurnGives
    <3>2. PICK p : /\ WellOrdered(p) /\ Gives(s, p)
                   /\ \A i \in DOMAIN p : p[i].do = "speak" => p[i].at = c /\ p[i].to[2] = Override(c, m)
      BY <3>1
    <3>3. PICK a : a = Override(c, m)
      OBVIOUS
    <3>4. a = None \/ (a \in Agents /\ \E w \in Workspaces : InWs(c, w)' /\ Of(a, w)')
      BY <3>3, TurnChooses
    <3>5. \A i \in DOMAIN p : Choice(p[i])'
      BY <3>2, <3>3, <3>4 DEF Choice
    <3> QED  BY <3>2, <3>5
  <2>3. CASE ~NewChat(s) /\ ~Turn(s)
    <3>1. PICK p : WellOrdered(p) /\ Gives(s, p) /\ \A i \in DOMAIN p : p[i].do # "speak"
      BY <2>3, HandlersGive DEF Plain
    <3> QED  BY <3>1 DEF Choice
  <2> QED  BY <2>1, <2>2, <2>3
<1>2. PICK p : WellOrdered(p) /\ Gives(s, p) /\ \A i \in DOMAIN p : Choice(p[i])'
  BY <1>1
<1>3. WellOrdered(p) /\ Gives(s, p)
  BY <1>2
<1>4. Known(p)
  BY <1>3, GivesOrdered
<1>5. ASSUME NEW t \in Slots, NEW j \in DOMAIN todo[t], NEW x, x = todo[t][j] PROVE Choice(x)'
  <2>1. Statement(x) /\ Choice(x)
    BY <1>5 DEF ChoicesMade, TypeOK
  <2> QED  BY <2>1, ChoiceKeeps
<1>6. ASSUME NEW t \in Slots, NEW i \in DOMAIN todo'[t], NEW x, x = todo'[t][i] PROVE Choice(x)'
  BY <1>2, <1>4, <1>5, <1>6 DEF Known
<1>7. ASSUME NEW t \in Slots, NEW i \in DOMAIN todo'[t] PROVE Choice(todo[t][i])'
  BY <1>6, <1>7 DEF Choice
<1> QED  BY <1>7 DEF ChoicesMade

LEMMA CoherentParts == Coherent <=> ViewOK /\ Listing /\ ChoicesMade
  BY DEF Coherent, ViewOK, Listing, ChoicesMade

-----------------------------------------------------------------------------
(* The invariant.                                                          *)

(* What every step keeps, given how it moves.                              *)
LEMMA Together ==
  ASSUME RegistryInv, TypeOK', NEW S \in SUBSET Slots, Moves(S), Ordered(S), ListsMove(S), BindsMove,
         ViewOK', ChoicesMade', SeedInv', Alone'
  PROVE  RegistryInv'
<1>1. Owned' /\ UsedOnce' /\ Referring' /\ Cascading'
  BY OwnedKeeps, UsedKeeps, ReferringKeeps DEF RegistryInv, Ordered
<1>2. Listing'
  BY ListingKeeps, CoherentParts DEF RegistryInv
<1>3. Coherent'
  BY <1>2 DEF Coherent, ViewOK, Listing, ChoicesMade
<1> QED  BY <1>1, <1>3 DEF RegistryInv

LEMMA StartingInv == ASSUME RegistryInv, Starting PROVE RegistryInv'
<1>1. TypeOK' /\ SeedInv'
  BY StartingKeepsType, StartingSeeds DEF RegistryInv
<1>2. Moves({}) /\ Ordered({}) /\ ListsMove({}) /\ BindsMove
  BY StartingMoves, StartingOrdered, StartingLists DEF RegistryInv
<1>3. \A s \in Slots : todo'[s] = << >>
  <2>1. CASE Crash
    BY <2>1 DEF Crash
  <2>2. CASE ~Crash
    BY <2>2 DEF Starting, Backfill, Seed, SeedWorkspace, SeedChat, SeedAgent, Migrate, CopyLink, RemoveLinks,
                MarkMigrated, Boot, Up, Alone, RegistryInv
  <2> QED  BY <2>1, <2>2
<1>4. Alone' /\ ChoicesMade'
  BY <1>3 DEF Alone, ChoicesMade
<1>5. ViewOK'
  <2>1. view' = view \/ view' = Shown
    BY DEF Starting, Backfill, Seed, SeedWorkspace, SeedChat, SeedAgent, Migrate, CopyLink, RemoveLinks,
           MarkMigrated, Crash, window
  <2>2. view' = view \/ (view'.agents = {} /\ Listed' = {})
    BY <2>1, ShownIs DEF Listed
  <2> QED  BY <1>1, <1>2, <2>2, ViewKeeps, CoherentParts DEF RegistryInv
<1> QED  BY <1>1, <1>2, <1>4, <1>5, Together

LEMMA WindowInv == ASSUME RegistryInv, Window PROVE RegistryInv'
<1>1. TypeOK' /\ todo' = todo /\ Up /\ UNCHANGED old
  BY WindowKeepsType, WindowMoves, OthersComeLater DEF RegistryInv
<1>2. Moves({}) /\ Ordered({}) /\ ListsMove({}) /\ BindsMove
  BY <1>1, WindowMoves, SameOrdered, WindowLists, CoherentParts DEF RegistryInv, BindsMove, Binding
<1>3. Alone' /\ SeedInv'
  BY <1>1, <1>2, SeedsKeep DEF RegistryInv, Alone, Up, Boot, old
<1>4. ChoicesMade'
  <2>1. ASSUME NEW t \in Slots, NEW i \in DOMAIN todo[t], NEW x, x = todo[t][i] PROVE Choice(x)'
    <3>1. Statement(x) /\ Choice(x)
      BY <2>1, CoherentParts DEF ChoicesMade, TypeOK, RegistryInv
    <3> QED  BY <1>2, <3>1, ChoiceKeeps
  <2>2. ASSUME NEW t \in Slots, NEW i \in DOMAIN todo'[t] PROVE Choice(todo[t][i])'
    BY <1>1, <2>1, <2>2 DEF Choice
  <2> QED  BY <2>2 DEF ChoicesMade
<1>5. ViewOK'
  <2>1. \/ view' = view
        \/ view'.agents = {} /\ Listed' = {}
        \/ (Refresh \/ Answer) /\ UNCHANGED tables
    <3>1. CASE Switch
      <4>1. PICK w \in Workspaces : view' = [Shown EXCEPT !.ws = w]
        BY <3>1 DEF Switch, RegistryInv, TypeOK
      <4> QED  BY <4>1, ShownIs DEF Listed
    <3>2. CASE Refresh \/ Answer
      BY <3>2 DEF Refresh, Answer
    <3>3. CASE PickDefault \/ CreateWorkspace \/ CreateAgent \/ SetChatAgents
      BY <3>3 DEF PickDefault, CreateWorkspace, CreateAgent, SetChatAgents, window
    <3> QED  BY <3>1, <3>2, <3>3 DEF Window
  <2> QED  BY <1>1, <1>2, <2>1, ViewKeeps, CoherentParts DEF RegistryInv
<1> QED  BY <1>1, <1>2, <1>3, <1>4, <1>5, Together

LEMMA HandlersInv ==
  ASSUME RegistryInv, NEW s \in Slots, Agency(s) \/ Deletion(s) \/ Filing(s) \/ Talk(s)
  PROVE  RegistryInv'
<1>1. TypeOK'
  BY TypeStep DEF RegistryInv, Next
<1>2. Moves({s}) /\ Ordered({s}) /\ ListsMove({s}) /\ BindsMove
  BY HandlersMove, HandlersKeepTodo, HandlersList, HandlersBind DEF RegistryInv
<1>3. Alone' /\ SeedInv'
  <2>1. Up /\ UNCHANGED old
    BY OthersComeLater DEF RegistryInv
  <2> QED  BY <1>2, <2>1, SeedsKeep DEF RegistryInv, Alone, Up, Boot, old
<1>4. ChoicesMade'
  BY <1>2, HandlersChoose, CoherentParts DEF RegistryInv
<1>5. ViewOK'
  BY <1>1, <1>2, HandlersKeepWindow, ViewKeeps, CoherentParts DEF RegistryInv
<1> QED  BY <1>1, <1>2, <1>3, <1>4, <1>5, Together

LEMMA StutterInv == ASSUME RegistryInv, UNCHANGED vars PROVE RegistryInv'
<1>1. /\ ws' = ws /\ chat' = chat /\ said' = said /\ agent' = agent /\ folder' = folder /\ note' = note /\ edits' = edits
      /\ edge' = edge /\ used' = used /\ startup' = startup /\ todo' = todo /\ view' = view /\ asked' = asked
      /\ default' = default /\ loose' = loose /\ late' = late /\ misfiled' = misfiled
  BY DEF vars, tables, owners, content, old, window, history
<1>2. TypeOK' /\ Alone' /\ Cascading' /\ UsedOnce'
  BY <1>1 DEF RegistryInv, TypeOK, Listed, Alone, Up, Boot, Cascading, UsedOnce, Present
<1>3. Owned'
  BY <1>1 DEF RegistryInv, Owned, Present, ChatOwned, AgentOwned, NoteOwned, SaidOwned, EditOwned, EdgeOwned, LedAll
<1>4. SeedInv' /\ Referring'
  BY <1>1 DEF RegistryInv, SeedInv, Boot, Referring, Present, Bound, Filed, LedAll
<1>5. Coherent'
  BY <1>1 DEF RegistryInv, Coherent, Listed, InWs, Of, Present, Local, Binding, Choice
<1> QED  BY <1>2, <1>3, <1>4, <1>5 DEF RegistryInv

LEMMA RegistryStep == RegistryInv /\ [Next]_vars => RegistryInv'
<1> SUFFICES ASSUME RegistryInv, [Next]_vars PROVE RegistryInv'
  OBVIOUS
<1> QED  BY StartingInv, WindowInv, HandlersInv, StutterInv DEF Next

LEMMA NewRows ==
  ASSUME New
  PROVE  /\ TablesOK /\ used = {} /\ Present(chat) = {} /\ Present(agent) = {} /\ Present(note) = {}
  BY DEF New, Empty, TablesOK, Present

LEMMA UsedRows ==
  ASSUME InUse
  PROVE  /\ TablesOK /\ UsedOnce
         /\ Present(chat) = {Main} /\ chat[Main].ws = Default /\ chat[Main].agent \in Seeded \cup {None}
         /\ chat[Main].agents = << >> \/ (chat[Main].agent # None /\ chat[Main].agents = <<chat[Main].agent>>)
         /\ Agents \subseteq used /\ Default \in ws /\ \A a \in Seeded : agent[a] = Default
         /\ \A a \in Agents : agent[a] \in ws
         /\ \A n \in Present(note) : note[n].ws = Default /\ note[n].folder = None
<1>1. PICK w \in Workspaces \ {Default}, f \in Folders, n \in Notes, lead \in Seeded \cup {None} :
        /\ ws = {Default, w} /\ used = ws \cup Agents \cup {Main, f, n}
        /\ agent = [a \in Agents |-> IF a \in Seeded THEN Default ELSE w]
        /\ chat = [Empty(Chats) EXCEPT ![Main] =
                     [ChatRow(Default) EXCEPT !.agent = lead,
                                              !.agents = IF migrated /\ lead # None THEN <<lead>> ELSE << >>]]
        /\ folder = [Empty(Folders) EXCEPT ![f] = Default]
        /\ note = [Empty(Notes) EXCEPT ![n] = [ws |-> Default, folder |-> None]]
  BY DEF InUse
<1>2. PICK list : list = IF migrated /\ lead # None THEN <<lead>> ELSE << >>
  OBVIOUS
<1>3. lead \in Agents \cup {None} /\ list \in Seq(Agents) /\ (list = << >> \/ (lead # None /\ list = <<lead>>))
  <2>1. lead # None => <<lead>> \in Seq(Agents)
    BY RegistryAssumption
  <2> QED  BY <1>2, <2>1, RegistryAssumption
<1>4. PICK row : row = [ChatRow(Default) EXCEPT !.agent = lead, !.agents = list]
  OBVIOUS
<1>5. row \in ChatRows /\ row # None /\ row.ws = Default /\ row.agent = lead /\ row.agents = list
  BY <1>3, <1>4, RegistryAssumption DEF ChatRow, ChatRows
<1>6. chat = [c \in Chats |-> IF c = Main THEN row ELSE None]
  BY <1>1, <1>2, <1>4 DEF Empty
<1>7. PICK nr : nr = [ws |-> Default, folder |-> None]
  OBVIOUS
<1>8. nr \in NoteRows /\ nr # None /\ nr.ws = Default /\ nr.folder = None
  BY <1>7, RegistryAssumption DEF NoteRows
<1>9. note = [x \in Notes |-> IF x = n THEN nr ELSE None]
  BY <1>1, <1>7 DEF Empty
<1>10. folder = [x \in Folders |-> IF x = f THEN Default ELSE None]
  BY <1>1 DEF Empty
<1>11. TablesOK
  <2>1. ws \subseteq Workspaces /\ agent \in [Agents -> Workspaces \cup {None}]
    BY <1>1, RegistryAssumption
  <2>2. chat \in [Chats -> ChatRows \cup {None}]
    BY <1>5, <1>6
  <2>3. folder \in [Folders -> Workspaces \cup {None}]
    BY <1>10, RegistryAssumption
  <2>4. note \in [Notes -> NoteRows \cup {None}]
    BY <1>8, <1>9
  <2> QED  BY <2>1, <2>2, <2>3, <2>4 DEF TablesOK
<1>12. Present(chat) = {Main} /\ Present(note) = {n} /\ Present(agent) \subseteq Agents
  BY <1>1, <1>5, <1>6, <1>8, <1>9, RegistryAssumption DEF Present
<1> QED  BY <1>1, <1>3, <1>5, <1>6, <1>8, <1>9, <1>11, <1>12, RegistryAssumption DEF UsedOnce

LEMMA RegistryInit == Init => RegistryInv
<1> SUFFICES ASSUME Init PROVE RegistryInv
  OBVIOUS
<1>1. /\ said = {} /\ edits = {} /\ edge = {} /\ Boot("backfill") /\ DOMAIN todo = Slots
      /\ \A s \in Slots : todo[s] = << >>
      /\ view = Shown /\ asked = {} /\ default = None /\ loose = {} /\ late = {} /\ misfiled = {}
  BY DEF Init, Boot
<1>2. \A do, first, x : LedAll(do, first, x)
  BY <1>1 DEF LedAll, Led
<1>3. Cascading /\ Alone /\ ChoicesMade /\ TodoOK
  <2>1. \A s \in Slots : IsSeq(todo[s]) /\ DOMAIN todo[s] = {}
    <3>1. IsSeq(<< >>) /\ DOMAIN << >> = {}
      BY DEF IsSeq, Range
    <3> QED  BY <1>1, <3>1
  <2> QED  BY <1>1, <2>1 DEF Cascading, Followed, Alone, ChoicesMade, TodoOK
<1>4. WindowOK /\ Listed = {} /\ view.agents = {}
  BY <1>1, ShownIs DEF WindowOK, Listed
<1>5. ViewOK
  BY <1>4, RegistryAssumption DEF ViewOK
<1>6. ~Boot("seedWorkspace") /\ ~Boot("seedChat") /\ ~Boot("seedAgents")
  BY <1>1 DEF Boot
<1>7. CASE New
  <2>1. UsedOnce /\ Owned /\ Referring /\ Listing
    BY <1>1, <1>7, NewRows DEF UsedOnce, Owned, Referring, Listing
  <2>2. SeedInv
    BY <1>1, <1>6, <1>7, NewRows, RegistryAssumption DEF SeedInv, TablesOK, Present
  <2> QED  BY <1>3, <1>4, <1>5, <1>7, <2>1, <2>2, NewRows, TypeParts, CoherentParts DEF RegistryInv
<1>8. CASE InUse
  <2>1. PICK a : a = chat[Main].agent
    OBVIOUS
  <2>2. /\ TablesOK /\ UsedOnce
        /\ Present(chat) = {Main} /\ chat[Main].ws = Default /\ a \in Seeded \cup {None}
        /\ chat[Main].agents = << >> \/ (a # None /\ chat[Main].agents = <<a>>)
        /\ Agents \subseteq used /\ Default \in ws /\ \A b \in Seeded : agent[b] = Default
        /\ \A b \in Agents : agent[b] \in ws
        /\ \A n \in Present(note) : note[n].ws = Default /\ note[n].folder = None
    BY <1>8, <2>1, UsedRows
  <2>3. Owned
    BY <1>1, <1>2, <2>2 DEF Owned, ChatOwned, AgentOwned, NoteOwned, Present, TablesOK
  <2>4. SeedInv
    BY <1>1, <1>6, <2>2 DEF SeedInv
  <2>5. Bound(Main)
    BY <1>2, <2>1, <2>2 DEF Bound
  <2>6. Referring
    BY <2>2, <2>5 DEF Referring, Filed
  <2>7. Range(<< >>) = {} /\ Range(<<a>>) = {a}
    BY DEF Range
  <2>8. Local(Main)
    BY <2>2, <2>7, RegistryAssumption DEF Local, Of
  <2>9. Listing
    BY <2>2, <2>8 DEF Listing
  <2> QED  BY <1>3, <1>4, <1>5, <2>2, <2>3, <2>4, <2>6, <2>9, TypeParts, CoherentParts DEF RegistryInv
<1> QED  BY <1>7, <1>8 DEF Init

(* What the invariant says.                                                *)
LEMMA InvLeavesNothing == ASSUME RegistryInv PROVE NothingLeft
<1>1. \A c \in Present(chat) : chat[c].ws \notin ws => <<"chat", c>> \in late
  BY DEF RegistryInv, Owned, ChatOwned
<1>2. \A a \in Present(agent) : agent[a] \notin ws => <<"agent", a>> \in late
  BY DEF RegistryInv, Owned, AgentOwned
<1>3. \A n \in Present(note) : note[n].ws \notin ws => <<"note", n>> \in late
  BY DEF RegistryInv, Owned, NoteOwned
<1>4. \A c \in said : chat[c] = None => <<"said", c>> \in late
  BY DEF RegistryInv, Owned, SaidOwned
<1>5. \A n \in edits : note[n] = None => <<"edit", n>> \in late
  BY DEF RegistryInv, Owned, EditOwned
<1>6. \A e \in edge : e.ws # None /\ e.ws \notin ws => <<"edge", e.from>> \in late
  BY DEF RegistryInv, Owned, EdgeOwned
<1>7. \A f \in Present(folder) : <<"folder", f>> \in Undeleted
  BY DEF RegistryInv, TypeOK, TablesOK, Present, Undeleted
<1>8. \A e \in edge : e.from \in Chats => <<"chatEdge", e.from>> \in Undeleted
  BY DEF Undeleted
<1> QED  BY <1>1, <1>2, <1>3, <1>4, <1>5, <1>6, <1>7, <1>8 DEF NothingLeft, Orphans

LEMMA InvReferencesLive == ASSUME RegistryInv PROVE ReferencesLive
<1>1. ASSUME NEW c \in Dangling PROVE c \in loose
  <2> PICK a : a = chat[c].agent
    OBVIOUS
  <2>1. c \in Present(chat) /\ c \in Chats /\ chat[c] \in ChatRows /\ a # None /\ agent[a] = None
    BY DEF Dangling, Present, RegistryInv, TypeOK
  <2>2. chat[c].ws # None
    BY <2>1, RegistryAssumption DEF ChatRows
  <2> QED  BY <2>1, <2>2 DEF RegistryInv, Referring, Bound
<1>2. ASSUME NEW n \in Lost PROVE n \in misfiled
  BY DEF Lost, RegistryInv, Referring, Filed
<1> QED  BY <1>1, <1>2 DEF ReferencesLive, AgentsLive, FoldersLive

LEMMA InvSeedFits == ASSUME RegistryInv PROVE SeedFits
  BY DEF RegistryInv, SeedInv, SeedFits

LEMMA InvSpeakers == ASSUME RegistryInv PROVE SpeakersAreMembers
<1> SUFFICES ASSUME NEW s \in Slots, At(s, "speak"), chat[Arg(s)] # None, Speaker(s) # None, Arg(s) \notin loose
             PROVE  agent[Speaker(s)] = chat[Arg(s)].ws
  BY DEF SpeakersAreMembers
<1>1. PICK c, m, chosen, w : c = Arg(s) /\ m = Arg2(s)[1] /\ chosen = Arg2(s)[2] /\ w = chat[c].ws
  OBVIOUS
<1>2. c \in Chats /\ c \in Present(chat) /\ c \notin loose
  BY <1>1, ArgIs DEF RegistryInv, TypeOK, Present
<1>3. CASE Named(c, m)
  <2>1. m \in Range(chat[c].agents) /\ agent[m] # None
    BY <1>2, <1>3 DEF Named, ListOf, Present
  <2>2. Of(m, w)
    BY <1>1, <1>2, <2>1, CoherentParts DEF RegistryInv, Listing, Local
  <2>3. Speaker(s) = m
    BY <1>1, <1>3 DEF Speaker
  <2> QED  BY <1>1, <2>1, <2>2, <2>3 DEF Of
<1>4. CASE ~Named(c, m) /\ chosen # None
  <2>1. Speaker(s) = Alive(chosen)
    BY <1>1, <1>4 DEF Speaker
  <2>2. Speaker(s) = chosen /\ agent[chosen] # None
    BY <2>1 DEF Alive
  <2>3. Choice(Head(todo[s]))
    BY FirstIs, CoherentParts DEF RegistryInv, ChoicesMade, At
  <2>4. \E v \in Workspaces : InWs(c, v) /\ Of(chosen, v)
    BY <1>1, <1>4, <2>3 DEF Choice, At, Arg, Arg2
  <2> QED  BY <1>1, <1>2, <2>2, <2>4 DEF InWs, Of, Present
<1>5. CASE ~Named(c, m) /\ chosen = None
  <2>1. PICK a : a = chat[c].agent
    OBVIOUS
  <2>2. Speaker(s) = Alive(a)
    BY <1>1, <1>5, <2>1 DEF Speaker
  <2>3. Speaker(s) = a /\ a # None
    BY <2>2 DEF Alive
  <2>4. Bound(c)
    BY <1>2 DEF RegistryInv, Referring
  <2> QED  BY <1>1, <2>1, <2>3, <2>4 DEF Bound
<1> QED  BY <1>3, <1>4, <1>5

-----------------------------------------------------------------------------
(* The invariant holds in every state, after every crash and however the   *)
(* handlers interleave.                                                    *)
THEOREM RegistryHolds == Spec => []RegistryInv
  BY RegistryInit, RegistryStep, PTL DEF Spec

(* The tables, what handlers have left and the window are of their types.  *)
THEOREM TypeCorrect == Spec => []TypeOK
<1>1. RegistryInv => TypeOK
  BY DEF RegistryInv
<1> QED  BY <1>1, RegistryHolds, PTL

(* But for the folders of a workspace and the edges of a chat, which no    *)
(* statement deletes, what remains of a workspace or a chat that was       *)
(* deleted was written by a handler under way (db.rs delete_workspace,     *)
(* delete_chat): a cascade that a crash cuts leaves the workspace, and     *)
(* with it the owner of the rest.                                          *)
THEOREM NoOrphans == Spec => []NothingLeft
<1>1. RegistryInv => NothingLeft
  BY InvLeavesNothing
<1> QED  BY <1>1, RegistryHolds, PTL

(* A chat names no agent that is gone, and a note no folder, but for what  *)
(* was bound or moved to something gone, going or foreign (delete_agent    *)
(* and delete_folder take the references away first).                      *)
THEOREM NoDangling == Spec => []ReferencesLive
<1>1. RegistryInv => ReferencesLive
  BY InvReferencesLive
<1> QED  BY <1>1, RegistryHolds, PTL

(* seed_defaults never creates a row that is there, so open() never ends   *)
(* in an error, whatever was cut or deleted before.                        *)
THEOREM StartCanSeed == Spec => []SeedFits
<1>1. RegistryInv => SeedFits
  BY InvSeedFits
<1> QED  BY <1>1, RegistryHolds, PTL

(* Who answers is of the chat's own workspace, unless the chat was bound   *)
(* elsewhere (resolve_mentioned_agent_id), however late the turn comes to  *)
(* choose after the window made its list.                                  *)
THEOREM MembersSpeak == Spec => []SpeakersAreMembers
<1>1. RegistryInv => SpeakersAreMembers
  BY InvSpeakers
<1> QED  BY <1>1, RegistryHolds, PTL

-----------------------------------------------------------------------------
(* The edges of the notes: the state with one operation at a time.         *)

(* What an operation has in hand.                                          *)
OpRecords ==
  [pc : Stages \cup {"idle"}, kind : Kinds \cup {Nil}, title : Titles \cup {Nil}, to : Titles \cup {Nil},
   body : SUBSET Pieces, id : Ids \cup {0}, todo : SUBSET Titles, ids : SUBSET Ids, stale : SUBSET Ids,
   after : {"resolve", "end", Nil}]

VaultTyped ==
  /\ notes \in [Ids -> NoteRecords \cup {Nil}]
  /\ next \in Nat \ {0} /\ Rows \subseteq 1..(next - 1)
  /\ op \in [Ops -> OpRecords]

OneTitle == \A x, y \in Rows : notes[x].title = notes[y].title => x = y

(* Edges go from one note to another one.                                  *)
WellEnded == \A e \in edges : e \in Rows \X Rows /\ e[1] # e[2]

(* Every title linked to has a note, and the edges of a note are the links *)
(* of a body.                                                              *)
LinksLive(S)      == \A t \in S : Find(t) # {}
FoundBy(S)        == UNION {Find(t) : t \in S}
Follows(x, body)  == Mentions(x) = FoundBy(TitlesIn(body)) \ {x} /\ LinksLive(TitlesIn(body))
Settled(x)        == Follows(x, notes[x].body)
Calm(except)      == Whole => \A x \in Rows \ (except \cup strayed) : Settled(x)

LinksIn(r) == TitlesIn(r.body) \ {r.title}

(* The note whose body was written, and whose links are replayed; all      *)
(* others are at rest.                                                     *)
Syncing(r) ==
  /\ r.id \in Rows /\ notes[r.id].title = r.title /\ notes[r.id].body = r.body
  /\ Calm({r.id})

ToWrite(r)  == Calm({}) /\ r.ids = {} /\ IF r.kind = "create" THEN Find(r.title) = {} ELSE r.id \in Find(r.title)
Ensuring(r) ==
  \/ r.after = "end" /\ Calm({})
  \/ r.after = "resolve" /\ Syncing(r) /\ r.ids = {} /\ LinksLive(LinksIn(r) \ r.todo)
Resolving(r) ==
  /\ Syncing(r) /\ LinksLive(LinksIn(r))
  /\ r.pc = "resolve" => r.todo \subseteq LinksIn(r) /\ r.ids = FoundBy(LinksIn(r) \ r.todo)
  /\ r.pc = "diff" => r.ids = FoundBy(LinksIn(r))
  /\ r.pc \in {"drop", "link"} => (Mentions(r.id) \ r.stale) \cup r.ids = FoundBy(LinksIn(r))
  /\ r.pc = "link" => r.stale = {}
Renamed(r) ==
  /\ r.id \in Find(r.to)
  /\ Whole => \A x \in Rows \ strayed : Spaced(r.title) \notin notes[x].body
                 => Follows(x, Relinked(notes[x].body, r.title, r.to))

AtStage(r) ==
  /\ r.title \in Titles /\ r.kind \in Kinds
  /\ r.kind = "rename" => r.to \in Titles \ {r.title}
  /\ r.pc \in {"check", "find", "match"} => Calm({}) /\ r.ids = {}
  /\ r.pc = "write" => ToWrite(r)
  /\ r.pc \in {"ensure", "stub"} => Ensuring(r)
  /\ r.pc = "stub" => r.todo # {} /\ Find(First(r.todo)) = {}
  /\ r.pc \in {"resolve", "diff", "drop", "link"} => Resolving(r)
  /\ r.pc = "retitle" => r.kind = "rename" /\ r.id \in Find(r.title) /\ Calm({})
  /\ r.pc = "rewrite" => r.kind = "rename" /\ Renamed(r)
  /\ r.pc = "unlink" => r.id \in Rows
  /\ r.pc = "erase" => r.id \in Rows /\ Touching(r.id) = {}

(* Of the state with one operation, or none.                               *)
Sequential ==
  /\ VaultTyped /\ OneTitle /\ WellEnded
  /\ \A o1, o2 \in Running : o1 = o2
  /\ \A o \in Running : \A r \in OpRecords : op[o] = r => AtStage(r)
  /\ Running = {} => Calm({})

(* What the embedding loop has in hand was read from rows.                 *)
Readings == [id : Ids, text : Documents]
VaultInv == ~disturbed => Sequential /\ batch \subseteq Readings

LEMMA TitlesType == \A body : TitlesIn(body) \in SUBSET Titles /\ TitlesIn({}) = {}
  BY DEF TitlesIn

(* What a rename does to the links of a body, where it finds them.         *)
LEMMA RelinkedTitles ==
  ASSUME NEW b \in SUBSET Pieces, NEW was \in Titles, NEW new \in Titles,
         Spaced(was) \notin b, new \notin TitlesIn(b)
  PROVE  TitlesIn(Relinked(b, was, new)) =
           IF was \in TitlesIn(b) THEN (TitlesIn(b) \ {was}) \cup {new} ELSE TitlesIn(b)
<1>1. was \in TitlesIn(b) <=> was \in b
  BY DEF TitlesIn
<1>2. CASE was \in b
  <2>1. PICK c : c = (b \ {was}) \cup {new}
    OBVIOUS
  <2>2. \A t \in Titles : Spaced(t) # was /\ Spaced(t) # new
    BY VaultAssumption
  <2>3. \A t \in Titles : Spaced(t) \in c <=> Spaced(t) \in b
    BY <2>1, <2>2
  <2>4. \A t \in Titles : t \in c <=> t = new \/ (t # was /\ t \in b)
    BY <2>1
  <2>5. TitlesIn(c) = (TitlesIn(b) \ {was}) \cup {new}
    BY <2>3, <2>4 DEF TitlesIn
  <2>. QED
    BY <1>1, <1>2, <2>1, <2>5 DEF Relinked
<1>3. CASE was \notin b
  BY <1>1, <1>3 DEF Relinked
<1>. QED
  BY <1>2, <1>3

LEMMA IdsType == Ids \subseteq Nat \ {0} /\ \A n \in Nat \ {0} : n <= MaxNotes => n \in Ids
  BY VaultAssumption DEF Ids

(* As long as notes and edges stay, so does what is said of them.          *)
LEMMA SameNotes ==
  ASSUME UNCHANGED <<notes, edges, next, strayed>>
  PROVE  /\ OneTitle' = OneTitle /\ WellEnded' = WellEnded /\ Rows' = Rows
         /\ \A S : Calm(S)' = Calm(S)
         /\ \A r : AtStage(r)' = AtStage(r)
<1>1. Rows' = Rows /\ Whole' = Whole
  BY DEF Rows, Whole
<1>2. \A t : Find(t)' = Find(t)
  BY <1>1 DEF Find
<1>3. \A x : Mentions(x)' = Mentions(x) /\ Touching(x)' = Touching(x)
  BY DEF Mentions, Touching
<1>4. \A S : FoundBy(S)' = FoundBy(S) /\ LinksLive(S)' = LinksLive(S)
  BY <1>2 DEF FoundBy, LinksLive
<1>5. \A x, b : Follows(x, b)' = Follows(x, b)
  BY <1>3, <1>4 DEF Follows
<1>6. \A x : Settled(x)' = Settled(x)
  BY <1>5 DEF Settled
<1>7. \A S : Calm(S)' = Calm(S)
  BY <1>1, <1>6 DEF Calm
<1>8. \A r : Syncing(r)' = Syncing(r)
  BY <1>1, <1>7 DEF Syncing
<1>9. \A r : ToWrite(r)' = ToWrite(r)
  BY <1>2, <1>7 DEF ToWrite
<1>10. \A r : Ensuring(r)' = Ensuring(r)
  BY <1>4, <1>7, <1>8 DEF Ensuring, LinksIn
<1>11. \A r : Resolving(r)' = Resolving(r)
  BY <1>3, <1>4, <1>8 DEF Resolving, LinksIn
<1>12. \A r : Renamed(r)' = Renamed(r)
  BY <1>1, <1>2, <1>5 DEF Renamed, Relinked
<1>13. \A r : AtStage(r)' = AtStage(r)
  BY <1>1, <1>2, <1>3, <1>7, <1>9, <1>10, <1>11, <1>12 DEF AtStage, First
<1>14. OneTitle' = OneTitle /\ WellEnded' = WellEnded
  BY <1>1 DEF OneTitle, WellEnded
<1>. QED
  BY <1>1, <1>7, <1>13, <1>14

(* The embedding loop only writes vectors and times.                       *)
LEMMA SameTexts ==
  ASSUME Sequential, NEW id \in Ids, NEW row, NEW text \in Documents,
         row = [notes[id] EXCEPT !.vector = text, !.behind = FALSE], Edit(id, row),
         UNCHANGED <<edges, next, op, strayed>>
  PROVE  Sequential'
<1> DEFINE Same(n) == IF notes[n] = Nil THEN notes'[n] = Nil
                      ELSE notes'[n] \in NoteRecords /\ notes'[n].title = notes[n].title /\ notes'[n].body = notes[n].body
<1>1. notes' \in [Ids -> NoteRecords \cup {Nil}] /\ \A n \in Ids : Same(n)
  <2>1. CASE notes[id] = Nil
    <3>1. notes' = notes
      BY <2>1 DEF Edit, Sequential, VaultTyped
    <3>. QED
      BY <3>1 DEF Sequential, VaultTyped
  <2>2. CASE notes[id] # Nil
    <3>1. notes[id] \in NoteRecords
      BY <2>2 DEF Sequential, VaultTyped
    <3>2. row \in NoteRecords /\ row.title = notes[id].title /\ row.body = notes[id].body
      <4>1. PICK one : one = [notes[id] EXCEPT !.vector = text]
        OBVIOUS
      <4>2. one \in NoteRecords /\ one.title = notes[id].title /\ one.body = notes[id].body
        BY <3>1, <4>1 DEF NoteRecords
      <4>3. row = [one EXCEPT !.behind = FALSE]
        BY <4>1
      <4>. QED
        BY <4>2, <4>3 DEF NoteRecords
    <3>3. notes' = [notes EXCEPT ![id] = row]
      BY <2>2 DEF Edit, Sequential, VaultTyped
    <3>4. /\ notes' \in [Ids -> NoteRecords \cup {Nil}] /\ notes'[id] = row
          /\ \A n \in Ids \ {id} : notes'[n] = notes[n] /\ notes[n] \in NoteRecords \cup {Nil}
      BY <3>2, <3>3 DEF Sequential, VaultTyped
    <3>. QED
      BY <2>2, <3>2, <3>4
  <2>. QED
    BY <2>1, <2>2
<1>2. Rows' = Rows /\ \A n \in Rows : n \in Ids /\ notes'[n].title = notes[n].title /\ notes'[n].body = notes[n].body
  BY <1>1, VaultAssumption DEF Rows
<1> HIDE DEF Same
<1>3. Whole' = Whole /\ \A t : Find(t)' = Find(t)
  BY <1>2 DEF Find, Whole
<1>4. \A x : Mentions(x)' = Mentions(x) /\ Touching(x)' = Touching(x)
  BY DEF Mentions, Touching
<1>5. \A S : FoundBy(S)' = FoundBy(S) /\ LinksLive(S)' = LinksLive(S)
  BY <1>3 DEF FoundBy, LinksLive
<1>6. \A x, b : Follows(x, b)' = Follows(x, b)
  BY <1>4, <1>5 DEF Follows
<1>7. \A x \in Rows : Settled(x)' = Settled(x)
  BY <1>2, <1>6 DEF Settled
<1>8. \A S : Calm(S)' = Calm(S)
  BY <1>2, <1>3, <1>7 DEF Calm
<1>9. \A r : Syncing(r)' = Syncing(r)
  BY <1>2, <1>8 DEF Syncing
<1>10. \A r : ToWrite(r)' = ToWrite(r)
  BY <1>3, <1>8 DEF ToWrite
<1>11. \A r : Ensuring(r)' = Ensuring(r)
  BY <1>5, <1>8, <1>9 DEF Ensuring, LinksIn
<1>12. \A r : Resolving(r)' = Resolving(r)
  BY <1>4, <1>5, <1>9 DEF Resolving, LinksIn
<1>13. \A r : Renamed(r)' = Renamed(r)
  BY <1>2, <1>3, <1>6 DEF Renamed, Relinked
<1>14. \A r : AtStage(r)' = AtStage(r)
  BY <1>2, <1>3, <1>4, <1>8, <1>10, <1>11, <1>12, <1>13 DEF AtStage, First
<1>15. OneTitle' /\ WellEnded'
  BY <1>2 DEF Sequential, OneTitle, WellEnded
<1>16. VaultTyped'
  BY <1>1, <1>2 DEF Sequential, VaultTyped
<1>17. Running' = Running
  BY DEF Running
<1>. QED
  BY <1>8, <1>14, <1>15, <1>16, <1>17 DEF Sequential

(* A step of the one operation.                                            *)
LEMMA StepKeeps ==
  ASSUME Sequential, NEW o \in Ops, Running \subseteq {o},
         NEW r \in OpRecords, op' = [op EXCEPT ![o] = r],
         notes' \in [Ids -> NoteRecords \cup {Nil}], next' \in Nat \ {0}, Rows' \subseteq 1..(next' - 1),
         OneTitle', WellEnded',
         IF r.pc = "idle" THEN Calm({})' ELSE AtStage(r)'
  PROVE  Sequential'
<1>1. op' \in [Ops -> OpRecords] /\ op'[o] = r /\ \A p \in Ops \ {o} : op'[p] = op[p]
  BY DEF Sequential, VaultTyped
<1>2. Running' \subseteq {o} /\ (o \in Running' <=> r.pc \in Stages)
  BY <1>1 DEF Running
<1>3. r.pc \in Stages \cup {"idle"} /\ "idle" \notin Stages
  BY DEF OpRecords, Stages
<1>4. VaultTyped'
  BY <1>1 DEF VaultTyped
<1>5. \A p \in Running' : \A q \in OpRecords : op'[p] = q => AtStage(q)'
  BY <1>1, <1>2, <1>3
<1>6. Running' = {} => Calm({})'
  BY <1>2, <1>3
<1>. QED
  BY <1>2, <1>4, <1>5, <1>6 DEF Sequential

(* ... that writes nothing.                                                *)
LEMMA QuietStepKeeps ==
  ASSUME Sequential, NEW o \in Ops, Running \subseteq {o}, UNCHANGED <<notes, edges, next, strayed>>,
         NEW r \in OpRecords, op' = [op EXCEPT ![o] = r],
         IF r.pc = "idle" THEN Calm({}) ELSE AtStage(r)
  PROVE  Sequential'
<1>1. /\ notes' \in [Ids -> NoteRecords \cup {Nil}] /\ next' \in Nat \ {0} /\ Rows' \subseteq 1..(next' - 1)
      /\ OneTitle' /\ WellEnded'
  BY SameNotes DEF Sequential, VaultTyped
<1>2. IF r.pc = "idle" THEN Calm({})' ELSE AtStage(r)'
  BY SameNotes
<1>. QED
  BY <1>1, <1>2, StepKeeps

LEMMA IdleType == Idle \in OpRecords /\ Idle.pc = "idle"
  BY DEF Idle, OpRecords

LEMMA RunsAlone ==
  ASSUME Sequential, NEW o \in Ops, op[o].pc \in Stages
  PROVE  /\ Running \subseteq {o} /\ op[o] \in OpRecords /\ AtStage(op[o])
         /\ op[o].title \in Titles /\ op[o].kind \in Kinds /\ op[o].body \in SUBSET Pieces
<1>1. o \in Running
  BY DEF Running
<1>2. op[o] \in OpRecords
  BY DEF Sequential, VaultTyped
<1>3. AtStage(op[o])
  BY <1>1, <1>2 DEF Sequential
<1>. QED
  BY <1>1, <1>2, <1>3 DEF Sequential, AtStage, OpRecords

(* An operation begins when no other one is under way.                     *)
LEMMA InvokeKeeps ==
  ASSUME Sequential, NEW o \in Ops, Invoke(o), ~disturbed'
  PROVE  Sequential'
<1>1. Running = {} /\ Calm({}) /\ UNCHANGED <<notes, edges, next, strayed>>
  BY DEF Invoke, Sequential
<1>2. ASSUME NEW pc \in {"find", "check", "match"}, NEW kind \in Kinds, NEW t \in Titles, NEW to \in Titles \cup {Nil},
             NEW body \in SUBSET Pieces, kind = "rename" => to \in Titles \ {t},
             Start(o, pc, kind, t, to, body)
      PROVE  Sequential'
  <2>1. PICK r : r = [Idle EXCEPT !.pc = pc, !.kind = kind, !.title = t, !.to = to, !.body = body]
    OBVIOUS
  <2>2. op' = [op EXCEPT ![o] = r]
    BY <1>2, <2>1 DEF Start
  <2>3. /\ r \in OpRecords /\ r.pc = pc /\ r.kind = kind /\ r.title = t /\ r.to = to /\ r.ids = {}
    <3>1. PICK i : i = [[Idle EXCEPT !.pc = pc] EXCEPT !.kind = kind]
      OBVIOUS
    <3>2. i \in OpRecords /\ i.pc = pc /\ i.kind = kind /\ i.ids = {}
      BY <3>1, IdleType DEF OpRecords, Stages, Idle
    <3>3. r = [[[i EXCEPT !.title = t] EXCEPT !.to = to] EXCEPT !.body = body]
      BY <2>1, <3>1
    <3>. QED
      BY <3>2, <3>3 DEF OpRecords
  <2>4. AtStage(r)
    BY <1>1, <1>2, <2>3 DEF AtStage
  <2>. QED
    BY <1>1, <2>2, <2>3, <2>4, QuietStepKeeps
<1>3. PICK t \in Titles :
        \/ \E kind \in {"create", "save"}, body \in Bodies : Start(o, "find", kind, t, Nil, body)
        \/ Start(o, "find", "delete", t, Nil, {})
        \/ o \in Users /\ \E to \in Titles \ {t} : Start(o, "check", "rename", t, to, {})
        \/ o \in Turns /\ \E piece \in Added : Start(o, "find", "append", t, Nil, {piece})
        \/ o \in Turns /\ \E was \in Titles, new \in Added : Start(o, "match", "edit", t, was, {new})
  BY DEF Invoke
<1>4. ASSUME NEW kind \in {"create", "save"}, NEW body \in Bodies, Start(o, "find", kind, t, Nil, body)
      PROVE  Sequential'
  <2>1. body \in SUBSET Pieces /\ kind \in Kinds /\ kind # "rename"
    BY VaultAssumption DEF Kinds
  <2>. QED
    BY <1>2, <1>4, <2>1
<1>5. CASE Start(o, "find", "delete", t, Nil, {})
  <2>1. {} \in SUBSET Pieces /\ "delete" \in Kinds /\ Nil \in Titles \cup {Nil}
    BY DEF Kinds
  <2>. QED
    BY <1>2, <1>5, <2>1
<1>6. ASSUME NEW to \in Titles \ {t}, Start(o, "check", "rename", t, to, {})
      PROVE  Sequential'
  BY <1>2, <1>6 DEF Kinds
<1>7. ASSUME NEW piece \in Added, Start(o, "find", "append", t, Nil, {piece})
      PROVE  Sequential'
  <2>1. {piece} \in SUBSET Pieces /\ "append" \in Kinds
    BY VaultAssumption DEF Kinds
  <2>. QED
    BY <1>2, <1>7, <2>1
<1>8. ASSUME NEW was \in Titles, NEW new \in Added, Start(o, "match", "edit", t, was, {new})
      PROVE  Sequential'
  <2>1. {new} \in SUBSET Pieces /\ "edit" \in Kinds
    BY VaultAssumption DEF Kinds
  <2>. QED
    BY <1>2, <1>8, <2>1
<1>. QED
  BY <1>3, <1>4, <1>5, <1>6, <1>7, <1>8

LEMMA MatchKeeps ==
  ASSUME Sequential, NEW o \in Ops, Match(o)
  PROVE  Sequential'
<1>1. PICK q : q = op[o]
  OBVIOUS
<1>2. /\ q.pc = "match" /\ Running \subseteq {o} /\ q \in OpRecords /\ AtStage(q) /\ q.pc \in Stages
      /\ UNCHANGED <<notes, edges, next, strayed>>
  BY <1>1, RunsAlone DEF Match, Stages, spent
<1>3. Calm({}) /\ q.ids = {}
  BY <1>2 DEF AtStage
<1>4. CASE Finish(o)
  BY <1>2, <1>3, <1>4, IdleType, QuietStepKeeps DEF Finish
<1>5. ASSUME NEW id \in Find(q.title),
             op' = [op EXCEPT ![o].pc = "find", ![o].body = (notes[id].body \ {q.to}) \cup @]
      PROVE  Sequential'
  <2>1. PICK body : body = (notes[id].body \ {q.to}) \cup q.body
    OBVIOUS
  <2>2. PICK r : r = [[q EXCEPT !.pc = "find"] EXCEPT !.body = body]
    OBVIOUS
  <2>3. op' = [op EXCEPT ![o] = r]
    BY <1>1, <1>5, <2>1, <2>2 DEF Sequential, VaultTyped
  <2>4. notes[id] \in NoteRecords
    BY <1>5 DEF Find, Rows, Sequential, VaultTyped
  <2>5. body \in SUBSET Pieces
    BY <1>2, <2>1, <2>4 DEF NoteRecords, OpRecords
  <2>6. r \in OpRecords /\ r.pc = "find" /\ r.title = q.title /\ r.kind = q.kind /\ r.to = q.to /\ r.ids = q.ids
    BY <1>2, <2>2, <2>5 DEF OpRecords, Stages
  <2>7. AtStage(r)
    BY <1>2, <1>3, <2>6 DEF AtStage
  <2>. QED
    BY <1>2, <2>3, <2>6, <2>7, QuietStepKeeps
<1>. QED
  BY <1>1, <1>4, <1>5 DEF Match

LEMMA CheckKeeps ==
  ASSUME Sequential, NEW o \in Ops, Check(o)
  PROVE  Sequential'
<1>1. PICK q : q = op[o]
  OBVIOUS
<1>2. /\ q.pc = "check" /\ Running \subseteq {o} /\ q \in OpRecords /\ AtStage(q) /\ q.pc \in Stages
      /\ UNCHANGED <<notes, edges, next, strayed>>
  BY <1>1, RunsAlone DEF Check, Stages, spent
<1>3. Calm({}) /\ q.ids = {}
  BY <1>2 DEF AtStage
<1>4. CASE Finish(o)
  BY <1>2, <1>3, <1>4, IdleType, QuietStepKeeps DEF Finish
<1>5. CASE Goto(o, "find")
  <2>1. PICK r : r = [q EXCEPT !.pc = "find"]
    OBVIOUS
  <2>2. op' = [op EXCEPT ![o] = r]
    BY <1>1, <1>5, <2>1 DEF Goto, Sequential, VaultTyped
  <2>3. r \in OpRecords /\ r.pc = "find" /\ r.title = q.title /\ r.kind = q.kind /\ r.to = q.to /\ r.ids = q.ids
    BY <1>2, <2>1 DEF OpRecords, Stages
  <2>4. AtStage(r)
    BY <1>2, <1>3, <2>3 DEF AtStage
  <2>. QED
    BY <1>2, <2>2, <2>3, <2>4, QuietStepKeeps
<1>. QED
  BY <1>1, <1>4, <1>5 DEF Check

(* The end of an operation, with or without looking after stubs once more. *)
LEMMA EndKeeps ==
  ASSUME Sequential, NEW o \in Ops, op[o].pc \in Stages, NEW ensure \in BOOLEAN, End(o, ensure), Calm({}),
         UNCHANGED <<notes, edges, next, strayed>>
  PROVE  Sequential'
<1>1. PICK q : q = op[o]
  OBVIOUS
<1>2. /\ Running \subseteq {o} /\ q \in OpRecords /\ AtStage(q)
  BY <1>1, RunsAlone
<1>3. CASE ensure /\ o \in Users
  <2>1. PICK r : r = [[[q EXCEPT !.pc = "ensure"] EXCEPT !.after = "end"] EXCEPT !.todo = Again(o)]
    OBVIOUS
  <2>2. op' = [op EXCEPT ![o] = r]
    BY <1>1, <1>3, <2>1 DEF End, Sequential, VaultTyped
  <2>3. Again(o) \in SUBSET Titles
    BY TitlesType DEF Again, LinksOf
  <2>4. r \in OpRecords /\ r.pc = "ensure" /\ r.after = "end" /\ r.title = q.title /\ r.kind = q.kind /\ r.to = q.to
    BY <1>2, <2>1, <2>3 DEF OpRecords, Stages
  <2>5. AtStage(r)
    BY <1>2, <2>4 DEF AtStage, Ensuring
  <2>. QED
    BY <1>2, <2>2, <2>4, <2>5, QuietStepKeeps
<1>4. CASE ~(ensure /\ o \in Users)
  <2>1. op' = [op EXCEPT ![o] = Idle]
    BY <1>4 DEF End
  <2>. QED
    BY <1>2, <2>1, IdleType, QuietStepKeeps
<1>. QED
  BY <1>3, <1>4

LEMMA LookupKeeps ==
  ASSUME Sequential, NEW o \in Ops, Lookup(o)
  PROVE  Sequential'
<1>1. PICK q : q = op[o]
  OBVIOUS
<1>2. /\ q.pc = "find" /\ Running \subseteq {o} /\ q \in OpRecords /\ AtStage(q) /\ q.pc \in Stages
      /\ UNCHANGED <<notes, edges, next, strayed>>
  BY <1>1, RunsAlone DEF Lookup, Stages, spent
<1>3. Calm({}) /\ q.ids = {}
  BY <1>2 DEF AtStage
<1>4. ASSUME q.kind = "create", Find(q.title) = {}, Goto(o, "write")
      PROVE  Sequential'
  <2>1. PICK r : r = [q EXCEPT !.pc = "write"]
    OBVIOUS
  <2>2. op' = [op EXCEPT ![o] = r]
    BY <1>1, <1>4, <2>1 DEF Goto, Sequential, VaultTyped
  <2>3. r \in OpRecords /\ r.pc = "write" /\ r.title = q.title /\ r.kind = q.kind /\ r.to = q.to /\ r.ids = q.ids
    BY <1>2, <2>1 DEF OpRecords, Stages
  <2>4. AtStage(r)
    BY <1>2, <1>3, <1>4, <2>3 DEF AtStage, ToWrite
  <2>. QED
    BY <1>2, <2>2, <2>3, <2>4, QuietStepKeeps
<1>5. ASSUME q.kind # "create", NEW id \in Find(q.title), NEW pc,
             pc = CASE q.kind = "delete" -> "unlink" [] q.kind = "rename" -> "retitle" [] OTHER -> "write",
             op' = [op EXCEPT ![o].pc = pc, ![o].id = id,
                              ![o].body = IF q.kind = "append" THEN Appended(@, id) ELSE @]
      PROVE  Sequential'
  <2>1. PICK body : body = IF q.kind = "append" THEN Appended(q.body, id) ELSE q.body
    OBVIOUS
  <2>2. PICK r : r = [[[q EXCEPT !.pc = pc] EXCEPT !.id = id] EXCEPT !.body = body]
    OBVIOUS
  <2>3. op' = [op EXCEPT ![o] = r]
    BY <1>1, <1>5, <2>1, <2>2 DEF Sequential, VaultTyped
  <2>4. notes[id] \in NoteRecords /\ id \in Rows /\ id \in Ids
    BY <1>5 DEF Find, Rows, Sequential, VaultTyped
  <2>5. body \in SUBSET Pieces
    BY <1>2, <2>1, <2>4 DEF NoteRecords, OpRecords, Appended
  <2>6. /\ pc \in {"unlink", "retitle", "write"} /\ (pc = "retitle" => q.kind = "rename")
    BY <1>5
  <2>7. r \in OpRecords /\ r.pc = pc /\ r.title = q.title /\ r.kind = q.kind /\ r.to = q.to /\ r.ids = q.ids /\ r.id = id
    BY <1>2, <2>2, <2>4, <2>5, <2>6 DEF OpRecords, Stages
  <2>8. AtStage(r)
    BY <1>2, <1>3, <1>5, <2>4, <2>6, <2>7 DEF AtStage, ToWrite
  <2>. QED
    BY <1>2, <2>3, <2>6, <2>7, <2>8, QuietStepKeeps
<1>6. CASE End(o, q.kind = "create")
  BY <1>1, <1>2, <1>3, <1>6, EndKeeps
<1>. QED
  BY <1>1, <1>4, <1>5, <1>6 DEF Lookup

(* Titles are looked after one by one; then the links are resolved.        *)
LEMMA EnsureKeeps ==
  ASSUME Sequential, NEW o \in Ops, EnsureNext(o)
  PROVE  Sequential'
<1>1. PICK q : q = op[o]
  OBVIOUS
<1>2. /\ q.pc = "ensure" /\ Running \subseteq {o} /\ q \in OpRecords /\ AtStage(q) /\ q.pc \in Stages
      /\ UNCHANGED <<notes, edges, next, strayed>>
  BY <1>1, RunsAlone DEF EnsureNext, Stages, spent
<1>3. Ensuring(q)
  BY <1>2 DEF AtStage
<1>4. LinksOf(o) = LinksIn(q)
  BY <1>1 DEF LinksOf, LinksIn
<1>5. ASSUME q.todo = {}, q.after = "resolve",
             op' = [op EXCEPT ![o] = [@ EXCEPT !.pc = "resolve", !.todo = LinksOf(o)]]
      PROVE  Sequential'
  <2>1. PICK r : r = [[q EXCEPT !.pc = "resolve"] EXCEPT !.todo = LinksIn(q)]
    OBVIOUS
  <2>2. op' = [op EXCEPT ![o] = r]
    BY <1>1, <1>4, <1>5, <2>1 DEF Sequential, VaultTyped
  <2>3. LinksIn(q) \in SUBSET Titles
    BY TitlesType DEF LinksIn
  <2>4. /\ r \in OpRecords /\ r.pc = "resolve" /\ r.title = q.title /\ r.kind = q.kind /\ r.to = q.to
        /\ r.body = q.body /\ r.id = q.id /\ r.todo = LinksIn(q) /\ r.ids = q.ids
    BY <1>2, <2>1, <2>3 DEF OpRecords, Stages
  <2>5. Syncing(q) /\ q.ids = {} /\ LinksLive(LinksIn(q))
    <3>1. LinksIn(q) \ q.todo = LinksIn(q)
      BY <1>5
    <3>. QED
      BY <1>3, <1>5, <3>1 DEF Ensuring
  <2>6. r.ids = FoundBy(LinksIn(r) \ r.todo) /\ LinksIn(r) = LinksIn(q)
    BY <2>4, <2>5 DEF FoundBy, LinksIn
  <2>7. Resolving(r)
    BY <2>4, <2>5, <2>6 DEF Resolving, Syncing
  <2>8. AtStage(r)
    BY <1>2, <2>4, <2>7 DEF AtStage
  <2>. QED
    BY <1>2, <2>2, <2>4, <2>8, QuietStepKeeps
<1>6. ASSUME q.todo = {}, q.after # "resolve", op' = [op EXCEPT ![o] = Idle]
      PROVE  Sequential'
  <2>1. Calm({})
    BY <1>3, <1>6 DEF Ensuring
  <2>. QED
    BY <1>2, <1>6, <2>1, IdleType, QuietStepKeeps
<1>7. PICK t : t = First(q.todo)
  OBVIOUS
<1>8. ASSUME q.todo # {}, Find(t) = {}, op' = [op EXCEPT ![o].pc = "stub"]
      PROVE  Sequential'
  <2>1. PICK r : r = [q EXCEPT !.pc = "stub"]
    OBVIOUS
  <2>2. op' = [op EXCEPT ![o] = r]
    BY <1>1, <1>8, <2>1 DEF Sequential, VaultTyped
  <2>3. /\ r \in OpRecords /\ r.pc = "stub" /\ r.title = q.title /\ r.kind = q.kind /\ r.to = q.to
        /\ r.body = q.body /\ r.id = q.id /\ r.todo = q.todo /\ r.ids = q.ids /\ r.after = q.after
    BY <1>2, <2>1 DEF OpRecords, Stages
  <2>4. Ensuring(r)
    BY <1>3, <2>3 DEF Ensuring, Syncing, LinksIn
  <2>5. AtStage(r)
    BY <1>2, <1>7, <1>8, <2>3, <2>4 DEF AtStage
  <2>. QED
    BY <1>2, <2>2, <2>3, <2>5, QuietStepKeeps
<1>9. ASSUME q.todo # {}, Find(t) # {}, op' = [op EXCEPT ![o].todo = @ \ {t}]
      PROVE  Sequential'
  <2>1. PICK r : r = [q EXCEPT !.todo = q.todo \ {t}]
    OBVIOUS
  <2>2. op' = [op EXCEPT ![o] = r]
    BY <1>1, <1>9, <2>1 DEF Sequential, VaultTyped
  <2>3. /\ r \in OpRecords /\ r.pc = "ensure" /\ r.title = q.title /\ r.kind = q.kind /\ r.to = q.to
        /\ r.body = q.body /\ r.id = q.id /\ r.todo = q.todo \ {t} /\ r.ids = q.ids /\ r.after = q.after
    BY <1>2, <2>1 DEF OpRecords, Stages
  <2>4. LinksLive(LinksIn(q) \ q.todo) => LinksLive(LinksIn(q) \ (q.todo \ {t}))
    BY <1>9 DEF LinksLive
  <2>5. Ensuring(r)
    BY <1>3, <2>3, <2>4 DEF Ensuring, Syncing, LinksIn
  <2>6. AtStage(r)
    BY <1>2, <2>3, <2>5 DEF AtStage
  <2>. QED
    BY <1>2, <2>2, <2>3, <2>6, QuietStepKeeps
<1>. QED
  <2>1. CASE q.todo = {}
    BY <1>1, <1>5, <1>6, <2>1 DEF EnsureNext
  <2>2. CASE q.todo # {}
    BY <1>1, <1>7, <1>8, <1>9, <2>2 DEF EnsureNext
  <2>. QED
    BY <2>1, <2>2

LEMMA ResolveKeeps ==
  ASSUME Sequential, NEW o \in Ops, Resolve(o)
  PROVE  Sequential'
<1>1. PICK q, t : q = op[o] /\ t = First(q.todo)
  OBVIOUS
<1>2. /\ q.pc = "resolve" /\ Running \subseteq {o} /\ q \in OpRecords /\ AtStage(q) /\ q.pc \in Stages
      /\ UNCHANGED <<notes, edges, next, strayed>>
  BY <1>1, RunsAlone DEF Resolve, Stages, spent
<1>3. /\ Syncing(q) /\ LinksLive(LinksIn(q))
      /\ q.todo \subseteq LinksIn(q) /\ q.ids = FoundBy(LinksIn(q) \ q.todo)
  BY <1>2 DEF AtStage, Resolving
<1>4. ASSUME q.todo = {}, op' = [op EXCEPT ![o].pc = "diff"]
      PROVE  Sequential'
  <2>1. PICK r : r = [q EXCEPT !.pc = "diff"]
    OBVIOUS
  <2>2. op' = [op EXCEPT ![o] = r]
    BY <1>1, <1>4, <2>1 DEF Sequential, VaultTyped
  <2>3. /\ r \in OpRecords /\ r.pc = "diff" /\ r.title = q.title /\ r.kind = q.kind /\ r.to = q.to
        /\ r.body = q.body /\ r.id = q.id /\ r.ids = q.ids
    BY <1>2, <2>1 DEF OpRecords, Stages
  <2>4. LinksIn(q) \ q.todo = LinksIn(q) /\ LinksIn(r) = LinksIn(q)
    BY <1>4, <2>3 DEF LinksIn
  <2>5. Resolving(r)
    BY <1>3, <2>3, <2>4 DEF Resolving, Syncing
  <2>6. AtStage(r)
    BY <1>2, <2>3, <2>5 DEF AtStage
  <2>. QED
    BY <1>2, <2>2, <2>3, <2>6, QuietStepKeeps
<1>5. ASSUME q.todo # {}, op' = [op EXCEPT ![o].todo = @ \ {t}, ![o].ids = @ \cup Find(t)]
      PROVE  Sequential'
  <2>1. PICK r : r = [[q EXCEPT !.todo = q.todo \ {t}] EXCEPT !.ids = q.ids \cup Find(t)]
    OBVIOUS
  <2>2. op' = [op EXCEPT ![o] = r]
    BY <1>1, <1>5, <2>1 DEF Sequential, VaultTyped
  <2>3. Find(t) \in SUBSET Ids
    BY DEF Find, Rows
  <2>4. /\ r \in OpRecords /\ r.pc = "resolve" /\ r.title = q.title /\ r.kind = q.kind /\ r.to = q.to
        /\ r.body = q.body /\ r.id = q.id /\ r.todo = q.todo \ {t} /\ r.ids = q.ids \cup Find(t)
    BY <1>2, <2>1, <2>3 DEF OpRecords, Stages
  <2>5. t \in q.todo /\ t \in LinksIn(q)
    BY <1>1, <1>3, <1>5 DEF First
  <2>6. LinksIn(q) \ (q.todo \ {t}) = (LinksIn(q) \ q.todo) \cup {t}
    BY <2>5
  <2>7. FoundBy(LinksIn(q) \ (q.todo \ {t})) = FoundBy(LinksIn(q) \ q.todo) \cup Find(t)
    BY <2>6 DEF FoundBy
  <2>8. LinksIn(r) = LinksIn(q)
    BY <2>4 DEF LinksIn
  <2>9. Resolving(r)
    BY <1>3, <2>4, <2>7, <2>8 DEF Resolving, Syncing
  <2>10. AtStage(r)
    BY <1>2, <2>4, <2>9 DEF AtStage
  <2>. QED
    BY <1>2, <2>2, <2>4, <2>10, QuietStepKeeps
<1>. QED
  BY <1>1, <1>4, <1>5 DEF Resolve

(* The links of the note in hand lead to other notes.                      *)
LEMMA LinksLeadAway ==
  ASSUME Sequential, NEW r \in OpRecords, Syncing(r)
  PROVE  /\ FoundBy(LinksIn(r)) \subseteq Rows \ {r.id}
         /\ LinksLive(LinksIn(r)) => (Mentions(r.id) = FoundBy(LinksIn(r)) => Settled(r.id))
<1>1. /\ r.id \in Rows /\ notes[r.id].title = r.title /\ notes[r.id].body = r.body
      /\ Find(r.title) \subseteq {r.id} /\ r.id \in Find(r.title)
  BY DEF Syncing, Find, Sequential, OneTitle
<1>2. \A t : Find(t) \subseteq Rows
  BY DEF Find
<1>3. \A t : t # r.title => r.id \notin Find(t)
  BY <1>1 DEF Find
<1>4. r.title \notin LinksIn(r)
  BY DEF LinksIn
<1>5. FoundBy(LinksIn(r)) \subseteq Rows \ {r.id}
  BY <1>2, <1>3, <1>4 DEF FoundBy
<1>6. FoundBy(TitlesIn(r.body)) \ {r.id} = FoundBy(LinksIn(r))
  <2>1. ASSUME NEW y \in FoundBy(LinksIn(r)) PROVE y \in FoundBy(TitlesIn(r.body)) \ {r.id}
    BY <1>5, <2>1 DEF FoundBy, LinksIn
  <2>2. ASSUME NEW y \in FoundBy(TitlesIn(r.body)) \ {r.id} PROVE y \in FoundBy(LinksIn(r))
    <3>1. PICK t \in TitlesIn(r.body) : y \in Find(t)
      BY <2>2 DEF FoundBy
    <3>2. t # r.title
      BY <1>1, <2>2, <3>1
    <3>. QED
      BY <3>1, <3>2 DEF FoundBy, LinksIn
  <2>. QED
    BY <2>1, <2>2
<1>7. LinksLive(LinksIn(r)) => LinksLive(TitlesIn(r.body))
  BY <1>1 DEF LinksLive, LinksIn
<1>. QED
  BY <1>1, <1>5, <1>6, <1>7 DEF Settled, Follows

LEMMA DiffKeeps ==
  ASSUME Sequential, NEW o \in Ops, Diff(o)
  PROVE  Sequential'
<1>1. PICK q : q = op[o]
  OBVIOUS
<1>2. /\ q.pc = "diff" /\ Running \subseteq {o} /\ q \in OpRecords /\ AtStage(q) /\ q.pc \in Stages
      /\ UNCHANGED <<notes, edges, next, strayed>>
  BY <1>1, RunsAlone DEF Diff, Stages, spent
<1>3. /\ Syncing(q) /\ LinksLive(LinksIn(q)) /\ q.ids = FoundBy(LinksIn(q))
  BY <1>2 DEF AtStage, Resolving
<1>4. PICK stale, wanted : stale = Mentions(q.id) \ q.ids /\ wanted = (q.ids \ {q.id}) \ Mentions(q.id)
  OBVIOUS
<1>5. PICK r : r = [[[q EXCEPT !.pc = "drop"] EXCEPT !.stale = stale] EXCEPT !.ids = wanted]
  OBVIOUS
<1>6. op' = [op EXCEPT ![o] = r]
  BY <1>1, <1>4, <1>5 DEF Diff, Stale, Wanted, Sequential, VaultTyped
<1>7. Mentions(q.id) \subseteq Ids
  BY DEF Mentions, Sequential, WellEnded, Rows
<1>8. stale \in SUBSET Ids /\ wanted \in SUBSET Ids
  BY <1>2, <1>4, <1>7 DEF OpRecords
<1>9. /\ r \in OpRecords /\ r.pc = "drop" /\ r.title = q.title /\ r.kind = q.kind /\ r.to = q.to
      /\ r.body = q.body /\ r.id = q.id /\ r.stale = stale /\ r.ids = wanted
  BY <1>2, <1>5, <1>8 DEF OpRecords, Stages
<1>10. q.id \notin q.ids
  BY <1>2, <1>3, LinksLeadAway
<1>11. (Mentions(q.id) \ stale) \cup wanted = q.ids
  BY <1>4, <1>10
<1>12. LinksIn(r) = LinksIn(q)
  BY <1>9 DEF LinksIn
<1>13. Resolving(r)
  BY <1>3, <1>9, <1>11, <1>12 DEF Resolving, Syncing
<1>14. AtStage(r)
  BY <1>2, <1>9, <1>13 DEF AtStage
<1>. QED
  BY <1>2, <1>6, <1>9, <1>14, QuietStepKeeps

(* The edges of one note change.                                           *)
LEMMA EdgesOfOne ==
  ASSUME UNCHANGED <<notes, next, strayed>>, NEW id, \A x : x # id => Mentions(x)' = Mentions(x)
  PROVE  /\ Rows' = Rows /\ OneTitle' = OneTitle
         /\ \A S : FoundBy(S)' = FoundBy(S) /\ LinksLive(S)' = LinksLive(S)
         /\ \A r : r.id = id => Syncing(r)' = Syncing(r)
<1>1. Rows' = Rows /\ Whole' = Whole
  BY DEF Rows, Whole
<1>2. \A t : Find(t)' = Find(t)
  BY <1>1 DEF Find
<1>3. \A S : FoundBy(S)' = FoundBy(S) /\ LinksLive(S)' = LinksLive(S)
  BY <1>2 DEF FoundBy, LinksLive
<1>4. \A x : x # id => Settled(x)' = Settled(x)
  BY <1>3 DEF Settled, Follows
<1>5. Calm({id})' = Calm({id})
  BY <1>1, <1>4 DEF Calm
<1>6. \A r : r.id = id => Syncing(r)' = Syncing(r)
  BY <1>1, <1>5 DEF Syncing
<1>7. OneTitle' = OneTitle
  BY <1>1 DEF OneTitle
<1>. QED
  BY <1>1, <1>3, <1>6, <1>7

LEMMA DropKeeps ==
  ASSUME Sequential, NEW o \in Ops, Drop(o)
  PROVE  Sequential'
<1>1. PICK q, id : q = op[o] /\ id = First(q.stale)
  OBVIOUS
<1>2. /\ q.pc = "drop" /\ Running \subseteq {o} /\ q \in OpRecords /\ AtStage(q) /\ q.pc \in Stages
      /\ UNCHANGED <<notes, next, strayed>>
  BY <1>1, RunsAlone DEF Drop, Stages, spent
<1>3. /\ Syncing(q) /\ LinksLive(LinksIn(q))
      /\ (Mentions(q.id) \ q.stale) \cup q.ids = FoundBy(LinksIn(q))
  BY <1>2 DEF AtStage, Resolving
<1>4. ASSUME q.stale = {}, Goto(o, "link"), UNCHANGED edges
      PROVE  Sequential'
  <2>1. PICK r : r = [q EXCEPT !.pc = "link"]
    OBVIOUS
  <2>2. op' = [op EXCEPT ![o] = r]
    BY <1>1, <1>4, <2>1 DEF Goto, Sequential, VaultTyped
  <2>3. /\ r \in OpRecords /\ r.pc = "link" /\ r.title = q.title /\ r.kind = q.kind /\ r.to = q.to
        /\ r.body = q.body /\ r.id = q.id /\ r.ids = q.ids /\ r.stale = {}
    BY <1>2, <1>4, <2>1 DEF OpRecords, Stages
  <2>4. LinksIn(r) = LinksIn(q)
    BY <2>3 DEF LinksIn
  <2>5. Resolving(r)
    BY <1>3, <1>4, <2>3, <2>4 DEF Resolving, Syncing
  <2>6. AtStage(r)
    BY <1>2, <2>3, <2>5 DEF AtStage
  <2>. QED
    BY <1>2, <1>4, <2>2, <2>3, <2>6, QuietStepKeeps
<1>5. ASSUME q.stale # {}, edges' = edges \ {<<q.id, id>>}, op' = [op EXCEPT ![o].stale = @ \ {id}]
      PROVE  Sequential'
  <2>1. PICK r : r = [q EXCEPT !.stale = q.stale \ {id}]
    OBVIOUS
  <2>2. op' = [op EXCEPT ![o] = r]
    BY <1>1, <1>5, <2>1 DEF Sequential, VaultTyped
  <2>3. /\ r \in OpRecords /\ r.pc = "drop" /\ r.title = q.title /\ r.kind = q.kind /\ r.to = q.to
        /\ r.body = q.body /\ r.id = q.id /\ r.ids = q.ids /\ r.stale = q.stale \ {id}
    BY <1>2, <2>1 DEF OpRecords, Stages
  <2>4. id \in q.stale
    BY <1>1, <1>5 DEF First
  <2>5. /\ \A x : x # q.id => Mentions(x)' = Mentions(x)
        /\ Mentions(q.id)' = Mentions(q.id) \ {id}
    <3>1. \A e \in edges : e = <<e[1], e[2]>>
      BY DEF Sequential, WellEnded
    <3>2. ASSUME NEW x, x # q.id PROVE Mentions(x)' = Mentions(x)
      <4>1. {e \in edges' : e[1] = x} = {e \in edges : e[1] = x}
        BY <1>5, <3>2
      <4>. QED
        BY <4>1 DEF Mentions
    <3>3. ASSUME NEW y PROVE y \in Mentions(q.id)' <=> y \in Mentions(q.id) /\ y # id
      <4>1. y \in Mentions(q.id) <=> \E e \in edges : e[1] = q.id /\ e[2] = y
        BY DEF Mentions
      <4>2. y \in Mentions(q.id)' <=> \E e \in edges' : e[1] = q.id /\ e[2] = y
        BY DEF Mentions
      <4>3. \A e \in edges : e[1] = q.id /\ e[2] = y => e = <<q.id, y>>
        BY <3>1
      <4>. QED
        BY <1>5, <4>1, <4>2, <4>3
    <3>. QED
      BY <3>2, <3>3
  <2>6. LinksIn(r)' = LinksIn(q)
    BY <2>3 DEF LinksIn
  <2>7. Syncing(q)' /\ \A S : FoundBy(S)' = FoundBy(S) /\ LinksLive(S)' = LinksLive(S)
    BY <1>2, <1>3, <2>5, EdgesOfOne
  <2>8. Syncing(r)'
    BY <2>3, <2>7 DEF Syncing
  <2>9. (Mentions(r.id) \ r.stale)' = Mentions(q.id) \ q.stale
    BY <2>3, <2>4, <2>5
  <2>10. Resolving(r)'
    BY <1>3, <2>3, <2>6, <2>7, <2>8, <2>9 DEF Resolving
  <2>11. AtStage(r)'
    BY <1>2, <2>3, <2>10 DEF AtStage
  <2>12. WellEnded' /\ OneTitle' /\ Rows' = Rows
    BY <1>2, <1>5, <2>5, EdgesOfOne DEF WellEnded, Sequential
  <2>. QED
    BY <1>2, <2>2, <2>3, <2>11, <2>12, StepKeeps DEF Sequential, VaultTyped
<1>. QED
  BY <1>1, <1>4, <1>5 DEF Drop

LEMMA LinkKeeps ==
  ASSUME Sequential, NEW o \in Ops, Link(o)
  PROVE  Sequential'
<1>1. PICK q, id : q = op[o] /\ id = First(q.ids)
  OBVIOUS
<1>2. /\ q.pc = "link" /\ Running \subseteq {o} /\ q \in OpRecords /\ AtStage(q) /\ q.pc \in Stages
      /\ UNCHANGED <<notes, next, strayed>>
  BY <1>1, RunsAlone DEF Link, Stages, spent
<1>3. /\ Syncing(q) /\ LinksLive(LinksIn(q))
      /\ (Mentions(q.id) \ q.stale) \cup q.ids = FoundBy(LinksIn(q)) /\ q.stale = {}
  BY <1>2 DEF AtStage, Resolving
<1>4. ASSUME q.ids = {}, End(o, TRUE), UNCHANGED edges
      PROVE  Sequential'
  <2>1. Mentions(q.id) = FoundBy(LinksIn(q))
    BY <1>3, <1>4
  <2>2. Settled(q.id)
    BY <1>2, <1>3, <2>1, LinksLeadAway
  <2>3. Calm({})
    BY <1>3, <2>2 DEF Syncing, Calm
  <2>. QED
    BY <1>1, <1>2, <1>4, <2>3, EndKeeps
<1>5. ASSUME q.ids # {}, edges' = edges \cup {<<q.id, id>>}, op' = [op EXCEPT ![o].ids = @ \ {id}]
      PROVE  Sequential'
  <2>1. PICK r : r = [q EXCEPT !.ids = q.ids \ {id}]
    OBVIOUS
  <2>2. op' = [op EXCEPT ![o] = r]
    BY <1>1, <1>5, <2>1 DEF Sequential, VaultTyped
  <2>3. /\ r \in OpRecords /\ r.pc = "link" /\ r.title = q.title /\ r.kind = q.kind /\ r.to = q.to
        /\ r.body = q.body /\ r.id = q.id /\ r.ids = q.ids \ {id} /\ r.stale = {}
    BY <1>2, <1>3, <2>1 DEF OpRecords, Stages
  <2>4. id \in q.ids /\ id \in Rows /\ q.id \in Rows /\ id # q.id
    BY <1>1, <1>2, <1>3, <1>5, LinksLeadAway DEF First, Syncing
  <2>5. /\ \A x : x # q.id => Mentions(x)' = Mentions(x)
        /\ Mentions(q.id)' = Mentions(q.id) \cup {id}
    <3>1. PICK e : e = <<q.id, id>>
      OBVIOUS
    <3>2. e[1] = q.id /\ e[2] = id /\ edges' = edges \cup {e}
      BY <1>5, <3>1
    <3>. QED
      BY <3>2 DEF Mentions
  <2>6. LinksIn(r)' = LinksIn(q)
    BY <2>3 DEF LinksIn
  <2>7. Syncing(q)' /\ \A S : FoundBy(S)' = FoundBy(S) /\ LinksLive(S)' = LinksLive(S)
    BY <1>2, <1>3, <2>5, EdgesOfOne
  <2>8. Syncing(r)'
    BY <2>3, <2>7 DEF Syncing
  <2>9. ((Mentions(r.id) \ r.stale) \cup r.ids)' = (Mentions(q.id) \ q.stale) \cup q.ids
    BY <1>3, <2>3, <2>4, <2>5
  <2>10. Resolving(r)'
    BY <1>3, <2>3, <2>6, <2>7, <2>8, <2>9 DEF Resolving
  <2>11. AtStage(r)'
    BY <1>2, <2>3, <2>10 DEF AtStage
  <2>12. OneTitle' /\ Rows' = Rows
    BY <1>2, <1>5, <2>5, EdgesOfOne DEF Sequential
  <2>13. WellEnded'
    BY <1>5, <2>4, <2>12 DEF WellEnded, Sequential
  <2>. QED
    BY <1>2, <2>2, <2>3, <2>11, <2>12, <2>13, StepKeeps DEF Sequential, VaultTyped
<1>. QED
  BY <1>1, <1>4, <1>5 DEF Link

(* Texts change, titles and edges stay.                                    *)
LEMMA SameTitles ==
  ASSUME UNCHANGED <<edges, next>>, Rows' = Rows, \A n \in Rows : notes'[n].title = notes[n].title
  PROVE  /\ OneTitle' = OneTitle /\ WellEnded' = WellEnded /\ Whole' = Whole
         /\ \A t : Find(t)' = Find(t)
         /\ \A x, b : Follows(x, b)' = Follows(x, b)
<1>1. Whole' = Whole /\ \A t : Find(t)' = Find(t)
  BY DEF Find, Whole
<1>2. \A S : FoundBy(S)' = FoundBy(S) /\ LinksLive(S)' = LinksLive(S)
  BY <1>1 DEF FoundBy, LinksLive
<1>3. \A x, b : Follows(x, b)' = Follows(x, b)
  BY <1>2 DEF Follows, Mentions
<1>4. OneTitle' = OneTitle /\ WellEnded' = WellEnded
  BY DEF OneTitle, WellEnded
<1>. QED
  BY <1>1, <1>3, <1>4

LEMMA WriteKeeps ==
  ASSUME Sequential, NEW o \in Ops, Write(o)
  PROVE  Sequential'
<1>1. PICK q, id : q = op[o] /\ id = q.id
  OBVIOUS
<1>2. /\ q.pc = "write" /\ q.kind # "create" /\ Running \subseteq {o} /\ q \in OpRecords /\ AtStage(q)
      /\ UNCHANGED <<edges, next>> /\ strayed' = strayed \ {id}
  BY <1>1, RunsAlone DEF Write, Stages
<1>3. Calm({}) /\ q.ids = {} /\ id \in Find(q.title)
  BY <1>1, <1>2 DEF AtStage, ToWrite
<1>4. id \in Ids /\ id \in Rows /\ notes[id] # Nil /\ notes[id] \in NoteRecords /\ notes[id].title = q.title
  BY <1>3 DEF Find, Rows, Sequential, VaultTyped
<1>5. PICK row : row = [[notes[id] EXCEPT !.body = q.body] EXCEPT !.behind = TRUE]
  OBVIOUS
<1>6. row \in NoteRecords /\ row.title = q.title /\ row.body = q.body
  <2>1. PICK one : one = [notes[id] EXCEPT !.body = q.body]
    OBVIOUS
  <2>2. one \in NoteRecords /\ one.title = q.title /\ one.body = q.body
    BY <1>2, <1>4, <2>1 DEF NoteRecords, OpRecords
  <2>3. row = [one EXCEPT !.behind = TRUE]
    BY <1>5, <2>1
  <2>. QED
    BY <2>2, <2>3 DEF NoteRecords
<1>7. notes' = [notes EXCEPT ![id] = row]
  BY <1>1, <1>4, <1>5 DEF Write, Edit, Sequential, VaultTyped
<1>8. /\ notes' \in [Ids -> NoteRecords \cup {Nil}] /\ notes'[id] = row
      /\ \A n \in Ids : n # id => notes'[n] = notes[n]
  BY <1>4, <1>6, <1>7 DEF Sequential, VaultTyped
<1>9. Rows' = Rows
  BY <1>4, <1>6, <1>8, VaultAssumption DEF Rows
<1>10. \A n \in Rows : notes'[n].title = notes[n].title
  BY <1>4, <1>6, <1>8 DEF Rows
<1>11. /\ OneTitle' /\ WellEnded' /\ Whole' = Whole
       /\ \A x, b : Follows(x, b)' = Follows(x, b)
  BY <1>2, <1>9, <1>10, SameTitles DEF Sequential
<1>12. Calm({id})'
  <2>1. \A x \in Rows \ {id} : notes'[x].body = notes[x].body
    BY <1>8 DEF Rows
  <2>2. \A x \in Rows \ {id} : Settled(x)' = Settled(x)
    BY <1>11, <2>1 DEF Settled
  <2>. QED
    BY <1>2, <1>3, <1>9, <1>11, <2>2 DEF Calm
<1>13. PICK r : r = [[[q EXCEPT !.pc = "ensure"] EXCEPT !.todo = LinksIn(q)] EXCEPT !.after = "resolve"]
  OBVIOUS
<1>14. op' = [op EXCEPT ![o] = r]
  <2>1. Sync(o, id) /\ LinksOf(o) = LinksIn(q)
    BY <1>1, <1>4 DEF Write, LinksOf, LinksIn
  <2>2. op' = [op EXCEPT ![o] = [[[[q EXCEPT !.pc = "ensure"] EXCEPT !.id = id] EXCEPT !.todo = LinksIn(q)]
                                  EXCEPT !.after = "resolve"]]
    BY <1>1, <2>1 DEF Sync, Sequential, VaultTyped
  <2>3. [[q EXCEPT !.pc = "ensure"] EXCEPT !.id = id] = [q EXCEPT !.pc = "ensure"]
    BY <1>1, <1>2 DEF OpRecords
  <2>. QED
    BY <1>13, <2>2, <2>3
<1>15. /\ r \in OpRecords /\ r.pc = "ensure" /\ r.title = q.title /\ r.kind = q.kind /\ r.to = q.to
       /\ r.body = q.body /\ r.id = id /\ r.todo = LinksIn(q) /\ r.ids = {} /\ r.after = "resolve"
  <2>1. LinksIn(q) \in SUBSET Titles
    BY TitlesType DEF LinksIn
  <2>. QED
    BY <1>1, <1>2, <1>3, <1>13, <2>1 DEF OpRecords, Stages
<1>16. Syncing(r)'
  BY <1>4, <1>6, <1>8, <1>9, <1>12, <1>15 DEF Syncing
<1>17. LinksLive(LinksIn(r) \ r.todo)'
  BY <1>15 DEF LinksLive, LinksIn
<1>18. AtStage(r)'
  BY <1>2, <1>15, <1>16, <1>17 DEF AtStage, Ensuring
<1>. QED
  BY <1>2, <1>8, <1>9, <1>11, <1>14, <1>15, <1>18, StepKeeps DEF Sequential, VaultTyped

LEMMA RewriteKeeps ==
  ASSUME Sequential, NEW o \in Ops, Rewrite(o)
  PROVE  Sequential'
<1>1. PICK q : q = op[o]
  OBVIOUS
<1>2. /\ q.pc = "rewrite" /\ Running \subseteq {o} /\ q \in OpRecords /\ AtStage(q)
      /\ q.kind = "rename" /\ UNCHANGED <<edges, next>>
  BY <1>1, RunsAlone DEF Rewrite, Stages, AtStage
<1>3. Renamed(q) /\ q.to \in Titles
  BY <1>2 DEF AtStage
<1>4. \A b \in SUBSET Pieces : Relinked(b, q.title, q.to) \in SUBSET Pieces
  BY <1>3 DEF Relinked, Pieces
<1>5. \A n \in Ids : IF notes[n] = Nil THEN notes'[n] = Nil
                     ELSE notes'[n] = [notes[n] EXCEPT !.body = Relinked(notes[n].body, q.title, q.to)]
  BY <1>1 DEF Rewrite
<1>6. ASSUME NEW n \in Rows
      PROVE  notes'[n] \in NoteRecords /\ notes'[n].title = notes[n].title
             /\ notes'[n].body = Relinked(notes[n].body, q.title, q.to)
  <2>1. notes[n] \in NoteRecords /\ n \in Ids /\ notes[n] # Nil
    BY DEF Rows, Sequential, VaultTyped
  <2>2. Relinked(notes[n].body, q.title, q.to) \in SUBSET Pieces
    BY <1>4, <2>1 DEF NoteRecords
  <2>3. notes'[n] = [notes[n] EXCEPT !.body = Relinked(notes[n].body, q.title, q.to)]
    BY <1>5, <2>1
  <2>. QED
    BY <2>1, <2>2, <2>3 DEF NoteRecords
<1>7. Rows' = Rows
  <2>1. Nil \notin NoteRecords
    BY VaultAssumption
  <2>2. \A n \in Ids : notes[n] # Nil => notes'[n] # Nil
    BY <1>6, <2>1 DEF Rows
  <2>3. \A n \in Ids : notes[n] = Nil => notes'[n] = Nil
    BY <1>5
  <2>. QED
    BY <2>2, <2>3 DEF Rows
<1>8. notes' \in [Ids -> NoteRecords \cup {Nil}]
  <2>1. \A n \in Ids : notes'[n] \in NoteRecords \cup {Nil}
    BY <1>5, <1>6 DEF Rows
  <2>. QED
    BY <2>1 DEF Rewrite
<1>9. /\ OneTitle' /\ WellEnded' /\ Whole' = Whole
      /\ \A x, b : Follows(x, b)' = Follows(x, b)
  BY <1>2, <1>6, <1>7, SameTitles DEF Sequential
<1>10. Whole => \A x \in Rows \ strayed' : Settled(x)'
  <2>1. \A x \in Rows \ strayed' : x \notin strayed /\ Spaced(q.title) \notin notes[x].body
    BY <1>1 DEF Rewrite
  <2>. QED
    BY <1>3, <1>6, <1>9, <2>1 DEF Settled, Renamed
<1>11. Calm({})'
  BY <1>7, <1>9, <1>10 DEF Calm
<1>12. op' = [op EXCEPT ![o] = Idle]
  BY DEF Rewrite, Finish
<1>. QED
  BY <1>2, <1>7, <1>8, <1>9, <1>11, <1>12, IdleType, StepKeeps DEF Sequential, VaultTyped

LEMMA UnlinkKeeps ==
  ASSUME Sequential, NEW o \in Ops, Unlink(o)
  PROVE  Sequential'
<1>1. PICK q : q = op[o]
  OBVIOUS
<1>2. /\ q.pc = "unlink" /\ Running \subseteq {o} /\ q \in OpRecords /\ AtStage(q)
      /\ UNCHANGED <<notes, next>> /\ edges' = edges \ Touching(q.id)
  BY <1>1, RunsAlone DEF Unlink, Stages
<1>3. PICK r : r = [q EXCEPT !.pc = "erase"]
  OBVIOUS
<1>4. op' = [op EXCEPT ![o] = r]
  BY <1>1, <1>3 DEF Unlink, Goto, Sequential, VaultTyped
<1>5. r \in OpRecords /\ r.pc = "erase" /\ r.title = q.title /\ r.kind = q.kind /\ r.to = q.to /\ r.id = q.id
  BY <1>2, <1>3 DEF OpRecords, Stages
<1>6. Rows' = Rows
  BY <1>2 DEF Rows
<1>7. Touching(q.id)' = {}
  BY <1>2 DEF Touching
<1>8. AtStage(r)'
  BY <1>2, <1>5, <1>6, <1>7 DEF AtStage
<1>9. OneTitle' /\ WellEnded'
  BY <1>2, <1>6 DEF OneTitle, WellEnded, Sequential
<1>. QED
  BY <1>2, <1>4, <1>5, <1>6, <1>8, <1>9, StepKeeps DEF Sequential, VaultTyped

LEMMA EraseKeeps ==
  ASSUME Sequential, NEW o \in Ops, Erase(o)
  PROVE  Sequential'
<1>1. PICK q, id : q = op[o] /\ id = q.id
  OBVIOUS
<1>2. /\ q.pc = "erase" /\ Running \subseteq {o} /\ q \in OpRecords /\ AtStage(q)
      /\ UNCHANGED <<edges, next>> /\ notes' = [notes EXCEPT ![id] = Nil]
  BY <1>1, RunsAlone DEF Erase, Stages
<1>3. id \in Rows /\ id \in Ids /\ Touching(id) = {}
  BY <1>1, <1>2 DEF AtStage, Rows
<1>4. notes' \in [Ids -> NoteRecords \cup {Nil}] /\ notes'[id] = Nil /\ \A n \in Ids \ {id} : notes'[n] = notes[n]
  BY <1>2, <1>3 DEF Sequential, VaultTyped
<1>5. Rows' = Rows \ {id}
  BY <1>3, <1>4 DEF Rows
<1>6. OneTitle'
  BY <1>4, <1>5 DEF OneTitle, Sequential, Rows
<1>7. WellEnded'
  <2>1. \A e \in edges : e[1] # id /\ e[2] # id /\ e \in Rows \X Rows /\ e[1] # e[2]
    BY <1>3 DEF Touching, WellEnded, Sequential
  <2>. QED
    BY <1>2, <1>5, <2>1 DEF WellEnded
<1>8. ~Whole'
  BY <1>2, <1>3, <1>5 DEF Whole, Sequential, VaultTyped
<1>9. op' = [op EXCEPT ![o] = Idle] /\ Calm({})'
  BY <1>8 DEF Erase, Finish, Calm
<1>10. Rows' \subseteq 1..(next' - 1) /\ next' \in Nat \ {0}
  BY <1>2, <1>5 DEF Sequential, VaultTyped
<1>. QED
  BY <1>2, <1>4, <1>6, <1>7, <1>9, <1>10, IdleType, StepKeeps

(* Of a title that nothing links to, since a link always has its note.     *)
LEMMA InsertChanges ==
  ASSUME Sequential, NEW t \in Titles, NEW body \in SUBSET Pieces, NEW n, n = next,
         ~Refused(t), Insert(t, body), UNCHANGED <<edges, strayed>>
  PROVE  /\ n \in Ids /\ n \notin Rows /\ notes' \in [Ids -> NoteRecords \cup {Nil}] /\ next' \in Nat \ {0}
         /\ Rows' = Rows \cup {n} /\ Rows' \subseteq 1..(next' - 1)
         /\ notes'[n] = Fresh(t, body) /\ \A x \in Rows : notes'[x] = notes[x]
         /\ Find(t)' = {n} /\ \A u : u # t => Find(u)' = Find(u)
         /\ OneTitle' /\ WellEnded'
         /\ \A S : Calm(S) => Calm(S \cup {n})'
         /\ body = {} => \A S : Calm(S) => Calm(S)'
<1>1. /\ next \in Nat \ {0} /\ Rows \subseteq 1..(next - 1) /\ next <= MaxNotes /\ Find(t) = {}
      /\ next' = next + 1 /\ notes' = [notes EXCEPT ![n] = Fresh(t, body)]
      /\ notes \in [Ids -> NoteRecords \cup {Nil}] /\ MaxNotes \in Nat
  BY VaultAssumption DEF Sequential, VaultTyped, Refused, Full, Insert
<1>2. n \in Ids /\ n \notin Rows
  BY <1>1 DEF Ids
<1>3. Fresh(t, body) \in NoteRecords /\ Fresh(t, body).title = t /\ Fresh(t, body).body = body
  BY DEF Fresh, NoteRecords
<1>4. /\ notes' \in [Ids -> NoteRecords \cup {Nil}] /\ notes'[n] = Fresh(t, body)
      /\ \A x \in Ids : x # n => notes'[x] = notes[x]
  BY <1>1, <1>2, <1>3
<1>5. Rows' = Rows \cup {n} /\ \A x \in Rows : x \in Ids /\ notes'[x] = notes[x]
  <2>1. notes'[n] # Nil
    BY <1>3, <1>4, VaultAssumption
  <2>. QED
    BY <1>2, <1>4, <2>1 DEF Rows
<1>6. next' \in Nat \ {0} /\ Rows' \subseteq 1..(next' - 1)
  <2>1. \A x \in Rows : x \in 1..next
    BY <1>1
  <2>2. n \in 1..next
    BY <1>1
  <2>. QED
    BY <1>1, <1>5, <2>1, <2>2
<1>7. Find(t)' = {n} /\ \A u : u # t => Find(u)' = Find(u)
  <2>1. \A x \in Rows : notes[x].title # t
    BY <1>1 DEF Find
  <2>2. \A x \in Rows : notes'[x].title = notes[x].title
    BY <1>5
  <2>3. notes'[n].title = t
    BY <1>3, <1>4
  <2>4. Find(t)' = {n}
    BY <1>5, <2>1, <2>2, <2>3 DEF Find
  <2>5. ASSUME NEW u, u # t PROVE Find(u)' = Find(u)
    BY <1>5, <2>2, <2>3, <2>5 DEF Find
  <2>. QED
    BY <2>4, <2>5
<1>8. OneTitle'
  <2>1. \A x \in Rows : notes[x].title # t /\ notes'[x].title = notes[x].title
    BY <1>1, <1>5 DEF Find
  <2>2. notes'[n].title = t
    BY <1>3, <1>4
  <2>. QED
    BY <1>5, <2>1, <2>2 DEF OneTitle, Sequential
<1>9. WellEnded'
  <2>1. Rows \X Rows \subseteq Rows' \X Rows'
    BY <1>5
  <2>. QED
    BY <2>1 DEF WellEnded, Sequential
<1>10. Whole' => Whole
  <2>1. ASSUME Rows \cup {n} = 1..next, NEW x \in 1..(next - 1) PROVE x \in Rows
    <3>1. x \in 1..next /\ x # n
      BY <1>1
    <3>. QED
      BY <2>1, <3>1
  <2>2. next' - 1 = next
    BY <1>1
  <2>. QED
    BY <1>1, <1>5, <2>1, <2>2 DEF Whole
<1>11. \A x : Mentions(x)' = Mentions(x)
  BY DEF Mentions
<1>12. ASSUME NEW x \in Rows, Settled(x) PROVE Settled(x)'
  <2>1. notes'[x].body = notes[x].body
    BY <1>5
  <2>2. PICK b : b = notes[x].body
    OBVIOUS
  <2>3. \A u \in TitlesIn(b) : u # t
    BY <1>1, <1>12, <2>2 DEF Settled, Follows, LinksLive
  <2>4. \A u \in TitlesIn(b) : Find(u)' = Find(u)
    BY <1>7, <2>3
  <2>5. FoundBy(TitlesIn(b))' = FoundBy(TitlesIn(b)) /\ LinksLive(TitlesIn(b))' = LinksLive(TitlesIn(b))
    BY <2>4 DEF FoundBy, LinksLive
  <2>6. Follows(x, b)'
    BY <1>11, <1>12, <2>2, <2>5 DEF Settled, Follows
  <2>7. notes'[x].body = b
    BY <2>1, <2>2
  <2>. QED
    BY <2>6, <2>7 DEF Settled
<1>13. \A S : Calm(S) => Calm(S \cup {n})'
  BY <1>5, <1>10, <1>12 DEF Calm
<1>14. ASSUME body = {} PROVE Settled(n)'
  <2>1. Mentions(n) = {}
    BY <1>2 DEF Mentions, WellEnded, Sequential
  <2>2. notes'[n].body = {}
    BY <1>3, <1>4, <1>14
  <2>3. FoundBy({})' = {} /\ LinksLive({})'
    BY DEF FoundBy, LinksLive
  <2>4. Mentions(n)' = {}
    BY <1>11, <2>1
  <2>5. Follows(n, {})'
    BY <2>3, <2>4, TitlesType DEF Follows
  <2>. QED
    BY <2>2, <2>5 DEF Settled
<1>15. body = {} => \A S : Calm(S) => Calm(S)'
  BY <1>5, <1>10, <1>12, <1>14 DEF Calm
<1>. QED
  BY <1>2, <1>4, <1>5, <1>6, <1>7, <1>8, <1>9, <1>13, <1>15

LEMMA CreateKeeps ==
  ASSUME Sequential, NEW o \in Ops, Create(o), ~disturbed'
  PROVE  Sequential'
<1>1. PICK q, n : q = op[o] /\ n = next
  OBVIOUS
<1>2. /\ q.pc = "write" /\ q.kind = "create" /\ Running \subseteq {o} /\ q \in OpRecords /\ AtStage(q)
      /\ UNCHANGED <<edges, strayed>> /\ ~Full /\ q.title \in Titles /\ q.body \in SUBSET Pieces
  BY <1>1, RunsAlone DEF Create, Stages
<1>3. Calm({}) /\ q.ids = {} /\ Find(q.title) = {}
  BY <1>2 DEF AtStage, ToWrite
<1>4. ~Refused(q.title)
  BY <1>2, <1>3 DEF Refused
<1>5. Insert(q.title, q.body) /\ Sync(o, n)
  BY <1>1, <1>4 DEF Create
<1>6. /\ n \in Ids /\ n \notin Rows /\ notes' \in [Ids -> NoteRecords \cup {Nil}] /\ next' \in Nat \ {0}
      /\ Rows' = Rows \cup {n} /\ Rows' \subseteq 1..(next' - 1)
      /\ notes'[n] = Fresh(q.title, q.body)
      /\ OneTitle' /\ WellEnded' /\ \A S : Calm(S) => Calm(S \cup {n})'
  BY <1>1, <1>2, <1>4, <1>5, InsertChanges
<1>7. Calm({n})'
  <2>1. Calm({} \cup {n})'
    BY <1>3, <1>6
  <2>. QED
    BY <2>1
<1>8. PICK r : r = [[[[q EXCEPT !.pc = "ensure"] EXCEPT !.id = n] EXCEPT !.todo = LinksIn(q)] EXCEPT !.after = "resolve"]
  OBVIOUS
<1>9. op' = [op EXCEPT ![o] = r]
  <2>1. LinksOf(o) = LinksIn(q)
    BY <1>1 DEF LinksOf, LinksIn
  <2>. QED
    BY <1>1, <1>5, <1>8, <2>1 DEF Sync, Sequential, VaultTyped
<1>10. /\ r \in OpRecords /\ r.pc = "ensure" /\ r.title = q.title /\ r.kind = q.kind /\ r.to = q.to
       /\ r.body = q.body /\ r.id = n /\ r.todo = LinksIn(q) /\ r.ids = {} /\ r.after = "resolve"
  <2>1. PICK i : i = [[q EXCEPT !.pc = "ensure"] EXCEPT !.id = n]
    OBVIOUS
  <2>2. /\ i \in OpRecords /\ i.pc = "ensure" /\ i.title = q.title /\ i.kind = q.kind /\ i.to = q.to
        /\ i.body = q.body /\ i.id = n /\ i.ids = {}
    BY <1>2, <1>3, <1>6, <2>1 DEF OpRecords, Stages
  <2>3. LinksIn(q) \in SUBSET Titles /\ r = [[i EXCEPT !.todo = LinksIn(q)] EXCEPT !.after = "resolve"]
    BY <1>8, <2>1, TitlesType DEF LinksIn
  <2>. QED
    BY <2>2, <2>3 DEF OpRecords
<1>11. Syncing(r)'
  <2>1. notes'[n].title = q.title /\ notes'[n].body = q.body
    BY <1>6 DEF Fresh
  <2>. QED
    BY <1>6, <1>7, <1>10, <2>1 DEF Syncing
<1>12. LinksLive(LinksIn(r) \ r.todo)'
  BY <1>10 DEF LinksLive, LinksIn
<1>13. AtStage(r)'
  BY <1>2, <1>10, <1>11, <1>12 DEF AtStage, Ensuring
<1>. QED
  BY <1>2, <1>6, <1>9, <1>10, <1>13, StepKeeps

LEMMA StubKeeps ==
  ASSUME Sequential, NEW o \in Ops, Stub(o), ~disturbed'
  PROVE  Sequential'
<1>1. PICK q, n, t : q = op[o] /\ n = next /\ t = First(q.todo)
  OBVIOUS
<1>2. /\ q.pc = "stub" /\ Running \subseteq {o} /\ q \in OpRecords /\ AtStage(q)
      /\ UNCHANGED <<edges, strayed>> /\ ~Full
  BY <1>1, RunsAlone DEF Stub, Stages
<1>3. Ensuring(q) /\ q.todo # {} /\ Find(t) = {}
  BY <1>1, <1>2 DEF AtStage
<1>4. ~Refused(t) /\ t \in Titles
  BY <1>1, <1>2, <1>3 DEF Refused, First, OpRecords
<1>5. Insert(t, {}) /\ op' = [op EXCEPT ![o].pc = "ensure", ![o].todo = @ \ {t}]
  BY <1>1, <1>4 DEF Stub
<1>6. {} \in SUBSET Pieces
  OBVIOUS
<1>7. /\ notes' \in [Ids -> NoteRecords \cup {Nil}] /\ next' \in Nat \ {0}
      /\ Rows' = Rows \cup {n} /\ Rows' \subseteq 1..(next' - 1)
      /\ \A x \in Rows : notes'[x] = notes[x]
      /\ Find(t)' = {n} /\ \A u : u # t => Find(u)' = Find(u)
      /\ OneTitle' /\ WellEnded' /\ \A S : Calm(S) => Calm(S)'
  BY <1>1, <1>2, <1>4, <1>5, <1>6, InsertChanges
<1>8. PICK r : r = [[q EXCEPT !.pc = "ensure"] EXCEPT !.todo = q.todo \ {t}]
  OBVIOUS
<1>9. op' = [op EXCEPT ![o] = r]
  BY <1>1, <1>5, <1>8 DEF Sequential, VaultTyped
<1>10. /\ r \in OpRecords /\ r.pc = "ensure" /\ r.title = q.title /\ r.kind = q.kind /\ r.to = q.to
       /\ r.body = q.body /\ r.id = q.id /\ r.todo = q.todo \ {t} /\ r.ids = q.ids /\ r.after = q.after
  BY <1>2, <1>8 DEF OpRecords, Stages
<1>11. Syncing(q) => Syncing(r)'
  <2>1. ASSUME q.id \in Rows, Calm({q.id}) PROVE Calm({r.id})'
    BY <1>7, <1>10, <2>1
  <2>. QED
    BY <1>7, <1>10, <2>1 DEF Syncing
<1>12. LinksLive(LinksIn(q) \ q.todo) => LinksLive(LinksIn(r) \ r.todo)'
  <2>1. LinksIn(r)' = LinksIn(q)
    BY <1>10 DEF LinksIn
  <2>2. ASSUME LinksLive(LinksIn(q) \ q.todo), NEW u \in LinksIn(q) \ (q.todo \ {t})
        PROVE  Find(u)' # {}
    <3>1. CASE u = t
      BY <1>7, <3>1
    <3>2. CASE u # t
      BY <1>7, <2>2, <3>2 DEF LinksLive
    <3>. QED
      BY <3>1, <3>2
  <2>. QED
    BY <1>10, <2>1, <2>2 DEF LinksLive
<1>13. Ensuring(r)'
  BY <1>3, <1>7, <1>10, <1>11, <1>12 DEF Ensuring
<1>14. AtStage(r)'
  BY <1>2, <1>10, <1>13 DEF AtStage
<1>. QED
  BY <1>2, <1>7, <1>9, <1>10, <1>14, StepKeeps

(* No body links to the new title: that link would have its note.          *)
LEMMA RetitleKeeps ==
  ASSUME Sequential, NEW o \in Ops, Retitle(o)
  PROVE  Sequential'
<1>1. PICK q, id, was, new : q = op[o] /\ id = q.id /\ was = q.title /\ new = q.to
  OBVIOUS
<1>2. /\ q.pc = "retitle" /\ Running \subseteq {o} /\ q \in OpRecords /\ AtStage(q)
      /\ UNCHANGED <<edges, next, strayed>>
  BY <1>1, RunsAlone DEF Retitle, Stages, spent
<1>3. q.kind = "rename" /\ id \in Find(was) /\ Calm({}) /\ was \in Titles /\ new \in Titles /\ new # was
  BY <1>1, <1>2 DEF AtStage
<1>4. id \in Ids /\ id \in Rows /\ notes[id] # Nil /\ notes[id] \in NoteRecords /\ notes[id].title = was
  BY <1>3 DEF Find, Rows, Sequential, VaultTyped
<1>5. ASSUME Finish(o), UNCHANGED notes
      PROVE  Sequential'
  BY <1>2, <1>3, <1>5, IdleType, QuietStepKeeps DEF Finish
<1>6. ASSUME Find(new) \ {id} = {}, Goto(o, "rewrite"),
             Edit(id, [notes[id] EXCEPT !.title = new, !.behind = TRUE])
      PROVE  Sequential'
  <2>1. PICK row : row = [[notes[id] EXCEPT !.title = new] EXCEPT !.behind = TRUE]
    OBVIOUS
  <2>2. row \in NoteRecords /\ row.title = new /\ row.body = notes[id].body
    <3>1. PICK one : one = [notes[id] EXCEPT !.title = new]
      OBVIOUS
    <3>2. one \in NoteRecords /\ one.title = new /\ one.body = notes[id].body
      BY <1>3, <1>4, <3>1 DEF NoteRecords
    <3>3. row = [one EXCEPT !.behind = TRUE]
      BY <2>1, <3>1
    <3>. QED
      BY <3>2, <3>3 DEF NoteRecords
  <2>3. notes' = [notes EXCEPT ![id] = row]
    BY <1>4, <1>6, <2>1 DEF Edit, Sequential, VaultTyped
  <2>4. /\ notes' \in [Ids -> NoteRecords \cup {Nil}] /\ notes'[id] = row
        /\ \A x \in Ids : x # id => notes'[x] = notes[x]
    BY <1>4, <2>2, <2>3 DEF Sequential, VaultTyped
  <2>5. Rows' = Rows /\ \A x \in Rows : x \in Ids /\ notes'[x].body = notes[x].body
    <3>1. row # Nil
      BY <2>2, VaultAssumption
    <3>. QED
      BY <1>4, <2>2, <2>4, <3>1 DEF Rows
  <2>6. Find(new) = {}
    BY <1>3, <1>4, <1>6 DEF Find
  <2>7. \A x \in Rows : x # id => notes[x].title # was /\ notes[x].title # new
    BY <1>4, <2>6 DEF Find, Sequential, OneTitle
  <2>8. Find(new)' = {id} /\ Find(was) = {id} /\ \A u : u # was /\ u # new => Find(u)' = Find(u)
    <3>1. \A x \in Rows : x # id => notes'[x].title = notes[x].title
      BY <2>4, <2>5
    <3>2. notes'[id].title = new
      BY <2>2, <2>4
    <3>3. Find(new)' = {id} /\ Find(was) = {id}
      BY <1>4, <2>5, <2>7, <3>1, <3>2 DEF Find
    <3>4. ASSUME NEW u, u # was, u # new PROVE Find(u)' = Find(u)
      BY <1>4, <2>5, <3>1, <3>2, <3>4 DEF Find
    <3>. QED
      BY <3>3, <3>4
  <2>9. OneTitle'
    <3>1. \A x \in Rows : x # id => notes'[x].title = notes[x].title
      BY <2>4, <2>5
    <3>2. notes'[id].title = new
      BY <2>2, <2>4
    <3>. QED
      BY <2>5, <2>7, <3>1, <3>2 DEF OneTitle, Sequential
  <2>10. WellEnded' /\ Whole' = Whole /\ \A x : Mentions(x)' = Mentions(x)
    BY <1>2, <2>5 DEF WellEnded, Whole, Mentions, Sequential
  <2>11. ASSUME NEW x, NEW b \in SUBSET Pieces, Follows(x, b), Spaced(was) \notin b
         PROVE  Follows(x, Relinked(b, was, new))'
    <3>1. PICK S, T : S = TitlesIn(b) /\ T = TitlesIn(Relinked(b, was, new))
      OBVIOUS
    <3>2. new \notin S
      BY <2>6, <2>11, <3>1 DEF Follows, LinksLive
    <3>3. T = IF was \in S THEN (S \ {was}) \cup {new} ELSE S
      BY <1>3, <2>11, <3>1, <3>2, RelinkedTitles
    <3>4. /\ \A u \in T : \E v \in S : Find(u)' = Find(v)
          /\ \A v \in S : \E u \in T : Find(u)' = Find(v)
      <4>1. CASE was \in S
        BY <2>8, <3>2, <3>3, <4>1
      <4>2. CASE was \notin S
        BY <2>8, <3>2, <3>3, <4>2
      <4>. QED
        BY <4>1, <4>2
    <3>5. FoundBy(T)' = FoundBy(S)
      BY <3>4 DEF FoundBy
    <3>6. LinksLive(T)'
      BY <2>11, <3>1, <3>4 DEF Follows, LinksLive
    <3>. QED
      BY <2>10, <2>11, <3>1, <3>5, <3>6 DEF Follows
  <2>12. PICK r : r = [q EXCEPT !.pc = "rewrite"]
    OBVIOUS
  <2>13. op' = [op EXCEPT ![o] = r]
    BY <1>1, <1>6, <2>12 DEF Goto, Sequential, VaultTyped
  <2>14. r \in OpRecords /\ r.pc = "rewrite" /\ r.title = was /\ r.kind = q.kind /\ r.to = new /\ r.id = id
    BY <1>1, <1>2, <2>12 DEF OpRecords, Stages
  <2>15. Whole => \A x \in Rows \ strayed : Spaced(was) \notin notes[x].body
                    => Follows(x, Relinked(notes[x].body, was, new))'
    <3>1. ASSUME Whole, NEW x \in Rows \ strayed, Spaced(was) \notin notes[x].body
          PROVE  Follows(x, Relinked(notes[x].body, was, new))'
      <4>1. PICK b : b = notes[x].body
        OBVIOUS
      <4>2. b \in SUBSET Pieces
        <5>1. notes[x] \in NoteRecords
          BY DEF Rows, Sequential, VaultTyped
        <5>. QED
          BY <4>1, <5>1 DEF NoteRecords
      <4>3. Follows(x, b)
        BY <1>3, <3>1, <4>1 DEF Calm, Settled
      <4>4. Follows(x, Relinked(b, was, new))'
        BY <2>11, <3>1, <4>1, <4>2, <4>3
      <4>5. b = notes'[x].body
        BY <2>5, <4>1
      <4>. QED
        BY <4>4, <4>5
    <3>. QED
      BY <3>1
  <2>16. Renamed(r)'
    BY <1>2, <2>5, <2>8, <2>10, <2>14, <2>15 DEF Renamed
  <2>17. AtStage(r)'
    BY <1>2, <1>3, <2>14, <2>16 DEF AtStage
  <2>. QED
    BY <1>2, <2>4, <2>5, <2>9, <2>10, <2>13, <2>14, <2>17, StepKeeps DEF Sequential, VaultTyped
<1>. QED
  BY <1>1, <1>4, <1>5, <1>6 DEF Retitle

LEMMA VaultInitially == VaultInit => VaultInv
<1> SUFFICES ASSUME VaultInit
             PROVE  Sequential
  BY DEF VaultInv, VaultInit
<1>1. PICK first : first = SetToSeq(InitialNotes)
  OBVIOUS
<1>2. PICK size : size = Cardinality(InitialNotes)
  OBVIOUS
<1>3. size \in Nat /\ size <= MaxNotes /\ MaxNotes \in Nat
  BY <1>2, FS_CardinalityType, VaultAssumption
<1>4. first \in [1..size -> InitialNotes] /\ \A i, j \in 1..size : first[i] = first[j] => i = j
  <2>1. \E f \in [1..size -> InitialNotes] : IsInjective(f)
    BY <1>2, FS_CardinalityType, VaultAssumption DEF ExistsBijection, Bijection, Injection, Surjection, IsInjective
  <2>2. first \in [1..size -> InitialNotes] /\ IsInjective(first)
    BY <1>1, <1>2, <2>1 DEF SetToSeq
  <2>. QED
    BY <2>2 DEF IsInjective
<1>5. Len(first) = size
  <2>1. first \in Seq(InitialNotes) /\ DOMAIN first = 1..size
    BY <1>3, <1>4
  <2>. QED
    BY <1>3, <2>1
<1>6. /\ notes = [id \in Ids |-> IF id <= size THEN Fresh(first[id], {}) ELSE Nil] /\ next = size + 1
      /\ edges = {} /\ op = [o \in Ops |-> Idle]
  BY <1>1, <1>5 DEF VaultInit
<1>7. \A id \in Ids : id <= size => first[id] \in InitialNotes /\ first[id] \in Titles /\ id \in 1..size
  BY <1>3, <1>4, VaultAssumption DEF Ids
<1>8. \A t \in Titles : Fresh(t, {}) \in NoteRecords /\ Fresh(t, {}) # Nil /\ Fresh(t, {}).title = t /\ Fresh(t, {}).body = {}
  <2>1. \A t \in Titles : Fresh(t, {}) \in NoteRecords /\ Fresh(t, {}).title = t /\ Fresh(t, {}).body = {}
    BY DEF Fresh, NoteRecords
  <2>. QED
    BY <2>1, VaultAssumption
<1>9. /\ notes \in [Ids -> NoteRecords \cup {Nil}]
      /\ \A id \in Ids : IF id <= size THEN notes[id].title = first[id] /\ notes[id].body = {} /\ notes[id] # Nil
                         ELSE notes[id] = Nil
  BY <1>6, <1>7, <1>8
<1>10. Rows = 1..size
  BY <1>3, <1>9 DEF Rows, Ids
<1>11. VaultTyped
  BY <1>3, <1>6, <1>9, <1>10, IdleType DEF VaultTyped
<1>12. OneTitle /\ WellEnded
  BY <1>4, <1>6, <1>7, <1>9, <1>10 DEF OneTitle, WellEnded, Rows
<1>13. Running = {}
  BY <1>6, IdleType DEF Running, Stages
<1>14. \A x \in Rows : Settled(x)
  <2>1. FoundBy({}) = {} /\ LinksLive({}) /\ \A x : Mentions(x) = {}
    BY <1>6 DEF FoundBy, LinksLive, Mentions
  <2>2. \A x \in Rows : notes[x].body = {}
    BY <1>9 DEF Rows
  <2>3. \A x : Follows(x, {})
    BY <2>1, TitlesType DEF Follows
  <2>. QED
    BY <2>2, <2>3 DEF Settled
<1>. QED
  BY <1>11, <1>12, <1>13, <1>14 DEF Sequential, Calm

LEMMA QuietKeeps ==
  ASSUME Sequential, UNCHANGED <<notes, edges, next, op, strayed>>
  PROVE  Sequential'
<1>1. VaultTyped' /\ OneTitle' /\ WellEnded' /\ Running' = Running /\ \A S : Calm(S)' = Calm(S)
  BY SameNotes DEF Sequential, VaultTyped, Running
<1>2. \A r : AtStage(r)' = AtStage(r)
  BY SameNotes
<1>. QED
  BY <1>1, <1>2 DEF Sequential

LEMMA OpsKeepBatch ==
  ASSUME NEW o \in Ops, Step(o)
  PROVE  batch' = batch /\ (disturbed => disturbed')
<1>1. CASE Match(o)
  BY <1>1 DEF Match, spent, loop
<1>2. CASE Check(o)
  BY <1>2 DEF Check, spent, loop
<1>3. CASE Lookup(o)
  BY <1>3 DEF Lookup, spent, loop
<1>4. CASE Create(o)
  BY <1>4 DEF Create, spent, loop
<1>5. CASE Write(o)
  BY <1>5 DEF Write, spent, loop
<1>6. CASE EnsureNext(o)
  BY <1>6 DEF EnsureNext, spent, loop
<1>7. CASE Stub(o)
  BY <1>7 DEF Stub, spent, loop
<1>8. CASE Resolve(o)
  BY <1>8 DEF Resolve, spent, loop
<1>9. CASE Diff(o)
  BY <1>9 DEF Diff, spent, loop
<1>10. CASE Drop(o)
  BY <1>10 DEF Drop, spent, loop
<1>11. CASE Link(o)
  BY <1>11 DEF Link, spent, loop
<1>12. CASE Retitle(o)
  BY <1>12 DEF Retitle, spent, loop
<1>13. CASE Rewrite(o)
  BY <1>13 DEF Rewrite, spent, loop
<1>14. CASE Unlink(o)
  BY <1>14 DEF Unlink, spent, loop
<1>15. CASE Erase(o)
  BY <1>15 DEF Erase, spent, loop
<1>. QED
  BY <1>1, <1>2, <1>3, <1>4, <1>5, <1>6, <1>7, <1>8, <1>9, <1>10, <1>11, <1>12, <1>13, <1>14, <1>15 DEF Step

LEMMA VaultKept == VaultInv /\ [VaultNext]_vaultVars => VaultInv'
<1> SUFFICES ASSUME VaultInv, [VaultNext]_vaultVars, ~disturbed'
             PROVE  Sequential' /\ batch' \subseteq Readings
  BY DEF VaultInv, Readings
<1>1. CASE UNCHANGED vaultVars
  <2>1. Sequential
    BY <1>1 DEF VaultInv, vaultVars, spent
  <2>. QED
    BY <1>1, <2>1, QuietKeeps DEF VaultInv, vaultVars, spent, loop
<1>2. ASSUME NEW o \in Ops, Invoke(o) PROVE Sequential' /\ batch' \subseteq Readings
  BY <1>2, InvokeKeeps DEF Invoke, VaultInv, loop
<1>3. ASSUME NEW o \in Ops, Step(o) PROVE Sequential' /\ batch' \subseteq Readings
  <2>0. Sequential /\ batch' \subseteq Readings
    BY <1>3, OpsKeepBatch DEF VaultInv
  <2>1. CASE Match(o)
    BY <2>0, <2>1, MatchKeeps
  <2>2. CASE Check(o)
    BY <2>0, <2>2, CheckKeeps
  <2>3. CASE Lookup(o)
    BY <2>0, <2>3, LookupKeeps
  <2>4. CASE Create(o)
    BY <2>0, <2>4, CreateKeeps
  <2>5. CASE Write(o)
    BY <2>0, <2>5, WriteKeeps
  <2>6. CASE EnsureNext(o)
    BY <2>0, <2>6, EnsureKeeps
  <2>7. CASE Stub(o)
    BY <2>0, <2>7, StubKeeps
  <2>8. CASE Resolve(o)
    BY <2>0, <2>8, ResolveKeeps
  <2>9. CASE Diff(o)
    BY <2>0, <2>9, DiffKeeps
  <2>10. CASE Drop(o)
    BY <2>0, <2>10, DropKeeps
  <2>11. CASE Link(o)
    BY <2>0, <2>11, LinkKeeps
  <2>12. CASE Retitle(o)
    BY <2>0, <2>12, RetitleKeeps
  <2>13. CASE Rewrite(o)
    BY <2>0, <2>13, RewriteKeeps
  <2>14. CASE Unlink(o)
    BY <2>0, <2>14, UnlinkKeeps
  <2>15. CASE Erase(o)
    BY <2>0, <2>15, EraseKeeps
  <2>. QED
    BY <1>3, <2>0, <2>1, <2>2, <2>3, <2>4, <2>5, <2>6, <2>7, <2>8, <2>9, <2>10, <2>11, <2>12, <2>13, <2>14, <2>15 DEF Step
<1>4. CASE Pick \/ EmbedFails \/ Relaunch
  <2>1. UNCHANGED <<notes, edges, next, op, disturbed, strayed>>
    BY <1>4 DEF Pick, EmbedFails, Relaunch, spent
  <2>2. Sequential /\ batch \subseteq Readings
    BY <2>1 DEF VaultInv
  <2>3. batch' \subseteq batch \/ batch' = {[id |-> x, text |-> Document(x)] : x \in Pending}
    BY <1>4 DEF Pick, EmbedFails, Relaunch
  <2>4. \A x \in Pending : x \in Ids /\ Document(x) \in Documents
    <3>1. \A x \in Pending : x \in Ids /\ notes[x] \in NoteRecords
      BY <2>2 DEF Pending, Rows, Sequential, VaultTyped
    <3>. QED
      BY <3>1 DEF NoteRecords, Document, Documents
  <2>5. batch' \subseteq Readings
    BY <2>2, <2>3, <2>4 DEF Readings
  <2>. QED
    BY <2>1, <2>2, <2>5, QuietKeeps
<1>5. ASSUME NEW id \in Ids, Embed(id) PROVE Sequential' /\ batch' \subseteq Readings
  <2>1. UNCHANGED <<edges, next, op, disturbed, strayed>>
    BY <1>5 DEF Embed, spent
  <2>2. Sequential /\ batch \subseteq Readings
    BY <2>1 DEF VaultInv
  <2>3. PICK one \in batch : batch' = batch \ {one} /\ Edit(id, [notes[id] EXCEPT !.vector = one.text, !.behind = FALSE])
    BY <1>5 DEF Embed
  <2>4. one.text \in Documents
    BY <2>2, <2>3 DEF Readings
  <2>5. PICK row, text : row = [notes[id] EXCEPT !.vector = text, !.behind = FALSE] /\ text = one.text
    OBVIOUS
  <2>6. Edit(id, row) /\ text \in Documents
    BY <2>3, <2>4, <2>5
  <2>. QED
    BY <2>1, <2>2, <2>3, <2>5, <2>6, SameTexts
<1>. QED
  BY <1>1, <1>2, <1>3, <1>4, <1>5 DEF VaultNext

LEMMA VaultAlways == VaultSpec => []VaultInv
<1>1. VaultInit => VaultInv
  BY VaultInitially
<1>2. VaultInv /\ [VaultNext]_vaultVars => VaultInv'
  BY VaultKept
<1>. QED
  BY <1>1, <1>2, PTL DEF VaultSpec

(* delete_note_by_title takes the edges at both ends of a note along, and  *)
(* replace_mention_edges relates notes that are there (db.rs, graph.rs):   *)
(* as long as no operation met another one, whatever ran before, an edge   *)
(* never outlives a note.                                                  *)
THEOREM EdgesEnd == VaultSpec => []EdgesHaveEnds
<1>1. VaultInv => EdgesHaveEnds
  BY DEF VaultInv, EdgesHaveEnds, Sequential, WellEnded
<1>. QED
  BY <1>1, VaultAlways, PTL

(* "The body is the source of truth, the edges are derived state"          *)
(* (db.rs): after any number of saves, appends, edits, stubs and renames   *)
(* one after the other, the edges of every note are the links of its body, *)
(* although a rename replays the links of no note.                         *)
THEOREM EdgesAreLinks == VaultSpec => []EdgesFollowBodies
<1>1. VaultInv => EdgesFollowBodies
  <2>1. ASSUME VaultInv, ~disturbed, Running = {}, Whole, NEW x \in Rows \ strayed
        PROVE  Mentions(x) = Linked(x)
    <3>1. Settled(x)
      BY <2>1 DEF VaultInv, Sequential, Calm
    <3>. QED
      BY <3>1 DEF Settled, Follows, FoundBy, Linked
  <2>. QED
    BY <2>1 DEF EdgesFollowBodies, AtRest
<1>. QED
  BY <1>1, VaultAlways, PTL
=============================================================================
