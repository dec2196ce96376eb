--------------------------- MODULE ChatTurnProofs ---------------------------
(***************************************************************************)
(* Theorems about ChatTurn, for every set of chats, number of turns,       *)
(* iterations, calls, loads and faults: the window is locked exactly while *)
(* a turn is under way, every call is answered before the model is asked   *)
(* again, a stop holds; and of the rows on screen, that a bubble holds the *)
(* words of its own turn, that a message is shown once and that no bubble  *)
(* streams after its turn, with the exceptions ChatTurn names.             *)
(***************************************************************************)
EXTENDS ChatTurn, WellFoundedInduction, TLAPS

(* What a step may rely on of the shape of turn; that the number of a turn *)
(* is one, only the rows need (Typed, below).                              *)
Fields == {"pc", "chat", "id", "iter", "calls", "owed", "dispatched", "said", "social", "outcome"}
Shape ==
  /\ DOMAIN turn = Turns
  /\ \A n \in Turns : /\ DOMAIN turn[n] = Fields
                      /\ turn[n].pc \in Stages
                      /\ turn[n].calls \in Nat /\ turn[n].owed \in Nat

(* What the loop owes the model at each stage.                             *)
Owing(t) ==
  /\ t.pc \in {"none", "plan", "called", "prepare", "stream"} => t.owed = 0
  /\ t.pc \in {"tools", "exec"} => t.owed = t.calls
  /\ t.pc = "exec" => t.calls > 0
Owed == \A n \in Turns : Owing(turn[n])

(* One turn at a time, and the lock of the window goes with it.            *)
Locked ==
  /\ busy \in BOOLEAN
  /\ busy <=> Running # {}
  /\ \A n, m \in Running : n = m

(* Only turns that have begun to stream are registered, or cancelled.      *)
Early == {"none", "plan", "called", "prepare"}
Begun(n) == n \in Turns /\ turn[n].pc \notin Early
Registered ==
  /\ \A e \in registry : Begun(e[2])
  /\ \A n \in cancelled : Begun(n)

Inv == Shape /\ Owed /\ Locked /\ Registered

-----------------------------------------------------------------------------
(* A step of turn n alone, from one stage to another: what must be shown   *)
(* of it for the parts of Inv that only look at stages and counters.       *)
Moves(n, from, to) ==
  /\ n \in Turns /\ turn[n].pc \in from /\ turn'[n].pc \in to
  /\ DOMAIN turn' = Turns /\ DOMAIN turn'[n] = Fields
  /\ turn'[n].calls \in Nat /\ turn'[n].owed \in Nat
  /\ \A m \in Turns \ {n} : turn'[m] = turn[m]
  /\ Owing(turn'[n])

Waiting == {"plan", "called", "prepare", "stream", "tools", "exec", "save", "finish"}
Resting == {"none", "forget", "ended"}

LEMMA MovesKeepShape ==
  ASSUME Shape, Owed, NEW n, NEW from \in SUBSET Stages, NEW to \in SUBSET Stages, Moves(n, from, to)
  PROVE  Shape' /\ Owed'
  BY DEF Shape, Owed, Moves, Owing

LEMMA RunningIs == ASSUME Shape PROVE Running = {n \in Turns : turn[n].pc \in Waiting}
  BY DEF Shape, Running, Waiting, Stages

(* A turn under way stays the one under way.                               *)
LEMMA GoesOn ==
  ASSUME Shape, Owed, Locked, NEW n, Moves(n, Waiting, Waiting), busy' = busy
  PROVE  Locked'
<1>1. Shape'
  BY MovesKeepShape DEF Waiting, Stages
<1>2. Running' = Running
  BY <1>1, RunningIs DEF Running, Moves, Waiting
<1> QED  BY <1>2 DEF Locked

(* The turn under way ends.                                                *)
LEMMA Ends ==
  ASSUME Shape, Owed, Locked, NEW n, Moves(n, Waiting, Resting), busy' = FALSE
  PROVE  Locked'
<1>1. n \in Running
  BY DEF Moves, Running, Waiting
<1>2. Running' = {}
  BY <1>1 DEF Locked, Running, Moves, Resting
<1> QED  BY <1>2 DEF Locked

(* Entries and tokens: those left, and one of a turn that has begun.       *)
LEMMA StaysBegun ==
  ASSUME Registered, NEW n, NEW from, NEW to, Moves(n, from, to),
         to \cap {"none", "plan", "called", "prepare"} = {} \/ from \subseteq {"none", "plan", "called", "prepare"},
         registry' \subseteq registry, cancelled' \subseteq cancelled
  PROVE  Registered'
  BY DEF Registered, Begun, Early, Moves

-----------------------------------------------------------------------------
LEMMA InitInv == Init => Inv
<1> SUFFICES ASSUME Init PROVE Inv
  OBVIOUS
<1>1. Shape /\ Owed
  BY DEF Init, NoTurn, Shape, Fields, Stages, Owed, Owing
<1>2. Running = {}
  BY DEF Init, NoTurn, Running
<1>3. Locked /\ Registered
  BY <1>2 DEF Init, Locked, Registered
<1> QED  BY <1>1, <1>3 DEF Inv

LEMMA SendKeeps == ASSUME Inv, NEW n \in Turns, Send(n) PROVE Inv'
<1>1. Moves(n, {"none"}, {"plan"})
  BY DEF Inv, Shape, Send, Moves, NoTurn, Fields, Owing
<1>2. Shape' /\ Owed'
  BY <1>1, MovesKeepShape DEF Inv, Stages
<1>3. Running = {} /\ Running' = {n}
  BY <1>1 DEF Inv, Locked, Send, Moves, Running
<1>4. Locked'
  BY <1>3 DEF Locked, Send
<1>5. Registered'
  BY <1>1, StaysBegun DEF Inv, Send
<1> QED  BY <1>2, <1>4, <1>5 DEF Inv

LEMMA PlannedKeeps == ASSUME Inv, NEW n \in Turns, Planned(n) PROVE Inv'
<1>1. registry' = registry /\ cancelled' = cancelled
  BY DEF Planned
<1>2. CASE turn' = [turn EXCEPT ![n].pc = "called"] /\ busy' = busy
  <2>1. Moves(n, {"plan"}, {"called"})
    BY <1>2 DEF Inv, Shape, Planned, Moves, Fields, Owed, Owing
  <2>2. Moves(n, Waiting, Waiting)
    BY <2>1 DEF Moves, Waiting
  <2> QED  BY <1>1, <1>2, <2>1, <2>2, MovesKeepShape, GoesOn, StaysBegun DEF Inv, Stages
<1>3. CASE turn' = [turn EXCEPT ![n] = Ended(n, "error")] /\ busy' = FALSE
  <2>1. Moves(n, {"plan"}, {"ended"})
    BY <1>3 DEF Inv, Shape, Planned, Moves, Fields, Ended, NoTurn, Owing
  <2>2. Moves(n, Waiting, Resting)
    BY <2>1 DEF Moves, Waiting, Resting
  <2> QED  BY <1>1, <1>3, <2>1, <2>2, MovesKeepShape, Ends, StaysBegun DEF Inv, Stages
<1> QED  BY <1>2, <1>3 DEF Planned

(* The steps of the loop that go on and leave the registry alone.          *)
LEMMA LoopKeeps ==
  ASSUME Inv, NEW n \in Turns,
         SaveUser(n) \/ Social(n) \/ Chunk(n) \/ Answer(n) \/ Stopped(n) \/ Dispatch(n) \/ ToolDone(n)
           \/ Reject(n) \/ Again(n) \/ SaveAgent(n)
  PROVE  Inv'
<1>1. registry' = registry /\ cancelled' = cancelled /\ busy' = busy
  BY DEF SaveUser, Social, Chunk, Answer, Stopped, Dispatch, ToolDone, Reject, Again, SaveAgent, Token, view
<1>2. \/ Moves(n, {"called"}, {"prepare"})
      \/ Moves(n, {"prepare"}, {"finish"})
      \/ Moves(n, {"stream", "tools", "exec", "save"}, {"stream", "tools", "exec", "save", "finish"})
  <2>1. CASE SaveUser(n)
    BY <2>1 DEF Inv, Shape, SaveUser, Goto, Moves, Fields, Owed, Owing
  <2>2. CASE Social(n)
    BY <2>2 DEF Inv, Shape, Social, Moves, Fields, Owed, Owing
  <2>3. CASE Chunk(n)
    BY <2>3 DEF Inv, Shape, Chunk, Moves, Fields, Owed, Owing
  <2>4. CASE Answer(n)
    <3>1. PICK calls \in Nat :
            turn' = [turn EXCEPT ![n].pc = IF n \in cancelled \/ calls = 0 THEN "save" ELSE "tools",
                                 ![n].calls = calls, ![n].owed = calls, ![n].dispatched = FALSE]
      <4>1. 0..MaxCalls \subseteq Nat
        BY ChatTurnAssumption
      <4> QED  BY <2>4, <4>1 DEF Answer
    <3>2. turn[n].pc = "stream"
      BY <2>4 DEF Answer
    <3> DEFINE t == turn'[n]
    <3>3. /\ t.pc \in {"save", "tools"} /\ t.calls = calls /\ t.owed = calls /\ DOMAIN t = Fields
          /\ DOMAIN turn' = Turns /\ \A m \in Turns \ {n} : turn'[m] = turn[m]
      BY <3>1 DEF Inv, Shape, Fields
    <3> QED  BY <3>2, <3>3 DEF Moves, Owing
  <2>5. CASE Stopped(n)
    BY <2>5 DEF Inv, Shape, Stopped, Goto, Moves, Fields, Owed, Owing
  <2>6. CASE Dispatch(n)
    BY <2>6 DEF Inv, Shape, Dispatch, Moves, Fields, Owed, Owing
  <2>7. CASE ToolDone(n)
    BY <2>7 DEF Inv, Shape, ToolDone, Moves, Fields, Owed, Owing
  <2>8. CASE Reject(n)
    BY <2>8 DEF Inv, Shape, Reject, Rejected, Moves, Fields, Owed, Owing
  <2>9. CASE Again(n)
    BY <2>9 DEF Inv, Shape, Again, Over, AtCap, Moves, Fields, Owed, Owing
  <2>10. CASE SaveAgent(n)
    BY <2>10 DEF Inv, Shape, SaveAgent, Goto, Moves, Fields, Owed, Owing
  <2> QED  BY <2>1, <2>2, <2>3, <2>4, <2>5, <2>6, <2>7, <2>8, <2>9, <2>10
<1>3. Moves(n, Waiting, Waiting)
  BY <1>2 DEF Moves, Waiting
<1>4. Shape' /\ Owed' /\ Locked'
  BY <1>1, <1>3, MovesKeepShape, GoesOn DEF Inv, Waiting, Stages
<1>5. Registered'
  BY <1>1, <1>2, StaysBegun DEF Inv
<1> QED  BY <1>4, <1>5 DEF Inv

LEMMA RegisterKeeps == ASSUME Inv, NEW n \in Turns, Register(n) PROVE Inv'
<1>1. Moves(n, {"prepare"}, {"stream"}) /\ busy' = busy
  BY DEF Inv, Shape, Register, Goto, Moves, Fields, Owed, Owing, view
<1>2. Moves(n, Waiting, Waiting)
  BY <1>1 DEF Moves, Waiting
<1>3. Shape' /\ Owed' /\ Locked'
  BY <1>1, <1>2, MovesKeepShape, GoesOn DEF Inv, Waiting, Stages
<1>4. \A m : Begun(m) => Begun(m)'
  BY <1>1 DEF Begun, Early, Moves
<1>5. Begun(n)'
  BY <1>1 DEF Begun, Early, Moves
<1>6. registry' \subseteq registry \cup {<<turn[n].id, n>>}
  BY DEF Register
<1>7. \A m \in cancelled' : m \in cancelled \/ \E e \in registry : m = e[2]
  BY DEF Register, Tokens, Entries
<1>8. Registered'
  BY <1>4, <1>5, <1>6, <1>7 DEF Inv, Registered
<1> QED  BY <1>3, <1>8 DEF Inv

(* The ends of a turn; ForgetFailed comes after the window was told.       *)
LEMMA EndKeeps == ASSUME Inv, NEW n \in Turns, Finish(n) \/ StreamFails(n) PROVE Inv'
<1>1. registry' \subseteq registry /\ cancelled' \subseteq cancelled /\ busy' = FALSE
  BY DEF Finish, StreamFails, Forget, Done, Failed, Unlock
<1>2. Moves(n, {"finish", "stream"}, {"ended", "forget"})
  <2>1. CASE Finish(n)
    BY <2>1 DEF Inv, Shape, Finish, Ended, NoTurn, Moves, Fields, Owing
  <2>2. CASE StreamFails(n)
    BY <2>2 DEF Inv, Shape, StreamFails, Moves, Fields, Owed, Owing
  <2> QED  BY <2>1, <2>2
<1>3. Moves(n, Waiting, Resting)
  BY <1>2 DEF Moves, Waiting, Resting
<1> QED
  BY <1>1, <1>2, <1>3, MovesKeepShape, Ends, StaysBegun DEF Inv, Stages

LEMMA ForgetFailedKeeps == ASSUME Inv, NEW n \in Turns, ForgetFailed(n) PROVE Inv'
<1>1. registry' \subseteq registry /\ cancelled' \subseteq cancelled /\ busy' = busy
  BY DEF ForgetFailed, Forget, view
<1>2. Moves(n, {"forget"}, {"ended"})
  BY DEF Inv, Shape, ForgetFailed, Ended, NoTurn, Moves, Fields, Owing
<1>3. Running' = Running
  BY <1>2 DEF Running, Moves
<1>4. Locked'
  BY <1>1, <1>3 DEF Inv, Locked
<1> QED  BY <1>1, <1>2, <1>4, MovesKeepShape, StaysBegun DEF Inv, Stages

(* The window's own steps change no turn; Stop cancels what is registered. *)
LEMMA WindowKeeps ==
  ASSUME Inv, turn' = turn, busy' = busy, \A e \in registry' : e \in registry,
         \A m \in cancelled' : m \in cancelled \/ \E e \in registry : m = e[2]
  PROVE  Inv'
  BY DEF Inv, Shape, Owed, Owing, Locked, Running, Registered, Begun, Early

LEMMA StepInv == Inv /\ [Next]_vars => Inv'
<1> SUFFICES ASSUME Inv, [Next]_vars PROVE Inv'
  OBVIOUS
<1>1. CASE \E n \in Turns : Send(n) \/ Step(n) \/ Model(n)
  <2> PICK n \in Turns : Send(n) \/ Step(n) \/ Model(n)
    BY <1>1
  <2> QED
    BY SendKeeps, PlannedKeeps, LoopKeeps, RegisterKeeps, EndKeeps, ForgetFailedKeeps DEF Step, Model
<1>2. CASE Stop
  BY <1>2, WindowKeeps DEF Stop, Tokens, Entries, view
<1>3. CASE \E c \in Chats : Open(c) \/ Read(c) \/ Show(c)
  BY <1>3, WindowKeeps DEF Open, Read, Show, backend, view
<1>4. CASE UNCHANGED vars
  BY <1>4, WindowKeeps DEF vars, backend, view
<1> QED  BY <1>1, <1>2, <1>3, <1>4 DEF Next

(* The invariant behind the three results below: shape, answers owed, the  *)
(* lock and the registry (lib.rs chat_stream, chat_cancel; App.tsx send).  *)
THEOREM Invariant == Spec => []Inv
  BY InitInv, StepInv, PTL DEF Spec

-----------------------------------------------------------------------------
(* The window is locked exactly while a turn is under way, however it ends *)
(* and whatever is shown meanwhile (App.tsx setBusy).                      *)
THEOREM LockFollowsTurn == Spec => []LockedByTurn
<1>1. Inv => LockedByTurn
  BY DEF Inv, Locked, LockedByTurn
<1> QED  BY <1>1, Invariant, PTL

(* When the model is asked again every call has its result (lib.rs agent   *)
(* loop), for any number of calls, answers and stops.                      *)
THEOREM CallsAreAnswered == Spec => []EveryCallAnswered
<1>1. Inv => EveryCallAnswered
  BY DEF Inv, Owed, Owing, EveryCallAnswered
<1> QED  BY <1>1, Invariant, PTL

(* A cancelled turn starts no tool and asks the model nothing: each step   *)
(* that does looks at the token first, and no turn is cancelled before it  *)
(* streams (lib.rs is_cancelled).                                          *)
THEOREM StopsHold == Spec => StopHolds
<1> DEFINE Held == \A n \in cancelled :
                     /\ turn'[n].pc = "stream" => turn[n].pc = "stream"
                     /\ turn'[n].pc = "exec" => turn[n].pc = "exec"
<1>1. ASSUME Inv, [Next]_vars PROVE [Held]_vars
  <2> SUFFICES ASSUME NEW n \in cancelled
               PROVE  /\ turn'[n].pc = "stream" => turn[n].pc = "stream"
                      /\ turn'[n].pc = "exec" => turn[n].pc = "exec"
    OBVIOUS
  <2>1. n \in Turns /\ turn[n].pc \notin Early
    BY <1>1 DEF Inv, Registered, Begun, Early
  <2>2. CASE \E m \in Turns : Send(m) \/ Step(m) \/ Model(m)
    <3> PICK m \in Turns : Send(m) \/ Step(m) \/ Model(m)
      BY <2>2
    <3>1. CASE Send(m) \/ Planned(m) \/ SaveUser(m) \/ Social(m) \/ Register(m)
      <4>1. m # n
        BY <2>1, <3>1 DEF Early, Send, Planned, SaveUser, Social, Register
      <4>2. turn'[n] = turn[n]
        BY <1>1, <2>1, <3>1, <4>1 DEF Inv, Shape, Send, Planned, SaveUser, Social, Register, Goto
      <4> QED  BY <4>2
    <3>2. CASE Chunk(m) \/ Stopped(m) \/ StreamFails(m)
      BY <1>1, <2>1, <3>2 DEF Inv, Shape, Fields, Chunk, Stopped, StreamFails, Goto
    <3>6. CASE Answer(m)
      <4>1. PICK calls :
              turn' = [turn EXCEPT ![m].pc = IF m \in cancelled \/ calls = 0 THEN "save" ELSE "tools",
                                   ![m].calls = calls, ![m].owed = calls, ![m].dispatched = FALSE]
        BY <3>6 DEF Answer
      <4>2. turn'[n] = turn[n] \/ turn'[n].pc \in {"save", "tools"}
        BY <1>1, <2>1, <4>1 DEF Inv, Shape, Fields
      <4> QED  BY <4>2
    <3>3. CASE Dispatch(m) \/ ToolDone(m) \/ Reject(m)
      BY <1>1, <2>1, <3>3 DEF Inv, Shape, Fields, Dispatch, ToolDone, Reject, Rejected
    <3>4. CASE Again(m)
      BY <1>1, <2>1, <3>4 DEF Inv, Shape, Fields, Again, Over
    <3>5. CASE SaveAgent(m)
      BY <1>1, <2>1, <3>5 DEF Inv, Shape, Fields, SaveAgent, Goto
    <3>7. CASE Finish(m) \/ ForgetFailed(m)
      <4>1. turn'[n] = turn[n] \/ turn'[n].pc = "ended"
        BY <1>1, <2>1, <3>7 DEF Inv, Shape, Finish, ForgetFailed, Ended, NoTurn
      <4> QED  BY <4>1
    <3> QED  BY <3>1, <3>2, <3>3, <3>4, <3>5, <3>6, <3>7 DEF Step, Model
  <2>3. CASE Stop \/ (\E c \in Chats : Open(c) \/ Read(c) \/ Show(c)) \/ UNCHANGED vars
    BY <2>3 DEF Stop, Open, Read, Show, backend, vars
  <2> QED  BY <1>1, <2>2, <2>3 DEF Next
<1> QED  BY <1>1, Invariant, PTL DEF Spec, StopHolds
-----------------------------------------------------------------------------
(* The screen: rows, live copies and messages.                             *)

Roles    == {"user", "agent"}
Msgs     == (Turns \cup {0}) \X Roles
Statuses == {"streaming", "done", "error"}
RowSet   == [id : Nat, msg : Msgs, heard : SUBSET Turns, status : Statuses]
Loads    == [stage : {"none", "asked", "answered"}, answer : Seq(Msgs)]
Who(r)   == r.msg[1]

Typed ==
  /\ rows \in Seq(RowSet) /\ nextId \in Nat /\ shown \in Chats
  /\ live \in [Chats -> Seq(RowSet)] /\ db \in [Chats -> Seq(Msgs)]
  /\ load \in [Chats -> Loads]
  /\ strayed \subseteq Turns
  /\ \A n \in Running : turn[n].id \in Nat \ {0} /\ turn[n].chat \in Chats

(* chat:token and the end of a turn find the live copies of its chat.      *)
ChatKnown ==
  /\ \A n \in Running : turn[n].pc # "plan" => \A d : <<turn[n].id, d>> \in chatOf <=> d = turn[n].chat
  /\ \A n \in Turns : turn[n].outcome = "error" => turn[n].pc \in {"forget", "ended"}

(* Live copies are those of turns of the chat that go on or have failed.   *)
Copy(c, r) ==
  LET n == Who(r)
  IN /\ n \in Turns /\ turn[n].chat = c /\ turn[n].pc \notin {"none", "plan"}
     /\ n \in Running => r.id \in {turn[n].id - 1, turn[n].id}
     /\ n \notin Running => turn[n].outcome = "error"
Copies ==
  \A c \in Chats :
    /\ \A i \in DOMAIN live[c] : Copy(c, live[c][i])
    /\ \A i, j \in DOMAIN live[c] : live[c][i].msg = live[c][j].msg => i = j

(* What streams belongs to the turn under way and has its number.          *)
Streams(s) ==
  \A i \in DOMAIN s :
    s[i].status = "streaming" => Who(s[i]) \in Running /\ s[i].id = turn[Who(s[i])].id
Spin == Streams(rows) /\ \A c \in Chats : Streams(live[c])

(* The database and the answers of list_messages hold a message once.      *)
Stored(c, m) ==
  LET n == m[1]
  IN n # 0 => /\ turn[n].chat = c /\ turn[n].pc \notin {"none", "plan", "called"}
              /\ m[2] = "agent" => turn[n].pc \in {"finish", "forget", "ended"}
Filed(c, q) ==
  /\ \A i \in DOMAIN q : Stored(c, q[i])
  /\ \A i, j \in DOMAIN q : q[i] = q[j] => i = j \/ q[i][1] = 0
Once(s) ==
  /\ \A i \in DOMAIN s : Who(s[i]) # 0 => turn[Who(s[i])].pc \notin {"none", "plan"}
  /\ \A i, j \in DOMAIN s :
       s[i].msg = s[j].msg /\ Who(s[i]) # 0
         => i = j \/ Who(s[i]) \in strayed \cup reloaded \/ turn[Who(s[i])].outcome = "error"
Single == Once(rows) /\ \A c \in Chats : Filed(c, db[c]) /\ Filed(c, load[c].answer)

(* Numbers: what has the number of a turn that did not stray is its own.   *)
Words(s)       == \A i \in DOMAIN s : Who(s[i]) \notin strayed => s[i].heard \subseteq {Who(s[i])} \cup strayed
Mine(s, m)     == \A i \in DOMAIN s : s[i].id = turn[m].id => Who(s[i]) \in {m} \cup strayed
Below(s)       == \A i \in DOMAIN s : s[i].id < nextId \/ Who(s[i]) \in strayed
Numbered(q, m) == \A i \in DOMAIN q : i >= turn[m].id => q[i][1] = m
Placed(m) ==
  LET c == turn[m].chat
  IN /\ Mine(rows, m) /\ Mine(live[c], m)
     /\ Numbered(db[c], m) /\ Numbered(load[c].answer, m)
     /\ turn[m].pc = "plan" => turn[m].id < nextId
Numbers ==
  /\ Words(rows) /\ \A c \in Chats : Words(live[c])
  /\ Below(rows)
  /\ \A m \in Running \ strayed : Placed(m)

Screen == Typed /\ ChatKnown /\ Copies /\ Spin /\ Single /\ Numbers

-----------------------------------------------------------------------------
(* Sequences of rows.                                                      *)

(* A property of numbers that holds at 0, and at each one if it holds at   *)
(* the one before, holds up to n: as the set of the numbers that have it.  *)
LEMMA UpTo ==
  ASSUME NEW n \in Nat, NEW P, 0 \in P, \A i \in 1..n : i - 1 \in P => i \in P
  PROVE  n \in P
<1> SUFFICES ASSUME n \notin P PROVE FALSE
  OBVIOUS
<1> DEFINE Rest == (0..n) \ P
<1>1. Rest \subseteq Nat /\ n \in Rest
  OBVIOUS
<1>2. PICK m \in Rest : \A i \in Rest : <<i, m>> \notin OpToRel(<, Nat)
  BY <1>1, WFMin, NatLessThanWellFounded
<1>3. OpToRel(<, Nat) = {ss \in Nat \X Nat : ss[1] < ss[2]}
  BY DEF OpToRel
<1>4. \A i \in Rest : ~(i < m)
  BY <1>1, <1>2, <1>3
<1>5. m \in 0..n /\ m \notin P /\ m # 0
  BY <1>2
<1>6. m \in 1..n /\ m - 1 \in 0..n /\ m - 1 < m
  BY <1>5
<1>7. m - 1 \in Rest
  BY <1>5, <1>6
<1> QED  BY <1>4, <1>6, <1>7

Apart(s) == \A i, j \in DOMAIN s : s[i].msg = s[j].msg => i = j

(* What Without leaves: rows of s, of other numbers, each once.            *)
Remains(s, ids, r) ==
  /\ r \in Seq(RowSet) /\ Apart(r)
  /\ \A k \in DOMAIN r : \E j \in DOMAIN s : r[k] = s[j] /\ s[j].id \notin ids

LEMMA WithoutIs ==
  ASSUME NEW s \in Seq(RowSet), NEW ids, Apart(s)
  PROVE  Remains(s, ids, Without(s, ids))
<1> DEFINE n == Len(s)
           Longer(r, i) == IF s[i].id \in ids THEN r ELSE Append(r, s[i])
           R == Seq(RowSet)
           F(g, m) == \A i \in 0..m : g[i] = IF i = 0 THEN << >> ELSE Longer(g[i - 1], i)
<1>1. n \in Nat /\ << >> \in R /\ \A i \in 1..n, r \in R : Longer(r, i) \in R
  OBVIOUS
<1> HIDE DEF R, Longer
<1>2. \E g \in [0..n -> R] : F(g, n)
  <2> DEFINE P == {m \in 0..n : \E g \in [0..m -> R] : F(g, m)}
  <2>1. 0 \in P
    <3> DEFINE g == [i \in 0..0 |-> << >>]
    <3>1. g \in [0..0 -> R]
      BY <1>1
    <3>2. F(g, 0)
      OBVIOUS
    <3> HIDE DEF g, F
    <3> QED  BY <1>1, <3>1, <3>2
  <2>2. ASSUME NEW m \in 1..n, m - 1 \in P PROVE m \in P
    <3>1. PICK g \in [0..(m - 1) -> R] : F(g, m - 1)
      <4> HIDE DEF F
      <4> QED  BY <2>2
    <3> DEFINE h == [i \in 0..m |-> IF i = m THEN Longer(g[m - 1], m) ELSE g[i]]
    <3>2. g[m - 1] \in R
      BY <1>1
    <3>3. h \in [0..m -> R]
      BY <1>1, <3>2
    <3>4. F(h, m)
      BY <1>1, <3>1
    <3> HIDE DEF h, F
    <3> QED  BY <3>3, <3>4
  <2> HIDE DEF P, F
  <2>3. n \in P
    BY <1>1, <2>1, <2>2, UpTo
  <2> QED  BY <2>3 DEF P
<1> DEFINE kept == CHOOSE g : g = [i \in 0..n |-> IF i = 0 THEN << >> ELSE Longer(g[i - 1], i)]
<1>3. kept = [i \in 0..n |-> IF i = 0 THEN << >> ELSE Longer(kept[i - 1], i)]
  <2>1. PICK g \in [0..n -> R] : F(g, n)
    BY <1>2
  <2>2. g = [i \in 0..n |-> IF i = 0 THEN << >> ELSE Longer(g[i - 1], i)]
    BY <2>1
  <2> QED  BY <2>2
<1>4. Without(s, ids) = kept[n]
  BY DEF Without, Longer
<1> HIDE DEF kept
<1> DEFINE So(i) == /\ kept[i] \in R /\ Apart(kept[i])
                    /\ \A k \in DOMAIN kept[i] : \E j \in 1..i : kept[i][k] = s[j] /\ s[j].id \notin ids
           P == {i \in 0..n : So(i)}
<1>5. 0 \in P
  BY <1>1, <1>3 DEF Apart
<1>6. ASSUME NEW i \in 1..n, i - 1 \in P PROVE i \in P
  <2>1. PICK r \in R : r = kept[i - 1]
    BY <1>6
  <2>2. kept[i] = Longer(r, i) /\ So(i - 1)
    BY <1>1, <1>3, <1>6, <2>1
  <2>3. CASE s[i].id \in ids
    <3>1. kept[i] = r /\ 1..(i - 1) \subseteq 1..i
      BY <2>2, <2>3 DEF Longer
    <3> QED  BY <1>1, <2>1, <2>2, <3>1
  <2>4. CASE s[i].id \notin ids
    <3>1. s[i] \in RowSet /\ r \in Seq(RowSet) /\ DOMAIN s = 1..n
      BY DEF R
    <3>2. PICK q : q = Append(r, s[i])
      OBVIOUS
    <3>3. /\ q \in Seq(RowSet) /\ DOMAIN q = 1..(Len(r) + 1) /\ DOMAIN r = 1..Len(r) /\ Len(r) \in Nat
          /\ \A k \in DOMAIN r : q[k] = r[k]
          /\ q[Len(r) + 1] = s[i]
      BY <3>1, <3>2
    <3>4. \A k \in DOMAIN r : \E j \in 1..(i - 1) : r[k] = s[j] /\ s[j].id \notin ids
      BY <2>1, <2>2
    <3>5. \A k \in DOMAIN r : r[k].msg # s[i].msg
      <4>1. \A j \in 1..(i - 1) : j \in DOMAIN s /\ j # i
        BY <3>1
      <4> QED  BY <3>1, <3>4, <4>1 DEF Apart
    <3>6. Apart(r)
      BY <2>1, <2>2
    <3>7. Apart(q)
      BY <3>3, <3>5, <3>6 DEF Apart
    <3>8. \A k \in DOMAIN q : \E j \in 1..i : q[k] = s[j] /\ s[j].id \notin ids
      <4> SUFFICES ASSUME NEW k \in DOMAIN q PROVE \E j \in 1..i : q[k] = s[j] /\ s[j].id \notin ids
        OBVIOUS
      <4>1. CASE k \in DOMAIN r
        <5>1. PICK j \in 1..(i - 1) : r[k] = s[j] /\ s[j].id \notin ids
          BY <3>4, <4>1
        <5> QED  BY <3>3, <4>1, <5>1
      <4>2. CASE k \notin DOMAIN r
        BY <2>4, <3>3, <4>2
      <4> QED  BY <4>1, <4>2
    <3>9. kept[i] = q
      BY <2>2, <2>4, <3>2 DEF Longer
    <3>10. So(i)
      BY <3>3, <3>7, <3>8, <3>9 DEF R
    <3> QED  BY <3>10
  <2> QED  BY <2>3, <2>4
<1> HIDE DEF P
<1>7. n \in P
  BY <1>1, <1>5, <1>6, UpTo
<1>8. So(n)
  BY <1>7 DEF P
<1> QED  BY <1>4, <1>8 DEF Remains, R

(* Numbers go on above the rows.                                           *)
LEMMA NextIdIs ==
  ASSUME NEW s \in Seq(RowSet)
  PROVE  NextId(s) \in Nat /\ \A i \in DOMAIN s : s[i].id < NextId(s)
<1>1. CASE s = << >>
  BY <1>1 DEF NextId
<1>2. CASE s # << >>
  <2> DEFINE n == Len(s)
             Top(m) == \E j \in 1..m : \A i \in 1..m : s[i].id <= s[j].id
             P == {m \in 0..n : m > 0 => Top(m)}
  <2>1. n \in Nat \ {0} /\ DOMAIN s = 1..n /\ \A i \in 1..n : s[i].id \in Nat
    <3>1. n \in Nat \ {0} /\ DOMAIN s = 1..n
      BY <1>2
    <3>2. \A i \in 1..n : s[i] \in RowSet
      BY <3>1
    <3> QED  BY <3>1, <3>2 DEF RowSet
  <2>2. 0 \in P
    BY <2>1
  <2>3. ASSUME NEW m \in 1..n, m - 1 \in P PROVE m \in P
    <3>1. CASE m = 1
      <4>1. \A i \in 1..1 : s[i].id <= s[1].id
        BY <2>1
      <4> QED  BY <2>1, <3>1, <4>1
    <3>2. CASE m # 1
      <4>1. PICK j \in 1..(m - 1) : \A i \in 1..(m - 1) : s[i].id <= s[j].id
        BY <2>3, <3>2
      <4>2. CASE s[m].id <= s[j].id
        <5>1. j \in 1..m /\ \A i \in 1..m : s[i].id <= s[j].id
          BY <4>1, <4>2
        <5> QED  BY <2>1, <5>1
      <4>3. CASE ~(s[m].id <= s[j].id)
        <5>1. m \in 1..m /\ \A i \in 1..m : s[i].id <= s[m].id
          BY <2>1, <4>1, <4>3
        <5> QED  BY <2>1, <5>1
      <4> QED  BY <4>2, <4>3
    <3> QED  BY <3>1, <3>2
  <2> HIDE DEF P
  <2>4. n \in P
    BY <2>1, <2>2, <2>3, UpTo
  <2>5. PICK j \in 1..n : \A i \in 1..n : s[i].id <= s[j].id
    BY <2>1, <2>4 DEF P
  <2> DEFINE S == {s[i].id : i \in DOMAIN s}
  <2>6. s[j].id \in S /\ \A y \in S : s[j].id >= y
    BY <2>1, <2>5
  <2>7. Max(S) \in S /\ \A y \in S : Max(S) >= y
    BY <2>6 DEF Max
  <2>8. S \subseteq Nat /\ NextId(s) = Max(S) + 1
    BY <1>2, <2>1 DEF NextId
  <2>9. \A i \in DOMAIN s : s[i].id \in S
    OBVIOUS
  <2> HIDE DEF S
  <2>10. PICK m : m = Max(S)
    OBVIOUS
  <2>11. m \in Nat /\ NextId(s) = m + 1 /\ \A i \in DOMAIN s : s[i].id \in Nat /\ m >= s[i].id
    BY <2>7, <2>8, <2>9, <2>10
  <2> QED  BY <2>11
<1> QED  BY <1>1, <1>2

(* An event changes no number and no message.                              *)
Same(r, s) ==
  /\ r \in Seq(RowSet) /\ DOMAIN r = DOMAIN s
  /\ \A i \in DOMAIN s : r[i].id = s[i].id /\ r[i].msg = s[i].msg

HeardOf(r, s, id, n) ==
  /\ Same(r, s)
  /\ \A i \in DOMAIN s : /\ r[i].status = s[i].status
                         /\ r[i].heard = IF s[i].id = id THEN s[i].heard \cup {n} ELSE s[i].heard

LEMMA HeardIs ==
  ASSUME NEW s \in Seq(RowSet), NEW id, NEW n \in Turns
  PROVE  HeardOf(Heard(s, id, n), s, id, n)
<1>1. PICK r : r = Heard(s, id, n)
  OBVIOUS
<1>2. \A i \in DOMAIN s : s[i] \in RowSet
  OBVIOUS
<1>3. DOMAIN r = 1..Len(s) /\ Len(s) \in Nat
  BY <1>1 DEF Heard
<1>4. \A i \in DOMAIN s : r[i] = IF s[i].id = id THEN [s[i] EXCEPT !.heard = @ \cup {n}] ELSE s[i]
  BY <1>1 DEF Heard
<1>5. \A i \in DOMAIN s : /\ r[i] \in RowSet /\ r[i].id = s[i].id /\ r[i].msg = s[i].msg
                          /\ r[i].status = s[i].status
  <2> TAKE i \in DOMAIN s
  <2>1. PICK h : h = s[i].heard \cup {n}
    OBVIOUS
  <2>2. h \in SUBSET Turns
    BY <1>2, <2>1 DEF RowSet
  <2>3. r[i] = IF s[i].id = id THEN [s[i] EXCEPT !.heard = h] ELSE s[i]
    BY <1>4, <2>1
  <2> QED  BY <1>2, <2>1, <2>2, <2>3 DEF RowSet
<1>7. \A i \in DOMAIN s : r[i].heard = IF s[i].id = id THEN s[i].heard \cup {n} ELSE s[i].heard
  BY <1>2, <1>4 DEF RowSet
<1>6. r \in Seq(RowSet)
  <2>1. r = [i \in 1..Len(s) |-> r[i]]
    BY <1>1 DEF Heard
  <2>2. \A i \in 1..Len(s) : r[i] \in RowSet
    BY <1>5
  <2> QED  BY <1>3, <2>1, <2>2
<1>8. Same(r, s)
  BY <1>3, <1>5, <1>6 DEF Same
<1> QED  BY <1>1, <1>5, <1>7, <1>8, Zenon DEF HeardOf

SettledOf(r, s, id, status) ==
  /\ Same(r, s)
  /\ \A i \in DOMAIN s : /\ r[i].heard = s[i].heard
                         /\ r[i].status = IF s[i].id = id THEN status ELSE s[i].status

LEMMA SettledIs ==
  ASSUME NEW s \in Seq(RowSet), NEW id, NEW status \in Statuses
  PROVE  SettledOf(Settled(s, id, status), s, id, status)
<1>1. PICK r : r = Settled(s, id, status)
  OBVIOUS
<1>2. \A i \in DOMAIN s : s[i] \in RowSet
  OBVIOUS
<1>3. DOMAIN r = 1..Len(s) /\ Len(s) \in Nat
  BY <1>1 DEF Settled
<1>4. \A i \in DOMAIN s : r[i] = IF s[i].id = id THEN [s[i] EXCEPT !.status = status] ELSE s[i]
  BY <1>1 DEF Settled
<1>5. \A i \in DOMAIN s : /\ r[i] \in RowSet /\ r[i].id = s[i].id /\ r[i].msg = s[i].msg
                          /\ r[i].heard = s[i].heard
                          /\ r[i].status = IF s[i].id = id THEN status ELSE s[i].status
  BY <1>2, <1>4 DEF RowSet
<1>6. r \in Seq(RowSet)
  <2>1. r = [i \in 1..Len(s) |-> r[i]]
    BY <1>1 DEF Settled
  <2>2. \A i \in 1..Len(s) : r[i] \in RowSet
    BY <1>5
  <2> QED  BY <1>3, <2>1, <2>2
<1> QED  BY <1>1, <1>3, <1>5, <1>6 DEF SettledOf, Same

(* Sequences joined.                                                       *)
Joint(r, s, t) ==
  /\ DOMAIN s = 1..Len(s) /\ Len(s) \in Nat
  /\ \A i \in DOMAIN r : \/ i \in DOMAIN s /\ r[i] = s[i]
                         \/ i \in Nat /\ i \notin DOMAIN s /\ i - Len(s) \in DOMAIN t /\ r[i] = t[i - Len(s)]

LEMMA Joins ==
  ASSUME NEW S, NEW s \in Seq(S), NEW t \in Seq(S)
  PROVE  s \o t \in Seq(S) /\ Joint(s \o t, s, t)
  BY DEF Joint

-----------------------------------------------------------------------------
LEMMA WhoIs == ASSUME NEW r \in RowSet PROVE Who(r) \in Turns \cup {0}
<1>1. r.msg \in Msgs
  BY DEF RowSet
<1> QED  BY <1>1 DEF Msgs, Who

(* A step of a turn that goes on: what it was sent with stays, it may be   *)
(* heard, and it may file a message.                                       *)
Goes(n) ==
  /\ n \in Running /\ turn[n].pc \notin {"plan", "finish"}
  /\ turn'[n].pc \in {"prepare", "stream", "tools", "exec", "save", "finish"}
  /\ turn'[n].id = turn[n].id /\ turn'[n].chat = turn[n].chat /\ turn'[n].outcome = turn[n].outcome
  /\ \A m \in Turns \ {n} : turn'[m] = turn[m]

Told(r, s, n) ==
  /\ Same(r, s)
  /\ \A i \in DOMAIN s :
       /\ r[i].status = s[i].status
       /\ r[i].heard = s[i].heard \/ (s[i].id = turn[n].id /\ r[i].heard = s[i].heard \cup {n})

Files(n, role) ==
  /\ role \in Roles
  /\ db' = [db EXCEPT ![turn[n].chat] = Append(@, <<n, role>>)]
  /\ role = "user" => turn[n].pc = "called"
  /\ role = "agent" => turn'[n].pc = "finish"

LEMMA Tells ==
  ASSUME Typed, ChatKnown, NEW n \in Running, turn[n].pc # "plan",
         Token(n) \/ (rows' = rows /\ live' = live)
  PROVE  /\ Told(rows', rows, n)
         /\ live' \in [Chats -> Seq(RowSet)]
         /\ \A c \in Chats : Told(live'[c], live[c], n) /\ (c = turn[n].chat \/ live'[c] = live[c])
<1>1. \A s \in Seq(RowSet) : Told(s, s, n)
  BY DEF Told, Same
<1>2. CASE rows' = rows /\ live' = live
  BY <1>1, <1>2 DEF Typed
<1>3. CASE Token(n)
  <2>1. PICK id : id = turn[n].id
    OBVIOUS
  <2>2. n \in Turns
    BY DEF Running
  <2>3. \A s \in Seq(RowSet) : Told(Heard(s, id, n), s, n) /\ Heard(s, id, n) \in Seq(RowSet)
    <3> TAKE s \in Seq(RowSet)
    <3>1. PICK r : r = Heard(s, id, n)
      OBVIOUS
    <3>2. HeardOf(r, s, id, n)
      BY <2>2, <3>1, HeardIs
    <3>3. Same(r, s) /\ \A i \in DOMAIN s : r[i].status = s[i].status
      BY <3>2 DEF HeardOf
    <3>4. \A i \in DOMAIN s : r[i].heard = s[i].heard \/ (s[i].id = id /\ r[i].heard = s[i].heard \cup {n})
      BY <3>2, Zenon DEF HeardOf
    <3>5. Told(r, s, n)
      BY <2>1, <3>3, <3>4 DEF Told
    <3> QED  BY <3>1, <3>3, <3>5 DEF Same
  <2>4. rows' = Heard(rows, id, n)
        /\ live' = [c \in Chats |-> IF <<id, c>> \in chatOf THEN Heard(live[c], id, n) ELSE live[c]]
    BY <1>3, <2>1 DEF Token
  <2>5. \A c \in Chats : <<id, c>> \in chatOf => c = turn[n].chat
    BY <2>1 DEF ChatKnown
  <2>6. rows \in Seq(RowSet) /\ \A c \in Chats : live[c] \in Seq(RowSet)
    BY DEF Typed
  <2> QED  BY <1>1, <2>3, <2>4, <2>5, <2>6
<1> QED  BY <1>2, <1>3

LEMMA OneRuns == ASSUME Inv, NEW n \in Running PROVE Running = {n}
  BY DEF Inv, Locked

LEMMA GoesIs ==
  ASSUME Inv, NEW n, Goes(n)
  PROVE  /\ Running = {n} /\ Running' = {n} /\ n \in Turns
         /\ \A m \in Turns : turn'[m].chat = turn[m].chat /\ turn'[m].id = turn[m].id
                             /\ turn'[m].outcome = turn[m].outcome
         /\ turn[n].pc \in {"called", "prepare", "stream", "tools", "exec", "save"}
<1>1. Running = {n} /\ n \in Turns
  BY OneRuns DEF Goes, Running
<1>2. Running' = {n}
  BY <1>1 DEF Goes, Running
<1>3. turn[n].pc \in {"called", "prepare", "stream", "tools", "exec", "save"}
  BY <1>1 DEF Goes, Running, Inv, Shape, Stages
<1> QED  BY <1>1, <1>2, <1>3 DEF Goes

LEMMA GoesFiled ==
  ASSUME Inv, Typed, NEW n, Goes(n), NEW c \in Chats, NEW q \in Seq(Msgs), Filed(c, q)
  PROVE  /\ Filed(c, q)'
         /\ \A role \in Roles : /\ c = turn[n].chat
                                /\ role = "user" => turn[n].pc = "called"
                                /\ role = "agent" => turn'[n].pc = "finish"
                                => Filed(c, Append(q, <<n, role>>))'
<1>1. \A m \in Msgs : Stored(c, m) => Stored(c, m)'
  <2> SUFFICES ASSUME NEW m \in Msgs, Stored(c, m), m[1] # 0 PROVE Stored(c, m)'
    BY DEF Stored
  <2>1. PICK w \in Turns : w = m[1]
    BY DEF Msgs
  <2>2. turn[w].chat = c /\ turn[w].pc \notin {"none", "plan", "called"}
        /\ (m[2] = "agent" => turn[w].pc \in {"finish", "forget", "ended"})
    BY <2>1 DEF Stored
  <2>3. turn'[w].chat = c /\ turn'[w].pc \notin {"none", "plan", "called"}
        /\ (m[2] = "agent" => turn'[w].pc \in {"finish", "forget", "ended"})
    BY <2>2, GoesIs DEF Goes
  <2> QED  BY <2>1, <2>3 DEF Stored
<1>2. \A i \in DOMAIN q : q[i] \in Msgs
  OBVIOUS
<1>3. Filed(c, q)'
  BY <1>1, <1>2 DEF Filed
<1>4. ASSUME NEW role \in Roles, c = turn[n].chat, role = "user" => turn[n].pc = "called",
             role = "agent" => turn'[n].pc = "finish"
      PROVE  Filed(c, Append(q, <<n, role>>))'
  <2>1. PICK m : m = <<n, role>>
    OBVIOUS
  <2>2. n \in Turns /\ m \in Msgs /\ m[1] = n /\ m[2] = role
    BY <2>1, GoesIs DEF Msgs
  <2>3. PICK p : p = Append(q, m)
    OBVIOUS
  <2>4. /\ DOMAIN p = 1..(Len(q) + 1) /\ DOMAIN q = 1..Len(q) /\ Len(q) \in Nat
        /\ \A k \in DOMAIN q : p[k] = q[k]
        /\ p[Len(q) + 1] = m
    BY <2>2, <2>3
  <2>5. \A k \in DOMAIN q : q[k] # m
    <3> SUFFICES ASSUME NEW k \in DOMAIN q, q[k] = m, n # 0 PROVE FALSE
      BY <2>2 DEF Turns
    <3>1. Stored(c, m)
      BY DEF Filed
    <3>2. turn[n].pc # "called" /\ (role = "agent" => turn[n].pc \in {"finish", "forget", "ended"})
      BY <2>2, <3>1 DEF Stored
    <3> QED  BY <1>4, <3>2, GoesIs DEF Roles
  <2>6. Stored(c, m)'
    <3>1. turn'[n].chat = c /\ turn'[n].pc \notin {"none", "plan", "called"}
      BY <1>4 DEF Goes
    <3> QED  BY <1>4, <2>2, <3>1 DEF Stored
  <2>7. \A i \in DOMAIN p : Stored(c, p[i])'
    BY <1>1, <1>2, <2>4, <2>6 DEF Filed
  <2>8. \A i, j \in DOMAIN p : p[i] = p[j] => i = j \/ p[i][1] = 0
    BY <2>4, <2>5 DEF Filed
  <2>9. Filed(c, p)'
    BY <2>7, <2>8 DEF Filed
  <2> QED  BY <2>1, <2>3, <2>9
<1> QED  BY <1>3, <1>4

LEMMA LoopScreen ==
  ASSUME Inv, Screen, NEW n, Goes(n),
         Token(n) \/ (rows' = rows /\ live' = live),
         db' = db \/ \E role \in Roles : Files(n, role),
         UNCHANGED <<shown, nextId, chatOf, load, strayed, reloaded>>
  PROVE  Screen'
<1>1. /\ Running = {n} /\ Running' = {n} /\ n \in Turns
      /\ \A m \in Turns : turn'[m].chat = turn[m].chat /\ turn'[m].id = turn[m].id
                          /\ turn'[m].outcome = turn[m].outcome
  BY GoesIs
<1>2. turn[n].pc # "plan" /\ turn'[n].pc # "plan" /\ \A m \in Turns : m # n => turn'[m] = turn[m]
  BY DEF Goes
<1>3. Typed /\ ChatKnown /\ Copies /\ Spin /\ Single /\ Numbers
  BY DEF Screen
<1>4. /\ Told(rows', rows, n)
      /\ live' \in [Chats -> Seq(RowSet)]
      /\ \A c \in Chats : Told(live'[c], live[c], n) /\ (c = turn[n].chat \/ live'[c] = live[c])
  BY <1>1, <1>2, <1>3, Tells
<1>5. \A c \in Chats : db[c] \in Seq(Msgs) /\ load[c].answer \in Seq(Msgs)
  BY <1>3 DEF Typed, Loads
<1>6. /\ DOMAIN db' = Chats
      /\ \A c \in Chats : \/ db'[c] = db[c]
                          \/ /\ c = turn[n].chat
                             /\ \E role \in Roles : /\ db'[c] = Append(db[c], <<n, role>>)
                                                    /\ role = "user" => turn[n].pc = "called"
                                                    /\ role = "agent" => turn'[n].pc = "finish"
  <2>1. db \in [Chats -> Seq(Msgs)]
    BY <1>3 DEF Typed
  <2>2. CASE db' = db
    BY <2>1, <2>2
  <2>3. CASE \E role \in Roles : Files(n, role)
    <3>1. PICK role \in Roles : Files(n, role)
      BY <2>3
    <3>2. PICK m : m = <<n, role>>
      OBVIOUS
    <3>3. db' = [db EXCEPT ![turn[n].chat] = Append(db[turn[n].chat], m)]
      BY <3>1, <3>2 DEF Files
    <3>4. \A c \in Chats : db'[c] = db[c] \/ (c = turn[n].chat /\ db'[c] = Append(db[c], m))
      BY <2>1, <3>3
    <3>5. (role = "user" => turn[n].pc = "called") /\ (role = "agent" => turn'[n].pc = "finish")
      BY <3>1 DEF Files
    <3> QED  BY <2>1, <3>2, <3>3, <3>4, <3>5
  <2> QED  BY <2>2, <2>3
<1>7. Typed'
  <2>1. \A c \in Chats : db'[c] \in Seq(Msgs)
    <3> SUFFICES ASSUME NEW c \in Chats, db'[c] # db[c] PROVE db'[c] \in Seq(Msgs)
      BY <1>5
    <3>1. PICK role \in Roles : db'[c] = Append(db[c], <<n, role>>)
      BY <1>6
    <3>2. <<n, role>> \in Msgs
      BY <1>1 DEF Msgs
    <3> QED  BY <1>5, <3>1, <3>2
  <2>2. db' \in [Chats -> Seq(Msgs)]
    <3>1. CASE db' = db
      BY <1>3, <3>1 DEF Typed
    <3>2. CASE db' # db
      <4>1. PICK role : Files(n, role)
        BY <3>2
      <4>2. db' = [c \in Chats |-> db'[c]]
        BY <1>3, <4>1 DEF Files, Typed
      <4> QED  BY <2>1, <4>2
    <3> QED  BY <3>1, <3>2
  <2>3. rows' \in Seq(RowSet)
    BY <1>4 DEF Told, Same
  <2>4. \A m \in Running' : turn'[m].id \in Nat \ {0} /\ turn'[m].chat \in Chats
    BY <1>1, <1>3 DEF Typed
  <2> QED  BY <1>3, <1>4, <2>2, <2>3, <2>4 DEF Typed
<1>8. ChatKnown'
  <2>1. turn[n].outcome # "error"
    BY <1>1, <1>3 DEF ChatKnown, Running
  <2>2. turn[n].pc # "plan" /\ turn'[n].id = turn[n].id /\ turn'[n].chat = turn[n].chat
    BY <1>1, <1>2
  <2> QED  BY <1>1, <1>2, <1>3, <2>1, <2>2 DEF ChatKnown
<1>9. \A c \in Chats : \A r : Copy(c, r) => Copy(c, r)'
  BY <1>1, <1>2 DEF Copy, Goes
<1>10. Copies'
  <2> SUFFICES ASSUME NEW c \in Chats
               PROVE  /\ \A i \in DOMAIN live'[c] : Copy(c, live[c][i])'
                      /\ \A i, j \in DOMAIN live'[c] : live'[c][i].msg = live'[c][j].msg => i = j
    BY DEF Copies
  <2>1. Same(live'[c], live[c])
    BY <1>4 DEF Told
  <2>2. \A i \in DOMAIN live[c] : Copy(c, live'[c][i])
    BY <1>3, <2>1 DEF Same, Copies, Copy, Who
  <2>3. \A i, j \in DOMAIN live[c] : live'[c][i].msg = live'[c][j].msg => i = j
    BY <1>3, <2>1 DEF Same, Copies
  <2> QED  BY <1>9, <2>1, <2>2, <2>3 DEF Same
<1>11. Spin'
  <2>1. \A s, r : Told(r, s, n) /\ Streams(s) => Streams(r)'
    BY <1>1 DEF Told, Same, Streams, Who
  <2> QED  BY <1>3, <1>4, <2>1 DEF Spin
<1>12. Single'
  <2>1. Once(rows)'
    <3>1. \A i \in DOMAIN rows : Who(rows[i]) \in Turns \cup {0}
      BY <1>3, WhoIs DEF Typed
    <3>2. \A i \in DOMAIN rows : Who(rows'[i]) = Who(rows[i]) /\ rows'[i].msg = rows[i].msg
      BY <1>4 DEF Told, Same, Who
    <3>3. DOMAIN rows' = DOMAIN rows
      BY <1>4 DEF Told, Same
    <3>4. \A m \in Turns : turn[m].pc \notin {"none", "plan"} => turn'[m].pc \notin {"none", "plan"}
      BY <1>1, <1>2 DEF Goes
    <3>5. Once(rows)
      BY <1>3 DEF Single
    <3> QED  BY <1>1, <3>1, <3>2, <3>3, <3>4, <3>5 DEF Once
  <2>2. \A c \in Chats : Filed(c, db[c])'
    <3> SUFFICES ASSUME NEW c \in Chats PROVE Filed(c, db[c])'
      OBVIOUS
    <3>1. Filed(c, db[c])
      BY <1>3 DEF Single
    <3>2. PICK q \in Seq(Msgs) : q = db[c]
      BY <1>5
    <3>3. CASE db'[c] = q
      <4>1. Filed(c, q)'
        BY <1>3, <3>1, <3>2, GoesFiled
      <4> QED  BY <3>3, <4>1 DEF Filed
    <3>4. CASE db'[c] # q
      <4>1. PICK role \in Roles : /\ db'[c] = Append(q, <<n, role>>)
                                  /\ role = "user" => turn[n].pc = "called"
                                  /\ role = "agent" => turn'[n].pc = "finish"
        BY <1>6, <3>2, <3>4
      <4>2. c = turn[n].chat
        BY <1>6, <3>2, <3>4
      <4>3. Filed(c, Append(q, <<n, role>>))'
        BY <1>3, <3>1, <3>2, <4>1, <4>2, GoesFiled
      <4> QED  BY <4>1, <4>3 DEF Filed
    <3> QED  BY <3>3, <3>4
  <2>3. \A c \in Chats : Filed(c, load[c].answer)'
    <3> SUFFICES ASSUME NEW c \in Chats PROVE Filed(c, load[c].answer)'
      OBVIOUS
    <3>1. PICK q \in Seq(Msgs) : q = load[c].answer
      BY <1>5
    <3>2. Filed(c, q)
      BY <1>3, <3>1 DEF Single
    <3>3. Filed(c, q)'
      BY <1>3, <3>2, GoesFiled
    <3>4. load'[c].answer = q
      BY <3>1
    <3> QED  BY <3>3, <3>4 DEF Filed
  <2> QED  BY <2>1, <2>2, <2>3 DEF Single
<1>13. Numbers'
  <2>1. Words(rows)'
    <3>1. n \notin strayed => Mine(rows, n)
      BY <1>1, <1>3 DEF Numbers, Placed
    <3> QED  BY <1>3, <1>4, <3>1 DEF Numbers, Words, Mine, Told, Same, Who
  <2>2. \A c \in Chats : Words(live[c])'
    <3> SUFFICES ASSUME NEW c \in Chats PROVE Words(live[c])'
      OBVIOUS
    <3>1. n \notin strayed => Mine(live[turn[n].chat], n)
      BY <1>1, <1>3 DEF Numbers, Placed
    <3>2. Told(live'[c], live[c], n) /\ (c = turn[n].chat \/ live'[c] = live[c])
      BY <1>4
    <3>3. Words(live[c])
      BY <1>3 DEF Numbers
    <3>4. CASE c = turn[n].chat
      BY <3>1, <3>2, <3>3, <3>4 DEF Words, Mine, Told, Same, Who
    <3>5. CASE live'[c] = live[c]
      BY <3>3, <3>5 DEF Words
    <3> QED  BY <3>2, <3>4, <3>5
  <2>3. Below(rows)'
    BY <1>3, <1>4 DEF Numbers, Below, Told, Same, Who
  <2>4. n \notin strayed => Placed(n)'
    <3> SUFFICES ASSUME n \notin strayed PROVE Placed(n)'
      OBVIOUS
    <3>1. PICK c \in Chats : c = turn[n].chat
      BY <1>1, <1>3 DEF Typed
    <3>2. turn'[n].chat = c /\ turn'[n].id = turn[n].id
      BY <1>1, <3>1
    <3>3. Mine(rows, n) /\ Mine(live[c], n) /\ Numbered(db[c], n) /\ Numbered(load[c].answer, n)
      BY <1>1, <1>3, <3>1 DEF Numbers, Placed
    <3>4. \A s, r : Told(r, s, n) /\ Mine(s, n) => Mine(r, n)'
      BY <3>2 DEF Told, Same, Mine, Who
    <3>5. Mine(rows, n)' /\ Mine(live[c], n)'
      BY <1>4, <3>3, <3>4
    <3>6. Numbered(db[c], n)'
      <4>1. CASE db'[c] = db[c]
        BY <3>2, <3>3, <4>1 DEF Numbered
      <4>2. CASE db'[c] # db[c]
        <5>1. PICK role \in Roles : db'[c] = Append(db[c], <<n, role>>)
          BY <1>6, <4>2
        <5>2. PICK m : m = <<n, role>>
          OBVIOUS
        <5>3. m \in Msgs /\ m[1] = n
          BY <1>1, <5>2 DEF Msgs
        <5>4. db'[c] = Append(db[c], m)
          BY <5>1, <5>2
        <5>5. \A i \in DOMAIN db'[c] : (i \in DOMAIN db[c] /\ db'[c][i] = db[c][i]) \/ db'[c][i] = m
          BY <1>5, <5>3, <5>4
        <5> QED  BY <3>2, <3>3, <5>3, <5>5 DEF Numbered
      <4> QED  BY <4>1, <4>2
    <3>7. Numbered(load[c].answer, n)'
      BY <3>2, <3>3 DEF Numbered
    <3> QED  BY <1>2, <3>2, <3>5, <3>6, <3>7 DEF Placed
  <2> QED  BY <1>1, <2>1, <2>2, <2>3, <2>4 DEF Numbers
<1> QED  BY <1>7, <1>8, <1>10, <1>11, <1>12, <1>13 DEF Screen

(* Steps that leave the rows alone: the window opens a chat or gets an     *)
(* answer, a failed turn is forgotten.                                     *)
LEMMA StillScreen ==
  ASSUME Inv, Screen, Running' = Running,
         \A m \in Turns : \/ turn'[m] = turn[m]
                          \/ /\ turn[m].pc = "forget" /\ turn'[m].pc = "ended"
                             /\ turn'[m].chat = turn[m].chat /\ turn'[m].outcome = "error",
         shown' \in Chats, load' \in [Chats -> Loads],
         \A c \in Chats : load'[c].answer \in {load[c].answer, db[c], << >>},
         UNCHANGED <<db, rows, live, nextId, chatOf, strayed, reloaded>>
  PROVE  Screen'
<1>1. Typed /\ ChatKnown /\ Copies /\ Spin /\ Single /\ Numbers
  BY DEF Screen
<1>2. \A m \in Running : m \in Turns /\ turn'[m] = turn[m]
  BY DEF Running
<1>3. Typed'
  BY <1>1, <1>2 DEF Typed
<1>4. ChatKnown'
  <2>1. \A m \in Running : turn[m].pc # "plan" => \A d : <<turn[m].id, d>> \in chatOf <=> d = turn[m].chat
    BY <1>1 DEF ChatKnown
  <2>2. \A m \in Turns : turn'[m].outcome = "error" => turn'[m].pc \in {"forget", "ended"}
    BY <1>1 DEF ChatKnown
  <2> QED  BY <1>2, <2>1, <2>2 DEF ChatKnown
<1>5. \A c, r : Copy(c, r) => Copy(c, r)'
  BY <1>2 DEF Copy
<1>6. Copies'
  BY <1>1, <1>5 DEF Copies
<1>7. Spin'
  <2>1. \A s : Streams(s) => Streams(s)'
    BY <1>2 DEF Streams
  <2> QED  BY <1>1, <2>1 DEF Spin
<1>8. Single'
  <2>1. Once(rows)'
    <3>1. \A i \in DOMAIN rows : Who(rows[i]) \in Turns \cup {0}
      BY <1>1, WhoIs DEF Typed
    <3>2. \A m \in Turns : /\ turn[m].pc \notin {"none", "plan"} => turn'[m].pc \notin {"none", "plan"}
                           /\ turn[m].outcome = "error" => turn'[m].outcome = "error"
      OBVIOUS
    <3>3. Once(rows)
      BY <1>1 DEF Single
    <3> QED  BY <3>1, <3>2, <3>3 DEF Once
  <2>2. \A c \in Chats : \A q \in Seq(Msgs) : Filed(c, q) => Filed(c, q)'
    <3>1. ASSUME NEW c, NEW m \in Msgs, Stored(c, m) PROVE Stored(c, m)'
      <4>1. m[1] \in Turns \cup {0}
        BY DEF Msgs
      <4> QED  BY <3>1, <4>1 DEF Stored
    <3>2. \A q \in Seq(Msgs) : \A i \in DOMAIN q : q[i] \in Msgs
      OBVIOUS
    <3> QED  BY <3>1, <3>2 DEF Filed
  <2>3. \A c \in Chats : Filed(c, db[c])'
    <3> SUFFICES ASSUME NEW c \in Chats PROVE Filed(c, db[c])'
      OBVIOUS
    <3>1. db[c] \in Seq(Msgs) /\ Filed(c, db[c])
      BY <1>1 DEF Typed, Single
    <3>2. PICK q \in Seq(Msgs) : q = db[c]
      BY <3>1
    <3>3. Filed(c, q)'
      BY <2>2, <3>1, <3>2
    <3> QED  BY <3>2, <3>3 DEF Filed
  <2>4. \A c \in Chats : Filed(c, load[c].answer)'
    <3> SUFFICES ASSUME NEW c \in Chats PROVE Filed(c, load[c].answer)'
      OBVIOUS
    <3>1. PICK q : q = load'[c].answer
      OBVIOUS
    <3>2. q \in {load[c].answer, db[c], << >>}
      BY <3>1
    <3>3. Filed(c, << >>)
      BY DEF Filed
    <3>4. q \in Seq(Msgs) /\ Filed(c, q)
      <4>1. CASE q = load[c].answer
        BY <1>1, <4>1 DEF Typed, Single, Loads
      <4>2. CASE q = db[c]
        BY <1>1, <4>2 DEF Typed, Single
      <4>3. CASE q = << >>
        BY <3>3, <4>3
      <4> QED  BY <3>2, <4>1, <4>2, <4>3
    <3>5. Filed(c, q)'
      BY <2>2, <3>4
    <3> QED  BY <3>1, <3>5 DEF Filed
  <2> QED  BY <2>1, <2>3, <2>4 DEF Single
<1>9. Numbers'
  <2>1. Words(rows)' /\ (\A c \in Chats : Words(live[c])') /\ Below(rows)'
    BY <1>1 DEF Numbers, Words, Below
  <2>2. ASSUME NEW m \in Running \ strayed PROVE Placed(m)'
    <3>1. PICK c \in Chats : c = turn[m].chat
      BY <1>1 DEF Typed
    <3>2. /\ Mine(rows, m) /\ Mine(live[c], m) /\ Numbered(db[c], m) /\ Numbered(load[c].answer, m)
          /\ turn[m].pc = "plan" => turn[m].id < nextId
      BY <1>1, <3>1 DEF Numbers, Placed
    <3>3. turn'[m] = turn[m]
      BY <1>2
    <3>4. Mine(rows, m)' /\ Mine(live[c], m)' /\ Numbered(db[c], m)'
      BY <3>2, <3>3 DEF Mine, Numbered
    <3>5. Numbered(load[c].answer, m)'
      <4>1. load'[c].answer \in {load[c].answer, db[c], << >>}
        OBVIOUS
      <4> QED  BY <3>2, <3>3, <4>1 DEF Numbered
    <3> QED  BY <3>1, <3>2, <3>3, <3>4, <3>5 DEF Placed
  <2> QED  BY <2>1, <2>2 DEF Numbers
<1> QED  BY <1>3, <1>4, <1>6, <1>7, <1>8, <1>9 DEF Screen

(* A turn ends: its rows stop streaming, and the live copies of it that    *)
(* are left are those of a turn that failed.                               *)
Left(r, s, n) ==
  /\ r.msg = s.msg /\ r.heard = s.heard
  /\ r.status = s.status \/ r.status \in {"done", "error"}
  /\ Who(s) = n => turn'[n].outcome = "error" /\ r.status # "streaming"

LEMMA EndingScreen ==
  ASSUME Inv, Screen, NEW n \in Running, turn[n].pc \in {"stream", "finish"},
         turn'[n].pc \in {"forget", "ended"}, turn'[n].chat = turn[n].chat,
         \A m \in Turns \ {n} : turn'[m] = turn[m],
         NEW st \in {"done", "error"}, SettledOf(rows', rows, turn[n].id, st),
         live' \in [Chats -> Seq(RowSet)],
         \A c \in Chats : /\ Apart(live'[c])
                          /\ \A k \in DOMAIN live'[c] : \E j \in DOMAIN live[c] : Left(live'[c][k], live[c][j], n),
         UNCHANGED <<db, shown, nextId, load, strayed, reloaded>>
  PROVE  Screen'
<1>1. Typed /\ ChatKnown /\ Copies /\ Spin /\ Single /\ Numbers
  BY DEF Screen
<1>2. Running = {n} /\ Running' = {} /\ n \in Turns
  <2>1. Running = {n}
    BY OneRuns
  <2> QED  BY <2>1 DEF Running
<1>3. Same(rows', rows) /\ \A i \in DOMAIN rows : rows'[i].heard = rows[i].heard
  BY DEF SettledOf
<1>4. Typed'
  BY <1>1, <1>2, <1>3 DEF Typed, Same
<1>5. ChatKnown'
  BY <1>1, <1>2 DEF ChatKnown
<1>6. Copies'
  <2> SUFFICES ASSUME NEW c \in Chats, NEW k \in DOMAIN live'[c] PROVE Copy(c, live[c][k])'
    BY DEF Copies, Apart
  <2>1. PICK j \in DOMAIN live[c] : Left(live'[c][k], live[c][j], n)
    OBVIOUS
  <2>2. PICK w \in Turns : w = Who(live[c][j]) /\ w = Who(live'[c][k])
    BY <1>1, <2>1 DEF Left, Who, Copies, Copy
  <2>3. turn[w].chat = c /\ turn[w].pc \notin {"none", "plan"} /\ (w # n => turn[w].outcome = "error")
    <3>1. PICK r : r = live[c][j]
      OBVIOUS
    <3>2. Copy(c, r)
      BY <1>1, <3>1 DEF Copies
    <3> QED  BY <1>2, <2>2, <3>1, <3>2 DEF Copy
  <2>4. turn'[w].chat = c /\ turn'[w].pc \notin {"none", "plan"} /\ turn'[w].outcome = "error"
    BY <2>1, <2>2, <2>3 DEF Left
  <2> QED  BY <1>2, <2>2, <2>4 DEF Copy
<1>7. Spin'
  <2>1. \A i \in DOMAIN rows' : rows'[i].status # "streaming"
    <3> SUFFICES ASSUME NEW i \in DOMAIN rows, rows'[i].status = "streaming" PROVE FALSE
      BY <1>3 DEF Same
    <3>1. rows[i].id # turn[n].id /\ rows[i].status = "streaming"
      BY DEF SettledOf
    <3> QED  BY <1>1, <1>2, <3>1 DEF Spin, Streams
  <2>2. ASSUME NEW c \in Chats, NEW k \in DOMAIN live'[c] PROVE live'[c][k].status # "streaming"
    <3>1. PICK j \in DOMAIN live[c] : Left(live'[c][k], live[c][j], n)
      OBVIOUS
    <3>2. live[c][j].status = "streaming" => Who(live[c][j]) = n
      BY <1>1, <1>2 DEF Spin, Streams
    <3> QED  BY <3>1, <3>2 DEF Left
  <2> QED  BY <2>1, <2>2 DEF Spin, Streams
<1>8. Single'
  <2>1. Once(rows)'
    <3>1. \A i \in DOMAIN rows : Who(rows[i]) \in Turns \cup {0}
      BY <1>1, WhoIs DEF Typed
    <3>2. \A i \in DOMAIN rows : Who(rows'[i]) = Who(rows[i]) /\ rows'[i].msg = rows[i].msg
      BY <1>3 DEF Same, Who
    <3>3. DOMAIN rows' = DOMAIN rows
      BY <1>3 DEF Same
    <3>4. turn[n].outcome # "error"
      BY <1>1, <1>2 DEF ChatKnown
    <3>5. \A m \in Turns : /\ turn[m].pc \notin {"none", "plan"} => turn'[m].pc \notin {"none", "plan"}
                           /\ turn[m].outcome = "error" => turn'[m].outcome = "error"
      BY <3>4
    <3>6. Once(rows)
      BY <1>1 DEF Single
    <3> QED  BY <3>1, <3>2, <3>3, <3>5, <3>6 DEF Once
  <2>2. \A c \in Chats : \A q \in Seq(Msgs) : Filed(c, q) => Filed(c, q)'
    <3>1. ASSUME NEW c, NEW m \in Msgs, Stored(c, m) PROVE Stored(c, m)'
      <4>1. m[1] \in Turns \cup {0}
        BY DEF Msgs
      <4> QED  BY <3>1, <4>1 DEF Stored
    <3>2. \A q \in Seq(Msgs) : \A i \in DOMAIN q : q[i] \in Msgs
      OBVIOUS
    <3> QED  BY <3>1, <3>2 DEF Filed
  <2>3. \A c \in Chats : Filed(c, db[c])' /\ Filed(c, load[c].answer)'
    <3> SUFFICES ASSUME NEW c \in Chats PROVE Filed(c, db[c])' /\ Filed(c, load[c].answer)'
      OBVIOUS
    <3>1. PICK q \in Seq(Msgs) : q = db[c]
      BY <1>1 DEF Typed
    <3>2. PICK p \in Seq(Msgs) : p = load[c].answer
      BY <1>1 DEF Typed, Loads
    <3>3. Filed(c, q)' /\ Filed(c, p)'
      BY <1>1, <2>2, <3>1, <3>2 DEF Single
    <3> QED  BY <3>1, <3>2, <3>3 DEF Filed
  <2> QED  BY <2>1, <2>3 DEF Single
<1>9. Numbers'
  <2>1. Words(rows)' /\ Below(rows)'
    BY <1>1, <1>3 DEF Numbers, Words, Below, Same, Who
  <2>2. ASSUME NEW c \in Chats, NEW k \in DOMAIN live'[c], Who(live'[c][k]) \notin strayed
        PROVE  live'[c][k].heard \subseteq {Who(live'[c][k])} \cup strayed
    <3>1. PICK j \in DOMAIN live[c] : Left(live'[c][k], live[c][j], n)
      OBVIOUS
    <3>2. Who(live'[c][k]) = Who(live[c][j]) /\ live'[c][k].heard = live[c][j].heard
      BY <3>1 DEF Left, Who
    <3>3. Words(live[c])
      BY <1>1 DEF Numbers
    <3> QED  BY <2>2, <3>2, <3>3 DEF Words
  <2> QED  BY <1>2, <2>1, <2>2 DEF Numbers, Words
<1> QED  BY <1>4, <1>5, <1>6, <1>7, <1>8, <1>9 DEF Screen

LEMMA FailsScreen == ASSUME Inv, Screen, NEW n \in Turns, StreamFails(n) PROVE Screen'
<1>1. PICK id : id = turn[n].id
  OBVIOUS
<1>2. /\ turn[n].pc = "stream" /\ n \in Running
      /\ turn'[n].pc = "forget" /\ turn'[n].outcome = "error" /\ turn'[n].chat = turn[n].chat
      /\ \A m \in Turns \ {n} : turn'[m] = turn[m]
  BY DEF StreamFails, Inv, Shape, Fields, Running
<1>3. /\ rows' = Settled(rows, id, "error")
      /\ live' = [c \in Chats |-> IF <<id, c>> \in chatOf THEN Settled(live[c], id, "error") ELSE live[c]]
      /\ UNCHANGED <<db, shown, nextId, load, strayed, reloaded>>
  BY <1>1 DEF StreamFails, Failed, Settle, Unlock, Sub
<1>4. \A c \in Chats : <<id, c>> \in chatOf <=> c = turn[n].chat
  BY <1>1, <1>2 DEF Screen, ChatKnown
<1>5. rows \in Seq(RowSet) /\ live \in [Chats -> Seq(RowSet)] /\ Running = {n}
  BY <1>2, OneRuns DEF Screen, Typed
<1>6. SettledOf(rows', rows, id, "error")
  BY <1>3, <1>5, SettledIs DEF Statuses
<1>7. \A c \in Chats : SettledOf(live'[c], live[c], id, "error") \/ (c # turn[n].chat /\ live'[c] = live[c])
  BY <1>3, <1>4, <1>5, SettledIs DEF Statuses
<1>8. live' \in [Chats -> Seq(RowSet)]
  <2>1. \A c \in Chats : live'[c] \in Seq(RowSet)
    BY <1>5, <1>7 DEF SettledOf, Same
  <2>2. live' = [c \in Chats |-> live'[c]]
    BY <1>3
  <2> QED  BY <2>1, <2>2
<1>9. ASSUME NEW c \in Chats
      PROVE  /\ Apart(live'[c])
             /\ \A k \in DOMAIN live'[c] : \E j \in DOMAIN live[c] : Left(live'[c][k], live[c][j], n)
  <2>1. Apart(live[c]) /\ \A j \in DOMAIN live[c] : Copy(c, live[c][j])
    BY DEF Screen, Copies, Apart
  <2>2. CASE c # turn[n].chat /\ live'[c] = live[c]
    <3>1. \A j \in DOMAIN live[c] : Who(live[c][j]) # n
      BY <2>1, <2>2 DEF Copy
    <3> QED  BY <2>1, <2>2, <3>1 DEF Left
  <2>3. CASE SettledOf(live'[c], live[c], id, "error")
    <3>1. DOMAIN live'[c] = DOMAIN live[c] /\ Same(live'[c], live[c])
      BY <2>3 DEF SettledOf, Same
    <3>2. Apart(live'[c])
      BY <2>1, <3>1 DEF Apart, Same
    <3>3. ASSUME NEW k \in DOMAIN live[c] PROVE Left(live'[c][k], live[c][k], n)
      <4>1. /\ live'[c][k].msg = live[c][k].msg /\ live'[c][k].heard = live[c][k].heard
            /\ live'[c][k].status = live[c][k].status \/ live'[c][k].status = "error"
            /\ live[c][k].id = id => live'[c][k].status = "error"
        BY <2>3, <3>1 DEF SettledOf, Same
      <4>2. live[c][k].status = "streaming" /\ Who(live[c][k]) = n => live[c][k].id = id
        BY <1>1 DEF Screen, Spin, Streams
      <4> QED  BY <1>2, <4>1, <4>2 DEF Left
    <3> QED  BY <3>1, <3>2, <3>3
  <2> QED  BY <1>7, <2>2, <2>3
<1> QED  BY <1>1, <1>2, <1>3, <1>6, <1>8, <1>9, EndingScreen

LEMMA FinishScreen == ASSUME Inv, Screen, NEW n \in Turns, Finish(n) PROVE Screen'
<1>1. PICK id : id = turn[n].id
  OBVIOUS
<1>2. /\ turn[n].pc = "finish" /\ n \in Running
      /\ turn'[n].pc = "ended" /\ turn'[n].chat = turn[n].chat
      /\ \A m \in Turns \ {n} : turn'[m] = turn[m]
  BY DEF Finish, Ended, NoTurn, Inv, Shape, Fields, Running
<1>3. /\ rows' = Settled(rows, id, "done")
      /\ live' = [c \in Chats |-> IF <<id, c>> \in chatOf THEN Without(live[c], {id - 1, id}) ELSE live[c]]
      /\ UNCHANGED <<db, shown, nextId, load, strayed, reloaded>>
  BY <1>1 DEF Finish, Done, Unlock, Sub
<1>4. \A c \in Chats : <<id, c>> \in chatOf <=> c = turn[n].chat
  BY <1>1, <1>2 DEF Screen, ChatKnown
<1>5. rows \in Seq(RowSet) /\ live \in [Chats -> Seq(RowSet)] /\ Running = {n}
  BY <1>2, OneRuns DEF Screen, Typed
<1>6. SettledOf(rows', rows, id, "done")
  BY <1>3, <1>5, SettledIs DEF Statuses
<1>7. \A c \in Chats : Apart(live[c]) /\ \A j \in DOMAIN live[c] : Copy(c, live[c][j])
  BY DEF Screen, Copies, Apart
<1>8. \A c \in Chats : Remains(live[c], {id - 1, id}, live'[c]) \/ (c # turn[n].chat /\ live'[c] = live[c])
  <2> TAKE c \in Chats
  <2>1. live[c] \in Seq(RowSet) /\ Apart(live[c])
    BY <1>5, <1>7
  <2>2. PICK ids : ids = {id - 1, id}
    OBVIOUS
  <2>3. Remains(live[c], ids, Without(live[c], ids))
    BY <2>1, WithoutIs
  <2>4. CASE c = turn[n].chat
    BY <1>3, <1>4, <2>2, <2>3, <2>4
  <2>5. CASE c # turn[n].chat
    BY <1>3, <1>4, <2>5
  <2> QED  BY <2>4, <2>5
<1>9. live' \in [Chats -> Seq(RowSet)]
  <2>1. \A c \in Chats : live'[c] \in Seq(RowSet)
    BY <1>5, <1>8 DEF Remains
  <2>2. live' = [c \in Chats |-> live'[c]]
    BY <1>3
  <2> QED  BY <2>1, <2>2
<1>10. ASSUME NEW c \in Chats
       PROVE  /\ Apart(live'[c])
              /\ \A k \in DOMAIN live'[c] : \E j \in DOMAIN live[c] : Left(live'[c][k], live[c][j], n)
  <2>1. CASE c # turn[n].chat /\ live'[c] = live[c]
    <3>1. \A j \in DOMAIN live[c] : Who(live[c][j]) # n
      BY <1>7, <2>1 DEF Copy
    <3> QED  BY <1>7, <2>1, <3>1 DEF Left
  <2>2. CASE Remains(live[c], {id - 1, id}, live'[c])
    <3>1. ASSUME NEW k \in DOMAIN live'[c] PROVE \E j \in DOMAIN live[c] : Left(live'[c][k], live[c][j], n)
      <4>1. PICK j \in DOMAIN live[c] : live'[c][k] = live[c][j] /\ live[c][j].id \notin {id - 1, id}
        BY <2>2 DEF Remains
      <4>2. Who(live[c][j]) # n
        BY <1>1, <1>2, <1>7, <4>1 DEF Copy
      <4> QED  BY <4>1, <4>2 DEF Left
    <3> QED  BY <2>2, <3>1 DEF Remains
  <2> QED  BY <1>8, <2>1, <2>2
<1> QED  BY <1>1, <1>2, <1>3, <1>6, <1>9, <1>10, EndingScreen

-----------------------------------------------------------------------------
(* A step of the turn n alone leaves what other turns filed and copied.    *)
LEMMA OthersFiled ==
  ASSUME Typed, NEW n, turn[n].pc \in {"none", "plan"}, \A m \in Turns \ {n} : turn'[m] = turn[m],
         NEW c \in Chats, NEW q \in Seq(Msgs), Filed(c, q)
  PROVE  Filed(c, q)'
<1>1. \A i \in DOMAIN q : q[i] \in Msgs
  OBVIOUS
<1>2. ASSUME NEW m \in Msgs, Stored(c, m) PROVE Stored(c, m)'
  <2>1. m[1] \in Turns \cup {0}
    BY DEF Msgs
  <2> QED  BY <1>2, <2>1 DEF Stored
<1> QED  BY <1>1, <1>2 DEF Filed

LEMMA OthersSingle ==
  ASSUME Typed, Single, NEW n, turn[n].pc \in {"none", "plan"},
         \A m \in Turns \ {n} : turn'[m] = turn[m], UNCHANGED <<db, load>>
  PROVE  (\A c \in Chats : Filed(c, db[c]) /\ Filed(c, load[c].answer))'
<1> SUFFICES ASSUME NEW c \in Chats PROVE Filed(c, db[c])' /\ Filed(c, load[c].answer)'
  OBVIOUS
<1>1. PICK q \in Seq(Msgs) : q = db[c]
  BY DEF Typed
<1>2. PICK p \in Seq(Msgs) : p = load[c].answer
  BY DEF Typed, Loads
<1>3. Filed(c, q)' /\ Filed(c, p)'
  BY <1>1, <1>2, OthersFiled DEF Single
<1> QED  BY <1>1, <1>2, <1>3 DEF Filed

LEMMA SendScreen == ASSUME Inv, Screen, NEW n \in Turns, Send(n) PROVE Screen'
<1>1. Typed /\ ChatKnown /\ Copies /\ Spin /\ Single /\ Numbers
  BY DEF Screen
<1>2. /\ turn[n].pc = "none" /\ Running = {} /\ Running' = {n}
      /\ turn'[n] = [NoTurn EXCEPT !.pc = "plan", !.chat = shown, !.id = nextId + 1]
      /\ \A m \in Turns \ {n} : turn'[m] = turn[m]
  BY DEF Inv, Shape, Locked, Send, Running
<1>3. turn'[n].pc = "plan" /\ turn'[n].chat = shown /\ turn'[n].id = nextId + 1 /\ turn'[n].outcome = "none"
  BY <1>2 DEF NoTurn
<1>4. nextId \in Nat /\ nextId' = nextId + 2
  BY <1>1 DEF Send, Typed
<1>5. strayed \subseteq strayed' /\ strayed' \subseteq Turns /\ (n \notin strayed' => OnScreen)
  BY <1>1 DEF Send, Typed
<1>6. UNCHANGED <<db, shown, rows, live, chatOf, load, reloaded>>
  BY DEF Send
<1>7. Typed'
  <2>1. shown \in Chats /\ nextId' \in Nat /\ nextId + 1 \in Nat \ {0}
    BY <1>1, <1>4 DEF Typed
  <2>2. \A m \in Running' : turn'[m].id \in Nat \ {0} /\ turn'[m].chat \in Chats
    BY <1>2, <1>3, <2>1
  <2> QED  BY <1>1, <1>5, <1>6, <2>1, <2>2 DEF Typed
<1>8. ChatKnown'
  BY <1>1, <1>2, <1>3 DEF ChatKnown
<1>9. Copies'
  <2>1. \A c, r : Copy(c, r) => Copy(c, r)'
    BY <1>2 DEF Copy
  <2> QED  BY <1>1, <1>6, <2>1 DEF Copies
<1>10. Spin'
  BY <1>1, <1>2, <1>6 DEF Spin, Streams
<1>11. Single'
  <2>1. Once(rows)'
    <3>1. \A i \in DOMAIN rows : Who(rows[i]) \in Turns \cup {0}
      BY <1>1, WhoIs DEF Typed
    <3>2. Once(rows)
      BY <1>1 DEF Single
    <3> QED  BY <1>2, <1>5, <1>6, <3>1, <3>2 DEF Once
  <2> QED  BY <1>1, <1>2, <1>6, <2>1, OthersSingle DEF Single
<1>12. Numbers'
  <2>1. Words(rows)' /\ (\A c \in Chats : Words(live[c]))'
    BY <1>1, <1>5, <1>6 DEF Numbers, Words
  <2>2. \A i \in DOMAIN rows : rows[i].id \in Nat
    <3>1. \A i \in DOMAIN rows : rows[i] \in RowSet
      BY <1>1 DEF Typed
    <3> QED  BY <3>1 DEF RowSet
  <2>3. Below(rows)'
    BY <1>1, <1>4, <1>5, <1>6, <2>2 DEF Numbers, Below
  <2>4. ASSUME n \notin strayed' PROVE Placed(n)'
    <3>1. PICK c \in Chats : c = shown
      BY <1>1 DEF Typed
    <3>2. OnScreen
      BY <1>5, <2>4
    <3>3. Mine(rows, n)'
      BY <1>1, <1>3, <1>4, <1>5, <1>6, <2>2 DEF Numbers, Below, Mine
    <3>4. Mine(live[c], n)'
      <4>1. \A i \in DOMAIN live[c] : live[c][i].id < nextId /\ live[c][i].id \in Nat
        <5>1. live[c] \in Seq(RowSet)
          BY <1>1 DEF Typed
        <5>2. \A i \in DOMAIN live[c] : live[c][i] \in RowSet
          BY <5>1
        <5>3. \A i \in DOMAIN live[c] : live[c][i].id < nextId
          BY <3>1, <3>2 DEF OnScreen
        <5> QED  BY <5>2, <5>3 DEF RowSet
      <4> QED  BY <1>3, <1>4, <1>6, <4>1 DEF Mine
    <3>5. Numbered(db[c], n)'
      <4>1. db[c] \in Seq(Msgs) /\ Len(db[c]) <= nextId
        BY <1>1, <1>4, <3>1, <3>2 DEF OnScreen, Typed
      <4> QED  BY <1>3, <1>4, <1>6, <4>1 DEF Numbered
    <3>6. Numbered(load[c].answer, n)'
      <4>1. load[c].answer = << >>
        BY <3>2 DEF OnScreen, NoLoad
      <4> QED  BY <1>6, <4>1 DEF Numbered
    <3> QED  BY <1>3, <1>4, <3>1, <3>3, <3>4, <3>5, <3>6 DEF Placed
  <2> QED  BY <1>2, <2>1, <2>3, <2>4 DEF Numbers
<1> QED  BY <1>7, <1>8, <1>9, <1>10, <1>11, <1>12 DEF Screen

(* The rows of a new turn join those of s.                                 *)
Joined(r, s, n) ==
  /\ r \in Seq(RowSet)
  /\ \A i \in DOMAIN r :
       \/ /\ i \in DOMAIN s /\ r[i].id = s[i].id /\ r[i].msg = s[i].msg /\ r[i].heard = s[i].heard
          /\ r[i].status = s[i].status \/ r[i].status = "error"
       \/ /\ i \notin DOMAIN s /\ r[i].heard = {} /\ Who(r[i]) = n
          /\ r[i].id \in {turn[n].id - 1, turn[n].id}
          /\ r[i].status = "streaming" => r[i].id = turn[n].id /\ turn'[n].pc = "called"
  /\ \A i, j \in DOMAIN r : i \notin DOMAIN s /\ j \notin DOMAIN s /\ r[i].msg = r[j].msg => i = j

New(n) == <<Row(turn[n].id - 1, <<n, "user">>, "done"), Row(turn[n].id, <<n, "agent">>, "streaming")>>

LEMMA JoinsNew ==
  ASSUME NEW s \in Seq(RowSet), NEW n \in Turns, turn[n].id \in Nat \ {0}
  PROVE  /\ turn'[n].pc = "called" => Joined(s \o New(n), s, n)
         /\ Joined(Settled(s \o New(n), turn[n].id, "error"), s, n)
<1>1. PICK id \in Nat \ {0} : id = turn[n].id
  OBVIOUS
<1>2. PICK u : u = Row(id - 1, <<n, "user">>, "done")
  OBVIOUS
<1>3. PICK a : a = Row(id, <<n, "agent">>, "streaming")
  OBVIOUS
<1>4. /\ u \in RowSet /\ u.id = id - 1 /\ Who(u) = n /\ u.heard = {} /\ u.status = "done"
      /\ a \in RowSet /\ a.id = id /\ Who(a) = n /\ a.heard = {} /\ a.status = "streaming"
      /\ u.msg # a.msg
  BY <1>2, <1>3 DEF Row, RowSet, Who, Msgs, Roles, Statuses
<1>5. PICK t : t = New(n)
  OBVIOUS
<1>6. t = <<u, a>>
  BY <1>1, <1>2, <1>3, <1>5 DEF New
<1>7. t \in Seq(RowSet) /\ DOMAIN t = 1..2 /\ t[1] = u /\ t[2] = a
  BY <1>4, <1>6
<1>8. PICK q : q = s \o t
  OBVIOUS
<1>9. q \in Seq(RowSet) /\ Joint(q, s, t)
  BY <1>7, <1>8, Joins
<1>10. \A i \in DOMAIN q : \/ i \in DOMAIN s /\ q[i] = s[i]
                           \/ i \notin DOMAIN s /\ i = Len(s) + 1 /\ q[i] = u
                           \/ i \notin DOMAIN s /\ i = Len(s) + 2 /\ q[i] = a
  BY <1>7, <1>9 DEF Joint
<1>11. \A i, j \in DOMAIN q : i \notin DOMAIN s /\ j \notin DOMAIN s /\ q[i].msg = q[j].msg => i = j
  BY <1>4, <1>10
<1>12. ASSUME turn'[n].pc = "called" PROVE Joined(q, s, n)
  BY <1>1, <1>4, <1>9, <1>10, <1>11, <1>12 DEF Joined
<1>13. PICK p : p = Settled(q, id, "error")
  OBVIOUS
<1>14. SettledOf(p, q, id, "error")
  BY <1>9, <1>13, SettledIs DEF Statuses
<1>15. p \in Seq(RowSet) /\ DOMAIN p = DOMAIN q
       /\ \A i \in DOMAIN q : /\ p[i].id = q[i].id /\ p[i].msg = q[i].msg /\ p[i].heard = q[i].heard
                              /\ p[i].status = q[i].status \/ p[i].status = "error"
                              /\ q[i].id = id => p[i].status = "error"
  BY <1>14 DEF SettledOf, Same
<1>16. Joined(p, s, n)
  <2>1. \A i \in DOMAIN p : \/ /\ i \in DOMAIN s /\ p[i].id = s[i].id /\ p[i].msg = s[i].msg /\ p[i].heard = s[i].heard
                               /\ p[i].status = s[i].status \/ p[i].status = "error"
                            \/ /\ i \notin DOMAIN s /\ p[i].heard = {} /\ Who(p[i]) = n
                               /\ p[i].id \in {id - 1, id} /\ p[i].status # "streaming"
    <3> TAKE i \in DOMAIN p
    <3>1. CASE i \in DOMAIN s /\ q[i] = s[i]
      BY <1>15, <3>1
    <3>2. CASE i \notin DOMAIN s /\ q[i] = u
      BY <1>4, <1>15, <3>2 DEF Who
    <3>3. CASE i \notin DOMAIN s /\ q[i] = a
      BY <1>4, <1>15, <3>3 DEF Who
    <3> QED  BY <1>10, <1>15, <3>1, <3>2, <3>3
  <2>2. \A i, j \in DOMAIN p : i \notin DOMAIN s /\ j \notin DOMAIN s /\ p[i].msg = p[j].msg => i = j
    BY <1>11, <1>15
  <2> QED  BY <1>1, <1>15, <2>1, <2>2 DEF Joined
<1> QED  BY <1>1, <1>5, <1>8, <1>12, <1>13, <1>16

LEMMA PlannedScreen == ASSUME Inv, Screen, NEW n \in Turns, Planned(n) PROVE Screen'
<1>1. Typed /\ ChatKnown /\ Copies /\ Spin /\ Single /\ Numbers
  BY DEF Screen
<1>2. turn[n].pc = "plan" /\ n \in Running /\ Running = {n}
  <2>1. turn[n].pc = "plan" /\ n \in Running
    BY DEF Planned, Running
  <2> QED  BY <2>1, OneRuns
<1>3. PICK c \in Chats : c = turn[n].chat
  BY <1>1, <1>2 DEF Typed
<1>4. turn[n].id \in Nat \ {0} /\ rows \in Seq(RowSet) /\ live \in [Chats -> Seq(RowSet)]
  BY <1>1, <1>2 DEF Typed
<1>5. /\ turn'[n].chat = c
      /\ \/ turn'[n].pc = "called" /\ turn'[n].id = turn[n].id /\ turn'[n].outcome = turn[n].outcome
         \/ turn'[n].pc = "ended" /\ turn'[n].outcome = "error"
      /\ \A m \in Turns \ {n} : turn'[m] = turn[m]
      /\ UNCHANGED <<db, shown, nextId, load, strayed, reloaded>>
  <2>1. UNCHANGED <<db, shown, nextId, load, strayed, reloaded>>
    BY DEF Planned, Sub
  <2>2. DOMAIN turn = Turns /\ DOMAIN turn[n] = Fields
    BY DEF Inv, Shape
  <2>3. CASE turn' = [turn EXCEPT ![n].pc = "called"]
    BY <1>3, <2>1, <2>2, <2>3 DEF Fields
  <2>4. CASE turn' = [turn EXCEPT ![n] = Ended(n, "error")]
    <3>1. turn'[n] = Ended(n, "error") /\ \A m \in Turns \ {n} : turn'[m] = turn[m]
      BY <2>2, <2>4
    <3> QED  BY <1>3, <2>1, <3>1 DEF Ended, NoTurn
  <2> QED  BY <2>3, <2>4 DEF Planned
<1>6. Running' = IF turn'[n].pc = "called" THEN {n} ELSE {}
  BY <1>2, <1>5 DEF Running
<1>7. /\ Joined(rows', rows, n)
      /\ live' \in [Chats -> Seq(RowSet)] /\ Joined(live'[c], live[c], n)
      /\ \A d \in Chats : d # c => live'[d] = live[d]
  <2>1. live[c] \in Seq(RowSet)
    BY <1>4
  <2>2. CASE /\ turn' = [turn EXCEPT ![n].pc = "called"]
             /\ rows' = rows \o New(n) /\ live' = [live EXCEPT ![c] = live[c] \o New(n)]
    <3>1. turn'[n].pc = "called"
      BY <2>2 DEF Inv, Shape, Fields
    <3>2. Joined(rows \o New(n), rows, n) /\ Joined(live[c] \o New(n), live[c], n)
      BY <1>4, <2>1, <3>1, JoinsNew
    <3>3. PICK q : q = live[c] \o New(n)
      OBVIOUS
    <3>4. Joined(q, live[c], n) /\ q \in Seq(RowSet)
      BY <3>2, <3>3 DEF Joined
    <3> QED  BY <1>4, <2>2, <3>2, <3>3, <3>4
  <2>3. CASE /\ rows' = Settled(rows \o New(n), turn[n].id, "error")
             /\ live' = [live EXCEPT ![c] = Settled(live[c] \o New(n), turn[n].id, "error")]
    <3>2. Joined(Settled(rows \o New(n), turn[n].id, "error"), rows, n)
          /\ Joined(Settled(live[c] \o New(n), turn[n].id, "error"), live[c], n)
      BY <1>4, <2>1, JoinsNew
    <3>3. PICK q : q = Settled(live[c] \o New(n), turn[n].id, "error")
      OBVIOUS
    <3>4. Joined(q, live[c], n) /\ q \in Seq(RowSet)
      BY <3>2, <3>3 DEF Joined
    <3> QED  BY <1>4, <2>3, <3>2, <3>3, <3>4
  <2> QED  BY <1>3, <2>2, <2>3 DEF Planned, New
<1>8. Typed'
  <2>1. rows' \in Seq(RowSet)
    BY <1>7 DEF Joined
  <2>2. \A m \in Running' : turn'[m].id \in Nat \ {0} /\ turn'[m].chat \in Chats
    BY <1>4, <1>5, <1>6
  <2> QED  BY <1>1, <1>5, <1>7, <2>1, <2>2 DEF Typed
<1>9. ChatKnown'
  <2>1. chatOf' = {e \in chatOf : e[1] # turn[n].id} \cup {<<turn[n].id, c>>}
    BY <1>3 DEF Planned
  <2>2. \A d : <<turn[n].id, d>> \in chatOf' <=> d = c
    BY <2>1
  <2>3. \A m \in Running' : \A d : <<turn'[m].id, d>> \in chatOf' <=> d = turn'[m].chat
    BY <1>5, <1>6, <2>2
  <2>4. \A m \in Turns : turn'[m].outcome = "error" => turn'[m].pc \in {"forget", "ended"}
    BY <1>1, <1>2, <1>5 DEF ChatKnown
  <2> QED  BY <2>3, <2>4 DEF ChatKnown
<1>10. \A d \in Chats : \A i \in DOMAIN live[d] : Copy(d, live[d][i]) /\ Who(live[d][i]) # n
  BY <1>1, <1>2 DEF Copies, Copy
<1>11. ASSUME NEW d, NEW r, NEW q, Copy(d, r), q.msg = r.msg, q.id = r.id PROVE Copy(d, q)'
  BY <1>2, <1>5, <1>6, <1>11 DEF Copy, Who
<1>12. Copies'
  <2> SUFFICES ASSUME NEW d \in Chats
               PROVE  /\ \A i \in DOMAIN live'[d] : Copy(d, live[d][i])'
                      /\ \A i, j \in DOMAIN live'[d] : live'[d][i].msg = live'[d][j].msg => i = j
    BY DEF Copies
  <2>1. CASE d # c
    BY <1>1, <1>7, <1>10, <1>11, <2>1 DEF Copies
  <2>2. CASE d = c
    <3>1. PICK q : q = live'[c]
      OBVIOUS
    <3>2. PICK s : s = live[c]
      OBVIOUS
    <3>3. Joined(q, s, n)
      BY <1>7, <3>1, <3>2
    <3>4. \A i \in DOMAIN s : Copy(c, s[i]) /\ Who(s[i]) # n
      BY <1>10, <3>2
    <3>5. ASSUME NEW i \in DOMAIN q PROVE Copy(c, q[i])'
      <4>1. CASE i \in DOMAIN s /\ q[i].id = s[i].id /\ q[i].msg = s[i].msg
        BY <1>11, <3>4, <4>1
      <4>2. CASE Who(q[i]) = n /\ q[i].id \in {turn[n].id - 1, turn[n].id}
        BY <1>5, <1>6, <4>2 DEF Copy
      <4> QED  BY <3>3, <4>1, <4>2 DEF Joined
    <3>6. ASSUME NEW i \in DOMAIN q, NEW j \in DOMAIN q, q[i].msg = q[j].msg PROVE i = j
      <4>1. Who(q[i]) = Who(q[j])
        BY <3>6 DEF Who
      <4>2. \A k \in DOMAIN q : \/ k \in DOMAIN s /\ q[k].msg = s[k].msg /\ Who(q[k]) # n
                                \/ k \notin DOMAIN s /\ Who(q[k]) = n
        BY <3>3, <3>4 DEF Joined, Who
      <4>3. \A k, l \in DOMAIN s : s[k].msg = s[l].msg => k = l
        BY <1>1, <3>2 DEF Copies
      <4> QED  BY <3>3, <3>6, <4>1, <4>2, <4>3 DEF Joined
    <3> QED  BY <2>2, <3>1, <3>5, <3>6
  <2> QED  BY <2>1, <2>2
<1>13. \A i \in DOMAIN rows : Who(rows[i]) # n /\ Who(rows[i]) \in Turns \cup {0}
  <2>1. \A i \in DOMAIN rows : Who(rows[i]) \in Turns \cup {0}
    BY <1>1, WhoIs DEF Typed
  <2> QED  BY <1>1, <1>2, <2>1 DEF Single, Once, Turns
<1>14. Spin'
  <2>1. ASSUME NEW s, NEW r, Streams(s), \A i \in DOMAIN s : Who(s[i]) # n, Joined(r, s, n) PROVE Streams(r)'
    BY <1>2, <1>5, <1>6, <2>1 DEF Streams, Joined
  <2>2. ASSUME NEW d \in Chats PROVE Streams(live[d])'
    <3>1. Streams(live[d]) /\ \A i \in DOMAIN live[d] : Who(live[d][i]) # n
      BY <1>1, <1>10 DEF Spin
    <3>2. CASE d = c
      BY <1>7, <2>1, <3>1, <3>2
    <3>3. CASE d # c
      BY <1>2, <1>7, <3>1, <3>3 DEF Streams
    <3> QED  BY <3>2, <3>3
  <2> QED  BY <1>1, <1>7, <1>13, <2>1, <2>2 DEF Spin
<1>15. Single'
  <2>1. Once(rows)'
    <3>1. Once(rows)
      BY <1>1 DEF Single
    <3>2. \A k \in DOMAIN rows' : \/ k \in DOMAIN rows /\ rows'[k].msg = rows[k].msg /\ Who(rows'[k]) = Who(rows[k])
                                  \/ k \notin DOMAIN rows /\ Who(rows'[k]) = n
      BY <1>7 DEF Joined, Who
    <3>3. \A i \in DOMAIN rows' : Who(rows'[i]) # 0 => turn'[Who(rows'[i])].pc \notin {"none", "plan"}
      BY <1>5, <1>13, <3>1, <3>2 DEF Once
    <3>4. ASSUME NEW i \in DOMAIN rows', NEW j \in DOMAIN rows', rows'[i].msg = rows'[j].msg, Who(rows'[i]) # 0
          PROVE  i = j \/ Who(rows'[i]) \in strayed \cup reloaded \/ turn'[Who(rows'[i])].outcome = "error"
      <4>1. Who(rows'[i]) = Who(rows'[j])
        BY <3>4 DEF Who
      <4>2. CASE i \in DOMAIN rows /\ j \in DOMAIN rows
        BY <1>5, <1>7, <1>13, <3>1, <3>2, <3>4, <4>2 DEF Once
      <4>3. CASE i \notin DOMAIN rows /\ j \notin DOMAIN rows
        BY <1>7, <3>4, <4>3 DEF Joined
      <4> QED  BY <1>13, <3>2, <4>1, <4>2, <4>3
    <3> QED  BY <1>5, <3>3, <3>4 DEF Once
  <2> QED  BY <1>1, <1>2, <1>5, <2>1, OthersSingle DEF Single
<1>16. Numbers'
  <2>1. \A s, r : Words(s) /\ Joined(r, s, n) => Words(r)'
    BY <1>5 DEF Words, Joined, Who
  <2>2. \A d \in Chats : Words(live[d])'
    <3> TAKE d \in Chats
    <3>1. Words(live[d])
      BY <1>1 DEF Numbers
    <3>2. CASE d = c
      BY <1>7, <2>1, <3>1, <3>2
    <3>3. CASE d # c
      BY <1>5, <1>7, <3>1, <3>3 DEF Words
    <3> QED  BY <3>2, <3>3
  <2>3. n \in strayed \/ turn[n].id < nextId
    BY <1>1, <1>2 DEF Numbers, Placed
  <2>4. Below(rows)'
    <3> SUFFICES ASSUME NEW i \in DOMAIN rows' PROVE rows'[i].id < nextId \/ Who(rows'[i]) \in strayed
      BY <1>5 DEF Below
    <3>1. Below(rows) /\ nextId \in Nat
      BY <1>1 DEF Numbers, Typed
    <3>2. CASE i \in DOMAIN rows /\ rows'[i].id = rows[i].id /\ rows'[i].msg = rows[i].msg
      BY <3>1, <3>2 DEF Below, Who
    <3>3. CASE Who(rows'[i]) = n /\ rows'[i].id \in {turn[n].id - 1, turn[n].id}
      BY <1>4, <2>3, <3>1, <3>3
    <3> QED  BY <1>7, <3>2, <3>3 DEF Joined
  <2>5. ASSUME n \notin strayed, turn'[n].pc = "called" PROVE Placed(n)'
    <3>1. /\ Mine(rows, n) /\ Mine(live[c], n) /\ Numbered(db[c], n) /\ Numbered(load[c].answer, n)
      BY <1>1, <1>2, <1>3, <2>5 DEF Numbers, Placed
    <3>2. turn'[n].id = turn[n].id /\ turn'[n].chat = c
      BY <1>5, <2>5
    <3>3. \A s, r : Mine(s, n) /\ Joined(r, s, n) => Mine(r, n)'
      BY <1>5, <3>2 DEF Mine, Joined, Who
    <3>4. Mine(rows, n)' /\ Mine(live[c], n)'
      BY <1>7, <3>1, <3>3
    <3>5. Numbered(db[c], n)' /\ Numbered(load[c].answer, n)'
      BY <1>5, <3>1, <3>2 DEF Numbered
    <3> QED  BY <2>5, <3>2, <3>4, <3>5 DEF Placed
  <2> QED  BY <1>1, <1>5, <1>6, <1>7, <2>1, <2>2, <2>4, <2>5 DEF Numbers
<1> QED  BY <1>8, <1>9, <1>12, <1>14, <1>15, <1>16 DEF Screen

(* The answer of list_messages replaces the rows.                          *)
LEMMA ShowScreen == ASSUME Inv, Screen, NEW c \in Chats, Show(c) PROVE Screen'
<1>1. Typed /\ ChatKnown /\ Copies /\ Spin /\ Single /\ Numbers
  BY DEF Screen
<1>2. PICK answer \in Seq(Msgs) : answer = load[c].answer
  BY <1>1 DEF Typed, Loads
<1>3. PICK h : h = [i \in DOMAIN answer |-> Row(i - 1, answer[i], "done")]
  OBVIOUS
<1>4. PICK s \in Seq(RowSet) : s = live[c]
  BY <1>1 DEF Typed
<1>5. /\ rows' = h \o s /\ nextId' = NextId(h \o s)
      /\ load' = [load EXCEPT ![c] = NoLoad]
      /\ strayed' = strayed \cup {n \in Running : turn[n].chat # c \/ turn[n].pc = "plan"}
      /\ reloaded' = reloaded \cup {n \in Running : turn[n].chat = c}
      /\ UNCHANGED <<db, turn, shown, live, chatOf>>
  BY <1>2, <1>3, <1>4 DEF Show, backend
<1>6. Running' = Running /\ Running \subseteq Turns /\ strayed \subseteq strayed'
  BY <1>5 DEF Running
<1>7. /\ h \in Seq(RowSet) /\ DOMAIN h = DOMAIN answer
      /\ \A i \in DOMAIN h : i \in Nat \ {0} /\ h[i].id = i - 1 /\ h[i].msg = answer[i] /\ h[i].heard = {} /\ h[i].status = "done"
  <2>1. DOMAIN h = 1..Len(answer) /\ Len(answer) \in Nat /\ DOMAIN h = DOMAIN answer
    BY <1>3
  <2>2. \A i \in DOMAIN h : h[i] = [id |-> i - 1, msg |-> answer[i], heard |-> {}, status |-> "done"]
    BY <1>3 DEF Row
  <2>3. \A i \in DOMAIN h : i - 1 \in Nat /\ answer[i] \in Msgs
    BY <2>1
  <2>4. \A i \in DOMAIN h : h[i] \in RowSet
    BY <2>2, <2>3 DEF RowSet, Statuses
  <2>5. h = [i \in 1..Len(answer) |-> h[i]]
    BY <1>3, <2>1
  <2>6. h \in Seq(RowSet)
    BY <2>1, <2>4, <2>5
  <2> QED  BY <2>1, <2>2, <2>6
<1>8. PICK r : r = h \o s
  OBVIOUS
<1>9. r \in Seq(RowSet) /\ Joint(r, h, s)
  BY <1>7, <1>8, Joins
<1>10. \A i \in DOMAIN r : \/ i \in DOMAIN h /\ r[i] = h[i]
                           \/ i \in Nat /\ i \notin DOMAIN h /\ i - Len(h) \in DOMAIN s /\ r[i] = s[i - Len(h)]
  BY <1>9 DEF Joint
<1>11. nextId' \in Nat /\ \A i \in DOMAIN r : r[i].id < nextId'
  BY <1>5, <1>8, <1>9, NextIdIs
<1>12. rows' = r /\ Len(h) \in Nat
  BY <1>5, <1>7, <1>8
<1>13. load' \in [Chats -> Loads] /\ \A d \in Chats : load'[d].answer \in {load[d].answer, << >>}
       /\ load'[c].answer = << >>
  BY <1>1, <1>5 DEF Typed, Loads, NoLoad
<1>14. Typed'
  BY <1>1, <1>5, <1>6, <1>9, <1>11, <1>12, <1>13 DEF Typed
<1>15. ChatKnown'
  BY <1>1, <1>5, <1>6 DEF ChatKnown
<1>16. \A d, q : Copy(d, q) => Copy(d, q)'
  BY <1>5, <1>6 DEF Copy
<1>17. Copies'
  BY <1>1, <1>5, <1>16 DEF Copies
<1>18. \A i \in DOMAIN s : Copy(c, s[i])
  BY <1>1, <1>4 DEF Copies
<1>19. Spin'
  <2>1. Streams(s)
    BY <1>1, <1>4 DEF Spin
  <2>2. Streams(r)'
    <3>1. \A i \in DOMAIN h : h[i].status # "streaming"
      BY <1>7
    <3>2. ASSUME NEW i \in DOMAIN r, r[i].status = "streaming"
          PROVE  Who(r[i]) \in Running /\ r[i].id = turn[Who(r[i])].id
      <4>1. PICK k \in DOMAIN s : r[i] = s[k]
        BY <1>10, <3>1, <3>2
      <4> QED  BY <2>1, <3>2, <4>1 DEF Streams
    <3> QED  BY <1>5, <1>6, <3>2 DEF Streams
  <2>3. \A d \in Chats : Streams(live[d])'
    BY <1>1, <1>5, <1>6 DEF Spin, Streams
  <2> QED  BY <1>12, <2>2, <2>3 DEF Spin
<1>20. Filed(c, answer)
  BY <1>1, <1>2 DEF Single
<1>21. Single'
  <2>1. Once(r)'
    <3>1. \A i \in DOMAIN h : Who(h[i]) = answer[i][1] /\ answer[i] \in Msgs
      BY <1>7 DEF Who
    <3>2. \A i \in DOMAIN h : Who(h[i]) # 0 => turn[Who(h[i])].pc \notin {"none", "plan"}
      BY <1>7, <1>20, <3>1 DEF Filed, Stored
    <3>3. \A i \in DOMAIN s : /\ turn[Who(s[i])].pc \notin {"none", "plan"}
                              /\ Who(s[i]) \in reloaded' \/ turn[Who(s[i])].outcome = "error"
      BY <1>5, <1>18 DEF Copy
    <3>4. \A i, j \in DOMAIN s : s[i].msg = s[j].msg => i = j
      BY <1>1, <1>4 DEF Copies
    <3>5. \A i, j \in DOMAIN h : h[i].msg = h[j].msg => i = j \/ Who(h[i]) = 0
      BY <1>7, <1>20, <3>1 DEF Filed
    <3>6. ASSUME NEW i \in DOMAIN r, NEW j \in DOMAIN r, r[i].msg = r[j].msg, Who(r[i]) # 0
          PROVE  i = j \/ Who(r[i]) \in strayed' \cup reloaded' \/ turn[Who(r[i])].outcome = "error"
      <4>1. Who(r[i]) = Who(r[j])
        BY <3>6 DEF Who
      <4>2. CASE i \in DOMAIN h /\ r[i] = h[i] /\ j \in DOMAIN h /\ r[j] = h[j]
        BY <3>5, <3>6, <4>2
      <4>3. CASE i \notin DOMAIN h
        BY <1>10, <3>3, <4>3
      <4>4. CASE j \notin DOMAIN h
        BY <1>10, <3>3, <4>1, <4>4
      <4> QED  BY <1>10, <4>2, <4>3, <4>4
    <3>7. \A i \in DOMAIN r : Who(r[i]) # 0 => turn[Who(r[i])].pc \notin {"none", "plan"}
      BY <1>10, <3>2, <3>3
    <3> QED  BY <1>5, <3>6, <3>7 DEF Once
  <2>2. ASSUME NEW d \in Chats PROVE Filed(d, db[d])' /\ Filed(d, load[d].answer)'
    <3>1. \A q : Filed(d, q) => Filed(d, q)'
      BY <1>5 DEF Filed, Stored
    <3>2. Filed(d, db[d]) /\ Filed(d, load[d].answer) /\ Filed(d, << >>)
      BY <1>1 DEF Single, Filed
    <3>3. Filed(d, load'[d].answer)
      BY <1>13, <3>2
    <3> QED  BY <1>5, <3>1, <3>2, <3>3
  <2> QED  BY <1>12, <2>1, <2>2 DEF Single
<1>22. Numbers'
  <2>1. \A q : Words(q) => Words(q)'
    BY <1>6 DEF Words
  <2>2. Words(s)
    BY <1>1, <1>4 DEF Numbers
  <2>3. Words(r)'
    BY <1>7, <1>10, <2>1, <2>2 DEF Words
  <2>4. (\A d \in Chats : Words(live[d]))'
    BY <1>1, <1>5, <2>1 DEF Numbers
  <2>5. Below(r)'
    BY <1>11 DEF Below
  <2>6. ASSUME NEW m \in Running \ strayed' PROVE Placed(m)'
    <3>1. turn[m].chat = c /\ turn[m].pc # "plan" /\ m \notin strayed /\ turn[m].id \in Nat
      BY <1>1, <1>5 DEF Typed
    <3>2. Mine(s, m) /\ Numbered(db[c], m) /\ Numbered(answer, m)
      BY <1>1, <1>2, <1>4, <3>1 DEF Numbers, Placed
    <3>3. Mine(r, m)'
      <4> SUFFICES ASSUME NEW i \in DOMAIN r, r[i].id = turn[m].id PROVE Who(r[i]) \in {m} \cup strayed
        BY <1>5, <1>6 DEF Mine
      <4>1. CASE i \in DOMAIN h /\ r[i] = h[i]
        <5>1. i >= turn[m].id /\ Who(r[i]) = answer[i][1]
          BY <1>7, <3>1, <4>1 DEF Who
        <5> QED  BY <1>7, <3>2, <4>1, <5>1 DEF Numbered
      <4>2. CASE i - Len(h) \in DOMAIN s /\ r[i] = s[i - Len(h)]
        BY <3>2, <4>2 DEF Mine
      <4> QED  BY <1>10, <4>1, <4>2
    <3>4. Mine(live[c], m)'
      BY <1>4, <1>5, <1>6, <3>2 DEF Mine
    <3>5. Numbered(db[c], m)' /\ Numbered(load[c].answer, m)'
      BY <1>5, <1>13, <3>2 DEF Numbered
    <3> QED  BY <1>5, <1>12, <3>1, <3>3, <3>4, <3>5 DEF Placed
  <2> QED  BY <1>6, <1>12, <2>3, <2>4, <2>5, <2>6 DEF Numbers
<1> QED  BY <1>14, <1>15, <1>17, <1>19, <1>21, <1>22 DEF Screen

-----------------------------------------------------------------------------
LEMMA InitScreen == Init => Screen
<1> SUFFICES ASSUME Init PROVE Screen
  OBVIOUS
<1>1. PICK c \in Chats : c = shown
  BY DEF Init
<1>2. \A d \in Chats : /\ db[d] \in Seq(Msgs) /\ Len(db[d]) \in Nat
                       /\ \A i \in DOMAIN db[d] : db[d][i][1] = 0
  <2> TAKE d \in Chats
  <2>1. PICK k \in Nat : k = OldMessages[d]
    BY ChatTurnAssumption
  <2>2. PICK q : q = db[d]
    OBVIOUS
  <2>3. q = [i \in 1..k |-> <<0, IF i % 2 = 1 THEN "user" ELSE "agent">>]
    BY <2>1, <2>2 DEF Init
  <2>4. \A i \in 1..k : q[i] \in Msgs /\ q[i][1] = 0
    BY <2>3 DEF Msgs, Roles
  <2>5. q \in Seq(Msgs) /\ DOMAIN q = 1..k
    BY <2>3, <2>4
  <2> QED  BY <2>2, <2>4, <2>5
<1>3. PICK q \in Seq(Msgs) : q = db[c]
  BY <1>2
<1>4. rows = [i \in DOMAIN q |-> Row(i - 1, q[i], "done")] /\ nextId = Len(q)
  BY <1>1, <1>3 DEF Init
<1>5. \A i \in DOMAIN rows : /\ rows[i].id = i - 1 /\ rows[i].msg = q[i] /\ rows[i].heard = {}
                             /\ rows[i].status = "done" /\ rows[i] \in RowSet /\ i - 1 < nextId
  <2>1. \A i \in DOMAIN q : i - 1 \in Nat /\ q[i] \in Msgs /\ i - 1 < Len(q)
    OBVIOUS
  <2> QED  BY <1>4, <2>1 DEF Row, RowSet, Statuses
<1>6. rows \in Seq(RowSet) /\ DOMAIN rows = DOMAIN q /\ nextId \in Nat
  <2>1. DOMAIN q = 1..Len(q) /\ Len(q) \in Nat
    OBVIOUS
  <2> QED  BY <1>4, <1>5, <2>1
<1>7. Running = {} /\ \A n \in Turns : turn[n].outcome = "none"
  BY DEF Init, Running, NoTurn
<1>8. \A d \in Chats : live[d] = << >> /\ load[d].answer = << >>
  BY DEF Init, NoLoad
<1>9. Typed
  <2>1. db = [d \in Chats |-> db[d]]
    BY DEF Init
  <2>2. db \in [Chats -> Seq(Msgs)]
    BY <1>2, <2>1
  <2>3. live \in [Chats -> Seq(RowSet)] /\ load \in [Chats -> Loads] /\ strayed \subseteq Turns
    BY DEF Init, NoLoad, Loads
  <2> QED  BY <1>1, <1>6, <1>7, <2>2, <2>3 DEF Typed
<1>10. ChatKnown /\ Copies /\ Spin
  BY <1>5, <1>7, <1>8 DEF ChatKnown, Copies, Spin, Streams
<1>11. \A i \in DOMAIN rows : Who(rows[i]) = 0
  BY <1>2, <1>3, <1>5, <1>6 DEF Who
<1>12. Single
  BY <1>2, <1>8, <1>11 DEF Single, Once, Filed, Stored
<1>13. Numbers
  BY <1>5, <1>7, <1>8 DEF Numbers, Words, Below
<1> QED  BY <1>9, <1>10, <1>12, <1>13 DEF Screen

(* The steps of the loop that go on.                                       *)
LEMMA OnScreenLoop ==
  ASSUME Inv, Screen, NEW n \in Turns,
         SaveUser(n) \/ Social(n) \/ Register(n) \/ Chunk(n) \/ Answer(n) \/ Stopped(n) \/ Dispatch(n)
           \/ ToolDone(n) \/ Reject(n) \/ Again(n) \/ SaveAgent(n)
  PROVE  Screen'
<1>1. UNCHANGED <<shown, nextId, chatOf, load, strayed, reloaded>>
      /\ (Token(n) \/ (rows' = rows /\ live' = live))
  BY DEF SaveUser, Social, Register, Chunk, Answer, Stopped, Dispatch, ToolDone, Reject, Again, SaveAgent,
         Token, view, Sub
<1>2. Goes(n)
  <2>1. DOMAIN turn = Turns /\ DOMAIN turn[n] = Fields
    BY DEF Inv, Shape
  <2>2. CASE SaveUser(n) \/ Register(n) \/ Stopped(n) \/ SaveAgent(n)
    BY <2>1, <2>2 DEF Fields, Goes, Running, SaveUser, Register, Stopped, SaveAgent, Goto
  <2>3. CASE Social(n) \/ Chunk(n) \/ Dispatch(n) \/ ToolDone(n)
    BY <2>1, <2>3 DEF Fields, Goes, Running, Social, Chunk, Dispatch, ToolDone
  <2>4. CASE Answer(n)
    <3>1. PICK calls :
            turn' = [turn EXCEPT ![n].pc = IF n \in cancelled \/ calls = 0 THEN "save" ELSE "tools",
                                 ![n].calls = calls, ![n].owed = calls, ![n].dispatched = FALSE]
      BY <2>4 DEF Answer
    <3> QED  BY <2>1, <2>4, <3>1 DEF Fields, Goes, Running, Answer
  <2>5. CASE Reject(n)
    BY <2>1, <2>5 DEF Fields, Goes, Running, Reject, Rejected
  <2>6. CASE Again(n)
    BY <2>1, <2>6 DEF Fields, Goes, Running, Again
  <2> QED  BY <2>2, <2>3, <2>4, <2>5, <2>6
<1>3. db' = db \/ \E role \in Roles : Files(n, role)
  <2>1. DOMAIN turn = Turns /\ DOMAIN turn[n] = Fields
    BY DEF Inv, Shape
  <2>2. CASE SaveUser(n)
    <3>1. turn[n].pc = "called" /\ Save(n, "user")
      BY <2>2 DEF SaveUser
    <3> QED  BY <3>1 DEF Save, Files, Roles
  <2>3. CASE Social(n)
    <3>1. turn'[n].pc = "finish" /\ Save(n, "agent")
      BY <2>1, <2>3 DEF Social, Fields
    <3> QED  BY <3>1 DEF Save, Files, Roles
  <2>4. CASE SaveAgent(n)
    <3>1. turn'[n].pc = "finish" /\ (Save(n, "agent") \/ db' = db)
      BY <2>1, <2>4 DEF SaveAgent, Goto, Fields
    <3> QED  BY <3>1 DEF Save, Files, Roles
  <2>5. CASE Register(n) \/ Chunk(n) \/ Answer(n) \/ Stopped(n) \/ Dispatch(n) \/ ToolDone(n) \/ Reject(n) \/ Again(n)
    BY <2>5 DEF Register, Chunk, Answer, Stopped, Dispatch, ToolDone, Reject, Again
  <2> QED  BY <2>2, <2>3, <2>4, <2>5
<1> QED  BY <1>1, <1>2, <1>3, LoopScreen

(* The steps that leave the rows alone.                                    *)
LEMMA OnScreenStill ==
  ASSUME Inv, Screen,
         \/ \E n \in Turns : ForgetFailed(n)
         \/ Stop \/ (\E c \in Chats : Open(c) \/ Read(c))
         \/ UNCHANGED vars
  PROVE  Screen'
<1>1. Typed
  BY DEF Screen
<1>2. CASE \E n \in Turns : ForgetFailed(n)
  <2>1. PICK n \in Turns : ForgetFailed(n)
    BY <1>2
  <2>2. /\ turn[n].pc = "forget" /\ turn'[n] = Ended(n, "error")
        /\ \A m \in Turns \ {n} : turn'[m] = turn[m]
        /\ UNCHANGED <<db, rows, live, nextId, chatOf, strayed, reloaded, shown, load>>
    BY <2>1 DEF ForgetFailed, Inv, Shape, view, Sub
  <2>3. turn'[n].pc = "ended" /\ turn'[n].chat = turn[n].chat /\ turn'[n].outcome = "error"
    BY <2>2 DEF Ended, NoTurn
  <2>4. Running' = Running
    BY <2>2, <2>3 DEF Running
  <2>5. \A m \in Turns : \/ turn'[m] = turn[m]
                         \/ /\ turn[m].pc = "forget" /\ turn'[m].pc = "ended"
                            /\ turn'[m].chat = turn[m].chat /\ turn'[m].outcome = "error"
    BY <2>2, <2>3
  <2>6. shown' \in Chats /\ load' \in [Chats -> Loads]
        /\ \A c \in Chats : load'[c].answer \in {load[c].answer, db[c], << >>}
    BY <1>1, <2>2 DEF Typed
  <2> QED  BY <2>2, <2>4, <2>5, <2>6, StillScreen
<1>3. CASE Stop \/ UNCHANGED vars
  <2>1. UNCHANGED <<turn, db, rows, live, nextId, chatOf, strayed, reloaded, shown, load>>
    BY <1>3 DEF Stop, vars, backend, view, Sub
  <2>2. Running' = Running /\ \A m \in Turns : turn'[m] = turn[m]
    BY <2>1 DEF Running
  <2>3. shown' \in Chats /\ load' \in [Chats -> Loads]
        /\ \A c \in Chats : load'[c].answer \in {load[c].answer, db[c], << >>}
    BY <1>1, <2>1 DEF Typed
  <2> QED  BY <2>1, <2>2, <2>3, StillScreen
<1>4. CASE \E c \in Chats : Open(c) \/ Read(c)
  <2>1. PICK c \in Chats : Open(c) \/ Read(c)
    BY <1>4
  <2>2. UNCHANGED <<turn, db, rows, live, nextId, chatOf, strayed, reloaded>>
    BY <2>1 DEF Open, Read, backend, view
  <2>3. Running' = Running /\ \A m \in Turns : turn'[m] = turn[m]
    BY <2>2 DEF Running
  <2>4. shown' \in Chats
    BY <1>1, <2>1 DEF Open, Read, view, Typed
  <2>5. load \in [Chats -> Loads] /\ db \in [Chats -> Seq(Msgs)] /\ load[c] \in Loads
    BY <1>1 DEF Typed
  <2>6. CASE Open(c)
    <3>1. PICK l : l = [load[c] EXCEPT !.stage = "asked"]
      OBVIOUS
    <3>2. l \in Loads /\ l.answer = load[c].answer /\ load' = [load EXCEPT ![c] = l]
      BY <2>5, <2>6, <3>1 DEF Open, Loads
    <3>3. load' \in [Chats -> Loads] /\ \A d \in Chats : load'[d].answer = load[d].answer
      BY <2>5, <3>2
    <3> QED  BY <2>2, <2>3, <2>4, <3>3, StillScreen
  <2>7. CASE Read(c)
    <3>1. PICK answer \in {db[c], << >>} : load' = [load EXCEPT ![c] = [stage |-> "answered", answer |-> answer]]
      BY <2>7 DEF Read
    <3>2. answer \in Seq(Msgs)
      <4>1. db[c] \in Seq(Msgs) /\ << >> \in Seq(Msgs)
        BY <2>5
      <4> QED  BY <3>1, <4>1
    <3>3. PICK l : l = [stage |-> "answered", answer |-> answer]
      OBVIOUS
    <3>4. l \in Loads /\ l.answer = answer /\ load' = [load EXCEPT ![c] = l]
      BY <3>1, <3>2, <3>3 DEF Loads
    <3>5. load' \in [Chats -> Loads] /\ \A d \in Chats : load'[d].answer \in {load[d].answer, db[d], << >>}
      BY <2>5, <3>4
    <3> QED  BY <2>2, <2>3, <2>4, <3>5, StillScreen
  <2> QED  BY <2>1, <2>6, <2>7
<1> QED  BY <1>2, <1>3, <1>4

LEMMA StepScreen == Inv /\ Screen /\ [Next]_vars => Screen'
<1> SUFFICES ASSUME Inv, Screen, [Next]_vars PROVE Screen'
  OBVIOUS
<1>1. CASE \E n \in Turns : Send(n) \/ Step(n) \/ Model(n)
  <2> PICK n \in Turns : Send(n) \/ Step(n) \/ Model(n)
    BY <1>1
  <2> QED
    BY SendScreen, PlannedScreen, OnScreenLoop, FailsScreen, FinishScreen, OnScreenStill DEF Step, Model
<1>2. CASE \E c \in Chats : Show(c)
  BY <1>2, ShowScreen
<1>3. CASE Stop \/ (\E c \in Chats : Open(c) \/ Read(c)) \/ UNCHANGED vars
  BY <1>3, OnScreenStill
<1> QED  BY <1>1, <1>2, <1>3 DEF Next

(* The invariant of the screen: which live copies a chat has, what still   *)
(* streams, which messages are filed or shown, and whose numbers are whose *)
(* (App.tsx send, patch, mergeLiveMessages, nextMessageIdFor).             *)
THEOREM ScreenHolds == Spec => []Screen
  BY InitScreen, StepScreen, Invariant, PTL DEF Spec

(* A bubble holds the words of its own turn, unless one of the two turns   *)
(* strayed: a turn sent from a chat that is all on screen takes numbers    *)
(* above everything shown or kept of that chat, and until it strays a load *)
(* can only show that same chat again (App.tsx patch, nextMessageIdFor).   *)
THEOREM WordsStayApart == Spec => []OwnWords
<1>1. Screen => OwnWords
  BY DEF Screen, Numbers, Words, Who, OwnWords
<1> QED  BY <1>1, ScreenHolds, PTL

(* A message is on screen once, unless its turn strayed, failed or was     *)
(* loaded over: a turn that ended well has left no live copy behind, and   *)
(* none is filed twice (App.tsx mergeLiveMessages, clearLiveTurn).         *)
THEOREM MessagesShowOnce == Spec => []ShownOnce
<1>1. Screen => ShownOnce
  BY DEF Screen, Single, Once, Who, ShownOnce
<1> QED  BY <1>1, ScreenHolds, PTL

(* What streams on screen belongs to the turn under way: it has the number *)
(* of that turn, so the event that ends the turn finds it, on screen and   *)
(* in the copies of its chat (App.tsx chat:done, chat:error).              *)
THEOREM SpinnersEnd == Spec => []SpinnerEnds
<1>1. Screen => SpinnerEnds
  BY DEF Screen, Spin, Streams, Who, SpinnerEnds
<1> QED  BY <1>1, ScreenHolds, PTL

=============================================================================
