------------------------------ MODULE ChatTurn ------------------------------
(***************************************************************************)
(* A turn of a chat: the window that sends it and shows its reply          *)
(* (src/src/App.tsx), the agent loop that runs it with model and tools,    *)
(* and the registry through which the window stops it                      *)
(* (src/src-tauri/src/lib.rs chat_stream, chat_cancel; mlx.rs).            *)
(*                                                                         *)
(* The two sides know a turn by its turn_id, the row number the window     *)
(* gave the agent's bubble. The window renumbers its rows whenever it      *)
(* loads a chat, turns go on while the user looks at another chat, and     *)
(* every await of the window and of the loop lets the other side run.      *)
(*                                                                         *)
(* Abstracted: a text is whether it is empty and whose words it holds; a   *)
(* tool is a call the loop knows or does not know; prompts, agents, models *)
(* and vault context are left out. An event is handled where it is         *)
(* emitted: the window gets the events of the loop in their order.         *)
(***************************************************************************)
EXTENDS Integers, Sequences, FiniteSets, FiniteSetsExt, Functions

CONSTANTS
  Chats,
  OldMessages,  \* chat -> how many messages it holds at the start
  MaxIters,     \* MAX_ITERS of the agent loop
  MaxCalls,     \* bound: tool calls in one answer of the model
  MaxTurns,     \* bound: turns the user sends
  MaxLoads,     \* bound: chats the user opens
  MaxFaults     \* bound: failures of the database and of the model

ASSUME ChatTurnAssumption ==
  /\ Chats # {} /\ OldMessages \in [Chats -> Nat]
  /\ MaxIters \in Nat \ {0} /\ {MaxCalls, MaxTurns, MaxLoads, MaxFaults} \subseteq Nat

VARIABLES
  \* SurrealDB
  db,        \* chat -> its messages, each <<turn, role>>; turn 0 for old ones
  \* the agent loop, one record per turn
  turn,
  registry,  \* ChatCancels, each entry <<turn_id, turn>>
  cancelled, \* turns whose CancellationToken is cancelled
  \* the window
  shown,     \* currentChatId
  rows,      \* messages: [id, msg, heard, status]
  nextId, busy,
  active,    \* activeTurnId, NoId for null
  live,      \* liveMessagesByChat
  chatOf,    \* liveTurnChatById, each entry <<turn_id, chat>>
  load,      \* chat -> list_messages under way: its stage and its answer
  loads, faults, \* how much of MaxLoads and MaxFaults is used
  \* history
  strayed,   \* turns sent before their chat was all on screen, or during which
             \* the rows of another chat were shown, or any before the turn's own
  reloaded   \* turns during which the rows of their own chat were loaded again

backend == <<db, turn, registry, cancelled>>
view    == <<shown, rows, nextId, busy, active, live, chatOf>>
vars    == <<backend, view, load, loads, faults, strayed, reloaded>>

Turns  == 1..MaxTurns
NoId   == -1
NoChat == "none"
NoLoad == [stage |-> "none", answer |-> << >>]

Stages  == {"none", "plan", "called", "prepare", "stream", "tools", "exec",
            "save", "finish", "forget", "ended"}
NoTurn  == [pc |-> "none", chat |-> NoChat, id |-> NoId, iter |-> 1, calls |-> 0,
            owed |-> 0, dispatched |-> FALSE, said |-> FALSE, social |-> FALSE,
            outcome |-> "none"]
Ended(n, outcome) == [NoTurn EXCEPT !.pc = "ended", !.chat = turn[n].chat, !.outcome = outcome]

(* Turns under way: sent and not yet reported done or failed. A turn that  *)
(* has ended keeps its chat and its outcome only.                          *)
Running == {n \in Turns : turn[n].pc \notin {"none", "forget", "ended"}}

Row(id, msg, status) == [id |-> id, msg |-> msg, heard |-> {}, status |-> status]

-----------------------------------------------------------------------------
(* What the window does with an event of turn_id id.                       *)

(* The rows of number id in s, changed by the event.                       *)
Heard(s, id, n) ==
  [i \in DOMAIN s |-> IF s[i].id = id THEN [s[i] EXCEPT !.heard = @ \cup {n}] ELSE s[i]]
Settled(s, id, status) ==
  [i \in DOMAIN s |-> IF s[i].id = id THEN [s[i] EXCEPT !.status = status] ELSE s[i]]

(* patch: every visible row with the id, and the live copy in the chat the *)
(* id is registered for. chat:token:                                       *)
Token(n) ==
  LET id == turn[n].id
  IN /\ rows' = Heard(rows, id, n)
     /\ live' = [c \in Chats |-> IF <<id, c>> \in chatOf THEN Heard(live[c], id, n) ELSE live[c]]
     /\ UNCHANGED <<shown, nextId, busy, active, chatOf>>

Settle(n, status) ==
  LET id == turn[n].id
  IN /\ rows' = Settled(rows, id, status)
     /\ live' = [c \in Chats |-> IF <<id, c>> \in chatOf THEN Settled(live[c], id, status)
                                 ELSE live[c]]

Unlock(n) ==
  /\ busy' = FALSE
  /\ active' = IF active = turn[n].id THEN NoId ELSE active
  /\ UNCHANGED <<shown, nextId>>

(* mutant: the live copies stay after the turn is done *)
Done_KeepsLive(n) == Settle(n, "done") /\ Unlock(n) /\ UNCHANGED chatOf

(* The rows of s without those of the numbers ids.                         *)
Without(s, ids) == LET kept[i \in 0..Len(s)] ==
                         IF i = 0 THEN << >>
                         ELSE IF s[i].id \in ids THEN kept[i - 1] ELSE Append(kept[i - 1], s[i])
                   IN kept[Len(s)]

(* chat:done, clearLiveTurn: the live copies of the turn go, found by id.  *)
Done(n) ==
  LET id == turn[n].id
  IN /\ rows' = Settled(rows, id, "done")
     /\ live' = [c \in Chats |->
           IF <<id, c>> \in chatOf THEN Without(live[c], {id - 1, id}) ELSE live[c]]
     /\ chatOf' = {e \in chatOf : e[1] # id}
     /\ Unlock(n)

(* mutant: only the visible rows learn of the error *)
Failed_RowsOnly(n) ==
  /\ rows' = Settled(rows, turn[n].id, "error")
  /\ Unlock(n) /\ UNCHANGED <<live, chatOf>>

(* mutant: an error leaves the window locked *)
Failed_Locked(n) ==
  Settle(n, "error") /\ UNCHANGED <<shown, nextId, busy, active, chatOf>>

(* chat:error: the live copies stay.                                       *)
Failed(n) == Settle(n, "error") /\ Unlock(n) /\ UNCHANGED chatOf

-----------------------------------------------------------------------------
Init ==
  /\ db = [c \in Chats |->
             [i \in 1..OldMessages[c] |-> <<0, IF i % 2 = 1 THEN "user" ELSE "agent">>]]
  /\ turn = [n \in Turns |-> NoTurn]
  /\ registry = {} /\ cancelled = {}
  /\ shown \in Chats
  /\ rows = [i \in DOMAIN db[shown] |-> Row(i - 1, db[shown][i], "done")]
  /\ nextId = Len(db[shown])
  /\ busy = FALSE /\ active = NoId
  /\ live = [c \in Chats |-> << >>] /\ chatOf = {}
  /\ load = [c \in Chats |-> NoLoad] /\ loads = 0 /\ faults = 0
  /\ strayed = {} /\ reloaded = {}

Sub == <<load, loads, strayed, reloaded>>   \* what a turn itself leaves alone

Works == UNCHANGED faults
Fails == faults < MaxFaults /\ faults' = faults + 1

-----------------------------------------------------------------------------
(* The window sends.                                                       *)

(* The rows on screen and their numbers are those of the chat, the numbers *)
(* of its live copies are taken, and no load is under way.                 *)
OnScreen ==
  /\ \A c \in Chats : load[c] = NoLoad
  /\ \A i \in DOMAIN rows : LET n == rows[i].msg[1] IN n = 0 \/ turn[n].chat = shown
  /\ Len(rows) >= Len(db[shown]) /\ nextId >= Len(db[shown])
  /\ \A i \in DOMAIN live[shown] : live[shown][i].id < nextId

(* send, up to its first await: ids are taken from what is on screen.      *)
Send(n) ==
  /\ turn[n].pc = "none" /\ \A m \in Turns : m < n => turn[m].pc # "none"
  /\ ~busy
  /\ busy' = TRUE /\ active' = nextId + 1 /\ nextId' = nextId + 2
  /\ turn' = [turn EXCEPT ![n] = [NoTurn EXCEPT !.pc = "plan", !.chat = shown,
                                                !.id = nextId + 1]]
  /\ strayed' = IF OnScreen THEN strayed ELSE strayed \cup {n}
  /\ UNCHANGED <<db, registry, cancelled, shown, rows, live, chatOf, load, loads, faults,
                 reloaded>>

(* prepareTurnPlan has answered: the rows of the turn join whatever is on  *)
(* screen by now and the live copies of the chat it was sent from; then    *)
(* chat_stream is called, or the model is not ready.                       *)
Planned(n) ==
  LET c    == turn[n].chat
      id   == turn[n].id
      user == Row(id - 1, <<n, "user">>, "done")
      Agent(status) == Row(id, <<n, "agent">>, status)
  IN /\ turn[n].pc = "plan"
     /\ chatOf' = {e \in chatOf : e[1] # id} \cup {<<id, c>>}
     /\ \/ /\ turn' = [turn EXCEPT ![n].pc = "called"]
           /\ rows' = rows \o <<user, Agent("streaming")>>
           /\ live' = [live EXCEPT ![c] = @ \o <<user, Agent("streaming")>>]
           /\ UNCHANGED <<busy, active>>
           /\ Works
        \/ /\ Fails
           /\ turn' = [turn EXCEPT ![n] = Ended(n, "error")]
           /\ rows' = Settled(rows \o <<user, Agent("streaming")>>, id, "error")
           /\ live' = [live EXCEPT ![c] = Settled(@ \o <<user, Agent("streaming")>>, id, "error")]
           /\ busy' = FALSE /\ active' = NoId
     /\ UNCHANGED <<db, registry, cancelled, shown, nextId, Sub>>

(* HashMap::remove: the token of a turn_id, if it is there.               *)
Entries(id) == {e \in registry : e[1] = id}
Tokens(id)  == {e[2] : e \in Entries(id)}

(* cancelStream, chat_cancel: nothing happens before the turn registers.   *)
Stop ==
  /\ Entries(active) # {}
  /\ cancelled' = cancelled \cup Tokens(active)
  /\ registry' = registry \ Entries(active)
  /\ UNCHANGED <<db, turn, view, faults, Sub>>

-----------------------------------------------------------------------------
(* The window shows another chat, or the same one again.                   *)

Open(c) ==
  /\ loads < MaxLoads /\ loads' = loads + 1
  /\ load[c] = NoLoad
  /\ shown' = c
  /\ load' = [load EXCEPT ![c].stage = "asked"]
  /\ UNCHANGED <<backend, rows, nextId, busy, active, live, chatOf, faults, strayed, reloaded>>

(* list_messages reads, or fails and stands for an empty list ...          *)
Read(c) ==
  /\ load[c].stage = "asked"
  /\ \E answer \in {db[c], << >>} :
       /\ load' = [load EXCEPT ![c] = [stage |-> "answered", answer |-> answer]]
       /\ IF answer = db[c] THEN Works ELSE Fails
  /\ UNCHANGED <<backend, view, loads, strayed, reloaded>>

(* mutant: numbering goes on from the chat shown before *)
NextId_Kept(s) == nextId

(* nextMessageIdFor.                                                       *)
NextId(s) == IF s = << >> THEN 0 ELSE Max({s[i].id : i \in DOMAIN s}) + 1

(* ... and its answer replaces the rows, whatever chat is current by then: *)
(* positions as ids, then the live copies, none of which has a dbId to be  *)
(* recognised by.                                                          *)
Show(c) ==
  LET answer   == load[c].answer
      hydrated == [i \in DOMAIN answer |-> Row(i - 1, answer[i], "done")]
      merged   == hydrated \o live[c]
  IN /\ load[c].stage = "answered"
     /\ rows' = merged
     /\ nextId' = NextId(merged)
     /\ load' = [load EXCEPT ![c] = NoLoad]
     /\ strayed' = strayed \cup {n \in Running : turn[n].chat # c \/ turn[n].pc = "plan"}
     /\ reloaded' = reloaded \cup {n \in Running : turn[n].chat = c}
     /\ UNCHANGED <<backend, shown, busy, active, live, chatOf, loads, faults>>

-----------------------------------------------------------------------------
(* The agent loop.                                                         *)

Goto(n, pc) == turn' = [turn EXCEPT ![n].pc = pc]

(* save_message; its error is ignored.                                     *)
Save(n, role) ==
  \/ db' = [db EXCEPT ![turn[n].chat] = Append(@, <<n, role>>)] /\ Works
  \/ UNCHANGED db /\ Fails

(* chat_stream saves the user's message first.                             *)
SaveUser(n) ==
  /\ turn[n].pc = "called" /\ Goto(n, "prepare")
  /\ Save(n, "user")
  /\ UNCHANGED <<registry, cancelled, view, Sub>>

(* lightweight_social_reply: the answer is ready and nothing registers.    *)
Social(n) ==
  /\ turn[n].pc = "prepare"
  /\ turn' = [turn EXCEPT ![n].pc = "finish", ![n].said = TRUE, ![n].social = TRUE]
  /\ Save(n, "agent")
  /\ Token(n)
  /\ UNCHANGED <<registry, cancelled, Sub>>

Register(n) ==
  LET id == turn[n].id
  IN /\ turn[n].pc = "prepare" /\ Goto(n, "stream")
     /\ registry' = (registry \ Entries(id)) \cup {<<id, n>>}
     /\ cancelled' = cancelled \cup Tokens(id)
     /\ UNCHANGED <<db, view, faults, Sub>>

(* A chunk of the answer.                                                  *)
Chunk(n) ==
  /\ turn[n].pc = "stream"
  /\ turn' = [turn EXCEPT ![n].said = TRUE]
  /\ Token(n)
  /\ UNCHANGED <<db, registry, cancelled, faults, Sub>>

(* The answer ends, with calls or without.                                 *)
Answer(n) ==
  /\ turn[n].pc = "stream"
  /\ \E calls \in 0..MaxCalls :
       turn' = [turn EXCEPT ![n].pc = IF n \in cancelled \/ calls = 0 THEN "save" ELSE "tools",
                            ![n].calls = calls, ![n].owed = calls, ![n].dispatched = FALSE]
  /\ UNCHANGED <<db, registry, cancelled, view, faults, Sub>>

(* The select of the stream sees the token.                                *)
Stopped(n) ==
  /\ turn[n].pc = "stream" /\ n \in cancelled /\ Goto(n, "save")
  /\ UNCHANGED <<db, registry, cancelled, view, faults, Sub>>

(* The model or the connection fails: the window is told, nothing is kept. *)
StreamFails(n) ==
  /\ turn[n].pc = "stream"
  /\ turn' = [turn EXCEPT ![n].pc = "forget", ![n].outcome = "error"]
  /\ Failed(n) /\ Fails
  /\ UNCHANGED <<db, registry, cancelled, Sub>>

(* The next call of the answer, one the loop knows: its chip is shown ...  *)
Dispatch(n) ==
  /\ turn[n].pc = "tools" /\ turn[n].calls > 0 /\ n \notin cancelled
  /\ turn' = [turn EXCEPT ![n].pc = "exec", ![n].said = TRUE, ![n].dispatched = TRUE]
  /\ Token(n)
  /\ UNCHANGED <<db, registry, cancelled, faults, Sub>>

(* ... and its result becomes a message to the model.                      *)
ToolDone(n) ==
  /\ turn[n].pc = "exec"
  /\ turn' = [turn EXCEPT ![n].pc = "tools", ![n].calls = @ - 1, ![n].owed = @ - 1]
  /\ UNCHANGED <<db, registry, cancelled, view, faults, Sub>>

(* mutant: an unknown call is skipped without a word to the model *)
Rejected_Silent(r) == [r EXCEPT !.calls = @ - 1]

(* One it does not know: the model is told.                                *)
Rejected(r) == [r EXCEPT !.calls = @ - 1, !.owed = @ - 1]

Reject(n) ==
  /\ turn[n].pc = "tools" /\ turn[n].calls > 0 /\ n \notin cancelled
  /\ turn' = [turn EXCEPT ![n] = Rejected(@)]
  /\ UNCHANGED <<db, registry, cancelled, view, faults, Sub>>

(* mutant: the token is not asked again after the tools *)
Over_Deaf(n) == ~turn[n].dispatched

Over(n) == ~turn[n].dispatched \/ n \in cancelled

AtCap(n) == turn[n].iter >= MaxIters

(* All calls handled, or the user stopped the turn: save what was said, or *)
(* ask the model again. The request for closing prose at the cap joins     *)
(* messages that no one sends any more: the loop is over.                  *)
Again(n) ==
  LET t    == turn[n]
      last == Over(n) \/ AtCap(n)
  IN /\ t.pc = "tools" /\ (t.calls = 0 \/ n \in cancelled)
     /\ turn' = [turn EXCEPT ![n].pc = IF last THEN "save" ELSE "stream",
                             ![n].iter = IF last THEN @ ELSE @ + 1]
     /\ UNCHANGED <<db, registry, cancelled, view, faults, Sub>>

SaveAgent(n) ==
  /\ turn[n].pc = "save" /\ Goto(n, "finish")
  /\ IF turn[n].said THEN Save(n, "agent") ELSE UNCHANGED <<db, faults>>
  /\ UNCHANGED <<registry, cancelled, view, Sub>>

(* The registry forgets whatever is under the turn's id by now.            *)
Forget(n) == registry' = registry \ Entries(turn[n].id)

(* A social reply leaves the registry alone.                               *)
Finish(n) ==
  /\ turn[n].pc = "finish"
  /\ turn' = [turn EXCEPT ![n] = Ended(n, "done")]
  /\ cancelled' = cancelled \ {n}
  /\ IF turn[n].social THEN UNCHANGED registry ELSE Forget(n)
  /\ Done(n)
  /\ UNCHANGED <<db, faults, Sub>>

ForgetFailed(n) ==
  /\ turn[n].pc = "forget"
  /\ turn' = [turn EXCEPT ![n] = Ended(n, "error")] /\ cancelled' = cancelled \ {n}
  /\ Forget(n)
  /\ UNCHANGED <<db, view, faults, Sub>>

-----------------------------------------------------------------------------
(* What the loop does by itself, and what it does with the model.          *)
Step(n) ==
  \/ Planned(n) \/ SaveUser(n) \/ Social(n) \/ Register(n)
  \/ Dispatch(n) \/ ToolDone(n) \/ Reject(n) \/ Again(n)
  \/ SaveAgent(n) \/ Finish(n) \/ ForgetFailed(n)

Model(n) == Chunk(n) \/ Answer(n) \/ Stopped(n) \/ StreamFails(n)

Next ==
  \/ \E n \in Turns : Send(n) \/ Step(n) \/ Model(n)
  \/ Stop
  \/ \E c \in Chats : Open(c) \/ Read(c) \/ Show(c)

Spec == Init /\ [][Next]_vars

-----------------------------------------------------------------------------
(* A bubble holds the words of its own turn and of no other, although rows *)
(* are numbered anew whenever a chat is shown and found by number          *)
(* (nextMessageIdFor, patch); unless one of the two turns strayed.         *)
OwnWords ==
  \A i \in DOMAIN rows :
    LET n == rows[i].msg[1]
    IN n \notin strayed => rows[i].heard \subseteq {n} \cup strayed

(* A message is on screen once, although a turn's rows are kept both in    *)
(* the window and in the database (mergeLiveMessages, clearLiveTurn):      *)
(* unless the chat was loaded in the middle of the turn or the turn        *)
(* failed.                                                                 *)
ShownOnce ==
  \A i, j \in DOMAIN rows :
    LET n == rows[i].msg[1]
    IN (i # j /\ rows[i].msg = rows[j].msg /\ n # 0)
         => n \in strayed \cup reloaded \/ turn[n].outcome = "error"

(* No bubble goes on streaming after its turn: whatever the user opened    *)
(* meanwhile, the end of a turn reaches the row or the copy it is shown    *)
(* from (chat:done, chat:error).                                           *)
SpinnerEnds ==
  \A i \in DOMAIN rows : rows[i].status = "streaming" => rows[i].msg[1] \in Running

(* The window is locked exactly while a turn is under way.                 *)
LockedByTurn == busy <=> Running # {}

(* Whenever the loop asks the model again, every call of the answers       *)
(* before it has a result message: chat templates reject anything else.    *)
EveryCallAnswered ==
  \A n \in Turns : turn[n].pc = "stream" => turn[n].owed = 0

(* A turn the user stopped starts no tool and asks the model nothing more: *)
(* what is under way at the moment of the stop is all that still happens.  *)
StopHolds ==
  [][\A n \in cancelled :
       /\ turn'[n].pc = "stream" => turn[n].pc = "stream"
       /\ turn'[n].pc = "exec" => turn[n].pc = "exec"]_vars
=============================================================================
