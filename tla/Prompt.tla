------------------------------- MODULE Prompt -------------------------------
(***************************************************************************)
(* What the model is asked in the turns of a chat and what its calls may   *)
(* do: the history the window sends (src/src/App.tsx buildPromptHistory),  *)
(* the agent that speaks, its prompt and its tools                         *)
(* (src/src-tauri/src/lib.rs chat_stream), the coercion of the messages    *)
(* into what a chat template accepts (normalize_role_alternation), and the *)
(* dispatch of the model's calls (tools.rs, caps.rs).                      *)
(*                                                                         *)
(* Abstracted: a text is one word, the number of its row, and its length   *)
(* a small number; the parts of the system prompt are one word each. A     *)
(* call is a name and the arguments it carries. One chat, one turn at a    *)
(* time: what turns of two chats do to each other is in ChatTurn, what a   *)
(* tool does to the vault or the mail is in Vault and Shadows.             *)
(***************************************************************************)
EXTENDS Integers, Sequences, FiniteSets, SequencesExt

CONSTANTS
  Agents,       \* the agents
  Room,         \* the room of the chat at first: its agents, the lead first
  Baseline,     \* agent -> capabilities that every start grants it
  CapSets,      \* the sets of capabilities a user gives an agent
  Lengths,      \* lengths of a user's text
  MaxMessages,  \* PROMPT_HISTORY_MAX_MESSAGES
  MaxChars,     \* PROMPT_HISTORY_MAX_CHARS
  MaxIters,     \* MAX_ITERS of the agent loop
  MaxCalls,     \* bound: calls in one answer of the model
  MaxTurns,     \* bound: turns the user sends
  MaxEdits,     \* bound: changes of an agent or of the room
  MaxRestarts   \* bound: restarts of the app

Capabilities == {"calendar.read", "calendar.write", "reminders.read", "reminders.write",
                 "email.read", "filesystem.read"}

ASSUME PromptAssumption ==
  /\ "nobody" \notin Agents /\ Room \in Seq(Agents)
  /\ Baseline \in [Agents -> SUBSET Capabilities] /\ CapSets \subseteq SUBSET Capabilities
  /\ Lengths \subseteq Nat \ {0}
  /\ {MaxMessages, MaxChars, MaxIters} \subseteq Nat \ {0}
  /\ {MaxCalls, MaxTurns, MaxEdits, MaxRestarts} \subseteq Nat

VARIABLES
  caps,     \* agent -> its capabilities
  room,     \* chat.agents: the agents of the chat, the lead first
  rows,     \* the window's rows: [role, word, size, tools]
  saved,    \* the rows the database holds
  pc, text, \* the turn under way: its stage; the text that was sent
  override, \* agentOverride: the speaker the window chose
  surface,  \* caps_clone: the capabilities of the turn
  granted,  \* history: the speaker's capabilities when the turn began
  history,  \* history: what the window sent
  messages, \* iter_messages
  iter, asked, owed, \* iteration; calls of the last answer, and how many are left
  dispatched, reply, \* any_dispatch; the reply so far: [size, tools]
  astray,   \* history: calls of the turn that did not go as its capabilities say
  turns, edits, restarts \* how much of the bounds is used

settings == <<caps, room>>
turnVars == <<text, override, surface, granted, history>>
loop     == <<messages, iter, asked, owed, dispatched, reply, astray>>
bounds   == <<turns, edits, restarts>>
vars     == <<settings, rows, saved, pc, turnVars, loop, bounds>>

Nobody == "nobody"

-----------------------------------------------------------------------------
(* The tools.                                                              *)

VaultTools == {"graph_search", "graph_neighbors", "create_note", "append_to_note",
               "edit_note", "replace_note_body", "delete_note", "relate"}

(* tool_schemas: what is offered for a capability ...                      *)
OfferedFor(c) ==
  CASE c = "calendar.read"   -> {"list_events"}
    [] c = "calendar.write"  -> {"create_event", "delete_event"}
    [] c = "reminders.read"  -> {"list_reminders"}
    [] c = "reminders.write" -> {"create_reminder"}
    [] c = "email.read"      -> {"search_mail", "read_thread", "list_mail",
                                 "promote_email_thread"}
    [] c = "filesystem.read" -> {"list_dir", "read_file"}
Offered(C) == VaultTools \cup UNION {OfferedFor(c) : c \in C}

Tools == Offered(Capabilities)

(* ... and the arguments it says are required.                             *)
SchemaRequired(a) ==
  CASE a = "append_to_note"    -> {"title", "content"}
    [] a = "edit_note"         -> {"title", "old_string", "new_string"}
    [] a = "replace_note_body" -> {"title", "body"}
    [] a \in {"graph_neighbors", "create_note", "delete_note", "create_reminder"} -> {"title"}
    [] a = "relate"            -> {"from", "to"}
    [] a \in {"graph_search", "search_mail"} -> {"query"}
    [] a = "create_event"      -> {"title", "start", "end"}
    [] a \in {"read_thread", "promote_email_thread"} -> {"thread_id"}
    [] a \in {"list_dir", "read_file"} -> {"path"}
    [] OTHER                   -> {}

(* mutant: the parser does not know read_thread (as parse_block does not)  *)
FromFunctionCall_Block(a, args) ==
  /\ a \in Tools \ {"read_thread"}
  /\ SchemaRequired(a) \subseteq args

(* from_function_call makes a call of it: the name is known and what the   *)
(* parser itself needs is there. Broken JSON is an object without members. *)
FromFunctionCall(a, args) ==
  /\ a \in Tools
  /\ CASE a \in {"graph_neighbors", "create_note", "append_to_note", "replace_note_body",
                 "edit_note", "delete_note", "create_reminder"} -> "title" \in args
       [] a = "relate"       -> {"from", "to"} \subseteq args
       [] a \in {"graph_search", "search_mail"} -> "query" \in args
       [] a = "create_event" -> {"title", "start", "end"} \subseteq args
       [] a = "delete_event" -> args \cap {"id", "title"} # {}
       [] a \in {"read_thread", "promote_email_thread"} -> "thread_id" \in args
       [] a \in {"list_dir", "read_file"} -> "path" \in args
       [] OTHER              -> TRUE

(* mutant: the gate forgets the one mail tool that writes                  *)
CapForAction_NoPromote(a) ==
  CASE a \in {"create_event", "delete_event"} -> "calendar.write"
    [] a = "list_events"     -> "calendar.read"
    [] a = "create_reminder" -> "reminders.write"
    [] a = "list_reminders"  -> "reminders.read"
    [] a \in {"search_mail", "list_mail", "read_thread"} -> "email.read"
    [] a \in {"list_dir", "read_file"} -> "filesystem.read"
    [] OTHER                 -> "none"

(* cap_for_action: the capability the gate of execute asks for.            *)
CapForAction(a) ==
  CASE a \in {"create_event", "delete_event"} -> "calendar.write"
    [] a = "list_events"     -> "calendar.read"
    [] a = "create_reminder" -> "reminders.write"
    [] a = "list_reminders"  -> "reminders.read"
    [] a \in {"search_mail", "list_mail", "read_thread", "promote_email_thread"} -> "email.read"
    [] a \in {"list_dir", "read_file"} -> "filesystem.read"
    [] OTHER                 -> "none"

Passes(a, C) == CapForAction(a) \in C \cup {"none"}

(* Writes whose result nobody looks at: the model is told ok either way.   *)
Silent == {"create_note", "append_to_note", "replace_note_body", "delete_note", "relate",
           "create_event", "delete_event", "create_reminder"}

(* What a call the model makes carries.                                    *)
Arguments(a) == {{}, SchemaRequired(a)} \cup
                (IF a = "delete_event" THEN {{"id"}, {"title"}} ELSE {})

-----------------------------------------------------------------------------
(* The messages.                                                           *)

Message(role, word) == [role |-> role, words |-> <<word>>, calls |-> 0, answers |-> 0]
Calls(n)  == [role |-> "assistant", words |-> << >>, calls |-> n, answers |-> 0]
Result(i) == [role |-> "tool", words |-> << >>, calls |-> 0, answers |-> i]

(* Words of the system prompt, and of the note at the end of the budget.   *)
Base == -1
Persona == -2
VaultNotes == -3
Docs == -4
Clock == -5
Nudge == -6

(* The sequences of ss, one after the other.                               *)
Concat(ss) == LET upto[i \in 0..Len(ss)] == IF i = 0 THEN << >> ELSE upto[i - 1] \o ss[i]
              IN  upto[Len(ss)]

Plain(m) == m.role # "tool" /\ m.calls = 0
Joined(m, n) == [m EXCEPT !.words = @ \o n.words]

(* buildPromptHistory: rows without a text and agent rows with tool        *)
(* results go, an agent's text is cut to length 1, and of the rest the     *)
(* longest end that fits is kept, the new text whatever its length.        *)
Candidates(rs) ==
  Concat([i \in DOMAIN rs |->
    IF rs[i].size > 0 /\ ~(rs[i].role = "agent" /\ rs[i].tools) THEN <<rs[i]>> ELSE << >>])
PromptSize(r) == IF r.role = "agent" THEN 1 ELSE r.size
TotalSize(rs) == FoldLeft(LAMBDA n, r : n + PromptSize(r), 0, rs)
Suffix(rs, n) == SubSeq(rs, Len(rs) - n + 1, Len(rs))

Fits(rs) == Len(rs) = 1 \/ (Len(rs) <= MaxMessages /\ TotalSize(rs) <= MaxChars)

BuildPromptHistory(rs, latest) ==
  LET all == Append(Candidates(rs), latest)
      n   == CHOOSE k \in 0..Len(all) :
               /\ \A j \in 1..k : Fits(Suffix(all, j))
               /\ k < Len(all) => ~Fits(Suffix(all, k + 1))
      said(r) == Message(IF r.role = "agent" THEN "assistant" ELSE "user", r.word)
  IN [i \in 1..n |-> said(Suffix(all, n)[i])]

(* A part goes to the end of the leading system message, or becomes one.   *)
Inject(ms, word) ==
  IF ms # << >> /\ ms[1].role = "system"
  THEN [ms EXCEPT ![1].words = Append(@, word)]
  ELSE <<Message("system", word)>> \o ms

(* The agent's persona takes the place of the leading system message.      *)
AsPersona(ms) ==
  IF ms # << >> /\ ms[1].role = "system"
  THEN [ms EXCEPT ![1].words = <<Persona>>]
  ELSE <<Message("system", Persona)>> \o ms

(* One step of the walk of normalize_role_alternation: calls and results   *)
(* pass, any other role becomes user, a neighbour of the same role joins.  *)
Walk(out, m) ==
  LET role == IF m.role = "assistant" THEN "assistant" ELSE "user"
  IN IF ~Plain(m) THEN Append(out, m)
     ELSE IF out # << >> /\ Plain(Last(out)) /\ Last(out).role = role
     THEN [out EXCEPT ![Len(out)] = Joined(@, m)]
     ELSE Append(out, [m EXCEPT !.role = role])

(* How many messages of this role s begins with.                           *)
Leading(role, s) ==
  CHOOSE n \in 0..Len(s) : /\ \A i \in 1..n : s[i].role = role
                           /\ n < Len(s) => s[n + 1].role # role
Drop(s, n) == SubSeq(s, n + 1, Len(s))

(* The walk over s, behind what is out already.                            *)
Walked(head, s) == LET out[i \in 0..Len(s)] == IF i = 0 THEN head ELSE Walk(out[i - 1], s[i])
                   IN  out[Len(s)]

(* The leading system messages as one.                                     *)
Systems(ms) ==
  LET n == Leading("system", ms)
  IN  IF n = 0 THEN << >>
      ELSE <<[ms[1] EXCEPT !.words = Concat([i \in 1..n |-> ms[i].words])]>>

(* mutant: an assistant ahead of the first user stays *)
NormalizeRoleAlternation_KeepsLead(ms) ==
  Walked(Systems(ms), Drop(ms, Leading("system", ms)))

NormalizeRoleAlternation(ms) ==
  LET rest == Drop(ms, Leading("system", ms))
  IN  Walked(Systems(ms), Drop(rest, Leading("assistant", rest)))

-----------------------------------------------------------------------------
(* A greeting is answered without a model; words that call for tools bring *)
(* the tools and their part of the prompt.                                 *)
Kinds == {"social", "plain", "tools"}

NoText  == [row |-> [role |-> "user", word |-> 0, size |-> 0, tools |-> FALSE],
            kind |-> "plain", mention |-> Nobody]
NoReply == [size |-> 0, tools |-> FALSE]

Init ==
  /\ caps = Baseline
  /\ room = Room
  /\ rows = << >> /\ saved = << >>
  /\ pc = "idle" /\ text = NoText /\ override = Nobody
  /\ surface = {} /\ granted = {} /\ history = << >>
  /\ messages = << >> /\ iter = 1 /\ asked = 0 /\ owed = 0
  /\ dispatched = FALSE /\ reply = NoReply /\ astray = {}
  /\ turns = 0 /\ edits = 0 /\ restarts = 0

(* A save's error is dropped: the row may be missing.                      *)
Save(row) == saved' \in {saved, Append(saved, row)}

Row(role, size, tools) ==
  [role |-> role, word |-> 2 * turns - (IF role = "user" THEN 1 ELSE 0),
   size |-> size, tools |-> tools]

(* send, buildTurnPlan: a text of a greeting, of ordinary words or of      *)
(* words that call for tools; a mention counts in a room of two or more,   *)
(* the lead is the first of the window's list, which has no fixed order.   *)
Send ==
  /\ pc = "idle" /\ turns < MaxTurns
  /\ turns' = turns + 1
  /\ \E size \in Lengths, kind \in Kinds,
        mention \in Agents \cup {Nobody} :
       /\ text' = [row |-> [role |-> "user", word |-> 2 * turns + 1, size |-> size,
                            tools |-> FALSE], kind |-> kind, mention |-> mention]
       /\ override' \in IF Len(room) >= 2 /\ mention \in Range(room) THEN {mention}
                        ELSE IF room # << >> THEN Range(room) ELSE {Nobody}
  /\ pc' = "plan"
  /\ UNCHANGED <<settings, rows, saved, surface, granted, history, loop,
                 edits, restarts>>

(* After the await of prepareTurnPlan: the history is built and the rows   *)
(* of the turn shown; a model that is not ready ends the turn there.       *)
Plan ==
  /\ pc = "plan"
  /\ rows' = Append(rows, text.row)
  /\ history' = BuildPromptHistory(rows, text.row)
  /\ \/ pc' = "called"
     \/ pc' = "failed"
  /\ UNCHANGED <<settings, saved, text, override, surface, granted, loop, bounds>>

(* resolve_mentioned_agent_id, get_chat_agent: the mention if it is in the *)
(* room now, else the window's choice, else the lead.                      *)
Resolved ==
  IF text.mention \in Range(room) THEN text.mention
  ELSE IF override # Nobody THEN override
  ELSE IF room # << >> THEN room[1] ELSE Nobody

(* chat_stream, a greeting: a fixed reply, no model.                       *)
Greet ==
  /\ pc = "called" /\ text.kind = "social"
  /\ \E s \in {saved, Append(saved, text.row)} :
       saved' \in {s, Append(s, Row("agent", 1, FALSE))}
  /\ reply' = [size |-> 1, tools |-> FALSE]
  /\ pc' = "done"
  /\ UNCHANGED <<settings, rows, turnVars, messages, iter, asked, owed, dispatched, astray,
                 bounds>>

(* chat_stream: save the text, find the speaker and build the prompt. What *)
(* the rest of the turn does not look at is forgotten. VaultNotes stands   *)
(* for the notes the text mentions, or none: sent has a system message.    *)
Prepare ==
  /\ pc = "called" /\ text.kind # "social"
  /\ Save(text.row)
  /\ surface' = IF Resolved = Nobody THEN {} ELSE caps[Resolved]
  /\ granted' = surface'
  /\ LET sent  == <<Message("system", Base)>> \o history
         whose == IF Resolved = Nobody THEN sent ELSE AsPersona(sent)
     IN messages' = IF text.kind = "tools"
                    THEN Inject(Inject(Inject(whose, VaultNotes), Docs), Clock) ELSE whose
  /\ iter' = 1 /\ dispatched' = FALSE /\ reply' = NoReply /\ astray' = {}
  /\ asked' = 0 /\ owed' = 0
  /\ pc' = "ask"
  /\ text' = [NoText EXCEPT !.row = text.row] /\ override' = Nobody
  /\ UNCHANGED <<settings, rows, history, bounds>>

(* An iteration begins: the messages are normalised and sent.              *)
Ask ==
  /\ pc = "ask"
  /\ messages' = NormalizeRoleAlternation(messages)
  /\ pc' = "stream"
  /\ UNCHANGED <<settings, rows, saved, turnVars, iter, asked, owed, dispatched, reply, astray, bounds>>

(* The answer: words, calls, both or neither; the words next to calls do   *)
(* not go back to the model. Stop and errors end the turn.                 *)
Answer ==
  /\ pc = "stream"
  /\ \E said \in BOOLEAN, n \in 0..MaxCalls :
       /\ reply' = IF said THEN [reply EXCEPT !.size = 1] ELSE reply
       /\ IF n = 0
          THEN pc' = "save" /\ UNCHANGED <<messages, asked, owed>>
          ELSE /\ messages' = Append(messages, Calls(n))
               /\ asked' = n /\ owed' = n /\ pc' = "calls"
  /\ dispatched' = FALSE
  /\ UNCHANGED <<settings, rows, saved, turnVars, iter, astray, bounds>>

(* The user stops the turn: the words streamed so far are kept.            *)
Stop ==
  /\ pc \in {"stream", "calls"}
  /\ reply' \in {reply} \cup (IF pc = "stream" THEN {[reply EXCEPT !.size = 1]} ELSE {})
  /\ pc' = "save"
  /\ UNCHANGED <<settings, rows, saved, turnVars, messages, iter, asked, owed, dispatched,
                 astray, bounds>>

Fail ==
  /\ pc = "stream" /\ pc' = "failed"
  /\ UNCHANGED <<settings, rows, saved, turnVars, loop, bounds>>

(* A call of action a that ended so went as the capabilities say which the *)
(* speaker had when the turn began: it took effect only with the one it    *)
(* needs; it was neither unknown nor denied if it was offered and carried  *)
(* what its schema requires, but for delete_event, which needs one of two  *)
(* arguments; and the model was told it is done only if it is, or if it is *)
(* a silent write that failed.                                             *)
AsGranted(a, args, outcome, told) ==
  /\ outcome \in {"done", "failed"} =>
       a \in Offered(granted) /\ CapForAction(a) \in granted \cup {"none"}
  /\ a \in Offered(granted) /\ SchemaRequired(a) \subseteq args =>
       \/ outcome \in {"done", "failed"}
       \/ a = "delete_event" /\ args \cap {"id", "title"} = {}
  /\ told = "ok" => outcome = "done" \/ (outcome = "failed" /\ a \in Silent)

Judged(a, args, outcome, told) ==
  astray' = IF AsGranted(a, args, outcome, told) THEN astray ELSE astray \cup {<<a, outcome>>}

(* The parser refuses the call: unknown_tool_or_bad_arguments.             *)
Reject(a, args) ==
  /\ ~FromFunctionCall(a, args)
  /\ Judged(a, args, "rejected", "error")
  /\ messages' = Append(messages, Result(asked - owed + 1))
  /\ UNCHANGED <<dispatched, reply>>

(* execute: the gate, then the tool, which does its work or fails. A       *)
(* silent write's failure is not reported.                                 *)
Perform(a, args) ==
  /\ FromFunctionCall(a, args)
  /\ \E outcome \in IF Passes(a, surface) THEN {"done", "failed"} ELSE {"denied"} :
       Judged(a, args, outcome, CASE outcome = "denied" -> "denied"
                                  [] outcome = "failed" /\ a \notin Silent -> "error"
                                  [] OTHER -> "ok")
  /\ dispatched' = TRUE
  /\ reply' = [size |-> 1, tools |-> TRUE]   \* the fence of the call, and its result
  /\ messages' = Append(messages, Result(asked - owed + 1))

(* The next call of the answer: any name a model may come up with.         *)
Call ==
  /\ pc = "calls" /\ owed > 0
  /\ \E a \in Tools \cup {"make_coffee"} : \E args \in Arguments(a) :
       Reject(a, args) \/ Perform(a, args)
  /\ owed' = owed - 1
  /\ UNCHANGED <<settings, rows, saved, pc, turnVars, iter, asked, bounds>>

(* The end of an iteration; the note at the end of the budget is added     *)
(* after the last request.                                                 *)
Again ==
  /\ pc = "calls" /\ owed = 0
  /\ IF ~dispatched
     THEN pc' = "save" /\ UNCHANGED <<messages, iter>>
     ELSE /\ iter' = iter + 1
          /\ IF iter >= MaxIters
             THEN pc' = "save" /\ messages' = Append(messages, Message("user", Nudge))
             ELSE pc' = "ask" /\ UNCHANGED messages
  /\ UNCHANGED <<settings, rows, saved, turnVars, asked, owed, dispatched, reply, astray,
                 bounds>>

(* The reply is saved if there is one.                                     *)
SaveReply ==
  /\ pc = "save"
  /\ IF reply.size = 0 THEN UNCHANGED saved ELSE Save(Row("agent", reply.size, reply.tools))
  /\ pc' = "done"
  /\ UNCHANGED <<settings, rows, turnVars, loop, bounds>>

Idle ==
  /\ pc' = "idle" /\ text' = NoText /\ override' = Nobody
  /\ surface' = {} /\ granted' = {} /\ history' = << >>
  /\ messages' = << >> /\ iter' = 1 /\ asked' = 0 /\ owed' = 0
  /\ dispatched' = FALSE /\ reply' = NoReply /\ astray' = {}

(* chat:done, chat:error: the agent's row as the window has it; an error   *)
(* shows its own words.                                                    *)
Done ==
  /\ pc \in {"done", "failed"}
  /\ rows' = Append(rows, Row("agent", IF pc = "failed" THEN 1 ELSE reply.size, reply.tools))
  /\ Idle
  /\ UNCHANGED <<settings, saved, bounds>>

-----------------------------------------------------------------------------
(* The user changes an agent or the room at any moment, and the app may    *)
(* restart.                                                                *)

EditAgent ==
  /\ edits < MaxEdits /\ edits' = edits + 1
  /\ \E a \in Agents, C \in CapSets : caps' = [caps EXCEPT ![a] = C]
  /\ UNCHANGED <<room, rows, saved, pc, turnVars, loop, turns, restarts>>

LeaveRoom ==
  /\ edits < MaxEdits /\ edits' = edits + 1
  /\ \E i \in DOMAIN room : room' = RemoveAt(room, i)
  /\ UNCHANGED <<caps, rows, saved, pc, turnVars, loop, turns, restarts>>

(* ensure_seed_agent_capabilities; the rows are loaded from the database.  *)
Restart ==
  /\ restarts < MaxRestarts /\ restarts' = restarts + 1
  /\ caps' = [a \in Agents |-> caps[a] \cup Baseline[a]]
  /\ rows' = saved
  /\ Idle
  /\ UNCHANGED <<room, saved, turns, edits>>

Next ==
  \/ Send \/ Plan \/ Greet \/ Prepare \/ Ask \/ Answer \/ Stop \/ Fail \/ Call \/ Again
  \/ SaveReply \/ Done \/ EditAgent \/ LeaveRoom \/ Restart

Spec == Init /\ [][Next]_vars

-----------------------------------------------------------------------------
(* Chat templates accept it: at most one system message, the first; then a *)
(* user; no two texts of one role in a row; and after each message of      *)
(* calls the results of its calls, each once, in their order.              *)
TemplateAccepts(ms) ==
  /\ \A i \in DOMAIN ms : ms[i].role = "system" => i = 1
  /\ LET first == Leading("system", ms) + 1
     IN first \in DOMAIN ms /\ ms[first].role = "user"
  /\ \A i \in 1..(Len(ms) - 1) :
       Plain(ms[i]) /\ Plain(ms[i + 1]) => ms[i].role # ms[i + 1].role
  /\ \A i \in DOMAIN ms : ms[i].calls > 0 =>
       \A j \in 1..ms[i].calls :
         i + j \in DOMAIN ms /\ ms[i + j].role = "tool" /\ ms[i + j].answers = j
  /\ \A i \in DOMAIN ms : ms[i].role = "tool" =>
       i > ms[i].answers /\ ms[i - ms[i].answers].calls >= ms[i].answers

UserWords(ms) == Concat([i \in DOMAIN ms |-> IF ms[i].role = "user" THEN ms[i].words
                                             ELSE << >>])

(* Every request of a turn, whatever failed, was stopped, lost or restarted *)
(* before it, is one that chat templates accept (lib.rs                     *)
(* normalize_role_alternation promises it), and it loses no text of the     *)
(* user that the window sent: the new one comes last.                       *)
RequestsAreWhole ==
  pc = "stream" =>
    /\ TemplateAccepts(messages)
    /\ UserWords(messages) = UserWords(history)
    /\ Last(UserWords(messages)) = text.row.word

(* The tables of tool_schemas, from_function_call and cap_for_action       *)
(* (tools.rs, caps.rs) agree on every call a model may make, however       *)
(* agents are edited and the room changes while the turn runs: no call     *)
(* takes effect beyond the speaker's capabilities, none that was offered   *)
(* is refused, and no refusal is reported as done.                         *)
ToolsFollowCapabilities == astray = {}
=============================================================================
