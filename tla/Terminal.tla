------------------------------ MODULE Terminal ------------------------------
(***************************************************************************)
(* Terminals of the main window: the tabs and sessions of App.tsx, the     *)
(* host component of each pane on the stage (NativeTerminalHost.tsx), and  *)
(* the native surfaces behind the commands of ghostty_native.rs.           *)
(*                                                                         *)
(* The window sends calls and does not wait for them. Each call runs on    *)
(* the main thread in one piece; calls arrive in order, except that up to  *)
(* MaxOvertakes of them are overtaken by those sent later: the generation  *)
(* each carries is there for that. Calls that are on their way are carried *)
(* out before a reload replaces the page.                                  *)
(*                                                                         *)
(* Abstracted: chat, mail, graph and note tabs are one Other tab that is   *)
(* not restored; layout, focus and titles; what one task of the window     *)
(* shows and replaces before it ends; the deletion of a workspace.         *)
(***************************************************************************)
EXTENDS Naturals, Sequences, FiniteSets, SequencesExt, FiniteSetsExt

CONSTANTS
  MaxPanes,     \* bound: panes that are made; a session has the id of its first
  Workspaces, Other, None,
  MaxTabs,      \* bound: actions on tabs, panes and workspaces
  MaxBumps,     \* bound: metadata events and resizes
  MaxFails,     \* bound: frames and shows that find no room yet
  MaxReloads,   \* bound: reloads of the page
  MaxOvertakes  \* bound: calls that are overtaken

Panes == 1..MaxPanes

ASSUME TerminalAssumption ==
  /\ MaxPanes \in Nat \ {0} /\ Workspaces # {} /\ Other \notin Panes /\ None \notin Panes \cup {Other}
  /\ {MaxTabs, MaxBumps, MaxFails, MaxReloads, MaxOvertakes} \subseteq Nat

VARIABLES
  made,    \* panes made so far
  sess,    \* workspace -> id -> panes of that session, {} for none
  saved,   \* workspace -> localStorage: open terminal tabs and the active one
  ws,      \* current workspace
  tabs,    \* the tab bar
  active,  \* activeWorkspaceTabId
  ready,   \* terminalStateReady
  gen,     \* nativeTerminalGeneration
  host,    \* pane -> its component: generation of the frame it has asked for,
           \* generation of its retry timer
  calls,   \* on their way to the native side
  answers, \* of shows, on their way back
  latest, closed, visible,  \* native: latest_generation, closed_tabs, surfaces shown
  bound,   \* what is used up of the bounds
  overtook,\* history: panes two of whose calls changed places
  lost     \* history: panes whose frame an older retry has replaced

window == <<made, sess, saved, ws, tabs, active, ready, gen>>
native == <<latest, closed, visible>>
vars   == <<window, host, calls, answers, native, bound, overtook, lost>>

NoHost    == [frame |-> None, retry |-> None]
Spend(what, max) == bound[what] < max /\ bound' = [bound EXCEPT ![what] = @ + 1]
Call(op, g, p)   == [op |-> op, gen |-> g, pane |-> p, heard |-> TRUE]
CallsOf(op, S, g) == [i \in 1..Cardinality(S) |-> Call(op, g, SetToSeq(S)[i])]

(* What of q is in S.                                                      *)
Only(q, S) == LET kept[i \in 0..Len(q)] ==
                    IF i = 0 THEN <<>> ELSE IF q[i] \in S THEN Append(kept[i - 1], q[i]) ELSE kept[i - 1]
              IN kept[Len(q)]

(* A component that goes hears no answer any more.                         *)
Unheard(q, S)    == [i \in DOMAIN q |-> IF q[i].pane \in S THEN [q[i] EXCEPT !.heard = FALSE] ELSE q[i]]

(* activeWorkspaceTab: the active one, or else the first. A pane's props.  *)
Stage(bar, act)      == IF act \in ToSet(bar) THEN act ELSE IF bar = <<>> THEN None ELSE bar[1]
OnStage(s, bar, act) == IF Stage(bar, act) \in Panes THEN s[Stage(bar, act)] ELSE {}
Mounted              == OnStage(sess[ws], tabs, active)
IsActive             == active \in Panes /\ Stage(tabs, active) = active
Terminals(bar)       == Only(bar, Panes)

(* Nothing yet, or a terminal made before: in the tab bar, or open in      *)
(* another workspace, where it or something else was active.               *)
Init ==
  /\ made \in {0, 1} /\ ws = (CHOOSE w \in Workspaces : TRUE) /\ active = Other /\ ready = TRUE /\ gen = 1
  /\ \E w \in Workspaces, act \in {1, None} :
       /\ sess = [v \in Workspaces |-> [p \in Panes |-> IF p <= made /\ v = w THEN {p} ELSE {}]]
       /\ saved = [v \in Workspaces |-> IF made = 1 /\ v = w /\ w # ws THEN [open |-> <<1>>, active |-> act]
                                        ELSE [open |-> <<>>, active |-> None]]
       /\ tabs = IF made = 1 /\ w = ws THEN <<Other, 1>> ELSE <<Other>>
  /\ host = [p \in Panes |-> NoHost] /\ calls = <<>> /\ answers = <<>>
  /\ latest = 0 /\ closed = {} /\ visible = {}
  /\ bound = [what \in {"tab", "bump", "fail", "reload", "overtake"} |-> 0] /\ overtook = {} /\ lost = {}

-----------------------------------------------------------------------------
(* The window renders: hosts that leave the stage hide their surface; a    *)
(* new tab object on the stage takes the next generation and, if it is no  *)
(* terminal, hides all; the effect of a host runs when it is new, when the *)
(* generation is and when it becomes active. pre: what the handler itself  *)
(* has sent.                                                               *)
Render(s, w, bar, act, touched, pre, g0) ==
  LET old    == Mounted
      new    == OnStage(s[w], bar, act)
      now    == Stage(bar, act)
      fresh  == touched \/ w # ws \/ now # Stage(tabs, active)
      g      == IF fresh THEN g0 + 1 ELSE g0
      acts   == now \in Panes /\ act = now
      runs   == fresh \/ acts # IsActive
      left   == IF w # ws THEN old ELSE old \ new
  IN /\ sess' = s /\ ws' = w /\ tabs' = bar /\ active' = act /\ gen' = g
     /\ answers' = Only(answers, {a \in ToSet(answers) : a.pane \notin left})
     /\ calls' = Unheard(calls, left) \o pre \o CallsOf("hide", left, g0)
                 \o (IF fresh /\ now \notin Panes THEN <<Call("hide_all", g, None)>> ELSE <<>>)
                 \o (IF runs /\ ~acts THEN CallsOf("hide", new, g) ELSE <<>>)
     /\ host' = [p \in Panes |->
                   IF p \notin new THEN NoHost
                   ELSE IF runs /\ acts THEN [frame |-> g, retry |-> IF p \in left \/ p \notin old THEN None ELSE host[p].retry]
                   ELSE IF runs THEN [host[p] EXCEPT !.retry = None]
                   ELSE host[p]]
     /\ lost' = IF runs THEN lost \ new ELSE lost

Handler(newPanes) ==
  /\ ready /\ Spend("tab", MaxTabs) /\ made + newPanes <= MaxPanes /\ made' = made + newPanes
  /\ UNCHANGED <<saved, ready, native, overtook>>
With(id, S)       == [sess EXCEPT ![ws][id] = S]
Added(t)          == IF t \in ToSet(tabs) THEN tabs ELSE Append(tabs, t)

(* newTerminalTab.                                                         *)
NewSession == LET p == made + 1 IN
  Handler(1) /\ Render(With(p, {p}), ws, Append(tabs, p), p, TRUE, <<>>, gen)

(* openTerminalTab, openChatTab and the other tabs; a click on a tab.      *)
Open(t) == Handler(0) /\ Render(sess, ws, Added(t), t, FALSE, <<>>, gen)

(* splitTerminalPane.                                                      *)
Split == LET id == Stage(tabs, active) IN
  /\ id \in Panes /\ Handler(1)
  /\ Render(With(id, sess[ws][id] \cup {made + 1}), ws, tabs, active, TRUE, <<>>, gen)

(* closeTerminalPane.                                                      *)
ClosePane(p) == LET id == Stage(tabs, active) IN
  /\ p \in Mounted /\ Cardinality(Mounted) > 1 /\ Handler(0)
  /\ Render(With(id, Mounted \ {p}), ws, tabs, active, TRUE, <<Call("close", gen, p)>>, gen)

Without(t) == Only(tabs, ToSet(tabs) \ {t})

(* applyActiveTabAfterRemoval.                                             *)
Neighbour(t) ==
  LET rest == Without(t)
      i    == CHOOSE i \in 1..Len(tabs) : tabs[i] = t
  IN IF active # t THEN active ELSE IF rest = <<>> THEN None ELSE rest[Min({i, Len(rest)})]

(* closeWorkspaceTab keeps the session, deleteTerminalSession does not.    *)
CloseTab(t) ==
  /\ t \in ToSet(tabs) /\ Handler(0)
  /\ Render(sess, ws, Without(t), Neighbour(t), FALSE,
            IF t \in Panes THEN CallsOf("hide", sess[ws][t], gen) ELSE <<>>, gen)

DeleteSession(id) ==
  /\ sess[ws][id] # {} /\ Handler(0)
  /\ Render(With(id, {}), ws, Without(id),
            IF id \in ToSet(tabs) THEN Neighbour(id) ELSE active, FALSE, CallsOf("close", sess[ws][id], gen), gen)

(* The effect that saves the tabs runs with every change while ready;      *)
(* what it has saved last counts when the workspace or the page goes.      *)
Saving == [saved EXCEPT ![ws] = [open |-> Terminals(tabs), active |-> IF active \in Panes THEN active ELSE None]]

(* switchToWorkspace, with restoreTerminalWorkspaceState.                  *)
Switch(w) ==
  /\ w # ws /\ ready /\ Spend("tab", MaxTabs)
  /\ saved' = Saving
  /\ Render(sess, w, saved[w].open, saved[w].active, TRUE, <<Call("hide_all", gen + 1, None)>>, gen + 1)
  /\ UNCHANGED <<made, ready, native, overtook>>

(* applyTerminalMeta makes a new tab object of the one on the stage.       *)
Meta ==
  /\ Mounted # {} /\ Spend("bump", MaxBumps)
  /\ Render(sess, ws, tabs, active, TRUE, <<>>, gen)
  /\ UNCHANGED <<made, saved, ready, native, overtook>>

-----------------------------------------------------------------------------
(* sync: the next frame replaces the one asked for before.                 *)
Sync(h, g) == [h EXCEPT !.frame = g]

Resize ==
  /\ IsActive /\ Spend("bump", MaxBumps)
  /\ host' = [p \in Panes |-> IF p \in Mounted THEN Sync(host[p], gen) ELSE host[p]]
  /\ UNCHANGED <<window, calls, answers, native, overtook, lost>>

(* scheduleRetry does nothing for a generation that has passed.            *)
Retried(h, g) == IF IsActive /\ g = gen THEN [h EXCEPT !.retry = g] ELSE h

(* The frame: too small yet, or a show is sent.                            *)
Frame(p) ==
  /\ host[p].frame # None
  /\ LET h == [host[p] EXCEPT !.frame = None] IN
     \/ /\ Spend("fail", MaxFails) /\ host' = [host EXCEPT ![p] = Retried(h, host[p].frame)] /\ UNCHANGED calls
     \/ /\ host' = [host EXCEPT ![p] = h] /\ calls' = Append(calls, Call("show", host[p].frame, p)) /\ UNCHANGED bound
  /\ UNCHANGED <<window, answers, native, overtook, lost>>

Timer(p) ==
  /\ host[p].retry # None
  /\ LET h == [host[p] EXCEPT !.retry = None]
     IN /\ host' = [host EXCEPT ![p] = IF IsActive THEN Sync(h, host[p].retry) ELSE h]
        /\ lost' = IF IsActive /\ h.frame # None /\ h.frame > host[p].retry THEN lost \cup {p} ELSE lost
  /\ UNCHANGED <<window, calls, answers, native, bound, overtook>>

(* The answer to a show.                                                   *)
Answer ==
  /\ answers # <<>> /\ answers' = Tail(answers)
  /\ LET a == Head(answers) IN
     host' = [host EXCEPT ![a.pane] = IF a.ok THEN [@ EXCEPT !.retry = None] ELSE Retried(@, a.gen)]
  /\ UNCHANGED <<window, calls, native, bound, overtook, lost>>

-----------------------------------------------------------------------------
(* mutants: the generation outlives the page; an older show counts; a      *)
(* closed tab is shown again                                               *)
Observed_Kept(c)   == IF c.gen > latest THEN c.gen ELSE latest
Shows_Unfenced(c)  == c.pane \notin closed
Shows_Reopened(c)  == c.gen >= latest

(* observe_generation, reset_generation.                                   *)
Observed(c) == IF c.op = "reset" THEN 0 ELSE IF c.gen > latest THEN c.gen ELSE latest

(* is_stale, is_closed.                                                    *)
Shows(c) == c.gen >= latest /\ c.pane \notin closed

Reply(c, ok) == answers' = IF c.heard THEN Append(answers, [pane |-> c.pane, gen |-> c.gen, ok |-> ok]) ELSE answers

Show(c) ==
  /\ c.op = "show"
  /\ \/ ~Shows(c) /\ Reply(c, FALSE) /\ UNCHANGED <<native, bound>>
     \/ Shows(c) /\ latest' = Observed(c) /\ visible' = visible \cup {c.pane} /\ Reply(c, TRUE) /\ UNCHANGED <<closed, bound>>
     \/ /\ Shows(c) /\ Spend("fail", MaxFails)
        /\ latest' = Observed(c) /\ visible' = visible \ {c.pane} /\ Reply(c, FALSE) /\ UNCHANGED closed
Hide(c)  == /\ c.op = "hide" /\ latest' = Observed(c) /\ visible' = visible \ {c.pane}
            /\ UNCHANGED <<closed, answers, bound>>
Close(c) == /\ c.op = "close" /\ latest' = Observed(c) /\ closed' = closed \cup {c.pane} /\ visible' = visible \ {c.pane}
            /\ UNCHANGED <<answers, bound>>
HideAll(c) == /\ c.op = "hide_all" /\ latest' = Observed(c) /\ visible' = IF c.gen < latest THEN visible ELSE {}
              /\ UNCHANGED <<closed, answers, bound>>
Reset(c) == c.op = "reset" /\ latest' = Observed(c) /\ UNCHANGED <<closed, visible, answers, bound>>

Handle(c) == Show(c) \/ Hide(c) \/ Close(c) \/ HideAll(c) \/ Reset(c)
Deliver ==
  /\ calls # <<>> /\ Handle(Head(calls)) /\ calls' = Tail(calls)
  /\ UNCHANGED <<window, host, overtook, lost>>
Overtake ==
  /\ Spend("overtake", MaxOvertakes)
  /\ \E i \in 1..(Len(calls) - 1) :
       /\ calls' = Append(RemoveAt(calls, i), calls[i])
       /\ overtook' = overtook \cup {p \in Panes : p = calls[i].pane /\ \E j \in (i + 1)..Len(calls) : calls[j].pane = p}
  /\ UNCHANGED <<window, host, answers, native, lost>>

(* The page is loaded again: its generation starts over, the tabs come     *)
(* back when the lists are there, several round trips later, and the       *)
(* native side is told to forget.                                          *)
Reload ==
  /\ ready /\ calls = <<>> /\ Spend("reload", MaxReloads)
  /\ saved' = Saving /\ ready' = FALSE /\ tabs' = <<>> /\ active' = None /\ gen' = 1
  /\ host' = [p \in Panes |-> NoHost] /\ answers' = <<>>
  /\ calls' = <<Call("hide_all", 1, None), Call("reset", 0, None)>>
  /\ UNCHANGED <<made, sess, ws, native, overtook>> /\ lost' = {}

Restore ==
  /\ ~ready /\ calls = <<>> /\ ready' = TRUE
  /\ Render(sess, ws, saved[ws].open, saved[ws].active, saved[ws].open # <<>>, <<>>, gen)
  /\ UNCHANGED <<made, saved, native, bound, overtook>>

Tabbing ==
  \/ NewSession \/ Split
  \/ \E p \in Panes : ClosePane(p) \/ CloseTab(p) \/ DeleteSession(p) \/ (sess[ws][p] # {} /\ Open(p))
  \/ Open(Other) \/ CloseTab(Other)
  \/ \E w \in Workspaces : Switch(w)
Next ==
  \/ Tabbing \/ Meta \/ Resize \/ Overtake \/ Reload \/ Restore
  \/ \E p \in Panes : Frame(p) \/ Timer(p)
  \/ Answer \/ Deliver

(* Frames, timers and calls come; so does the end of the start.            *)
Fairness ==
  /\ \A p \in Panes : WF_vars(Frame(p)) /\ WF_vars(Timer(p))
  /\ WF_vars(Answer) /\ WF_vars(Deliver) /\ WF_vars(Restore)
Spec == Init /\ [][Next]_vars /\ Fairness

-----------------------------------------------------------------------------
(* A terminal that was closed never comes back, whatever overtakes what.   *)
ClosedStayClosed == closed \cap visible = {}

(* When nothing is on its way, only panes of the terminal on the stage are *)
(* visible; calls of one pane that changed places may leave it over        *)
(* another terminal, never over something else.                            *)
Quiet == ready /\ calls = <<>> /\ answers = <<>> /\ \A p \in Panes : host[p] = NoHost
NothingLeftOver == Quiet => \A p \in visible : (IsActive /\ p \in Mounted) \/ (p \in overtook /\ Mounted # {})

(* "starting terminal...": the pane of the active terminal is visible in   *)
(* the end, unless its own calls changed places, or a retry of an older    *)
(* generation has replaced its frame.                                      *)
Starting(p) == IsActive /\ p \in Mounted /\ p \notin visible
StartingEnds == \A p \in Panes : []<>(~Starting(p) \/ p \in overtook \cup lost)
=============================================================================
