------------------------------- MODULE Outbox -------------------------------
(***************************************************************************)
(* The persistent send queue of the mail client                            *)
(* (src/src-tauri/src/mail/outbox.rs): rows of the `outbox` table, the     *)
(* composer and the undo toast that write them, and the one supervisor     *)
(* task that drains them through SMTP.                                     *)
(*                                                                         *)
(* Every SQL statement runs under the MailDb mutex and is one step; what   *)
(* lies between two statements of run_once is an await, so the user, the   *)
(* clock and a crash of the application come in between.                   *)
(*                                                                         *)
(* Abstracted: the content of a message is its row's identity; account     *)
(* lookup, payload decoding and the token refresh are one step that may    *)
(* fail; UI events are left out (nothing reads them back).                 *)
(***************************************************************************)
EXTENDS Integers, FiniteSets

CONSTANTS
  Msgs,         \* outbox rows the composer may create, each at most once
  NoMsg,        \* "no row in flight"
  MaxAttempts,  \* MAX_ATTEMPTS
  Batch,        \* LIMIT of the snapshot query
  UndoWindows,  \* undo_window_secs the composer may ask for (or its default)
  Delays,       \* how far ahead of now the composer may schedule a send
  TimeSteps,    \* by how many seconds the wall clock may move at once
  MaxTime,      \* bound: the clock stops here
  MaxFaults     \* bound: crashes and failed SQL statements in a behaviour

ASSUME OutboxAssumption ==
  /\ NoMsg \notin Msgs
  /\ MaxAttempts \in Nat \ {0}
  /\ Batch \in Nat \ {0}
  /\ UndoWindows \subseteq Int
  /\ Delays \subseteq Nat
  /\ TimeSteps \subseteq Nat
  /\ MaxTime \in Nat
  /\ MaxFaults \in Nat

VARIABLES
  \* durable: columns of the outbox table
  state,      \* state[m]: "none" until the row is inserted
  sendAt,     \* send_at
  undoUntil,  \* undo_until
  attempts,   \* attempt_count
  \* durable elsewhere
  linked,     \* the email_account row still exists in SurrealDB
  \* volatile: the supervisor task
  pc,         \* where run_once stands; "down" while the app is not running
  now,        \* run_once's `now`, read once when the tick starts
  due,        \* rows of the snapshot the loop has not reached yet
  cur,        \* the row in flight
  \* environment
  clock, faults,
  \* history: what the relay saw, and what the composer asked for
  tries,      \* hand-offs to SMTP started for the row
  delivered,  \* copies the relay accepted
  notBefore   \* the send_at the row was created with

table == <<state, sendAt, undoUntil, attempts>>
sup   == <<pc, now, due, cur>>
hist  == <<tries, delivered, notBefore>>
vars  == <<table, linked, sup, clock, faults, hist>>

RowStates == {"none", "queued", "sending", "sent", "failed", "cancelled"}
Terminal  == {"sent", "failed", "cancelled"}
InFlight  == {"claimed", "submitting", "accepted", "refused"}
Stages    == {"down", "asleep", "loop"} \cup InFlight

(* backoff_secs *)
BackoffSecs(attempt) ==
  IF attempt \in 1..4 THEN <<1, 5, 30, 300>>[attempt] ELSE 1800

Larger(a, b) == IF a >= b THEN a ELSE b

Running == pc # "down"

-----------------------------------------------------------------------------
(* The application has just been started on an empty queue.                *)

Init ==
  /\ state     = [m \in Msgs |-> "none"]
  /\ sendAt    = [m \in Msgs |-> 0]
  /\ undoUntil = [m \in Msgs |-> 0]
  /\ attempts  = [m \in Msgs |-> 0]
  /\ linked = TRUE
  /\ pc = "asleep" /\ now = 0 /\ due = {} /\ cur = NoMsg
  /\ clock = 0 /\ faults = 0
  /\ tries     = [m \in Msgs |-> 0]
  /\ delivered = [m \in Msgs |-> 0]
  /\ notBefore = [m \in Msgs |-> 0]

-----------------------------------------------------------------------------
(* The user: mail_send, mail_outbox_undo and account_remove.               *)

(* enqueue: a negative undo window is clamped to 0, a schedule before the  *)
(* end of the window is moved to it.                                       *)
Enqueue(m, undo, delay) ==
  LET until == clock + Larger(undo, 0)
      at    == Larger(clock + delay, until)
  IN /\ Running /\ linked
     /\ state[m] = "none"
     /\ state'     = [state EXCEPT ![m] = "queued"]
     /\ undoUntil' = [undoUntil EXCEPT ![m] = until]
     /\ sendAt'    = [sendAt EXCEPT ![m] = at]
     /\ attempts'  = [attempts EXCEPT ![m] = 0]
     /\ notBefore' = [notBefore EXCEPT ![m] = at]
     /\ UNCHANGED <<linked, sup, clock, faults, tries, delivered>>

(* mutant: also cancels a row that is on its way *)
Cancel_Sending(m) ==
  /\ Running
  /\ state[m] \in {"queued", "sending"}
  /\ state' = [state EXCEPT ![m] = "cancelled"]
  /\ UNCHANGED <<sendAt, undoUntil, attempts, linked, sup, clock, faults, hist>>

(* cancel: one guarded UPDATE; a row that is not queued is left alone and  *)
(* the call answers false.                                                 *)
Cancel(m) ==
  /\ Running
  /\ state[m] = "queued"
  /\ state' = [state EXCEPT ![m] = "cancelled"]
  /\ UNCHANGED <<sendAt, undoUntil, attempts, linked, sup, clock, faults, hist>>

(* account_remove leaves the outbox rows of the account in place.          *)
RemoveAccount ==
  /\ Running /\ linked
  /\ linked' = FALSE
  /\ UNCHANGED <<table, sup, clock, faults, hist>>

-----------------------------------------------------------------------------
(* run_once, statement by statement.                                       *)

(* mutant: forgets that a retry is scheduled for later *)
IsDue_NoSchedule(m) == state[m] = "queued" /\ undoUntil[m] <= clock

IsDue(m) ==
  /\ state[m] = "queued"
  /\ sendAt[m] <= clock
  /\ undoUntil[m] <= clock

(* ORDER BY send_at LIMIT Batch: the rows of S are no later than the due   *)
(* rows left out, and rows are left out only when the batch is full.       *)
IsFirstBatch(S) ==
  LET D == {m \in Msgs : IsDue(m)}
  IN /\ S \subseteq D
     /\ \A m \in S, n \in D \ S : sendAt[m] <= sendAt[n]
     /\ Cardinality(S) <= Batch
     /\ S # D => Cardinality(S) = Batch

Snapshot ==
  /\ pc = "asleep"
  /\ \E S \in SUBSET Msgs : IsFirstBatch(S) /\ due' = S
  /\ now' = clock
  /\ pc' = "loop"
  /\ UNCHANGED <<table, linked, cur, clock, faults, hist>>

(* The loop runs over the snapshot in its order. No other code moves the   *)
(* send_at of a row that waits in the snapshot.                            *)
IsNext(m) ==
  /\ pc = "loop"
  /\ m \in due
  /\ \A n \in due : sendAt[m] <= sendAt[n]

(* mutant: UPDATE without AND state = 'queued' *)
Claim_NoCas(m) ==
  /\ IsNext(m)
  /\ state' = [state EXCEPT ![m] = "sending"]
  /\ due' = due \ {m}
  /\ cur' = m
  /\ pc' = "claimed"
  /\ UNCHANGED <<sendAt, undoUntil, attempts, linked, now, clock, faults, hist>>

(* UPDATE ... SET state = 'sending' WHERE id = ? AND state = 'queued'      *)
Claim(m) ==
  /\ IsNext(m)
  /\ state[m] = "queued"
  /\ state' = [state EXCEPT ![m] = "sending"]
  /\ due' = due \ {m}
  /\ cur' = m
  /\ pc' = "claimed"
  /\ UNCHANGED <<sendAt, undoUntil, attempts, linked, now, clock,
                 faults, hist>>

(* claimed == 0: the row was cancelled meanwhile.                          *)
ClaimLost(m) ==
  /\ IsNext(m)
  /\ state[m] # "queued"
  /\ due' = due \ {m}
  /\ UNCHANGED <<table, linked, pc, now, cur, clock, faults, hist>>

(* The claim's SQL error counts as zero rows changed (unwrap_or(0)).       *)
ClaimErrs(m) ==
  /\ IsNext(m)
  /\ faults < MaxFaults
  /\ faults' = faults + 1
  /\ due' = due \ {m}
  /\ UNCHANGED <<table, linked, pc, now, cur, clock, hist>>

(* An UPDATE of the row in flight whose error is dropped (`let _ =`): the  *)
(* row keeps its column values, the loop goes on to the next row.          *)
LoseWrite ==
  /\ faults < MaxFaults
  /\ faults' = faults + 1
  /\ pc' = "loop" /\ cur' = NoMsg
  /\ UNCHANGED <<table, linked, now, due, clock, hist>>

MarkFailed ==
  /\ state' = [state EXCEPT ![cur] = "failed"]
  /\ pc' = "loop" /\ cur' = NoMsg
  /\ UNCHANGED <<sendAt, undoUntil, attempts, linked, now, due,
                 clock, faults, hist>>

(* Payload decoding or account lookup fails: the row fails at once, without *)
(* spending an attempt. The lookup may also fail while the account exists.  *)
PreflightFails ==
  /\ pc = "claimed"
  /\ MarkFailed \/ LoseWrite

Preflight ==
  /\ pc = "claimed"
  /\ linked
  /\ pc' = "submitting"
  /\ UNCHANGED <<table, linked, now, due, cur, clock, faults, hist>>

(* smtp::send, as the relay sees it: it takes the message ...              *)
RelayAccepts ==
  /\ pc = "submitting"
  /\ tries' = [tries EXCEPT ![cur] = @ + 1]
  /\ delivered' = [delivered EXCEPT ![cur] = @ + 1]
  /\ pc' = "accepted"
  /\ UNCHANGED <<table, linked, now, due, cur, clock, faults, notBefore>>

(* ... or the hand-off fails before that: token refresh, address parsing,  *)
(* connection, a rejection. send() makes no difference between them.       *)
RelayRefuses ==
  /\ pc = "submitting"
  /\ tries' = [tries EXCEPT ![cur] = @ + 1]
  /\ pc' = "refused"
  /\ UNCHANGED <<table, linked, now, due, cur, clock, faults,
                 delivered, notBefore>>

(* The relay took the message and the answer never arrives.                *)
ReplyLost ==
  /\ pc = "accepted"
  /\ pc' = "refused"
  /\ UNCHANGED <<table, linked, now, due, cur, clock, faults, hist>>

RecordSent ==
  /\ state' = [state EXCEPT ![cur] = "sent"]
  /\ pc' = "loop" /\ cur' = NoMsg
  /\ UNCHANGED <<sendAt, undoUntil, attempts, linked, now, due,
                 clock, faults, hist>>

(* mutant: the result of smtp::send is not looked at *)
SendSucceeds_Blind ==
  /\ pc \in {"accepted", "refused"}
  /\ RecordSent \/ LoseWrite

SendSucceeds ==
  /\ pc = "accepted"
  /\ RecordSent \/ LoseWrite

(* mutant: the attempt is not counted *)
Requeue_NotCounted(next) ==
  /\ state'  = [state EXCEPT ![cur] = "queued"]
  /\ sendAt' = [sendAt EXCEPT ![cur] = now + BackoffSecs(next)]
  /\ pc' = "loop" /\ cur' = NoMsg
  /\ UNCHANGED <<attempts, undoUntil, linked, now, due, clock, faults, hist>>

(* mutant: the retry is scheduled but the row not put back *)
Requeue_NotQueued(next) ==
  /\ attempts' = [attempts EXCEPT ![cur] = next]
  /\ sendAt'   = [sendAt EXCEPT ![cur] = now + BackoffSecs(next)]
  /\ pc' = "loop" /\ cur' = NoMsg
  /\ UNCHANGED <<state, undoUntil, linked, now, due, clock, faults, hist>>

(* UPDATE ... SET state = 'queued', attempt_count, send_at: the new send_at *)
(* counts from the start of the tick, not from the failure.                *)
Requeue(next) ==
  /\ state'    = [state EXCEPT ![cur] = "queued"]
  /\ attempts' = [attempts EXCEPT ![cur] = next]
  /\ sendAt'   = [sendAt EXCEPT ![cur] = now + BackoffSecs(next)]
  /\ pc' = "loop" /\ cur' = NoMsg
  /\ UNCHANGED <<undoUntil, linked, now, due, clock, faults, hist>>

RetryOrFail(next) ==
  IF next >= MaxAttempts THEN MarkFailed ELSE Requeue(next)

SendFails ==
  /\ pc = "refused"
  /\ RetryOrFail(attempts[cur] + 1) \/ LoseWrite

(* The attempt_count of the row cannot be read: unwrap_or(MAX_ATTEMPTS + 1) *)
AttemptsUnreadable ==
  /\ pc = "refused"
  /\ faults < MaxFaults
  /\ faults' = faults + 1
  /\ state' = [state EXCEPT ![cur] = "failed"]
  /\ pc' = "loop" /\ cur' = NoMsg
  /\ UNCHANGED <<sendAt, undoUntil, attempts, linked, now, due,
                 clock, hist>>

(* run_supervisor sleeps a second before the next tick: time may pass.     *)
TickEnds ==
  /\ pc = "loop" /\ due = {}
  /\ pc' = "asleep"
  /\ UNCHANGED <<table, linked, now, due, cur, clock, faults, hist>>

-----------------------------------------------------------------------------
(* The environment.                                                        *)

TimePasses ==
  \E d \in TimeSteps :
    /\ clock + d <= MaxTime
    /\ clock' = clock + d
    /\ UNCHANGED <<table, linked, sup, faults, hist>>

(* The app quits or dies: the task and its snapshot are gone, the table    *)
(* stays as the last statement left it.                                    *)
Crash ==
  /\ Running
  /\ faults < MaxFaults
  /\ faults' = faults + 1
  /\ pc' = "down" /\ now' = 0 /\ due' = {} /\ cur' = NoMsg
  /\ UNCHANGED <<table, linked, clock, hist>>

(* Start-up spawns the supervisor; nothing touches the table.              *)
Restart ==
  /\ pc = "down"
  /\ pc' = "asleep"
  /\ UNCHANGED <<table, linked, now, due, cur, clock, faults, hist>>

-----------------------------------------------------------------------------

User ==
  \/ \E m \in Msgs, u \in UndoWindows, d \in Delays : Enqueue(m, u, d)
  \/ \E m \in Msgs : Cancel(m)
  \/ RemoveAccount

Supervisor ==
  \/ Snapshot
  \/ \E m \in Msgs : Claim(m) \/ ClaimLost(m) \/ ClaimErrs(m)
  \/ PreflightFails \/ Preflight
  \/ RelayAccepts \/ RelayRefuses \/ ReplyLost
  \/ SendSucceeds \/ SendFails \/ AttemptsUnreadable
  \/ TickEnds

Next == User \/ Supervisor \/ TimePasses \/ Crash \/ Restart

Spec == Init /\ [][Next]_vars

(* The runtime keeps polling the supervisor task, SMTP ends (the transport *)
(* has a timeout), the clock advances and a closed app is opened again.    *)
(* The user owes nothing.                                                  *)
Fairness ==
  /\ WF_vars(Supervisor)
  /\ WF_vars(TimePasses)
  /\ WF_vars(Restart)

FairSpec == Spec /\ Fairness

-----------------------------------------------------------------------------
(* Properties.                                                             *)

(* The columns, the task and the clock; a row is in flight exactly between  *)
(* its claim and the write that ends its turn.                             *)
TypeOK ==
  /\ state     \in [Msgs -> RowStates]
  /\ sendAt    \in [Msgs -> Nat]
  /\ undoUntil \in [Msgs -> Nat]
  /\ attempts  \in [Msgs -> Nat]
  /\ linked \in BOOLEAN
  /\ pc \in Stages
  /\ now \in Nat
  /\ due \subseteq Msgs
  /\ cur \in IF pc \in InFlight THEN Msgs ELSE {NoMsg}
  /\ clock \in Nat
  /\ faults \in Nat
  /\ tries     \in [Msgs -> Nat]
  /\ delivered \in [Msgs -> Nat]
  /\ notBefore \in [Msgs -> Nat]

(* No message reaches the relay while it can still be undone, nor before   *)
(* the time it was scheduled for, however often it is retried and whatever *)
(* else waits in the same batch (run_once's WHERE clause).                 *)
NeverEarly ==
  \A m \in Msgs : tries[m] > 0 => undoUntil[m] <= clock /\ notBefore[m] <= clock

(* A row is handed to SMTP at most MAX_ATTEMPTS times, across crashes and  *)
(* lost writes, and so the recipient has at most that many copies.         *)
AttemptBudget ==
  \A m \in Msgs : delivered[m] <= tries[m] /\ tries[m] <= MaxAttempts

(* A row that says 'sent' was accepted by the relay.                       *)
SentWasAccepted ==
  \A m \in Msgs : state[m] = "sent" => delivered[m] > 0

(* mail_outbox_undo that answered true is final: the claim's compare-and-  *)
(* set sees the cancelled row although the snapshot still lists it, and no *)
(* hand-off to SMTP starts for it afterwards. The same holds for the other *)
(* end states.                                                             *)
SettledRowsRest ==
  [][\A m \in Msgs : state[m] \in Terminal =>
       state'[m] = state[m] /\ tries'[m] = tries[m]]_vars

Settled(m)  == state[m] \in Terminal

(* A crash or a lost write took the supervisor away from a row in flight.  *)
Stranded(m) == state[m] = "sending" /\ cur # m /\ faults > 0

(* The bound on the clock cuts the behaviour off before the row is due.    *)
OutOfTime(m) == state[m] = "queued" /\ sendAt[m] > MaxTime

(* Every queued row ends as sent, failed or cancelled unless a fault       *)
(* strands it in 'sending': retries end, and no row starves behind a batch *)
(* that is full or that fails (run_once's ORDER BY and backoff).           *)
QueueDrains ==
  \A m \in Msgs :
    state[m] = "queued" ~> Settled(m) \/ Stranded(m) \/ OutOfTime(m)

Abs == INSTANCE OutboxAbs WITH
         verdict <- [m \in Msgs |->
                       IF state[m] \in {"queued", "sending"} THEN "pending"
                       ELSE state[m]]

(* Each message gets one verdict, 'sent' only after the relay took it, and *)
(* the relay is offered it a bounded number of times and never after the   *)
(* verdict: the queue implements OutboxAbs.                                *)
KeepsPromise == Abs!ASpec
=============================================================================
