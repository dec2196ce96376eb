---------------------------- MODULE OutboxProofs ----------------------------
(***************************************************************************)
(* Theorems about Outbox, for every set of messages, every bound and every *)
(* number of faults: the type invariant, the safety invariants, that       *)
(* settled rows rest, and that the queue implements OutboxAbs.             *)
(* And about NoteEditor, for every set of titles and every bound: that no  *)
(* note gets the text of another.                                          *)
(***************************************************************************)
EXTENDS Outbox, NoteEditor, FiniteSetTheorems, TLAPS

LEMMA BackoffType == \A a \in Nat : BackoffSecs(a) \in Nat
  BY DEF BackoffSecs

(* Type correctness of the table, the task and the clock.                  *)
THEOREM TypeCorrect == Spec => []TypeOK
<1> USE OutboxAssumption, BackoffType
<1>1. Init => TypeOK
  BY DEF Init, TypeOK, RowStates, Stages, InFlight
<1>2. TypeOK /\ [Next]_vars => TypeOK'
  <2> SUFFICES ASSUME TypeOK, [Next]_vars PROVE TypeOK'
    OBVIOUS
  <2> USE DEF TypeOK, InFlight, Stages
  <2>1. ASSUME NEW m \in Msgs, NEW u \in UndoWindows, NEW d \in Delays,
               Enqueue(m, u, d)
        PROVE  TypeOK'
    <3>1. Larger(u, 0) \in Nat
      BY DEF Larger
    <3>2. /\ clock + Larger(u, 0) \in Nat
          /\ Larger(clock + d, clock + Larger(u, 0)) \in Nat
      BY <3>1 DEF Larger
    <3> QED BY <2>1, <3>2 DEF Enqueue, RowStates, sup
  <2>2. ASSUME NEW m \in Msgs, Cancel(m) PROVE TypeOK'
    BY <2>2 DEF Cancel, RowStates, sup, hist
  <2>3. CASE RemoveAccount
    BY <2>3 DEF RemoveAccount, table, sup, hist
  <2>4. CASE Snapshot
    BY <2>4 DEF Snapshot, table, hist
  <2>5. ASSUME NEW m \in Msgs, Claim(m) \/ ClaimLost(m) \/ ClaimErrs(m)
        PROVE  TypeOK'
    BY <2>5 DEF Claim, ClaimLost, ClaimErrs, table, hist, InFlight, RowStates
  <2>6. CASE LoseWrite
    BY <2>6 DEF LoseWrite, table, hist
  <2>7. CASE MarkFailed
    BY <2>7 DEF MarkFailed, RowStates, hist
  <2>8. CASE Preflight
    BY <2>8 DEF Preflight, table, hist
  <2>9. CASE RelayAccepts
    BY <2>9 DEF RelayAccepts, table
  <2>10. CASE RelayRefuses
    BY <2>10 DEF RelayRefuses, table
  <2>11. CASE ReplyLost
    BY <2>11 DEF ReplyLost, table, hist
  <2>12. CASE RecordSent
    BY <2>12 DEF RecordSent, RowStates, hist
  <2>13. ASSUME NEW n \in Nat, Requeue(n) PROVE TypeOK'
    <3>1. now + BackoffSecs(n) \in Nat
      OBVIOUS
    <3> QED BY <2>13, <3>1 DEF Requeue, RowStates, hist
  <2>14. CASE AttemptsUnreadable
    BY <2>14 DEF AttemptsUnreadable, RowStates, hist
  <2>15. CASE TickEnds
    BY <2>15 DEF TickEnds, table, hist
  <2>16. CASE TimePasses
    BY <2>16 DEF TimePasses, table, sup, hist
  <2>17. CASE Crash
    BY <2>17 DEF Crash, table, hist
  <2>18. CASE Restart
    BY <2>18 DEF Restart, table, hist
  <2>19. CASE UNCHANGED vars
    BY <2>19 DEF vars, table, sup, hist
  <2>20. CASE SendFails
    <3>1. pc \in InFlight
      BY <2>20 DEF SendFails, InFlight
    <3>2. attempts[cur] + 1 \in Nat
      BY <3>1
    <3> QED BY <2>20, <3>2, <2>6, <2>7, <2>13 DEF SendFails, RetryOrFail
  <2>21. CASE Supervisor
    BY <2>21, <2>4, <2>5, <2>6, <2>7, <2>8, <2>9, <2>10, <2>11, <2>12, <2>14,
       <2>15, <2>20
       DEF Supervisor, PreflightFails, SendSucceeds
  <2>22. CASE User
    BY <2>22, <2>1, <2>2, <2>3 DEF User
  <2> QED BY <2>16, <2>17, <2>18, <2>19, <2>21, <2>22 DEF Next
<1> QED BY <1>1, <1>2, PTL DEF Spec

-----------------------------------------------------------------------------
(***************************************************************************)
(* The inductive invariant.  NeverEarly speaks of rows that were tried; to *)
(* be preserved it needs to know that whatever the loop may still try was  *)
(* due when the tick began (SnapshotInv) and that a retry never moves a    *)
(* row before its first schedule (RowInv).  AttemptBudget needs that the   *)
(* attempt_count column is the number of hand-offs, except while one is    *)
(* being accounted for (FlightInv).                                        *)
(***************************************************************************)
RowInv ==
  \A m \in Msgs :
    /\ state[m] = "none" => tries[m] = 0 /\ delivered[m] = 0
    /\ state[m] # "none" => notBefore[m] <= sendAt[m]
    /\ state[m] = "queued" => tries[m] = attempts[m] /\ attempts[m] < MaxAttempts

SnapshotInv ==
  /\ now <= clock
  /\ \A m \in due : /\ state[m] # "none"
                    /\ undoUntil[m] <= now
                    /\ notBefore[m] <= now

FlightInv ==
  pc \in InFlight =>
    /\ state[cur] = "sending"
    /\ undoUntil[cur] <= now /\ notBefore[cur] <= now
    /\ attempts[cur] < MaxAttempts
    /\ tries[cur] = IF pc \in {"accepted", "refused"} THEN attempts[cur] + 1
                                                     ELSE attempts[cur]
    /\ pc = "accepted" => delivered[cur] > 0

OutboxInv ==
  /\ RowInv /\ SnapshotInv /\ FlightInv
  /\ NeverEarly /\ AttemptBudget /\ SentWasAccepted

LEMMA InvInit == Init => OutboxInv
  BY OutboxAssumption
     DEF Init, OutboxInv, RowInv, SnapshotInv, FlightInv, InFlight, NeverEarly,
         AttemptBudget, SentWasAccepted

(* The three statements that end a row's turn, and the fault that replaces *)
(* them, for a row in flight.                                              *)
LEMMA InvTurnEnds ==
  ASSUME TypeOK, OutboxInv, pc \in InFlight
  PROVE  /\ MarkFailed => OutboxInv'
         /\ LoseWrite => OutboxInv'
         /\ pc = "accepted" /\ RecordSent => OutboxInv'
         /\ pc = "refused" /\ RetryOrFail(attempts[cur] + 1) => OutboxInv'
<1> USE OutboxAssumption DEF TypeOK, OutboxInv, RowInv, SnapshotInv, FlightInv,
      InFlight, NeverEarly, AttemptBudget, SentWasAccepted
<1>1. MarkFailed => OutboxInv'
  BY DEF MarkFailed, hist
<1>2. LoseWrite => OutboxInv'
  BY DEF LoseWrite, table, hist
<1>3. pc = "accepted" /\ RecordSent => OutboxInv'
  BY DEF RecordSent, hist
<1>4. ASSUME pc = "refused", RetryOrFail(attempts[cur] + 1) PROVE OutboxInv'
  <2>1. CASE attempts[cur] + 1 >= MaxAttempts
    BY <1>1, <1>4, <2>1 DEF RetryOrFail
  <2>2. CASE ~(attempts[cur] + 1 >= MaxAttempts)
    <3> DEFINE next == attempts[cur] + 1
    <3>1. Requeue(next) /\ next < MaxAttempts /\ next \in Nat
      BY <1>4, <2>2 DEF RetryOrFail
    <3>2. tries[cur] = next /\ notBefore[cur] <= now + BackoffSecs(next)
      BY <1>4, <3>1, BackoffType
    <3> HIDE DEF next
    <3> QED BY <3>1, <3>2 DEF Requeue, hist
  <2> QED BY <2>1, <2>2
<1> QED BY <1>1, <1>2, <1>3, <1>4

LEMMA InvStep == TypeOK /\ TypeOK' /\ OutboxInv /\ [Next]_vars => OutboxInv'
<1> SUFFICES ASSUME TypeOK, TypeOK', OutboxInv, [Next]_vars PROVE OutboxInv'
  OBVIOUS
<1> USE OutboxAssumption DEF TypeOK, OutboxInv, RowInv, SnapshotInv, FlightInv,
      NeverEarly, AttemptBudget, SentWasAccepted
<1>1. ASSUME NEW m \in Msgs, NEW u \in UndoWindows, NEW d \in Delays,
             Enqueue(m, u, d)
      PROVE  OutboxInv'
  BY <1>1 DEF Enqueue, sup, InFlight
<1>2. ASSUME NEW m \in Msgs, Cancel(m) PROVE OutboxInv'
  BY <1>2 DEF Cancel, sup, hist, InFlight
<1>3. CASE RemoveAccount
  BY <1>3 DEF RemoveAccount, table, sup, hist
<1>4. CASE Snapshot
  BY <1>4 DEF Snapshot, IsFirstBatch, IsDue, table, hist, InFlight
<1>5. ASSUME NEW m \in Msgs, Claim(m) \/ ClaimLost(m) \/ ClaimErrs(m)
      PROVE  OutboxInv'
  BY <1>5 DEF Claim, ClaimLost, ClaimErrs, IsNext, table, hist, InFlight
<1>6. CASE PreflightFails
  BY <1>6, InvTurnEnds DEF PreflightFails, InFlight
<1>7. CASE Preflight
  BY <1>7 DEF Preflight, table, hist, InFlight
<1>8. CASE RelayAccepts
  BY <1>8 DEF RelayAccepts, table, InFlight
<1>9. CASE RelayRefuses
  BY <1>9 DEF RelayRefuses, table, InFlight
<1>10. CASE ReplyLost
  BY <1>10 DEF ReplyLost, table, hist, InFlight
<1>11. CASE SendSucceeds
  BY <1>11, InvTurnEnds DEF SendSucceeds, InFlight
<1>12. CASE SendFails
  BY <1>12, InvTurnEnds DEF SendFails, InFlight
<1>13. CASE AttemptsUnreadable
  BY <1>13 DEF AttemptsUnreadable, hist, InFlight
<1>14. CASE TickEnds
  BY <1>14 DEF TickEnds, table, hist, InFlight
<1>15. CASE TimePasses
  BY <1>15 DEF TimePasses, table, sup, hist, InFlight
<1>16. CASE Crash
  BY <1>16 DEF Crash, table, hist, InFlight
<1>17. CASE Restart
  BY <1>17 DEF Restart, table, hist, InFlight
<1>18. CASE UNCHANGED vars
  BY <1>18 DEF vars, table, sup, hist
<1> QED
  BY <1>1, <1>2, <1>3, <1>4, <1>5, <1>6, <1>7, <1>8, <1>9, <1>10, <1>11, <1>12,
     <1>13, <1>14, <1>15, <1>16, <1>17, <1>18 DEF Next, User, Supervisor

(* The inductive invariant holds: rows, the supervisor's snapshot and the   *)
(* row in flight go together in every state.                               *)
THEOREM InvHolds == Spec => []OutboxInv
<1>1. Spec => []TypeOK
  BY TypeCorrect
<1> QED BY <1>1, InvInit, InvStep, PTL DEF Spec

(* No hand-off before the undo window and the schedule are over, at most   *)
(* MAX_ATTEMPTS of them for a row, 'sent' only for what the relay took.    *)
THEOREM OutboxSafety == Spec => [](NeverEarly /\ AttemptBudget /\ SentWasAccepted)
<1>1. OutboxInv => NeverEarly /\ AttemptBudget /\ SentWasAccepted
  BY DEF OutboxInv
<1> QED BY <1>1, InvHolds, PTL

(* The undo window and the schedule hold against every clock and crash     *)
(* (outbox.rs enqueue, run_once).                                          *)
THEOREM UndoWindowKept == Spec => []NeverEarly
  BY OutboxSafety, PTL

(* 'sent' is written only for what the relay took, lost writes included    *)
(* (outbox.rs run_once).                                                   *)
THEOREM SentOnlyIfAccepted == Spec => []SentWasAccepted
  BY OutboxSafety, PTL

-----------------------------------------------------------------------------
(* What one step does to one row, as far as the promises can see it.       *)
RowStep(m) ==
  \/ /\ state'[m] = state[m]
     /\ tries'[m] = tries[m] /\ delivered'[m] = delivered[m]
  \/ /\ state[m] = "none" /\ state'[m] = "queued"
     /\ tries'[m] = tries[m] /\ delivered'[m] = delivered[m]
  \/ /\ state[m] = "queued" /\ state'[m] \in {"sending", "cancelled"}
     /\ tries'[m] = tries[m] /\ delivered'[m] = delivered[m]
  \/ /\ state[m] = "sending" /\ state'[m] \in {"queued", "sent", "failed"}
     /\ state'[m] = "sent" => delivered[m] > 0
     /\ tries'[m] = tries[m] /\ delivered'[m] = delivered[m]
  \/ /\ state[m] = "sending" /\ state'[m] = "sending"
     /\ tries[m] < MaxAttempts /\ tries'[m] = tries[m] + 1
     /\ delivered'[m] \in {delivered[m], delivered[m] + 1}

OthersRest(m) ==
  /\ state' = [state EXCEPT ![m] = state'[m]]
  /\ tries' = [tries EXCEPT ![m] = tries'[m]]
  /\ delivered' = [delivered EXCEPT ![m] = delivered'[m]]

(* Every step moves at most one row, and moves it like this.               *)
LEMMA OneRowMoves ==
  ASSUME TypeOK, OutboxInv, [Next]_vars
  PROVE  \/ UNCHANGED <<state, tries, delivered>>
         \/ \E m \in Msgs : RowStep(m) /\ OthersRest(m)
<1> USE OutboxAssumption DEF TypeOK, OutboxInv, RowInv, FlightInv, RowStep, OthersRest
<1>1. ASSUME NEW m \in Msgs, NEW u \in UndoWindows, NEW d \in Delays,
             Enqueue(m, u, d)
      PROVE  RowStep(m) /\ OthersRest(m)
  BY <1>1 DEF Enqueue
<1>2. ASSUME NEW m \in Msgs, Cancel(m) \/ Claim(m)
      PROVE  RowStep(m) /\ OthersRest(m)
  BY <1>2 DEF Cancel, Claim, hist
<1>3. ASSUME NEW m \in Msgs, ClaimLost(m) \/ ClaimErrs(m)
      PROVE  UNCHANGED <<state, tries, delivered>>
  BY <1>3 DEF ClaimLost, ClaimErrs, table, hist
<1>4. CASE RemoveAccount \/ Snapshot \/ LoseWrite \/ Preflight \/ ReplyLost
           \/ TickEnds \/ TimePasses \/ Crash \/ Restart \/ UNCHANGED vars
  BY <1>4 DEF RemoveAccount, Snapshot, LoseWrite, Preflight, ReplyLost, TickEnds,
              TimePasses, Crash, Restart, vars, table, hist
<1>5. ASSUME pc \in InFlight,
             \/ MarkFailed \/ AttemptsUnreadable
             \/ \E n \in Nat : Requeue(n)
             \/ pc = "accepted" /\ RecordSent
             \/ RelayAccepts \/ RelayRefuses
      PROVE  cur \in Msgs /\ RowStep(cur) /\ OthersRest(cur)
  <2>1. cur \in Msgs /\ state[cur] = "sending"
    BY <1>5
  <2>2. CASE MarkFailed \/ AttemptsUnreadable
    BY <2>1, <2>2 DEF MarkFailed, AttemptsUnreadable, hist
  <2>3. ASSUME NEW n \in Nat, Requeue(n)
        PROVE  RowStep(cur) /\ OthersRest(cur)
    BY <2>1, <2>3 DEF Requeue, hist
  <2>4. CASE pc = "accepted" /\ RecordSent
    BY <1>5, <2>1, <2>4 DEF RecordSent, hist
  <2>5. CASE RelayAccepts
    <3>1. pc = "submitting" /\ tries[cur] < MaxAttempts
      BY <1>5, <2>5 DEF RelayAccepts
    <3>2. /\ tries'[cur] = tries[cur] + 1 /\ delivered'[cur] = delivered[cur] + 1
          /\ state' = state
      BY <2>1, <2>5 DEF RelayAccepts, table
    <3>3. RowStep(cur)
      BY <2>1, <3>1, <3>2
    <3>4. OthersRest(cur)
      <4>1. state' = [state EXCEPT ![cur] = state'[cur]]
        BY <3>2
      <4>2. tries' = [tries EXCEPT ![cur] = tries'[cur]]
        BY <2>5, <3>2 DEF RelayAccepts
      <4>3. delivered' = [delivered EXCEPT ![cur] = delivered'[cur]]
        BY <2>5, <3>2 DEF RelayAccepts
      <4> QED BY ONLY <4>1, <4>2, <4>3 DEF OthersRest
    <3> QED BY <2>1, <3>3, <3>4
  <2>6. CASE RelayRefuses
    <3>1. pc = "submitting" /\ tries[cur] < MaxAttempts
      BY <1>5, <2>6 DEF RelayRefuses
    <3>2. tries'[cur] = tries[cur] + 1 /\ delivered' = delivered /\ state' = state
      BY <2>1, <2>6 DEF RelayRefuses, table
    <3>3. RowStep(cur)
      BY <2>1, <3>1, <3>2
    <3>4. OthersRest(cur)
      <4>1. state' = [state EXCEPT ![cur] = state'[cur]]
        BY <3>2
      <4>2. tries' = [tries EXCEPT ![cur] = tries'[cur]]
        BY <2>6, <3>2 DEF RelayRefuses
      <4>3. delivered' = [delivered EXCEPT ![cur] = delivered'[cur]]
        BY <2>6, <3>2 DEF RelayRefuses
      <4> QED BY ONLY <4>1, <4>2, <4>3 DEF OthersRest
    <3> QED BY <2>1, <3>3, <3>4
  <2> QED BY <1>5, <2>1, <2>2, <2>3, <2>4, <2>5, <2>6
<1>6. CASE SendFails
  <2>1. pc \in InFlight /\ attempts[cur] + 1 \in Nat
    BY <1>6 DEF SendFails, InFlight
  <2> QED BY <1>4, <1>5, <1>6, <2>1 DEF SendFails, RetryOrFail
<1>7. CASE Supervisor
  BY <1>2, <1>3, <1>4, <1>5, <1>6, <1>7
     DEF Supervisor, PreflightFails, SendSucceeds, RelayAccepts, RelayRefuses,
         AttemptsUnreadable, InFlight
<1>8. CASE User
  BY <1>1, <1>2, <1>4, <1>8 DEF User
<1> QED BY <1>4, <1>7, <1>8 DEF Next

(* An undo that answered true stays undone, and no row is handed to SMTP   *)
(* again once it is sent, failed or cancelled.                             *)
THEOREM SettledRest == Spec => SettledRowsRest
<1>1. ASSUME TypeOK, OutboxInv, [Next]_vars, NEW m \in Msgs, state[m] \in Terminal
      PROVE  state'[m] = state[m] /\ tries'[m] = tries[m]
  BY <1>1, OneRowMoves DEF RowStep, OthersRest, Terminal, TypeOK
<1>2. TypeOK /\ OutboxInv /\ [Next]_vars =>
        [\A m \in Msgs : state[m] \in Terminal =>
            state'[m] = state[m] /\ tries'[m] = tries[m]]_vars
  BY <1>1
<1> QED BY <1>2, TypeCorrect, InvHolds, PTL DEF Spec, SettledRowsRest

(* The queue implements OutboxAbs: one verdict per message, a bounded      *)
(* number of offers and none after the verdict.                            *)
THEOREM Refinement == Spec => KeepsPromise
<1>1. Init => Abs!AInit
  BY DEF Init, Abs!AInit
<1>2. TypeOK /\ OutboxInv /\ [Next]_vars => [Abs!ANext]_(Abs!avars)
  <2> SUFFICES ASSUME TypeOK, OutboxInv, [Next]_vars
               PROVE  [Abs!ANext]_(Abs!avars)
    OBVIOUS
  <2> DEFINE V == [m \in Msgs |-> IF state[m] \in {"queued", "sending"}
                                   THEN "pending" ELSE state[m]]
  <2>1. CASE UNCHANGED <<state, tries, delivered>>
    BY <2>1 DEF Abs!avars
  <2>2. ASSUME NEW m \in Msgs, RowStep(m), OthersRest(m)
        PROVE  [Abs!ANext]_(Abs!avars)
    <3>1. \A n \in Msgs \ {m} : V'[n] = V[n]
      BY <2>2 DEF OthersRest, TypeOK
    <3>2. /\ tries' = [tries EXCEPT ![m] = tries'[m]]
          /\ delivered' = [delivered EXCEPT ![m] = delivered'[m]]
      BY <2>2 DEF OthersRest
    <3>0. tries \in [Msgs -> Nat] /\ delivered \in [Msgs -> Nat]
      BY DEF TypeOK
    <3>3. CASE state[m] = "none" /\ state'[m] = "queued"
               /\ tries'[m] = tries[m] /\ delivered'[m] = delivered[m]
      <4>1. V[m] = "none" /\ V' = [V EXCEPT ![m] = "pending"]
        BY <3>1, <3>3
      <4>2. tries' = tries /\ delivered' = delivered
        <5>1. tries' = tries
          BY <3>0, <3>2, <3>3
        <5>2. delivered' = delivered
          BY <3>0, <3>2, <3>3
        <5> QED BY <5>1, <5>2
      <4>3. Abs!Accept(m)
        BY <4>1, <4>2 DEF Abs!Accept
      <4> QED BY <4>3 DEF Abs!ANext
    <3>4. CASE /\ state[m] \in {"queued", "sending"} /\ state'[m] \in Terminal
               /\ state'[m] = "sent" => delivered[m] > 0
               /\ tries'[m] = tries[m] /\ delivered'[m] = delivered[m]
      <4>0. PICK v \in {"sent", "failed", "cancelled"} : v = state'[m]
        BY <3>4 DEF Terminal
      <4>1. V[m] = "pending" /\ V' = [V EXCEPT ![m] = v]
        BY <3>1, <3>4, <4>0
      <4>2. tries' = tries /\ delivered' = delivered
        <5>1. tries' = tries
          BY <3>0, <3>2, <3>4
        <5>2. delivered' = delivered
          BY <3>0, <3>2, <3>4
        <5> QED BY <5>1, <5>2
      <4>3. Abs!Conclude(m, v)
        BY <3>4, <4>0, <4>1, <4>2 DEF Abs!Conclude
      <4> QED BY <4>3 DEF Abs!ANext
    <3>5. CASE /\ state[m] = "sending" /\ state'[m] = "sending"
               /\ tries[m] < MaxAttempts /\ tries'[m] = tries[m] + 1
               /\ delivered'[m] \in {delivered[m], delivered[m] + 1}
      <4>1. V' = V
        BY <3>1, <3>5
      <4>2. delivered' = [delivered EXCEPT ![m] = @ + 1] \/ delivered' = delivered
        BY <3>0, <3>2, <3>5
      <4>3. Abs!Offer(m)
        BY <3>2, <3>5, <4>1, <4>2 DEF Abs!Offer
      <4> QED BY <4>3 DEF Abs!ANext
    <3>6. CASE V'[m] = V[m] /\ tries'[m] = tries[m] /\ delivered'[m] = delivered[m]
      <4>1. V' = V
        BY <3>1, <3>6
      <4>2. tries' = tries /\ delivered' = delivered
        <5>1. tries' = tries
          BY <3>0, <3>2, <3>6
        <5>2. delivered' = delivered
          BY <3>0, <3>2, <3>6
        <5> QED BY <5>1, <5>2
      <4> QED BY <4>1, <4>2 DEF Abs!avars
    <3> QED BY <2>2, <3>3, <3>4, <3>5, <3>6 DEF RowStep, Terminal
  <2> QED BY <2>1, <2>2, OneRowMoves
<1> QED BY <1>1, <1>2, TypeCorrect, InvHolds, PTL DEF Spec, KeepsPromise, Abs!ASpec

-----------------------------------------------------------------------------
(* NoteEditor.                                                             *)
TextRecords == [of : Ids \cup {0}, version : Nat]
NoteRows    == [title : Titles, body : TextRecords]
MaybeTitle  == Titles \cup {None}
Uses        == [{"edit", "move", "event"} -> Nat]
PaneRecords ==
  [title : MaybeTitle, from : MaybeTitle, loading : BOOLEAN, data : BOOLEAN, editing : BOOLEAN,
   draft : TextRecords, buffer : TextRecords, last : TextRecords, timer : BOOLEAN, error : BOOLEAN,
   seq : Nat, done : Nat, loads : Nat]
CallRecords ==
  [kind : {"load", "save", "reload", "create", "fill", "rename", "delete"}, title : Titles,
   arg : Titles \cup TextRecords \cup {None}, seq : Nat, place : Places \cup {None}, mount : Nat,
   back : BOOLEAN, failed : BOOLEAN, result : TextRecords \cup {None}]

Argued(cs) ==
  \A c \in cs : /\ c.kind \in {"save", "reload"} => c.arg \in TextRecords
                /\ c.kind = "rename" => c.arg \in Titles
                /\ c.kind \in {"rename", "delete"} => c.place = None

EditorTyped ==
  /\ note \in [Ids -> NoteRows \cup {None}] /\ shown.page \in MaybeTitle /\ shown.side \in MaybeTitle
  /\ pane \in [Places -> PaneRecords] /\ panes \in [Places -> Nat]
  /\ calls \in SUBSET CallRecords /\ Argued(calls) /\ used \in Uses

OneEach  == \A m, n \in Rows : note[m].title = note[n].title => m = n
EachOwn  == \A n \in Rows : note[n].body.of = n

(* A text of note k may be written to the title, if there is such a note.  *)
Fits(t, k) == \A n \in Find(t) : k = n

(* Loads of one pane have different numbers, up to its count; the pane     *)
(* waits as long as its last load is under way.                            *)
LoadOf(c, s)   == c.kind = "load" /\ c.place = s
Twins(c, d)    == c.mount = d.mount /\ c.seq = d.seq
Alone(cs, s)   == \A c, d \in cs : LoadOf(c, s) /\ LoadOf(d, s) /\ Twins(c, d) => c = d
Counted(cs, p, s, mount) ==
  /\ Alone(cs, s)
  /\ \A c \in cs : LoadOf(c, s) => c.mount <= mount
  /\ p.title # None => \A c \in cs : LoadOf(c, s) /\ c.mount = mount => c.seq <= p.loads
  /\ p.loading => ~p.timer
  /\ p.title = None => ~p.data /\ ~p.timer
Awaited(cs, p, s, mount) ==
  p.title # None => \A c \in cs : LoadOf(c, s) /\ c.mount = mount /\ c.seq = p.loads => p.loading

(* What is under way fits the title it goes to or came from.               *)
CallFits(c) ==
  /\ c.kind = "save" /\ ~c.back => c.arg.of # 0 /\ Fits(c.title, c.arg.of)
  /\ c.kind \in {"load", "fill"} /\ c.back /\ c.result # None => c.result.of # 0 /\ Fits(c.title, c.result.of)

(* The draft fits the title it came from, and the editor shows the draft;  *)
(* no text is saved where none was loaded.                                 *)
DraftFits(p, why) ==
  /\ p.draft.of # 0 => p.from \in Titles /\ Fits(p.from, p.draft.of)
  /\ OnScreen(p) => p.buffer = p.draft
  /\ p.timer => p.from = p.title
  /\ p.draft.of = 0 => ~p.timer /\ ("late reload" \in why \/ (p.last.of = 0 /\ ~p.data /\ p.done = p.seq))

Clean(why) == why \cap Mixing = {}
Stands(cs, p, s, mount, why) ==
  Counted(cs, p, s, mount) /\ (Clean(why) => Awaited(cs, p, s, mount) /\ DraftFits(p, why))

EditorInv ==
  /\ EditorTyped /\ OneEach
  /\ \A s \in Places : Stands(calls, pane[s], s, panes[s], excuse)
  /\ Clean(excuse) => EachOwn /\ \A c \in calls : CallFits(c)

Waiting(p) == p.loading /\ ~p.timer
Begun(c)   == ~c.back /\ ~c.failed

LEMMA TextType ==
  /\ NoText \in TextRecords /\ NoText.of = 0
  /\ \A k \in Ids \cup {0} : \A v \in Nat : Text(k, v) \in TextRecords /\ Text(k, v).of = k
<1>1. ASSUME NEW k \in Ids \cup {0}, NEW v \in Nat PROVE Text(k, v) \in TextRecords /\ Text(k, v).of = k
  BY DEF Text, TextRecords
<1>2. NoText \in TextRecords /\ NoText.of = 0
  BY DEF NoText, Text, TextRecords
<1>. QED
  BY <1>1, <1>2

(* What holds before the step.                                             *)
LEMMA Before ==
  ASSUME EditorInv
  PROVE  /\ pane \in [Places -> PaneRecords] /\ panes \in [Places -> Nat]
         /\ calls \in SUBSET CallRecords /\ Argued(calls) /\ used \in Uses
         /\ \A s \in Places : Counted(calls, pane[s], s, panes[s])
         /\ \A why : excuse \subseteq why /\ Clean(why) =>
              /\ Clean(excuse) /\ \A c \in calls : CallFits(c)
              /\ \A s \in Places : Awaited(calls, pane[s], s, panes[s]) /\ DraftFits(pane[s], excuse)
BY DEF EditorInv, EditorTyped, Stands, Clean

(* A step of the panes, or of the commands, that leaves the notes alone.   *)
LEMMA PanesKeep ==
  ASSUME EditorInv, UNCHANGED note, NEW ps \in [Places -> PaneRecords], NEW cs \in SUBSET CallRecords,
         NEW ms \in [Places -> Nat], pane' = ps, calls' = cs, panes' = ms, used' \in Uses,
         shown'.page \in MaybeTitle, shown'.side \in MaybeTitle, NEW why, excuse' = why, excuse \subseteq why,
         Argued(cs), \A s \in Places : Stands(cs, ps[s], s, ms[s], why), Clean(why) => \A c \in cs : CallFits(c)
  PROVE  EditorInv'
<1>1. Rows' = Rows /\ \A t : Find(t)' = Find(t)
  BY DEF Rows, Find
<1>2. \A t, k : Fits(t, k)' = Fits(t, k)
  BY <1>1 DEF Fits
<1>3. OneEach' /\ (EachOwn' = EachOwn)
  BY <1>1 DEF EditorInv, OneEach, EachOwn
<1>4. EditorTyped'
  BY DEF EditorInv, EditorTyped, Argued
<1>5. ASSUME NEW s \in Places PROVE Stands(calls, pane[s], s, panes[s], excuse)'
  <2>1. DraftFits(pane[s], excuse)' = DraftFits(ps[s], why)
    BY <1>2 DEF DraftFits, OnScreen
  <2>2. Awaited(calls, pane[s], s, panes[s])' = Awaited(cs, ps[s], s, ms[s])
    BY DEF Awaited
  <2>3. Counted(calls, pane[s], s, panes[s])' = Counted(cs, ps[s], s, ms[s])
    BY DEF Counted, Alone
  <2>. QED
    BY <1>5, <2>1, <2>2, <2>3 DEF Stands
<1>6. \A c : CallFits(c)' = CallFits(c)
  BY <1>2 DEF CallFits
<1>7. Clean(why) => EachOwn
  BY DEF EditorInv, Clean
<1>. QED
  BY <1>3, <1>4, <1>5, <1>6, <1>7 DEF EditorInv

(* A pane that stays stands, as long as no load of its own is new.         *)
Numbered(cs, s) ==
  Alone(cs, s) /\ \A c \in cs : LoadOf(c, s) => \E d \in calls : LoadOf(d, s) /\ Twins(d, c)

LEMMA Remains ==
  ASSUME EditorInv, NEW cs, NEW s \in Places, Numbered(cs, s), NEW why, excuse \subseteq why
  PROVE  Stands(cs, pane[s], s, panes[s], why)
<1>1. PICK p, mount : p = pane[s] /\ mount = panes[s]
  OBVIOUS
<1>2. Counted(calls, p, s, mount)
  BY <1>1, Before
<1>3. Counted(cs, p, s, mount)
  BY <1>2 DEF Counted, Numbered, Twins
<1>4. ASSUME Clean(why) PROVE Awaited(cs, p, s, mount) /\ DraftFits(p, why)
  <2>1. Awaited(calls, p, s, mount) /\ DraftFits(p, excuse)
    BY <1>1, <1>4, Before
  <2>2. Awaited(cs, p, s, mount)
    BY <2>1 DEF Awaited, Numbered, Twins
  <2>3. DraftFits(p, why)
    BY <2>1 DEF DraftFits
  <2>. QED
    BY <2>2, <2>3
<1>. QED
  BY <1>1, <1>3, <1>4 DEF Stands

LEMMA FewerNumbered ==
  ASSUME EditorInv, NEW cs, NEW s \in Places, \A c \in cs : LoadOf(c, s) => c \in calls
  PROVE  Numbered(cs, s)
<1>1. Alone(calls, s)
  BY Before DEF Counted
<1>. QED
  BY <1>1 DEF Alone, Numbered, Twins

(* A step of one pane.                                                     *)
LEMMA OnePaneKeeps ==
  ASSUME EditorInv, UNCHANGED <<note, shown, panes>>, NEW s \in Places, NEW p \in PaneRecords, pane' = [pane EXCEPT ![s] = p],
         NEW cs \in SUBSET CallRecords, calls' = cs, Argued(cs), \A r \in Places : Numbered(cs, r),
         used' \in Uses, NEW why, excuse' = why, excuse \subseteq why,
         Stands(cs, p, s, panes[s], why), Clean(why) => \A c \in cs : CallFits(c)
  PROVE  EditorInv'
<1>1. PICK ps, ms : ps = [pane EXCEPT ![s] = p] /\ ms = panes
  OBVIOUS
<1>2. /\ ps \in [Places -> PaneRecords] /\ ms \in [Places -> Nat] /\ ps[s] = p
      /\ \A r \in Places : r = s \/ ps[r] = pane[r]
  BY <1>1, Before
<1>3. \A r \in Places : Stands(cs, ps[r], r, ms[r], why)
  BY <1>1, <1>2, Remains
<1>4. shown'.page \in MaybeTitle /\ shown'.side \in MaybeTitle
  BY DEF EditorInv, EditorTyped
<1>. QED
  BY <1>1, <1>2, <1>3, <1>4, PanesKeep

(* Calls change and the panes stay.                                        *)
LEMMA CallsKeep ==
  ASSUME EditorInv, UNCHANGED <<note, shown, pane, panes>>, NEW cs \in SUBSET CallRecords, calls' = cs, Argued(cs),
         \A s \in Places : Numbered(cs, s), used' \in Uses, excuse \subseteq excuse',
         Clean(excuse') => \A c \in cs : CallFits(c)
  PROVE  EditorInv'
<1>1. PICK ps, ms, why : ps = pane /\ ms = panes /\ why = excuse'
  OBVIOUS
<1>2. ps \in [Places -> PaneRecords] /\ ms \in [Places -> Nat]
  BY <1>1, Before
<1>3. \A s \in Places : Stands(cs, ps[s], s, ms[s], why)
  BY <1>1, Remains
<1>4. shown'.page \in MaybeTitle /\ shown'.side \in MaybeTitle
  BY DEF EditorInv, EditorTyped
<1>. QED
  BY <1>1, <1>2, <1>3, <1>4, PanesKeep

(* Fields of the panes the actions make.                                   *)
LEMMA RetitledIs ==
  ASSUME NEW q \in PaneRecords, NEW t \in Titles, NEW p, p = Retitled(q, t)
  PROVE  /\ p \in PaneRecords /\ p.title = t /\ Waiting(p) /\ p.loads = q.loads + 1
         /\ p.draft = q.draft /\ p.from = q.from /\ p.last = q.last /\ p.data = q.data /\ p.seq = q.seq /\ p.done = q.done
<1>1. PICK i : i = [[q EXCEPT !.title = t] EXCEPT !.timer = FALSE]
  OBVIOUS
<1>2. i \in PaneRecords /\ i.title = t /\ ~i.timer /\ i.loads = q.loads /\ i.draft = q.draft /\ i.from = q.from
      /\ i.last = q.last /\ i.data = q.data /\ i.seq = q.seq /\ i.done = q.done
  BY <1>1 DEF PaneRecords, MaybeTitle
<1>3. p = [[i EXCEPT !.loading = TRUE] EXCEPT !.loads = i.loads + 1]
  BY <1>1, <1>2 DEF Retitled
<1>4. i.loads + 1 \in Nat
  BY <1>2 DEF PaneRecords
<1>. QED
  BY <1>2, <1>3, <1>4 DEF PaneRecords, Waiting

LEMMA ClosedIs ==
  /\ Closed \in PaneRecords /\ Closed.title = None /\ Closed.draft.of = 0 /\ Closed.last.of = 0
  /\ ~Closed.data /\ ~Closed.timer /\ ~Closed.loading /\ Closed.done = Closed.seq /\ Closed.loads = 0
BY TextType DEF Closed, PaneRecords, MaybeTitle

LEMMA FlushedIs ==
  ASSUME NEW q \in PaneRecords, NEW p, p = Flushed(q)
  PROVE  /\ p \in PaneRecords /\ p.title = q.title /\ p.timer = q.timer /\ p.loading = q.loading /\ p.loads = q.loads
         /\ p.draft = q.draft /\ p.buffer = q.buffer /\ p.from = q.from /\ p.data = q.data /\ p.editing = q.editing
<1>1. PICK seq : seq = IF Unsaved(q) THEN q.seq + 1 ELSE q.seq
  OBVIOUS
<1>2. seq \in Nat
  BY <1>1 DEF PaneRecords
<1>3. p = [[q EXCEPT !.seq = seq] EXCEPT !.error = FALSE]
  BY <1>1 DEF Flushed
<1>. QED
  BY <1>2, <1>3 DEF PaneRecords

LEMMA MountedIs ==
  ASSUME NEW q, NEW p \in PaneRecords, NEW m, m = Mounted(q, p)
  PROVE  /\ m \in PaneRecords /\ m.title = p.title /\ m.timer = p.timer /\ m.loading = p.loading /\ m.loads = p.loads
         /\ m.draft = p.draft /\ m.from = p.from /\ m.data = p.data /\ m.last = p.last /\ m.seq = p.seq /\ m.done = p.done
         /\ (OnScreen(q) => p.buffer = p.draft) /\ OnScreen(m) => m.buffer = m.draft
<1>1. CASE OnScreen(p) /\ ~OnScreen(q)
  <2>1. m = [p EXCEPT !.buffer = p.draft] /\ p.draft \in TextRecords
    BY <1>1 DEF Mounted, PaneRecords
  <2>. QED
    BY <2>1 DEF PaneRecords
<1>2. CASE ~(OnScreen(p) /\ ~OnScreen(q))
  BY <1>2 DEF Mounted
<1>. QED
  BY <1>1, <1>2

LEMMA CallIs ==
  ASSUME NEW kind \in {"load", "save", "reload", "create", "fill", "rename", "delete"}, NEW t \in Titles,
         NEW arg \in Titles \cup TextRecords \cup {None}, NEW seq \in Nat, NEW place \in Places \cup {None}, NEW mount \in Nat,
         NEW c, c = Call(kind, t, arg, seq, place, mount)
  PROVE  /\ c \in CallRecords /\ c.kind = kind /\ c.title = t /\ c.arg = arg /\ c.seq = seq /\ c.place = place
         /\ c.mount = mount /\ Begun(c)
BY DEF Call, CallRecords, Begun

LEMMA SpendType ==
  ASSUME EditorInv, NEW what \in {"edit", "move", "event"}, NEW max, Spend(what, max)
  PROVE  used' \in Uses
<1>1. used \in Uses
  BY Before
<1>2. used[what] + 1 \in Nat
  BY <1>1 DEF Uses
<1>. QED
  BY <1>1, <1>2 DEF Uses, Spend

(* A pane that waits for the load of its new title.                        *)
LEMMA RetitledStands ==
  ASSUME EditorInv, NEW s \in Places, NEW t \in Titles, NEW p, p = Retitled(pane[s], t), NEW mount \in Nat,
         mount = (IF pane[s].title = None THEN panes[s] + 1 ELSE panes[s]),
         NEW c, LoadOf(c, s), c.mount = mount, c.seq = pane[s].loads + 1,
         NEW cs, \A d \in cs : LoadOf(d, s) => d \in calls \/ d = c, NEW why, excuse \subseteq why
  PROVE  Stands(cs, p, s, mount, why)
<1>1. PICK q, m : q = pane[s] /\ m = panes[s]
  OBVIOUS
<1>2. q \in PaneRecords /\ q.loads + 1 \in Nat /\ q.loads \in Nat /\ m \in Nat
  BY <1>1, Before DEF PaneRecords
<1>3. /\ p \in PaneRecords /\ p.title = t /\ Waiting(p) /\ p.loads = q.loads + 1
      /\ p.draft = q.draft /\ p.from = q.from /\ p.last = q.last /\ p.data = q.data /\ p.seq = q.seq /\ p.done = q.done
  BY <1>1, <1>2, RetitledIs
<1>4. Counted(calls, q, s, m)
  BY <1>1, Before
<1>5. \A d \in calls : LoadOf(d, s) => d.mount <= m /\ d.mount \in Nat /\ d.seq \in Nat
  BY <1>4, Before DEF Counted, CallRecords
<1>6. \A d \in calls : LoadOf(d, s) /\ d.mount = mount => mount = m /\ d.seq <= q.loads
  BY <1>1, <1>2, <1>4, <1>5 DEF Counted
<1>7. \A d \in calls : LoadOf(d, s) => ~Twins(d, c) /\ ~Twins(c, d)
  BY <1>1, <1>2, <1>5, <1>6 DEF Twins
<1>8. Alone(cs, s)
  BY <1>4, <1>7 DEF Alone, Counted
<1>9. \A d \in cs : LoadOf(d, s) => d.mount <= mount
  BY <1>1, <1>2, <1>5
<1>10. \A d \in cs : LoadOf(d, s) /\ d.mount = mount => d.seq <= p.loads
  BY <1>1, <1>2, <1>3, <1>5, <1>6
<1>11. Counted(cs, p, s, mount)
  BY <1>3, <1>8, <1>9, <1>10, NoteEditorAssumption DEF Counted, Waiting
<1>12. Awaited(cs, p, s, mount)
  BY <1>3 DEF Awaited, Waiting
<1>13. ASSUME Clean(why) PROVE DraftFits(p, why)
  <2>1. DraftFits(q, excuse)
    BY <1>1, <1>13, Before
  <2>. QED
    BY <1>3, <2>1 DEF DraftFits, OnScreen, Waiting
<1>. QED
  BY <1>11, <1>12, <1>13 DEF Stands

LEMMA ClosedStands ==
  ASSUME EditorInv, NEW s \in Places, NEW cs, \A d \in cs : LoadOf(d, s) => d \in calls, NEW why
  PROVE  Stands(cs, Closed, s, panes[s], why)
<1>1. Counted(calls, pane[s], s, panes[s])
  BY Before
<1>2. Alone(cs, s) /\ \A d \in cs : LoadOf(d, s) => d.mount <= panes[s]
  BY <1>1 DEF Counted, Alone
<1>3. Counted(cs, Closed, s, panes[s]) /\ Awaited(cs, Closed, s, panes[s])
  BY <1>2, ClosedIs DEF Counted, Awaited
<1>4. DraftFits(Closed, why)
  BY ClosedIs DEF DraftFits, OnScreen
<1>. QED
  BY <1>3, <1>4 DEF Stands

(* Panes that go, come, take another note or stay.                         *)
LEMMA ShowKeeps ==
  ASSUME EditorInv, NEW page \in MaybeTitle, NEW side \in MaybeTitle, NEW rest \in SUBSET calls, Show(page, side, rest),
         UNCHANGED note, used' \in Uses, excuse \subseteq excuse'
  PROVE  EditorInv'
<1>1. PICK here, t, why, cs, ms, ps :
        /\ here = [page |-> page, side |-> IF side = page THEN None ELSE side] /\ t = (IF page # None THEN page ELSE side)
        /\ why = excuse' /\ cs = calls' /\ ms = panes' /\ ps = pane'
  OBVIOUS
<1>2. PICK new : new = {s \in Places : here[s] # None /\ pane[s].title # t}
  OBVIOUS
<1>3. PICK kept : kept = {c \in rest : c.kind \in Reads => here[c.place] # None}
  OBVIOUS
<1>4. /\ shown' = here
      /\ ps = [s \in Places |-> IF here[s] = None THEN Closed ELSE IF s \in new THEN Retitled(pane[s], t) ELSE pane[s]]
      /\ ms = [s \in Places |-> IF s \in new /\ pane[s].title = None THEN panes[s] + 1 ELSE panes[s]]
      /\ cs = kept \cup {Call("load", t, None, pane[s].loads + 1, s, ms[s]) : s \in new}
  BY <1>1, <1>2, <1>3 DEF Show
<1>5. /\ shown'.page \in MaybeTitle /\ shown'.side \in MaybeTitle
  BY <1>1, <1>4 DEF MaybeTitle
<1>6. new # {} => t \in Titles
  BY <1>1, <1>2 DEF MaybeTitle, Places
<1>7. /\ ms \in [Places -> Nat] /\ \A s \in Places : s \notin new => ms[s] = panes[s]
      /\ \A s \in new : ms[s] = IF pane[s].title = None THEN panes[s] + 1 ELSE panes[s]
  BY <1>2, <1>4, Before
<1>8. \A s \in Places : pane[s] \in PaneRecords /\ pane[s].loads + 1 \in Nat
  BY Before DEF PaneRecords
<1>9. ps \in [Places -> PaneRecords]
  <2>1. ASSUME NEW s \in Places PROVE ps[s] \in PaneRecords
    <3>1. s \in new => Retitled(pane[s], t) \in PaneRecords
      BY <1>6, <1>8, RetitledIs
    <3>. QED
      BY <1>4, <1>8, <3>1, ClosedIs
  <2>2. ps = [s \in Places |-> ps[s]]
    BY <1>4
  <2>. QED
    BY <2>1, <2>2
<1>10. ASSUME NEW s \in new, NEW c, c = Call("load", t, None, pane[s].loads + 1, s, ms[s])
       PROVE  /\ c \in CallRecords /\ c.kind = "load" /\ c.place = s /\ c.mount = ms[s] /\ c.seq = pane[s].loads + 1
              /\ CallFits(c)
  <2>1. PICK seq, mount : seq = pane[s].loads + 1 /\ mount = ms[s]
    OBVIOUS
  <2>2. seq \in Nat /\ mount \in Nat /\ t \in Titles /\ s \in Places
    BY <1>2, <1>6, <1>7, <1>8, <2>1
  <2>3. PICK kind, arg, place : kind = "load" /\ arg = None /\ place = s /\ c = Call(kind, t, arg, seq, place, mount)
    BY <1>10, <2>1
  <2>4. /\ kind \in {"load", "save", "reload", "create", "fill", "rename", "delete"} /\ place \in Places \cup {None}
        /\ arg \in Titles \cup TextRecords \cup {None} /\ c = Call(kind, t, arg, seq, place, mount)
    BY <2>2, <2>3
  <2>5. /\ c \in CallRecords /\ c.kind = kind /\ c.place = place /\ c.mount = mount /\ c.seq = seq /\ Begun(c)
    BY <2>2, <2>4, CallIs
  <2>. QED
    BY <2>1, <2>3, <2>5 DEF CallFits, Begun
<1>11. \A c \in cs : c \in calls \/ \E s \in new : c = Call("load", t, None, pane[s].loads + 1, s, ms[s])
  BY <1>3, <1>4
<1>12. cs \in SUBSET CallRecords /\ Argued(cs)
  <2>1. \A c \in cs : c \in calls \/ (c \in CallRecords /\ c.kind = "load")
    BY <1>10, <1>11
  <2>. QED
    BY <2>1, Before DEF Argued
<1>13. Clean(why) => \A c \in cs : CallFits(c)
  BY <1>1, <1>10, <1>11, Before
<1>14. ASSUME NEW s \in Places PROVE Stands(cs, ps[s], s, ms[s], why)
  <2>1. CASE s \in new
    <3>1. PICK c : c = Call("load", t, None, pane[s].loads + 1, s, ms[s])
      OBVIOUS
    <3>2. LoadOf(c, s) /\ c.mount = ms[s] /\ c.seq = pane[s].loads + 1
      BY <1>10, <2>1, <3>1 DEF LoadOf
    <3>3. \A d \in cs : LoadOf(d, s) => d \in calls \/ d = c
      BY <1>10, <1>11, <3>1 DEF LoadOf
    <3>4. PICK p, mount : p = ps[s] /\ mount = ms[s]
      OBVIOUS
    <3>5. p = Retitled(pane[s], t) /\ mount \in Nat /\ mount = (IF pane[s].title = None THEN panes[s] + 1 ELSE panes[s])
      BY <1>2, <1>4, <1>7, <2>1, <3>4
    <3>6. c.mount = mount /\ excuse \subseteq why /\ t \in Titles
      BY <1>1, <1>6, <2>1, <3>2, <3>4
    <3>7. Stands(cs, p, s, mount, why)
      BY <3>2, <3>3, <3>5, <3>6, RetitledStands
    <3>. QED
      BY <3>4, <3>7
  <2>2. CASE s \notin new
    <3>1. \A d \in cs : LoadOf(d, s) => d \in calls
      BY <1>10, <1>11, <2>2 DEF LoadOf
    <3>2. Numbered(cs, s)
      BY <3>1, FewerNumbered
    <3>3. ms[s] = panes[s] /\ (ps[s] = Closed \/ ps[s] = pane[s])
      BY <1>4, <1>7, <2>2
    <3>4. Stands(cs, Closed, s, panes[s], why) /\ Stands(cs, pane[s], s, panes[s], why)
      BY <1>1, <3>1, <3>2, ClosedStands, Remains
    <3>. QED
      BY <3>3, <3>4
  <2>. QED
    BY <2>1, <2>2
<1>. QED
  BY <1>1, <1>5, <1>7, <1>9, <1>12, <1>13, <1>14, PanesKeep

LEMMA GoKeeps == ASSUME EditorInv, Go PROVE EditorInv'
<1>1. PICK page \in MaybeTitle, side \in {None, shown.page, shown.side} :
        Spend("move", MaxMoves) /\ Show(page, side, calls) /\ UNCHANGED <<note, excuse>>
  BY DEF Go, MaybeTitle
<1>2. side \in MaybeTitle
  BY <1>1 DEF EditorInv, EditorTyped, MaybeTitle
<1>3. used' \in Uses
  BY <1>1, SpendType
<1>4. PICK rest : rest = calls
  OBVIOUS
<1>. QED
  BY <1>1, <1>2, <1>3, <1>4, ShowKeeps

(* A step of one pane, while calls are under way.                          *)
Near(q, p) ==
  /\ p \in PaneRecords /\ q.title # None /\ p.title = q.title /\ p.loads = q.loads /\ p.loading = q.loading
  /\ p.loading => ~p.timer

LEMMA NearStands ==
  ASSUME EditorInv, NEW s \in Places, NEW p, Near(pane[s], p), NEW cs, Numbered(cs, s), NEW why, excuse \subseteq why,
         Clean(why) => DraftFits(p, why)
  PROVE  Stands(cs, p, s, panes[s], why)
<1>1. PICK q, mount : q = pane[s] /\ mount = panes[s]
  OBVIOUS
<1>2. Stands(cs, q, s, mount, why)
  BY <1>1, Remains
<1>3. Counted(cs, p, s, mount)
  BY <1>1, <1>2 DEF Stands, Counted, Near
<1>4. Clean(why) => Awaited(cs, p, s, mount)
  BY <1>1, <1>2 DEF Stands, Awaited, Near
<1>. QED
  BY <1>1, <1>3, <1>4 DEF Stands

LEMMA TouchKeeps ==
  ASSUME EditorInv, UNCHANGED <<note, shown, panes, calls>>, NEW s \in Places, NEW p, Near(pane[s], p),
         pane' = [pane EXCEPT ![s] = p], used' \in Uses, NEW why, excuse' = why, excuse \subseteq why,
         Clean(why) => DraftFits(p, why)
  PROVE  EditorInv'
<1>1. PICK cs : cs = calls
  OBVIOUS
<1>2. \A r \in Places : Numbered(cs, r)
  BY <1>1, FewerNumbered
<1>3. Stands(cs, p, s, panes[s], why)
  BY <1>2, NearStands
<1>4. cs \in SUBSET CallRecords /\ Argued(cs) /\ (Clean(why) => \A c \in cs : CallFits(c)) /\ p \in PaneRecords
  BY <1>1, Before DEF Near
<1>. QED
  BY <1>1, <1>2, <1>3, <1>4, OnePaneKeeps

LEMMA TypeKeeps == ASSUME EditorInv, excuse = {}, NEW s \in Places, Type(s) PROVE EditorInv'
<1>0. PICK version \in 0..MaxEdits :
        LET text == Text(pane[s].buffer.of, version)
            p    == [pane[s] EXCEPT !.buffer = text, !.draft = text]
        IN /\ OnScreen(pane[s]) /\ Spend("edit", MaxEdits)
           /\ pane' = [pane EXCEPT ![s] = [p EXCEPT !.error = FALSE, !.timer = @ \/ Unsaved(p)]]
           /\ excuse' = excuse \cup Because("undo past a save", ~Unsaved(p) /\ p.done < p.seq)
                               \cup Because("crossed", Crossed(p))
                               \cup Because("two panes", \E r \in Places \ {s} : pane[r].title # None)
           /\ UNCHANGED <<note, shown, panes, calls>>
  BY DEF Type
<1>1. PICK q, text, i, why, timer :
        /\ q = pane[s] /\ text = Text(q.buffer.of, version) /\ i = [[q EXCEPT !.buffer = text] EXCEPT !.draft = text]
        /\ why = excuse' /\ timer = (i.timer \/ Unsaved(i))
  OBVIOUS
<1>2. PICK p : p = [[i EXCEPT !.error = FALSE] EXCEPT !.timer = timer]
  OBVIOUS
<1>3. q \in PaneRecords /\ q.buffer \in TextRecords /\ q.buffer.of \in Ids \cup {0}
  BY <1>1, Before DEF PaneRecords, TextRecords
<1>4. text \in TextRecords /\ text.of = q.buffer.of
  BY <1>1, <1>3, TextType, NoteEditorAssumption
<1>5. /\ i \in PaneRecords /\ i.title = q.title /\ i.from = q.from /\ i.loads = q.loads /\ i.loading = q.loading
      /\ i.timer = q.timer /\ i.draft = text /\ i.buffer = text
  BY <1>1, <1>3, <1>4 DEF PaneRecords
<1>6. timer \in BOOLEAN
  BY <1>1, <1>5 DEF PaneRecords, Unsaved
<1>7. /\ p \in PaneRecords /\ p.title = q.title /\ p.from = q.from /\ p.loads = q.loads /\ p.loading = q.loading
      /\ p.draft = text /\ p.buffer = text
  BY <1>2, <1>5, <1>6 DEF PaneRecords
<1>8. OnScreen(q) /\ Spend("edit", MaxEdits) /\ UNCHANGED <<note, shown, panes, calls>> /\ excuse \subseteq why
  BY <1>0, <1>1
<1>9. pane' = [pane EXCEPT ![s] = p]
  BY <1>0, <1>1, <1>2, <1>5
<1>10. q.from # q.title => "crossed" \in why
  <2>1. Crossed(i) => "crossed" \in why
    BY <1>0, <1>1 DEF Because
  <2>. QED
    BY <1>5, <2>1 DEF Crossed
<1>11. Near(q, p)
  <2>1. ~p.loading /\ q.title # None
    BY <1>1, <1>7, <1>8, Before DEF OnScreen, Counted
  <2>. QED
    BY <1>7, <2>1 DEF Near
<1>12. ASSUME Clean(why) PROVE DraftFits(p, why)
  <2>1. DraftFits(q, {}) /\ q.from = q.title /\ q.data /\ q.buffer = q.draft
    BY <1>1, <1>8, <1>10, <1>12, Before DEF Clean, Mixing, DraftFits, OnScreen
  <2>2. q.draft.of # 0 /\ q.from \in Titles /\ Fits(q.from, q.draft.of)
    BY <2>1 DEF DraftFits
  <2>. QED
    BY <1>4, <1>7, <2>1, <2>2 DEF DraftFits
<1>13. used' \in Uses
  BY <1>8, SpendType
<1>. QED
  BY <1>1, <1>8, <1>9, <1>11, <1>12, <1>13, TouchKeeps

LEMMA EditKeeps == ASSUME EditorInv, excuse = {}, NEW s \in Places, Edit(s) PROVE EditorInv'
<1>1. PICK q, i, p, why : q = pane[s] /\ i = [q EXCEPT !.editing = TRUE] /\ p = Mounted(q, i) /\ why = excuse
  OBVIOUS
<1>2. q \in PaneRecords /\ Counted(calls, q, s, panes[s]) /\ (Clean(why) => DraftFits(q, why))
  BY <1>1, Before
<1>3. q.data /\ ~q.editing /\ pane' = [pane EXCEPT ![s] = p] /\ UNCHANGED <<note, shown, panes, calls, excuse>>
  BY <1>1, <1>2, Before DEF Edit, PaneRecords
<1>4. ~OnScreen(q)
  BY <1>3 DEF OnScreen
<1>5. /\ i \in PaneRecords /\ i.title = q.title /\ i.from = q.from /\ i.loads = q.loads /\ i.loading = q.loading
      /\ i.timer = q.timer /\ i.draft = q.draft /\ i.last = q.last /\ i.data = q.data /\ i.seq = q.seq /\ i.done = q.done
  BY <1>1, <1>2 DEF PaneRecords
<1>11. i \in PaneRecords /\ p = Mounted(q, i) /\ ~OnScreen(q)
  BY <1>1, <1>4, <1>5
<1>6. /\ p \in PaneRecords /\ p.title = i.title /\ p.timer = i.timer /\ p.loading = i.loading /\ p.loads = i.loads
      /\ p.draft = i.draft /\ p.from = i.from /\ p.data = i.data /\ p.last = i.last /\ p.seq = i.seq /\ p.done = i.done
  BY <1>11, MountedIs
<1>7. OnScreen(p) => p.buffer = p.draft
  BY <1>11, MountedIs
<1>8. Clean(why) => DraftFits(p, why)
  BY <1>2, <1>5, <1>6, <1>7 DEF DraftFits
<1>9. Near(q, p)
  BY <1>2, <1>3, <1>5, <1>6 DEF Near, Counted
<1>10. used' \in Uses
  BY SpendType DEF Edit
<1>. QED
  BY <1>1, <1>3, <1>8, <1>9, <1>10, TouchKeeps

(* A save begins, when the text is of the note on screen.                  *)
LEMMA FlushKeeps ==
  ASSUME EditorInv, NEW s \in Places, NEW i, Near(pane[s], i), NEW w, Flush(s, i, w), UNCHANGED <<note, shown, panes, used>>,
         Clean(excuse') => i.draft.of # 0 /\ i.from = i.title /\ DraftFits(i, excuse')
  PROVE  EditorInv'
<1>1. PICK p, why, seq, mount, c, cs :
        /\ p = Flushed(i) /\ why = excuse' /\ seq = i.seq + 1 /\ mount = panes[s]
        /\ c = Call("save", i.title, i.draft, seq, s, mount)
        /\ cs = (IF Unsaved(i) THEN calls \cup {c} ELSE calls)
  OBVIOUS
<1>2. pane' = [pane EXCEPT ![s] = p] /\ calls' = cs /\ excuse \subseteq why
  BY <1>1 DEF Flush
<1>3. i \in PaneRecords /\ i.title \in Titles /\ i.draft \in TextRecords /\ seq \in Nat /\ mount \in Nat
  BY <1>1, Before DEF Near, PaneRecords, MaybeTitle
<1>4. /\ p \in PaneRecords /\ p.title = i.title /\ p.timer = i.timer /\ p.loading = i.loading /\ p.loads = i.loads
      /\ p.draft = i.draft /\ p.buffer = i.buffer /\ p.from = i.from /\ p.data = i.data /\ p.editing = i.editing
  BY <1>1, <1>3, FlushedIs
<1>5. Near(pane[s], p)
  BY <1>4 DEF Near
<1>6. c \in CallRecords /\ c.kind = "save" /\ c.title = i.title /\ c.arg = i.draft
  <2>1. PICK kind, arg, t, place : kind = "save" /\ arg = i.draft /\ t = i.title /\ place = s
    OBVIOUS
  <2>2. c = Call(kind, t, arg, seq, place, mount) /\ arg \in Titles \cup TextRecords \cup {None} /\ t \in Titles
    BY <1>1, <1>3, <2>1
  <2>3. c \in CallRecords /\ c.kind = kind /\ c.title = t /\ c.arg = arg
    BY <1>3, <2>1, <2>2, CallIs
  <2>. QED
    BY <2>1, <2>3
<1>7. \A d \in cs : d \in calls \/ d = c
  BY <1>1
<1>8. cs \in SUBSET CallRecords /\ Argued(cs)
  BY <1>3, <1>6, <1>7, Before DEF Argued
<1>9. \A r \in Places : Numbered(cs, r)
  <2>1. \A r \in Places : \A d \in cs : LoadOf(d, r) => d \in calls
    BY <1>6, <1>7 DEF LoadOf
  <2>. QED
    BY <2>1, FewerNumbered
<1>10. ASSUME Clean(why) PROVE DraftFits(p, why) /\ \A d \in cs : CallFits(d)
  <2>1. i.draft.of # 0 /\ i.from = i.title /\ DraftFits(i, why)
    BY <1>1, <1>10
  <2>2. DraftFits(p, why)
    BY <1>4, <2>1 DEF DraftFits, OnScreen
  <2>3. CallFits(c)
    BY <1>6, <2>1 DEF CallFits, DraftFits
  <2>. QED
    BY <1>2, <1>7, <1>10, <2>2, <2>3, Before
<1>11. Stands(cs, p, s, panes[s], why)
  BY <1>2, <1>5, <1>9, <1>10, NearStands
<1>12. used' \in Uses
  BY Before
<1>. QED
  BY <1>1, <1>2, <1>4, <1>8, <1>9, <1>10, <1>11, <1>12, OnePaneKeeps

LEMMA ViewKeeps == ASSUME EditorInv, excuse = {}, NEW s \in Places, View(s) PROVE EditorInv'
<1>1. PICK q, i, w : q = pane[s] /\ i = [[q EXCEPT !.timer = FALSE] EXCEPT !.editing = FALSE] /\ w = Because("crossed", Crossed(q))
  OBVIOUS
<1>2. q.data /\ q.editing /\ Flush(s, i, w) /\ UNCHANGED <<note, shown, panes, used>>
  BY <1>1 DEF View
<1>3. q \in PaneRecords /\ Counted(calls, q, s, panes[s])
  BY <1>1, Before
<1>4. /\ i \in PaneRecords /\ i.title = q.title /\ i.loads = q.loads /\ i.loading = q.loading /\ i.draft = q.draft
      /\ i.buffer = q.buffer /\ i.from = q.from /\ ~i.timer /\ ~i.editing
  BY <1>1, <1>3 DEF PaneRecords
<1>5. Near(pane[s], i)
  BY <1>1, <1>2, <1>3, <1>4 DEF Near, Counted
<1>6. ASSUME Clean(excuse') PROVE i.draft.of # 0 /\ i.from = i.title /\ DraftFits(i, excuse')
  <2>1. w \subseteq excuse' /\ excuse \subseteq excuse'
    BY <1>2 DEF Flush
  <2>2. ~Crossed(q)
    BY <1>1, <1>6, <2>1 DEF Clean, Because, Mixing
  <2>3. DraftFits(q, {})
    BY <1>1, <1>6, <2>1, Before
  <2>4. q.draft.of # 0
    BY <1>2, <2>3 DEF DraftFits
  <2>. QED
    BY <1>4, <2>2, <2>3, <2>4 DEF DraftFits, Crossed, OnScreen
<1>. QED
  BY <1>2, <1>5, <1>6, FlushKeeps

LEMMA TimerKeeps == ASSUME EditorInv, NEW s \in Places, Timer(s) PROVE EditorInv'
<1>1. PICK q, i, w : q = pane[s] /\ i = [q EXCEPT !.timer = FALSE] /\ w = {}
  OBVIOUS
<1>2. q.timer /\ Flush(s, i, w) /\ UNCHANGED <<note, shown, panes, used>>
  BY <1>1 DEF Timer
<1>3. q \in PaneRecords /\ Counted(calls, q, s, panes[s])
  BY <1>1, Before
<1>4. /\ i \in PaneRecords /\ i.title = q.title /\ i.loads = q.loads /\ i.loading = q.loading /\ i.draft = q.draft
      /\ i.buffer = q.buffer /\ i.from = q.from /\ ~i.timer /\ i.editing = q.editing /\ i.data = q.data
  BY <1>1, <1>3 DEF PaneRecords
<1>5. Near(pane[s], i)
  BY <1>1, <1>2, <1>3, <1>4 DEF Near, Counted
<1>6. ASSUME Clean(excuse') PROVE i.draft.of # 0 /\ i.from = i.title /\ DraftFits(i, excuse')
  <2>1. excuse \subseteq excuse'
    BY <1>2 DEF Flush
  <2>2. DraftFits(q, excuse)
    BY <1>1, <1>6, <2>1, Before
  <2>3. q.draft.of # 0 /\ q.from = q.title
    BY <1>2, <2>2 DEF DraftFits
  <2>. QED
    BY <1>4, <2>2, <2>3 DEF DraftFits, OnScreen
<1>. QED
  BY <1>2, <1>5, <1>6, FlushKeeps

LEMMA AskedKeeps ==
  ASSUME EditorInv, NEW kind \in {"create", "rename", "delete"}, NEW t \in Titles, NEW arg \in Titles \cup {None},
         NEW place \in Places \cup {None}, NEW mount \in Nat, kind = "rename" => arg \in Titles,
         kind # "create" => place = None, Asked(kind, t, arg, place, mount)
  PROVE  EditorInv'
<1>1. PICK seq, c, cs : seq = used.event /\ c = Call(kind, t, arg, seq, place, mount) /\ cs = calls \cup {c}
  OBVIOUS
<1>2. used' \in Uses /\ calls' = cs /\ UNCHANGED <<note, shown, pane, panes, excuse>>
  BY <1>1, SpendType DEF Asked
<1>3. seq \in Nat
  BY <1>1, Before DEF Uses
<1>4. c \in CallRecords /\ c.kind = kind /\ c.arg = arg /\ c.place = place
  <2>1. /\ kind \in {"load", "save", "reload", "create", "fill", "rename", "delete"}
        /\ arg \in Titles \cup TextRecords \cup {None} /\ c = Call(kind, t, arg, seq, place, mount)
    BY <1>1
  <2>. QED
    BY <1>3, <2>1 DEF Call, CallRecords
<1>5. CallFits(c) /\ \A s \in Places : ~LoadOf(c, s)
  BY <1>4 DEF LoadOf, CallFits
<1>6. cs \in SUBSET CallRecords /\ Argued(cs)
  BY <1>1, <1>4, Before DEF Argued
<1>7. \A s \in Places : Numbered(cs, s)
  BY <1>1, <1>5, FewerNumbered
<1>8. Clean(excuse') => \A d \in cs : CallFits(d)
  BY <1>1, <1>2, <1>5, Before
<1>. QED
  BY <1>2, <1>6, <1>7, <1>8, CallsKeep

LEMMA UserKeeps == ASSUME EditorInv, excuse = {}, EditorUser, ~AgentAppends PROVE EditorInv'
<1>1. ASSUME NEW s \in Places, Ghost(s) PROVE EditorInv'
  <2>1. PICK t, mount, arg, kind, place : t = pane[s].title /\ mount = panes[s] /\ arg = None /\ kind = "create" /\ place = s
    OBVIOUS
  <2>2. t \in Titles /\ mount \in Nat
    BY <1>1, <2>1, Before DEF Ghost, PaneRecords, MaybeTitle
  <2>3. Asked(kind, t, arg, place, mount)
    BY <1>1, <2>1 DEF Ghost
  <2>. QED
    BY <2>1, <2>2, <2>3, AskedKeeps
<1>2. CASE Rename
  <2>1. PICK kind, place, mount : kind = "rename" /\ place = None /\ mount = 0
    OBVIOUS
  <2>2. PICK t, new \in Titles : Asked(kind, t, new, place, mount)
    BY <1>2, <2>1 DEF Rename
  <2>. QED
    BY <2>1, <2>2, AskedKeeps
<1>3. CASE Delete
  <2>1. PICK kind, arg, place, mount : kind = "delete" /\ arg = None /\ place = None /\ mount = 0
    OBVIOUS
  <2>2. PICK t \in Titles : Asked(kind, t, arg, place, mount)
    BY <1>3, <2>1 DEF Delete
  <2>. QED
    BY <2>1, <2>2, AskedKeeps
<1>. QED
  BY <1>1, <1>2, <1>3, GoKeeps, TypeKeeps, EditKeeps, ViewKeeps DEF EditorUser

(* Notes and calls change, the panes stay.                                 *)
LEMMA NotesKeep ==
  ASSUME EditorInv, UNCHANGED <<shown, pane, panes>>, NEW cs \in SUBSET CallRecords, calls' = cs, Argued(cs),
         \A s \in Places : Numbered(cs, s), note' \in [Ids -> NoteRows \cup {None}], OneEach',
         used' \in Uses, excuse \subseteq excuse',
         Clean(excuse') => /\ EachOwn' /\ \A c \in cs : CallFits(c)'
                           /\ \A s \in Places : pane[s].draft.of # 0 => Fits(pane[s].from, pane[s].draft.of)'
  PROVE  EditorInv'
<1>1. PICK ps, why, ms : ps = pane /\ why = excuse' /\ ms = panes
  OBVIOUS
<1>2. EditorTyped'
  <2>1. /\ pane \in [Places -> PaneRecords] /\ panes \in [Places -> Nat] /\ shown.page \in MaybeTitle /\ shown.side \in MaybeTitle
    BY DEF EditorInv, EditorTyped
  <2>. QED
    BY <2>1 DEF EditorTyped, Argued
<1>3. ASSUME NEW s \in Places PROVE Stands(calls, pane[s], s, panes[s], excuse)'
  <2>1. PICK p, m : p = ps[s] /\ m = ms[s]
    OBVIOUS
  <2>2. Stands(cs, p, s, m, why)
    BY <1>1, <2>1, Remains
  <2>3. Counted(calls, pane[s], s, panes[s])'
    BY <1>1, <2>1, <2>2 DEF Stands, Counted, Alone
  <2>4. ASSUME Clean(why) PROVE Awaited(calls, pane[s], s, panes[s])' /\ DraftFits(pane[s], excuse)'
    <3>1. Awaited(cs, p, s, m) /\ DraftFits(p, why)
      BY <2>2, <2>4 DEF Stands
    <3>2. Awaited(calls, pane[s], s, panes[s])'
      BY <1>1, <2>1, <3>1 DEF Awaited
    <3>3. p.draft.of # 0 => Fits(p.from, p.draft.of)'
      BY <1>1, <2>1, <2>4
    <3>4. DraftFits(p, why)'
      BY <3>1, <3>3 DEF DraftFits
    <3>5. DraftFits(pane[s], excuse)' = DraftFits(p, why)'
      BY <1>1, <2>1 DEF DraftFits, Fits, OnScreen
    <3>. QED
      BY <3>2, <3>4, <3>5
  <2>5. Clean(excuse)' = Clean(why)
    BY <1>1 DEF Clean
  <2>. QED
    BY <2>3, <2>4, <2>5 DEF Stands
<1>4. Clean(excuse)' => EachOwn' /\ (\A c \in calls : CallFits(c))'
  BY DEF Clean
<1>. QED
  BY <1>2, <1>3, <1>4 DEF EditorInv

LEMMA AppendKeeps == ASSUME EditorInv, AgentAppends PROVE EditorInv'
<1>1. PICK n \in Rows : note' = [note EXCEPT ![n].body = Text(n, MaxEdits + 1)]
  BY DEF AgentAppends
<1>2. note \in [Ids -> NoteRows \cup {None}] /\ n \in Ids /\ note[n] \in NoteRows /\ n \in Nat
  BY DEF EditorInv, EditorTyped, Rows, Ids
<1>3. PICK text : text = Text(n, MaxEdits + 1)
  OBVIOUS
<1>4. text \in TextRecords /\ text.of = n
  BY <1>2, <1>3, TextType, NoteEditorAssumption
<1>5. PICK row : row = [note[n] EXCEPT !.body = text]
  OBVIOUS
<1>6. row \in NoteRows /\ row.title = note[n].title /\ row.body = text
  BY <1>2, <1>4, <1>5 DEF NoteRows
<1>7. note' = [note EXCEPT ![n] = row]
  BY <1>1, <1>3, <1>5
<1>8. /\ note' \in [Ids -> NoteRows \cup {None}]
      /\ \A m \in Rows' : m \in Rows /\ note'[m].title = note[m].title
      /\ \A m \in Rows' : note'[m].body = note[m].body \/ (m = n /\ note'[m].body = text)
  BY <1>2, <1>6, <1>7 DEF Rows
<1>9. \A t : Find(t)' \subseteq Find(t)
  BY <1>8 DEF Find
<1>10. \A t, k : Fits(t, k) => Fits(t, k)'
  BY <1>9 DEF Fits
<1>11. OneEach' /\ (EachOwn => EachOwn')
  BY <1>4, <1>8 DEF OneEach, EachOwn, EditorInv
<1>12. PICK cs : cs = calls
  OBVIOUS
<1>13. used' \in Uses /\ UNCHANGED <<shown, pane, panes, calls>> /\ excuse \subseteq excuse'
  BY SpendType DEF AgentAppends
<1>14. ASSUME Clean(excuse')
       PROVE  /\ EachOwn' /\ \A c \in cs : CallFits(c)'
              /\ \A s \in Places : pane[s].draft.of # 0 => Fits(pane[s].from, pane[s].draft.of)'
  <2>1. EachOwn /\ (\A s \in Places : DraftFits(pane[s], excuse)) /\ \A c \in cs : CallFits(c)
    BY <1>12, <1>13, <1>14, Before DEF EditorInv
  <2>2. \A c \in cs : CallFits(c)'
    BY <1>10, <2>1 DEF CallFits
  <2>3. ASSUME NEW s \in Places, pane[s].draft.of # 0 PROVE Fits(pane[s].from, pane[s].draft.of)'
    <3>1. PICK p : p = pane[s]
      OBVIOUS
    <3>2. Fits(p.from, p.draft.of)'
      BY <1>10, <2>1, <2>3, <3>1 DEF DraftFits
    <3>3. Fits(pane[s].from, pane[s].draft.of)' = Fits(p.from, p.draft.of)'
      BY <1>13, <3>1 DEF Fits
    <3>. QED
      BY <3>2, <3>3
  <2>. QED
    BY <1>11, <2>1, <2>2, <2>3
<1>15. cs \in SUBSET CallRecords /\ Argued(cs) /\ \A s \in Places : Numbered(cs, s)
  BY <1>12, Before, FewerNumbered
<1>. QED
  BY <1>8, <1>11, <1>12, <1>13, <1>14, <1>15, NotesKeep

(* What a command makes of each note.                                      *)
Made(c, n, k, r) ==
  \/ r = note[n] \/ r = None
  \/ c.kind = "save" /\ n \in Find(c.title) /\ r.title = note[n].title /\ r.body = c.arg
  \/ c.kind = "rename" /\ n \in Find(c.title) /\ Find(c.arg) = {} /\ r.title = c.arg /\ r.body = note[n].body
  \/ c.kind = "create" /\ Find(c.title) = {} /\ n = k /\ r.title = c.title /\ r.body.of = n

LEMMA CreateIs ==
  ASSUME EditorTyped, NEW c \in calls, c.kind = "create"
  PROVE  \E k : \A n \in Ids : Create(c.title)[n] \in NoteRows \cup {None} /\ Made(c, n, k, Create(c.title)[n])
<1>1. PICK t : t = c.title
  OBVIOUS
<1>2. t \in Titles /\ note \in [Ids -> NoteRows \cup {None}]
  BY <1>1 DEF EditorTyped, CallRecords
<1>3. PICK free : free = {n \in Ids : note[n] = None /\ \A m \in Ids : m > n => note[m] = None}
  OBVIOUS
<1>4. PICK k : k = CHOOSE n \in free : \A m \in free : n <= m
  OBVIOUS
<1>5. Create(t) = IF Find(t) # {} \/ free = {} THEN note ELSE [note EXCEPT ![k] = [title |-> t, body |-> Text(k, 0)]]
  BY <1>3, <1>4 DEF Create
<1>6. ASSUME NEW n \in Ids PROVE Create(t)[n] \in NoteRows \cup {None} /\ Made(c, n, k, Create(t)[n])
  <2>1. CASE Create(t)[n] = note[n]
    BY <1>2, <2>1 DEF Made
  <2>2. CASE Create(t)[n] # note[n]
    <3>1. Find(t) = {} /\ n = k /\ Create(t)[n] = [title |-> t, body |-> Text(n, 0)]
      BY <1>2, <1>5, <2>2
    <3>2. n \in Ids \cup {0} /\ Text(n, 0) \in TextRecords /\ Text(n, 0).of = n
      BY TextType
    <3>. QED
      BY <1>1, <1>2, <3>1, <3>2 DEF Made, NoteRows
  <2>. QED
    BY <2>1, <2>2
<1>. QED
  BY <1>1, <1>6

LEMMA EffectIs ==
  ASSUME EditorTyped, NEW c \in calls
  PROVE  \E k : \A n \in Ids : Effect(c)[n] \in NoteRows \cup {None} /\ Made(c, n, k, Effect(c)[n])
<1>1. /\ note \in [Ids -> NoteRows \cup {None}]
      /\ (c.kind = "save" => c.arg \in TextRecords) /\ (c.kind = "rename" => c.arg \in Titles)
  BY DEF EditorTyped, Argued
<1>2. CASE c.kind = "create"
  <2>1. \A n \in Ids : Effect(c)[n] = Create(c.title)[n]
    BY <1>2 DEF Effect
  <2>. QED
    BY <1>2, <2>1, CreateIs
<1>3. CASE c.kind # "create"
  <2>1. ASSUME NEW n \in Ids PROVE Effect(c)[n] \in NoteRows \cup {None} /\ Made(c, n, 0, Effect(c)[n])
    <3>1. CASE n \notin Find(c.title) \/ Refused(c)
      <4>1. Effect(c)[n] = note[n]
        BY <1>3, <3>1 DEF Effect
      <4>. QED
        BY <1>1, <4>1 DEF Made
    <3>2. CASE n \in Find(c.title) /\ ~Refused(c)
      <4>0. note[n] \in NoteRows
        BY <1>1, <3>2 DEF Find, Rows
      <4>1. Effect(c)[n] = CASE c.kind = "save"   -> [note[n] EXCEPT !.body = c.arg]
                             [] c.kind = "rename" -> [note[n] EXCEPT !.title = c.arg]
                             [] c.kind = "delete" -> None
                             [] OTHER             -> note[n]
        BY <1>3, <3>2 DEF Effect
      <4>2. CASE c.kind = "save"
        <5>1. Effect(c)[n] = [note[n] EXCEPT !.body = c.arg]
          BY <4>1, <4>2
        <5>. QED
          BY <1>1, <3>2, <4>0, <4>2, <5>1 DEF Made, NoteRows
      <4>3. CASE c.kind = "rename"
        <5>1. Effect(c)[n] = [note[n] EXCEPT !.title = c.arg] /\ Find(c.arg) = {}
          BY <3>2, <4>1, <4>3 DEF Refused
        <5>. QED
          BY <1>1, <3>2, <4>0, <4>3, <5>1 DEF Made, NoteRows
      <4>4. CASE c.kind = "delete"
        BY <4>1, <4>4 DEF Made
      <4>5. CASE c.kind \notin {"save", "rename", "delete"}
        BY <1>1, <4>1, <4>5 DEF Made
      <4>. QED
        BY <4>2, <4>3, <4>4, <4>5
    <3>. QED
      BY <3>1, <3>2
  <2>. QED
    BY <2>1
<1>. QED
  BY <1>2, <1>3

(* A command makes a title fit no longer only by giving it to a note.      *)
LEMMA EffectKeeps ==
  ASSUME EditorTyped, OneEach, NEW c \in calls, note' = Effect(c)
  PROVE  /\ note' \in [Ids -> NoteRows \cup {None}] /\ OneEach'
         /\ EachOwn /\ CallFits(c) /\ ~c.back => EachOwn'
         /\ \A t, k : Fits(t, k) /\ ~(Gives(c, t) /\ Find(t) = {}) => Fits(t, k)'
<1>1. PICK k : \A n \in Ids : Effect(c)[n] \in NoteRows \cup {None} /\ Made(c, n, k, Effect(c)[n])
  BY EffectIs
<1>2. /\ note' \in [Ids -> NoteRows \cup {None}]
      /\ \A n \in Ids : Made(c, n, k, note'[n])
  <2>1. Effect(c) = [n \in Ids |-> Effect(c)[n]]
    BY DEF Effect
  <2>. QED
    BY <1>1, <2>1
<1>3. \A n \in Rows' : n \in Ids /\ note'[n] # None
  BY DEF Rows
<1>4. \A n \in Rows' : note'[n] = note[n] => n \in Rows
  BY DEF Rows
<1>5. \A t : \A n \in Find(t) : n \in Rows /\ note[n].title = t
  BY DEF Find
<1>6. \A t : \A n \in Rows : note[n].title = t => n \in Find(t)
  BY DEF Find
<1>7. ASSUME NEW n \in Rows'
      PROVE  \/ n \in Rows /\ note'[n].title = note[n].title
             \/ c.kind = "rename" /\ n \in Find(c.title) /\ Find(c.arg) = {} /\ note'[n].title = c.arg
             \/ c.kind = "create" /\ Find(c.title) = {} /\ n = k /\ note'[n].title = c.title
  <2>1. Made(c, n, k, note'[n]) /\ note'[n] # None
    BY <1>2, <1>3
  <2>. QED
    BY <1>4, <1>5, <2>1 DEF Made
<1>8. OneEach'
  <2>1. SUFFICES ASSUME NEW m \in Rows', NEW n \in Rows', note'[m].title = note'[n].title PROVE m = n
    BY DEF OneEach
  <2>2. \A i, j \in Rows : note[i].title = note[j].title => i = j
    BY DEF OneEach
  <2>. QED
    BY <1>5, <1>6, <1>7, <2>1, <2>2
<1>9. ASSUME EachOwn, CallFits(c), ~c.back PROVE EachOwn'
  <2>1. SUFFICES ASSUME NEW n \in Rows' PROVE note'[n].body.of = n
    BY DEF EachOwn
  <2>2. Made(c, n, k, note'[n]) /\ note'[n] # None
    BY <1>2, <1>3, <2>1
  <2>3. CASE c.kind = "save" /\ n \in Find(c.title) /\ note'[n].body = c.arg
    BY <1>9, <2>3 DEF CallFits, Fits
  <2>. QED
    BY <1>4, <1>5, <1>9, <2>1, <2>2, <2>3 DEF Made, EachOwn
<1>10. ASSUME NEW t, NEW j, Fits(t, j), ~(Gives(c, t) /\ Find(t) = {}) PROVE Fits(t, j)'
  <2>1. SUFFICES ASSUME NEW n \in Find(t)' PROVE j = n
    BY DEF Fits
  <2>2. n \in Rows' /\ note'[n].title = t
    BY <2>1 DEF Find
  <2>3. n \in Find(t)
    BY <1>6, <1>7, <1>10, <2>2 DEF Gives
  <2>. QED
    BY <1>10, <2>3 DEF Fits
<1>. QED
  BY <1>2, <1>8, <1>9, <1>10

LEMMA InspectIs ==
  ASSUME EditorTyped, OneEach, NEW t
  PROVE  /\ Inspect(t) \in TextRecords \cup {None}
         /\ EachOwn /\ Inspect(t) # None => Inspect(t).of # 0 /\ Fits(t, Inspect(t).of)
<1>1. CASE Find(t) = {}
  BY <1>1 DEF Inspect
<1>2. CASE Find(t) # {}
  <2>1. PICK n : n = CHOOSE m \in Find(t) : TRUE
    OBVIOUS
  <2>2. n \in Find(t) /\ Inspect(t) = note[n].body
    BY <1>2, <2>1 DEF Inspect
  <2>3. n \in Rows /\ n \in Ids /\ note[n] \in NoteRows
    BY <2>2 DEF Find, Rows, EditorTyped
  <2>4. note[n].body \in TextRecords /\ n # 0
    BY <2>3 DEF NoteRows, Ids
  <2>5. \A m \in Find(t) : m = n
    BY <2>2 DEF Find, OneEach
  <2>. QED
    BY <2>2, <2>3, <2>4, <2>5 DEF EachOwn, Fits
<1>. QED
  BY <1>1, <1>2

(* The call with its answer.                                               *)
Back(c, failed, r) == [c EXCEPT !.back = TRUE, !.failed = failed, !.result = r]
SameCall(c, d)     == d.kind = c.kind /\ d.title = c.title /\ d.arg = c.arg /\ d.seq = c.seq /\ d.place = c.place
                      /\ d.mount = c.mount
AnswerFits(c, r)   == c.kind \in {"load", "fill"} /\ r # None => r.of # 0 /\ Fits(c.title, r.of)
Answers            == TextRecords \cup {None}
Answered(c)        == c.back

LEMMA BackIs ==
  ASSUME NEW c \in CallRecords, NEW failed \in BOOLEAN, NEW r \in Answers, NEW d, d = Back(c, failed, r)
  PROVE  d \in CallRecords /\ SameCall(c, d) /\ Answered(d) /\ (AnswerFits(c, r) => CallFits(d))
<1>1. d = [[[c EXCEPT !.back = TRUE] EXCEPT !.failed = failed] EXCEPT !.result = r]
  BY DEF Back
<1>2. d \in CallRecords /\ SameCall(c, d) /\ d.result = r
  BY <1>1 DEF CallRecords, SameCall, Answers
<1>3. Answered(d)
  BY <1>1 DEF CallRecords, Answered
<1>. QED
  BY <1>2, <1>3 DEF CallFits, AnswerFits, SameCall, Answered

(* One call takes the place of another.                                    *)
LEMMA SwapIs ==
  ASSUME EditorInv, NEW c \in calls, NEW d \in CallRecords, SameCall(c, d), NEW cs, cs = (calls \ {c}) \cup {d}
  PROVE  cs \in SUBSET CallRecords /\ Argued(cs) /\ \A s \in Places : Numbered(cs, s)
<1>1. \A e \in cs : e # d => e \in calls /\ e # c
  OBVIOUS
<1>2. cs \in SUBSET CallRecords
  BY Before
<1>3. Argued(cs)
  BY <1>1, Before DEF Argued, SameCall
<1>4. ASSUME NEW s \in Places PROVE Numbered(cs, s)
  <2>1. Alone(calls, s)
    BY Before DEF Counted
  <2>2. (LoadOf(d, s) => LoadOf(c, s)) /\ \A e : (Twins(d, e) <=> Twins(c, e)) /\ (Twins(e, d) <=> Twins(e, c))
    BY DEF LoadOf, SameCall, Twins
  <2>3. Twins(c, d)
    BY DEF SameCall, Twins
  <2>4. Alone(cs, s)
    BY <1>1, <2>1, <2>2 DEF Alone
  <2>5. \A e \in cs : LoadOf(e, s) => \E f \in calls : LoadOf(f, s) /\ Twins(f, e)
    <3>1. \A e : Twins(e, e)
      BY DEF Twins
    <3>. QED
      BY <1>1, <2>2, <2>3, <3>1
  <2>. QED
    BY <2>4, <2>5 DEF Numbered
<1>. QED
  BY <1>2, <1>3, <1>4

LEMMA SwapsAre ==
  ASSUME EditorInv
  PROVE  \A c \in calls : \A d \in CallRecords : SameCall(c, d) => LET cs == (calls \ {c}) \cup {d} IN
           cs \in SUBSET CallRecords /\ Argued(cs) /\ \A s \in Places : Numbered(cs, s)
BY SwapIs

LEMMA RunFailsKeeps ==
  ASSUME EditorInv, NEW c \in calls, Ended(c, TRUE, None), Spend("event", MaxEvents),
         UNCHANGED <<note, shown, pane, panes, excuse>>
  PROVE  EditorInv'
<1>1. PICK d, cs, r, failed : r = None /\ failed = TRUE /\ d = Back(c, failed, r) /\ cs = (calls \ {c}) \cup {d}
  OBVIOUS
<1>2. calls' = cs
  BY <1>1 DEF Ended, Back
<1>3. r \in Answers /\ failed \in BOOLEAN /\ AnswerFits(c, r) /\ c \in CallRecords
  BY <1>1, Before DEF Answers, AnswerFits
<1>4. d \in CallRecords /\ SameCall(c, d) /\ CallFits(d)
  BY <1>1, <1>3, BackIs
<1>5. cs \in SUBSET CallRecords /\ Argued(cs) /\ \A s \in Places : Numbered(cs, s)
  <2>1. cs = (calls \ {c}) \cup {d} /\ d \in CallRecords /\ SameCall(c, d)
    BY <1>1, <1>4
  <2>. QED
    BY <2>1, SwapIs
<1>6. Clean(excuse') => \A e \in cs : CallFits(e)
  BY <1>1, <1>4, Before
<1>7. used' \in Uses
  BY SpendType
<1>. QED
  BY <1>2, <1>5, <1>6, <1>7, CallsKeep

LEMMA RunEndsKeeps ==
  ASSUME EditorInv, NEW c \in calls, ~Answered(c),
         NEW r, r = (IF c.kind \in Reads THEN Inspect(c.title) ELSE None), Ended(c, Refused(c), r), note' = Effect(c),
         excuse \subseteq excuse', UNCHANGED <<used, shown, pane, panes>>,
         "title taken" \notin excuse' => \A t \in Titles : InHand(t) => ~(Gives(c, t) /\ Find(t) = {})
  PROVE  EditorInv'
<1>1. PICK d, cs, failed : failed = Refused(c) /\ cs = (calls \ {c}) \cup {d} /\ d = Back(c, failed, r)
  OBVIOUS
<1>2. calls' = cs
  BY <1>1 DEF Ended, Back
<1>3. EditorTyped /\ OneEach /\ c \in CallRecords
  BY Before DEF EditorInv
<1>4. r \in Answers /\ (EachOwn => AnswerFits(c, r)) /\ failed \in BOOLEAN
  <2>1. r \in Answers /\ (EachOwn => AnswerFits(c, r))
    BY <1>3, InspectIs DEF Answers, AnswerFits
  <2>2. failed \in BOOLEAN
    BY <1>1 DEF Refused
  <2>. QED
    BY <2>1, <2>2
<1>5. d \in CallRecords /\ SameCall(c, d) /\ Answered(d) /\ (AnswerFits(c, r) => CallFits(d))
  BY <1>1, <1>3, <1>4, BackIs
<1>6. /\ note' \in [Ids -> NoteRows \cup {None}] /\ OneEach'
      /\ EachOwn /\ CallFits(c) /\ ~c.back => EachOwn'
      /\ \A t, k : Fits(t, k) /\ ~(Gives(c, t) /\ Find(t) = {}) => Fits(t, k)'
  BY <1>3, EffectKeeps
<1>7. ASSUME Clean(excuse')
      PROVE  /\ EachOwn' /\ \A e \in cs : CallFits(e)'
             /\ \A s \in Places : pane[s].draft.of # 0 => Fits(pane[s].from, pane[s].draft.of)'
  <2>1. EachOwn /\ (\A s \in Places : DraftFits(pane[s], excuse)) /\ \A e \in calls : CallFits(e)
    BY <1>7, Before DEF EditorInv
  <2>2. \A t \in Titles : InHand(t) => ~(Gives(c, t) /\ Find(t) = {})
    BY <1>7 DEF Clean, Mixing
  <2>3. EachOwn'
    BY <1>6, <2>1 DEF Answered
  <2>4. ASSUME NEW s \in Places, pane[s].draft.of # 0 PROVE Fits(pane[s].from, pane[s].draft.of)'
    <3>1. PICK p : p = pane[s]
      OBVIOUS
    <3>2. p.from \in Titles /\ Fits(p.from, p.draft.of) /\ InHand(p.from)
      BY <2>1, <2>4, <3>1 DEF DraftFits, InHand
    <3>3. Fits(p.from, p.draft.of)'
      BY <1>6, <2>2, <3>2
    <3>4. Fits(pane[s].from, pane[s].draft.of)' = Fits(p.from, p.draft.of)'
      BY <3>1 DEF Fits
    <3>. QED
      BY <3>3, <3>4
  <2>7. ASSUME NEW e \in calls PROVE CallFits(e)'
    <3>1. e.title \in Titles /\ CallFits(e)
      BY <2>1, <2>7, Before DEF CallRecords
    <3>2. CASE e.kind = "save" /\ ~e.back
      <4>1. e.arg.of # 0 /\ Fits(e.title, e.arg.of)
        BY <3>1, <3>2 DEF CallFits
      <4>2. InHand(e.title)
        BY <2>7, <3>2 DEF InHand, Saving
      <4>3. Fits(e.title, e.arg.of)'
        BY <1>6, <2>2, <3>1, <4>1, <4>2
      <4>. QED
        BY <3>2, <4>1, <4>3 DEF CallFits
    <3>3. CASE e.kind \in {"load", "fill"} /\ e.back /\ e.result # None
      <4>1. e.result.of # 0 /\ Fits(e.title, e.result.of)
        BY <3>1, <3>3 DEF CallFits
      <4>2. InHand(e.title)
        BY <2>7, <3>3 DEF InHand
      <4>3. Fits(e.title, e.result.of)'
        BY <1>6, <2>2, <3>1, <4>1, <4>2
      <4>. QED
        BY <3>3, <4>1, <4>3 DEF CallFits
    <3>. QED
      BY <3>2, <3>3 DEF CallFits
  <2>8. CallFits(d)'
    <3>1. CallFits(d)
      BY <1>4, <1>5, <2>1
    <3>2. d.kind \in {"load", "fill"} => \A k : Fits(d.title, k) => Fits(d.title, k)'
      BY <1>5, <1>6 DEF Gives, SameCall
    <3>. QED
      BY <1>5, <3>1, <3>2 DEF CallFits, Answered
  <2>. QED
    BY <1>1, <2>3, <2>4, <2>7, <2>8
<1>8. used' \in Uses
  BY Before
<1>9. cs \in SUBSET CallRecords /\ Argued(cs) /\ \A s \in Places : Numbered(cs, s)
  <2>1. cs = (calls \ {c}) \cup {d} /\ d \in CallRecords /\ SameCall(c, d)
    BY <1>1, <1>5
  <2>. QED
    BY <2>1, SwapsAre
<1>. QED
  BY <1>2, <1>6, <1>7, <1>8, <1>9, NotesKeep

LEMMA RunKeeps == ASSUME EditorInv, NEW c \in calls, Run(c) PROVE EditorInv'
<1>1. CASE Spend("event", MaxEvents) /\ Ended(c, TRUE, None) /\ UNCHANGED <<note, excuse>>
  BY <1>1, RunFailsKeeps DEF Run
<1>2. CASE /\ Ended(c, Refused(c), IF c.kind \in Reads THEN Inspect(c.title) ELSE None)
           /\ note' = Effect(c)
           /\ excuse' = excuse \cup
                Because("load before a save", c.kind \in {"load", "fill"} /\ Saving(c.title)) \cup
                Because("title taken", \E t \in Titles : Gives(c, t) /\ Find(t) = {} /\ InHand(t))
           /\ UNCHANGED used
  <2>1. excuse \subseteq excuse'
    BY <1>2
  <2>2. "title taken" \notin excuse' => \A t \in Titles : InHand(t) => ~(Gives(c, t) /\ Find(t) = {})
    BY <1>2 DEF Because
  <2>3. ~Answered(c) /\ UNCHANGED <<used, shown, pane, panes>>
    BY <1>2 DEF Run, Answered
  <2>4. PICK r : r = IF c.kind \in Reads THEN Inspect(c.title) ELSE None
    OBVIOUS
  <2>5. Ended(c, Refused(c), r) /\ note' = Effect(c)
    BY <1>2, <2>4
  <2>. QED
    BY <2>1, <2>2, <2>3, <2>4, <2>5, RunEndsKeeps
<1>. QED
  BY <1>1, <1>2 DEF Run

(* What is left when a call is gone and others may follow it.              *)
Following(ds) == /\ ds \in SUBSET CallRecords /\ Argued(ds)
                 /\ \A d \in ds : CallFits(d) /\ d.kind # "load"

LEMMA FollowingIs ==
  ASSUME EditorInv, NEW p, NEW c \in calls PROVE Following(Followed(p, c))
<1>1. PICK t, seq, place, mount : t = c.title /\ seq = c.seq /\ place = c.place /\ mount = c.mount
  OBVIOUS
<1>2. t \in Titles /\ seq \in Nat /\ place \in Places \cup {None} /\ mount \in Nat
  BY <1>1, Before DEF CallRecords
<1>3. ASSUME NEW kind \in {"reload", "fill"}, NEW arg \in TextRecords \cup {None}, kind = "reload" => arg \in TextRecords
      PROVE  Following({Call(kind, t, arg, seq, place, mount)})
  <2>1. PICK d : d = Call(kind, t, arg, seq, place, mount)
    OBVIOUS
  <2>2. d \in CallRecords /\ d.kind = kind /\ d.arg = arg /\ Begun(d)
    BY <1>2, <1>3, <2>1 DEF Call, CallRecords, Begun
  <2>. QED
    BY <1>3, <2>1, <2>2 DEF Following, Argued, CallFits, Begun
<1>4. Following({})
  BY DEF Following, Argued
<1>5. CASE ~c.failed /\ c.kind = "save" /\ ~Stale(p, c)
  <2>1. PICK kind, arg : kind = "reload" /\ arg = c.arg
    OBVIOUS
  <2>2. arg \in TextRecords /\ Followed(p, c) = {Call(kind, t, arg, seq, place, mount)}
    BY <1>1, <1>5, <2>1, Before DEF Followed, Argued
  <2>. QED
    BY <1>3, <2>1, <2>2
<1>6. CASE ~c.failed /\ c.kind = "create"
  <2>1. PICK kind, arg : kind = "fill" /\ arg = None
    OBVIOUS
  <2>2. Followed(p, c) = {Call(kind, t, arg, seq, place, mount)}
    BY <1>1, <1>6, <2>1 DEF Followed
  <2>. QED
    BY <1>3, <2>1, <2>2
<1>7. CASE c.failed \/ (c.kind # "create" /\ ~(c.kind = "save" /\ ~Stale(p, c)))
  BY <1>4, <1>7 DEF Followed
<1>. QED
  BY <1>5, <1>6, <1>7

LEMMA RestIs ==
  ASSUME EditorInv, NEW c \in calls, NEW ds, Following(ds), NEW cs, cs = (calls \ {c}) \cup ds
  PROVE  /\ cs \in SUBSET CallRecords /\ Argued(cs) /\ \A s \in Places : Numbered(cs, s)
         /\ \A why : excuse \subseteq why /\ Clean(why) => \A d \in cs : CallFits(d)
         /\ \A s \in Places : LoadOf(c, s) => \A d \in cs : ~(LoadOf(d, s) /\ Twins(c, d))
<1>1. \A d \in cs : (d \in calls /\ d # c) \/ d \in ds
  OBVIOUS
<1>2. cs \in SUBSET CallRecords /\ Argued(cs)
  BY <1>1, Before DEF Argued, Following
<1>3. \A s \in Places : \A d \in cs : LoadOf(d, s) => d \in calls /\ d # c
  BY <1>1 DEF LoadOf, Following
<1>4. \A s \in Places : Numbered(cs, s)
  BY <1>3, FewerNumbered
<1>5. \A s \in Places : LoadOf(c, s) => \A d \in cs : ~(LoadOf(d, s) /\ Twins(c, d))
  <2>1. \A s \in Places : Alone(calls, s)
    BY Before DEF Counted
  <2>. QED
    BY <1>3, <2>1 DEF Alone
<1>6. \A why : excuse \subseteq why /\ Clean(why) => \A d \in cs : CallFits(d)
  BY <1>1, Before DEF Following
<1>. QED
  BY <1>2, <1>4, <1>5, <1>6

(* An answer that nobody waits for.                                        *)
LEMMA DropKeeps ==
  ASSUME EditorInv, NEW c \in calls, calls' = calls \ {c}, UNCHANGED <<note, shown, pane, panes, used>>,
         excuse \subseteq excuse'
  PROVE  EditorInv'
<1>1. PICK ds, cs : ds = {} /\ cs = (calls \ {c}) \cup ds
  OBVIOUS
<1>2. Following(ds) /\ calls' = cs
  BY <1>1 DEF Following, Argued
<1>3. /\ cs \in SUBSET CallRecords /\ Argued(cs) /\ \A s \in Places : Numbered(cs, s)
      /\ Clean(excuse') => \A d \in cs : CallFits(d)
  BY <1>1, <1>2, RestIs
<1>4. used' \in Uses
  BY Before
<1>. QED
  BY <1>2, <1>3, <1>4, CallsKeep

LEMMA NoteCommandKeeps ==
  ASSUME EditorInv, NEW c \in calls, AfterNoteCommand(c, calls \ {c}), UNCHANGED <<note, used, excuse>>
  PROVE  EditorInv'
<1>1. PICK rest : rest = calls \ {c}
  OBVIOUS
<1>2. used' \in Uses /\ rest \in SUBSET calls /\ excuse \subseteq excuse'
  BY <1>1, Before
<1>3. PICK onPage, onSide : onPage = shown.page /\ onSide = shown.side
  OBVIOUS
<1>4. onPage \in MaybeTitle /\ onSide \in MaybeTitle
  BY <1>3 DEF EditorInv, EditorTyped
<1>5. CASE c.failed
  BY <1>5, DropKeeps DEF AfterNoteCommand
<1>6. CASE ~c.failed /\ c.kind = "rename"
  <2>1. PICK page, side : page = (IF onPage = c.title THEN c.arg ELSE onPage) /\ side = (IF onSide = c.title THEN c.arg ELSE onSide)
    OBVIOUS
  <2>2. page \in MaybeTitle /\ side \in MaybeTitle
    BY <1>4, <1>6, <2>1, Before DEF Argued, MaybeTitle
  <2>3. Show(page, side, rest)
    BY <1>1, <1>3, <1>6, <2>1 DEF AfterNoteCommand
  <2>. QED
    BY <1>2, <2>2, <2>3, ShowKeeps
<1>7. CASE ~c.failed /\ c.kind # "rename"
  <2>1. PICK side : side = IF onSide = c.title THEN None ELSE onSide
    OBVIOUS
  <2>2. side \in MaybeTitle
    BY <1>4, <2>1 DEF MaybeTitle
  <2>3. PICK page \in (IF onPage = c.title THEN (Titles \ {c.title}) \cup {None} ELSE {onPage}) : Show(page, side, rest)
    BY <1>1, <1>3, <1>7, <2>1 DEF AfterNoteCommand
  <2>4. page \in MaybeTitle
    BY <1>4, <2>3 DEF MaybeTitle
  <2>. QED
    BY <1>2, <2>2, <2>3, <2>4, ShowKeeps
<1>. QED
  BY <1>5, <1>6, <1>7

(* Why an answer to the note on screen mixes no texts.                     *)
LateLoad(q, c)   == (c.kind = "load" /\ c.seq # q.loads) \/ (c.kind = "fill" /\ c.title # q.title)
LateReload(q, c) == c.kind = "reload" /\ (c.title # q.title \/ c.seq <= q.done)
OldBuffer(q, c)  == c.kind = "fill" /\ (OnScreen(q) \/ q.timer)
Excused(q, c, why) ==
  /\ excuse \subseteq why
  /\ LateLoad(q, c) => "late load" \in why
  /\ LateReload(q, c) => "late reload" \in why
  /\ OldBuffer(q, c) => "old buffer" \in why

(* An answer that the pane takes.                                          *)
Taken(q, p, c, why) ==
  /\ p \in PaneRecords /\ p.title = q.title /\ p.loads = q.loads /\ (p.loading => ~p.timer)
  /\ Clean(why) => DraftFits(p, why) /\ (p.loading = q.loading \/ (c.kind = "load" /\ c.seq = q.loads))
Asking(q, c, s, why) ==
  /\ q = pane[s] /\ q \in PaneRecords /\ q.title # None /\ Counted(calls, q, s, panes[s])
  /\ c \in CallRecords /\ c.place = s /\ c.mount = panes[s] /\ c.back
  /\ Excused(q, c, why)

LEMMA TakeKeeps ==
  ASSUME EditorInv, NEW s \in Places, NEW c \in calls, NEW q, NEW why, Asking(q, c, s, why), NEW p, Taken(q, p, c, why),
         pane' = [pane EXCEPT ![s] = p], NEW ds, Following(ds), calls' = (calls \ {c}) \cup ds,
         UNCHANGED <<note, shown, panes, used>>, excuse' = why
  PROVE  EditorInv'
<1>1. PICK cs, mount : cs = (calls \ {c}) \cup ds /\ mount = panes[s]
  OBVIOUS
<1>2. /\ cs \in SUBSET CallRecords /\ Argued(cs) /\ \A r \in Places : Numbered(cs, r)
      /\ \A w : excuse \subseteq w /\ Clean(w) => \A d \in cs : CallFits(d)
      /\ LoadOf(c, s) => \A d \in cs : ~(LoadOf(d, s) /\ Twins(c, d))
  BY <1>1, RestIs
<1>3. Stands(cs, q, s, mount, why) /\ excuse \subseteq why
  BY <1>1, <1>2, Remains DEF Asking, Excused
<1>4. Counted(cs, p, s, mount)
  BY <1>3 DEF Stands, Counted, Asking, Taken
<1>5. ASSUME Clean(why) PROVE Awaited(cs, p, s, mount) /\ DraftFits(p, why)
  <2>1. Awaited(cs, q, s, mount) /\ DraftFits(p, why) /\ p.loads = q.loads /\ p.title = q.title
    BY <1>3, <1>5 DEF Stands, Taken
  <2>2. CASE p.loading = q.loading
    BY <2>1, <2>2 DEF Awaited
  <2>3. CASE c.kind = "load" /\ c.seq = q.loads
    <3>1. LoadOf(c, s) /\ c.mount = mount
      BY <1>1, <2>3 DEF Asking, LoadOf
    <3>2. \A d \in cs : ~(LoadOf(d, s) /\ d.mount = mount /\ d.seq = p.loads)
      BY <1>2, <2>1, <2>3, <3>1 DEF Twins
    <3>. QED
      BY <2>1, <3>2 DEF Awaited
  <2>. QED
    BY <1>5, <2>2, <2>3 DEF Taken
<1>6. Stands(cs, p, s, panes[s], why)
  BY <1>1, <1>4, <1>5 DEF Stands
<1>7. used' \in Uses /\ p \in PaneRecords
  BY Before DEF Taken
<1>. QED
  BY <1>1, <1>2, <1>3, <1>6, <1>7, OnePaneKeeps

LEMMA FilledIs ==
  ASSUME NEW c \in CallRecords, NEW p \in PaneRecords, NEW q, q = Filled(p, c)
  PROVE  /\ q \in PaneRecords /\ q.title = p.title /\ q.timer = p.timer /\ q.loading = p.loading /\ q.loads = p.loads
         /\ q.from = c.title /\ q.done = q.seq /\ q.last = q.draft /\ q.draft = Body(c) /\ q.data = (c.result # None)
<1>1. Body(c) \in TextRecords
  BY TextType DEF Body, CallRecords
<1>2. PICK body, known : body = Body(c) /\ known = (c.result # None)
  OBVIOUS
<1>3. known \in BOOLEAN /\ body \in TextRecords /\ c.title \in MaybeTitle
  BY <1>1, <1>2 DEF CallRecords, MaybeTitle
<1>4. PICK i : i = [[[p EXCEPT !.data = known] EXCEPT !.draft = body] EXCEPT !.last = body]
  OBVIOUS
<1>5. /\ i \in PaneRecords /\ i.title = p.title /\ i.timer = p.timer /\ i.loading = p.loading /\ i.loads = p.loads
      /\ i.seq = p.seq /\ i.last = body /\ i.draft = body /\ i.data = known /\ p.seq \in Nat
  BY <1>3, <1>4 DEF PaneRecords
<1>6. q = [[i EXCEPT !.from = c.title] EXCEPT !.done = p.seq]
  BY <1>2, <1>4 DEF Filled
<1>7. /\ q \in PaneRecords /\ q.title = i.title /\ q.timer = i.timer /\ q.loading = i.loading /\ q.loads = i.loads
      /\ q.from = c.title /\ q.done = q.seq /\ q.last = i.last /\ q.draft = i.draft /\ q.data = i.data
  BY <1>3, <1>5, <1>6 DEF PaneRecords
<1>. QED
  BY <1>2, <1>5, <1>7

(* The text of an answer fits the title it was asked for.                  *)
LEMMA BodyFits ==
  ASSUME NEW c, CallFits(c), c.kind \in {"load", "fill"}, c.back, c.title \in Titles
  PROVE  /\ Body(c).of # 0 => c.title \in Titles /\ Fits(c.title, Body(c).of)
         /\ Body(c).of = 0 => c.result = None
BY TextType DEF CallFits, Body

LEMMA LoadTaken ==
  ASSUME EditorInv, NEW s \in Places, NEW c \in calls, NEW q, NEW why, Asking(q, c, s, why), c.kind = "load",
         NEW p, p = Loaded(q, c)
  PROVE  Taken(q, p, c, why)
<1>1. ASSUME Clean(why) PROVE c.seq = q.loads /\ ~q.timer /\ DraftFits(q, excuse) /\ CallFits(c)
  <2>1. c.seq = q.loads /\ LoadOf(c, s)
    BY <1>1 DEF Asking, Excused, LateLoad, Clean, Mixing, LoadOf
  <2>2. Awaited(calls, q, s, panes[s]) /\ DraftFits(q, excuse) /\ CallFits(c)
    BY <1>1, Before DEF Asking, Excused
  <2>3. q.loading
    BY <2>1, <2>2 DEF Asking, Awaited
  <2>4. ~q.timer
    BY <2>3 DEF Asking, Counted
  <2>. QED
    BY <2>1, <2>2, <2>4
<1>2. q \in PaneRecords /\ c \in CallRecords /\ c.back /\ excuse \subseteq why
  BY DEF Asking, Excused
<1>3. CASE c.failed
  <2>1. p = [[q EXCEPT !.data = FALSE] EXCEPT !.loading = FALSE]
    BY <1>3 DEF Loaded
  <2>2. /\ p \in PaneRecords /\ p.title = q.title /\ p.timer = q.timer /\ ~p.loading /\ p.loads = q.loads
        /\ p.draft = q.draft /\ p.from = q.from /\ ~p.data /\ p.last = q.last /\ p.seq = q.seq /\ p.done = q.done
    BY <1>2, <2>1 DEF PaneRecords
  <2>3. Clean(why) => DraftFits(p, why)
    BY <1>1, <1>2, <2>2 DEF DraftFits, OnScreen
  <2>. QED
    BY <1>1, <2>2, <2>3 DEF Taken
<1>4. CASE ~c.failed
  <2>1. PICK i : i = Filled(q, c)
    OBVIOUS
  <2>2. /\ i \in PaneRecords /\ i.title = q.title /\ i.timer = q.timer /\ i.loads = q.loads
        /\ i.from = c.title /\ i.done = i.seq /\ i.last = i.draft /\ i.draft = Body(c) /\ i.data = (c.result # None)
    BY <1>2, <2>1, FilledIs
  <2>3. p = [[[i EXCEPT !.editing = FALSE] EXCEPT !.error = FALSE] EXCEPT !.loading = FALSE]
    BY <1>4, <2>1 DEF Loaded
  <2>4. /\ p \in PaneRecords /\ p.title = q.title /\ p.timer = q.timer /\ ~p.loading /\ ~p.editing /\ p.loads = q.loads
        /\ p.from = c.title /\ p.done = p.seq /\ p.last = p.draft /\ p.draft = Body(c) /\ p.data = (c.result # None)
    BY <2>2, <2>3 DEF PaneRecords
  <2>5. ASSUME Clean(why) PROVE DraftFits(p, why)
    <3>1. CallFits(c) /\ ~q.timer
      BY <1>1, <2>5
    <3>2. (Body(c).of # 0 => c.title \in Titles /\ Fits(c.title, Body(c).of)) /\ (Body(c).of = 0 => c.result = None)
      BY <1>2, <3>1, BodyFits DEF CallRecords
    <3>. QED
      BY <2>4, <3>1, <3>2 DEF DraftFits, OnScreen
  <2>. QED
    BY <1>1, <2>4, <2>5 DEF Taken
<1>. QED
  BY <1>3, <1>4

LEMMA FillTaken ==
  ASSUME EditorInv, NEW s \in Places, NEW c \in calls, NEW q, NEW why, Asking(q, c, s, why), c.kind = "fill",
         NEW p, p = Mounted(q, Filled(q, c))
  PROVE  Taken(q, p, c, why)
<1>1. q \in PaneRecords /\ c \in CallRecords /\ c.back /\ excuse \subseteq why /\ Counted(calls, q, s, panes[s])
  BY DEF Asking, Excused
<1>2. PICK i : i = Filled(q, c)
  OBVIOUS
<1>3. /\ i \in PaneRecords /\ i.title = q.title /\ i.timer = q.timer /\ i.loading = q.loading /\ i.loads = q.loads
      /\ i.from = c.title /\ i.done = i.seq /\ i.last = i.draft /\ i.draft = Body(c) /\ i.data = (c.result # None)
  BY <1>1, <1>2, FilledIs
<1>4. i \in PaneRecords /\ p = Mounted(q, i)
  BY <1>2, <1>3
<1>5. /\ p \in PaneRecords /\ p.title = i.title /\ p.timer = i.timer /\ p.loading = i.loading /\ p.loads = i.loads
      /\ p.draft = i.draft /\ p.from = i.from /\ p.data = i.data /\ p.last = i.last /\ p.seq = i.seq /\ p.done = i.done
  BY <1>4, MountedIs
<1>6. ~OnScreen(q) => (OnScreen(p) => p.buffer = p.draft)
  BY <1>4, MountedIs
<1>7. ASSUME Clean(why) PROVE DraftFits(p, why)
  <2>1. ~OnScreen(q) /\ ~q.timer
    BY <1>7 DEF Asking, Excused, OldBuffer, Clean, Mixing
  <2>2. CallFits(c)
    BY <1>1, <1>7, Before
  <2>3. (Body(c).of # 0 => c.title \in Titles /\ Fits(c.title, Body(c).of)) /\ (Body(c).of = 0 => c.result = None)
    BY <1>1, <2>2, BodyFits DEF CallRecords
  <2>4. p.draft = Body(c) /\ p.from = c.title /\ ~p.timer /\ p.last = p.draft /\ p.done = p.seq /\ p.data = (c.result # None)
    BY <1>3, <1>5, <2>1
  <2>5. OnScreen(p) => p.buffer = p.draft
    BY <1>6, <2>1
  <2>. QED
    BY <2>3, <2>4, <2>5 DEF DraftFits
<1>8. p.loading = q.loading /\ (p.loading => ~p.timer) /\ p.title = q.title /\ p.loads = q.loads
  BY <1>1, <1>3, <1>5 DEF Counted
<1>. QED
  BY <1>5, <1>7, <1>8 DEF Taken

LEMMA ReloadTaken ==
  ASSUME EditorInv, NEW s \in Places, NEW c \in calls, NEW q, NEW why, Asking(q, c, s, why), c.kind = "reload", ~Stale(q, c),
         NEW p, p = Mounted(q, Reloaded(q, c))
  PROVE  Taken(q, p, c, why)
<1>1. q \in PaneRecords /\ c \in CallRecords /\ excuse \subseteq why /\ Counted(calls, q, s, panes[s]) /\ c.arg \in TextRecords
  BY Before DEF Asking, Excused, Argued
<1>2. PICK i, known : i = Reloaded(q, c) /\ known = (c.result # None)
  OBVIOUS
<1>3. i = [[[[q EXCEPT !.data = known] EXCEPT !.last = c.arg] EXCEPT !.done = c.seq] EXCEPT !.error = FALSE]
  BY <1>2 DEF Reloaded
<1>4. /\ i \in PaneRecords /\ i.title = q.title /\ i.timer = q.timer /\ i.loading = q.loading /\ i.loads = q.loads
      /\ i.from = q.from /\ i.draft = q.draft /\ i.buffer = q.buffer
  <2>1. known \in BOOLEAN /\ c.seq \in Nat
    BY <1>1, <1>2 DEF CallRecords
  <2>. QED
    BY <1>1, <1>3, <2>1 DEF PaneRecords
<1>5. i \in PaneRecords /\ p = Mounted(q, i)
  BY <1>2, <1>4
<1>6. /\ p \in PaneRecords /\ p.title = i.title /\ p.timer = i.timer /\ p.loading = i.loading /\ p.loads = i.loads
      /\ p.draft = i.draft /\ p.from = i.from
      /\ (OnScreen(q) => i.buffer = i.draft) /\ OnScreen(p) => p.buffer = p.draft
  BY <1>5, MountedIs
<1>7. p.loading = q.loading /\ (p.loading => ~p.timer) /\ p.title = q.title /\ p.loads = q.loads
  BY <1>1, <1>4, <1>6 DEF Counted
<1>8. ASSUME Clean(why) PROVE DraftFits(p, why)
  <2>1. DraftFits(q, excuse)
    BY <1>1, <1>8, Before DEF Asking
  <2>2. q.draft.of = 0 => "late reload" \in why
    <3>1. q.draft.of = 0 /\ "late reload" \notin why => q.done = q.seq
      BY <1>1, <2>1 DEF DraftFits
    <3>2. c.seq = q.seq /\ c.seq \in Nat
      BY <1>1 DEF Stale, CallRecords
    <3>3. "late reload" \notin why => ~(c.seq <= q.done)
      BY DEF Asking, Excused, LateReload
    <3>4. q.done = q.seq => c.seq <= q.done
      BY <3>2
    <3>. QED
      BY <3>1, <3>3, <3>4
  <2>3. p.draft = q.draft /\ p.from = q.from /\ p.timer = q.timer /\ p.title = q.title
    BY <1>4, <1>6
  <2>4. OnScreen(p) => p.buffer = p.draft
    BY <1>4, <1>6, <2>1 DEF DraftFits
  <2>. QED
    BY <2>1, <2>2, <2>3, <2>4 DEF DraftFits
<1>. QED
  BY <1>6, <1>7, <1>8 DEF Taken

(* An answer that at most shows an error.                                  *)
LEMMA StayTaken ==
  ASSUME EditorInv, NEW s \in Places, NEW c \in calls, NEW q, NEW why, Asking(q, c, s, why),
         NEW p, p = q \/ p = [q EXCEPT !.error = TRUE]
  PROVE  Taken(q, p, c, why)
<1>1. q \in PaneRecords /\ Counted(calls, q, s, panes[s]) /\ excuse \subseteq why
  BY DEF Asking, Excused
<1>2. /\ p \in PaneRecords /\ p.title = q.title /\ p.loads = q.loads /\ p.loading = q.loading /\ p.timer = q.timer
      /\ p.draft = q.draft /\ p.buffer = q.buffer /\ p.from = q.from /\ p.data = q.data /\ p.editing = q.editing
      /\ p.last = q.last /\ p.seq = q.seq /\ p.done = q.done
  BY <1>1 DEF PaneRecords
<1>3. p.loading => ~p.timer
  BY <1>1, <1>2 DEF Counted
<1>4. ASSUME Clean(why) PROVE DraftFits(p, why)
  <2>1. DraftFits(q, excuse)
    BY <1>1, <1>4, Before DEF Asking
  <2>. QED
    BY <1>1, <1>2, <2>1 DEF DraftFits, OnScreen
<1>. QED
  BY <1>2, <1>3, <1>4 DEF Taken

LEMMA PaneCommandKeeps ==
  ASSUME EditorInv, NEW c \in calls, c.back, Reaches(c), AfterPaneCommand(c, calls \ {c}), UNCHANGED <<note, used>>
  PROVE  EditorInv'
<1>1. PICK s, q, why, ds : s = c.place /\ q = pane[s] /\ why = excuse' /\ ds = Followed(q, c)
  OBVIOUS
<1>2. s \in Places /\ c \in CallRecords /\ c.kind \in {"load", "save", "reload", "create", "fill"}
  BY <1>1, Before DEF Reaches, CallRecords, Argued
<1>3. Excused(q, c, why)
  BY <1>1 DEF AfterPaneCommand, Excused, LateLoad, LateReload, OldBuffer, Because
<1>4. Asking(q, c, s, why)
  BY <1>1, <1>2, <1>3, Before DEF Asking, Reaches
<1>5. calls' = (calls \ {c}) \cup ds /\ UNCHANGED <<shown, panes>>
  BY <1>1 DEF AfterPaneCommand
<1>6. PICK p : p = CASE c.kind = "load"               -> Loaded(q, c)
                     [] c.kind \in {"save", "reload"} -> AfterSave(q, c)
                     [] c.kind \in {"create", "fill"} -> AfterCreate(q, c)
  OBVIOUS
<1>7. pane' = [pane EXCEPT ![s] = p]
  BY <1>1, <1>6 DEF AfterPaneCommand
<1>8. Taken(q, p, c, why)
  <2>1. CASE c.kind = "load"
    <3>1. p = Loaded(q, c)
      BY <1>6, <2>1
    <3>. QED
      BY <1>2, <1>4, <2>1, <3>1, LoadTaken
  <2>2. CASE c.kind \in {"save", "reload"}
    <3>1. p = AfterSave(q, c)
      BY <1>6, <2>2
    <3>2. CASE ~c.failed /\ c.kind = "reload" /\ ~Stale(q, c)
      BY <1>2, <1>4, <3>1, <3>2, ReloadTaken DEF AfterSave
    <3>3. CASE c.failed \/ ~(c.kind = "reload" /\ ~Stale(q, c))
      <4>1. p = q \/ p = [q EXCEPT !.error = TRUE]
        BY <3>1, <3>3 DEF AfterSave
      <4>. QED
        BY <1>2, <1>4, <4>1, StayTaken
    <3>. QED
      BY <3>2, <3>3
  <2>3. CASE c.kind \in {"create", "fill"}
    <3>1. p = AfterCreate(q, c)
      BY <1>6, <2>3
    <3>2. CASE c.kind = "fill" /\ ~c.failed
      BY <1>2, <1>4, <3>1, <3>2, FillTaken DEF AfterCreate
    <3>3. CASE ~(c.kind = "fill" /\ ~c.failed)
      BY <1>2, <1>4, <3>1, <3>3, StayTaken DEF AfterCreate
    <3>. QED
      BY <3>2, <3>3
  <2>. QED
    BY <1>2, <2>1, <2>2, <2>3
<1>9. Following(ds)
  BY <1>1, FollowingIs
<1>10. EditorInv /\ UNCHANGED <<note, shown, panes, used>> /\ excuse' = why
  BY <1>1, <1>5
<1>. QED
  BY <1>2, <1>4, <1>5, <1>7, <1>8, <1>9, <1>10, TakeKeeps

LEMMA AnswerKeeps == ASSUME EditorInv, NEW c \in calls, Answer(c) PROVE EditorInv'
<1>1. c.back /\ UNCHANGED <<note, used>>
  BY DEF Answer
<1>2. CASE c.place = None /\ AfterNoteCommand(c, calls \ {c}) /\ UNCHANGED excuse
  BY <1>1, <1>2, NoteCommandKeeps
<1>3. CASE Reaches(c) /\ AfterPaneCommand(c, calls \ {c})
  BY <1>1, <1>3, PaneCommandKeeps
<1>4. CASE calls' = calls \ {c} /\ UNCHANGED <<shown, pane, panes, excuse>>
  BY <1>1, <1>4, DropKeeps
<1>. QED
  BY <1>2, <1>3, <1>4 DEF Answer

(* At the start the notes are there, and the pane waits for its first load.*)
LEMMA EditorInitially == EditorInit => EditorInv
<1> SUFFICES ASSUME EditorInit PROVE EditorInv
  OBVIOUS
<1>1. PICK first : first = SetToSeq(InitialNotes)
  OBVIOUS
<1>2. PICK size : size = Cardinality(InitialNotes)
  OBVIOUS
<1>3. size \in Nat /\ size <= MaxNotes /\ size # 0 /\ MaxNotes \in Nat
  BY <1>2, FS_CardinalityType, FS_EmptySet, NoteEditorAssumption
<1>4. first \in [1..size -> InitialNotes] /\ \A i, j \in 1..size : first[i] = first[j] => i = j
  <2>1. \E f \in [1..size -> InitialNotes] : IsInjective(f)
    <3>1. IsFiniteSet(InitialNotes)
      BY NoteEditorAssumption
    <3>2. ExistsBijection(1..size, InitialNotes)
      BY <1>2, <3>1, FS_CardinalityType
    <3>. QED
      BY <3>2 DEF ExistsBijection, Bijection, Injection
  <2>2. first \in [1..size -> InitialNotes] /\ IsInjective(first)
    BY <1>1, <1>2, <2>1 DEF SetToSeq
  <2>. QED
    BY <2>2 DEF IsInjective
<1>5. Len(first) = size
  <2>1. first \in Seq(InitialNotes) /\ DOMAIN first = 1..size
    BY <1>3, <1>4
  <2>. QED
    BY <1>3, <2>1
<1>6. PICK t, p, c : t = first[1] /\ p = Retitled(Closed, t) /\ c = Call("load", t, None, 1, "page", 1)
  OBVIOUS
<1>7. /\ note = [n \in Ids |-> IF n <= size THEN [title |-> first[n], body |-> Text(n, 0)] ELSE None]
      /\ pane = [page |-> p, side |-> Closed] /\ panes = [page |-> 1, side |-> 0] /\ calls = {c} /\ excuse = {}
      /\ shown = [page |-> t, side |-> None] /\ used = [what \in {"edit", "move", "event"} |-> 0]
  BY <1>1, <1>5, <1>6 DEF EditorInit
<1>8. \A n \in Ids : n <= size => n \in 1..size /\ first[n] \in Titles
  BY <1>3, <1>4, NoteEditorAssumption DEF Ids
<1>9. \A n \in Ids : n <= size => /\ note[n] \in NoteRows /\ note[n].title = first[n] /\ note[n].body.of = n
  <2>1. \A n \in Ids : Text(n, 0) \in TextRecords /\ Text(n, 0).of = n
    BY TextType
  <2>. QED
    BY <1>7, <1>8, <2>1 DEF NoteRows
<1>10. note \in [Ids -> NoteRows \cup {None}] /\ \A n \in Rows : n \in Ids /\ n <= size
  <2>1. \A n \in Ids : ~(n <= size) => note[n] = None
    BY <1>7
  <2>2. \A n \in Ids : note[n] \in NoteRows \cup {None}
    BY <1>9, <2>1
  <2>3. note \in [Ids -> NoteRows \cup {None}]
    BY <1>7, <2>2
  <2>. QED
    BY <2>1, <2>3 DEF Rows
<1>11. OneEach /\ EachOwn
  <2>1. \A n \in Rows : n \in 1..size /\ note[n].title = first[n] /\ note[n].body.of = n
    BY <1>8, <1>9, <1>10
  <2>. QED
    BY <1>4, <2>1 DEF OneEach, EachOwn
<1>12. t \in Titles
  BY <1>3, <1>4, <1>6, NoteEditorAssumption
<1>13. PICK q : q = Closed
  OBVIOUS
<1>14. /\ q \in PaneRecords /\ q.title = None /\ q.draft.of = 0 /\ q.last.of = 0 /\ ~q.data /\ ~q.timer /\ ~q.loading
       /\ q.done = q.seq /\ q.loads = 0
  BY <1>13, ClosedIs
<1>15. /\ p \in PaneRecords /\ p.title = t /\ Waiting(p) /\ p.loads = 1 /\ p.draft.of = 0 /\ p.last.of = 0
       /\ p.data = q.data /\ p.done = p.seq
  BY <1>6, <1>12, <1>13, <1>14, RetitledIs
<1>16. c \in CallRecords /\ c.kind = "load" /\ c.seq = 1 /\ c.place = "page" /\ c.mount = 1 /\ ~c.back
  BY <1>6, <1>12 DEF Call, CallRecords, Places
<1>17. /\ pane \in [Places -> PaneRecords] /\ pane["page"] = p /\ pane["side"] = q
       /\ panes \in [Places -> Nat] /\ panes["page"] = 1
  BY <1>7, <1>13, <1>14, <1>15 DEF Places
<1>18. EditorTyped
  <2>1. used \in Uses
    BY <1>7 DEF Uses
  <2>2. shown.page \in MaybeTitle /\ shown.side \in MaybeTitle
    BY <1>7, <1>12 DEF MaybeTitle
  <2>3. calls \in SUBSET CallRecords /\ Argued(calls)
    BY <1>7, <1>16 DEF Argued
  <2>. QED
    BY <1>10, <1>17, <2>1, <2>2, <2>3 DEF EditorTyped
<1>19. Stands(calls, p, "page", 1, excuse)
  <2>1. \A d \in calls : d = c
    BY <1>7
  <2>2. Alone(calls, "page")
    BY <2>1 DEF Alone
  <2>3. Counted(calls, p, "page", 1)
    BY <1>12, <1>15, <1>16, <2>1, <2>2, NoteEditorAssumption DEF Counted, Waiting
  <2>4. Awaited(calls, p, "page", 1)
    BY <1>15 DEF Awaited, Waiting
  <2>5. DraftFits(p, excuse)
    BY <1>14, <1>15 DEF DraftFits, OnScreen, Waiting
  <2>. QED
    BY <2>3, <2>4, <2>5 DEF Stands
<1>20. Stands(calls, q, "side", panes["side"], excuse)
  <2>1. \A d \in calls : ~LoadOf(d, "side")
    BY <1>7, <1>16 DEF LoadOf
  <2>2. Counted(calls, q, "side", panes["side"]) /\ Awaited(calls, q, "side", panes["side"])
    BY <1>14, <2>1 DEF Counted, Alone, Awaited
  <2>3. DraftFits(q, excuse)
    BY <1>14 DEF DraftFits, OnScreen
  <2>. QED
    BY <2>2, <2>3 DEF Stands
<1>21. \A s \in Places : Stands(calls, pane[s], s, panes[s], excuse)
  BY <1>17, <1>19, <1>20 DEF Places
<1>22. \A d \in calls : CallFits(d)
  BY <1>7, <1>16 DEF CallFits
<1>. QED
  BY <1>11, <1>18, <1>21, <1>22 DEF EditorInv

LEMMA EditorKept == EditorInv /\ [EditorNext]_editorVars => EditorInv'
<1> SUFFICES ASSUME EditorInv, [EditorNext]_editorVars PROVE EditorInv'
  OBVIOUS
<1>1. CASE UNCHANGED editorVars
  <2>1. PICK cs : cs = calls
    OBVIOUS
  <2>2. /\ UNCHANGED <<note, shown, pane, panes, calls, used>> /\ excuse \subseteq excuse'
        /\ Clean(excuse') => \A c \in cs : CallFits(c)
    BY <1>1, <2>1, Before DEF editorVars
  <2>3. cs \in SUBSET CallRecords /\ Argued(cs) /\ (\A s \in Places : Numbered(cs, s)) /\ used' \in Uses
    BY <2>1, <2>2, Before, FewerNumbered
  <2>. QED
    BY <2>1, <2>2, <2>3, CallsKeep
<1>2. CASE excuse = {} /\ EditorUser
  BY <1>2, UserKeeps, AppendKeeps
<1>3. CASE \E s \in Places : Timer(s)
  BY <1>3, TimerKeeps
<1>4. CASE \E c \in calls : Run(c) \/ Answer(c)
  BY <1>4, RunKeeps, AnswerKeeps
<1>. QED
  BY <1>1, <1>2, <1>3, <1>4 DEF EditorNext

(* A pane keeps its timer, its saves and the answers to its loads apart    *)
(* from those of the note before and of the other pane (InspectorPane.tsx):*)
(* whatever the user does, in one pane or two, and in whatever order       *)
(* commands run and are answered, no note ends up with the text of         *)
(* another, but for the orders named in Mixing.                            *)
THEOREM TextsStay == EditorSpec => []OwnText
<1>1. EditorInit => EditorInv
  BY EditorInitially
<1>2. EditorInv /\ [EditorNext]_editorVars => EditorInv'
  BY EditorKept
<1>3. EditorInv => OwnText
  BY DEF EditorInv, EachOwn, OwnText, Mixed, Clean
<1>. QED
  BY <1>1, <1>2, <1>3, PTL DEF EditorSpec
=============================================================================
