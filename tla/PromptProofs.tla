---------------------------- MODULE PromptProofs ----------------------------
(***************************************************************************)
(* What the model is asked and what its calls may do, for every set of     *)
(* agents, capabilities and every length of turn: the three tables of the  *)
(* tools agree, the turn keeps the capabilities it began with, and every   *)
(* request is a conversation a chat template accepts, with all the user's  *)
(* words (the second half, from UpTo on).                                  *)
(***************************************************************************)
EXTENDS Prompt, TLAPS, SequenceTheorems, WellFoundedInduction

(* Offered tools are tools: no capability offers a name beyond the table.  *)
LEMMA OfferedAreTools ==
  ASSUME NEW C \in SUBSET Capabilities
  PROVE  Offered(C) \subseteq Tools
  BY DEF Offered, Tools

(* The gate lets pass only what was offered.                               *)
LEMMA GateWithinOffer ==
  ASSUME NEW C \in SUBSET Capabilities, NEW a \in Tools, Passes(a, C)
  PROVE  a \in Offered(C)
<1>1. CASE a \in VaultTools
  BY <1>1 DEF Offered
<1>2. CASE a \notin VaultTools
  <2>1. PICK c \in Capabilities : a \in OfferedFor(c)
    BY <1>2 DEF Tools, Offered
  <2>2. CapForAction(a) = c
    BY <2>1 DEF OfferedFor, CapForAction, Capabilities
  <2>3. c \in C
    BY <2>2 DEF Passes, Capabilities
  <2> QED  BY <2>1, <2>3 DEF Offered
<1> QED  BY <1>1, <1>2

(* The gate lets pass everything that was offered.                         *)
LEMMA OfferWithinGate ==
  ASSUME NEW C \in SUBSET Capabilities, NEW a \in Offered(C)
  PROVE  Passes(a, C)
<1>1. CASE a \in VaultTools
  BY <1>1 DEF VaultTools, Passes, CapForAction
<1>2. CASE a \notin VaultTools
  <2>1. PICK c \in C : a \in OfferedFor(c)
    BY <1>2 DEF Offered
  <2>2. CapForAction(a) = c
    BY <2>1 DEF OfferedFor, CapForAction, Capabilities
  <2> QED  BY <2>2 DEF Passes
<1> QED  BY <1>1, <1>2

(* The parser takes every tool that carries what its schema requires, but  *)
(* for delete_event.                                                       *)
LEMMA ParserWithinSchema ==
  ASSUME NEW a \in Tools, NEW args, SchemaRequired(a) \subseteq args,
         a = "delete_event" => args \cap {"id", "title"} # {}
  PROVE  FromFunctionCall(a, args)
  BY DEF FromFunctionCall, SchemaRequired

-----------------------------------------------------------------------------
(* The settings keep their types, and a turn that runs has the             *)
(* capabilities it began with.                                             *)
SettingsInv ==
  /\ caps \in [Agents -> SUBSET Capabilities]
  /\ room \in Seq(Agents)
  /\ override \in Agents \cup {Nobody}

GateInv ==
  /\ surface = granted /\ surface \in SUBSET Capabilities
  /\ astray = {}

IInv == SettingsInv /\ GateInv

LEMMA RoomIsAgents ==
  ASSUME room \in Seq(Agents)
  PROVE  /\ Range(room) \subseteq Agents
         /\ \A i \in DOMAIN room : RemoveAt(room, i) \in Seq(Agents)
<1>1. Range(room) \subseteq Agents
  BY DEF Range
<1>2. ASSUME NEW i \in DOMAIN room PROVE RemoveAt(room, i) \in Seq(Agents)
  <2>1. SubSeq(room, 1, i - 1) \in Seq(Agents)
    BY <1>2, SubSeqProperties
  <2>2. SubSeq(room, i + 1, Len(room)) \in Seq(Agents)
    BY <1>2, SubSeqProperties
  <2> QED  BY <2>1, <2>2, ConcatProperties DEF RemoveAt
<1> QED  BY <1>1, <1>2

(* The speaker is one of the agents, or nobody.                            *)
LEMMA ResolvedIsAgent ==
  ASSUME SettingsInv
  PROVE  Resolved \in Agents \cup {Nobody}
<1>1. room # << >> => room[1] \in Agents
  BY DEF SettingsInv
<1> QED  BY <1>1, RoomIsAgents DEF SettingsInv, Resolved

(* A refused call is one that was not offered, or lacks what it needs.     *)
LEMMA RejectedAsGranted ==
  ASSUME GateInv, NEW a \in Tools \cup {"make_coffee"}, NEW args, ~FromFunctionCall(a, args)
  PROVE  AsGranted(a, args, "rejected", "error")
<1>1. ASSUME a \in Offered(granted), SchemaRequired(a) \subseteq args
      PROVE  a = "delete_event" /\ args \cap {"id", "title"} = {}
  BY <1>1, OfferedAreTools, ParserWithinSchema DEF GateInv
<1> QED  BY <1>1 DEF AsGranted

(* A call that is carried out, or denied, has what the speaker was granted. *)
LEMMA PerformedAsGranted ==
  ASSUME GateInv, NEW a \in Tools \cup {"make_coffee"}, NEW args, FromFunctionCall(a, args),
         NEW outcome \in IF Passes(a, surface) THEN {"done", "failed"} ELSE {"denied"}
  PROVE  AsGranted(a, args, outcome,
                   CASE outcome = "denied" -> "denied"
                     [] outcome = "failed" /\ a \notin Silent -> "error"
                     [] OTHER -> "ok")
<1>0. a \in Tools
  BY DEF FromFunctionCall
<1>1. CASE Passes(a, surface)
  <2>1. a \in Offered(granted) /\ CapForAction(a) \in granted \cup {"none"}
    BY <1>0, <1>1, GateWithinOffer DEF GateInv, Passes
  <2> QED  BY <1>1, <2>1 DEF AsGranted
<1>2. CASE ~Passes(a, surface)
  <2>1. a \notin Offered(granted)
    BY <1>2, OfferWithinGate DEF GateInv
  <2> QED  BY <1>2, <2>1 DEF AsGranted
<1> QED  BY <1>1, <1>2

(* IInv holds at first ...                                                 *)
LEMMA InitIInv == Init => IInv
  BY PromptAssumption DEF Init, IInv, SettingsInv, GateInv, Nobody

(* ... and every step keeps it.                                            *)
LEMMA NextIInv == IInv /\ [Next]_vars => IInv'
<1> SUFFICES ASSUME IInv, [Next]_vars PROVE IInv'
  OBVIOUS
<1> USE DEF IInv, settings, turnVars, loop, bounds
<1>1. CASE Send
  BY <1>1, RoomIsAgents DEF Send, SettingsInv, GateInv, Nobody
<1>2. CASE Plan
  BY <1>2 DEF Plan, SettingsInv, GateInv
<1>3. CASE Greet
  BY <1>3 DEF Greet, SettingsInv, GateInv
<1>4. CASE Prepare
  <2>1. surface' \in SUBSET Capabilities
    BY <1>4, ResolvedIsAgent DEF Prepare, SettingsInv
  <2>2. surface' = granted' /\ astray' = {} /\ override' = Nobody /\ UNCHANGED <<caps, room>>
    BY <1>4 DEF Prepare
  <2> QED  BY <2>1, <2>2 DEF SettingsInv, GateInv
<1>5. CASE Ask
  BY <1>5 DEF Ask, SettingsInv, GateInv
<1>6. CASE Answer
  BY <1>6 DEF Answer, SettingsInv, GateInv
<1>7. CASE Stop
  BY <1>7 DEF Stop, SettingsInv, GateInv
<1>8. CASE Fail
  BY <1>8 DEF Fail, SettingsInv, GateInv
<1>9. CASE Call
  <2>0. PICK a \in Tools \cup {"make_coffee"} :
          \E args \in Arguments(a) : Reject(a, args) \/ Perform(a, args)
    BY <1>9 DEF Call
  <2>1. PICK args \in Arguments(a) : Reject(a, args) \/ Perform(a, args)
    BY <2>0
  <2>2. astray' = {}
    <3>1. CASE Reject(a, args)
      BY <3>1, RejectedAsGranted DEF Reject, Judged, GateInv
    <3>2. CASE Perform(a, args)
      BY <3>2, PerformedAsGranted DEF Perform, Judged, GateInv
    <3> QED  BY <2>1, <3>1, <3>2
  <2>3. UNCHANGED <<caps, room, override, surface, granted>>
    BY <1>9 DEF Call
  <2> QED  BY <2>2, <2>3 DEF SettingsInv, GateInv
<1>10. CASE Again
  BY <1>10 DEF Again, SettingsInv, GateInv
<1>11. CASE SaveReply
  BY <1>11 DEF SaveReply, SettingsInv, GateInv
<1>12. CASE Done
  BY <1>12 DEF Done, Idle, SettingsInv, GateInv
<1>13. CASE EditAgent
  BY <1>13, PromptAssumption DEF EditAgent, SettingsInv, GateInv
<1>14. CASE LeaveRoom
  BY <1>14, RoomIsAgents DEF LeaveRoom, SettingsInv, GateInv
<1>15. CASE Restart
  BY <1>15, PromptAssumption DEF Restart, Idle, SettingsInv, GateInv
<1>16. CASE UNCHANGED vars
  BY <1>16 DEF vars, SettingsInv, GateInv
<1> QED  BY <1>1, <1>2, <1>3, <1>4, <1>5, <1>6, <1>7, <1>8, <1>9, <1>10, <1>11, <1>12,
            <1>13, <1>14, <1>15, <1>16 DEF Next

(* For every set of agents and capabilities and every course of the turns: *)
(* no call takes effect beyond what its speaker was granted, none that was *)
(* offered is refused, no refusal is reported as done (tools.rs execute).  *)
THEOREM ToolsSafety == Spec => []ToolsFollowCapabilities
<1>1. IInv => ToolsFollowCapabilities
  BY DEF IInv, GateInv, ToolsFollowCapabilities
<1> QED  BY InitIInv, NextIInv, <1>1, PTL DEF Spec

-----------------------------------------------------------------------------
(* Sequences and recursion.                                                *)

(* A property of numbers that holds at 0, and at each one if it holds at   *)
(* the one before, holds up to n: as the set of the numbers that have it.  *)
LEMMA UpTo ==
  ASSUME NEW n \in Nat, NEW P, 0 \in P, \A i \in 1..n : i - 1 \in P => i \in P
  PROVE  \A i \in 0..n : i \in P
<1> SUFFICES ASSUME NEW k \in 0..n, k \notin P PROVE FALSE
  OBVIOUS
<1> DEFINE Rest == (0..n) \ P
<1>1. Rest \subseteq Nat /\ k \in Rest
  OBVIOUS
<1>2. PICK m \in Rest : \A i \in Rest : <<i, m>> \notin OpToRel(<, Nat)
  BY <1>1, WFMin, NatLessThanWellFounded
<1>3. OpToRel(<, Nat) = {ss \in Nat \X Nat : ss[1] < ss[2]}
  BY DEF OpToRel
<1>4. \A i \in Rest : ~(i < m)
  BY <1>1, <1>2, <1>3
<1>5. m \in 0..n /\ m \notin P /\ m # 0
  BY <1>2
<1>6. m \in 1..n /\ m - 1 \in 0..n /\ m - 1 < m
  BY <1>5
<1>7. m - 1 \in Rest
  BY <1>5, <1>6
<1> QED  BY <1>4, <1>6, <1>7

(* A recursive function over 0..n exists: its steps are those of next.     *)
Steps(g, n, first, next) == \A i \in 0..n : g[i] = IF i = 0 THEN first ELSE next[i][g[i - 1]]

LEMMA Recursion ==
  ASSUME NEW R, NEW n \in Nat, NEW first \in R, NEW next \in [1..n -> [R -> R]]
  PROVE  \E g \in [0..n -> R] : Steps(g, n, first, next)
<1> DEFINE P == {m \in 0..n : \E g \in [0..m -> R] : Steps(g, m, first, next)}
<1>1. 0 \in P
  <2> DEFINE g == [i \in 0..0 |-> first]
  <2>1. g \in [0..0 -> R] /\ Steps(g, 0, first, next)
    BY DEF Steps
  <2> HIDE DEF g
  <2> QED  BY <2>1
<1>2. ASSUME NEW m \in 1..n, m - 1 \in P PROVE m \in P
  <2>1. PICK g \in [0..(m - 1) -> R] : Steps(g, m - 1, first, next)
    BY <1>2
  <2> DEFINE h == [i \in 0..m |-> IF i = m THEN next[m][g[m - 1]] ELSE g[i]]
  <2>2. g[m - 1] \in R /\ next[m] \in [R -> R]
    OBVIOUS
  <2>3. h \in [0..m -> R]
    BY <2>2
  <2>4. Steps(h, m, first, next)
    BY <2>1 DEF Steps
  <2> HIDE DEF h
  <2> QED  BY <2>3, <2>4
<1> HIDE DEF P
<1>3. \A i \in 0..n : i \in P
  BY <1>1, <1>2, UpTo
<1>4. n \in P
  BY <1>3
<1> QED  BY <1>4 DEF P

(* Concat by its beginnings.                                               *)
Begins(u, ss, S) ==
  /\ u \in [0..Len(ss) -> Seq(S)]
  /\ u[0] = << >> /\ \A i \in 1..Len(ss) : u[i] = u[i - 1] \o ss[i]

LEMMA ConcatIs ==
  ASSUME NEW S, NEW ss \in Seq(Seq(S))
  PROVE  /\ Concat(ss) \in Seq(S)
         /\ \E u : Begins(u, ss, S) /\ Concat(ss) = u[Len(ss)]
<1> DEFINE n == Len(ss)
           R == Seq(S)
           next == [i \in 1..n |-> [r \in R |-> r \o ss[i]]]
           upto == CHOOSE u : u = [i \in 0..n |-> IF i = 0 THEN << >> ELSE u[i - 1] \o ss[i]]
<1>1. n \in Nat /\ << >> \in R /\ \A i \in 1..n : ss[i] \in R
  OBVIOUS
<1>2. \A r, t \in R : r \o t \in R
  OBVIOUS
<1> HIDE DEF R
<1>3. next \in [1..n -> [R -> R]]
  BY <1>1, <1>2
<1>4. PICK g \in [0..n -> R] : Steps(g, n, << >>, next)
  <2> HIDE DEF next, n
  <2> QED  BY <1>1, <1>3, Recursion
<1>5. ASSUME NEW i \in 0..n, i # 0
      PROVE  i \in 1..n /\ g[i - 1] \in R /\ next[i][g[i - 1]] = g[i - 1] \o ss[i]
  <2>1. i \in 1..n /\ i - 1 \in 0..n
    BY <1>1, <1>5
  <2>2. g[i - 1] \in R
    BY <2>1
  <2> QED  BY <2>1, <2>2
<1>6. \A i \in 0..n : g[i] = IF i = 0 THEN << >> ELSE g[i - 1] \o ss[i]
  <2> HIDE DEF next
  <2> QED  BY <1>4, <1>5 DEF Steps
<1>7. g = [i \in 0..n |-> IF i = 0 THEN << >> ELSE g[i - 1] \o ss[i]]
  BY <1>6
<1>8. upto = [i \in 0..n |-> IF i = 0 THEN << >> ELSE upto[i - 1] \o ss[i]]
  BY <1>7
<1>9. Concat(ss) = upto[n]
  BY DEF Concat
<1> HIDE DEF upto, next
<1>10. \A i \in 0..n : upto[i] \in R
  <2> DEFINE P == {i \in 0..n : upto[i] \in R}
  <2>1. 0 \in P
    BY <1>1, <1>8
  <2>2. ASSUME NEW i \in 1..n, i - 1 \in P PROVE i \in P
    <3>1. i \in 0..n /\ i # 0
      BY <1>1
    <3>2. upto[i] = upto[i - 1] \o ss[i]
      BY <1>8, <3>1
    <3>3. upto[i - 1] \in R /\ ss[i] \in R
      BY <1>1, <2>2
    <3> QED  BY <3>1, <3>2, <3>3, <1>2
  <2> HIDE DEF P
  <2>3. \A i \in 0..n : i \in P
    BY <1>1, <2>1, <2>2, UpTo
  <2> QED  BY <2>3 DEF P
<1>11. upto \in [0..n -> R]
  <2>1. DOMAIN upto = 0..n
    BY <1>8
  <2>2. upto = [i \in 0..n |-> upto[i]]
    BY <1>8
  <2> QED  BY <2>2, <1>10
<1>12. upto[0] = << >> /\ \A i \in 1..n : upto[i] = upto[i - 1] \o ss[i]
  <2>1. 0 \in 0..n /\ \A i \in 1..n : i \in 0..n /\ i # 0
    BY <1>1
  <2> HIDE DEF n
  <2> QED  BY <1>8, <2>1
<1> QED  BY <1>1, <1>9, <1>10, <1>11, <1>12 DEF Begins, R

LEMMA ConcatNone == Concat(<< >>) = << >>
<1>1. << >> \in Seq(Seq({}))
  OBVIOUS
<1>2. PICK u : Begins(u, << >>, {}) /\ Concat(<< >>) = u[Len(<< >>)]
  BY <1>1, ConcatIs
<1> QED  BY <1>2 DEF Begins

(* One sequence more.                                                      *)
LEMMA ConcatMore ==
  ASSUME NEW S, NEW ss \in Seq(Seq(S)), NEW tt \in Seq(Seq(S)), Len(tt) = Len(ss) + 1,
         \A i \in 1..Len(ss) : tt[i] = ss[i]
  PROVE  Concat(tt) = Concat(ss) \o tt[Len(tt)]
<1> DEFINE n == Len(ss)
<1>1. n \in Nat /\ Len(tt) = n + 1
  OBVIOUS
<1>2. PICK u : Begins(u, ss, S) /\ Concat(ss) = u[n]
  BY ConcatIs
<1>3. PICK v : Begins(v, tt, S) /\ Concat(tt) = v[n + 1]
  BY ConcatIs, <1>1
<1> DEFINE P == {i \in 0..n : u[i] = v[i]}
<1>4. 0 \in P
  BY <1>1, <1>2, <1>3 DEF Begins
<1>5. ASSUME NEW i \in 1..n, i - 1 \in P PROVE i \in P
  <2>1. i \in 1..Len(tt) /\ i \in 0..n
    BY <1>1
  <2>2. u[i] = u[i - 1] \o ss[i]
    BY <1>2 DEF Begins
  <2>3. v[i] = v[i - 1] \o tt[i]
    BY <2>1, <1>3 DEF Begins
  <2> QED  BY <1>5, <2>1, <2>2, <2>3
<1> HIDE DEF P
<1>6. n \in P
  <2>1. \A i \in 0..n : i \in P
    <3> HIDE DEF n
    <3> QED  BY <1>1, <1>4, <1>5, UpTo
  <2> QED  BY <1>1, <2>1
<1>7. v[n + 1] = v[n] \o tt[n + 1]
  <2>1. n + 1 \in 1..Len(tt) /\ (n + 1) - 1 = n
    BY <1>1
  <2>2. v[n + 1] = v[(n + 1) - 1] \o tt[n + 1]
    BY <1>3, <2>1 DEF Begins
  <2> QED  BY <2>1, <2>2
<1> QED  BY <1>1, <1>2, <1>3, <1>6, <1>7 DEF P

-----------------------------------------------------------------------------
(* Messages.                                                               *)
RowType == [role : {"user", "agent"}, word : Int, size : Nat, tools : BOOLEAN]
MsgType == [role : {"system", "user", "assistant", "tool"}, words : Seq(Int), calls : Nat,
            answers : Nat]

(* What a message adds to the user's words.                                *)
Own(m) == IF m.role = "user" THEN m.words ELSE << >>

LEMMA WordsJoin ==
  ASSUME NEW a \in Seq(Int), NEW b \in Seq(Int), NEW c \in Seq(Int)
  PROVE  (a \o b) \o c = a \o (b \o c)
  BY ConcatAssociative

LEMMA IsSeq ==
  ASSUME NEW S, NEW n \in Nat, NEW f \in [1..n -> S]
  PROVE  f \in Seq(S) /\ Len(f) = n
  OBVIOUS

(* A message with another role, or with words of another behind its own.   *)
LEMMA MsgChanged ==
  ASSUME NEW m \in MsgType
  PROVE  /\ m.words \in Seq(Int)
         /\ [m EXCEPT !.role = m.role] = m
         /\ \A role \in {"system", "user", "assistant", "tool"} : [m EXCEPT !.role = role] \in MsgType
         /\ \A l \in MsgType :
              /\ Joined(l, m) \in MsgType
              /\ Joined(l, m).role = l.role /\ Joined(l, m).calls = l.calls
              /\ Joined(l, m).words = l.words \o m.words
<1>1. m.words \in Seq(Int) /\ [m EXCEPT !.role = m.role] = m
  BY DEF MsgType
<1>2. \A role \in {"system", "user", "assistant", "tool"} : [m EXCEPT !.role = role] \in MsgType
  BY DEF MsgType
<1>3. ASSUME NEW l \in MsgType
      PROVE  /\ Joined(l, m) \in MsgType
             /\ Joined(l, m).role = l.role /\ Joined(l, m).calls = l.calls
             /\ Joined(l, m).words = l.words \o m.words
  <2>1. PICK w : w = l.words \o m.words
    OBVIOUS
  <2>2. w \in Seq(Int)
    <3>1. l.words \in Seq(Int)
      BY DEF MsgType
    <3> QED  BY <1>1, <2>1, <3>1, ConcatProperties
  <2>3. Joined(l, m) = [l EXCEPT !.words = w]
    BY <2>1 DEF Joined
  <2> QED  BY <2>1, <2>2, <2>3 DEF MsgType
<1> QED  BY <1>1, <1>2, <1>3

LEMMA OwnTyped ==
  ASSUME NEW s \in Seq(MsgType)
  PROVE  /\ \A i \in DOMAIN s : Own(s[i]) \in Seq(Int)
         /\ [i \in DOMAIN s |-> Own(s[i])] \in Seq(Seq(Int))
         /\ UserWords(s) = Concat([i \in DOMAIN s |-> Own(s[i])])
         /\ UserWords(s) \in Seq(Int)
<1>1. ASSUME NEW i \in 1..Len(s) PROVE Own(s[i]) \in Seq(Int)
  <2>1. s[i] \in MsgType
    OBVIOUS
  <2>2. << >> \in Seq(Int) /\ s[i].words \in Seq(Int)
    BY <2>1 DEF MsgType
  <2> QED  BY <2>2 DEF Own
<1>2. [i \in 1..Len(s) |-> Own(s[i])] \in Seq(Seq(Int))
  <2> DEFINE t == [i \in 1..Len(s) |-> Own(s[i])]
  <2>1. Len(s) \in Nat /\ t \in [1..Len(s) -> Seq(Int)]
    BY <1>1
  <2> HIDE DEF t
  <2>2. t \in Seq(Seq(Int))
    BY <2>1, IsSeq
  <2> QED  BY <2>2 DEF t
<1>3. UserWords(s) = Concat([i \in DOMAIN s |-> Own(s[i])])
  BY DEF UserWords, Own
<1>4. DOMAIN s = 1..Len(s)
  OBVIOUS
<1>5. UserWords(s) \in Seq(Int)
  BY <1>2, <1>3, <1>4, ConcatIs
<1> QED  BY <1>1, <1>2, <1>3, <1>4, <1>5

LEMMA NoWords == UserWords(<< >>) = << >>
<1>1. [i \in DOMAIN << >> |-> Own(<< >>[i])] = << >>
  OBVIOUS
<1>2. UserWords(<< >>) = Concat([i \in DOMAIN << >> |-> Own(<< >>[i])])
  BY DEF UserWords, Own
<1> QED  BY <1>1, <1>2, ConcatNone

LEMMA WordsMore ==
  ASSUME NEW s \in Seq(MsgType), NEW m \in MsgType
  PROVE  UserWords(Append(s, m)) = UserWords(s) \o Own(m)
<1> DEFINE t == Append(s, m)
           ss == [i \in DOMAIN s |-> Own(s[i])]
           tt == [i \in DOMAIN t |-> Own(t[i])]
<1>1. t \in Seq(MsgType) /\ Len(t) = Len(s) + 1 /\ DOMAIN t = 1..Len(t) /\ DOMAIN s = 1..Len(s)
      /\ Len(s) \in Nat /\ t[Len(t)] = m /\ \A i \in 1..Len(s) : t[i] = s[i]
  OBVIOUS
<1> HIDE DEF t
<1>2. ss \in Seq(Seq(Int)) /\ tt \in Seq(Seq(Int))
  BY <1>1, OwnTyped
<1>3. Len(ss) = Len(s) /\ Len(tt) = Len(s) + 1 /\ \A i \in 1..Len(s) : ss[i] = Own(s[i])
  BY <1>1
<1>4. \A i \in 1..Len(s) : tt[i] = ss[i]
  <2> SUFFICES ASSUME NEW i \in 1..Len(s) PROVE tt[i] = ss[i]
    OBVIOUS
  <2>1. i \in DOMAIN t /\ t[i] = s[i]
    BY <1>1
  <2> QED  BY <1>3, <2>1
<1>5. tt[Len(tt)] = Own(m)
  <2>1. Len(tt) \in DOMAIN t /\ t[Len(tt)] = m
    BY <1>1, <1>3
  <2> QED  BY <2>1
<1> HIDE DEF ss, tt
<1>6. Concat(tt) = Concat(ss) \o tt[Len(tt)]
  BY <1>2, <1>3, <1>4, ConcatMore
<1>7. UserWords(s) = Concat(ss) /\ UserWords(t) = Concat(tt)
  BY <1>1, OwnTyped DEF ss, tt
<1> QED  BY <1>5, <1>6, <1>7 DEF t

(* How many messages of a role lead: it is determined.                     *)
LEMMA LeadingIs ==
  ASSUME NEW role, NEW s \in Seq(MsgType), NEW n \in 0..Len(s),
         \A i \in 1..n : s[i].role = role, n < Len(s) => s[n + 1].role # role
  PROVE  Leading(role, s) = n
<1>1. ASSUME NEW k \in 0..Len(s), \A i \in 1..k : s[i].role = role,
             k < Len(s) => s[k + 1].role # role
      PROVE  k = n
  <2>1. ~(k < n)
    <3> SUFFICES ASSUME k < n PROVE FALSE
      OBVIOUS
    <3>1. k + 1 \in 1..n /\ k < Len(s)
      OBVIOUS
    <3> QED  BY <1>1, <3>1
  <2>2. ~(n < k)
    <3> SUFFICES ASSUME n < k PROVE FALSE
      OBVIOUS
    <3>1. n + 1 \in 1..k /\ n < Len(s)
      OBVIOUS
    <3> QED  BY <1>1, <3>1
  <2> QED  BY <2>1, <2>2
<1> QED  BY <1>1 DEF Leading

(* A number up to which all hold, and the next does not.                   *)
LEMMA LongestRun ==
  ASSUME NEW n \in Nat, NEW G
  PROVE  \E k \in 0..n : (\A i \in 1..k : i \in G) /\ (k < n => k + 1 \notin G)
<1> DEFINE Bad == (1..n) \ G
<1>1. CASE Bad = {}
  <2>1. n \in 0..n /\ \A i \in 1..n : i \in G
    BY <1>1
  <2> QED  BY <2>1
<1>2. CASE Bad # {}
  <2>1. Bad \subseteq Nat
    OBVIOUS
  <2>2. PICK m \in Bad : \A i \in Bad : <<i, m>> \notin OpToRel(<, Nat)
    <3> HIDE DEF Bad
    <3> QED  BY <1>2, <2>1, WFMin, NatLessThanWellFounded
  <2>3. OpToRel(<, Nat) = {ss \in Nat \X Nat : ss[1] < ss[2]}
    BY DEF OpToRel
  <2>4. \A i \in Bad : ~(i < m)
    BY <2>1, <2>2, <2>3
  <2>5. m \in 1..n /\ m \notin G /\ m - 1 \in 0..n /\ (m - 1) + 1 = m
    OBVIOUS
  <2>6. \A i \in 1..(m - 1) : i \in G
    <3> SUFFICES ASSUME NEW i \in 1..(m - 1), i \notin G PROVE FALSE
      OBVIOUS
    <3>1. i \in 1..n /\ i < m
      BY <2>5
    <3> QED  BY <2>4, <3>1
  <2> QED  BY <2>5, <2>6
<1> QED  BY <1>1, <1>2

LEMMA LeadingExists ==
  ASSUME NEW role, NEW s \in Seq(MsgType)
  PROVE  /\ Leading(role, s) \in 0..Len(s)
         /\ \A i \in 1..Leading(role, s) : s[i].role = role
         /\ Leading(role, s) < Len(s) => s[Leading(role, s) + 1].role # role
<1> DEFINE G == {i \in 1..Len(s) : s[i].role = role}
<1>1. PICK k \in 0..Len(s) : (\A i \in 1..k : i \in G) /\ (k < Len(s) => k + 1 \notin G)
  <2>1. Len(s) \in Nat
    OBVIOUS
  <2> HIDE DEF G
  <2> QED  BY <2>1, LongestRun
<1>2. (\A i \in 1..k : s[i].role = role) /\ (k < Len(s) => s[k + 1].role # role)
  BY <1>1
<1>3. Leading(role, s) = k
  BY <1>2, LeadingIs
<1> QED  BY <1>2, <1>3

-----------------------------------------------------------------------------
(* The walk of normalize_role_alternation.                                 *)
LEMMA WalkTyped ==
  ASSUME NEW out \in Seq(MsgType), NEW m \in MsgType
  PROVE  Walk(out, m) \in Seq(MsgType)
<1> DEFINE role == IF m.role = "assistant" THEN "assistant" ELSE "user"
<1>1. Append(out, m) \in Seq(MsgType)
  OBVIOUS
<1>2. Append(out, [m EXCEPT !.role = role]) \in Seq(MsgType)
  <2>1. [m EXCEPT !.role = role] \in MsgType
    BY MsgChanged
  <2> QED  BY <2>1
<1>3. ASSUME out # << >> PROVE [out EXCEPT ![Len(out)] = Joined(@, m)] \in Seq(MsgType)
  <2>1. Len(out) \in 1..Len(out) /\ out[Len(out)] \in MsgType
    BY <1>3
  <2>2. Joined(out[Len(out)], m) \in MsgType
    BY <2>1, MsgChanged
  <2> QED  BY <2>1, <2>2, ExceptSeq
<1> QED  BY <1>1, <1>2, <1>3 DEF Walk

Trail(g, head, s) ==
  /\ g \in [0..Len(s) -> Seq(MsgType)]
  /\ g[0] = head /\ \A i \in 1..Len(s) : g[i] = Walk(g[i - 1], s[i])

LEMMA WalkedIs ==
  ASSUME NEW head \in Seq(MsgType), NEW s \in Seq(MsgType)
  PROVE  \E g : Trail(g, head, s) /\ Walked(head, s) = g[Len(s)]
<1> DEFINE n == Len(s)
           R == Seq(MsgType)
           next == [i \in 1..n |-> [r \in R |-> Walk(r, s[i])]]
           out == CHOOSE u : u = [i \in 0..n |-> IF i = 0 THEN head ELSE Walk(u[i - 1], s[i])]
<1>1. n \in Nat /\ head \in R /\ \A i \in 1..n : s[i] \in MsgType
  OBVIOUS
<1>2. \A r \in R, m \in MsgType : Walk(r, m) \in R
  BY WalkTyped
<1> HIDE DEF R
<1>3. next \in [1..n -> [R -> R]]
  BY <1>1, <1>2
<1>4. PICK g \in [0..n -> R] : Steps(g, n, head, next)
  <2> HIDE DEF next, n
  <2> QED  BY <1>1, <1>3, Recursion
<1>5. ASSUME NEW i \in 0..n, i # 0
      PROVE  i \in 1..n /\ g[i - 1] \in R /\ next[i][g[i - 1]] = Walk(g[i - 1], s[i])
  <2>1. i \in 1..n /\ i - 1 \in 0..n
    BY <1>1, <1>5
  <2>2. g[i - 1] \in R
    BY <2>1
  <2> QED  BY <2>1, <2>2
<1>6. \A i \in 0..n : g[i] = IF i = 0 THEN head ELSE Walk(g[i - 1], s[i])
  <2> HIDE DEF next
  <2> QED  BY <1>4, <1>5 DEF Steps
<1>7. g = [i \in 0..n |-> IF i = 0 THEN head ELSE Walk(g[i - 1], s[i])]
  BY <1>6
<1>8. out = [i \in 0..n |-> IF i = 0 THEN head ELSE Walk(out[i - 1], s[i])]
  BY <1>7
<1>9. Walked(head, s) = out[n]
  BY DEF Walked
<1> HIDE DEF out, next
<1>10. \A i \in 0..n : out[i] \in R
  <2> DEFINE P == {i \in 0..n : out[i] \in R}
  <2>1. 0 \in P
    BY <1>1, <1>8
  <2>2. ASSUME NEW i \in 1..n, i - 1 \in P PROVE i \in P
    <3>1. i \in 0..n /\ i # 0
      BY <1>1
    <3>2. out[i] = Walk(out[i - 1], s[i])
      BY <1>8, <3>1
    <3>3. out[i - 1] \in R /\ s[i] \in MsgType
      BY <1>1, <2>2
    <3> QED  BY <3>1, <3>2, <3>3, <1>2
  <2> HIDE DEF P
  <2>3. \A i \in 0..n : i \in P
    BY <1>1, <2>1, <2>2, UpTo
  <2> QED  BY <2>3 DEF P
<1>11. out \in [0..n -> R]
  <2>1. DOMAIN out = 0..n
    BY <1>8
  <2>2. out = [i \in 0..n |-> out[i]]
    BY <1>8
  <2> QED  BY <2>2, <1>10
<1>12. out[0] = head /\ \A i \in 1..n : out[i] = Walk(out[i - 1], s[i])
  <2>1. 0 \in 0..n /\ \A i \in 1..n : i \in 0..n /\ i # 0
    BY <1>1
  <2> HIDE DEF n
  <2> QED  BY <1>8, <2>1
<1> QED  BY <1>9, <1>11, <1>12 DEF Trail, R

(* A text that joins or follows: the user's words go on.                   *)
LEMMA WalkWords ==
  ASSUME NEW out \in Seq(MsgType), NEW m \in MsgType, Plain(m), m.role \in {"user", "assistant"}
  PROVE  UserWords(Walk(out, m)) = UserWords(out) \o Own(m)
<1>1. CASE out # << >> /\ Plain(Last(out)) /\ Last(out).role = m.role
  <2> DEFINE n == Len(out)
             l == out[n]
             f == SubSeq(out, 1, n - 1)
             j == Joined(l, m)
  <2>1. n \in Nat /\ n >= 1 /\ l \in MsgType /\ Last(out) = l
    BY <1>1 DEF Last
  <2>2. j \in MsgType /\ j.role = l.role /\ j.words = l.words \o m.words
    BY <2>1, MsgChanged
  <2>3. Walk(out, m) = [out EXCEPT ![n] = j]
    BY <1>1 DEF Walk
  <2>4. f \in Seq(MsgType) /\ Len(f) = n - 1 /\ \A i \in 1..(n - 1) : f[i] = out[i]
    <3>1. \A i \in 1..(n - 1) : out[i] \in MsgType
      BY <2>1
    <3>2. n - 1 \in Int /\ (1 <= n - 1 => (n - 1) - 1 + 1 = n - 1) /\ (~(1 <= n - 1) => n - 1 = 0)
      <4> HIDE DEF n, l
      <4> QED  BY <2>1
    <3>3. f \in Seq(MsgType) /\ Len(f) = IF 1 <= n - 1 THEN (n - 1) - 1 + 1 ELSE 0
      BY <3>1, <3>2, SubSeqProperties
    <3>4. \A i \in 1..((n - 1) - 1 + 1) : f[i] = out[1 + i - 1]
      BY <3>1, <3>2, SubSeqProperties
    <3> HIDE DEF f
    <3> QED  BY <2>1, <3>2, <3>3, <3>4
  <2>5. out = Append(f, l)
    <3>1. Append(f, l) \in Seq(MsgType) /\ Len(Append(f, l)) = n
      BY <2>1, <2>4
    <3>2. \A i \in 1..n : out[i] = Append(f, l)[i]
      BY <2>1, <2>4
    <3> HIDE DEF f, l
    <3> QED  BY <3>1, <3>2, SeqEqual
  <2>6. [out EXCEPT ![n] = j] = Append(f, j)
    <3>1. Append(f, j) \in Seq(MsgType) /\ Len(Append(f, j)) = n
      BY <2>1, <2>2, <2>4
    <3>2. [out EXCEPT ![n] = j] \in Seq(MsgType) /\ Len([out EXCEPT ![n] = j]) = n
      BY <2>1, <2>2, ExceptSeq
    <3>3. \A i \in 1..n : [out EXCEPT ![n] = j][i] = Append(f, j)[i]
      BY <2>1, <2>4
    <3> HIDE DEF f, j
    <3> QED  BY <3>1, <3>2, <3>3, SeqEqual
  <2>7. Own(j) = Own(l) \o Own(m) /\ Own(l) \in Seq(Int) /\ Own(m) \in Seq(Int)
    <3>1. j.role = l.role /\ l.role = m.role /\ j.words = l.words \o m.words
      BY <1>1, <2>1, <2>2
    <3>2. l.words \in Seq(Int) /\ m.words \in Seq(Int) /\ << >> \in Seq(Int) /\ << >> \o << >> = << >>
      BY <2>1 DEF MsgType
    <3> QED  BY <3>1, <3>2 DEF Own
  <2>8. UserWords(Append(f, j)) = UserWords(f) \o Own(j) /\ UserWords(out) = UserWords(f) \o Own(l)
        /\ UserWords(f) \in Seq(Int)
    <3> HIDE DEF f, j, l
    <3> QED  BY <2>1, <2>2, <2>4, <2>5, WordsMore, OwnTyped
  <2> HIDE DEF f, j, l
  <2>9. UserWords(Walk(out, m)) = UserWords(f) \o (Own(l) \o Own(m))
    BY <2>3, <2>6, <2>7, <2>8
  <2>10. (UserWords(f) \o Own(l)) \o Own(m) = UserWords(f) \o (Own(l) \o Own(m))
    BY <2>7, <2>8, WordsJoin
  <2> QED  BY <2>8, <2>9, <2>10
<1>2. CASE ~(out # << >> /\ Plain(Last(out)) /\ Last(out).role = m.role)
  <2>1. [m EXCEPT !.role = m.role] = m
    BY DEF MsgType
  <2>2. Walk(out, m) = Append(out, m)
    BY <1>2, <2>1 DEF Walk
  <2> QED  BY <2>2, WordsMore
<1> QED  BY <1>1, <1>2

-----------------------------------------------------------------------------
LEMMA DropIs ==
  ASSUME NEW s \in Seq(MsgType), NEW n \in 0..Len(s)
  PROVE  /\ Drop(s, n) \in Seq(MsgType) /\ Len(Drop(s, n)) = Len(s) - n
         /\ \A i \in 1..(Len(s) - n) : Drop(s, n)[i] = s[n + i]
<1> DEFINE l == Len(s)
           d == SubSeq(s, n + 1, l)
<1>1. l \in Nat /\ n \in Nat /\ n <= l /\ n + 1 \in Int /\ l \in Int
  OBVIOUS
<1>2. \A i \in (n + 1)..l : s[i] \in MsgType
  OBVIOUS
<1> HIDE DEF l
<1>3. d \in Seq(MsgType) /\ Len(d) = (IF n + 1 <= l THEN l - (n + 1) + 1 ELSE 0)
      /\ \A i \in 1..(l - (n + 1) + 1) : d[i] = s[(n + 1) + i - 1]
  BY <1>1, <1>2, SubSeqProperties
<1> HIDE DEF d
<1>4. Len(d) = l - n /\ l - (n + 1) + 1 = l - n
  BY <1>1, <1>3
<1>5. ASSUME NEW i \in 1..(l - n) PROVE d[i] = s[n + i]
  <2>1. (n + 1) + i - 1 = n + i
    BY <1>1
  <2> QED  BY <1>3, <1>4, <2>1
<1>6. Drop(s, n) = d
  BY DEF Drop, d, l
<1> QED  BY <1>3, <1>4, <1>5, <1>6 DEF l

(* The user's words of a beginning, one message longer.                    *)
LEMMA WordsUpTo ==
  ASSUME NEW h \in Seq(MsgType)
  PROVE  /\ UserWords(SubSeq(h, 1, 0)) = << >>
         /\ UserWords(SubSeq(h, 1, Len(h))) = UserWords(h)
         /\ \A j \in 1..Len(h) :
              /\ UserWords(SubSeq(h, 1, j)) = UserWords(SubSeq(h, 1, j - 1)) \o Own(h[j])
              /\ UserWords(SubSeq(h, 1, j - 1)) \in Seq(Int)
<1>1. SubSeq(h, 1, 0) = << >>
  BY SubSeqEmpty
<1>2. SubSeq(h, 1, Len(h)) = h
  BY SubSeqFull
<1>3. ASSUME NEW j \in 1..Len(h)
      PROVE  /\ UserWords(SubSeq(h, 1, j)) = UserWords(SubSeq(h, 1, j - 1)) \o Own(h[j])
             /\ UserWords(SubSeq(h, 1, j - 1)) \in Seq(Int)
  <2> DEFINE f == SubSeq(h, 1, j - 1)
             t == SubSeq(h, 1, j)
  <2>1. j \in Nat /\ j >= 1 /\ h[j] \in MsgType /\ j - 1 \in Int
        /\ (\A i \in 1..j : h[i] \in MsgType) /\ (\A i \in 1..(j - 1) : h[i] \in MsgType)
    OBVIOUS
  <2>2. f \in Seq(MsgType) /\ Len(f) = (IF 1 <= j - 1 THEN (j - 1) - 1 + 1 ELSE 0)
        /\ \A i \in 1..((j - 1) - 1 + 1) : f[i] = h[1 + i - 1]
    BY <2>1, SubSeqProperties
  <2>3. t \in Seq(MsgType) /\ Len(t) = (IF 1 <= j THEN j - 1 + 1 ELSE 0)
        /\ \A i \in 1..(j - 1 + 1) : t[i] = h[1 + i - 1]
    BY <2>1, SubSeqProperties
  <2> HIDE DEF f, t
  <2>4. Len(f) = j - 1 /\ Len(t) = j
    BY <2>1, <2>2, <2>3
  <2>5. (\A i \in 1..(j - 1) : f[i] = h[i]) /\ (\A i \in 1..j : t[i] = h[i])
    BY <2>1, <2>2, <2>3
  <2>6. Append(f, h[j]) \in Seq(MsgType) /\ Len(Append(f, h[j])) = j
        /\ \A i \in 1..j : Append(f, h[j])[i] = t[i]
    <3>1. PICK e : e = h[j]
      OBVIOUS
    <3>2. Append(f, e) \in Seq(MsgType) /\ Len(Append(f, e)) = j
      BY <2>1, <2>2, <2>4, <3>1
    <3>3. \A i \in 1..j : Append(f, e)[i] = IF i = j THEN e ELSE f[i]
      BY <2>1, <2>2, <2>4, <3>1
    <3>4. \A i \in 1..j : i # j => i \in 1..(j - 1)
      BY <2>1
    <3>5. \A i \in 1..j : (IF i = j THEN e ELSE f[i]) = t[i]
      BY <2>5, <3>1, <3>4
    <3> QED  BY <3>1, <3>2, <3>3, <3>5
  <2>7. t = Append(f, h[j])
    BY <2>3, <2>4, <2>6, SeqEqual
  <2> QED  BY <2>1, <2>2, <2>7, WordsMore, OwnTyped DEF f, t
<1> QED  BY <1>1, <1>2, <1>3, NoWords

-----------------------------------------------------------------------------
(* The history as the window sends it: texts of user and agents, and the   *)
(* user's new one, w, at the end.                                          *)
Sent(h, w) ==
  /\ h \in Seq(MsgType) /\ h # << >>
  /\ \A i \in 1..Len(h) : h[i].role \in {"user", "assistant"} /\ h[i].calls = 0
  /\ h[Len(h)].role = "user" /\ h[Len(h)].words = <<w>>

(* The prompt before the first request.                                    *)
Fresh(ms, h) ==
  /\ ms \in Seq(MsgType) /\ Len(ms) = Len(h) + 1
  /\ ms[1].role = "system" /\ ms[1].calls = 0
  /\ \A i \in 1..Len(h) : ms[i + 1] = h[i]

(* A conversation that has been normalised, but for the results that calls *)
(* are owed.                                                               *)
Shape(ms) ==
  /\ ms \in Seq(MsgType) /\ Len(ms) >= 2
  /\ ms[1].role = "system" /\ ms[2].role = "user"
  /\ \A i \in 2..Len(ms) : ms[i].role \in {"user", "assistant", "tool"}
  /\ \A i \in 1..(Len(ms) - 1) : Plain(ms[i]) /\ Plain(ms[i + 1]) => ms[i].role # ms[i + 1].role
  /\ \A i \in 1..Len(ms) : ms[i].role = "tool" =>
       i > ms[i].answers /\ ms[i - ms[i].answers].calls >= ms[i].answers

Answered(ms, i) ==
  \A j \in 1..ms[i].calls : i + j \in 1..Len(ms) /\ ms[i + j].role = "tool" /\ ms[i + j].answers = j

Whole(ms) == Shape(ms) /\ \A i \in 1..Len(ms) : Answered(ms, i)

LEMMA WholeAccepted ==
  ASSUME NEW ms, Whole(ms)
  PROVE  TemplateAccepts(ms)
<1>1. ms \in Seq(MsgType) /\ Len(ms) >= 2 /\ DOMAIN ms = 1..Len(ms) /\ Len(ms) \in Nat
  BY DEF Whole, Shape
<1>2. \A i \in DOMAIN ms : ms[i].role = "system" => i = 1
  BY <1>1 DEF Whole, Shape
<1>3. Leading("system", ms) = 1
  <2>1. 1 \in 0..Len(ms) /\ (\A i \in 1..1 : ms[i].role = "system") /\ ms[1 + 1].role # "system"
    BY <1>1 DEF Whole, Shape
  <2> QED  BY <1>1, <2>1, LeadingIs
<1>4. Leading("system", ms) + 1 \in DOMAIN ms /\ ms[Leading("system", ms) + 1].role = "user"
  BY <1>1, <1>3 DEF Whole, Shape
<1> QED  BY <1>1, <1>2, <1>4 DEF Whole, Shape, Answered, TemplateAccepts

(* One leading system message stays as it is.                              *)
LEMMA SystemsOne ==
  ASSUME NEW ms \in Seq(MsgType), Leading("system", ms) = 1, ms # << >>
  PROVE  Systems(ms) = <<ms[1]>>
<1> DEFINE ws == [i \in 1..1 |-> ms[i].words]
<1>1. ms[1] \in MsgType /\ ms[1].words \in Seq(Int)
  <2>1. ms[1] \in MsgType
    OBVIOUS
  <2> QED  BY <2>1, MsgChanged
<1>2. ws \in Seq(Seq(Int)) /\ Len(ws) = 1 /\ ws[1] = ms[1].words
  <2>1. ws \in [1..1 -> Seq(Int)] /\ ws[1] = ms[1].words
    BY <1>1
  <2> HIDE DEF ws
  <2>2. ws \in Seq(Seq(Int)) /\ Len(ws) = 1
    BY <2>1, IsSeq
  <2> QED  BY <2>1, <2>2
<1> HIDE DEF ws
<1>3. Concat(ws) = Concat(<< >>) \o ws[Len(ws)]
  <2>1. PICK e : e = << >>
    OBVIOUS
  <2>2. e \in Seq(Seq(Int)) /\ Len(e) = 0 /\ Len(ws) = Len(e) + 1
    BY <1>2, <2>1
  <2>3. \A i \in 1..Len(e) : ws[i] = e[i]
    BY <2>2
  <2> QED  BY <1>2, <2>1, <2>2, <2>3, ConcatMore
<1>4. Concat(ws) = ms[1].words
  BY <1>1, <1>2, <1>3, ConcatNone, ConcatEmptySeq
<1>5. [ms[1] EXCEPT !.words = ms[1].words] = ms[1]
  BY <1>1 DEF MsgType
<1> QED  BY <1>4, <1>5 DEF Systems, ws

(* A conversation that is whole goes to the model as it is.                *)
LEMMA NormalizeWhole ==
  ASSUME NEW ms, Whole(ms)
  PROVE  NormalizeRoleAlternation(ms) = ms
<1>1. ms \in Seq(MsgType) /\ Len(ms) >= 2 /\ Len(ms) \in Nat /\ ms # << >>
  BY DEF Whole, Shape
<1>2. Leading("system", ms) = 1
  <2>1. 1 \in 0..Len(ms) /\ (\A i \in 1..1 : ms[i].role = "system") /\ ms[1 + 1].role # "system"
    BY <1>1 DEF Whole, Shape
  <2> QED  BY <1>1, <2>1, LeadingIs
<1>3. PICK rest : rest = Drop(ms, 1)
  OBVIOUS
<1>4. rest \in Seq(MsgType) /\ Len(rest) = Len(ms) - 1 /\ \A i \in 1..(Len(ms) - 1) : rest[i] = ms[1 + i]
  <2>1. 1 \in 0..Len(ms)
    BY <1>1
  <2> QED  BY <1>1, <1>3, <2>1, DropIs
<1>5. Leading("assistant", rest) = 0
  <2>1. rest[1] = ms[2] /\ 0 < Len(rest) /\ rest[1].role # "assistant"
    BY <1>1, <1>4 DEF Whole, Shape
  <2>2. 0 \in 0..Len(rest) /\ rest[0 + 1].role # "assistant" /\ \A i \in 1..0 : rest[i].role = "assistant"
    BY <2>1, <1>4
  <2> QED  BY <1>4, <2>2, LeadingIs
<1>6. Drop(rest, 0) = rest
  <2>1. 0 \in 0..Len(rest)
    BY <1>1, <1>4
  <2>2. Drop(rest, 0) \in Seq(MsgType) /\ Len(Drop(rest, 0)) = Len(rest)
        /\ \A i \in 1..Len(rest) : Drop(rest, 0)[i] = rest[i]
    <3>1. PICK d : d = Drop(rest, 0)
      OBVIOUS
    <3>2. d \in Seq(MsgType) /\ Len(d) = Len(rest) - 0
          /\ \A i \in 1..(Len(rest) - 0) : d[i] = rest[0 + i]
      BY <1>4, <2>1, <3>1, DropIs
    <3>3. Len(rest) \in Nat
      BY <1>4
    <3>4. Len(rest) - 0 = Len(rest) /\ \A i \in 1..Len(rest) : 0 + i = i
      BY <3>3
    <3> QED  BY <3>1, <3>2, <3>4
  <2> QED  BY <1>4, <2>2, SeqEqual
<1> DEFINE head == <<ms[1]>>
<1>7. NormalizeRoleAlternation(ms) = Walked(head, rest)
  BY <1>1, <1>2, <1>3, <1>5, <1>6, SystemsOne DEF NormalizeRoleAlternation
<1>8. head \in Seq(MsgType)
  BY <1>1
<1>9. PICK g : Trail(g, head, rest) /\ Walked(head, rest) = g[Len(rest)]
  BY <1>4, <1>8, WalkedIs
<1> DEFINE n == Len(rest)
           P == {i \in 0..n : Len(g[i]) = i + 1 /\ \A k \in 1..(i + 1) : g[i][k] = ms[k]}
<1>10. 0 \in P
  BY <1>1, <1>4, <1>9 DEF Trail
<1>11. ASSUME NEW i \in 1..n, i - 1 \in P PROVE i \in P
  <2>1. i \in Nat /\ i >= 1 /\ i <= Len(ms) - 1 /\ (i - 1) + 1 = i
    BY <1>1, <1>4
  <2>2. PICK o : o = g[i - 1]
    OBVIOUS
  <2>3. o \in Seq(MsgType) /\ g[i] = Walk(o, rest[i])
    <3>1. i - 1 \in 0..Len(rest)
      BY <2>1, <1>4
    <3> QED  BY <2>2, <1>9, <3>1 DEF Trail
  <2>4. Len(o) = i /\ \A k \in 1..i : o[k] = ms[k]
    BY <1>11, <2>1, <2>2
  <2>5. PICK m : m = ms[i + 1]
    OBVIOUS
  <2>6. rest[i] = m /\ m \in MsgType /\ i + 1 \in 2..Len(ms)
    BY <1>1, <1>4, <2>1, <2>5
  <2>7. m.role \in {"user", "assistant", "tool"}
    BY <2>5, <2>6 DEF Whole, Shape
  <2>8. Last(o) = ms[i] /\ o # << >>
    BY <2>1, <2>3, <2>4 DEF Last
  <2>9. Plain(m) => [m EXCEPT !.role = IF m.role = "assistant" THEN "assistant" ELSE "user"] = m
    <3>1. Plain(m) => (IF m.role = "assistant" THEN "assistant" ELSE "user") = m.role
      BY <2>7 DEF Plain
    <3> QED  BY <3>1, <2>6, MsgChanged
  <2>10. ~(Plain(m) /\ Plain(ms[i]) /\ ms[i].role = m.role)
    BY <1>1, <2>1, <2>5 DEF Whole, Shape
  <2>11. Walk(o, m) = Append(o, m)
    <3>1. CASE ~Plain(m)
      BY <3>1 DEF Walk
    <3>2. CASE Plain(m)
      <4>1. (IF m.role = "assistant" THEN "assistant" ELSE "user") = m.role
        BY <2>7, <3>2 DEF Plain
      <4>2. ~(Plain(Last(o)) /\ Last(o).role = m.role)
        BY <2>8, <2>10, <3>2
      <4> QED  BY <2>9, <3>2, <4>1, <4>2 DEF Walk
    <3> QED  BY <3>1, <3>2
  <2>12. Len(g[i]) = i + 1 /\ \A k \in 1..(i + 1) : g[i][k] = ms[k]
    BY <2>1, <2>3, <2>4, <2>5, <2>6, <2>11
  <2> QED  BY <2>12
<1> HIDE DEF P
<1>12. n \in P
  <2>1. n \in Nat
    BY <1>4
  <2> HIDE DEF n
  <2>2. \A i \in 0..n : i \in P
    BY <2>1, <1>10, <1>11, UpTo
  <2> QED  BY <2>1, <2>2
<1>13. Len(g[n]) = Len(ms) /\ \A k \in 1..Len(ms) : g[n][k] = ms[k]
  BY <1>1, <1>4, <1>12 DEF P
<1>14. g[n] \in Seq(MsgType)
  BY <1>4, <1>9 DEF Trail
<1> QED  BY <1>1, <1>7, <1>9, <1>13, <1>14, SeqEqual

-----------------------------------------------------------------------------
(* What the first walk has out: a system message, then texts that          *)
(* alternate, the user's first.                                            *)
Alternates(o) ==
  /\ o \in Seq(MsgType) /\ Len(o) >= 1 /\ o[1].role = "system"
  /\ \A i \in 1..Len(o) : o[i].calls = 0
  /\ \A i \in 2..Len(o) : o[i].role \in {"user", "assistant"}
  /\ \A i \in 1..(Len(o) - 1) : o[i].role # o[i + 1].role
  /\ Len(o) >= 2 => o[2].role = "user"

LEMMA WalkAlternates ==
  ASSUME NEW o, Alternates(o), NEW m \in MsgType, m.calls = 0, m.role \in {"user", "assistant"},
         Len(o) = 1 => m.role = "user"
  PROVE  Alternates(Walk(o, m)) /\ Len(Walk(o, m)) >= 2
<1> DEFINE n == Len(o)
<1>1. o \in Seq(MsgType) /\ n \in Nat /\ n >= 1 /\ o # << >> /\ Last(o) = o[n] /\ o[n] \in MsgType
  BY DEF Alternates, Last
<1>2. o[n].role # "tool" /\ o[n].calls = 0 /\ Plain(o[n]) /\ Plain(m) /\ (n = 1 => o[n].role = "system")
  <2>1. n = 1 \/ n \in 2..n
    <3>1. n \in Nat /\ n >= 1
      BY <1>1
    <3> HIDE DEF n
    <3> QED  BY <3>1
  <2>2. n = 1 => o[n].role = "system"
    BY DEF Alternates
  <2>3. n \in 2..n => o[n].role \in {"user", "assistant"}
    BY DEF Alternates
  <2>4. o[n].calls = 0
    BY <1>1 DEF Alternates
  <2> QED  BY <2>1, <2>2, <2>3, <2>4 DEF Plain
<1>3. CASE o[n].role = m.role
  <2>1. n >= 2
    <3>1. n # 1
      BY <1>2, <1>3
    <3>2. n \in Nat /\ n >= 1
      BY <1>1
    <3> HIDE DEF n
    <3> QED  BY <3>1, <3>2
  <2>2. PICK j : j = Joined(o[n], m)
    OBVIOUS
  <2>3. j \in MsgType /\ j.role = o[n].role /\ j.calls = 0
    BY <1>1, <1>2, <2>2, MsgChanged
  <2>4. PICK w : w = [o EXCEPT ![n] = j]
    OBVIOUS
  <2>5. Walk(o, m) = w
    BY <1>1, <1>2, <1>3, <2>2, <2>4 DEF Walk
  <2>6. w \in Seq(MsgType) /\ Len(w) = n /\ \A i \in 1..n : w[i] = IF i = n THEN j ELSE o[i]
    <3>1. n \in 1..n
      BY <1>1
    <3> QED  BY <1>1, <2>3, <2>4, <3>1, ExceptSeq
  <2>7. \A i \in 1..n : w[i].role = o[i].role /\ w[i].calls = 0
    BY <2>3, <2>6 DEF Alternates
  <2>8. Alternates(w)
    <3> HIDE DEF n
    <3>1. n = Len(o)
      BY DEF n
    <3> QED  BY <1>1, <2>1, <2>6, <2>7, <3>1 DEF Alternates
  <2> QED  BY <2>1, <2>5, <2>6, <2>8
<1>4. CASE o[n].role # m.role
  <2>1. Walk(o, m) = Append(o, m)
    <3>1. (IF m.role = "assistant" THEN "assistant" ELSE "user") = m.role
      OBVIOUS
    <3> QED  BY <1>1, <1>2, <1>4, <3>1, MsgChanged DEF Walk
  <2>2. PICK w : w = Append(o, m)
    OBVIOUS
  <2>3. w \in Seq(MsgType) /\ Len(w) = n + 1 /\ w[n + 1] = m /\ \A i \in 1..n : w[i] = o[i]
    BY <1>1, <2>2
  <2>4. \A i \in 1..(n + 1) : w[i].calls = 0
    <3>1. \A i \in 1..(n + 1) : i \in 1..n \/ i = n + 1
      BY <1>1
    <3> QED  BY <2>3, <3>1 DEF Alternates
  <2>5. \A i \in 2..(n + 1) : w[i].role \in {"user", "assistant"}
    <3>1. \A i \in 2..(n + 1) : i \in 2..n \/ i = n + 1
      BY <1>1
    <3>2. \A i \in 2..n : i \in 1..n
      BY <1>1
    <3> QED  BY <2>3, <3>1, <3>2 DEF Alternates
  <2>6. \A i \in 1..n : w[i].role # w[i + 1].role
    <3>1. \A i \in 1..n : i \in 1..(n - 1) \/ i = n
      BY <1>1
    <3>2. \A i \in 1..(n - 1) : i \in 1..n /\ i + 1 \in 1..n
      BY <1>1
    <3>3. \A i \in 1..(n - 1) : w[i].role # w[i + 1].role
      BY <2>3, <3>2 DEF Alternates
    <3>4. n \in 1..n /\ w[n].role # w[n + 1].role
      BY <1>1, <1>4, <2>3
    <3> QED  BY <3>1, <3>3, <3>4
  <2>7. w[1].role = "system" /\ w[2].role = "user"
    <3>0. n \in Nat /\ n >= 1
      BY <1>1
    <3>1. 1 \in 1..n /\ (n = 1 \/ 2 \in 1..n)
      <4> HIDE DEF n
      <4> QED  BY <3>0
    <3>2. n = 1 => Len(o) = 1 /\ w[2] = m
      BY <2>3
    <3> QED  BY <2>3, <3>1, <3>2 DEF Alternates
  <2>8. Len(w) >= 2 /\ Len(w) - 1 = n
    BY <1>1, <2>3
  <2> QED  BY <2>1, <2>2, <2>3, <2>4, <2>5, <2>6, <2>7, <2>8 DEF Alternates
<1> QED  BY <1>3, <1>4

(* The first request of a turn: whatever the history, the model gets a     *)
(* conversation that is whole, with all the words of the user.             *)
LEMMA NormalizeFresh ==
  ASSUME NEW h, NEW word, Sent(h, word), NEW ms, Fresh(ms, h)
  PROVE  /\ Whole(NormalizeRoleAlternation(ms))
         /\ UserWords(NormalizeRoleAlternation(ms)) = UserWords(h)
<1>1. /\ h \in Seq(MsgType) /\ Len(h) \in Nat /\ Len(h) >= 1
      /\ ms \in Seq(MsgType) /\ Len(ms) = Len(h) + 1 /\ Len(ms) \in Nat /\ ms # << >>
      /\ ms[1].role = "system" /\ ms[1].calls = 0 /\ ms[1] \in MsgType
      /\ \A i \in 1..Len(h) : ms[i + 1] = h[i]
  BY DEF Sent, Fresh
<1>2. Leading("system", ms) = 1
  <2>1. 1 \in 1..Len(h) /\ ms[1 + 1] = h[1] /\ h[1].role # "system"
    <3>1. 1 \in 1..Len(h)
      BY <1>1
    <3>2. h[1].role # "system"
      BY <3>1 DEF Sent
    <3> QED  BY <1>1, <3>1, <3>2
  <2>2. 1 \in 0..Len(ms) /\ \A i \in 1..1 : ms[i].role = "system"
    BY <1>1
  <2> QED  BY <1>1, <2>1, <2>2, LeadingIs
<1>3. Drop(ms, 1) = h
  <2>1. PICK d : d = Drop(ms, 1)
    OBVIOUS
  <2>2. 1 \in 0..Len(ms)
    BY <1>1
  <2>3. d \in Seq(MsgType) /\ Len(d) = Len(ms) - 1 /\ \A i \in 1..(Len(ms) - 1) : d[i] = ms[1 + i]
    BY <1>1, <2>1, <2>2, DropIs
  <2>4. Len(ms) - 1 = Len(h) /\ \A i \in 1..Len(h) : 1 + i = i + 1
    BY <1>1
  <2>5. Len(d) = Len(h) /\ \A i \in 1..Len(h) : d[i] = h[i]
    BY <1>1, <2>3, <2>4
  <2> QED  BY <1>1, <2>1, <2>3, <2>5, SeqEqual
<1>4. PICK k : k = Leading("assistant", h)
  OBVIOUS
<1>5. k \in Nat /\ k < Len(h) /\ (\A i \in 1..k : h[i].role = "assistant") /\ h[k + 1].role = "user"
  <2>1. k \in 0..Len(h) /\ (\A i \in 1..k : h[i].role = "assistant")
        /\ (k < Len(h) => h[k + 1].role # "assistant")
    BY <1>1, <1>4, LeadingExists
  <2>2. k # Len(h)
    <3> SUFFICES ASSUME k = Len(h) PROVE FALSE
      OBVIOUS
    <3>1. h[Len(h)].role = "assistant"
      BY <1>1, <2>1
    <3> QED  BY <3>1 DEF Sent
  <2>3. k < Len(h) /\ k + 1 \in 1..Len(h)
    BY <1>1, <2>1, <2>2
  <2> QED  BY <2>1, <2>3 DEF Sent
<1>6. PICK q : q = Drop(h, k)
  OBVIOUS
<1>7. q \in Seq(MsgType) /\ Len(q) = Len(h) - k /\ \A i \in 1..(Len(h) - k) : q[i] = h[k + i]
  <2>1. k \in 0..Len(h)
    BY <1>1, <1>5
  <2> QED  BY <1>1, <1>6, <2>1, DropIs
<1> DEFINE head == <<ms[1]>>
<1>8. NormalizeRoleAlternation(ms) = Walked(head, q)
  BY <1>1, <1>2, <1>3, <1>4, <1>6, SystemsOne DEF NormalizeRoleAlternation
<1>9. head \in Seq(MsgType)
  BY <1>1
<1>10. PICK g : Trail(g, head, q) /\ Walked(head, q) = g[Len(q)]
  BY <1>7, <1>9, WalkedIs
<1> DEFINE n == Len(q)
           T(i) == UserWords(SubSeq(h, 1, k + i))
           P == {i \in 0..n : /\ Alternates(g[i]) /\ (i # 0 => Len(g[i]) >= 2) /\ (i = 0 => Len(g[i]) = 1)
                              /\ UserWords(g[i]) = T(i)}
<1>11. T(0) = << >>
  <2> DEFINE Q == {j \in 0..k : UserWords(SubSeq(h, 1, j)) = << >>}
  <2>1. 0 \in Q
    BY <1>1, <1>5, WordsUpTo
  <2>2. ASSUME NEW j \in 1..k, j - 1 \in Q PROVE j \in Q
    <3>1. j \in 1..Len(h) /\ h[j].role = "assistant"
      BY <1>1, <1>5
    <3>2. UserWords(SubSeq(h, 1, j)) = UserWords(SubSeq(h, 1, j - 1)) \o Own(h[j])
      BY <1>1, <3>1, WordsUpTo
    <3>3. Own(h[j]) = << >>
      BY <3>1 DEF Own
    <3>4. << >> \o << >> = << >>
      OBVIOUS
    <3> QED  BY <2>2, <3>2, <3>3, <3>4
  <2> HIDE DEF Q
  <2>3. \A j \in 0..k : j \in Q
    BY <1>5, <2>1, <2>2, UpTo
  <2>4. k \in Q /\ k + 0 = k
    BY <1>5, <2>3
  <2> QED  BY <2>4 DEF Q
<1>12. 0 \in P
  <2>1. g[0] = head
    BY <1>10 DEF Trail
  <2>2. Len(head) = 1 /\ head[1] = ms[1]
    OBVIOUS
  <2>3. Alternates(head)
    BY <1>1, <1>9, <2>2 DEF Alternates
  <2>4. UserWords(head) = << >>
    <3>1. head = Append(<< >>, ms[1]) /\ << >> \in Seq(MsgType)
      BY <1>1
    <3>2. UserWords(head) = UserWords(<< >>) \o Own(ms[1])
      BY <1>1, <3>1, WordsMore
    <3>3. Own(ms[1]) = << >>
      BY <1>1 DEF Own
    <3>4. << >> \o << >> = << >>
      OBVIOUS
    <3> QED  BY <3>2, <3>3, <3>4, NoWords
  <2>5. n \in Nat
    BY <1>7
  <2> HIDE DEF T, head
  <2> QED  BY <2>1, <2>2, <2>3, <2>4, <2>5, <1>11
<1>13. ASSUME NEW i \in 1..n, i - 1 \in P PROVE i \in P
  <2>1. i \in Nat /\ i >= 1 /\ i - 1 \in 0..n /\ i \in 0..n /\ i # 0 /\ k + i \in 1..Len(h)
        /\ (k + i) - 1 = k + (i - 1) /\ i \in 1..(Len(h) - k)
    BY <1>1, <1>5, <1>7
  <2>2. PICK o : o = g[i - 1]
    OBVIOUS
  <2>3. PICK m : m = h[k + i]
    OBVIOUS
  <2>4. q[i] = m /\ m \in MsgType /\ m.role \in {"user", "assistant"} /\ m.calls = 0
    <3>1. q[i] = m
      BY <1>7, <2>1, <2>3
    <3>2. m \in MsgType
      BY <1>1, <2>1, <2>3
    <3>3. m.role \in {"user", "assistant"} /\ m.calls = 0
      BY <2>1, <2>3 DEF Sent
    <3> QED  BY <3>1, <3>2, <3>3
  <2>5. g[i] = Walk(o, m)
    BY <1>10, <2>2, <2>4 DEF Trail
  <2>6. Alternates(o) /\ (i - 1 # 0 => Len(o) >= 2) /\ UserWords(o) = T(i - 1)
    <3> HIDE DEF T
    <3> QED  BY <1>13, <2>2
  <2>7. Len(o) = 1 => m.role = "user"
    <3>1. Len(o) = 1 => i = 1
      BY <2>1, <2>6
    <3> QED  BY <1>5, <2>3, <3>1
  <2>8. Alternates(g[i]) /\ Len(g[i]) >= 2
    BY <2>4, <2>5, <2>6, <2>7, WalkAlternates
  <2>9. UserWords(g[i]) = UserWords(o) \o Own(m)
    <3>1. Plain(m)
      BY <2>4 DEF Plain
    <3>2. o \in Seq(MsgType)
      BY <2>6 DEF Alternates
    <3> QED  BY <2>4, <2>5, <3>1, <3>2, WalkWords
  <2>10. T(i) = T(i - 1) \o Own(m)
    BY <1>1, <2>1, <2>3, WordsUpTo
  <2> HIDE DEF T
  <2> QED  BY <2>1, <2>6, <2>8, <2>9, <2>10
<1> HIDE DEF P
<1>14. n \in P
  <2>1. n \in Nat
    BY <1>7
  <2> HIDE DEF n
  <2>2. \A i \in 0..n : i \in P
    BY <2>1, <1>12, <1>13, UpTo
  <2> QED  BY <2>1, <2>2
<1>15. PICK o : o = g[n]
  OBVIOUS
<1>16. Alternates(o) /\ Len(o) >= 2 /\ UserWords(o) = T(n)
  <2>1. n # 0
    BY <1>1, <1>5, <1>7
  <2> HIDE DEF T, n
  <2> QED  BY <1>14, <1>15, <2>1 DEF P
<1>17. T(n) = UserWords(h)
  <2>1. k + n = Len(h)
    BY <1>1, <1>5, <1>7
  <2> QED  BY <1>1, <2>1, WordsUpTo
<1>18. Whole(o)
  <2>1. o \in Seq(MsgType) /\ Len(o) \in Nat
    BY <1>16 DEF Alternates
  <2>2. \A i \in 1..Len(o) : o[i].calls = 0 /\ o[i].role # "tool"
    <3>1. \A i \in 1..Len(o) : i = 1 \/ i \in 2..Len(o)
      BY <2>1
    <3> QED  BY <1>16, <3>1 DEF Alternates
  <2>3. \A i \in 1..Len(o) : Answered(o, i)
    BY <2>2 DEF Answered
  <2>4. Shape(o)
    BY <1>16, <2>1, <2>2 DEF Shape, Alternates
  <2> QED  BY <2>3, <2>4 DEF Whole
<1> QED  BY <1>8, <1>10, <1>15, <1>16, <1>17, <1>18

(* The user's new text is the last of the words sent.                      *)
LEMMA NewWordLast ==
  ASSUME NEW h, NEW word, Sent(h, word)
  PROVE  Last(UserWords(h)) = word
<1>1. h \in Seq(MsgType) /\ Len(h) \in 1..Len(h) /\ h[Len(h)] \in MsgType
  BY DEF Sent
<1>2. PICK x : x = UserWords(SubSeq(h, 1, Len(h) - 1))
  OBVIOUS
<1>3. UserWords(h) = x \o Own(h[Len(h)]) /\ x \in Seq(Int)
  BY <1>1, <1>2, WordsUpTo
<1>4. Own(h[Len(h)]) = <<word>>
  BY DEF Sent, Own
<1>5. word \in Int
  <2>1. <<word>> \in Seq(Int)
    BY <1>1, MsgChanged DEF Sent
  <2>2. <<word>>[1] = word /\ Len(<<word>>) = 1
    OBVIOUS
  <2> QED  BY <2>1, <2>2, ElementOfSeq
<1>6. Last(x \o <<word>>) = word
  BY <1>3, <1>5 DEF Last
<1> QED  BY <1>3, <1>4, <1>6

-----------------------------------------------------------------------------
(* The end of a list.                                                      *)
LEMMA SuffixIs ==
  ASSUME NEW s \in Seq(RowType), NEW n \in 0..Len(s)
  PROVE  /\ Suffix(s, n) \in Seq(RowType) /\ Len(Suffix(s, n)) = n
         /\ n >= 1 => Suffix(s, n)[n] = s[Len(s)]
<1> DEFINE d == SubSeq(s, (Len(s) - n) + 1, Len(s))
<1>1. PICK l : l = Len(s)
  OBVIOUS
<1>2. l \in Nat /\ n \in Nat /\ n <= l /\ (l - n) + 1 \in Int /\ l \in Int
  BY <1>1
<1>3. \A i \in ((l - n) + 1)..l : s[i] \in RowType
  BY <1>1, <1>2
<1>4. SubSeq(s, (l - n) + 1, l) \in Seq(RowType)
      /\ Len(SubSeq(s, (l - n) + 1, l)) = (IF (l - n) + 1 <= l THEN l - ((l - n) + 1) + 1 ELSE 0)
      /\ \A i \in 1..(l - ((l - n) + 1) + 1) : SubSeq(s, (l - n) + 1, l)[i] = s[((l - n) + 1) + i - 1]
  BY <1>2, <1>3, SubSeqProperties
<1>5. d = SubSeq(s, (l - n) + 1, l)
  BY <1>1
<1> HIDE DEF d
<1>6. d \in Seq(RowType) /\ Len(d) = (IF (l - n) + 1 <= l THEN l - ((l - n) + 1) + 1 ELSE 0)
      /\ \A i \in 1..(l - ((l - n) + 1) + 1) : d[i] = s[((l - n) + 1) + i - 1]
  BY <1>4, <1>5
<1>7. Len(d) = n /\ l - ((l - n) + 1) + 1 = n /\ ((l - n) + 1) + n - 1 = l
  BY <1>2, <1>6
<1>8. n >= 1 => d[n] = s[l]
  <2>1. n >= 1 => n \in 1..n
    BY <1>2
  <2> QED  BY <1>6, <1>7, <2>1
<1>9. Suffix(s, n) = d
  BY DEF Suffix, d
<1> QED  BY <1>1, <1>6, <1>7, <1>8, <1>9

LEMMA CandidatesTyped ==
  ASSUME NEW rs \in Seq(RowType)
  PROVE  Candidates(rs) \in Seq(RowType)
<1> DEFINE e(i) == IF rs[i].size > 0 /\ ~(rs[i].role = "agent" /\ rs[i].tools) THEN <<rs[i]>>
                   ELSE << >>
           t == [i \in DOMAIN rs |-> e(i)]
<1>1. Len(rs) \in Nat /\ DOMAIN rs = 1..Len(rs) /\ \A i \in 1..Len(rs) : rs[i] \in RowType
  OBVIOUS
<1>2. \A i \in 1..Len(rs) : e(i) \in Seq(RowType)
  <2>1. << >> \in Seq(RowType) /\ \A i \in 1..Len(rs) : <<rs[i]>> \in Seq(RowType)
    BY <1>1
  <2> QED  BY <2>1
<1>3. t \in [1..Len(rs) -> Seq(RowType)]
  <2> HIDE DEF e
  <2> QED  BY <1>1, <1>2
<1>4. Candidates(rs) = Concat(t)
  BY DEF Candidates
<1> HIDE DEF t
<1>5. t \in Seq(Seq(RowType))
  BY <1>1, <1>3, IsSeq
<1> QED  BY <1>4, <1>5, ConcatIs

(* However the history is cut, the user's new text is in it, at the end.   *)
LEMMA HistorySent ==
  ASSUME NEW rs \in Seq(RowType), NEW latest \in RowType, latest.role = "user"
  PROVE  Sent(BuildPromptHistory(rs, latest), latest.word)
<1>1. PICK all : all = Append(Candidates(rs), latest)
  OBVIOUS
<1>2. all \in Seq(RowType) /\ Len(all) \in Nat /\ Len(all) >= 1 /\ all[Len(all)] = latest
  BY <1>1, CandidatesTyped
<1> DEFINE Longest(k) == /\ \A j \in 1..k : Fits(Suffix(all, j))
                         /\ k < Len(all) => ~Fits(Suffix(all, k + 1))
           n == CHOOSE k \in 0..Len(all) : Longest(k)
<1>3. \E k \in 0..Len(all) : Longest(k)
  <2> DEFINE G == {j \in 1..Len(all) : Fits(Suffix(all, j))}
  <2>1. PICK k \in 0..Len(all) : (\A j \in 1..k : j \in G) /\ (k < Len(all) => k + 1 \notin G)
    <3> HIDE DEF G
    <3> QED  BY <1>2, LongestRun
  <2>2. k < Len(all) => k + 1 \in 1..Len(all)
    BY <1>2
  <2> QED  BY <2>1, <2>2
<1>4. n \in 0..Len(all) /\ Longest(n)
  <2> HIDE DEF Longest
  <2> QED  BY <1>3
<1>5. Fits(Suffix(all, 1))
  <2>1. 1 \in 0..Len(all)
    BY <1>2
  <2>2. Len(Suffix(all, 1)) = 1
    BY <1>2, <2>1, SuffixIs
  <2> QED  BY <2>2 DEF Fits
<1>6. n # 0
  <2> SUFFICES ASSUME n = 0 PROVE FALSE
    OBVIOUS
  <2>1. ~Fits(Suffix(all, 0 + 1))
    BY <1>2, <1>4
  <2> QED  BY <1>5, <2>1
<1> DEFINE said(r) == Message(IF r.role = "agent" THEN "assistant" ELSE "user", r.word)
           h == [i \in 1..n |-> said(Suffix(all, n)[i])]
<1>7. BuildPromptHistory(rs, latest) = h
  BY <1>1 DEF BuildPromptHistory
<1> HIDE DEF n
<1>8. n \in Nat /\ n >= 1 /\ n \in 1..n
  BY <1>2, <1>4, <1>6
<1>9. PICK s : s = Suffix(all, n)
  OBVIOUS
<1>10. s \in Seq(RowType) /\ Len(s) = n /\ s[n] = latest
  BY <1>2, <1>4, <1>8, <1>9, SuffixIs
<1>11. ASSUME NEW r \in RowType
       PROVE  /\ said(r) \in MsgType /\ said(r).calls = 0 /\ said(r).role \in {"user", "assistant"}
              /\ said(r).words = <<r.word>> /\ (r.role = "user" => said(r).role = "user")
  <2>1. r.word \in Int /\ <<r.word>> \in Seq(Int)
    BY DEF RowType
  <2>2. \A role \in {"user", "assistant"} :
          /\ Message(role, r.word) \in MsgType /\ Message(role, r.word).calls = 0
          /\ Message(role, r.word).role = role /\ Message(role, r.word).words = <<r.word>>
    BY <2>1 DEF Message, MsgType
  <2> QED  BY <2>2
<1>12. \A i \in 1..n : h[i] = said(s[i]) /\ s[i] \in RowType
  BY <1>9, <1>10
<1>13. h \in [1..n -> MsgType]
  <2>1. \A i \in 1..n : said(s[i]) \in MsgType
    <3> HIDE DEF said
    <3> QED  BY <1>11, <1>12
  <2>2. h = [i \in 1..n |-> said(s[i])]
    BY <1>9
  <2> HIDE DEF said, h
  <2> QED  BY <2>1, <2>2
<1> HIDE DEF h, said
<1>14. h \in Seq(MsgType) /\ Len(h) = n
  BY <1>8, <1>13, IsSeq
<1>15. h # << >>
  BY <1>8, <1>14
<1>16. \A i \in 1..n : h[i].role \in {"user", "assistant"} /\ h[i].calls = 0
  BY <1>11, <1>12
<1>17. h[n].role = "user" /\ h[n].words = <<latest.word>>
  BY <1>8, <1>10, <1>11, <1>12
<1> QED  BY <1>7, <1>14, <1>15, <1>16, <1>17 DEF Sent

-----------------------------------------------------------------------------
(* The calls of the last answer, and which of them have their results.     *)
Pending(ms) ==
  LET open == Len(ms) - (asked - owed)
  IN  /\ asked \in Nat /\ owed \in Nat /\ owed <= asked
      /\ open \in 1..Len(ms) /\ ms[open].calls = asked
      /\ \A i \in 1..Len(ms) : i # open => Answered(ms, i)
      /\ \A j \in 1..(asked - owed) : ms[open + j].role = "tool" /\ ms[open + j].answers = j

RowsTyped ==
  /\ rows \in Seq(RowType) /\ saved \in Seq(RowType)
  /\ text.row \in RowType /\ text.row.role = "user"
  /\ turns \in Nat /\ reply \in [size : Nat, tools : BOOLEAN]

(* The turn's messages: fresh before the first request, whole before and   *)
(* in every other, with all the user's words throughout.                   *)
Talk ==
  /\ pc \in {"called", "ask", "stream", "calls"} => Sent(history, text.row.word)
  /\ pc = "ask" => \/ Fresh(messages, history)
                   \/ Whole(messages) /\ UserWords(messages) = UserWords(history)
  /\ pc = "stream" => Whole(messages) /\ UserWords(messages) = UserWords(history)
  /\ pc = "calls" => /\ Shape(messages) /\ Pending(messages)
                     /\ UserWords(messages) = UserWords(history)

(* A message of no words of the user, behind a conversation.               *)
LEMMA AppendShape ==
  ASSUME NEW ms, Shape(ms), NEW m \in MsgType, ~Plain(m), m.role \in {"assistant", "tool"},
         m.role = "tool" => /\ m.answers <= Len(ms)
                            /\ m.answers >= 1 /\ ms[Len(ms) + 1 - m.answers].calls >= m.answers
  PROVE  /\ Shape(Append(ms, m)) /\ Len(Append(ms, m)) = Len(ms) + 1
         /\ \A i \in 1..Len(ms) : Append(ms, m)[i] = ms[i]
         /\ Append(ms, m)[Len(ms) + 1] = m
         /\ UserWords(Append(ms, m)) = UserWords(ms)
<1>1. PICK n : n = Len(ms)
  OBVIOUS
<1>2. PICK w : w = Append(ms, m)
  OBVIOUS
<1>3. ms \in Seq(MsgType) /\ n \in Nat /\ n >= 2
  BY <1>1 DEF Shape
<1>4. w \in Seq(MsgType) /\ Len(w) = n + 1 /\ w[n + 1] = m /\ \A i \in 1..n : w[i] = ms[i]
  BY <1>1, <1>2, <1>3
<1>5. 1 \in 1..n /\ 2 \in 1..n /\ \A i \in 1..(n + 1) : i \in 1..n \/ i = n + 1
  BY <1>3
<1>6. w[1].role = "system" /\ w[2].role = "user"
  BY <1>4, <1>5 DEF Shape
<1>7. \A i \in 2..(n + 1) : w[i].role \in {"user", "assistant", "tool"}
  <2>1. \A i \in 2..(n + 1) : (i \in 2..n /\ i \in 1..n) \/ i = n + 1
    BY <1>3
  <2> QED  BY <1>1, <1>4, <2>1 DEF Shape
<1>8. \A i \in 1..n : Plain(w[i]) /\ Plain(w[i + 1]) => w[i].role # w[i + 1].role
  <2>1. \A i \in 1..n : (i \in 1..(n - 1) /\ i + 1 \in 1..n) \/ i + 1 = n + 1
    BY <1>3
  <2>2. \A i \in 1..(n - 1) : Plain(ms[i]) /\ Plain(ms[i + 1]) => ms[i].role # ms[i + 1].role
    BY <1>1 DEF Shape
  <2> QED  BY <1>4, <2>1, <2>2
<1>9. ASSUME NEW i \in 1..(n + 1), w[i].role = "tool"
      PROVE  i > w[i].answers /\ w[i - w[i].answers].calls >= w[i].answers
  <2>1. CASE i = n + 1
    <3>1. m.answers \in Nat /\ m.answers <= n /\ m.answers >= 1
      BY <1>1, <1>4, <1>9, <2>1 DEF MsgType
    <3>2. PICK k : k = n + 1 - m.answers
      OBVIOUS
    <3>3. k \in 1..n /\ n + 1 > m.answers
      BY <1>3, <3>1, <3>2
    <3>4. w[i] = m /\ i - m.answers = k /\ w[k] = ms[k]
      <4>1. w[i] = m
        BY <1>4, <2>1
      <4>2. i - m.answers = k
        BY <1>3, <2>1, <3>1, <3>2
      <4>3. w[k] = ms[k]
        BY <1>4, <3>3
      <4> QED  BY <4>1, <4>2, <4>3
    <3>5. w[i].answers = m.answers
      BY <3>4
    <3>6. w[i - w[i].answers] = ms[k]
      BY <3>4, <3>5
    <3>7. ms[k].calls >= m.answers
      BY <1>1, <1>4, <1>9, <2>1, <3>2
    <3>8. i > m.answers
      BY <2>1, <3>3
    <3> QED  BY <3>5, <3>6, <3>7, <3>8
  <2>2. CASE i \in 1..n
    <3>1. ms[i] \in MsgType /\ w[i] = ms[i]
      BY <1>1, <1>3, <1>4, <2>2
    <3>2. i > ms[i].answers /\ ms[i - ms[i].answers].calls >= ms[i].answers
      BY <1>1, <1>9, <2>2, <3>1 DEF Shape
    <3>3. ms[i].answers \in Nat
      BY <3>1 DEF MsgType
    <3>4. i - ms[i].answers \in 1..n
      BY <1>3, <2>2, <3>2, <3>3
    <3> QED  BY <1>4, <3>1, <3>2, <3>4
  <2> QED  BY <1>5, <2>1, <2>2
<1>10. Shape(w)
  <2>1. Len(w) >= 2 /\ Len(w) - 1 = n
    BY <1>3, <1>4
  <2> QED  BY <1>4, <1>6, <1>7, <1>8, <1>9, <2>1 DEF Shape
<1>11. UserWords(w) = UserWords(ms)
  <2>1. UserWords(w) = UserWords(ms) \o << >>
    BY <1>2, <1>3, WordsMore DEF Own
  <2>2. UserWords(ms) \in Seq(Int)
    BY <1>3, OwnTyped
  <2> QED  BY <2>1, <2>2, ConcatEmptySeq
<1> QED  BY <1>1, <1>2, <1>4, <1>10, <1>11

LEMMA AnsweredStays ==
  ASSUME NEW ms \in Seq(MsgType), NEW m \in MsgType, NEW i \in 1..Len(ms), Answered(ms, i)
  PROVE  Answered(Append(ms, m), i)
<1>1. PICK n : n = Len(ms)
  OBVIOUS
<1>2. PICK w : w = Append(ms, m)
  OBVIOUS
<1>3. n \in Nat /\ Len(w) = n + 1 /\ \A k \in 1..n : w[k] = ms[k]
  BY <1>1, <1>2
<1>4. \A k \in 1..n : k \in 1..(n + 1)
  BY <1>3
<1> QED  BY <1>1, <1>2, <1>3, <1>4 DEF Answered

-----------------------------------------------------------------------------
(* A part of the prompt changes the words of the system message only.      *)
LEMMA SystemPart ==
  ASSUME NEW ms, NEW h, Fresh(ms, h), NEW word \in Int, h \in Seq(MsgType)
  PROVE  Fresh(Inject(ms, word), h) /\ Fresh(AsPersona(ms), h)
<1>1. ms \in Seq(MsgType) /\ ms # << >> /\ ms[1] \in MsgType /\ 1 \in 1..Len(ms) /\ ms[1].role = "system"
      /\ Len(h) \in Nat /\ Len(ms) = Len(h) + 1
  BY DEF Fresh
<1>2. ASSUME NEW ws \in Seq(Int)
      PROVE  Fresh([ms EXCEPT ![1].words = ws], h)
  <2>1. PICK m : m = [ms[1] EXCEPT !.words = ws]
    OBVIOUS
  <2>2. m \in MsgType /\ m.role = "system" /\ m.calls = 0
    BY <1>1, <2>1 DEF MsgType, Fresh
  <2>3. PICK w : w = [ms EXCEPT ![1] = m]
    OBVIOUS
  <2>4. w \in Seq(MsgType) /\ Len(w) = Len(ms) /\ \A j \in 1..Len(ms) : w[j] = IF j = 1 THEN m ELSE ms[j]
    BY <1>1, <2>2, <2>3, ExceptSeq
  <2>5. \A i \in 1..Len(h) : i + 1 \in 1..Len(ms) /\ i + 1 # 1
    BY <1>1
  <2>6. Fresh(w, h)
    BY <1>1, <2>2, <2>4, <2>5 DEF Fresh
  <2>7. [ms EXCEPT ![1].words = ws] = w
    BY <1>1, <2>1, <2>3
  <2> QED  BY <2>6, <2>7
<1>3. Append(ms[1].words, word) \in Seq(Int) /\ <<Persona>> \in Seq(Int)
  <2>1. ms[1].words \in Seq(Int)
    BY <1>1, MsgChanged
  <2>2. Persona \in Int
    BY DEF Persona
  <2> QED  BY <2>1, <2>2
<1>4. Inject(ms, word) = [ms EXCEPT ![1].words = Append(ms[1].words, word)]
  BY <1>1 DEF Inject
<1>5. AsPersona(ms) = [ms EXCEPT ![1].words = <<Persona>>]
  BY <1>1 DEF AsPersona
<1> QED  BY <1>2, <1>3, <1>4, <1>5

LEMMA RowTyped ==
  ASSUME turns \in Nat, NEW size \in Nat, NEW tools \in BOOLEAN
  PROVE  Row("agent", size, tools) \in RowType
<1>1. 2 * turns - 0 \in Int
  OBVIOUS
<1> QED  BY <1>1 DEF Row, RowType

LEMMA SaveTyped ==
  ASSUME NEW s \in Seq(RowType), NEW r \in RowType
  PROVE  \A t \in {s, Append(s, r)} : t \in Seq(RowType)
  OBVIOUS

LEMMA NoTextTyped == NoText.row \in RowType /\ NoText.row.role = "user" /\ NoReply \in [size : Nat, tools : BOOLEAN]
  BY DEF NoText, NoReply, RowType

LEMMA InitTalk == Init => RowsTyped /\ Talk
<1> SUFFICES ASSUME Init PROVE RowsTyped /\ Talk
  OBVIOUS
<1>1. << >> \in Seq(RowType)
  OBVIOUS
<1> QED  BY <1>1, NoTextTyped DEF Init, RowsTyped, Talk

LEMMA NextRows == RowsTyped /\ [Next]_vars => RowsTyped'
<1> SUFFICES ASSUME RowsTyped, [Next]_vars PROVE RowsTyped'
  OBVIOUS
<1> USE DEF settings, turnVars, loop, bounds
<1>1. CASE Send
  <2>1. PICK size \in Lengths, kind \in Kinds, mention \in Agents \cup {Nobody} :
          text' = [row |-> [role |-> "user", word |-> 2 * turns + 1, size |-> size, tools |-> FALSE],
                   kind |-> kind, mention |-> mention]
    BY <1>1 DEF Send
  <2>2. size \in Nat /\ 2 * turns + 1 \in Int /\ turns + 1 \in Nat
    BY PromptAssumption DEF RowsTyped
  <2>3. text'.row \in RowType /\ text'.row.role = "user"
    BY <2>1, <2>2 DEF RowType
  <2> QED  BY <1>1, <2>2, <2>3 DEF Send, RowsTyped
<1>2. CASE Plan
  BY <1>2 DEF Plan, RowsTyped
<1>3. CASE Greet
  <2>1. Row("agent", 1, FALSE) \in RowType
    BY RowTyped DEF RowsTyped
  <2>2. saved' \in Seq(RowType)
    <3>1. PICK s \in {saved, Append(saved, text.row)} : saved' \in {s, Append(s, Row("agent", 1, FALSE))}
      BY <1>3 DEF Greet
    <3>2. s \in Seq(RowType)
      BY SaveTyped DEF RowsTyped
    <3> QED  BY <2>1, <3>1, <3>2, SaveTyped
  <2> QED  BY <1>3, <2>2 DEF Greet, RowsTyped
<1>4. CASE Prepare
  <2>1. saved' \in Seq(RowType)
    <3>1. saved' \in {saved, Append(saved, text.row)}
      BY <1>4 DEF Prepare, Save
    <3> QED  BY <3>1, SaveTyped DEF RowsTyped
  <2>2. text'.row = text.row /\ reply' = NoReply
    BY <1>4 DEF Prepare, NoText
  <2> QED  BY <1>4, <2>1, <2>2, NoTextTyped DEF Prepare, RowsTyped
<1>5. CASE Ask
  BY <1>5 DEF Ask, RowsTyped
<1>6. CASE Answer
  <2>1. reply' \in {reply, [reply EXCEPT !.size = 1]}
    BY <1>6 DEF Answer
  <2>2. reply' \in [size : Nat, tools : BOOLEAN]
    BY <2>1 DEF RowsTyped
  <2> QED  BY <1>6, <2>2 DEF Answer, RowsTyped
<1>7. CASE Stop
  <2>1. reply' \in {reply, [reply EXCEPT !.size = 1]}
    BY <1>7 DEF Stop
  <2>2. reply' \in [size : Nat, tools : BOOLEAN]
    BY <2>1 DEF RowsTyped
  <2> QED  BY <1>7, <2>2 DEF Stop, RowsTyped
<1>8. CASE Fail
  BY <1>8 DEF Fail, RowsTyped
<1>9. CASE Call
  <2>1. reply' = reply \/ reply' = [size |-> 1, tools |-> TRUE]
    BY <1>9 DEF Call, Reject, Perform
  <2>2. reply' \in [size : Nat, tools : BOOLEAN]
    <3>1. [size |-> 1, tools |-> TRUE] \in [size : Nat, tools : BOOLEAN]
      OBVIOUS
    <3>2. reply \in [size : Nat, tools : BOOLEAN]
      BY DEF RowsTyped
    <3> QED  BY <2>1, <3>1, <3>2
  <2>3. UNCHANGED <<rows, saved, text, turns>>
    BY <1>9 DEF Call
  <2> QED  BY <2>2, <2>3 DEF RowsTyped
<1>10. CASE Again
  BY <1>10 DEF Again, RowsTyped
<1>11. CASE SaveReply
  <2>1. Row("agent", reply.size, reply.tools) \in RowType
    BY RowTyped DEF RowsTyped
  <2>2. saved' \in Seq(RowType)
    <3>1. PICK r : r = Row("agent", reply.size, reply.tools)
      OBVIOUS
    <3>2. saved' = saved \/ saved' \in {saved, Append(saved, r)}
      BY <1>11, <3>1 DEF SaveReply, Save
    <3> QED  BY <2>1, <3>1, <3>2, SaveTyped DEF RowsTyped
  <2> QED  BY <1>11, <2>2 DEF SaveReply, RowsTyped
<1>12. CASE Done
  <2>1. reply.size \in Nat /\ reply.tools \in BOOLEAN /\ 1 \in Nat
    BY DEF RowsTyped
  <2>2. PICK size : size = IF pc = "failed" THEN 1 ELSE reply.size
    OBVIOUS
  <2>3. Row("agent", size, reply.tools) \in RowType
    BY <2>1, <2>2, RowTyped DEF RowsTyped
  <2>4. rows' \in Seq(RowType)
    BY <1>12, <2>2, <2>3 DEF Done, RowsTyped
  <2> QED  BY <1>12, <2>4, NoTextTyped DEF Done, Idle, RowsTyped
<1>13. CASE EditAgent
  BY <1>13 DEF EditAgent, RowsTyped
<1>14. CASE LeaveRoom
  BY <1>14 DEF LeaveRoom, RowsTyped
<1>15. CASE Restart
  BY <1>15, NoTextTyped DEF Restart, Idle, RowsTyped
<1>16. CASE UNCHANGED vars
  BY <1>16 DEF vars, RowsTyped
<1> QED  BY <1>1, <1>2, <1>3, <1>4, <1>5, <1>6, <1>7, <1>8, <1>9, <1>10, <1>11, <1>12,
            <1>13, <1>14, <1>15, <1>16 DEF Next

(* Steps that leave the turn as it is, or end it.                          *)
LEMMA QuietTalk ==
  ASSUME Talk, UNCHANGED <<history, messages, asked, owed>>, text'.row = text.row,
         pc' = pc \/ pc' \notin {"called", "ask", "stream", "calls"}
  PROVE  Talk'
<1>1. CASE pc' \notin {"called", "ask", "stream", "calls"}
  BY <1>1 DEF Talk
<1>2. CASE pc' = pc
  <2>1. Pending(messages)' = Pending(messages)
    BY DEF Pending, Answered
  <2>2. history' = history /\ messages' = messages /\ text'.row = text.row /\ pc' = pc
    BY <1>2
  <2> QED  BY <2>1, <2>2 DEF Talk
<1> QED  BY <1>1, <1>2

LEMMA PrepareTalk ==
  ASSUME RowsTyped, Talk, Prepare
  PROVE  Talk'
<1>1. Sent(history, text.row.word) /\ history' = history /\ text'.row = text.row /\ pc' = "ask"
  BY DEF Prepare, Talk, NoText
<1>2. history \in Seq(MsgType)
  BY <1>1 DEF Sent
<1> DEFINE sent == <<Message("system", Base)>> \o history
<1>3. Fresh(sent, history)
  <2>1. PICK m : m = Message("system", Base)
    OBVIOUS
  <2>2. m \in MsgType /\ m.role = "system" /\ m.calls = 0
    <3>1. <<Base>> \in Seq(Int)
      BY DEF Base
    <3> QED  BY <2>1, <3>1 DEF Message, MsgType
  <2>3. <<m>> \in Seq(MsgType) /\ Len(<<m>>) = 1 /\ <<m>>[1] = m
    BY <2>2
  <2>4. PICK s : s = <<m>> \o history
    OBVIOUS
  <2>5. s \in Seq(MsgType) /\ Len(s) = 1 + Len(history)
        /\ \A i \in 1..(1 + Len(history)) : s[i] = IF i <= 1 THEN <<m>>[i] ELSE history[i - 1]
    BY <1>2, <2>3, <2>4, ConcatProperties
  <2>6. Len(history) \in Nat
    BY <1>2
  <2>7. s[1] = m
    BY <2>3, <2>5, <2>6
  <2>8. \A i \in 1..Len(history) : s[i + 1] = history[i]
    BY <2>5, <2>6
  <2>9. Fresh(s, history)
    BY <2>2, <2>5, <2>6, <2>7, <2>8 DEF Fresh
  <2> QED  BY <2>1, <2>4, <2>9
<1> HIDE DEF sent
<1> DEFINE whose == IF Resolved = Nobody THEN sent ELSE AsPersona(sent)
<1>4. Base \in Int /\ VaultNotes \in Int /\ Docs \in Int /\ Clock \in Int
  BY DEF Base, VaultNotes, Docs, Clock
<1>5. Fresh(whose, history)
  BY <1>2, <1>3, <1>4, SystemPart
<1> HIDE DEF whose
<1>6. Fresh(Inject(Inject(Inject(whose, VaultNotes), Docs), Clock), history)
  <2>1. Fresh(Inject(whose, VaultNotes), history)
    BY <1>2, <1>4, <1>5, SystemPart
  <2>2. Fresh(Inject(Inject(whose, VaultNotes), Docs), history)
    BY <1>2, <1>4, <2>1, SystemPart
  <2> QED  BY <1>2, <1>4, <2>2, SystemPart
<1>7. messages' = IF text.kind = "tools" THEN Inject(Inject(Inject(whose, VaultNotes), Docs), Clock)
                  ELSE whose
  BY DEF Prepare, whose, sent
<1>8. Fresh(messages', history')
  BY <1>1, <1>5, <1>6, <1>7
<1> QED  BY <1>1, <1>8 DEF Talk

LEMMA AskTalk ==
  ASSUME Talk, Ask
  PROVE  Talk'
<1>1. messages' = NormalizeRoleAlternation(messages) /\ pc' = "stream" /\ pc = "ask"
      /\ history' = history /\ text' = text
  BY DEF Ask, turnVars
<1>2. Sent(history, text.row.word)
  BY <1>1 DEF Talk
<1>3. Whole(messages') /\ UserWords(messages') = UserWords(history)
  <2>1. CASE Fresh(messages, history)
    BY <1>1, <1>2, <2>1, NormalizeFresh
  <2>2. CASE Whole(messages) /\ UserWords(messages) = UserWords(history)
    BY <1>1, <2>2, NormalizeWhole
  <2> QED  BY <1>1, <2>1, <2>2 DEF Talk
<1> QED  BY <1>1, <1>2, <1>3 DEF Talk

LEMMA AnswerTalk ==
  ASSUME Talk, Answer
  PROVE  Talk'
<1>1. pc = "stream" /\ history' = history /\ text' = text
  BY DEF Answer, turnVars
<1>2. Sent(history, text.row.word) /\ Whole(messages) /\ UserWords(messages) = UserWords(history)
  BY <1>1 DEF Talk
<1>3. CASE pc' = "save"
  BY <1>3 DEF Talk
<1>4. CASE pc' # "save"
  <2>1. PICK n \in 0..MaxCalls : /\ n # 0 /\ messages' = Append(messages, Calls(n))
                                 /\ asked' = n /\ owed' = n /\ pc' = "calls"
    BY <1>4 DEF Answer
  <2>2. n \in Nat /\ n >= 1
    BY <2>1, PromptAssumption
  <2>3. PICK m : m = Calls(n)
    OBVIOUS
  <2>4. m \in MsgType /\ m.role = "assistant" /\ m.calls = n /\ ~Plain(m)
    <3>1. << >> \in Seq(Int)
      OBVIOUS
    <3> QED  BY <2>2, <2>3, <3>1 DEF Calls, MsgType, Plain
  <2>5. Shape(messages)
    BY <1>2 DEF Whole
  <2>6. PICK l : l = Len(messages)
    OBVIOUS
  <2>7. l \in Nat /\ messages \in Seq(MsgType)
    BY <2>5, <2>6 DEF Shape
  <2>8. PICK w : w = Append(messages, m)
    OBVIOUS
  <2>9. /\ Shape(w) /\ Len(w) = l + 1 /\ w[l + 1] = m /\ UserWords(w) = UserWords(messages)
    BY <2>4, <2>5, <2>6, <2>8, AppendShape
  <2>10. \A i \in 1..l : Answered(w, i)
    BY <1>2, <2>4, <2>6, <2>7, <2>8, AnsweredStays DEF Whole
  <2>11. messages' = w
    BY <2>1, <2>3, <2>8
  <2>12. Pending(w)'
    <3>1. (asked - owed)' = 0 /\ asked' = n /\ owed' = n /\ w' = w
      BY <2>1, <2>2, <2>11
    <3>2. Len(w) - 0 = l + 1 /\ l + 1 \in 1..Len(w) /\ w[l + 1].calls = n
      BY <2>4, <2>7, <2>9
    <3>3. \A i \in 1..Len(w) : i # l + 1 => Answered(w, i)
      <4>1. \A i \in 1..(l + 1) : i # l + 1 => i \in 1..l
        BY <2>7
      <4> QED  BY <2>9, <2>10, <4>1
    <3> QED  BY <2>2, <3>1, <3>2, <3>3 DEF Pending
  <2> QED  BY <1>1, <1>2, <2>1, <2>9, <2>11, <2>12 DEF Talk
<1> QED  BY <1>3, <1>4

-----------------------------------------------------------------------------
LEMMA PlanTalk ==
  ASSUME RowsTyped, Plan
  PROVE  Talk'
<1>1. history' = BuildPromptHistory(rows, text.row) /\ text' = text /\ pc' \in {"called", "failed"}
  BY DEF Plan
<1>2. rows \in Seq(RowType) /\ text.row \in RowType /\ text.row.role = "user"
  BY DEF RowsTyped
<1>3. Sent(history', text'.row.word)
  BY <1>1, <1>2, HistorySent
<1> QED  BY <1>1, <1>3 DEF Talk

(* The result of the next call is behind those of the earlier ones.        *)
LEMMA CallTalk ==
  ASSUME Talk, Call
  PROVE  Talk'
<1>1. /\ pc = "calls" /\ pc' = "calls" /\ owed > 0 /\ owed' = owed - 1 /\ asked' = asked
      /\ history' = history /\ text' = text /\ messages' = Append(messages, Result(asked - owed + 1))
  BY DEF Call, Reject, Perform, turnVars
<1>2. /\ Sent(history, text.row.word) /\ Shape(messages) /\ Pending(messages)
      /\ UserWords(messages) = UserWords(history)
  BY <1>1 DEF Talk
<1>3. PICK a : a = asked - owed
  OBVIOUS
<1>4. PICK l : l = Len(messages)
  OBVIOUS
<1>5. PICK open : open = l - a
  OBVIOUS
<1>6. messages \in Seq(MsgType) /\ l \in Nat
  BY <1>2, <1>4 DEF Shape
<1>7. asked \in Nat /\ owed \in Nat /\ owed <= asked
  BY <1>2 DEF Pending
<1>8. a \in Nat /\ a + 1 <= asked /\ asked - (owed - 1) = a + 1 /\ owed - 1 \in Nat /\ owed - 1 <= asked
  BY <1>1, <1>3, <1>7
<1>9. /\ open \in 1..l /\ messages[open].calls = asked
      /\ \A i \in 1..l : i # open => Answered(messages, i)
      /\ \A j \in 1..a : messages[open + j].role = "tool" /\ messages[open + j].answers = j
  BY <1>2, <1>3, <1>4, <1>5 DEF Pending
<1>10. PICK m : m = Result(a + 1)
  OBVIOUS
<1>11. m \in MsgType /\ m.role = "tool" /\ m.answers = a + 1 /\ m.calls = 0 /\ ~Plain(m)
  <2>1. << >> \in Seq(Int) /\ a + 1 \in Nat
    BY <1>8
  <2> QED  BY <1>10, <2>1 DEF Result, MsgType, Plain
<1>12. /\ m.answers <= l /\ m.answers >= 1 /\ messages[l + 1 - m.answers].calls >= m.answers
  <2>1. a + 1 <= l /\ a + 1 >= 1 /\ l + 1 - (a + 1) = open
    BY <1>5, <1>6, <1>8, <1>9
  <2>2. messages[open].calls >= a + 1
    BY <1>8, <1>9
  <2> QED  BY <1>11, <2>1, <2>2
<1>13. PICK w : w = Append(messages, m)
  OBVIOUS
<1>14. /\ Shape(w) /\ Len(w) = l + 1 /\ w[l + 1] = m /\ UserWords(w) = UserWords(messages)
       /\ \A i \in 1..l : w[i] = messages[i]
  BY <1>2, <1>4, <1>11, <1>12, <1>13, AppendShape
<1>15. \A i \in 1..l : i # open => Answered(w, i)
  BY <1>4, <1>6, <1>9, <1>11, <1>13, AnsweredStays
<1>16. Answered(w, l + 1)
  <2>1. w[l + 1].calls = 0
    BY <1>11, <1>14
  <2> QED  BY <2>1 DEF Answered
<1>17. \A j \in 1..(a + 1) : w[open + j].role = "tool" /\ w[open + j].answers = j
  <2> SUFFICES ASSUME NEW j \in 1..(a + 1)
               PROVE  w[open + j].role = "tool" /\ w[open + j].answers = j
    OBVIOUS
  <2>1. CASE j = a + 1
    <3>1. open + j = l + 1
      BY <1>5, <1>6, <1>8, <2>1
    <3> QED  BY <1>11, <1>14, <2>1, <3>1
  <2>2. CASE j \in 1..a
    <3>1. open + j \in 1..l
      BY <1>5, <1>6, <1>8, <1>9, <2>2
    <3> QED  BY <1>9, <1>14, <2>2, <3>1
  <2> QED  BY <1>8, <2>1, <2>2
<1>18. messages' = w
  BY <1>1, <1>3, <1>10, <1>13
<1>19. Pending(w)'
  <2>1. asked' = asked /\ owed' = owed - 1 /\ (asked - owed)' = a + 1 /\ w' = w
    BY <1>1, <1>8, <1>18
  <2>2. Len(w) - (a + 1) = open /\ open \in 1..Len(w) /\ w[open].calls = asked
    BY <1>5, <1>6, <1>8, <1>9, <1>14
  <2>3. \A i \in 1..Len(w) : i # open => Answered(w, i)
    <3>1. \A i \in 1..(l + 1) : i \in 1..l \/ i = l + 1
      BY <1>6
    <3> QED  BY <1>14, <1>15, <1>16, <3>1
  <2> QED  BY <1>7, <1>8, <1>17, <2>1, <2>2, <2>3 DEF Pending
<1> QED  BY <1>1, <1>2, <1>14, <1>18, <1>19 DEF Talk

(* With the last result the conversation is whole again.                   *)
LEMMA AgainTalk ==
  ASSUME Talk, Again
  PROVE  Talk'
<1>1. pc = "calls" /\ owed = 0 /\ history' = history /\ text' = text
  BY DEF Again, turnVars
<1>2. /\ Sent(history, text.row.word) /\ Shape(messages) /\ Pending(messages)
      /\ UserWords(messages) = UserWords(history)
  BY <1>1 DEF Talk
<1>3. PICK l : l = Len(messages)
  OBVIOUS
<1>4. asked \in Nat /\ asked - owed = asked /\ l \in Nat
  BY <1>1, <1>2, <1>3 DEF Pending, Shape
<1>5. PICK open : open = l - asked
  OBVIOUS
<1>6. /\ open \in 1..l /\ messages[open].calls = asked
      /\ \A i \in 1..l : i # open => Answered(messages, i)
      /\ \A j \in 1..asked : messages[open + j].role = "tool" /\ messages[open + j].answers = j
  BY <1>2, <1>3, <1>4, <1>5 DEF Pending
<1>7. Answered(messages, open)
  <2>1. \A j \in 1..asked : open + j \in 1..l
    BY <1>4, <1>5, <1>6
  <2> QED  BY <1>3, <1>6, <2>1 DEF Answered
<1>8. Whole(messages)
  BY <1>2, <1>3, <1>6, <1>7 DEF Whole
<1>9. CASE pc' = "save"
  BY <1>9 DEF Talk
<1>10. CASE pc' # "save"
  <2>1. pc' = "ask" /\ messages' = messages
    BY <1>10 DEF Again
  <2> QED  BY <1>1, <1>2, <1>8, <2>1 DEF Talk
<1> QED  BY <1>9, <1>10

LEMMA NextTalk == RowsTyped /\ Talk /\ [Next]_vars => Talk'
<1> SUFFICES ASSUME RowsTyped, Talk, [Next]_vars PROVE Talk'
  OBVIOUS
<1> USE DEF turnVars, loop
<1>1. CASE Send
  BY <1>1 DEF Send, Talk
<1>2. CASE Plan
  BY <1>2, PlanTalk
<1>3. CASE Greet
  BY <1>3 DEF Greet, Talk
<1>4. CASE Prepare
  BY <1>4, PrepareTalk
<1>5. CASE Ask
  BY <1>5, AskTalk
<1>6. CASE Answer
  BY <1>6, AnswerTalk
<1>7. CASE Stop
  BY <1>7 DEF Stop, Talk
<1>8. CASE Fail
  BY <1>8 DEF Fail, Talk
<1>9. CASE Call
  BY <1>9, CallTalk
<1>10. CASE Again
  BY <1>10, AgainTalk
<1>11. CASE SaveReply
  BY <1>11 DEF SaveReply, Talk
<1>12. CASE Done
  BY <1>12 DEF Done, Idle, Talk
<1>13. CASE EditAgent
  <2>1. UNCHANGED <<history, messages, asked, owed, pc>> /\ text'.row = text.row
    BY <1>13 DEF EditAgent
  <2> QED  BY <2>1, QuietTalk
<1>14. CASE LeaveRoom
  <2>1. UNCHANGED <<history, messages, asked, owed, pc>> /\ text'.row = text.row
    BY <1>14 DEF LeaveRoom
  <2> QED  BY <2>1, QuietTalk
<1>15. CASE Restart
  BY <1>15 DEF Restart, Idle, Talk
<1>16. CASE UNCHANGED vars
  <2>1. UNCHANGED <<history, messages, asked, owed, pc>> /\ text'.row = text.row
    BY <1>16 DEF vars
  <2> QED  BY <2>1, QuietTalk
<1> QED  BY <1>1, <1>2, <1>3, <1>4, <1>5, <1>6, <1>7, <1>8, <1>9, <1>10, <1>11, <1>12,
            <1>13, <1>14, <1>15, <1>16 DEF Next

LEMMA TalkWhole == Talk => RequestsAreWhole
<1> SUFFICES ASSUME Talk, pc = "stream"
             PROVE  /\ TemplateAccepts(messages) /\ UserWords(messages) = UserWords(history)
                    /\ Last(UserWords(messages)) = text.row.word
  BY DEF RequestsAreWhole
<1>1. Sent(history, text.row.word) /\ Whole(messages) /\ UserWords(messages) = UserWords(history)
  BY DEF Talk
<1>2. TemplateAccepts(messages)
  BY <1>1, WholeAccepted
<1>3. Last(UserWords(history)) = text.row.word
  BY <1>1, NewWordLast
<1> QED  BY <1>1, <1>2, <1>3

(* Every request of every turn is one that chat templates accept and has   *)
(* all the user's words that the window sent, the new text last            *)
(* (RequestsAreWhole), for rooms, budgets and histories of any size.       *)
THEOREM RequestsStayWhole == Spec => []RequestsAreWhole
<1>1. Spec => [](RowsTyped /\ Talk)
  BY InitTalk, NextRows, NextTalk, PTL DEF Spec
<1> QED  BY <1>1, TalkWhole, PTL
=============================================================================
