--------------------------- MODULE TerminalProofs ---------------------------
(***************************************************************************)
(* Theorems about Terminal: what the native side guarantees by itself, for *)
(* any calls the window sends and any order they arrive in; and that       *)
(* nothing is left over once all calls have come, which rests on the       *)
(* generations, on the order of one pane's calls and on what the window    *)
(* saves before a reload.                                                  *)
(***************************************************************************)
EXTENDS Terminal, TLAPS, FiniteSetTheorems, SequenceTheorems

(* A call is carried out: it shows no pane that is closed, and closes none *)
(* that stays visible.                                                     *)
LEMMA HandleKeeps ==
  ASSUME ClosedStayClosed, NEW c, Handle(c)
  PROVE  ClosedStayClosed' /\ closed \subseteq closed'
<1>1. CASE Show(c)
  BY <1>1 DEF ClosedStayClosed, Show, Shows, native
<1>2. CASE Hide(c) \/ Close(c) \/ HideAll(c) \/ Reset(c)
  BY <1>2 DEF ClosedStayClosed, Hide, Close, HideAll, Reset
<1> QED  BY <1>1, <1>2 DEF Handle

(* Only calls reach the native side.                                       *)
LEMMA StepClosed ==
  ASSUME ClosedStayClosed, [Next]_vars
  PROVE  ClosedStayClosed' /\ closed \subseteq closed'
<1>1. CASE Deliver
  BY <1>1, HandleKeeps DEF Deliver
<1>2. CASE native' = native
  BY <1>2 DEF native, ClosedStayClosed
<1>3. Tabbing => native' = native
  BY DEF Tabbing, NewSession, Split, ClosePane, CloseTab, DeleteSession, Open, Switch, Handler
<1>4. Meta \/ Resize \/ Overtake \/ Reload \/ Restore \/ Answer => native' = native
  BY DEF Meta, Resize, Overtake, Reload, Restore, Answer
<1>5. (\E p \in Panes : Frame(p) \/ Timer(p)) => native' = native
  BY DEF Frame, Timer
<1> QED  BY <1>1, <1>2, <1>3, <1>4, <1>5 DEF Next, vars

(* A closed terminal never comes back, for any number of panes, calls that *)
(* overtake others, and reloads (ghostty_native.rs is_closed).             *)
THEOREM ClosedForGood == Spec => []ClosedStayClosed
<1>1. Init => ClosedStayClosed
  BY DEF Init, ClosedStayClosed
<1>2. ClosedStayClosed /\ [Next]_vars => ClosedStayClosed'
  BY StepClosed
<1> QED  BY <1>1, <1>2, PTL DEF Spec

(* And nothing reopens one: closed tabs only grow, also over a reload,     *)
(* which resets the generation alone (ghostty_native.rs reset_generation). *)
THEOREM ClosedGrows == Spec => [][closed \subseteq closed']_vars
<1>1. ClosedStayClosed /\ [Next]_vars => [closed \subseteq closed']_vars
  BY StepClosed
<1> QED  BY <1>1, ClosedForGood, PTL DEF Spec

-----------------------------------------------------------------------------
(* The invariant.                                                          *)

(* A call that ends the show of p.                                         *)
Ends(c, p) == c.pane = p /\ c.op \in {"hide", "close"}

(* The i-th call cannot show p for good: it is stale when it comes, or a   *)
(* call that ends the show follows.                                        *)
Fenced(p, i) == \/ calls[i].gen < latest
                \/ \E j \in DOMAIN calls : Ends(calls[j], p) /\ (i < j \/ calls[i].gen < calls[j].gen)

(* A pane that will not be visible when all calls are carried out.         *)
Gone(p) ==
  /\ p \in visible => \E j \in DOMAIN calls : Ends(calls[j], p)
  /\ \A i \in DOMAIN calls : calls[i].op = "show" /\ calls[i].pane = p => Fenced(p, i)
  /\ host[p].frame # None =>
       \/ host[p].frame < latest
       \/ \E j \in DOMAIN calls : Ends(calls[j], p) /\ host[p].frame < calls[j].gen

(* A pane of the terminal that is on the stage and active.                 *)
Wanted(p) == IsActive /\ p \in Mounted

(* With no terminal on the stage all is hidden, whatever changed places.   *)
Bare ==
  \/ \E j \in DOMAIN calls : /\ calls[j].op = "hide_all" /\ calls[j].gen = gen
                             /\ \A i \in DOMAIN calls : calls[i].op = "show" => calls[i].gen < gen
  \/ visible = {} /\ \A i \in DOMAIN calls : calls[i].op = "show" => calls[i].gen < latest

Cleared ==
  /\ \A p \in Panes \ overtook : Wanted(p) \/ Gone(p)
  /\ Mounted = {} => Bare

(* Between a reload and the end of the start: what stays visible is what   *)
(* will be on the stage again.                                             *)
Kept == saved[ws]
Starts ==
  /\ tabs = <<>> /\ answers = <<>> /\ gen = 1 /\ \A p \in Panes : host[p] = NoHost
  /\ \A i \in DOMAIN calls : calls[i] \in {Call("hide_all", 1, None), Call("reset", 0, None)}
  /\ \A p \in visible \ overtook :
       /\ Kept.active \in Panes /\ Stage(Kept.open, Kept.active) = Kept.active
       /\ p \in OnStage(sess[ws], Kept.open, Kept.active)
  /\ visible # {} => OnStage(sess[ws], Kept.open, Kept.active) # {}
  /\ (\E i \in DOMAIN calls : calls[i].op = "reset") \/ latest <= 1

CallType == [op : {"show", "hide", "close", "hide_all", "reset"}, gen : Nat,
             pane : Panes \cup {None}, heard : BOOLEAN]
Times    == Nat \cup {None}
Tabs(s, w, bar) == \A i \in DOMAIN bar : bar[i] \in Panes => s[w][bar[i]] # {}

Types ==
  /\ sess \in [Workspaces -> [Panes -> SUBSET Panes]] /\ ws \in Workspaces
  /\ tabs \in Seq(Panes \cup {Other})
  /\ made \in Nat /\ gen \in Nat /\ latest \in Nat /\ visible \subseteq Panes
  /\ host \in [Panes -> [frame : Times, retry : Times]]
  /\ calls \in Seq(CallType) /\ answers \in Seq([pane : Panes, gen : Nat, ok : BOOLEAN])

(* The terminals of a tab bar have panes.                                  *)
Sessions ==
  /\ Tabs(sess, ws, tabs)
  /\ DOMAIN saved = Workspaces
  /\ \A w \in Workspaces : saved[w].open \in Seq(Panes) /\ (w # ws \/ ~ready => Tabs(sess, w, saved[w].open))

(* No generation is ahead of the window's.                                 *)
Gens ==
  /\ \A i \in DOMAIN calls : calls[i].gen <= gen
  /\ \A p \in Panes : /\ host[p].frame # None => host[p].frame \in Nat /\ host[p].frame <= gen
                      /\ host[p].retry # None => host[p].retry \in Nat /\ host[p].retry <= gen
  /\ ready => latest <= gen

(* Only what is on the stage has a component, and hears answers.           *)
Hosts ==
  /\ \A p \in Panes : p \in Mounted \/ host[p] = NoHost
  /\ \A i \in DOMAIN answers : answers[i].pane \in Mounted
  /\ \A i \in DOMAIN calls : calls[i].op = "show" => calls[i].pane \in Panes /\ (calls[i].heard => calls[i].pane \in Mounted)
  /\ ready => \A i \in DOMAIN calls : calls[i].op # "reset"

TerminalInv == Types /\ Sessions /\ Gens /\ Hosts /\ (IF ready THEN Cleared ELSE Starts)

-----------------------------------------------------------------------------
(* Lists and calls.                                                        *)

(* A property of numbers that holds at 0, and at each one after it holds   *)
(* below, holds up to n: given as the set of the numbers that have it.     *)
LEMMA UpTo ==
  ASSUME NEW n \in Nat, NEW P, 0 \in P, \A i \in 1..n : i - 1 \in P => i \in P
  PROVE  0..n \subseteq P
<1> SUFFICES ASSUME (0..n) \ P # {} PROVE FALSE
  OBVIOUS
<1> DEFINE Rest == (0..n) \ P
<1>1. Rest \subseteq Nat /\ Rest # {}
  OBVIOUS
<1>2. PICK m \in Rest : \A i \in Rest : <<i, m>> \notin OpToRel(<, Nat)
  BY <1>1, WFMin, NatLessThanWellFounded
<1>3. OpToRel(<, Nat) = {ss \in Nat \X Nat : ss[1] < ss[2]}
  BY DEF OpToRel
<1>4. \A i \in Rest : ~(i < m)
  BY <1>1, <1>2, <1>3
<1>5. m \in 0..n /\ m \notin P /\ m # 0
  BY <1>2
<1>6. m \in 1..n /\ m - 1 \in 0..n /\ m - 1 < m
  BY <1>5
<1>7. m - 1 \in Rest
  BY <1>5, <1>6
<1> QED  BY <1>4, <1>6, <1>7

(* Only keeps members of S that were in the list.                          *)
LEMMA OnlyKeeps ==
  ASSUME NEW T, NEW q \in Seq(T), NEW S
  PROVE  /\ Only(q, S) \in Seq(T \cap S)
         /\ \A j \in DOMAIN q : q[j] \in S => \E k \in DOMAIN Only(q, S) : Only(q, S)[k] = q[j]
<1> DEFINE n == Len(q)
           Next1(r, i) == IF q[i] \in S THEN Append(r, q[i]) ELSE r
           R == Seq(T \cap S)
           F(g, m) == \A i \in 0..m : g[i] = IF i = 0 THEN << >> ELSE Next1(g[i - 1], i)
<1>1. n \in Nat /\ << >> \in R /\ \A i \in 1..n, r \in R : Next1(r, i) \in R
  OBVIOUS
<1> HIDE DEF R, Next1
<1>2. \E g \in [0..n -> R] : F(g, n)
  <2> DEFINE P == {m \in 0..n : \E g \in [0..m -> R] : F(g, m)}
  <2>1. 0 \in P
    <3> DEFINE g == [i \in 0..0 |-> << >>]
    <3>1. g \in [0..0 -> R]
      BY <1>1
    <3>2. F(g, 0)
      OBVIOUS
    <3> HIDE DEF g, F
    <3> QED  BY <1>1, <3>1, <3>2
  <2>2. ASSUME NEW m \in 1..n, m - 1 \in P PROVE m \in P
    <3>1. PICK g \in [0..(m - 1) -> R] : F(g, m - 1)
      <4> HIDE DEF F
      <4> QED  BY <2>2
    <3> DEFINE h == [i \in 0..m |-> IF i = m THEN Next1(g[m - 1], m) ELSE g[i]]
    <3>2. g[m - 1] \in R
      BY <1>1
    <3>3. h \in [0..m -> R]
      BY <1>1, <3>2
    <3>4. F(h, m)
      BY <1>1, <3>1
    <3> HIDE DEF h, F
    <3> QED  BY <3>3, <3>4
  <2> HIDE DEF P, F
  <2>3. 0..n \subseteq P
    BY <1>1, <2>1, <2>2, UpTo
  <2>4. n \in P
    BY <1>1, <2>3
  <2> QED  BY <2>4 DEF P
<1> DEFINE kept == CHOOSE g : g = [i \in 0..n |-> IF i = 0 THEN << >> ELSE Next1(g[i - 1], i)]
<1>3. kept = [i \in 0..n |-> IF i = 0 THEN << >> ELSE Next1(kept[i - 1], i)]
  <2>1. PICK g \in [0..n -> R] : F(g, n)
    BY <1>2
  <2>2. g = [i \in 0..n |-> IF i = 0 THEN << >> ELSE Next1(g[i - 1], i)]
    BY <2>1
  <2> QED  BY <2>2
<1>4. Only(q, S) = kept[n]
  BY DEF Only, Next1
<1> HIDE DEF kept
<1>5. \A i \in 0..n : kept[i] \in R
  <2> DEFINE P == {i \in 0..n : kept[i] \in R}
  <2>1. 0 \in P
    BY <1>1, <1>3
  <2>2. \A i \in 1..n : i - 1 \in P => i \in P
    BY <1>1, <1>3
  <2> HIDE DEF P
  <2>3. 0..n \subseteq P
    BY <1>1, <2>1, <2>2, UpTo
  <2> QED  BY <2>3 DEF P
<1> DEFINE Has(r, j) == \E k \in DOMAIN r : r[k] = q[j]
<1>6. \A j \in 1..n : q[j] \in S => Has(kept[n], j)
  <2> SUFFICES ASSUME NEW j \in 1..n, q[j] \in S PROVE Has(kept[n], j)
    OBVIOUS
  <2> DEFINE P == {i \in 0..n : i < j \/ Has(kept[i], j)}
  <2>1. 0 \in P
    BY <1>1
  <2>2. ASSUME NEW i \in 1..n, i - 1 \in P PROVE i \in P
    <3>1. kept[i] = Next1(kept[i - 1], i) /\ kept[i - 1] \in Seq(T \cap S) /\ q[i] \in T
      <4>1. i \in 0..n /\ i - 1 \in 0..n /\ i # 0 /\ q[i] \in T
        BY <1>1
      <4>2. kept[i] = Next1(kept[i - 1], i)
        BY <1>3, <4>1
      <4>3. kept[i - 1] \in R
        BY <1>5, <4>1
      <4> QED  BY <4>1, <4>2, <4>3 DEF R
    <3>2. CASE i < j
      BY <1>1, <3>2
    <3>3. CASE i = j
      <4>1. kept[i] = Append(kept[i - 1], q[j])
        BY <3>1, <3>3 DEF Next1
      <4>2. Has(kept[i], j)
        BY <3>1, <4>1
      <4> QED  BY <4>2
    <3>4. CASE i > j
      <4>1. Has(kept[i - 1], j)
        BY <1>1, <2>2, <3>4
      <4>2. kept[i] = kept[i - 1] \/ (q[i] \in T \cap S /\ kept[i] = Append(kept[i - 1], q[i]))
        BY <3>1 DEF Next1
      <4>3. CASE kept[i] = kept[i - 1]
        BY <4>1, <4>3
      <4>4. CASE q[i] \in T \cap S /\ kept[i] = Append(kept[i - 1], q[i])
        <5>1. PICK r : r = kept[i - 1]
          OBVIOUS
        <5>2. r \in Seq(T \cap S) /\ kept[i] = Append(r, q[i]) /\ q[i] \in T \cap S
          BY <3>1, <4>4, <5>1
        <5>3. PICK k \in DOMAIN r : r[k] = q[j]
          BY <4>1, <5>1
        <5>4. k \in DOMAIN kept[i] /\ kept[i][k] = q[j]
          BY <5>2, <5>3
        <5> QED  BY <5>4
      <4> QED  BY <4>2, <4>3, <4>4
    <3> QED  BY <1>1, <3>2, <3>3, <3>4
  <2> HIDE DEF P
  <2>3. 0..n \subseteq P
    BY <1>1, <2>1, <2>2, UpTo
  <2>4. n \in P
    BY <1>1, <2>3
  <2> QED  BY <1>1, <2>4 DEF P
<1>7. kept[n] \in R
  BY <1>1, <1>5
<1> QED  BY <1>4, <1>6, <1>7 DEF R

(* What Only leaves are elements of q that are in S, and all of them.      *)
LEMMA OnlyIs ==
  ASSUME NEW T, NEW q \in Seq(T), NEW S
  PROVE  /\ Only(q, S) \in Seq(T)
         /\ \A k \in DOMAIN Only(q, S) : Only(q, S)[k] \in S /\ \E j \in DOMAIN q : Only(q, S)[k] = q[j]
         /\ \A j \in DOMAIN q : q[j] \in S => \E k \in DOMAIN Only(q, S) : Only(q, S)[k] = q[j]
<1> DEFINE E == {q[i] : i \in DOMAIN q}
<1>1. q \in Seq(E) /\ E \subseteq T
  OBVIOUS
<1> HIDE DEF E
<1>2. PICK o : o = Only(q, S)
  OBVIOUS
<1>3. /\ o \in Seq(E \cap S)
      /\ \A j \in DOMAIN q : q[j] \in S => \E k \in DOMAIN o : o[k] = q[j]
  BY <1>1, <1>2, OnlyKeeps
<1>4. \A k \in DOMAIN o : o[k] \in E \cap S
  BY <1>3
<1>5. o \in Seq(T)
  <2>1. o \in [1..Len(o) -> E \cap S] /\ Len(o) \in Nat
    BY <1>3
  <2>2. o \in [1..Len(o) -> T]
    BY <1>1, <2>1
  <2> QED  BY <2>1, <2>2
<1> QED  BY <1>2, <1>3, <1>4, <1>5 DEF E

(* CallsOf has a call for every pane of S.                                 *)
LEMMA CallsOfIs ==
  ASSUME NEW S \in SUBSET Panes, NEW op, NEW g
  PROVE  LET q == CallsOf(op, S, g)
         IN /\ q \in Seq({Call(op, g, p) : p \in S})
            /\ \A p \in S : \E i \in DOMAIN q : q[i] = Call(op, g, p)
<1>1. IsFiniteSet(S)
  <2>1. MaxPanes \in Int /\ 1 \in Int
    BY TerminalAssumption
  <2>2. IsFiniteSet(Panes)
    BY <2>1, FS_Interval DEF Panes
  <2> QED  BY <2>2, FS_Subset
<1> DEFINE n == Cardinality(S)
<1>2. n \in Nat /\ IsFiniteSet(1..n) /\ Cardinality(1..n) = n
  <2>1. n \in Nat
    BY <1>1, FS_CardinalityType
  <2>2. n \in Int /\ 1 \in Int /\ (IF 1 > n THEN 0 ELSE n - 1 + 1) = n
    BY <2>1
  <2> HIDE DEF n
  <2> QED  BY <2>1, <2>2, FS_Interval
<1>3. PICK f : f = SetToSeq(S)
  OBVIOUS
<1>4. f \in [1..n -> S] /\ IsInjective(f)
  <2>1. PICK b \in Bijection(1..n, S) : TRUE
    BY <1>1, FS_CardinalityType DEF ExistsBijection
  <2>2. b \in [1..n -> S] /\ IsInjective(b)
    BY <2>1 DEF Bijection, Injection
  <2> QED  BY <1>3, <2>2 DEF SetToSeq
<1> HIDE DEF n
<1>5. f \in Surjection(1..n, S)
  <2>1. f \in Injection(1..n, S)
    BY <1>4 DEF Injection
  <2>2. Cardinality(1..n) = Cardinality(S)
    BY <1>2 DEF n
  <2> QED  BY <1>1, <2>1, <2>2, FS_Injection
<1>6. \A p \in S : \E i \in 1..n : f[i] = p
  BY <1>4, <1>5 DEF Surjection
<1>7. PICK q : q = CallsOf(op, S, g)
  OBVIOUS
<1>8. q = [i \in 1..n |-> Call(op, g, f[i])]
  BY <1>3, <1>7 DEF CallsOf, n
<1>9. q \in Seq({Call(op, g, p) : p \in S})
  <2>1. q \in [1..n -> {Call(op, g, p) : p \in S}]
    BY <1>4, <1>8
  <2> QED  BY <1>2, <2>1
<1> QED  BY <1>6, <1>7, <1>8, <1>9

(* What a render is given: the tabs of a workspace with their panes, and   *)
(* calls the handler itself has sent, none of them a show. The generation  *)
(* moves on when the stage changes, and always when it stops being active. *)
FreshBy(w, bar, act, touched) == touched \/ w # ws \/ Stage(bar, act) # Stage(tabs, active)
Acts(bar, act)                == Stage(bar, act) \in Panes /\ act = Stage(bar, act)
Ending                        == {c \in CallType : c.op \in {"hide", "close", "hide_all"}}
Fits(s, w, bar, act, touched, pre, g0) ==
  /\ s \in [Workspaces -> [Panes -> SUBSET Panes]] /\ w \in Workspaces /\ bar \in Seq(Panes \cup {Other})
  /\ Tabs(s, w, bar)
  /\ g0 \in Nat /\ gen <= g0 /\ (g0 # gen => w # ws)
  /\ pre \in Seq(Ending) /\ \A i \in DOMAIN pre : pre[i].gen <= g0
  /\ ~FreshBy(w, bar, act, touched) => OnStage(s[w], bar, act) = Mounted
  /\ IsActive /\ ~Acts(bar, act) => FreshBy(w, bar, act, touched)

(* Calls that are put behind those there are.                              *)
Follows(a, b, c) ==
  /\ c \in Seq(CallType)
  /\ \A i \in DOMAIN a : i \in DOMAIN c /\ c[i] = a[i]
  /\ \A i \in DOMAIN b : Len(a) + i \in DOMAIN c /\ c[Len(a) + i] = b[i]
  /\ \A i \in DOMAIN c : i \in DOMAIN a \/ \E k \in DOMAIN b : i = Len(a) + k /\ c[i] = b[k]

(* That is what comes of putting b behind a.                               *)
LEMMA Behind ==
  ASSUME NEW a \in Seq(CallType), NEW b \in Seq(CallType)
  PROVE  Follows(a, b, a \o b)
<1>1. PICK c : c = a \o b
  OBVIOUS
<1>2. PICK m \in Nat, n \in Nat : m = Len(a) /\ n = Len(b)
  OBVIOUS
<1>3. c \in Seq(CallType) /\ Len(c) = m + n /\ \A i \in 1..(m + n) : c[i] = IF i <= m THEN a[i] ELSE b[i - m]
  BY <1>1, <1>2, ConcatProperties
<1>4. DOMAIN a = 1..m /\ DOMAIN b = 1..n /\ DOMAIN c = 1..(m + n)
  BY <1>2, <1>3
<1>5. \A i \in 1..m : i \in 1..(m + n) /\ c[i] = a[i]
  BY <1>2, <1>3
<1>6. \A i \in 1..n : m + i \in 1..(m + n) /\ c[m + i] = b[i]
  <2> SUFFICES ASSUME NEW i \in 1..n PROVE m + i \in 1..(m + n) /\ c[m + i] = b[i]
    OBVIOUS
  <2>1. m + i \in 1..(m + n) /\ ~(m + i <= m) /\ m + i - m = i
    BY <1>2
  <2> QED  BY <1>3, <2>1
<1>7. \A i \in 1..(m + n) : i \in 1..m \/ \E k \in 1..n : i = m + k /\ c[i] = b[k]
  <2> SUFFICES ASSUME NEW i \in 1..(m + n), i \notin 1..m PROVE \E k \in 1..n : i = m + k /\ c[i] = b[k]
    OBVIOUS
  <2>1. PICK k : k = i - m
    OBVIOUS
  <2>2. k \in 1..n /\ i = m + k
    BY <1>2, <2>1
  <2> QED  BY <1>6, <2>2
<1> QED  BY <1>1, <1>2, <1>3, <1>4, <1>5, <1>6, <1>7 DEF Follows

(* A call that is not heard any more is the same call.                     *)
LEMMA UnheardIs ==
  ASSUME NEW q \in Seq(CallType), NEW S
  PROVE  /\ Unheard(q, S) \in Seq(CallType) /\ Len(Unheard(q, S)) = Len(q)
         /\ \A i \in DOMAIN q : LET c == Unheard(q, S)[i]
                                IN /\ c.op = q[i].op /\ c.gen = q[i].gen /\ c.pane = q[i].pane
                                   /\ c.heard => q[i].heard /\ q[i].pane \notin S
<1> DEFINE U(i) == IF q[i].pane \in S THEN [q[i] EXCEPT !.heard = FALSE] ELSE q[i]
<1>1. \A i \in DOMAIN q : /\ U(i) \in CallType
                          /\ U(i).op = q[i].op /\ U(i).gen = q[i].gen /\ U(i).pane = q[i].pane
                          /\ U(i).heard => q[i].heard /\ q[i].pane \notin S
  <2> SUFFICES ASSUME NEW i \in DOMAIN q
               PROVE  /\ U(i) \in CallType
                      /\ U(i).op = q[i].op /\ U(i).gen = q[i].gen /\ U(i).pane = q[i].pane
                      /\ U(i).heard => q[i].heard /\ q[i].pane \notin S
    OBVIOUS
  <2>1. PICK c : c = q[i]
    OBVIOUS
  <2>2. c \in CallType
    BY <2>1
  <2>3. [c EXCEPT !.heard = FALSE] \in CallType
    BY <2>2 DEF CallType
  <2>4. CASE c.pane \in S
    BY <2>1, <2>2, <2>3, <2>4 DEF CallType
  <2>5. CASE c.pane \notin S
    BY <2>1, <2>2, <2>5
  <2> QED  BY <2>4, <2>5
<1>2. Unheard(q, S) = [i \in DOMAIN q |-> U(i)] /\ DOMAIN q = 1..Len(q) /\ Len(q) \in Nat
  BY DEF Unheard
<1> HIDE DEF U
<1>3. Unheard(q, S) \in [1..Len(q) -> CallType]
  BY <1>1, <1>2
<1>4. Unheard(q, S) \in Seq(CallType) /\ Len(Unheard(q, S)) = Len(q)
  BY <1>2, <1>3
<1> QED  BY <1>1, <1>2, <1>4

(* A hide or close for every pane of S.                                    *)
LEMMA EndingIs ==
  ASSUME NEW S \in SUBSET Panes, NEW op \in {"hide", "close"}, NEW g \in Nat
  PROVE  /\ CallsOf(op, S, g) \in Seq(Ending)
         /\ \A i \in DOMAIN CallsOf(op, S, g) : CallsOf(op, S, g)[i].gen = g
         /\ \A p \in S : \E i \in DOMAIN CallsOf(op, S, g) :
              Ends(CallsOf(op, S, g)[i], p) /\ CallsOf(op, S, g)[i].gen = g
<1>1. PICK q : q = CallsOf(op, S, g)
  OBVIOUS
<1>2. q \in Seq({Call(op, g, p) : p \in S}) /\ \A p \in S : \E i \in DOMAIN q : q[i] = Call(op, g, p)
  BY <1>1, CallsOfIs
<1>3. \A p \in S : Call(op, g, p) \in Ending /\ Call(op, g, p).gen = g /\ Ends(Call(op, g, p), p)
  BY DEF Call, Ending, CallType, Ends
<1> DEFINE C == {Call(op, g, p) : p \in S}
<1>4. C \subseteq Ending /\ \A c \in C : c.gen = g
  BY <1>3
<1>5. \A i \in DOMAIN q : q[i] \in C
  BY <1>2
<1>6. q \in Seq(Ending)
  <2>1. q \in [1..Len(q) -> C] /\ Len(q) \in Nat
    BY <1>2
  <2> HIDE DEF C
  <2>2. q \in [1..Len(q) -> Ending]
    BY <1>4, <2>1
  <2> QED  BY <2>1, <2>2
<1> QED  BY <1>1, <1>2, <1>3, <1>4, <1>5, <1>6

-----------------------------------------------------------------------------
(* Renders.                                                                *)

GenBy(w, bar, act, touched, g0) == IF FreshBy(w, bar, act, touched) THEN g0 + 1 ELSE g0
LeftBy(s, w, bar, act)          == IF w # ws THEN Mounted ELSE Mounted \ OnStage(s[w], bar, act)
RunsBy(w, bar, act, touched)    == FreshBy(w, bar, act, touched) \/ Acts(bar, act) # IsActive

(* c is a with calls behind it that end shows, none of them ahead of g.    *)
Grown(a, c, g) ==
  /\ c \in Seq(CallType)
  /\ \A i \in DOMAIN a : i \in DOMAIN c /\ c[i] = a[i]
  /\ \A j \in DOMAIN c : j \in DOMAIN a \/ (c[j] \in Ending /\ c[j].gen <= g /\ \A i \in DOMAIN a : i < j)
Joins(a, c, x) == \E j \in DOMAIN c : j \notin DOMAIN a /\ c[j] = x

(* Calls that end shows are put behind the others.                         *)
LEMMA Grows ==
  ASSUME NEW a \in Seq(CallType), NEW b \in Seq(Ending), NEW g, \A i \in DOMAIN b : b[i].gen <= g
  PROVE  Grown(a, a \o b, g) /\ \A k \in DOMAIN b : Joins(a, a \o b, b[k])
<1>1. b \in Seq(CallType) /\ \A k \in DOMAIN b : b[k] \in Ending
  <2>1. b \in [1..Len(b) -> Ending] /\ Len(b) \in Nat /\ Ending \subseteq CallType
    BY DEF Ending
  <2>2. b \in [1..Len(b) -> CallType]
    BY <2>1
  <2> QED  BY <2>1, <2>2
<1>2. PICK c : c = a \o b
  OBVIOUS
<1>3. PICK m \in Nat : m = Len(a)
  OBVIOUS
<1>4. /\ c \in Seq(CallType)
      /\ \A i \in DOMAIN a : i \in DOMAIN c /\ c[i] = a[i]
      /\ \A i \in DOMAIN b : m + i \in DOMAIN c /\ c[m + i] = b[i]
      /\ \A i \in DOMAIN c : i \in DOMAIN a \/ \E k \in DOMAIN b : i = m + k /\ c[i] = b[k]
  <2>1. Follows(a, b, c)
    BY <1>1, <1>2, Behind
  <2> QED  BY <1>3, <2>1 DEF Follows
<1>5. DOMAIN a = 1..m /\ \A k \in DOMAIN b : k \in Nat /\ k >= 1
  BY <1>1, <1>3
<1>6. \A k \in DOMAIN b : m + k \notin DOMAIN a /\ \A i \in DOMAIN a : i < m + k
  BY <1>3, <1>5
<1>7. Grown(a, c, g)
  <2>1. \A j \in DOMAIN c : j \in DOMAIN a \/ (c[j] \in Ending /\ c[j].gen <= g /\ \A i \in DOMAIN a : i < j)
    BY <1>1, <1>4, <1>6
  <2> QED  BY <1>4, <2>1 DEF Grown
<1>8. \A k \in DOMAIN b : Joins(a, c, b[k])
  BY <1>4, <1>6 DEF Joins
<1> QED  BY <1>2, <1>7, <1>8

(* And more behind those.                                                  *)
LEMMA GrownFurther ==
  ASSUME NEW a, NEW b, NEW c, NEW g, Grown(a, b, g), Grown(b, c, g)
  PROVE  /\ Grown(a, c, g)
         /\ \A x : Joins(a, b, x) \/ Joins(b, c, x) => Joins(a, c, x)
<1>1. \A j \in DOMAIN c : j \in DOMAIN a \/ (c[j] \in Ending /\ c[j].gen <= g /\ \A i \in DOMAIN a : i < j)
  BY DEF Grown
<1>2. Grown(a, c, g)
  BY <1>1 DEF Grown
<1>3. ASSUME NEW x, Joins(a, b, x) PROVE Joins(a, c, x)
  BY <1>3 DEF Joins, Grown
<1>4. ASSUME NEW x, Joins(b, c, x) PROVE Joins(a, c, x)
  BY <1>4 DEF Joins, Grown
<1> QED  BY <1>2, <1>3, <1>4

(* What is on the stage are panes.                                         *)
LEMMA OnStageIs ==
  ASSUME NEW f \in [Panes -> SUBSET Panes], NEW bar, NEW act
  PROVE  OnStage(f, bar, act) \in SUBSET Panes
  BY DEF OnStage

(* The same of the window as it is.                                        *)
LEMMA MountedIs == ASSUME Types PROVE Mounted \in SUBSET Panes
<1>1. sess[ws] \in [Panes -> SUBSET Panes]
  BY DEF Types
<1> QED  BY <1>1, OnStageIs DEF Mounted

(* The calls of a render.                                                  *)
LEMMA RenderCalls ==
  ASSUME Types, NEW s, NEW w, NEW bar, NEW act, NEW touched \in BOOLEAN, NEW pre, NEW g0,
         Fits(s, w, bar, act, touched, pre, g0), Render(s, w, bar, act, touched, pre, g0)
  PROVE  LET u     == Unheard(calls, LeftBy(s, w, bar, act))
             g     == GenBy(w, bar, act, touched, g0)
             new   == OnStage(s[w], bar, act)
         IN /\ g \in Nat /\ g0 <= g
            /\ Grown(u, calls', g)
            /\ \A p \in LeftBy(s, w, bar, act) : \E x : Joins(u, calls', x) /\ Ends(x, p)
            /\ RunsBy(w, bar, act, touched) /\ ~Acts(bar, act) =>
                 \A p \in new : \E x : Joins(u, calls', x) /\ Ends(x, p) /\ x.gen = g
            /\ FreshBy(w, bar, act, touched) /\ Stage(bar, act) \notin Panes =>
                 Joins(u, calls', Call("hide_all", g, None))
<1> DEFINE left  == LeftBy(s, w, bar, act)
           new   == OnStage(s[w], bar, act)
           fresh == FreshBy(w, bar, act, touched)
           g     == GenBy(w, bar, act, touched, g0)
           u     == Unheard(calls, left)
           h     == CallsOf("hide", left, g0)
           a     == IF fresh /\ Stage(bar, act) \notin Panes THEN <<Call("hide_all", g, None)>> ELSE <<>>
           runs  == RunsBy(w, bar, act, touched)
           b     == IF runs /\ ~Acts(bar, act) THEN CallsOf("hide", new, g) ELSE <<>>
<1>1. calls' = u \o pre \o h \o a \o b
  BY DEF Render, LeftBy, FreshBy, GenBy, RunsBy, Acts, IsActive
<1>2. g0 \in Nat /\ g \in Nat /\ g0 <= g /\ g <= g
  BY DEF Fits, GenBy
<1>3. left \in SUBSET Panes /\ new \in SUBSET Panes
  <2>1. s[w] \in [Panes -> SUBSET Panes]
    BY DEF Fits
  <2> QED  BY <2>1, MountedIs, OnStageIs DEF LeftBy
<1>4. u \in Seq(CallType)
  BY UnheardIs DEF Types
<1>5. pre \in Seq(Ending) /\ \A i \in DOMAIN pre : pre[i].gen <= g
  <2>1. \A i \in DOMAIN pre : pre[i].gen \in Nat /\ pre[i].gen <= g0
    BY DEF Fits, Ending, CallType
  <2> QED  BY <1>2, <2>1 DEF Fits
<1>6. h \in Seq(Ending) /\ (\A i \in DOMAIN h : h[i].gen <= g)
      /\ \A p \in left : \E i \in DOMAIN h : Ends(h[i], p)
  <2> HIDE DEF g, left
  <2> QED  BY <1>2, <1>3, EndingIs
<1>7. b \in Seq(Ending) /\ (\A i \in DOMAIN b : b[i].gen <= g)
      /\ (runs /\ ~Acts(bar, act) => \A p \in new : \E i \in DOMAIN b : Ends(b[i], p) /\ b[i].gen = g)
  <2>1. <<>> \in Seq(Ending) /\ DOMAIN <<>> = {}
    OBVIOUS
  <2>2. CASE runs /\ ~Acts(bar, act)
    <3>1. b = CallsOf("hide", new, g)
      BY <2>2
    <3>2. PICK n, x, y : n = new /\ x = g /\ y = b
      OBVIOUS
    <3> HIDE DEF g, new, b
    <3>3. n \in SUBSET Panes /\ x \in Nat /\ y = CallsOf("hide", n, x)
      BY <1>2, <1>3, <3>1, <3>2
    <3>4. /\ CallsOf("hide", n, x) \in Seq(Ending)
          /\ \A i \in DOMAIN CallsOf("hide", n, x) : CallsOf("hide", n, x)[i].gen = x
          /\ \A p \in n : \E i \in DOMAIN CallsOf("hide", n, x) :
               Ends(CallsOf("hide", n, x)[i], p) /\ CallsOf("hide", n, x)[i].gen = x
      BY <3>3, EndingIs
    <3>5. x <= x
      BY <3>3
    <3> QED  BY <3>2, <3>3, <3>4, <3>5
  <2>3. CASE ~(runs /\ ~Acts(bar, act))
    <3>1. b = <<>>
      BY <2>3
    <3> HIDE DEF g, new, b, runs
    <3> QED  BY <2>1, <2>3, <3>1
  <2> QED  BY <2>2, <2>3
<1>8. a \in Seq(Ending) /\ (\A i \in DOMAIN a : a[i].gen <= g)
      /\ (fresh /\ Stage(bar, act) \notin Panes => \E i \in DOMAIN a : a[i] = Call("hide_all", g, None))
  <2>1. PICK x : x = Call("hide_all", g, None)
    OBVIOUS
  <2>2. x \in Ending /\ x.gen = g
    <3> HIDE DEF g
    <3> QED  BY <1>2, <2>1 DEF Call, Ending, CallType
  <2>3. <<x>> \in Seq(Ending) /\ DOMAIN <<x>> = {1} /\ <<x>>[1] = x
    BY <2>2
  <2>4. a = <<x>> \/ (a = <<>> /\ ~(fresh /\ Stage(bar, act) \notin Panes))
    BY <2>1
  <2> HIDE DEF a, g, fresh
  <2>5. CASE a = <<x>>
    BY <1>2, <2>1, <2>2, <2>3, <2>5
  <2>6. CASE a = <<>> /\ ~(fresh /\ Stage(bar, act) \notin Panes)
    <3>1. <<>> \in Seq(Ending) /\ DOMAIN <<>> = {}
      OBVIOUS
    <3> QED  BY <2>6, <3>1
  <2> QED  BY <2>4, <2>5, <2>6
<1> HIDE DEF u, h, a, b, g, left, new, fresh, runs
<1>9. Grown(u, u \o pre, g) /\ u \o pre \in Seq(CallType)
  BY <1>4, <1>5, Grows DEF Grown
<1>10. PICK v : v = u \o pre
  OBVIOUS
<1>11. PICK x : x = v \o h
  OBVIOUS
<1>12. Grown(v, x, g) /\ x \in Seq(CallType) /\ \A k \in DOMAIN h : Joins(v, x, h[k])
  BY <1>6, <1>9, <1>10, <1>11, Grows DEF Grown
<1>13. PICK y : y = x \o a
  OBVIOUS
<1>14. Grown(x, y, g) /\ y \in Seq(CallType) /\ \A k \in DOMAIN a : Joins(x, y, a[k])
  BY <1>8, <1>12, <1>13, Grows DEF Grown
<1>15. PICK z : z = y \o b
  OBVIOUS
<1>16. Grown(y, z, g) /\ z \in Seq(CallType) /\ \A k \in DOMAIN b : Joins(y, z, b[k])
  BY <1>7, <1>14, <1>15, Grows DEF Grown
<1>17. calls' = z
  BY <1>1, <1>10, <1>11, <1>13, <1>15
<1>18. Grown(u, x, g) /\ \A k \in DOMAIN h : Joins(u, x, h[k])
  BY <1>9, <1>10, <1>12, GrownFurther
<1>19. Grown(u, y, g) /\ (\A k \in DOMAIN h : Joins(u, y, h[k])) /\ \A k \in DOMAIN a : Joins(u, y, a[k])
  BY <1>14, <1>18, GrownFurther
<1>20. /\ Grown(u, z, g)
       /\ \A k \in DOMAIN h : Joins(u, z, h[k])
       /\ \A k \in DOMAIN a : Joins(u, z, a[k])
       /\ \A k \in DOMAIN b : Joins(u, z, b[k])
  BY <1>16, <1>19, GrownFurther
<1>21. \A p \in left : \E c : Joins(u, z, c) /\ Ends(c, p)
  BY <1>6, <1>20
<1>22. runs /\ ~Acts(bar, act) => \A p \in new : \E c : Joins(u, z, c) /\ Ends(c, p) /\ c.gen = g
  BY <1>7, <1>20
<1>23. fresh /\ Stage(bar, act) \notin Panes => Joins(u, z, Call("hide_all", g, None))
  BY <1>8, <1>20
<1> QED  BY <1>2, <1>17, <1>20, <1>21, <1>22, <1>23 DEF u, g, left, new, fresh, runs

(* A call is of its type.                                                  *)
LEMMA CallIs ==
  ASSUME Types
  PROVE  calls \in Seq(CallType) /\ \A i \in DOMAIN calls : calls[i] \in CallType /\ calls[i].gen \in Nat /\ calls[i].heard \in BOOLEAN
<1>1. \A c \in CallType : c.gen \in Nat /\ c.heard \in BOOLEAN
  BY DEF CallType
<1>2. calls \in Seq(CallType)
  BY DEF Types
<1>3. \A i \in DOMAIN calls : calls[i] \in CallType
  BY <1>2
<1> QED  BY <1>1, <1>2, <1>3

(* The window after a render.                                              *)
LEMMA RenderIs ==
  ASSUME Types, NEW s, NEW w, NEW bar, NEW act, NEW touched \in BOOLEAN, NEW pre, NEW g0,
         Fits(s, w, bar, act, touched, pre, g0), Render(s, w, bar, act, touched, pre, g0)
  PROVE  /\ sess' = s /\ ws' = w /\ tabs' = bar /\ gen' = GenBy(w, bar, act, touched, g0)
         /\ Mounted' = OnStage(s[w], bar, act) /\ IsActive' = Acts(bar, act)
         /\ answers' = Only(answers, {a \in ToSet(answers) : a.pane \notin LeftBy(s, w, bar, act)})
<1>1. sess' = s /\ ws' = w /\ tabs' = bar /\ active' = act
  BY DEF Render
<1>2. gen' = GenBy(w, bar, act, touched, g0)
  BY DEF Render, GenBy, FreshBy
<1>3. answers' = Only(answers, {a \in ToSet(answers) : a.pane \notin LeftBy(s, w, bar, act)})
  BY DEF Render, LeftBy
<1>4. Mounted' = OnStage(s[w], bar, act)
  BY <1>1 DEF Mounted, OnStage, Stage
<1>5. IsActive' = Acts(bar, act)
  BY <1>1 DEF IsActive, Acts, Stage
<1> QED  BY <1>1, <1>2, <1>3, <1>4, <1>5

(* A component: gone, or with what it had, or with a new frame.            *)
HostBy(h, k, new, p, g, runs, acts) ==
  /\ k \in [frame : Times, retry : Times]
  /\ p \notin new => k = NoHost
  /\ ~acts => k = NoHost \/ k.frame = h.frame
  /\ k.frame \in {None, h.frame, g} /\ k.retry \in {None, h.retry}
  /\ ~runs /\ p \in new => k = h

(* Every component after a render.                                         *)
LEMMA RenderHost ==
  ASSUME Types, NEW s, NEW w, NEW bar, NEW act, NEW touched \in BOOLEAN, NEW pre, NEW g0,
         Fits(s, w, bar, act, touched, pre, g0), Render(s, w, bar, act, touched, pre, g0)
  PROVE  /\ host' \in [Panes -> [frame : Times, retry : Times]]
         /\ \A p \in Panes : HostBy(host[p], host'[p], OnStage(s[w], bar, act), p, GenBy(w, bar, act, touched, g0),
                                    RunsBy(w, bar, act, touched), Acts(bar, act))
<1> DEFINE left  == LeftBy(s, w, bar, act)
           new   == OnStage(s[w], bar, act)
           g     == GenBy(w, bar, act, touched, g0)
           runs  == RunsBy(w, bar, act, touched)
           acts  == Acts(bar, act)
           K(p)  == IF p \notin new THEN NoHost
                    ELSE IF runs /\ acts THEN [frame |-> g, retry |-> IF p \in left \/ p \notin Mounted THEN None ELSE host[p].retry]
                    ELSE IF runs THEN [host[p] EXCEPT !.retry = None]
                    ELSE host[p]
<1>1. host' = [p \in Panes |-> K(p)]
  BY DEF Render, LeftBy, FreshBy, GenBy, RunsBy, Acts, IsActive
<1>2. g \in Nat
  BY DEF Fits, GenBy
<1> HIDE DEF left, new, g, runs, acts
<1>3. \A p \in Panes : HostBy(host[p], K(p), new, p, g, runs, acts)
  <2> SUFFICES ASSUME NEW p \in Panes PROVE HostBy(host[p], K(p), new, p, g, runs, acts)
    OBVIOUS
  <2>1. PICK h : h = host[p]
    OBVIOUS
  <2>2. h \in [frame : Times, retry : Times] /\ NoHost \in [frame : Times, retry : Times]
        /\ NoHost = [frame |-> None, retry |-> None] /\ None \in Times /\ g \in Times
    BY <1>2, <2>1 DEF Types, NoHost, Times
  <2>3. CASE p \notin new
    BY <2>2, <2>3 DEF HostBy
  <2>4. CASE p \in new /\ runs /\ acts
    <3>1. PICK t \in {None, h.retry} : K(p) = [frame |-> g, retry |-> t]
      BY <2>1, <2>4
    <3> HIDE DEF K
    <3> QED  BY <2>1, <2>2, <2>4, <3>1 DEF HostBy
  <2>5. CASE p \in new /\ runs /\ ~acts
    <3>1. K(p) = [h EXCEPT !.retry = None]
      BY <2>1, <2>5
    <3> HIDE DEF K
    <3>2. K(p).frame = h.frame /\ K(p).retry = None /\ K(p) \in [frame : Times, retry : Times]
      BY <2>2, <3>1
    <3> QED  BY <2>1, <2>5, <3>2 DEF HostBy
  <2>6. CASE p \in new /\ ~runs
    BY <2>1, <2>2, <2>6 DEF HostBy
  <2> QED  BY <2>3, <2>4, <2>5, <2>6
<1> HIDE DEF K
<1>4. \A p \in Panes : K(p) \in [frame : Times, retry : Times]
  BY <1>3 DEF HostBy
<1> QED  BY <1>1, <1>3, <1>4 DEF new, g, runs, acts

(* What the calls of a render are, for those there were.                   *)
LEMMA RenderShows ==
  ASSUME NEW q \in Seq(CallType), NEW S, NEW c, NEW g, Grown(Unheard(q, S), c, g)
  PROVE  /\ c \in Seq(CallType)
         /\ \A i \in DOMAIN q : /\ i \in DOMAIN c /\ c[i].op = q[i].op /\ c[i].gen = q[i].gen /\ c[i].pane = q[i].pane
                                /\ c[i].heard => q[i].heard /\ q[i].pane \notin S
         /\ \A j \in DOMAIN c : j \in DOMAIN q \/ (c[j] \in Ending /\ c[j].gen <= g /\ \A i \in DOMAIN q : i < j)
         /\ \A x : Joins(Unheard(q, S), c, x) => \E j \in DOMAIN c : j \notin DOMAIN q /\ c[j] = x /\ \A i \in DOMAIN q : i < j
<1>1. PICK u : u = Unheard(q, S)
  OBVIOUS
<1>2. /\ u \in Seq(CallType) /\ DOMAIN u = DOMAIN q
      /\ \A i \in DOMAIN q : /\ u[i].op = q[i].op /\ u[i].gen = q[i].gen /\ u[i].pane = q[i].pane
                             /\ u[i].heard => q[i].heard /\ q[i].pane \notin S
  BY <1>1, UnheardIs
<1>3. Grown(u, c, g)
  BY <1>1
<1>4. \A x : Joins(u, c, x) => \E j \in DOMAIN c : j \notin DOMAIN q /\ c[j] = x /\ \A i \in DOMAIN q : i < j
  BY <1>2, <1>3 DEF Grown, Joins
<1> QED  BY <1>1, <1>2, <1>3, <1>4 DEF Grown

(* A render keeps types, generations and who hears answers.                *)
LEMMA RenderKeeps ==
  ASSUME Types, Gens, Hosts, latest <= gen, made' \in Nat, native' = native, \A i \in DOMAIN calls : calls[i].op # "reset",
         NEW s, NEW w, NEW bar, NEW act, NEW touched \in BOOLEAN, NEW pre, NEW g0,
         Fits(s, w, bar, act, touched, pre, g0), Render(s, w, bar, act, touched, pre, g0)
  PROVE  Types' /\ Gens' /\ Hosts'
<1> DEFINE left  == LeftBy(s, w, bar, act)
           runs  == RunsBy(w, bar, act, touched)
           acts  == Acts(bar, act)
<1>1. PICK g, new, u : g = GenBy(w, bar, act, touched, g0) /\ new = OnStage(s[w], bar, act) /\ u = Unheard(calls, left)
  OBVIOUS
<1>2. g \in Nat /\ g0 \in Nat /\ gen \in Nat /\ g0 <= g /\ gen <= g0 /\ gen <= g /\ latest <= g
  <2>1. g \in Nat /\ g0 \in Nat /\ gen \in Nat /\ g0 <= g /\ gen <= g0 /\ latest \in Nat
    BY <1>1 DEF Fits, GenBy, Types
  <2> QED  BY <2>1
<1>3. /\ sess' = s /\ ws' = w /\ tabs' = bar /\ gen' = g /\ Mounted' = new
      /\ answers' = Only(answers, {a \in ToSet(answers) : a.pane \notin left})
  BY <1>1, RenderIs
<1>4. /\ host' \in [Panes -> [frame : Times, retry : Times]]
      /\ \A p \in Panes : HostBy(host[p], host'[p], new, p, g, runs, acts)
  BY <1>1, RenderHost
<1>5. Grown(Unheard(calls, left), calls', g)
  BY <1>1, RenderCalls
<1>6. calls \in Seq(CallType) /\ answers \in Seq([pane : Panes, gen : Nat, ok : BOOLEAN])
  BY DEF Types
<1>7. /\ calls' \in Seq(CallType)
      /\ \A i \in DOMAIN calls : /\ i \in DOMAIN calls' /\ calls'[i].op = calls[i].op /\ calls'[i].gen = calls[i].gen
                                 /\ calls'[i].pane = calls[i].pane
                                 /\ calls'[i].heard => calls[i].heard /\ calls[i].pane \notin left
      /\ \A j \in DOMAIN calls' : j \in DOMAIN calls \/ (calls'[j] \in Ending /\ calls'[j].gen <= g)
  BY <1>5, <1>6, RenderShows
<1>8. \A p \in Mounted : p \notin left => p \in new
  BY <1>1 DEF LeftBy
<1> HIDE DEF left, runs, acts
<1>9. /\ answers' \in Seq([pane : Panes, gen : Nat, ok : BOOLEAN])
      /\ \A k \in DOMAIN answers' : answers'[k].pane \notin left /\ \E j \in DOMAIN answers : answers'[k] = answers[j]
  <2> DEFINE A == {a \in ToSet(answers) : a.pane \notin left}
  <2>1. \A a \in A : a.pane \notin left
    OBVIOUS
  <2> HIDE DEF A
  <2>2. PICK o : o = answers'
    OBVIOUS
  <2>3. o = Only(answers, A)
    BY <1>3, <2>2 DEF A
  <2>4. /\ o \in Seq([pane : Panes, gen : Nat, ok : BOOLEAN])
        /\ \A k \in DOMAIN o : o[k] \in A /\ \E j \in DOMAIN answers : o[k] = answers[j]
    BY <1>6, <2>3, OnlyIs
  <2> QED  BY <2>1, <2>2, <2>4
<1>10. Types'
  <2>1. s \in [Workspaces -> [Panes -> SUBSET Panes]] /\ w \in Workspaces /\ bar \in Seq(Panes \cup {Other})
    BY DEF Fits
  <2>2. latest' = latest /\ visible' = visible
    BY DEF native
  <2> QED  BY <1>2, <1>3, <1>4, <1>7, <1>9, <2>1, <2>2 DEF Types
<1>11. Gens'
  <2>1. \A i \in DOMAIN calls' : calls'[i].gen <= g
    <3> SUFFICES ASSUME NEW i \in DOMAIN calls' PROVE calls'[i].gen <= g
      OBVIOUS
    <3>1. CASE i \in DOMAIN calls
      <4>1. calls'[i].gen = calls[i].gen /\ calls[i].gen <= gen /\ calls[i].gen \in Nat
        <5>1. calls[i].gen \in Nat
          BY <3>1, CallIs
        <5> QED  BY <1>7, <3>1, <5>1 DEF Gens
      <4> QED  BY <1>2, <4>1
    <3>2. CASE i \notin DOMAIN calls
      BY <1>7, <3>2
    <3> QED  BY <3>1, <3>2
  <2>2. \A p \in Panes : /\ host'[p].frame # None => host'[p].frame \in Nat /\ host'[p].frame <= g
                         /\ host'[p].retry # None => host'[p].retry \in Nat /\ host'[p].retry <= g
    <3> SUFFICES ASSUME NEW p \in Panes
                 PROVE  /\ host'[p].frame # None => host'[p].frame \in Nat /\ host'[p].frame <= g
                        /\ host'[p].retry # None => host'[p].retry \in Nat /\ host'[p].retry <= g
      OBVIOUS
    <3>1. host'[p].frame \in {None, host[p].frame, g} /\ host'[p].retry \in {None, host[p].retry}
      BY <1>4 DEF HostBy
    <3>2. /\ host[p].frame # None => host[p].frame \in Nat /\ host[p].frame <= gen
          /\ host[p].retry # None => host[p].retry \in Nat /\ host[p].retry <= gen
      BY DEF Gens
    <3> QED  BY <1>2, <3>1, <3>2
  <2>3. latest' <= g
    BY <1>2 DEF native
  <2> QED  BY <1>3, <2>1, <2>2, <2>3 DEF Gens
<1>12. Hosts'
  <2>1. \A p \in Panes : p \in new \/ host'[p] = NoHost
    BY <1>4 DEF HostBy
  <2>2. \A i \in DOMAIN answers' : answers'[i].pane \in new
    BY <1>8, <1>9 DEF Hosts
  <2>3. \A i \in DOMAIN calls' : /\ calls'[i].op = "show" => calls'[i].pane \in Panes /\ (calls'[i].heard => calls'[i].pane \in new)
                                 /\ calls'[i].op # "reset"
    <3> SUFFICES ASSUME NEW i \in DOMAIN calls'
                 PROVE  /\ calls'[i].op = "show" => calls'[i].pane \in Panes /\ (calls'[i].heard => calls'[i].pane \in new)
                        /\ calls'[i].op # "reset"
      OBVIOUS
    <3>1. CASE i \in DOMAIN calls
      BY <1>7, <1>8, <3>1 DEF Hosts
    <3>2. CASE i \notin DOMAIN calls
      BY <1>7, <3>2 DEF Ending
    <3> QED  BY <3>1, <3>2
  <2> QED  BY <1>3, <2>1, <2>2, <2>3 DEF Hosts
<1> QED  BY <1>10, <1>11, <1>12

(* A render that does not leave p on the stage of an active terminal has   *)
(* ended its shows, or they were ended before.                             *)
LEMMA RenderGone ==
  ASSUME Types, Gens, native' = native,
         NEW s, NEW w, NEW bar, NEW act, NEW touched \in BOOLEAN, NEW pre, NEW g0,
         Fits(s, w, bar, act, touched, pre, g0), Render(s, w, bar, act, touched, pre, g0),
         NEW p \in Panes, Wanted(p) \/ Gone(p) \/ (Acts(bar, act) /\ p \in OnStage(s[w], bar, act))
  PROVE  Wanted(p)' \/ Gone(p)'
<1> DEFINE left  == LeftBy(s, w, bar, act)
           runs  == RunsBy(w, bar, act, touched)
           acts  == Acts(bar, act)
           fresh == FreshBy(w, bar, act, touched)
<1>1. PICK g, new : g = GenBy(w, bar, act, touched, g0) /\ new = OnStage(s[w], bar, act)
  OBVIOUS
<1>2. g \in Nat /\ g0 \in Nat /\ gen \in Nat /\ g0 <= g /\ gen <= g0 /\ (fresh => gen < g)
  <2>1. g0 \in Nat /\ gen \in Nat /\ gen <= g0 /\ g = IF fresh THEN g0 + 1 ELSE g0
    BY <1>1 DEF Fits, GenBy, Types
  <2> HIDE DEF fresh
  <2> QED  BY <2>1
<1>3. gen' = g /\ Mounted' = new /\ IsActive' = acts
  BY <1>1, RenderIs
<1>4. HostBy(host[p], host'[p], new, p, g, runs, acts)
  BY <1>1, RenderHost
<1>5. /\ Grown(Unheard(calls, left), calls', g)
      /\ p \in left => \E x : Joins(Unheard(calls, left), calls', x) /\ Ends(x, p)
      /\ runs /\ ~acts /\ p \in new => \E x : Joins(Unheard(calls, left), calls', x) /\ Ends(x, p) /\ x.gen = g
  <2>1. Grown(Unheard(calls, left), calls', g)
    BY <1>1, RenderCalls
  <2>2. \A q \in left : \E x : Joins(Unheard(calls, left), calls', x) /\ Ends(x, q)
    BY RenderCalls
  <2>3. runs /\ ~acts => \A q \in new : \E x : Joins(Unheard(calls, left), calls', x) /\ Ends(x, q) /\ x.gen = g
    BY <1>1, RenderCalls
  <2> QED  BY <2>1, <2>2, <2>3
<1>6. calls \in Seq(CallType)
  BY DEF Types
<1>7. /\ calls' \in Seq(CallType)
      /\ \A i \in DOMAIN calls : /\ i \in DOMAIN calls' /\ calls'[i].op = calls[i].op /\ calls'[i].gen = calls[i].gen
                                 /\ calls'[i].pane = calls[i].pane
      /\ \A j \in DOMAIN calls' : j \in DOMAIN calls \/ calls'[j] \in Ending
      /\ \A x : Joins(Unheard(calls, left), calls', x) =>
           \E j \in DOMAIN calls' : calls'[j] = x /\ \A i \in DOMAIN calls : i < j
  BY <1>5, <1>6, RenderShows
<1>8. latest' = latest /\ visible' = visible
  BY DEF native
<1>9. /\ fresh => runs
      /\ ~fresh => new = Mounted
      /\ IsActive /\ ~acts => fresh
      /\ ~fresh /\ ~IsActive /\ ~acts => ~runs
      /\ p \in Mounted => p \in left \/ p \in new
  BY <1>1 DEF Fits, RunsBy, LeftBy, Acts, IsActive
<1> HIDE DEF left, runs, acts, fresh
<1>10. CASE acts /\ p \in new
  BY <1>3, <1>10 DEF Wanted
<1>11. ASSUME NEW j \in DOMAIN calls', Ends(calls'[j], p), \A i \in DOMAIN calls : i < j,
              host'[p].frame # None => host'[p].frame < calls'[j].gen
       PROVE  Gone(p)'
  <2>1. \A i \in DOMAIN calls' : calls'[i].op = "show" => i < j
    BY <1>7, <1>11 DEF Ending
  <2>2. \A i \in DOMAIN calls' : calls'[i].op = "show" /\ calls'[i].pane = p => Fenced(p, i)'
    BY <1>11, <2>1 DEF Fenced, Ends
  <2> QED  BY <1>11, <2>2 DEF Gone, Ends
<1>12. ASSUME Gone(p), host'[p].frame # None => host'[p].frame = host[p].frame
       PROVE  Gone(p)'
  <2>1. \A j \in DOMAIN calls : Ends(calls[j], p) => j \in DOMAIN calls' /\ Ends(calls'[j], p) /\ calls'[j].gen = calls[j].gen
    BY <1>7 DEF Ends
  <2>2. visible' = visible /\ latest' = latest
    BY <1>8
  <2>3. p \in visible' => \E j \in DOMAIN calls' : Ends(calls'[j], p)
    BY <1>12, <2>1, <2>2 DEF Gone
  <2>4. ASSUME NEW i \in DOMAIN calls', calls'[i].op = "show", calls'[i].pane = p PROVE Fenced(p, i)'
    <3>1. i \in DOMAIN calls /\ calls[i].op = "show" /\ calls[i].pane = p /\ calls'[i].gen = calls[i].gen
      BY <1>7, <2>4 DEF Ending
    <3>2. Fenced(p, i)
      BY <1>12, <3>1 DEF Gone
    <3>3. CASE calls[i].gen < latest
      BY <2>2, <3>1, <3>3 DEF Fenced
    <3>4. CASE \E j \in DOMAIN calls : Ends(calls[j], p) /\ (i < j \/ calls[i].gen < calls[j].gen)
      <4>1. PICK j \in DOMAIN calls : Ends(calls[j], p) /\ (i < j \/ calls[i].gen < calls[j].gen)
        BY <3>4
      <4>2. j \in DOMAIN calls' /\ Ends(calls'[j], p) /\ (i < j \/ calls'[i].gen < calls'[j].gen)
        BY <2>1, <3>1, <4>1
      <4> QED  BY <4>2 DEF Fenced, Ends
    <3> QED  BY <3>2, <3>3, <3>4 DEF Fenced
  <2>5. host'[p].frame # None => \/ host'[p].frame < latest'
                                 \/ \E j \in DOMAIN calls' : Ends(calls'[j], p) /\ host'[p].frame < calls'[j].gen
    <3> SUFFICES ASSUME host'[p].frame # None
                 PROVE  \/ host'[p].frame < latest'
                        \/ \E j \in DOMAIN calls' : Ends(calls'[j], p) /\ host'[p].frame < calls'[j].gen
      OBVIOUS
    <3>1. host'[p].frame = host[p].frame /\ host[p].frame # None
      BY <1>12
    <3>2. CASE host[p].frame < latest
      BY <2>2, <3>1, <3>2
    <3>3. CASE \E j \in DOMAIN calls : Ends(calls[j], p) /\ host[p].frame < calls[j].gen
      BY <2>1, <3>1, <3>3
    <3> QED  BY <1>12, <3>1, <3>2, <3>3 DEF Gone
  <2> QED  BY <2>3, <2>4, <2>5 DEF Gone, Ends
<1>13. CASE p \notin new /\ p \in left
  <2>1. host'[p].frame = None
    BY <1>4, <1>13 DEF HostBy, NoHost
  <2> QED  BY <1>5, <1>7, <1>11, <1>13, <2>1
<1>14. CASE p \notin new /\ p \notin left
  <2>1. host'[p].frame = None
    BY <1>4, <1>14 DEF HostBy, NoHost
  <2>2. Gone(p)
    BY <1>1, <1>9, <1>14 DEF Wanted
  <2> QED  BY <1>12, <2>1, <2>2
<1>15. CASE p \in new /\ ~acts /\ fresh
  <2>1. \E x : Joins(Unheard(calls, left), calls', x) /\ Ends(x, p) /\ x.gen = g
    BY <1>5, <1>9, <1>15
  <2>2. PICK j \in DOMAIN calls' : Ends(calls'[j], p) /\ calls'[j].gen = g /\ \A i \in DOMAIN calls : i < j
    BY <1>7, <2>1
  <2>3. host'[p].frame # None => host'[p].frame = host[p].frame
    BY <1>4, <1>15 DEF HostBy, NoHost
  <2>4. host'[p].frame # None => host'[p].frame < g
    <3> SUFFICES ASSUME host'[p].frame # None PROVE host'[p].frame < g
      OBVIOUS
    <3>1. host'[p].frame \in Nat /\ host'[p].frame <= gen
      BY <2>3 DEF Gens
    <3> QED  BY <1>2, <1>15, <3>1
  <2> QED  BY <1>11, <2>2, <2>4
<1>16. CASE p \in new /\ ~acts /\ ~fresh
  <2>1. Gone(p) /\ ~runs
    BY <1>1, <1>9, <1>16 DEF Wanted, acts
  <2>2. host'[p] = host[p]
    BY <1>4, <1>16, <2>1 DEF HostBy
  <2> QED  BY <1>12, <2>1, <2>2
<1> QED  BY <1>10, <1>13, <1>14, <1>15, <1>16

(* With no terminal on the stage a render has sent the call that hides     *)
(* all, unless nothing was there before.                                   *)
LEMMA RenderBare ==
  ASSUME Types, Gens, native' = native,
         NEW s, NEW w, NEW bar, NEW act, NEW touched \in BOOLEAN, NEW pre, NEW g0,
         Fits(s, w, bar, act, touched, pre, g0), Render(s, w, bar, act, touched, pre, g0),
         OnStage(s[w], bar, act) = {}, ~FreshBy(w, bar, act, touched) => Bare
  PROVE  Bare'
<1> DEFINE left  == LeftBy(s, w, bar, act)
           fresh == FreshBy(w, bar, act, touched)
<1>1. PICK g : g = GenBy(w, bar, act, touched, g0)
  OBVIOUS
<1>2. g \in Nat /\ g0 \in Nat /\ gen \in Nat /\ (fresh => gen < g) /\ (~fresh => g = gen)
  <2>1. g0 \in Nat /\ gen \in Nat /\ gen <= g0 /\ g = (IF fresh THEN g0 + 1 ELSE g0) /\ (~fresh => g0 = gen)
    BY <1>1 DEF Fits, GenBy, Types, FreshBy
  <2> HIDE DEF fresh
  <2> QED  BY <2>1
<1>3. gen' = g
  BY <1>1, RenderIs
<1>4. Stage(bar, act) \notin Panes
  <2> SUFFICES ASSUME Stage(bar, act) \in Panes PROVE FALSE
    OBVIOUS
  <2>1. bar \in Seq(Panes \cup {Other}) /\ Tabs(s, w, bar) /\ None \notin Panes
    BY TerminalAssumption DEF Fits
  <2>2. \E i \in DOMAIN bar : Stage(bar, act) = bar[i]
    BY <2>1 DEF Stage, ToSet
  <2>3. s[w][Stage(bar, act)] # {}
    BY <2>1, <2>2 DEF Tabs
  <2> QED  BY <2>3 DEF OnStage
<1>5. /\ Grown(Unheard(calls, left), calls', g)
      /\ fresh => Joins(Unheard(calls, left), calls', Call("hide_all", g, None))
  BY <1>1, <1>4, RenderCalls
<1>6. calls \in Seq(CallType)
  BY DEF Types
<1>7. /\ calls' \in Seq(CallType)
      /\ \A i \in DOMAIN calls : i \in DOMAIN calls' /\ calls'[i].op = calls[i].op /\ calls'[i].gen = calls[i].gen
      /\ \A j \in DOMAIN calls' : j \in DOMAIN calls \/ calls'[j] \in Ending
      /\ \A x : Joins(Unheard(calls, left), calls', x) => \E j \in DOMAIN calls' : calls'[j] = x
  BY <1>5, <1>6, RenderShows
<1>8. latest' = latest /\ visible' = visible
  BY DEF native
<1>9. \A i \in DOMAIN calls' : calls'[i].op = "show" =>
        i \in DOMAIN calls /\ calls[i].op = "show" /\ calls'[i].gen = calls[i].gen /\ calls[i].gen \in Nat /\ calls[i].gen <= gen
  <2>1. \A i \in DOMAIN calls : calls[i].gen \in Nat /\ calls[i].gen <= gen
    BY CallIs DEF Gens
  <2>2. \A c \in Ending : c.op # "show"
    BY DEF Ending
  <2>3. \A i \in DOMAIN calls' : calls'[i].op = "show" => i \in DOMAIN calls
    BY <1>7, <2>2
  <2> QED  BY <1>7, <2>1, <2>3
<1> HIDE DEF left, fresh
<1>10. CASE fresh
  <2>1. \E j \in DOMAIN calls' : calls'[j].op = "hide_all" /\ calls'[j].gen = g
    BY <1>5, <1>7, <1>10 DEF Call
  <2>2. \A i \in DOMAIN calls' : calls'[i].op = "show" => calls'[i].gen < g
    BY <1>2, <1>9, <1>10
  <2> QED  BY <1>3, <2>1, <2>2 DEF Bare
<1>11. CASE ~fresh
  <2>1. Bare /\ g = gen
    BY <1>2, <1>11 DEF fresh
  <2>2. CASE \E j \in DOMAIN calls : /\ calls[j].op = "hide_all" /\ calls[j].gen = gen
                                     /\ \A i \in DOMAIN calls : calls[i].op = "show" => calls[i].gen < gen
    <3>1. \E j \in DOMAIN calls' : calls'[j].op = "hide_all" /\ calls'[j].gen = g
      BY <1>7, <2>1, <2>2
    <3>2. \A i \in DOMAIN calls' : calls'[i].op = "show" => calls'[i].gen < g
      BY <1>9, <2>1, <2>2
    <3> QED  BY <1>3, <3>1, <3>2 DEF Bare
  <2>3. CASE visible = {} /\ \A i \in DOMAIN calls : calls[i].op = "show" => calls[i].gen < latest
    BY <1>8, <1>9, <2>3 DEF Bare
  <2> QED  BY <2>1, <2>2, <2>3 DEF Bare
<1> QED  BY <1>10, <1>11

-----------------------------------------------------------------------------
(* Handlers of the window.                                                 *)

(* A render of the window that runs keeps the invariant.                   *)
LEMMA RenderInv ==
  ASSUME TerminalInv, ready, ready', made' \in Nat, native' = native, overtook' = overtook,
         NEW s, NEW w, NEW bar, NEW act, NEW touched \in BOOLEAN, NEW pre, NEW g0,
         Fits(s, w, bar, act, touched, pre, g0), Render(s, w, bar, act, touched, pre, g0), Sessions'
  PROVE  TerminalInv'
<1>1. Types /\ Gens /\ Hosts /\ Cleared
  BY DEF TerminalInv
<1>2. latest <= gen /\ \A i \in DOMAIN calls : calls[i].op # "reset"
  BY <1>1 DEF Gens, Hosts
<1>3. Types' /\ Gens' /\ Hosts'
  BY <1>1, <1>2, RenderKeeps
<1>4. \A p \in Panes \ overtook' : Wanted(p)' \/ Gone(p)'
  <2> SUFFICES ASSUME NEW p \in Panes, p \notin overtook PROVE Wanted(p)' \/ Gone(p)'
    OBVIOUS
  <2>1. Wanted(p) \/ Gone(p)
    BY <1>1 DEF Cleared
  <2> QED  BY <1>1, <2>1, RenderGone
<1>5. Mounted' = {} => Bare'
  <2> SUFFICES ASSUME Mounted' = {} PROVE Bare'
    OBVIOUS
  <2>1. OnStage(s[w], bar, act) = {}
    BY <1>1, RenderIs
  <2>2. ~FreshBy(w, bar, act, touched) => Bare
    BY <1>1, <2>1 DEF Fits, Cleared
  <2> QED  BY <1>1, <2>1, <2>2, RenderBare
<1>6. Cleared'
  BY <1>4, <1>5 DEF Cleared
<1> QED  BY <1>3, <1>6 DEF TerminalInv

(* A handler of the tab bar.                                               *)
LEMMA HandlerInv ==
  ASSUME TerminalInv, NEW n \in Nat, Handler(n), NEW s, NEW bar, NEW act, NEW touched \in BOOLEAN, NEW pre,
         Fits(s, ws, bar, act, touched, pre, gen), Render(s, ws, bar, act, touched, pre, gen),
         \A v \in Workspaces : v # ws => s[v] = sess[v]
  PROVE  TerminalInv'
<1>1. Types /\ Sessions
  BY DEF TerminalInv
<1>2. ready /\ ready' /\ made' \in Nat /\ native' = native /\ overtook' = overtook /\ saved' = saved
  BY <1>1 DEF Handler, Types
<1>3. sess' = s /\ ws' = ws /\ tabs' = bar
  BY <1>1, RenderIs
<1>4. Tabs(s, ws, bar)
  BY DEF Fits
<1>5. \A v \in Workspaces : saved[v].open \in Seq(Panes) /\ (v # ws => Tabs(s, v, saved[v].open))
  BY <1>1 DEF Sessions, Tabs
<1>6. Sessions'
  BY <1>1, <1>2, <1>3, <1>4, <1>5 DEF Sessions
<1> QED  BY <1>2, <1>6, RenderInv

(* One session gets other panes.                                           *)
LEMMA WithIs ==
  ASSUME Types, NEW id \in Panes, NEW S \in SUBSET Panes
  PROVE  /\ With(id, S) \in [Workspaces -> [Panes -> SUBSET Panes]]
         /\ \A v \in Workspaces : v # ws => With(id, S)[v] = sess[v]
         /\ With(id, S)[ws][id] = S
         /\ \A t \in Panes : t # id => With(id, S)[ws][t] = sess[ws][t]
  BY DEF With, Types

(* A handler that sends nothing itself.                                    *)
LEMMA NoCalls == <<>> \in Seq(Ending) /\ \A i \in DOMAIN <<>> : <<>>[i].gen <= gen
  OBVIOUS

(* A handler that sends one call itself.                                   *)
LEMMA OneCall ==
  ASSUME NEW op \in {"close", "hide_all"}, NEW g \in Nat, NEW p \in Panes \cup {None}
  PROVE  <<Call(op, g, p)>> \in Seq(Ending) /\ \A i \in DOMAIN <<Call(op, g, p)>> : <<Call(op, g, p)>>[i].gen <= g
<1>1. PICK c : c = Call(op, g, p)
  OBVIOUS
<1>2. c \in Ending /\ c.gen = g /\ g <= g
  BY <1>1 DEF Call, Ending, CallType
<1>3. <<c>> \in Seq(Ending) /\ \A i \in DOMAIN <<c>> : <<c>>[i] = c
  BY <1>2
<1> QED  BY <1>1, <1>2, <1>3

(* What is shown on the stage is a tab of the bar.                         *)
LEMMA StageIs ==
  ASSUME NEW T, NEW bar \in Seq(T), NEW act
  PROVE  /\ Stage(bar, act) \in ToSet(bar) \cup {None}
         /\ act \in ToSet(bar) => Stage(bar, act) = act
  BY DEF Stage, ToSet

(* newTerminalTab.                                                         *)
LEMMA NewSessionInv == ASSUME TerminalInv, NewSession PROVE TerminalInv'
<1> DEFINE p == made + 1
           s == With(p, {p})
           bar == Append(tabs, p)
<1>1. Types /\ Sessions
  BY DEF TerminalInv
<1>2. Handler(1) /\ Render(s, ws, bar, p, TRUE, <<>>, gen)
  BY DEF NewSession
<1>3. p \in Panes /\ gen \in Nat /\ ws \in Workspaces /\ gen <= gen
  <2>1. made \in Nat /\ made + 1 <= MaxPanes /\ MaxPanes \in Nat /\ gen \in Nat /\ ws \in Workspaces
    BY <1>1, <1>2, TerminalAssumption DEF Types, Handler
  <2> QED  BY <2>1 DEF Panes
<1> HIDE DEF p
<1>4. /\ s \in [Workspaces -> [Panes -> SUBSET Panes]]
      /\ \A v \in Workspaces : v # ws => s[v] = sess[v]
      /\ s[ws][p] = {p}
      /\ \A t \in Panes : t # p => s[ws][t] = sess[ws][t]
  BY <1>1, <1>3, WithIs
<1> HIDE DEF s
<1>5. tabs \in Seq(Panes \cup {Other}) /\ Tabs(sess, ws, tabs)
  BY <1>1 DEF Types, Sessions
<1>6. bar \in Seq(Panes \cup {Other})
  BY <1>3, <1>5
<1>7. \A i \in DOMAIN bar : bar[i] = p \/ (i \in DOMAIN tabs /\ bar[i] = tabs[i])
  BY <1>5
<1> HIDE DEF bar
<1>8. Tabs(s, ws, bar)
  BY <1>4, <1>5, <1>7 DEF Tabs
<1>9. Fits(s, ws, bar, p, TRUE, <<>>, gen)
  BY <1>3, <1>4, <1>6, <1>8, NoCalls DEF Fits, FreshBy
<1> QED  BY <1>2, <1>4, <1>9, HandlerInv

(* openTerminalTab: the tab that is opened is the one on the stage.        *)
LEMMA OpenInv ==
  ASSUME TerminalInv, NEW t, Open(t), t = Other \/ (t \in Panes /\ sess[ws][t] # {})
  PROVE  TerminalInv'
<1>1. Types /\ Sessions
  BY DEF TerminalInv
<1>2. Handler(0) /\ Render(sess, ws, Added(t), t, FALSE, <<>>, gen)
  BY DEF Open
<1>3. gen \in Nat /\ ws \in Workspaces /\ gen <= gen /\ tabs \in Seq(Panes \cup {Other}) /\ Tabs(sess, ws, tabs)
      /\ sess \in [Workspaces -> [Panes -> SUBSET Panes]]
  BY <1>1 DEF Types, Sessions
<1>4. PICK bar : bar = Added(t)
  OBVIOUS
<1>5. /\ bar \in Seq(Panes \cup {Other})
      /\ \A i \in DOMAIN bar : bar[i] = t \/ (i \in DOMAIN tabs /\ bar[i] = tabs[i])
      /\ t \in ToSet(bar)
  <2>1. CASE t \in ToSet(tabs)
    BY <1>3, <1>4, <2>1 DEF Added
  <2>2. CASE t \notin ToSet(tabs)
    <3>1. bar = Append(tabs, t)
      BY <1>4, <2>2 DEF Added
    <3>2. t = bar[Len(bar)] /\ Len(bar) \in DOMAIN bar
      BY <1>3, <3>1
    <3> QED  BY <1>3, <3>1, <3>2 DEF ToSet
  <2> QED  BY <2>1, <2>2
<1>6. Tabs(sess, ws, bar)
  BY <1>3, <1>5, TerminalAssumption DEF Tabs
<1>7. Stage(bar, t) = t
  BY <1>5 DEF Stage
<1>8. ~FreshBy(ws, bar, t, FALSE) => OnStage(sess[ws], bar, t) = Mounted
  BY DEF FreshBy, OnStage, Mounted
<1>9. IsActive /\ ~Acts(bar, t) => FreshBy(ws, bar, t, FALSE)
  BY <1>7 DEF IsActive, Acts, FreshBy
<1>10. Fits(sess, ws, bar, t, FALSE, <<>>, gen)
  BY <1>3, <1>5, <1>6, <1>8, <1>9, NoCalls DEF Fits
<1> QED  BY <1>2, <1>4, <1>10, HandlerInv

(* splitTerminalPane.                                                      *)
LEMMA SplitInv == ASSUME TerminalInv, Split PROVE TerminalInv'
<1> DEFINE id == Stage(tabs, active)
           s  == With(id, sess[ws][id] \cup {made + 1})
<1>1. Types /\ Sessions
  BY DEF TerminalInv
<1>2. id \in Panes /\ Handler(1) /\ Render(s, ws, tabs, active, TRUE, <<>>, gen)
  BY DEF Split
<1>3. made + 1 \in Panes /\ gen \in Nat /\ ws \in Workspaces /\ gen <= gen
  <2>1. made \in Nat /\ made + 1 <= MaxPanes /\ MaxPanes \in Nat /\ gen \in Nat /\ ws \in Workspaces
    BY <1>1, <1>2, TerminalAssumption DEF Types, Handler
  <2> QED  BY <2>1 DEF Panes
<1>4. tabs \in Seq(Panes \cup {Other}) /\ Tabs(sess, ws, tabs)
  BY <1>1 DEF Types, Sessions
<1> HIDE DEF id
<1>5. PICK S : S = sess[ws][id] \cup {made + 1}
  OBVIOUS
<1>6. S \in SUBSET Panes /\ S # {}
  BY <1>1, <1>2, <1>3, <1>5 DEF Types
<1>7. /\ s \in [Workspaces -> [Panes -> SUBSET Panes]]
      /\ \A v \in Workspaces : v # ws => s[v] = sess[v]
      /\ s[ws][id] # {}
      /\ \A t \in Panes : t # id => s[ws][t] = sess[ws][t]
  <2>1. s = With(id, S)
    BY <1>5
  <2> HIDE DEF s
  <2> QED  BY <1>1, <1>2, <1>6, <2>1, WithIs
<1> HIDE DEF s
<1>8. Tabs(s, ws, tabs)
  BY <1>4, <1>7 DEF Tabs
<1>9. Fits(s, ws, tabs, active, TRUE, <<>>, gen)
  BY <1>3, <1>4, <1>7, <1>8, NoCalls DEF Fits, FreshBy
<1> QED  BY <1>2, <1>7, <1>9, HandlerInv

(* closeTerminalPane leaves a pane to the tab.                             *)
LEMMA ClosePaneInv == ASSUME TerminalInv, NEW p \in Panes, ClosePane(p) PROVE TerminalInv'
<1> DEFINE id == Stage(tabs, active)
           s  == With(id, Mounted \ {p})
           pre == <<Call("close", gen, p)>>
<1>1. Types /\ Sessions
  BY DEF TerminalInv
<1>2. p \in Mounted /\ Cardinality(Mounted) > 1 /\ Handler(0) /\ Render(s, ws, tabs, active, TRUE, pre, gen)
  BY DEF ClosePane
<1>3. gen \in Nat /\ ws \in Workspaces /\ gen <= gen /\ tabs \in Seq(Panes \cup {Other}) /\ Tabs(sess, ws, tabs)
  BY <1>1 DEF Types, Sessions
<1>4. id \in Panes
  BY <1>2 DEF Mounted, OnStage
<1> HIDE DEF id
<1>5. Mounted \ {p} \in SUBSET Panes /\ Mounted \ {p} # {}
  <2>1. Mounted \in SUBSET Panes
    BY <1>1, MountedIs
  <2>2. Mounted # {p}
    <3>1. Cardinality({p}) = 1
      BY FS_Singleton
    <3> QED  BY <1>2, <3>1
  <2> QED  BY <1>2, <2>1, <2>2
<1>6. /\ s \in [Workspaces -> [Panes -> SUBSET Panes]]
      /\ \A v \in Workspaces : v # ws => s[v] = sess[v]
      /\ s[ws][id] # {}
      /\ \A t \in Panes : t # id => s[ws][t] = sess[ws][t]
  <2>1. PICK S : S = Mounted \ {p}
    OBVIOUS
  <2>2. s = With(id, S)
    BY <2>1
  <2>3. S \in SUBSET Panes /\ S # {}
    BY <1>5, <2>1
  <2> HIDE DEF s
  <2> QED  BY <1>1, <1>4, <2>2, <2>3, WithIs
<1>7. pre \in Seq(Ending) /\ \A i \in DOMAIN pre : pre[i].gen <= gen
  BY <1>3, OneCall
<1> HIDE DEF s, pre
<1>8. Tabs(s, ws, tabs)
  BY <1>3, <1>6 DEF Tabs
<1>9. Fits(s, ws, tabs, active, TRUE, pre, gen)
  BY <1>3, <1>6, <1>7, <1>8 DEF Fits, FreshBy
<1> QED  BY <1>2, <1>6, <1>9, HandlerInv

(* The tab bar without t, and the tab that is active then.                 *)
Left(t) == IF t \in ToSet(tabs) THEN Neighbour(t) ELSE active

(* All tabs but t.                                                         *)
LEMMA WithoutIs ==
  ASSUME Types, NEW t
  PROVE  /\ Without(t) \in Seq(Panes \cup {Other})
         /\ ToSet(Without(t)) = ToSet(tabs) \ {t}
<1> DEFINE S == ToSet(tabs) \ {t}
<1>1. PICK o : o = Without(t)
  OBVIOUS
<1>2. tabs \in Seq(Panes \cup {Other}) /\ o = Only(tabs, S)
  BY <1>1 DEF Without, Types
<1> HIDE DEF S
<1>3. /\ o \in Seq(Panes \cup {Other})
      /\ \A k \in DOMAIN o : o[k] \in S
      /\ \A j \in DOMAIN tabs : tabs[j] \in S => \E k \in DOMAIN o : o[k] = tabs[j]
  BY <1>2, OnlyIs
<1>4. \A x : x \in ToSet(o) <=> x \in S
  <2>1. ASSUME NEW x, x \in ToSet(o) PROVE x \in S
    <3>1. \E k \in DOMAIN o : x = o[k]
      BY <2>1 DEF ToSet
    <3> QED  BY <1>3, <3>1
  <2>2. ASSUME NEW x, x \in S PROVE x \in ToSet(o)
    <3>1. \E k \in DOMAIN tabs : x = tabs[k]
      BY <2>2 DEF S, ToSet
    <3>2. \E k \in DOMAIN o : x = o[k]
      BY <1>3, <2>2, <3>1
    <3> QED  BY <3>2 DEF ToSet
  <2> QED  BY <2>1, <2>2
<1> QED  BY <1>1, <1>3, <1>4 DEF S

(* A terminal that stays on the stage stays active when another goes.      *)
LEMMA RemovalIs ==
  ASSUME Types, NEW t \in Panes \cup {Other}
  PROVE  /\ Stage(Without(t), Left(t)) # t
         /\ IsActive /\ ~Acts(Without(t), Left(t)) => FreshBy(ws, Without(t), Left(t), FALSE)
<1>1. PICK bar, act : bar = Without(t) /\ act = Left(t)
  OBVIOUS
<1>2. bar \in Seq(Panes \cup {Other}) /\ ToSet(bar) = ToSet(tabs) \ {t} /\ tabs \in Seq(Panes \cup {Other})
  BY <1>1, WithoutIs DEF Types
<1>3. None \notin Panes \cup {Other}
  BY TerminalAssumption
<1>4. Stage(bar, act) \in ToSet(bar) \cup {None}
  BY <1>2, StageIs
<1>5. Stage(bar, act) # t
  BY <1>2, <1>3, <1>4
<1>6. ASSUME IsActive, Stage(bar, act) = Stage(tabs, active) PROVE Acts(bar, act)
  <2>1. active \in Panes /\ Stage(tabs, active) = active /\ active # None
    BY <1>3, <1>6 DEF IsActive
  <2>2. active \in ToSet(tabs)
    <3>1. Stage(tabs, active) \in ToSet(tabs) \cup {None}
      BY <1>2, StageIs
    <3> QED  BY <2>1, <3>1
  <2>3. active # t
    BY <1>5, <1>6, <2>1
  <2>4. act = active
    BY <1>1, <2>3 DEF Left, Neighbour
  <2> QED  BY <1>6, <2>1, <2>4 DEF Acts
<1> QED  BY <1>1, <1>5, <1>6 DEF FreshBy

(* closeWorkspaceTab.                                                      *)
LEMMA CloseTabInv == ASSUME TerminalInv, NEW t \in Panes \cup {Other}, CloseTab(t) PROVE TerminalInv'
<1>1. Types /\ Sessions
  BY DEF TerminalInv
<1>2. PICK bar, act, pre : /\ bar = Without(t) /\ act = Left(t)
                           /\ pre = IF t \in Panes THEN CallsOf("hide", sess[ws][t], gen) ELSE <<>>
  OBVIOUS
<1>3. Handler(0) /\ Render(sess, ws, bar, act, FALSE, pre, gen)
  BY <1>2 DEF CloseTab, Left
<1>4. gen \in Nat /\ ws \in Workspaces /\ gen <= gen /\ tabs \in Seq(Panes \cup {Other}) /\ Tabs(sess, ws, tabs)
      /\ sess \in [Workspaces -> [Panes -> SUBSET Panes]]
  BY <1>1 DEF Types, Sessions
<1>5. bar \in Seq(Panes \cup {Other}) /\ ToSet(bar) \subseteq ToSet(tabs)
  BY <1>1, <1>2, WithoutIs
<1>6. Tabs(sess, ws, bar)
  <2>1. \A i \in DOMAIN bar : \E j \in DOMAIN tabs : bar[i] = tabs[j]
    BY <1>5 DEF ToSet
  <2> QED  BY <1>4, <2>1 DEF Tabs
<1>7. pre \in Seq(Ending) /\ \A i \in DOMAIN pre : pre[i].gen <= gen
  <2>1. CASE t \in Panes
    <3>1. PICK S : S = sess[ws][t]
      OBVIOUS
    <3>2. S \in SUBSET Panes /\ pre = CallsOf("hide", S, gen)
      BY <1>2, <1>4, <2>1, <3>1
    <3>3. CallsOf("hide", S, gen) \in Seq(Ending) /\ \A i \in DOMAIN CallsOf("hide", S, gen) : CallsOf("hide", S, gen)[i].gen = gen
      BY <1>4, <3>2, EndingIs
    <3> QED  BY <1>4, <3>2, <3>3
  <2>2. CASE t \notin Panes
    BY <1>2, <2>2, NoCalls
  <2> QED  BY <2>1, <2>2
<1>8. ~FreshBy(ws, bar, act, FALSE) => OnStage(sess[ws], bar, act) = Mounted
  BY DEF FreshBy, OnStage, Mounted
<1>9. IsActive /\ ~Acts(bar, act) => FreshBy(ws, bar, act, FALSE)
  BY <1>1, <1>2, RemovalIs
<1>10. Fits(sess, ws, bar, act, FALSE, pre, gen)
  BY <1>4, <1>5, <1>6, <1>7, <1>8, <1>9 DEF Fits
<1> QED  BY <1>3, <1>10, HandlerInv

(* deleteTerminalSession: the session without panes has no tab.            *)
LEMMA DeleteSessionInv == ASSUME TerminalInv, NEW id \in Panes, DeleteSession(id) PROVE TerminalInv'
<1>1. Types /\ Sessions
  BY DEF TerminalInv
<1>2. PICK s, bar, act, pre : /\ s = With(id, {}) /\ bar = Without(id) /\ act = Left(id)
                              /\ pre = CallsOf("close", sess[ws][id], gen)
  OBVIOUS
<1>3. Handler(0) /\ Render(s, ws, bar, act, FALSE, pre, gen)
  BY <1>2 DEF DeleteSession, Left
<1>4. gen \in Nat /\ ws \in Workspaces /\ gen <= gen /\ tabs \in Seq(Panes \cup {Other}) /\ Tabs(sess, ws, tabs)
      /\ sess \in [Workspaces -> [Panes -> SUBSET Panes]]
  BY <1>1 DEF Types, Sessions
<1>5. bar \in Seq(Panes \cup {Other}) /\ ToSet(bar) = ToSet(tabs) \ {id}
  BY <1>1, <1>2, WithoutIs
<1>6. /\ s \in [Workspaces -> [Panes -> SUBSET Panes]]
      /\ \A v \in Workspaces : v # ws => s[v] = sess[v]
      /\ \A t \in Panes : t # id => s[ws][t] = sess[ws][t]
  BY <1>1, <1>2, WithIs
<1>7. Tabs(s, ws, bar)
  <2>1. \A i \in DOMAIN bar : bar[i] # id /\ \E j \in DOMAIN tabs : bar[i] = tabs[j]
    <3> SUFFICES ASSUME NEW i \in DOMAIN bar PROVE bar[i] # id /\ \E j \in DOMAIN tabs : bar[i] = tabs[j]
      OBVIOUS
    <3>1. bar[i] \in ToSet(bar)
      BY DEF ToSet
    <3>2. bar[i] \in ToSet(tabs) /\ bar[i] # id
      BY <1>5, <3>1
    <3> QED  BY <3>2 DEF ToSet
  <2> QED  BY <1>4, <1>6, <2>1 DEF Tabs
<1>8. pre \in Seq(Ending) /\ \A i \in DOMAIN pre : pre[i].gen <= gen
  <2>1. PICK S : S = sess[ws][id]
    OBVIOUS
  <2>2. S \in SUBSET Panes /\ pre = CallsOf("close", S, gen)
    BY <1>2, <1>4, <2>1
  <2>3. CallsOf("close", S, gen) \in Seq(Ending) /\ \A i \in DOMAIN CallsOf("close", S, gen) : CallsOf("close", S, gen)[i].gen = gen
    BY <1>4, <2>2, EndingIs
  <2> QED  BY <1>4, <2>2, <2>3
<1>9. Stage(bar, act) # id /\ (IsActive /\ ~Acts(bar, act) => FreshBy(ws, bar, act, FALSE))
  BY <1>1, <1>2, RemovalIs
<1>10. ~FreshBy(ws, bar, act, FALSE) => OnStage(s[ws], bar, act) = Mounted
  BY <1>6, <1>9 DEF FreshBy, OnStage, Mounted
<1>11. Fits(s, ws, bar, act, FALSE, pre, gen)
  BY <1>4, <1>5, <1>6, <1>7, <1>8, <1>9, <1>10 DEF Fits
<1> QED  BY <1>3, <1>6, <1>11, HandlerInv

(* What is saved of the workspace that goes are terminals with panes.      *)
LEMMA SavingIs ==
  ASSUME Types, Sessions
  PROVE  /\ DOMAIN Saving = Workspaces /\ Saving[ws].open \in Seq(Panes)
         /\ ToSet(Saving[ws].open) \subseteq ToSet(tabs) /\ Tabs(sess, ws, Saving[ws].open)
         /\ \A i \in DOMAIN tabs : tabs[i] \in Panes => tabs[i] \in ToSet(Saving[ws].open)
         /\ Saving[ws].active = IF active \in Panes THEN active ELSE None
         /\ \A v \in Workspaces : v # ws => Saving[v] = saved[v]
<1>1. tabs \in Seq(Panes \cup {Other}) /\ Tabs(sess, ws, tabs) /\ DOMAIN saved = Workspaces /\ ws \in Workspaces
  BY DEF Types, Sessions
<1>2. PICK o : o = Terminals(tabs)
  OBVIOUS
<1>3. /\ o \in Seq((Panes \cup {Other}) \cap Panes)
      /\ \A j \in DOMAIN tabs : tabs[j] \in Panes => \E k \in DOMAIN o : o[k] = tabs[j]
      /\ \A k \in DOMAIN o : o[k] \in Panes /\ \E j \in DOMAIN tabs : o[k] = tabs[j]
  BY <1>1, <1>2, OnlyKeeps, OnlyIs DEF Terminals
<1>4. o \in Seq(Panes)
  <2>1. (Panes \cup {Other}) \cap Panes = Panes
    OBVIOUS
  <2> QED  BY <1>3, <2>1
<1>5. Tabs(sess, ws, o)
  BY <1>1, <1>3 DEF Tabs
<1>6. ToSet(o) \subseteq ToSet(tabs) /\ \A i \in DOMAIN tabs : tabs[i] \in Panes => tabs[i] \in ToSet(o)
  BY <1>3 DEF ToSet
<1>7. PICK k : k = [open |-> o, active |-> IF active \in Panes THEN active ELSE None]
  OBVIOUS
<1>8. Saving = [saved EXCEPT ![ws] = k] /\ k.open = o /\ k.active = IF active \in Panes THEN active ELSE None
  BY <1>2, <1>7 DEF Saving
<1> QED  BY <1>1, <1>4, <1>5, <1>6, <1>8

(* switchToWorkspace.                                                      *)
LEMMA SwitchInv == ASSUME TerminalInv, NEW w \in Workspaces, Switch(w) PROVE TerminalInv'
<1>1. Types /\ Sessions
  BY DEF TerminalInv
<1>2. PICK bar, act, pre : bar = saved[w].open /\ act = saved[w].active /\ pre = <<Call("hide_all", gen + 1, None)>>
  OBVIOUS
<1>3. /\ w # ws /\ ready /\ ready' /\ Render(sess, w, bar, act, TRUE, pre, gen + 1) /\ saved' = Saving
      /\ native' = native /\ overtook' = overtook /\ made' \in Nat
  BY <1>1, <1>2 DEF Switch, Types
<1>4. gen \in Nat /\ gen + 1 \in Nat /\ gen <= gen + 1 /\ ws \in Workspaces
      /\ sess \in [Workspaces -> [Panes -> SUBSET Panes]]
  BY <1>1 DEF Types
<1>5. bar \in Seq(Panes \cup {Other}) /\ Tabs(sess, w, bar)
  <2>1. bar \in Seq(Panes) /\ Tabs(sess, w, bar)
    BY <1>1, <1>2, <1>3 DEF Sessions
  <2>2. bar \in [1..Len(bar) -> Panes] /\ Len(bar) \in Nat
    BY <2>1
  <2>3. bar \in [1..Len(bar) -> Panes \cup {Other}]
    BY <2>2
  <2> QED  BY <2>1, <2>2, <2>3
<1>6. pre \in Seq(Ending) /\ \A i \in DOMAIN pre : pre[i].gen <= gen + 1
  BY <1>2, <1>4, OneCall
<1>7. Fits(sess, w, bar, act, TRUE, pre, gen + 1)
  BY <1>3, <1>4, <1>5, <1>6 DEF Fits, FreshBy
<1>8. sess' = sess /\ ws' = w /\ tabs' = bar
  BY <1>1, <1>3, <1>7, RenderIs
<1>9. Sessions'
  <2>1. \A v \in Workspaces : Saving[v].open \in Seq(Panes) /\ (v # w => Tabs(sess, v, Saving[v].open))
    <3> SUFFICES ASSUME NEW v \in Workspaces PROVE Saving[v].open \in Seq(Panes) /\ (v # w => Tabs(sess, v, Saving[v].open))
      OBVIOUS
    <3>1. CASE v = ws
      BY <1>1, <3>1, SavingIs
    <3>2. CASE v # ws
      BY <1>1, <3>2, SavingIs DEF Sessions
    <3> QED  BY <3>1, <3>2
  <2>2. DOMAIN Saving = Workspaces
    BY <1>1, SavingIs
  <2> QED  BY <1>3, <1>5, <1>8, <2>1, <2>2 DEF Sessions
<1> QED  BY <1>3, <1>7, <1>9, RenderInv

(* applyTerminalMeta.                                                      *)
LEMMA MetaInv == ASSUME TerminalInv, Meta PROVE TerminalInv'
<1>1. Types /\ Sessions
  BY DEF TerminalInv
<1>2. /\ Mounted # {} /\ Render(sess, ws, tabs, active, TRUE, <<>>, gen) /\ saved' = saved
      /\ native' = native /\ overtook' = overtook /\ made' \in Nat /\ ready' = ready
  BY <1>1 DEF Meta, Types
<1>3. ready
  <2> SUFFICES ASSUME ~ready PROVE FALSE
    OBVIOUS
  <2>1. tabs = <<>>
    BY DEF TerminalInv, Starts
  <2>2. Stage(tabs, active) = None /\ None \notin Panes
    BY <2>1, TerminalAssumption DEF Stage, ToSet
  <2> QED  BY <1>2, <2>2 DEF Mounted, OnStage
<1>4. gen \in Nat /\ ws \in Workspaces /\ gen <= gen /\ tabs \in Seq(Panes \cup {Other}) /\ Tabs(sess, ws, tabs)
      /\ sess \in [Workspaces -> [Panes -> SUBSET Panes]]
  BY <1>1 DEF Types, Sessions
<1>5. Fits(sess, ws, tabs, active, TRUE, <<>>, gen)
  BY <1>4, NoCalls DEF Fits, FreshBy
<1>6. sess' = sess /\ ws' = ws /\ tabs' = tabs
  BY <1>1, <1>2, <1>5, RenderIs
<1>7. Sessions'
  BY <1>1, <1>2, <1>6 DEF Sessions
<1> QED  BY <1>2, <1>3, <1>5, <1>7, RenderInv

(* The tabs come back: what was left visible is on the stage.              *)
LEMMA RestoreInv == ASSUME TerminalInv, Restore PROVE TerminalInv'
<1>1. Types /\ Sessions /\ Gens /\ Hosts
  BY DEF TerminalInv
<1>2. PICK bar, act, touched : bar = saved[ws].open /\ act = saved[ws].active /\ touched = (saved[ws].open # <<>>)
  OBVIOUS
<1>3. /\ ~ready /\ ready' /\ calls = <<>> /\ Render(sess, ws, bar, act, touched, <<>>, gen) /\ saved' = saved
      /\ native' = native /\ overtook' = overtook /\ made' \in Nat /\ touched \in BOOLEAN
  BY <1>1, <1>2 DEF Restore, Types
<1>4. Starts
  BY <1>3 DEF TerminalInv
<1>5. gen \in Nat /\ ws \in Workspaces /\ gen <= gen /\ sess \in [Workspaces -> [Panes -> SUBSET Panes]]
  BY <1>1 DEF Types
<1>6. bar \in Seq(Panes) /\ bar \in Seq(Panes \cup {Other}) /\ Tabs(sess, ws, bar)
  <2>1. bar \in Seq(Panes) /\ Tabs(sess, ws, bar)
    BY <1>1, <1>2, <1>3, <1>5 DEF Sessions
  <2>2. bar \in [1..Len(bar) -> Panes] /\ Len(bar) \in Nat
    BY <2>1
  <2>3. bar \in [1..Len(bar) -> Panes \cup {Other}]
    BY <2>2
  <2> QED  BY <2>1, <2>2, <2>3
<1>7. ~FreshBy(ws, bar, act, touched) => OnStage(sess[ws], bar, act) = Mounted
  BY DEF FreshBy, OnStage, Mounted
<1>8. ~IsActive
  <2>1. tabs = <<>> /\ None \notin Panes
    BY <1>4, TerminalAssumption DEF Starts
  <2>2. Stage(tabs, active) = None
    BY <2>1 DEF Stage, ToSet
  <2> QED  BY <2>1, <2>2 DEF IsActive
<1>9. Fits(sess, ws, bar, act, touched, <<>>, gen)
  BY <1>5, <1>6, <1>7, <1>8, NoCalls DEF Fits
<1>10. sess' = sess /\ ws' = ws /\ tabs' = bar
  BY <1>1, <1>3, <1>9, RenderIs
<1>11. Sessions'
  BY <1>1, <1>3, <1>6, <1>10 DEF Sessions
<1>12. DOMAIN calls = {}
  BY <1>3
<1>13. latest <= gen /\ \A i \in DOMAIN calls : calls[i].op # "reset"
  BY <1>4, <1>12 DEF Starts
<1>14. Types' /\ Gens' /\ Hosts'
  BY <1>1, <1>3, <1>9, <1>13, RenderKeeps
<1>15. \A p \in Panes \ overtook' : Wanted(p)' \/ Gone(p)'
  <2> SUFFICES ASSUME NEW p \in Panes, p \notin overtook PROVE Wanted(p)' \/ Gone(p)'
    BY <1>3
  <2>1. Gone(p) \/ (Acts(bar, act) /\ p \in OnStage(sess[ws], bar, act))
    <3>1. CASE p \in visible
      BY <1>2, <1>4, <3>1 DEF Starts, Kept, Acts
    <3>2. CASE p \notin visible
      <4>1. host[p].frame = None
        BY <1>4 DEF Starts, NoHost
      <4> QED  BY <1>12, <3>2, <4>1 DEF Gone
    <3> QED  BY <3>1, <3>2
  <2> QED  BY <1>1, <1>3, <1>9, <2>1, RenderGone
<1>16. Mounted' = {} => Bare'
  <2> SUFFICES ASSUME Mounted' = {} PROVE Bare'
    OBVIOUS
  <2>1. OnStage(sess[ws], bar, act) = {}
    BY <1>1, <1>3, <1>9, RenderIs
  <2>2. Bare
    BY <1>2, <1>4, <1>12, <2>1 DEF Starts, Kept, Bare
  <2> QED  BY <1>1, <1>3, <1>9, <2>1, <2>2, RenderBare
<1> QED  BY <1>3, <1>11, <1>14, <1>15, <1>16 DEF TerminalInv, Cleared

-----------------------------------------------------------------------------
(* Components of panes.                                                    *)

(* A step that leaves the window alone leaves the stage alone.             *)
LEMMA SameWindow ==
  ASSUME window' = window
  PROVE  /\ Mounted' = Mounted /\ IsActive' = IsActive /\ \A p : Wanted(p)' = Wanted(p)
         /\ sess' = sess /\ saved' = saved /\ ws' = ws /\ tabs' = tabs /\ active' = active /\ ready' = ready
         /\ gen' = gen /\ made' = made
<1>1. sess' = sess /\ saved' = saved /\ ws' = ws /\ tabs' = tabs /\ active' = active /\ ready' = ready
      /\ gen' = gen /\ made' = made
  BY DEF window
<1>2. Mounted' = Mounted
  BY <1>1 DEF Mounted, OnStage, Stage
<1>3. IsActive' = IsActive
  BY <1>1 DEF IsActive, Stage
<1>4. \A p : Wanted(p)' = Wanted(p)
  BY <1>2, <1>3 DEF Wanted
<1> QED  BY <1>1, <1>2, <1>3, <1>4

(* Only components change, and answers that are heard: a frame is asked    *)
(* for only while the tab is active.                                       *)
LEMMA HostsInv ==
  ASSUME TerminalInv, window' = window, calls' = calls, native' = native, overtook' = overtook,
         host' \in [Panes -> [frame : Times, retry : Times]],
         answers' \in Seq([pane : Panes, gen : Nat, ok : BOOLEAN]),
         \A i \in DOMAIN answers' : \E j \in DOMAIN answers : answers'[i] = answers[j],
         \A p \in Panes : p \notin Mounted => host'[p] = NoHost,
         \A p \in Panes : host'[p].frame \in {None, host[p].frame} \/ (IsActive /\ host'[p].frame \in Nat /\ host'[p].frame <= gen),
         \A p \in Panes : host'[p].retry \in {None, host[p].retry} \/ (host'[p].retry \in Nat /\ host'[p].retry <= gen)
  PROVE  TerminalInv'
<1>1. /\ Mounted' = Mounted /\ IsActive' = IsActive /\ \A p : Wanted(p)' = Wanted(p)
      /\ sess' = sess /\ saved' = saved /\ ws' = ws /\ tabs' = tabs /\ active' = active /\ ready' = ready
      /\ gen' = gen /\ made' = made
  BY SameWindow
<1>2. latest' = latest /\ visible' = visible
  BY DEF native
<1>3. Types /\ Sessions /\ Gens /\ Hosts
  BY DEF TerminalInv
<1>4. Types'
  BY <1>1, <1>2, <1>3 DEF Types
<1>5. Sessions'
  BY <1>1, <1>3 DEF Sessions, Tabs
<1>6. Gens'
  <2>1. \A p \in Panes : /\ host'[p].frame # None => host'[p].frame \in Nat /\ host'[p].frame <= gen
                         /\ host'[p].retry # None => host'[p].retry \in Nat /\ host'[p].retry <= gen
    BY <1>3 DEF Gens
  <2> QED  BY <1>1, <1>2, <1>3, <2>1 DEF Gens
<1>7. Hosts'
  <2>1. \A i \in DOMAIN answers' : answers'[i].pane \in Mounted
    BY <1>3 DEF Hosts
  <2> QED  BY <1>1, <1>3, <2>1 DEF Hosts
<1>8. ASSUME ready PROVE Cleared'
  <2>1. Cleared
    BY <1>8 DEF TerminalInv
  <2>2. ASSUME NEW p \in Panes \ overtook PROVE Wanted(p)' \/ Gone(p)'
    <3>1. CASE Wanted(p)
      BY <1>1, <3>1
    <3>2. CASE ~Wanted(p)
      <4>1. Gone(p)
        BY <2>1, <2>2, <3>2 DEF Cleared
      <4>2. host'[p].frame # None => host'[p].frame = host[p].frame
        BY <3>2 DEF Wanted, NoHost
      <4>3. \A i : Fenced(p, i)' = Fenced(p, i)
        BY <1>2 DEF Fenced, Ends
      <4>4. host'[p].frame # None => \/ host'[p].frame < latest
                                     \/ \E j \in DOMAIN calls : Ends(calls[j], p) /\ host'[p].frame < calls[j].gen
        BY <4>1, <4>2 DEF Gone
      <4>5. /\ p \in visible => \E j \in DOMAIN calls : Ends(calls[j], p)
            /\ \A i \in DOMAIN calls : calls[i].op = "show" /\ calls[i].pane = p => Fenced(p, i)
        BY <4>1 DEF Gone
      <4>6. Gone(p)'
        BY <1>2, <4>3, <4>4, <4>5 DEF Gone, Ends
      <4> QED  BY <4>6
    <3> QED  BY <3>1, <3>2
  <2>3. Bare => Bare'
    BY <1>1, <1>2 DEF Bare
  <2> QED  BY <1>1, <2>1, <2>2, <2>3 DEF Cleared
<1>9. ASSUME ~ready PROVE Starts'
  <2>1. Starts
    BY <1>9 DEF TerminalInv
  <2>2. answers' = <<>>
    <3>1. DOMAIN answers = {}
      BY <2>1 DEF Starts
    <3>2. DOMAIN answers' = {}
      BY <3>1
    <3> QED  BY <3>2
  <2>3. \A p \in Panes : host'[p] = NoHost
    <3>1. tabs = <<>> /\ None \notin Panes
      BY <2>1, TerminalAssumption DEF Starts
    <3>2. Mounted = {}
      BY <3>1 DEF Mounted, OnStage, Stage, ToSet
    <3> QED  BY <3>2
  <2> QED  BY <1>1, <1>2, <2>1, <2>2, <2>3 DEF Starts, Kept, OnStage, Stage
<1> QED  BY <1>1, <1>4, <1>5, <1>6, <1>7, <1>8, <1>9 DEF TerminalInv

(* A component that waits is on the stage.                                 *)
LEMMA HostIs ==
  ASSUME TerminalInv, NEW p \in Panes
  PROVE  /\ host[p] \in [frame : Times, retry : Times]
         /\ host[p].frame # None \/ host[p].retry # None => p \in Mounted
         /\ host[p].frame # None => host[p].frame \in Nat /\ host[p].frame <= gen
         /\ host[p].retry # None => host[p].retry \in Nat /\ host[p].retry <= gen
  BY DEF TerminalInv, Types, Gens, Hosts, NoHost

(* The stage is resized.                                                   *)
LEMMA ResizeInv == ASSUME TerminalInv, Resize PROVE TerminalInv'
<1>1. /\ window' = window /\ calls' = calls /\ native' = native /\ overtook' = overtook /\ answers' = answers
      /\ IsActive /\ host' = [p \in Panes |-> IF p \in Mounted THEN Sync(host[p], gen) ELSE host[p]]
  BY DEF Resize
<1>2. gen \in Nat /\ gen <= gen /\ answers \in Seq([pane : Panes, gen : Nat, ok : BOOLEAN])
  BY DEF TerminalInv, Types
<1>3. \A p \in Panes : p \notin Mounted => host[p] = NoHost
  BY DEF TerminalInv, Hosts
<1>4. \A h \in [frame : Times, retry : Times] :
        /\ Sync(h, gen) \in [frame : Times, retry : Times] /\ Sync(h, gen).frame = gen /\ Sync(h, gen).retry = h.retry
  BY <1>2 DEF Sync, Times
<1>5. \A p \in Panes : /\ host'[p] \in [frame : Times, retry : Times]
                       /\ host'[p].frame \in {host[p].frame, gen} /\ host'[p].retry = host[p].retry
                       /\ p \notin Mounted => host'[p] = NoHost
  <2> SUFFICES ASSUME NEW p \in Panes
               PROVE  /\ host'[p] \in [frame : Times, retry : Times]
                      /\ host'[p].frame \in {host[p].frame, gen} /\ host'[p].retry = host[p].retry
                      /\ p \notin Mounted => host'[p] = NoHost
    OBVIOUS
  <2>1. host[p] \in [frame : Times, retry : Times]
    BY HostIs
  <2>2. CASE p \in Mounted
    BY <1>1, <1>4, <2>1, <2>2
  <2>3. CASE p \notin Mounted
    BY <1>1, <1>3, <2>1, <2>3
  <2> QED  BY <2>2, <2>3
<1>6. host' \in [Panes -> [frame : Times, retry : Times]]
  BY <1>1, <1>5
<1> QED  BY <1>1, <1>2, <1>5, <1>6, HostsInv

(* One component changes.                                                  *)
LEMMA OneHost ==
  ASSUME TerminalInv, window' = window, calls' = calls, native' = native, overtook' = overtook,
         answers' \in Seq([pane : Panes, gen : Nat, ok : BOOLEAN]),
         \A i \in DOMAIN answers' : \E j \in DOMAIN answers : answers'[i] = answers[j],
         NEW p \in Mounted, NEW k \in [frame : Times, retry : Times], host' = [host EXCEPT ![p] = k],
         k.frame \in {None, host[p].frame} \/ (IsActive /\ k.frame \in Nat /\ k.frame <= gen),
         k.retry \in {None, host[p].retry} \/ (k.retry \in Nat /\ k.retry <= gen)
  PROVE  TerminalInv'
<1>1. Mounted \in SUBSET Panes /\ host \in [Panes -> [frame : Times, retry : Times]]
  BY MountedIs DEF TerminalInv, Types
<1>2. /\ host' \in [Panes -> [frame : Times, retry : Times]] /\ host'[p] = k
      /\ \A q \in Panes : q # p => host'[q] = host[q]
  BY <1>1
<1>3. \A q \in Panes : q \notin Mounted => host'[q] = NoHost
  BY <1>2 DEF TerminalInv, Hosts
<1> QED  BY <1>2, <1>3, HostsInv

(* A retry is of the window's generation.                                  *)
LEMMA RetriedIs ==
  ASSUME TerminalInv, NEW h \in [frame : Times, retry : Times], NEW g
  PROVE  LET k == Retried(h, g)
         IN /\ k \in [frame : Times, retry : Times] /\ k.frame = h.frame
            /\ k.retry = h.retry \/ (k.retry \in Nat /\ k.retry <= gen)
<1>1. gen \in Nat /\ gen <= gen /\ gen \in Times
  BY DEF TerminalInv, Types, Times
<1>2. CASE IsActive /\ g = gen
  BY <1>1, <1>2 DEF Retried
<1>3. CASE ~(IsActive /\ g = gen)
  BY <1>3 DEF Retried
<1> QED  BY <1>2, <1>3

(* A retry timer fires.                                                    *)
LEMMA TimerInv == ASSUME TerminalInv, NEW p \in Panes, Timer(p) PROVE TerminalInv'
<1>1. PICK h0 : h0 = host[p]
  OBVIOUS
<1>2. h0.retry # None /\ p \in Mounted /\ h0 \in [frame : Times, retry : Times]
      /\ h0.retry \in Nat /\ h0.retry <= gen /\ None \in Times
  BY <1>1, HostIs DEF Timer, Times
<1>3. PICK h : h = [h0 EXCEPT !.retry = None]
  OBVIOUS
<1>4. PICK k : k = IF IsActive THEN Sync(h, h0.retry) ELSE h
  OBVIOUS
<1>5. /\ window' = window /\ calls' = calls /\ native' = native /\ overtook' = overtook /\ answers' = answers
      /\ host' = [host EXCEPT ![p] = k]
  BY <1>1, <1>3, <1>4 DEF Timer
<1>6. h \in [frame : Times, retry : Times] /\ h.retry = None /\ h.frame = h0.frame
  BY <1>2, <1>3
<1>7. k \in [frame : Times, retry : Times] /\ k.retry = None
      /\ (k.frame = h0.frame \/ (IsActive /\ k.frame \in Nat /\ k.frame <= gen))
  <2>1. CASE IsActive
    <3>1. k = [h EXCEPT !.frame = h0.retry]
      BY <1>4, <2>1 DEF Sync
    <3> QED  BY <1>2, <1>6, <2>1, <3>1
  <2>2. CASE ~IsActive
    BY <1>4, <1>6, <2>2
  <2> QED  BY <2>1, <2>2
<1>8. answers \in Seq([pane : Panes, gen : Nat, ok : BOOLEAN])
  BY DEF TerminalInv, Types
<1> QED  BY <1>1, <1>2, <1>5, <1>7, <1>8, OneHost

(* An answer comes.                                                        *)
LEMMA AnswerInv == ASSUME TerminalInv, Answer PROVE TerminalInv'
<1> DEFINE A == [pane : Panes, gen : Nat, ok : BOOLEAN]
<1>1. answers \in Seq(A) /\ answers # <<>> /\ answers' = Tail(answers) /\ \A i \in DOMAIN answers : answers[i].pane \in Mounted
  BY DEF Answer, TerminalInv, Types, Hosts
<1>2. PICK a : a = Head(answers)
  OBVIOUS
<1>3. a \in A /\ a.pane \in Mounted
  <2>1. a = answers[1] /\ 1 \in DOMAIN answers
    BY <1>1, <1>2
  <2> HIDE DEF A
  <2> QED  BY <1>1, <2>1
<1>4. PICK p, h : p = a.pane /\ h = host[p]
  OBVIOUS
<1>5. p \in Panes /\ p \in Mounted /\ h \in [frame : Times, retry : Times]
  <2>1. p \in Panes /\ p \in Mounted
    BY <1>3, <1>4
  <2> QED  BY <1>4, <2>1, HostIs
<1>6. PICK k : k = IF a.ok THEN [h EXCEPT !.retry = None] ELSE Retried(h, a.gen)
  OBVIOUS
<1>7. /\ window' = window /\ calls' = calls /\ native' = native /\ overtook' = overtook
      /\ host' = [host EXCEPT ![p] = k]
  BY <1>2, <1>4, <1>5, <1>6 DEF Answer, TerminalInv, Types
<1>8. k \in [frame : Times, retry : Times] /\ k.frame = h.frame
      /\ (k.retry \in {None, h.retry} \/ (k.retry \in Nat /\ k.retry <= gen))
  <2>1. CASE a.ok
    BY <1>5, <1>6, <2>1 DEF Times
  <2>2. CASE ~a.ok
    BY <1>5, <1>6, <2>2, RetriedIs
  <2> QED  BY <2>1, <2>2
<1>9. answers' \in Seq(A) /\ \A i \in DOMAIN answers' : \E j \in DOMAIN answers : answers'[i] = answers[j]
  <2> HIDE DEF A
  <2> QED  BY <1>1
<1> QED  BY <1>4, <1>5, <1>7, <1>8, <1>9, OneHost

(* A show that is sent.                                                    *)
LEMMA ShowIs ==
  ASSUME NEW g \in Nat, NEW p \in Panes
  PROVE  LET c == Call("show", g, p)
         IN c \in CallType /\ c.op = "show" /\ c.gen = g /\ c.pane = p
  BY DEF Call, CallType

(* A show is sent: of a pane that is on the stage of an active terminal,   *)
(* or fenced as its frame was.                                             *)
LEMMA SendInv ==
  ASSUME TerminalInv, NEW p \in Panes, host[p].frame # None,
         window' = window, native' = native, answers' = answers, overtook' = overtook,
         host' = [host EXCEPT ![p] = [host[p] EXCEPT !.frame = None]],
         calls' = Append(calls, Call("show", host[p].frame, p))
  PROVE  TerminalInv'
<1>1. /\ Mounted' = Mounted /\ IsActive' = IsActive /\ \A q : Wanted(q)' = Wanted(q)
      /\ sess' = sess /\ saved' = saved /\ ws' = ws /\ tabs' = tabs /\ active' = active /\ ready' = ready
      /\ gen' = gen /\ made' = made
  BY SameWindow
<1>2. latest' = latest /\ visible' = visible
  BY DEF native
<1>3. Types /\ Sessions /\ Gens /\ Hosts
  BY DEF TerminalInv
<1>4. PICK f, c, n : f = host[p].frame /\ c = Call("show", f, p) /\ n = Len(calls)
  OBVIOUS
<1>5. f \in Nat /\ f <= gen /\ p \in Mounted /\ f # None
  BY <1>4, HostIs
<1>6. c \in CallType /\ c.op = "show" /\ c.gen = f /\ c.pane = p
  BY <1>4, <1>5, ShowIs
<1>7. ready
  <2> SUFFICES ASSUME ~ready PROVE FALSE
    OBVIOUS
  <2>1. host[p] = NoHost
    BY DEF TerminalInv, Starts
  <2> QED  BY <2>1 DEF NoHost
<1>8. /\ calls' \in Seq(CallType) /\ n \in Nat /\ DOMAIN calls = 1..n /\ DOMAIN calls' = 1..(n + 1)
      /\ \A i \in 1..n : calls'[i] = calls[i]
      /\ calls'[n + 1] = c
  <2>1. calls \in Seq(CallType) /\ calls' = Append(calls, c)
    BY <1>3, <1>4 DEF Types
  <2> HIDE DEF CallType
  <2> QED  BY <1>4, <1>6, <2>1
<1>9. \A i \in DOMAIN calls' : i \in DOMAIN calls \/ calls'[i] = c
  BY <1>8
<1>10. /\ host' \in [Panes -> [frame : Times, retry : Times]]
       /\ host'[p].frame = None /\ host'[p].retry = host[p].retry
       /\ \A q \in Panes : q # p => host'[q] = host[q]
  <2>1. host \in [Panes -> [frame : Times, retry : Times]] /\ None \in Times
    BY <1>3 DEF Types, Times
  <2>2. PICK h : h = host[p]
    OBVIOUS
  <2>3. h \in [frame : Times, retry : Times]
    BY <2>1, <2>2
  <2>4. PICK k : k = [h EXCEPT !.frame = None]
    OBVIOUS
  <2>5. k \in [frame : Times, retry : Times] /\ k.frame = None /\ k.retry = h.retry
    BY <2>1, <2>3, <2>4
  <2>6. host' = [host EXCEPT ![p] = k]
    BY <2>2, <2>4
  <2> QED  BY <2>1, <2>2, <2>5, <2>6
<1>11. Types'
  BY <1>1, <1>2, <1>3, <1>8, <1>10 DEF Types
<1>12. Sessions'
  BY <1>1, <1>3 DEF Sessions, Tabs
<1>13. Gens'
  <2>1. \A i \in DOMAIN calls' : calls'[i].gen <= gen
    BY <1>3, <1>5, <1>6, <1>8, <1>9 DEF Gens
  <2>2. \A q \in Panes : /\ host'[q].frame # None => host'[q].frame \in Nat /\ host'[q].frame <= gen
                         /\ host'[q].retry # None => host'[q].retry \in Nat /\ host'[q].retry <= gen
    BY <1>3, <1>10 DEF Gens
  <2> QED  BY <1>1, <1>2, <1>3, <2>1, <2>2 DEF Gens
<1>14. Hosts'
  <2>1. \A q \in Panes : q \in Mounted \/ host'[q] = NoHost
    BY <1>3, <1>5, <1>10 DEF Hosts
  <2>2. \A i \in DOMAIN calls' : /\ calls'[i].op = "show" => calls'[i].pane \in Panes /\ (calls'[i].heard => calls'[i].pane \in Mounted)
                                 /\ calls'[i].op # "reset"
    BY <1>3, <1>5, <1>6, <1>7, <1>8, <1>9 DEF Hosts
  <2> QED  BY <1>1, <1>3, <2>1, <2>2 DEF Hosts
<1>15. Cleared
  BY <1>7 DEF TerminalInv
<1>16. ASSUME NEW q \in Panes \ overtook PROVE Wanted(q)' \/ Gone(q)'
  <2>1. CASE Wanted(q)
    BY <1>1, <2>1
  <2>2. CASE ~Wanted(q)
    <3>1. Gone(q)
      BY <1>15, <1>16, <2>2 DEF Cleared
    <3>2. \A j \in DOMAIN calls : j \in DOMAIN calls' /\ calls'[j] = calls[j]
      BY <1>8
    <3>3. q \in visible' => \E j \in DOMAIN calls' : Ends(calls'[j], q)
      BY <1>2, <3>1, <3>2 DEF Gone
    <3>4. ASSUME NEW i \in DOMAIN calls, calls[i].op = "show", calls[i].pane = q PROVE Fenced(q, i)'
      <4>1. Fenced(q, i)
        BY <3>1, <3>4 DEF Gone
      <4> QED  BY <1>2, <3>2, <4>1 DEF Fenced, Ends
    <3>5. q = p => f < latest \/ \E j \in DOMAIN calls : Ends(calls[j], q) /\ f < calls[j].gen
      BY <1>4, <1>5, <3>1 DEF Gone
    <3>6. q = p => Fenced(q, n + 1)'
      <4> SUFFICES ASSUME q = p PROVE Fenced(q, n + 1)'
        OBVIOUS
      <4>1. calls'[n + 1].gen = f
        BY <1>6, <1>8
      <4>2. f < latest' \/ \E j \in DOMAIN calls' : Ends(calls'[j], q) /\ f < calls'[j].gen
        BY <1>2, <3>2, <3>5
      <4> QED  BY <4>1, <4>2 DEF Fenced, Ends
    <3>7. \A i \in DOMAIN calls' : calls'[i].op = "show" /\ calls'[i].pane = q => Fenced(q, i)'
      <4> SUFFICES ASSUME NEW i \in DOMAIN calls', calls'[i].op = "show", calls'[i].pane = q PROVE Fenced(q, i)'
        OBVIOUS
      <4>1. CASE i \in DOMAIN calls
        BY <3>2, <3>4, <4>1
      <4>2. CASE i \notin DOMAIN calls
        <5>1. i = n + 1
          BY <1>8, <4>2
        <5>2. q = p
          BY <1>6, <1>8, <5>1
        <5> QED  BY <3>6, <5>1, <5>2
      <4> QED  BY <4>1, <4>2
    <3>8. host'[q].frame # None => \/ host'[q].frame < latest'
                                   \/ \E j \in DOMAIN calls' : Ends(calls'[j], q) /\ host'[q].frame < calls'[j].gen
      BY <1>2, <1>10, <3>1, <3>2 DEF Gone
    <3> QED  BY <3>3, <3>7, <3>8 DEF Gone, Ends
  <2> QED  BY <2>1, <2>2
<1>17. Cleared'
  BY <1>1, <1>5, <1>16 DEF Cleared
<1> QED  BY <1>1, <1>7, <1>11, <1>12, <1>13, <1>14, <1>17 DEF TerminalInv

(* A frame comes.                                                          *)
LEMMA FrameInv == ASSUME TerminalInv, NEW p \in Panes, Frame(p) PROVE TerminalInv'
<1>1. PICK h0, h : h0 = host[p] /\ h = [h0 EXCEPT !.frame = None]
  OBVIOUS
<1>2. host[p].frame # None /\ window' = window /\ native' = native /\ answers' = answers /\ overtook' = overtook
  BY DEF Frame
<1>3. CASE host' = [host EXCEPT ![p] = Retried(h, host[p].frame)] /\ calls' = calls
  <2>1. h0 \in [frame : Times, retry : Times] /\ p \in Mounted /\ None \in Times
    BY <1>1, <1>2, HostIs DEF Times
  <2>2. h \in [frame : Times, retry : Times] /\ h.frame = None /\ h.retry = h0.retry
    BY <1>1, <2>1
  <2>3. PICK k : k = Retried(h, host[p].frame)
    OBVIOUS
  <2>4. k \in [frame : Times, retry : Times] /\ k.frame = None
        /\ (k.retry = h0.retry \/ (k.retry \in Nat /\ k.retry <= gen))
    BY <2>2, <2>3, RetriedIs
  <2>5. answers' \in Seq([pane : Panes, gen : Nat, ok : BOOLEAN])
        /\ \A i \in DOMAIN answers' : \E j \in DOMAIN answers : answers'[i] = answers[j]
    BY <1>2 DEF TerminalInv, Types
  <2> QED  BY <1>1, <1>2, <1>3, <2>1, <2>3, <2>4, <2>5, OneHost
<1>4. CASE host' = [host EXCEPT ![p] = h] /\ calls' = Append(calls, Call("show", host[p].frame, p))
  BY <1>1, <1>2, <1>4, SendInv
<1> QED  BY <1>1, <1>3, <1>4 DEF Frame

-----------------------------------------------------------------------------
(* The native side, and the calls on their way.                            *)

(* What a call does to the surfaces.                                       *)
Done(c) ==
  /\ visible' \subseteq Panes
  /\ IF c.op = "reset" THEN latest' = 0
     ELSE latest <= latest' /\ latest' \in {latest, c.gen}
  /\ c.op \in {"hide", "close"} => c.gen <= latest' /\ c.pane \notin visible'
  /\ \A p \in visible' : p \in visible \/ (c.op = "show" /\ p = c.pane /\ latest <= c.gen)
  /\ c.op = "hide_all" /\ latest <= c.gen => visible' = {} /\ latest' = c.gen
  /\ \/ answers' = answers
     \/ c.op = "show" /\ c.heard /\ \E ok \in BOOLEAN : answers' = Append(answers, [pane |-> c.pane, gen |-> c.gen, ok |-> ok])

(* So it is for every call.                                                *)
LEMMA HandleIs ==
  ASSUME Types, NEW c \in CallType, c.op = "show" => c.pane \in Panes, Handle(c)
  PROVE  Done(c)
<1>1. latest \in Nat /\ visible \subseteq Panes /\ c.gen \in Nat /\ c.heard \in BOOLEAN
  BY DEF Types, CallType
<1>2. c.op # "reset" => /\ Observed(c) \in {latest, c.gen} /\ latest <= Observed(c) /\ c.gen <= Observed(c)
                        /\ latest <= c.gen => Observed(c) = c.gen
  BY <1>1 DEF Observed
<1>3. CASE Show(c)
  <2>1. /\ c.op = "show" /\ visible' \subseteq visible \cup {c.pane}
        /\ latest' = latest \/ latest' = Observed(c)
        /\ visible' \subseteq visible \/ latest <= c.gen
    BY <1>1, <1>3 DEF Show, Shows, native
  <2>2. answers' = answers
        \/ (c.heard /\ \E ok \in BOOLEAN : answers' = Append(answers, [pane |-> c.pane, gen |-> c.gen, ok |-> ok]))
    BY <1>3 DEF Show, Reply
  <2>3. latest <= latest
    BY <1>1
  <2> QED  BY <1>1, <1>2, <2>1, <2>2, <2>3 DEF Done
<1>4. CASE Hide(c)
  <2>1. c.op = "hide" /\ latest' = Observed(c) /\ visible' = visible \ {c.pane} /\ answers' = answers
    BY <1>4 DEF Hide
  <2> QED  BY <1>1, <1>2, <2>1 DEF Done
<1>5. CASE Close(c)
  <2>1. c.op = "close" /\ latest' = Observed(c) /\ visible' = visible \ {c.pane} /\ answers' = answers
    BY <1>5 DEF Close
  <2> QED  BY <1>1, <1>2, <2>1 DEF Done
<1>6. CASE HideAll(c)
  <2>1. /\ c.op = "hide_all" /\ latest' = Observed(c) /\ answers' = answers /\ visible' \subseteq visible
        /\ latest <= c.gen => visible' = {}
    BY <1>1, <1>6 DEF HideAll
  <2> QED  BY <1>1, <1>2, <2>1 DEF Done
<1>7. CASE Reset(c)
  <2>1. c.op = "reset" /\ latest' = 0 /\ answers' = answers /\ visible' = visible
    BY <1>7 DEF Reset, Observed
  <2> QED  BY <1>1, <2>1 DEF Done
<1> QED  BY <1>3, <1>4, <1>5, <1>6, <1>7 DEF Handle

(* A call is carried out: one that ends shows has raised the fence.        *)
LEMMA DeliverInv == ASSUME TerminalInv, Deliver PROVE TerminalInv'
<1> DEFINE A == [pane : Panes, gen : Nat, ok : BOOLEAN]
<1>1. /\ window' = window /\ host' = host /\ overtook' = overtook /\ calls # <<>> /\ calls' = Tail(calls)
      /\ Handle(Head(calls))
  BY DEF Deliver
<1>2. /\ Mounted' = Mounted /\ IsActive' = IsActive /\ \A q : Wanted(q)' = Wanted(q)
      /\ sess' = sess /\ saved' = saved /\ ws' = ws /\ tabs' = tabs /\ active' = active /\ ready' = ready
      /\ gen' = gen /\ made' = made
  BY <1>1, SameWindow
<1>3. Types /\ Sessions /\ Gens /\ Hosts
  BY DEF TerminalInv
<1>4. PICK c, n : c = calls[1] /\ n = Len(calls)
  OBVIOUS
<1>5. /\ calls' \in Seq(CallType) /\ n \in Nat /\ n >= 1 /\ DOMAIN calls = 1..n /\ DOMAIN calls' = 1..(n - 1)
      /\ \A i \in 1..(n - 1) : calls'[i] = calls[i + 1]
      /\ c \in CallType /\ c = Head(calls)
  <2>1. calls \in Seq(CallType)
    BY <1>3 DEF Types
  <2> HIDE DEF CallType
  <2> QED  BY <1>1, <1>4, <2>1
<1>6. 1 \in DOMAIN calls /\ c.gen \in Nat /\ latest \in Nat /\ gen \in Nat
  <2>1. 1 \in DOMAIN calls
    BY <1>5
  <2> QED  BY <1>3, <1>4, <2>1, CallIs DEF Types
<1>7. /\ c.gen <= gen
      /\ c.op = "show" => c.pane \in Panes /\ (c.heard => c.pane \in Mounted)
      /\ ready => c.op # "reset" /\ latest <= gen
  BY <1>3, <1>4, <1>6 DEF Gens, Hosts
<1>8. Done(c)
  BY <1>1, <1>3, <1>5, <1>7, HandleIs
<1>9. \A i \in DOMAIN calls' : i + 1 \in DOMAIN calls /\ calls'[i] = calls[i + 1] /\ i \in Nat
  BY <1>5
<1>10. \A j \in DOMAIN calls : j = 1 \/ (j - 1 \in DOMAIN calls' /\ calls'[j - 1] = calls[j] /\ j \in Nat)
  <2> SUFFICES ASSUME NEW j \in DOMAIN calls, j # 1 PROVE j - 1 \in DOMAIN calls' /\ calls'[j - 1] = calls[j] /\ j \in Nat
    OBVIOUS
  <2>1. j \in Nat /\ j - 1 \in 1..(n - 1) /\ (j - 1) + 1 = j
    BY <1>5
  <2> QED  BY <1>5, <2>1
<1>11. latest' \in Nat /\ (c.op # "reset" => latest <= latest') /\ (ready => latest' <= gen)
  BY <1>6, <1>7, <1>8 DEF Done
<1>12. /\ answers' \in Seq(A) /\ \A i \in DOMAIN answers' : answers'[i].pane \in Mounted
  <2>1. answers \in Seq(A) /\ \A i \in DOMAIN answers : answers[i].pane \in Mounted
    BY <1>3 DEF Types, Hosts
  <2>2. CASE answers' = answers
    BY <2>1, <2>2
  <2>3. CASE c.op = "show" /\ c.heard /\ \E ok \in BOOLEAN : answers' = Append(answers, [pane |-> c.pane, gen |-> c.gen, ok |-> ok])
    <3>1. PICK ok \in BOOLEAN : answers' = Append(answers, [pane |-> c.pane, gen |-> c.gen, ok |-> ok])
      BY <2>3
    <3>2. PICK a : a = [pane |-> c.pane, gen |-> c.gen, ok |-> ok]
      OBVIOUS
    <3>3. a \in A /\ a.pane \in Mounted
      BY <1>6, <1>7, <2>3, <3>2
    <3>4. answers' = Append(answers, a)
      BY <3>1, <3>2
    <3> HIDE DEF A
    <3>5. answers' \in Seq(A) /\ \A i \in DOMAIN answers' : (i \in DOMAIN answers /\ answers'[i] = answers[i]) \/ answers'[i] = a
      BY <2>1, <3>3, <3>4
    <3> QED  BY <2>1, <3>3, <3>5
  <2> QED  BY <1>8, <2>2, <2>3 DEF Done
<1>13. Types'
  <2>1. visible' \subseteq Panes
    BY <1>8 DEF Done
  <2> QED  BY <1>1, <1>2, <1>3, <1>5, <1>11, <1>12, <2>1 DEF Types
<1>14. Sessions'
  BY <1>2, <1>3 DEF Sessions, Tabs
<1>15. Gens'
  BY <1>1, <1>2, <1>3, <1>9, <1>11 DEF Gens
<1>16. Hosts'
  BY <1>1, <1>2, <1>3, <1>9, <1>12 DEF Hosts
<1>17. ASSUME ready PROVE Cleared'
  <2>1. Cleared /\ c.op # "reset" /\ latest <= latest'
    BY <1>7, <1>11, <1>17 DEF TerminalInv
  <2>2. ASSUME NEW p \in Panes, Gone(p) PROVE Gone(p)'
    <3>1. ASSUME NEW j \in DOMAIN calls, Ends(calls[j], p)
          PROVE  (j = 1 /\ c.gen <= latest' /\ p \notin visible')
                 \/ (j - 1 \in DOMAIN calls' /\ Ends(calls'[j - 1], p) /\ calls'[j - 1].gen = calls[j].gen /\ j \in Nat)
      <4>1. CASE j = 1
        BY <1>4, <1>8, <3>1, <4>1 DEF Ends, Done
      <4>2. CASE j # 1
        BY <1>10, <3>1, <4>2
      <4> QED  BY <4>1, <4>2
    <3>2. ASSUME NEW i \in DOMAIN calls, calls[i].op = "show", calls[i].pane = p PROVE Fenced(p, i)
      BY <2>2, <3>2 DEF Gone
    <3>3. p \in visible' => \E j \in DOMAIN calls' : Ends(calls'[j], p)
      <4> SUFFICES ASSUME p \in visible' PROVE \E j \in DOMAIN calls' : Ends(calls'[j], p)
        OBVIOUS
      <4>1. CASE p \in visible
        <5>1. \E j \in DOMAIN calls : Ends(calls[j], p)
          BY <2>2, <4>1 DEF Gone
        <5> QED  BY <3>1, <5>1
      <4>2. CASE c.op = "show" /\ p = c.pane /\ latest <= c.gen
        <5>1. Fenced(p, 1)
          BY <1>4, <1>6, <3>2, <4>2
        <5>2. ~(c.gen < latest)
          BY <1>6, <4>2
        <5>3. \E j \in DOMAIN calls : Ends(calls[j], p)
          BY <1>4, <5>1, <5>2 DEF Fenced
        <5> QED  BY <3>1, <5>3
      <4> QED  BY <1>8, <4>1, <4>2 DEF Done
    <3>4. ASSUME NEW i \in DOMAIN calls', calls'[i].op = "show", calls'[i].pane = p PROVE Fenced(p, i)'
      <4>1. i + 1 \in DOMAIN calls /\ calls'[i] = calls[i + 1] /\ i \in Nat /\ calls[i + 1].gen \in Nat
        BY <1>3, <1>9, CallIs
      <4>2. Fenced(p, i + 1)
        BY <3>2, <3>4, <4>1
      <4>3. CASE calls[i + 1].gen < latest
        <5>1. calls'[i].gen < latest'
          BY <1>6, <1>11, <2>1, <4>1, <4>3
        <5> QED  BY <5>1 DEF Fenced
      <4>4. CASE \E j \in DOMAIN calls : Ends(calls[j], p) /\ (i + 1 < j \/ calls[i + 1].gen < calls[j].gen)
        <5>1. PICK j \in DOMAIN calls : Ends(calls[j], p) /\ (i + 1 < j \/ calls[i + 1].gen < calls[j].gen)
          BY <4>4
        <5>2. CASE j = 1 /\ c.gen <= latest' /\ p \notin visible'
          <6>1. calls[i + 1].gen < c.gen
            BY <1>4, <4>1, <5>1, <5>2
          <6>2. calls'[i].gen < latest'
            BY <1>6, <1>11, <4>1, <5>2, <6>1
          <6> QED  BY <6>2 DEF Fenced
        <5>3. CASE j - 1 \in DOMAIN calls' /\ Ends(calls'[j - 1], p) /\ calls'[j - 1].gen = calls[j].gen /\ j \in Nat
          <6>1. i < j - 1 \/ calls'[i].gen < calls'[j - 1].gen
            BY <4>1, <5>1, <5>3
          <6> QED  BY <5>3, <6>1 DEF Fenced, Ends
        <5> QED  BY <3>1, <5>1, <5>2, <5>3
      <4> QED  BY <4>2, <4>3, <4>4 DEF Fenced
    <3>5. host'[p].frame # None => \/ host'[p].frame < latest'
                                   \/ \E j \in DOMAIN calls' : Ends(calls'[j], p) /\ host'[p].frame < calls'[j].gen
      <4> SUFFICES ASSUME host'[p].frame # None
                   PROVE  \/ host'[p].frame < latest'
                          \/ \E j \in DOMAIN calls' : Ends(calls'[j], p) /\ host'[p].frame < calls'[j].gen
        OBVIOUS
      <4>1. PICK f : f = host[p].frame
        OBVIOUS
      <4>2. f < latest \/ \E j \in DOMAIN calls : Ends(calls[j], p) /\ f < calls[j].gen
        BY <1>1, <2>2, <4>1 DEF Gone
      <4>3. f \in Nat /\ host'[p].frame = f
        BY <1>1, <1>3, <4>1 DEF Gens
      <4>4. CASE f < latest
        BY <1>6, <1>11, <2>1, <4>3, <4>4
      <4>5. CASE \E j \in DOMAIN calls : Ends(calls[j], p) /\ f < calls[j].gen
        <5>1. PICK j \in DOMAIN calls : Ends(calls[j], p) /\ f < calls[j].gen
          BY <4>5
        <5>2. CASE j = 1 /\ c.gen <= latest' /\ p \notin visible'
          <6>1. f < c.gen
            BY <1>4, <5>1, <5>2
          <6> QED  BY <1>6, <1>11, <4>3, <5>2, <6>1
        <5>3. CASE j - 1 \in DOMAIN calls' /\ Ends(calls'[j - 1], p) /\ calls'[j - 1].gen = calls[j].gen
          BY <4>3, <5>1, <5>3
        <5> QED  BY <3>1, <5>1, <5>2, <5>3
      <4> QED  BY <4>2, <4>4, <4>5
    <3> QED  BY <3>3, <3>4, <3>5 DEF Gone, Ends
  <2>3. ASSUME Bare PROVE Bare'
    <3>1. CASE \E j \in DOMAIN calls : /\ calls[j].op = "hide_all" /\ calls[j].gen = gen
                                       /\ \A i \in DOMAIN calls : calls[i].op = "show" => calls[i].gen < gen
      <4>1. \A i \in DOMAIN calls' : calls'[i].op = "show" => calls'[i].gen < gen
        BY <1>9, <3>1
      <4>2. PICK j \in DOMAIN calls : calls[j].op = "hide_all" /\ calls[j].gen = gen
        BY <3>1
      <4>3. CASE j = 1
        <5>1. visible' = {} /\ latest' = gen
          BY <1>4, <1>7, <1>8, <1>17, <4>2, <4>3 DEF Done
        <5> QED  BY <4>1, <5>1 DEF Bare
      <4>4. CASE j # 1
        BY <1>2, <1>10, <4>1, <4>2, <4>4 DEF Bare
      <4> QED  BY <4>3, <4>4
    <3>2. CASE visible = {} /\ \A i \in DOMAIN calls : calls[i].op = "show" => calls[i].gen < latest
      <4>1. ~(c.op = "show" /\ latest <= c.gen)
        BY <1>4, <1>6, <3>2
      <4>2. visible' = {}
        BY <1>8, <3>2, <4>1 DEF Done
      <4>3. \A i \in DOMAIN calls' : calls'[i].op = "show" => calls'[i].gen < latest'
        <5> SUFFICES ASSUME NEW i \in DOMAIN calls', calls'[i].op = "show" PROVE calls'[i].gen < latest'
          OBVIOUS
        <5>1. calls'[i].gen < latest /\ calls'[i].gen \in Nat
          BY <1>3, <1>9, <3>2, CallIs
        <5> QED  BY <1>6, <1>11, <2>1, <5>1
      <4> QED  BY <4>2, <4>3 DEF Bare
    <3> QED  BY <2>3, <3>1, <3>2 DEF Bare
  <2> QED  BY <1>1, <1>2, <2>1, <2>2, <2>3 DEF Cleared
<1>18. ASSUME ~ready PROVE Starts'
  <2>1. Starts
    BY <1>18 DEF TerminalInv
  <2>2. c \in {Call("hide_all", 1, None), Call("reset", 0, None)}
    BY <1>4, <1>6, <2>1 DEF Starts
  <2>3. c.op \in {"hide_all", "reset"} /\ (c.op = "hide_all" => c.gen = 1)
    BY <2>2 DEF Call
  <2>4. visible' \subseteq visible /\ answers' = answers
    BY <1>8, <2>3 DEF Done
  <2>5. \A i \in DOMAIN calls' : calls'[i] \in {Call("hide_all", 1, None), Call("reset", 0, None)}
    BY <1>9, <2>1 DEF Starts
  <2>6. (\E i \in DOMAIN calls' : calls'[i].op = "reset") \/ latest' <= 1
    <3>1. CASE c.op = "reset"
      BY <1>8, <3>1 DEF Done
    <3>2. CASE c.op = "hide_all"
      <4>1. (\E i \in DOMAIN calls : calls[i].op = "reset") \/ latest <= 1
        BY <2>1 DEF Starts
      <4>2. latest <= 1 => latest' <= 1
        BY <1>6, <1>8, <2>3, <3>2 DEF Done
      <4>3. ASSUME NEW i \in DOMAIN calls, calls[i].op = "reset" PROVE \E k \in DOMAIN calls' : calls'[k].op = "reset"
        BY <1>4, <1>10, <3>2, <4>3
      <4> QED  BY <4>1, <4>2, <4>3
    <3> QED  BY <2>3, <3>1, <3>2
  <2> QED  BY <1>1, <1>2, <2>1, <2>4, <2>5, <2>6 DEF Starts, Kept, OnStage, Stage
<1> QED  BY <1>2, <1>13, <1>14, <1>15, <1>16, <1>17, <1>18 DEF TerminalInv

(* The call at i goes behind the others, which keep their order.           *)
LEMMA MoveIs ==
  ASSUME NEW T, NEW q \in Seq(T), NEW i \in 1..(Len(q) - 1)
  PROVE  LET c == Append(RemoveAt(q, i), q[i])
             n == Len(q)
         IN /\ c \in Seq(T) /\ Len(c) = n
            /\ \A k \in 1..n : c[k] = IF k < i THEN q[k] ELSE IF k < n THEN q[k + 1] ELSE q[i]
<1>1. PICK n \in Nat : n = Len(q)
  OBVIOUS
<1>2. i \in Nat /\ i >= 1 /\ i <= n - 1 /\ i \in 1..n
  BY <1>1
<1>3. PICK a : a = SubSeq(q, 1, i - 1)
  OBVIOUS
<1>4. PICK b : b = SubSeq(q, i + 1, n)
  OBVIOUS
<1>5. a \in Seq(T) /\ Len(a) = i - 1 /\ \A k \in 1..(i - 1) : a[k] = q[k]
  <2>1. 1 \in 1..(Len(q) + 1) /\ i - 1 \in 0..Len(q)
    BY <1>1, <1>2
  <2> QED  BY <1>1, <1>2, <1>3, <2>1
<1>6. b \in Seq(T) /\ Len(b) = n - i /\ \A k \in 1..(n - i) : b[k] = q[i + k]
  <2>1. i + 1 \in 1..(n + 1) /\ n \in 0..n
    BY <1>2
  <2>2. b \in Seq(T) /\ Len(b) = n - i
    BY <1>1, <1>2, <1>4, <2>1
  <2>3. \A k \in 1..(n - i) : b[k] = q[i + k]
    <3> SUFFICES ASSUME NEW k \in 1..(n - i) PROVE b[k] = q[i + k]
      OBVIOUS
    <3>1. b[k] = q[i + 1 + k - 1] /\ i + 1 + k - 1 = i + k
      BY <1>1, <1>2, <1>4
    <3> QED  BY <3>1
  <2> QED  BY <2>2, <2>3
<1>7. PICK r : r = a \o b
  OBVIOUS
<1>8. r \in Seq(T) /\ Len(r) = n - 1 /\ \A k \in 1..(n - 1) : r[k] = IF k <= i - 1 THEN a[k] ELSE b[k - (i - 1)]
  <2>1. r \in Seq(T) /\ Len(r) = Len(a) + Len(b)
        /\ \A k \in 1..(Len(a) + Len(b)) : r[k] = IF k <= Len(a) THEN a[k] ELSE b[k - Len(a)]
    BY <1>5, <1>6, <1>7, ConcatProperties
  <2>2. Len(a) = i - 1 /\ Len(a) + Len(b) = n - 1
    BY <1>2, <1>5, <1>6
  <2> QED  BY <2>1, <2>2
<1>9. \A k \in 1..(n - 1) : r[k] = IF k < i THEN q[k] ELSE q[k + 1]
  <2> SUFFICES ASSUME NEW k \in 1..(n - 1) PROVE r[k] = IF k < i THEN q[k] ELSE q[k + 1]
    OBVIOUS
  <2>1. CASE k < i
    <3>1. k \in 1..(i - 1) /\ k <= i - 1
      BY <1>2, <2>1
    <3> QED  BY <1>5, <1>8, <2>1, <3>1
  <2>2. CASE ~(k < i)
    <3>1. k - (i - 1) \in 1..(n - i) /\ ~(k <= i - 1) /\ i + (k - (i - 1)) = k + 1
      BY <1>2, <2>2
    <3> QED  BY <1>6, <1>8, <2>2, <3>1
  <2> QED  BY <2>1, <2>2
<1>10. PICK c : c = Append(r, q[i])
  OBVIOUS
<1>11. q[i] \in T
  BY <1>1, <1>2
<1>12. /\ c \in Seq(T) /\ Len(c) = n /\ c[n] = q[i]
       /\ \A k \in 1..(n - 1) : c[k] = r[k]
  BY <1>1, <1>8, <1>10, <1>11
<1>13. \A k \in 1..n : c[k] = IF k < i THEN q[k] ELSE IF k < n THEN q[k + 1] ELSE q[i]
  <2> SUFFICES ASSUME NEW k \in 1..n PROVE c[k] = IF k < i THEN q[k] ELSE IF k < n THEN q[k + 1] ELSE q[i]
    OBVIOUS
  <2>1. CASE k = n
    BY <1>2, <1>12, <2>1
  <2>2. CASE k # n
    <3>1. k \in 1..(n - 1) /\ k < n
      BY <1>1, <2>2
    <3> QED  BY <1>9, <1>12, <3>1
  <2> QED  BY <2>1, <2>2
<1>14. c = Append(RemoveAt(q, i), q[i])
  BY <1>1, <1>3, <1>4, <1>7, <1>10 DEF RemoveAt
<1> QED  BY <1>1, <1>12, <1>13, <1>14

(* Calls that change places, given as the new place of each: those of a    *)
(* pane that has not been overtaken keep their order.                      *)
LEMMA OvertakeIs ==
  ASSUME Types, Overtake
  PROVE  /\ calls' \in Seq(CallType) /\ overtook \subseteq overtook'
         /\ \E m \in [DOMAIN calls -> DOMAIN calls'] :
              /\ \A k \in DOMAIN calls : calls'[m[k]] = calls[k]
              /\ \A k \in DOMAIN calls' : \E l \in DOMAIN calls : m[l] = k
              /\ \A k, l \in DOMAIN calls : \A p \in Panes \ overtook' :
                   k < l /\ calls[k].pane = p /\ calls[l].pane = p => m[k] < m[l]
<1>1. PICK i \in 1..(Len(calls) - 1) :
        /\ calls' = Append(RemoveAt(calls, i), calls[i])
        /\ overtook' = overtook \cup {p \in Panes : p = calls[i].pane /\ \E j \in (i + 1)..Len(calls) : calls[j].pane = p}
  BY DEF Overtake
<1>2. PICK n : n = Len(calls)
  OBVIOUS
<1>3. calls \in Seq(CallType) /\ n \in Nat /\ DOMAIN calls = 1..n
  BY <1>2 DEF Types
<1>4. i \in Nat /\ i >= 1 /\ i <= n - 1
  BY <1>2, <1>3
<1>5. /\ calls' \in Seq(CallType) /\ Len(calls') = n
      /\ \A k \in 1..n : calls'[k] = IF k < i THEN calls[k] ELSE IF k < n THEN calls[k + 1] ELSE calls[i]
  BY <1>1, <1>2, <1>3, MoveIs
<1>6. DOMAIN calls' = 1..n
  BY <1>3, <1>5
<1> DEFINE m == [k \in 1..n |-> IF k < i THEN k ELSE IF k = i THEN n ELSE k - 1]
<1>7. m \in [DOMAIN calls -> DOMAIN calls']
  <2>1. \A k \in 1..n : (IF k < i THEN k ELSE IF k = i THEN n ELSE k - 1) \in 1..n
    BY <1>3, <1>4
  <2> QED  BY <1>3, <1>6, <2>1
<1>8. \A k \in 1..n : m[k] = IF k < i THEN k ELSE IF k = i THEN n ELSE k - 1
  OBVIOUS
<1> HIDE DEF m
<1>9. \A k \in DOMAIN calls : calls'[m[k]] = calls[k]
  <2> SUFFICES ASSUME NEW k \in 1..n PROVE calls'[m[k]] = calls[k]
    BY <1>3
  <2>1. m[k] \in 1..n
    BY <1>3, <1>6, <1>7
  <2>2. CASE k < i
    BY <1>5, <1>8, <2>1, <2>2
  <2>3. CASE k = i
    <3>1. m[k] = n /\ ~(n < i) /\ ~(n < n)
      BY <1>3, <1>4, <1>8, <2>3
    <3> QED  BY <1>5, <2>1, <2>3, <3>1
  <2>4. CASE k > i
    <3>1. m[k] = k - 1 /\ ~(k - 1 < i) /\ k - 1 < n /\ (k - 1) + 1 = k
      BY <1>3, <1>4, <1>8, <2>4
    <3> QED  BY <1>5, <2>1, <3>1
  <2> QED  BY <1>4, <2>2, <2>3, <2>4
<1>10. \A k \in DOMAIN calls' : \E l \in DOMAIN calls : m[l] = k
  <2> SUFFICES ASSUME NEW k \in 1..n PROVE \E l \in 1..n : m[l] = k
    BY <1>3, <1>6
  <2>1. CASE k < i
    BY <1>8, <2>1
  <2>2. CASE k >= i /\ k < n
    <3>1. k + 1 \in 1..n /\ ~(k + 1 < i) /\ k + 1 # i /\ (k + 1) - 1 = k
      BY <1>3, <1>4, <2>2
    <3>2. m[k + 1] = k
      BY <1>8, <3>1
    <3> QED  BY <3>1, <3>2
  <2>3. CASE k = n
    <3>1. i \in 1..n /\ m[i] = n
      BY <1>3, <1>4, <1>8
    <3> QED  BY <2>3, <3>1
  <2> QED  BY <1>3, <1>4, <2>1, <2>2, <2>3
<1>11. ASSUME NEW k \in 1..n, NEW l \in 1..n, NEW p \in Panes \ overtook', k < l, calls[k].pane = p, calls[l].pane = p
       PROVE  m[k] < m[l]
  <2>1. k # i
    <3> SUFFICES ASSUME k = i PROVE FALSE
      OBVIOUS
    <3>1. l \in (i + 1)..Len(calls)
      BY <1>2, <1>3, <1>4, <1>11
    <3> QED  BY <1>1, <1>11, <3>1
  <2> QED  BY <1>3, <1>4, <1>8, <1>11, <2>1
<1> QED  BY <1>1, <1>3, <1>5, <1>7, <1>9, <1>10, <1>11

(* A call is overtaken.                                                    *)
LEMMA OvertakeInv == ASSUME TerminalInv, Overtake PROVE TerminalInv'
<1>1. window' = window /\ host' = host /\ answers' = answers /\ native' = native
  BY DEF Overtake
<1>2. /\ Mounted' = Mounted /\ IsActive' = IsActive /\ \A q : Wanted(q)' = Wanted(q)
      /\ sess' = sess /\ saved' = saved /\ ws' = ws /\ tabs' = tabs /\ active' = active /\ ready' = ready
      /\ gen' = gen /\ made' = made
  BY <1>1, SameWindow
<1>3. Types /\ Sessions /\ Gens /\ Hosts
  BY DEF TerminalInv
<1>4. calls' \in Seq(CallType) /\ overtook \subseteq overtook'
  BY <1>3, OvertakeIs
<1>5. PICK m \in [DOMAIN calls -> DOMAIN calls'] :
         /\ \A k \in DOMAIN calls : calls'[m[k]] = calls[k]
         /\ \A k \in DOMAIN calls' : \E l \in DOMAIN calls : m[l] = k
         /\ \A k, l \in DOMAIN calls : \A p \in Panes \ overtook' :
              k < l /\ calls[k].pane = p /\ calls[l].pane = p => m[k] < m[l]
  BY <1>3, OvertakeIs
<1>6. latest' = latest /\ visible' = visible
  BY <1>1 DEF native
<1>7. \A k \in DOMAIN calls : m[k] \in DOMAIN calls' /\ calls'[m[k]] = calls[k]
  BY <1>5
<1>8. \A k \in DOMAIN calls' : \E l \in DOMAIN calls : m[l] = k /\ calls'[k] = calls[l]
  BY <1>5
<1>9. Types'
  BY <1>1, <1>2, <1>3, <1>4, <1>6 DEF Types
<1>10. Sessions'
  BY <1>2, <1>3 DEF Sessions, Tabs
<1>11. Gens'
  BY <1>1, <1>2, <1>3, <1>6, <1>8 DEF Gens
<1>12. Hosts'
  BY <1>1, <1>2, <1>3, <1>8 DEF Hosts
<1>13. ASSUME NEW p \in Panes \ overtook', Gone(p) PROVE Gone(p)'
  <2>1. \A j \in DOMAIN calls : Ends(calls[j], p) => m[j] \in DOMAIN calls' /\ Ends(calls'[m[j]], p) /\ calls'[m[j]].gen = calls[j].gen
    BY <1>7
  <2>2. ASSUME NEW k \in DOMAIN calls', calls'[k].op = "show", calls'[k].pane = p PROVE Fenced(p, k)'
    <3>1. PICK i \in DOMAIN calls : m[i] = k /\ calls'[k] = calls[i]
      BY <1>8
    <3>2. Fenced(p, i)
      BY <1>13, <2>2, <3>1 DEF Gone
    <3>3. CASE calls[i].gen < latest
      BY <1>6, <3>1, <3>3 DEF Fenced
    <3>4. CASE \E j \in DOMAIN calls : Ends(calls[j], p) /\ (i < j \/ calls[i].gen < calls[j].gen)
      <4>1. PICK j \in DOMAIN calls : Ends(calls[j], p) /\ (i < j \/ calls[i].gen < calls[j].gen)
        BY <3>4
      <4>2. i < j => k < m[j]
        BY <1>5, <2>2, <3>1, <4>1 DEF Ends
      <4>3. m[j] \in DOMAIN calls' /\ Ends(calls'[m[j]], p) /\ (k < m[j] \/ calls'[k].gen < calls'[m[j]].gen)
        BY <2>1, <3>1, <4>1, <4>2
      <4> QED  BY <4>3 DEF Fenced, Ends
    <3> QED  BY <3>2, <3>3, <3>4 DEF Fenced
  <2>3. p \in visible' => \E j \in DOMAIN calls' : Ends(calls'[j], p)
    BY <1>6, <1>13, <2>1 DEF Gone
  <2>4. host'[p].frame # None => \/ host'[p].frame < latest'
                                 \/ \E j \in DOMAIN calls' : Ends(calls'[j], p) /\ host'[p].frame < calls'[j].gen
    <3> SUFFICES ASSUME host'[p].frame # None
                 PROVE  \/ host'[p].frame < latest'
                        \/ \E j \in DOMAIN calls' : Ends(calls'[j], p) /\ host'[p].frame < calls'[j].gen
      OBVIOUS
    <3>1. host'[p].frame < latest \/ \E j \in DOMAIN calls : Ends(calls[j], p) /\ host'[p].frame < calls[j].gen
      BY <1>1, <1>13 DEF Gone
    <3> QED  BY <1>6, <2>1, <3>1
  <2> QED  BY <2>2, <2>3, <2>4 DEF Gone, Ends
<1>14. Bare => Bare'
  BY <1>2, <1>6, <1>7, <1>8 DEF Bare
<1>15. ready => Cleared'
  BY <1>2, <1>4, <1>13, <1>14 DEF TerminalInv, Cleared
<1>16. ASSUME ~ready PROVE Starts'
  <2>1. Starts
    BY <1>16 DEF TerminalInv
  <2>2. \A i \in DOMAIN calls' : calls'[i] \in {Call("hide_all", 1, None), Call("reset", 0, None)}
    BY <1>8, <2>1 DEF Starts
  <2>3. (\E i \in DOMAIN calls' : calls'[i].op = "reset") \/ latest' <= 1
    BY <1>6, <1>7, <2>1 DEF Starts
  <2> QED  BY <1>1, <1>2, <1>4, <1>6, <2>1, <2>2, <2>3 DEF Starts, Kept, OnStage, Stage
<1> QED  BY <1>2, <1>9, <1>10, <1>11, <1>12, <1>15, <1>16 DEF TerminalInv

(* The page goes: what is visible is the terminal saved as active.         *)
LEMMA ReloadInv == ASSUME TerminalInv, Reload PROVE TerminalInv'
<1>1. Types /\ Sessions /\ Gens /\ Hosts /\ ready /\ Cleared /\ DOMAIN calls = {}
  BY DEF TerminalInv, Reload
<1>2. /\ saved' = Saving /\ ready' = FALSE /\ tabs' = <<>> /\ active' = None /\ gen' = 1
      /\ host' = [p \in Panes |-> NoHost] /\ answers' = <<>>
      /\ calls' = <<Call("hide_all", 1, None), Call("reset", 0, None)>>
      /\ made' = made /\ sess' = sess /\ ws' = ws /\ overtook' = overtook /\ latest' = latest /\ visible' = visible
  BY DEF Reload, native
<1>3. None \notin Panes /\ None \in Times /\ ws \in Workspaces
  BY <1>1, TerminalAssumption DEF Times, Types
<1>4. PICK c, d : c = Call("hide_all", 1, None) /\ d = Call("reset", 0, None)
  OBVIOUS
<1>5. c \in CallType /\ d \in CallType /\ c.op = "hide_all" /\ c.gen = 1 /\ d.op = "reset" /\ d.gen = 0
  BY <1>4 DEF Call, CallType
<1>6. calls' \in Seq(CallType) /\ DOMAIN calls' = {1, 2} /\ calls'[1] = c /\ calls'[2] = d
  <2>1. calls' = <<c, d>>
    BY <1>2, <1>4
  <2> HIDE DEF CallType
  <2> QED  BY <1>5, <2>1
<1>7. Types'
  <2>1. NoHost \in [frame : Times, retry : Times]
    BY <1>3 DEF NoHost
  <2>2. host' \in [Panes -> [frame : Times, retry : Times]]
    BY <1>2, <2>1
  <2>3. tabs' \in Seq(Panes \cup {Other}) /\ answers' \in Seq([pane : Panes, gen : Nat, ok : BOOLEAN])
    BY <1>2
  <2> QED  BY <1>1, <1>2, <1>6, <2>2, <2>3 DEF Types
<1>8. Sessions'
  <2>1. Tabs(sess, ws, tabs')
    BY <1>2 DEF Tabs
  <2>2. \A v \in Workspaces : Saving[v].open \in Seq(Panes) /\ Tabs(sess, v, Saving[v].open)
    <3> SUFFICES ASSUME NEW v \in Workspaces PROVE Saving[v].open \in Seq(Panes) /\ Tabs(sess, v, Saving[v].open)
      OBVIOUS
    <3>1. CASE v = ws
      BY <1>1, <3>1, SavingIs
    <3>2. CASE v # ws
      BY <1>1, <3>2, SavingIs DEF Sessions
    <3> QED  BY <3>1, <3>2
  <2>3. DOMAIN Saving = Workspaces
    BY <1>1, SavingIs
  <2> QED  BY <1>2, <2>1, <2>2, <2>3 DEF Sessions
<1>9. Gens'
  BY <1>2, <1>5, <1>6 DEF Gens, NoHost
<1>10. Hosts'
  BY <1>2, <1>5, <1>6 DEF Hosts
<1>11. PICK k : k = Saving[ws]
  OBVIOUS
<1>12. /\ k.open \in Seq(Panes) /\ ToSet(k.open) \subseteq ToSet(tabs) /\ Tabs(sess, ws, k.open)
       /\ \A i \in DOMAIN tabs : tabs[i] \in Panes => tabs[i] \in ToSet(k.open)
       /\ k.active = IF active \in Panes THEN active ELSE None
  BY <1>1, <1>11, SavingIs
<1>13. tabs \in Seq(Panes \cup {Other}) /\ Stage(tabs, active) \in ToSet(tabs) \cup {None}
  <2>1. tabs \in Seq(Panes \cup {Other})
    BY <1>1 DEF Types
  <2> QED  BY <2>1, StageIs
<1>14. ASSUME NEW p \in visible \ overtook
       PROVE  k.active \in Panes /\ Stage(k.open, k.active) = k.active /\ p \in OnStage(sess[ws], k.open, k.active)
  <2>1. p \in Panes /\ ~Gone(p)
    BY <1>1 DEF Types, Gone
  <2>2. IsActive /\ p \in Mounted
    BY <1>1, <2>1 DEF Cleared, Wanted
  <2>3. active \in Panes /\ Stage(tabs, active) = active /\ k.active = active
    BY <1>12, <2>2 DEF IsActive
  <2>4. active \in ToSet(tabs)
    BY <1>3, <1>13, <2>3
  <2>5. active \in ToSet(k.open)
    BY <1>12, <2>3, <2>4 DEF ToSet
  <2>6. Stage(k.open, k.active) = active
    BY <2>3, <2>5 DEF Stage
  <2> QED  BY <2>2, <2>3, <2>6 DEF OnStage, Mounted
<1>15. ASSUME visible # {} PROVE OnStage(sess[ws], k.open, k.active) # {}
  <2>1. Mounted # {}
    BY <1>1, <1>15 DEF Cleared, Bare
  <2>2. Stage(tabs, active) \in Panes
    BY <2>1 DEF Mounted, OnStage
  <2>3. Stage(tabs, active) \in ToSet(tabs)
    BY <1>3, <1>13, <2>2
  <2>4. Stage(tabs, active) \in ToSet(k.open)
    BY <1>12, <2>2, <2>3 DEF ToSet
  <2>5. k.open # <<>>
    BY <2>4 DEF ToSet
  <2>6. Stage(k.open, k.active) \in ToSet(k.open)
    BY <1>12, <2>5 DEF Stage, ToSet
  <2>7. \E i \in DOMAIN k.open : Stage(k.open, k.active) = k.open[i] /\ k.open[i] \in Panes
    BY <1>12, <2>6 DEF ToSet
  <2>8. Stage(k.open, k.active) \in Panes /\ sess[ws][Stage(k.open, k.active)] # {}
    BY <1>12, <2>7 DEF Tabs
  <2> QED  BY <2>8 DEF OnStage
<1>16. Kept' = k
  BY <1>2, <1>11 DEF Kept
<1>17. Starts'
  <2>1. \A p \in Panes : host'[p] = NoHost
    BY <1>2
  <2>2. \A i \in DOMAIN calls' : calls'[i] \in {Call("hide_all", 1, None), Call("reset", 0, None)}
    BY <1>4, <1>6
  <2>3. \E i \in DOMAIN calls' : calls'[i].op = "reset"
    BY <1>5, <1>6
  <2>4. \A p \in visible' \ overtook' :
          /\ Kept'.active \in Panes /\ Stage(Kept'.open, Kept'.active) = Kept'.active
          /\ p \in OnStage(sess'[ws'], Kept'.open, Kept'.active)
    BY <1>2, <1>14, <1>16
  <2>5. visible' # {} => OnStage(sess'[ws'], Kept'.open, Kept'.active) # {}
    BY <1>2, <1>15, <1>16
  <2> QED  BY <1>2, <2>1, <2>2, <2>3, <2>4, <2>5 DEF Starts, OnStage, Stage
<1> QED  BY <1>2, <1>7, <1>8, <1>9, <1>10, <1>17 DEF TerminalInv

(* The window at first: a terminal made before may be in its tab bar.      *)
LEMMA InitInv == ASSUME Init PROVE TerminalInv
<1>1. PICK w \in Workspaces, act \in {1, None} :
       /\ sess = [v \in Workspaces |-> [p \in Panes |-> IF p <= made /\ v = w THEN {p} ELSE {}]]
       /\ saved = [v \in Workspaces |-> IF made = 1 /\ v = w /\ w # ws THEN [open |-> <<1>>, active |-> act]
                                        ELSE [open |-> <<>>, active |-> None]]
       /\ tabs = IF made = 1 /\ w = ws THEN <<Other, 1>> ELSE <<Other>>
  BY DEF Init
<1>2. /\ made \in {0, 1} /\ ws \in Workspaces /\ ready = TRUE /\ gen = 1
      /\ host = [p \in Panes |-> NoHost] /\ calls = <<>> /\ answers = <<>> /\ latest = 0 /\ visible = {}
  BY TerminalAssumption DEF Init
<1>3. 1 \in Panes /\ Other \notin Panes /\ None \in Times /\ Panes \subseteq Nat
  BY TerminalAssumption DEF Panes, Times
<1>4. Types
  <2>1. NoHost \in [frame : Times, retry : Times]
    BY <1>3 DEF NoHost
  <2>2. host \in [Panes -> [frame : Times, retry : Times]]
    BY <1>2, <2>1
  <2>3. sess \in [Workspaces -> [Panes -> SUBSET Panes]]
    <3>1. \A v \in Workspaces, p \in Panes : (IF p <= made /\ v = w THEN {p} ELSE {}) \in SUBSET Panes
      OBVIOUS
    <3>2. \A v \in Workspaces : [p \in Panes |-> IF p <= made /\ v = w THEN {p} ELSE {}] \in [Panes -> SUBSET Panes]
      BY <3>1
    <3> QED  BY <1>1, <3>2
  <2>4. tabs \in Seq(Panes \cup {Other})
    <3>1. <<Other, 1>> \in Seq(Panes \cup {Other}) /\ <<Other>> \in Seq(Panes \cup {Other})
      BY <1>3
    <3> QED  BY <1>1, <3>1
  <2>5. calls \in Seq(CallType) /\ answers \in Seq([pane : Panes, gen : Nat, ok : BOOLEAN])
    BY <1>2
  <2> QED  BY <1>2, <2>2, <2>3, <2>4, <2>5 DEF Types
<1>5. made = 1 => sess[w][1] = {1}
  BY <1>1, <1>3
<1>6. Sessions
  <2>1. Tabs(sess, ws, tabs)
    <3>1. CASE made = 1 /\ w = ws
      <4>1. tabs = <<Other, 1>>
        BY <1>1, <3>1
      <4> QED  BY <1>3, <1>5, <3>1, <4>1 DEF Tabs
    <3>2. CASE ~(made = 1 /\ w = ws)
      <4>1. tabs = <<Other>>
        BY <1>1, <3>2
      <4> QED  BY <1>3, <4>1 DEF Tabs
    <3> QED  BY <3>1, <3>2
  <2>2. ASSUME NEW v \in Workspaces PROVE saved[v].open \in Seq(Panes) /\ Tabs(sess, v, saved[v].open)
    <3>1. CASE made = 1 /\ v = w /\ w # ws
      <4>1. saved[v].open = <<1>>
        BY <1>1, <3>1
      <4>2. <<1>> \in Seq(Panes)
        BY <1>3
      <4> QED  BY <1>5, <3>1, <4>1, <4>2 DEF Tabs
    <3>2. CASE ~(made = 1 /\ v = w /\ w # ws)
      <4>1. saved[v].open = <<>>
        BY <1>1, <3>2
      <4> QED  BY <4>1 DEF Tabs
    <3> QED  BY <3>1, <3>2
  <2>3. DOMAIN saved = Workspaces
    BY <1>1
  <2> QED  BY <2>1, <2>2, <2>3 DEF Sessions
<1>7. Gens /\ Hosts
  BY <1>2 DEF Gens, Hosts, NoHost
<1>8. \A p \in Panes : Gone(p)
  BY <1>2 DEF Gone, NoHost
<1>9. Bare
  BY <1>2 DEF Bare
<1> QED  BY <1>2, <1>4, <1>6, <1>7, <1>8, <1>9 DEF TerminalInv, Cleared

(* Every step keeps the invariant.                                         *)
LEMMA StepInv == ASSUME TerminalInv, [Next]_vars PROVE TerminalInv'
<1>1. CASE Tabbing
  <2>1. CASE NewSession
    BY <2>1, NewSessionInv
  <2>2. CASE Split
    BY <2>2, SplitInv
  <2>3. ASSUME NEW p \in Panes, ClosePane(p) \/ CloseTab(p) \/ DeleteSession(p) \/ (sess[ws][p] # {} /\ Open(p))
        PROVE  TerminalInv'
    BY <2>3, ClosePaneInv, CloseTabInv, DeleteSessionInv, OpenInv
  <2>4. CASE Open(Other) \/ CloseTab(Other)
    BY <2>4, OpenInv, CloseTabInv
  <2>5. ASSUME NEW w \in Workspaces, Switch(w) PROVE TerminalInv'
    BY <2>5, SwitchInv
  <2> QED  BY <1>1, <2>1, <2>2, <2>3, <2>4, <2>5 DEF Tabbing
<1>2. CASE Meta
  BY <1>2, MetaInv
<1>3. CASE Resize
  BY <1>3, ResizeInv
<1>4. CASE Overtake
  BY <1>4, OvertakeInv
<1>5. CASE Reload
  BY <1>5, ReloadInv
<1>6. CASE Restore
  BY <1>6, RestoreInv
<1>7. ASSUME NEW p \in Panes, Frame(p) \/ Timer(p) PROVE TerminalInv'
  BY <1>7, FrameInv, TimerInv
<1>8. CASE Answer
  BY <1>8, AnswerInv
<1>9. CASE Deliver
  BY <1>9, DeliverInv
<1>10. CASE UNCHANGED vars
  <2>1. window' = window /\ calls' = calls /\ native' = native /\ overtook' = overtook /\ host' = host /\ answers' = answers
    BY <1>10 DEF vars
  <2>2. /\ host \in [Panes -> [frame : Times, retry : Times]]
        /\ answers \in Seq([pane : Panes, gen : Nat, ok : BOOLEAN])
        /\ \A p \in Panes : p \notin Mounted => host[p] = NoHost
    BY DEF TerminalInv, Types, Hosts
  <2> QED  BY <2>1, <2>2, HostsInv
<1> QED  BY <1>1, <1>2, <1>3, <1>4, <1>5, <1>6, <1>7, <1>8, <1>9, <1>10 DEF Next

(* The inductive invariant holds, for any number of panes and workspaces,  *)
(* of actions, failures, reloads and calls that are overtaken.             *)
THEOREM TerminalHolds == Spec => []TerminalInv
<1>1. Init => TerminalInv
  BY InitInv
<1>2. TerminalInv /\ [Next]_vars => TerminalInv'
  BY StepInv
<1> QED  BY <1>1, <1>2, PTL DEF Spec

(* When nothing is on its way, what is visible is on the stage; a pane two *)
(* of whose calls changed places may cover another terminal, never another *)
(* view (ghostty_native.rs is_stale, App.tsx nextNativeTerminalGeneration, *)
(* hideAllNativeTerminals, NativeTerminalHost.tsx onCleanup).              *)
THEOREM NothingStays == Spec => []NothingLeftOver
<1>1. TerminalInv => NothingLeftOver
  <2> SUFFICES ASSUME TerminalInv, Quiet, NEW p \in visible
               PROVE  (IsActive /\ p \in Mounted) \/ (p \in overtook /\ Mounted # {})
    BY DEF NothingLeftOver
  <2>1. p \in Panes /\ Cleared /\ DOMAIN calls = {}
    BY DEF TerminalInv, Types, Quiet
  <2>2. ~Gone(p) /\ ~Bare
    BY <2>1 DEF Gone, Bare
  <2>3. Mounted # {} /\ (p \in overtook \/ Wanted(p))
    BY <2>1, <2>2 DEF Cleared
  <2> QED  BY <2>3 DEF Wanted
<1> QED  BY <1>1, TerminalHolds, PTL
=============================================================================
