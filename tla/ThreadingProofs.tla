-------------------------- MODULE ThreadingProofs --------------------------
(***************************************************************************)
(* Theorems about threads: as the conversations a sync makes out of the    *)
(* headers (Threading), and as rows of the graph (Shadows).                *)
(*                                                                         *)
(* For any folder and any batches, the links never close a loop; where     *)
(* headers agree, the links of a batch do not depend on its order, and no  *)
(* conversation is taken for another. For any number of syncs, promotions, *)
(* deletions and crashes, the rows follow the messages.                    *)
(***************************************************************************)
EXTENDS Threading, Shadows, FiniteSetTheorems, WellFoundedInduction, TLAPS

(* What lies above an ID is the least closed set: it holds the ID, is closed *)
(* and is part of every closed set with the ID.                             *)
LEMMA UpLeast ==
  ASSUME NEW par \in Parents, NEW x \in Ids
  PROVE  /\ Up(par, x) \subseteq Ids /\ x \in Up(par, x) /\ Closed(par, Up(par, x))
         /\ \A S \in SUBSET Ids : x \in S /\ Closed(par, S) => Up(par, x) \subseteq S
<1>1. Up(par, x) \subseteq Ids /\ x \in Up(par, x)
  BY DEF Up
<1>2. \A S \in SUBSET Ids : x \in S /\ Closed(par, S) => Up(par, x) \subseteq S
  BY DEF Up
<1>3. Closed(par, Up(par, x))
  <2> SUFFICES ASSUME NEW y \in Up(par, x), par[y] # None
               PROVE  par[y] \in Up(par, x)
    BY DEF Closed
  <2>1. y \in Ids /\ par[y] \in Ids
    BY <1>1 DEF Parents
  <2>2. ASSUME NEW S \in SUBSET Ids, x \in S, Closed(par, S)
        PROVE  par[y] \in S
    <3>1. y \in S
      BY <2>2, <1>2
    <3>. QED
      BY <3>1, <2>2 DEF Closed
  <2>. QED
    BY <2>1, <2>2 DEF Up
<1>. QED
  BY <1>1, <1>2, <1>3

(* With fewer links less lies above.                                        *)
LEMMA UpMonotone ==
  ASSUME NEW par \in Parents, NEW more \in Parents, NEW x \in Ids,
         \A y \in Ids : par[y] \in {None, more[y]}
  PROVE  Up(par, x) \subseteq Up(more, x)
<1>1. Closed(more, Up(more, x)) /\ x \in Up(more, x) /\ Up(more, x) \subseteq Ids
  BY UpLeast
<1>2. Closed(par, Up(more, x))
  BY <1>1 DEF Closed
<1>. QED
  BY <1>1, <1>2, UpLeast

(* A link that creates_cycle lets through leaves the links without loops.   *)
LEMMA LinkKeepsLoopless ==
  ASSUME NEW par \in Parents, NEW child \in Ids, NEW above \in Ids, Loopless(par)
  PROVE  Linked(par, child, above) \in Parents /\ Loopless(Linked(par, child, above))
<1>1. CASE par[child] # None \/ CreatesCycle(par, child, above)
  BY <1>1 DEF Linked
<1>2. CASE ~(par[child] # None \/ CreatesCycle(par, child, above))
  <2> DEFINE new == [par EXCEPT ![child] = above]
  <2>1. Linked(par, child, above) = new /\ new \in Parents
    BY <1>2 DEF Linked, Parents
  <2>2. child \notin Up(par, above)
    BY <1>2 DEF CreatesCycle
  <2>3. \A y \in Ids : new[y] = IF y = child THEN above ELSE par[y]
    BY DEF Parents
  <2> DEFINE T == Up(par, above)
  <2>4. T \subseteq Ids /\ above \in T /\ Closed(par, T)
    BY UpLeast
  <2>5. Closed(new, T)
    BY <2>2, <2>3, <2>4 DEF Closed
  <2>6. ASSUME NEW x \in Ids, new[x] # None
        PROVE  x \notin Up(new, new[x])
    <3>1. CASE x = child
      <4>1. new[x] = above
        BY <3>1, <2>3
      <4>2. Up(new, above) \subseteq T
        BY <2>1, <2>4, <2>5, UpLeast
      <4>. QED
        BY <4>1, <4>2, <2>2, <3>1
    <3>2. CASE x # child
      <4> DEFINE S == Up(par, par[x])
      <4>1. new[x] = par[x] /\ par[x] \in Ids
        BY <3>2, <2>3, <2>6 DEF Parents
      <4>2. S \subseteq Ids /\ par[x] \in S /\ Closed(par, S) /\ x \notin S
        BY <4>1, <2>6, UpLeast DEF Loopless
      <4>3. CASE child \notin S
        <5>1. Closed(new, S)
          BY <4>2, <4>3, <2>3 DEF Closed
        <5>2. Up(new, par[x]) \subseteq S
          BY <5>1, <4>1, <4>2, <2>1, UpLeast
        <5>. QED
          BY <5>2, <4>1, <4>2
      <4>4. CASE child \in S
        <5>1. x \notin T
          <6>1. SUFFICES ASSUME x \in T PROVE FALSE
            OBVIOUS
          <6>2. par[x] \in T
            BY <6>1, <2>4, <4>1, ThreadingAssumption DEF Closed
          <6>3. S \subseteq T
            BY <6>2, <2>4, <4>1, UpLeast
          <6>. QED
            BY <6>3, <4>4, <2>2
        <5>2. Closed(new, S \cup T)
          BY <4>2, <2>4, <2>3 DEF Closed
        <5>3. Up(new, par[x]) \subseteq S \cup T
          BY <5>2, <4>1, <4>2, <2>1, <2>4, UpLeast
        <5>. QED
          BY <5>1, <5>3, <4>1, <4>2
      <4>. QED
        BY <4>3, <4>4
    <3>. QED
      BY <3>1, <3>2
  <2>. QED
    BY <2>1, <2>6 DEF Loopless
<1>. QED
  BY <1>1, <1>2

-----------------------------------------------------------------------------
(* The headers of the message in hand.                                      *)
LEMMA CurTyped ==
  ASSUME TypeOK, Wiring
  PROVE  /\ batch[at] \in Msgs /\ Cur \in Headers
         /\ Cur.id # None => Cur.id \in Ids
         /\ Chain(Cur) \in Seq(Ids) /\ mail \in [Msgs -> Headers] /\ truth \in Parents
<1>1. mail \in [Msgs -> Headers] /\ truth \in Parents
  BY ThreadingAssumption DEF TypeOK
<1>2. batch \in Seq(Msgs) /\ at \in 1..Len(batch)
  BY DEF TypeOK, Wiring, Batches
<1>3. batch[at] \in Msgs
  BY <1>2
<1>4. Cur \in Headers
  BY <1>1, <1>3 DEF Cur
<1>5. Chain(Cur) \in Seq(Ids)
  BY <1>4 DEF Chain, Headers
<1>. QED
  BY <1>1, <1>3, <1>4, <1>5 DEF Headers

LEMMA WireAncestorLinks ==
  ASSUME TypeOK, WireAncestor, pos # 1
  PROVE  /\ Chain(Cur)[pos] \in Ids /\ Chain(Cur)[pos - 1] \in Ids
         /\ parent' = Linked(parent, Chain(Cur)[pos], Chain(Cur)[pos - 1])
<1>1. Chain(Cur) \in Seq(Ids) /\ pos \in Nat \ {0} /\ pos <= Len(Chain(Cur))
  BY CurTyped DEF WireAncestor, TypeOK
<1>. QED
  BY <1>1 DEF WireAncestor

LEMMA WireMessageLinks ==
  ASSUME TypeOK, WireMessage, Chain(Cur) # <<>>
  PROVE  /\ Cur.id \in Ids /\ Chain(Cur)[Len(Chain(Cur))] \in Ids
         /\ parent' = Linked(parent, Cur.id, Chain(Cur)[Len(Chain(Cur))])
<1>1. Chain(Cur) \in Seq(Ids) /\ Cur.id \in Ids
  BY CurTyped DEF WireMessage
<1>. QED
  BY <1>1 DEF WireMessage

Inv == TypeOK /\ NoLoop

LEMMA InitInv == Init => Inv
<1> SUFFICES ASSUME Init PROVE Inv
  OBVIOUS
<1>1. PICK box \in Mailboxes : mail = box.mail /\ truth = box.truth
  BY DEF Init
<1>2. [mail |-> mail, truth |-> truth] \in Mailboxes
  BY <1>1, ThreadingAssumption
<1>3. parent \in Parents /\ NoLoop
  BY ThreadingAssumption DEF Init, NoLoop, Loopless, Parents
<1>. QED
  BY <1>2, <1>3, ThreadingAssumption DEF Init, Inv, TypeOK

LEMMA StepInv == Inv /\ [Next]_vars => Inv'
<1> SUFFICES ASSUME Inv, [Next]_vars PROVE Inv'
  OBVIOUS
<1> USE DEF Inv
<1>1. CASE Fetch
  <2>1. parent' \in Parents /\ NoLoop'
    BY <1>1, ThreadingAssumption DEF Fetch, NoLoop, Loopless, Parents
  <2>. QED
    BY <1>1, <2>1, ThreadingAssumption DEF Fetch, TypeOK, world
<1>2. CASE WireAncestor
  <2>1. parent' \in Parents /\ NoLoop'
    <3>1. CASE pos = 1
      BY <1>2, <3>1 DEF WireAncestor, TypeOK, NoLoop
    <3>2. CASE pos # 1
      BY <1>2, <3>2, WireAncestorLinks, LinkKeepsLoopless DEF TypeOK, NoLoop
    <3>. QED
      BY <3>1, <3>2
  <2>. QED
    BY <1>2, <2>1 DEF WireAncestor, TypeOK, world, rows
<1>3. CASE WireMessage
  <2>1. parent' \in Parents /\ NoLoop'
    <3>1. CASE Chain(Cur) = <<>>
      BY <1>3, <3>1 DEF WireMessage, TypeOK, NoLoop
    <3>2. CASE Chain(Cur) # <<>>
      BY <1>3, <3>2, WireMessageLinks, LinkKeepsLoopless DEF TypeOK, NoLoop
    <3>. QED
      BY <3>1, <3>2
  <2>. QED
    BY <1>3, <2>1 DEF WireMessage, TypeOK, world, rows
<1>4. CASE Skip
  BY <1>4 DEF Skip, TypeOK, NoLoop, world, rows
<1>5. CASE Store
  <2>1. PICK written \in SUBSET {batch[i] : i \in 1..Len(batch)} : stored' = stored \cup written
    BY <1>5 DEF Store
  <2>2. batch = <<>> \/ (batch \in Seq(Msgs))
    BY DEF TypeOK, Batches
  <2>3. stored' \subseteq Msgs
    BY <2>1, <2>2 DEF TypeOK
  <2>4. DOMAIN thread' = Msgs
    BY <1>5 DEF Store
  <2>. QED
    BY <1>5, <2>3, <2>4 DEF Store, TypeOK, NoLoop, world
<1>6. CASE UNCHANGED vars
  BY <1>6 DEF vars, world, rows, TypeOK, NoLoop
<1>. QED
  BY <1>1, <1>2, <1>3, <1>4, <1>5, <1>6 DEF Next

(* The state is well-formed: headers stay what they are, links join IDs.    *)
THEOREM TypeCorrect == Spec => []TypeOK
<1>1. Inv => TypeOK
  BY DEF Inv
<1>. QED
  BY <1>1, InitInv, StepInv, PTL DEF Spec

(* No headers, however contradictory, make an ID its own ancestor.          *)
THEOREM LinksNeverLoop == Spec => []NoLoop
<1>1. Inv => NoLoop
  BY DEF Inv
<1>. QED
  BY <1>1, InitInv, StepInv, PTL DEF Spec

-----------------------------------------------------------------------------
(* Entry j of the path of message i of the batch has been wired.            *)
Tied(i, j) == i < at \/ (i = at /\ j < pos)

(* The links are some of those the batch tells, and among them all that     *)
(* have been wired.                                                         *)
AsTold ==
  batch # <<>> =>
    /\ \A x \in Ids : parent[x] # None =>
         /\ parent[x] = truth[x]
         /\ \E i \in 1..Len(batch) : \E j \in 2..Len(Path(batch[i])) : Path(batch[i])[j] = x
    /\ \A i \in 1..Len(batch) : \A j \in 2..Len(Path(batch[i])) :
         Tied(i, j) => parent[Path(batch[i])[j]] = truth[Path(batch[i])[j]]

Inv2 == Inv /\ (Honest => AsTold)

(* A true link is never refused for a loop.                                 *)
LEMMA TrueLink ==
  ASSUME TypeOK, NoLoop, NEW child \in Ids, NEW above \in Ids, truth[child] = above,
         \A x \in Ids : parent[x] # None => parent[x] = truth[x]
  PROVE  Linked(parent, child, above) = [parent EXCEPT ![child] = above]
<1>1. truth \in Parents /\ Loopless(truth) /\ parent \in Parents
  BY ThreadingAssumption DEF TypeOK
<1>2. child \notin Up(truth, above)
  BY <1>1, ThreadingAssumption DEF Loopless
<1>3. child \notin Up(parent, above)
  BY <1>1, <1>2, UpMonotone
<1>4. ~CreatesCycle(parent, child, above)
  BY <1>1, <1>3, UpLeast DEF CreatesCycle, NoLoop, Loopless
<1>5. parent[child] # None => parent = [parent EXCEPT ![child] = above]
  BY <1>1 DEF Parents
<1>. QED
  BY <1>4, <1>5 DEF Linked

(* The path of a message: its chain, then its own ID; typed, and of length  *)
(* one more than the chain.                                                 *)
LEMMA PathTyped ==
  ASSUME TypeOK, NEW m \in Msgs
  PROVE  /\ Path(m) \in Seq(Ids)
         /\ mail[m].id = None => Path(m) = <<>>
         /\ mail[m].id # None =>
              /\ Len(Path(m)) = Len(Chain(mail[m])) + 1
              /\ Path(m)[Len(Path(m))] = mail[m].id
              /\ \A k \in 1..Len(Chain(mail[m])) : Path(m)[k] = Chain(mail[m])[k]
<1>1. mail[m] \in Headers
  BY ThreadingAssumption DEF TypeOK
<1>2. Chain(mail[m]) \in Seq(Ids)
  BY <1>1 DEF Chain, Headers
<1>3. CASE mail[m].id = None
  BY <1>3 DEF Path
<1>4. CASE mail[m].id # None
  <2>1. mail[m].id \in Ids /\ Path(m) = Append(Chain(mail[m]), mail[m].id)
    BY <1>1, <1>4 DEF Path, Headers
  <2>. QED
    BY <1>2, <1>4, <2>1
<1>. QED
  BY <1>3, <1>4

LEMMA WireAncestorTold ==
  ASSUME Inv, Honest, AsTold, WireAncestor
  PROVE  AsTold'
<1> DEFINE m == batch[at]
<1>1. m \in Msgs /\ Wiring /\ batch \in Seq(Msgs) /\ at \in 1..Len(batch) /\ pos \in Nat \ {0} /\ Cur = mail[m]
  BY CurTyped DEF Inv, TypeOK, WireAncestor, Wiring, Batches, Cur
<1>2. Path(m) \in Seq(Ids) /\ Len(Path(m)) = Len(Chain(Cur)) + 1 /\ pos <= Len(Chain(Cur))
      /\ \A k \in 1..Len(Chain(Cur)) : Path(m)[k] = Chain(Cur)[k]
  BY <1>1, PathTyped DEF Inv, WireAncestor
<1>3. \A x : Path(x)' = Path(x)
  BY DEF WireAncestor, world, Path
<1>4. CASE pos = 1
  <2>1. parent' = parent /\ pos' = 2 /\ at' = at /\ batch' = batch /\ truth' = truth
    BY <1>4 DEF WireAncestor, world
  <2>2. \A i \in 1..Len(batch) : \A j \in 2..Len(Path(batch[i])) : Tied(i, j)' => Tied(i, j)
    BY <1>1, <1>4, <2>1 DEF Tied
  <2>3. \A i \in 1..Len(batch) : \A j \in 2..Len(Path(batch[i])) :
          Tied(i, j)' => parent[Path(batch[i])[j]] = truth[Path(batch[i])[j]]
    BY <2>2, <1>1 DEF AsTold
  <2>. QED
    BY <1>3, <2>1, <2>3 DEF AsTold
<1>5. CASE pos # 1
  <2> DEFINE child == Path(m)[pos]  above == Path(m)[pos - 1]
  <2>1. child = Chain(Cur)[pos] /\ above = Chain(Cur)[pos - 1] /\ child \in Ids /\ above \in Ids
    BY <1>1, <1>2, <1>5
  <2>2. truth[child] = above /\ pos \in 2..Len(Path(m))
    BY <1>1, <1>2, <1>5 DEF Honest
  <2>3. batch # <<>>
    BY <1>1
  <2>4. parent' = [parent EXCEPT ![child] = above]
    BY <2>1, <2>2, <2>3, <1>5, WireAncestorLinks, TrueLink DEF Inv, AsTold
  <2>5. pos' = pos + 1 /\ at' = at /\ batch' = batch /\ truth' = truth /\ parent \in Parents
    BY DEF WireAncestor, world, Inv, TypeOK
  <2>6. \A x \in Ids : parent'[x] = IF x = child THEN truth[child] ELSE parent[x]
    BY <2>2, <2>4, <2>5 DEF Parents
  <2>7. ASSUME NEW x \in Ids, parent'[x] # None
        PROVE  /\ parent'[x] = truth[x]
               /\ \E i \in 1..Len(batch) : \E j \in 2..Len(Path(batch[i])) : Path(batch[i])[j] = x
    BY <2>2, <2>3, <2>6, <2>7, <1>1 DEF AsTold
  <2>8. ASSUME NEW i \in 1..Len(batch), NEW j \in 2..Len(Path(batch[i])), Tied(i, j)'
        PROVE  parent'[Path(batch[i])[j]] = truth[Path(batch[i])[j]]
    <3>1. batch[i] \in Msgs /\ Path(batch[i]) \in Seq(Ids) /\ Path(batch[i])[j] \in Ids
      BY <1>1, PathTyped DEF Inv
    <3>2. Tied(i, j) \/ (i = at /\ j = pos)
      BY <2>5, <2>8, <1>1 DEF Tied
    <3>3. CASE Tied(i, j)
      BY <3>1, <3>3, <2>3, <2>6 DEF AsTold
    <3>4. CASE i = at /\ j = pos
      BY <3>1, <3>4, <2>6
    <3>. QED
      BY <3>2, <3>3, <3>4
  <2>. QED
    BY <1>3, <2>5, <2>7, <2>8 DEF AsTold
<1>. QED
  BY <1>4, <1>5

LEMMA WireMessageTold ==
  ASSUME Inv, Honest, AsTold, WireMessage
  PROVE  AsTold'
<1> DEFINE m == batch[at]
<1>1. m \in Msgs /\ Wiring /\ batch \in Seq(Msgs) /\ at \in 1..Len(batch) /\ pos \in Nat \ {0} /\ Cur = mail[m]
  BY CurTyped DEF Inv, TypeOK, WireMessage, Wiring, Batches, Cur
<1> DEFINE last == Len(Path(m))
<1>2. Path(m) \in Seq(Ids) /\ last = Len(Chain(Cur)) + 1 /\ pos > Len(Chain(Cur))
      /\ Path(m)[last] = Cur.id
      /\ \A k \in 1..Len(Chain(Cur)) : Path(m)[k] = Chain(Cur)[k]
  BY <1>1, PathTyped DEF Inv, WireMessage
<1>3. \A x : Path(x)' = Path(x)
  BY DEF WireMessage, world, Path
<1>4. at' = at + 1 /\ pos' = 1 /\ batch' = batch /\ truth' = truth /\ parent \in Parents /\ batch # <<>>
  BY <1>1 DEF WireMessage, world, Inv, TypeOK
<1>5. Chain(Cur) \in Seq(Ids)
  BY <1>1, CurTyped DEF Inv
<1>6. CASE Chain(Cur) = <<>>
  <2>1. parent' = parent
    BY <1>6 DEF WireMessage
  <2>2. ASSUME NEW i \in 1..Len(batch), NEW j \in 2..Len(Path(batch[i])), Tied(i, j)'
        PROVE  Tied(i, j)
    <3>1. i < at \/ i = at
      BY <1>1, <1>4, <2>2 DEF Tied
    <3>2. i # at
      <4>1. last = 1
        BY <1>2, <1>6
      <4>2. i = at => j \in 2..last
        OBVIOUS
      <4>. QED
        BY <4>1, <4>2
    <3>. QED
      BY <3>1, <3>2 DEF Tied
  <2>. QED
    BY <1>3, <1>4, <2>1, <2>2 DEF AsTold
<1>7. CASE Chain(Cur) # <<>>
  <2> DEFINE child == Path(m)[last]  above == Path(m)[last - 1]
  <2>1. child = Cur.id /\ above = Chain(Cur)[Len(Chain(Cur))] /\ child \in Ids /\ above \in Ids /\ last \in 2..Len(Path(m))
    BY <1>2, <1>5, <1>7
  <2>2. truth[child] = above
    BY <1>1, <2>1 DEF Honest
  <2>4. parent' = [parent EXCEPT ![child] = above]
    BY <2>1, <2>2, <1>4, <1>7, WireMessageLinks, TrueLink DEF Inv, AsTold
  <2>6. \A x \in Ids : parent'[x] = IF x = child THEN truth[child] ELSE parent[x]
    BY <2>2, <2>4, <1>4 DEF Parents
  <2>7. ASSUME NEW x \in Ids, parent'[x] # None
        PROVE  /\ parent'[x] = truth[x]
               /\ \E i \in 1..Len(batch) : \E j \in 2..Len(Path(batch[i])) : Path(batch[i])[j] = x
    BY <2>1, <2>2, <1>4, <2>6, <2>7, <1>1 DEF AsTold
  <2>8. ASSUME NEW i \in 1..Len(batch), NEW j \in 2..Len(Path(batch[i])), Tied(i, j)'
        PROVE  parent'[Path(batch[i])[j]] = truth[Path(batch[i])[j]]
    <3>1. batch[i] \in Msgs /\ Path(batch[i]) \in Seq(Ids) /\ Path(batch[i])[j] \in Ids
      BY <1>1, PathTyped DEF Inv
    <3>2. Tied(i, j) \/ (i = at /\ j = last)
      BY <1>4, <2>8, <1>1, <1>2 DEF Tied
    <3>3. CASE Tied(i, j)
      BY <3>1, <3>3, <1>4, <2>6 DEF AsTold
    <3>4. CASE i = at /\ j = last
      BY <3>1, <3>4, <2>6
    <3>. QED
      BY <3>2, <3>3, <3>4
  <2>. QED
    BY <1>3, <1>4, <2>7, <2>8 DEF AsTold
<1>. QED
  BY <1>6, <1>7

LEMMA StepTold == Inv2 /\ [Next]_vars => Inv2'
<1> SUFFICES ASSUME Inv2, [Next]_vars PROVE Inv2'
  OBVIOUS
<1>1. Inv /\ Inv'
  BY StepInv DEF Inv2
<1>2. Honest' = Honest /\ \A x : Path(x)' = Path(x)
  BY DEF Next, Fetch, WireAncestor, WireMessage, Skip, Store, vars, world, Honest, Path
<1>3. SUFFICES ASSUME Honest PROVE AsTold'
  BY <1>1, <1>2 DEF Inv2
<1>4. AsTold
  BY <1>3 DEF Inv2
<1>5. CASE Fetch
  <2>1. at' = 1 /\ pos' = 1 /\ parent' = [x \in Ids |-> None] /\ batch' \in Batches
    BY <1>5 DEF Fetch
  <2>2. \A i \in 1..Len(batch') : \A j \in 2..Len(Path(batch'[i])) : ~Tied(i, j)'
    BY <2>1 DEF Tied
  <2>. QED
    BY <1>2, <2>1, <2>2 DEF AsTold
<1>6. CASE WireAncestor
  BY <1>1, <1>3, <1>4, <1>6, WireAncestorTold
<1>7. CASE WireMessage
  BY <1>1, <1>3, <1>4, <1>7, WireMessageTold
<1>8. CASE Skip
  <2>1. at' = at + 1 /\ pos' = 1 /\ parent' = parent /\ batch' = batch /\ truth' = truth
    BY <1>8 DEF Skip, world
  <2>2. Path(batch[at]) = <<>> /\ at \in Nat
    BY <1>1, <1>8 DEF Skip, Cur, Path, Inv, TypeOK
  <2>3. ASSUME NEW i \in 1..Len(batch), NEW j \in 2..Len(Path(batch[i])), Tied(i, j)'
        PROVE  Tied(i, j)
    <3>1. i < at + 1
      BY <2>1, <2>3 DEF Tied
    <3>2. at <= Len(batch) /\ Len(batch) \in Nat
      BY <1>1, <1>8 DEF Skip, Wiring, Inv, TypeOK, Batches
    <3>3. i # at
      <4>1. i = at => j \in 2..0
        BY <2>2
      <4>. QED
        BY <4>1
    <3>. QED
      BY <3>1, <3>2, <3>3, <2>2 DEF Tied
  <2>. QED
    BY <1>2, <1>4, <2>1, <2>3 DEF AsTold
<1>9. CASE Store
  BY <1>9 DEF Store, AsTold
<1>10. CASE UNCHANGED vars
  <2>1. batch' = batch /\ at' = at /\ pos' = pos /\ parent' = parent /\ truth' = truth
    BY <1>10 DEF vars, world
  <2>2. \A i, j : Tied(i, j)' <=> Tied(i, j)
    BY <2>1 DEF Tied
  <2>. QED
    BY <1>2, <1>4, <2>1, <2>2 DEF AsTold
<1>. QED
  BY <1>5, <1>6, <1>7, <1>8, <1>9, <1>10 DEF Next

(* For headers that agree, what a batch ends with is a function of the set  *)
(* of its messages.                                                         *)
THEOREM OrderDoesNotMatter == Spec => []OrderIndependent
<1>1. Init => Inv2
  BY InitInv DEF Inv2, Init, AsTold
<1>2. Inv2 => OrderIndependent
  <2> SUFFICES ASSUME Inv2, Wired, Honest
               PROVE  parent = Told({batch[i] : i \in 1..Len(batch)})
    BY DEF OrderIndependent
  <2>1. Inv /\ AsTold /\ batch # <<>> /\ batch \in Seq(Msgs) /\ at \in Nat /\ at > Len(batch)
    BY DEF Inv2, Wired, Wiring, Inv, TypeOK, Batches
  <2>2. parent \in Parents
    BY <2>1 DEF Inv, TypeOK
  <2> DEFINE S == {batch[i] : i \in 1..Len(batch)}
  <2>3. ASSUME NEW x \in Ids
        PROVE  parent[x] = IF \E k \in S : \E i \in 2..Len(Path(k)) : Path(k)[i] = x THEN truth[x] ELSE None
    <3>1. CASE \E k \in S : \E i \in 2..Len(Path(k)) : Path(k)[i] = x
      <4>1. PICK n \in 1..Len(batch) : \E i \in 2..Len(Path(batch[n])) : Path(batch[n])[i] = x
        BY <3>1
      <4>2. PICK i \in 2..Len(Path(batch[n])) : Path(batch[n])[i] = x
        BY <4>1
      <4>3. Tied(n, i)
        BY <2>1 DEF Tied
      <4>. QED
        BY <3>1, <4>2, <4>3, <2>1 DEF AsTold
    <3>2. CASE ~\E k \in S : \E i \in 2..Len(Path(k)) : Path(k)[i] = x
      BY <3>2, <2>1 DEF AsTold
    <3>. QED
      BY <3>1, <3>2
  <2>. QED
    BY <2>2, <2>3 DEF Told, Parents
<1>. QED
  BY <1>1, <1>2, StepTold, PTL DEF Spec
-----------------------------------------------------------------------------
(* An ID with a parent has above it itself and what is above the parent.    *)
LEMMA UpStep ==
  ASSUME NEW par \in Parents, NEW x \in Ids, par[x] # None
  PROVE  par[x] \in Ids /\ Up(par, x) = {x} \cup Up(par, par[x])
<1>1. par[x] \in Ids
  BY DEF Parents
<1>2. Up(par, x) \subseteq {x} \cup Up(par, par[x])
  <2> DEFINE S == {x} \cup Up(par, par[x])
  <2>1. x \in S /\ S \subseteq Ids /\ Closed(par, S)
    BY <1>1, UpLeast DEF Closed
  <2>. QED
    BY <2>1, UpLeast
<1>3. par[x] \in Up(par, x)
  BY UpLeast, ThreadingAssumption DEF Closed
<1>4. Up(par, par[x]) \subseteq Up(par, x)
  BY <1>1, <1>3, UpLeast
<1>. QED
  BY <1>1, <1>2, <1>4, UpLeast

(* What lies above depends only on the links of what lies above.            *)
LEMMA UpAgree ==
  ASSUME NEW par \in Parents, NEW other \in Parents, NEW x \in Ids,
         \A y \in Up(par, x) : other[y] = par[y]
  PROVE  Up(other, x) = Up(par, x)
<1> DEFINE U == Up(par, x)  V == Up(other, x)
<1>1. U \subseteq Ids /\ x \in U /\ Closed(par, U) /\ V \subseteq Ids /\ x \in V /\ Closed(other, V)
  BY UpLeast
<1>2. Closed(other, U) /\ Closed(par, U \cap V)
  BY <1>1 DEF Closed
<1>3. V \subseteq U
  BY <1>1, <1>2, UpLeast
<1>4. U \subseteq U \cap V
  <2> DEFINE S == U \cap V
  <2>1. S \in SUBSET Ids /\ x \in S /\ Closed(par, S)
    BY <1>1, <1>2
  <2>. QED
    BY <2>1, UpLeast
<1>. QED
  BY <1>3, <1>4

(* The tops above an ID.                                                    *)
Tops(par, x) == {y \in Up(par, x) : par[y] = None}

(* There is at most one.                                                    *)
LEMMA OneTop ==
  ASSUME NEW par \in Parents, NEW x \in Ids, NEW t \in Tops(par, x), NEW u \in Tops(par, x)
  PROVE  t = u
<1>1. t \in Ids /\ u \in Ids /\ par[t] = None /\ par[u] = None /\ t \in Up(par, x) /\ u \in Up(par, x)
  BY UpLeast DEF Tops
<1> DEFINE S == {y \in Up(par, x) : t \in Up(par, y)}
<1>2. x \in S /\ S \subseteq Ids
  BY <1>1, UpLeast
<1>3. Closed(par, S)
  <2> SUFFICES ASSUME NEW y \in S, par[y] # None PROVE par[y] \in S
    BY DEF Closed
  <2>1. y \in Ids /\ par[y] \in Up(par, x)
    BY <1>2, UpLeast DEF Closed
  <2>2. t \in {y} \cup Up(par, par[y])
    BY <2>1, UpStep
  <2>3. t # y
    BY <1>1
  <2>. QED
    BY <2>1, <2>2, <2>3
<1>4. u \in S
  BY <1>1, <1>2, <1>3, UpLeast
<1>5. Up(par, u) \subseteq {u}
  <2>1. Closed(par, {u})
    BY <1>1 DEF Closed
  <2>. QED
    BY <1>1, <2>1, UpLeast
<1>. QED
  BY <1>4, <1>5

(* The climb of FindRoot as a function: the links into what has been seen   *)
(* are cut, and it ends at the top that is then above.                      *)
Cut(par, seen) == [y \in Ids |-> IF par[y] \in seen THEN None ELSE par[y]]
End(par, x, seen) == CHOOSE y : y \in Tops(Cut(par, seen), x)

LEMMA EndSteps ==
  ASSUME NEW par \in Parents, Loopless(par), NEW x \in Ids, NEW seen \in SUBSET Ids
  PROVE  End(par, x, seen) =
           IF par[x] = None \/ par[x] \in seen THEN x ELSE End(par, par[x], seen \cup {par[x]})
<1> DEFINE cut == Cut(par, seen)
<1>1. cut \in Parents /\ \A y \in Ids : cut[y] = IF par[y] \in seen THEN None ELSE par[y]
  BY DEF Cut, Parents
<1>2. CASE par[x] = None \/ par[x] \in seen
  <2>1. cut[x] = None
    BY <1>1, <1>2
  <2>2. Closed(cut, {x})
    BY <2>1 DEF Closed
  <2>3. Up(cut, x) = {x}
    BY <1>1, <2>2, UpLeast
  <2>4. Tops(cut, x) = {x}
    BY <2>1, <2>3 DEF Tops
  <2>. QED
    BY <1>2, <2>4 DEF End
<1>3. CASE ~(par[x] = None \/ par[x] \in seen)
  <2> DEFINE z == par[x]
             more == Cut(par, seen \cup {z})
  <2>1. z \in Ids /\ z # None /\ cut[x] = z
    BY <1>1, <1>3 DEF Parents
  <2>2. more \in Parents /\ \A y \in Ids : more[y] = IF par[y] \in seen \cup {z} THEN None ELSE par[y]
    BY <2>1 DEF Cut, Parents
  <2>3. Up(cut, x) = {x} \cup Up(cut, z)
    BY <1>1, <2>1, UpStep
  <2>4. Up(cut, z) \subseteq Up(par, z) /\ Up(par, z) \subseteq Ids
    BY <1>1, <2>1, UpMonotone, UpLeast
  <2>5. \A y \in Up(par, z) : par[y] # z
    <3> SUFFICES ASSUME NEW y \in Up(par, z), par[y] = z PROVE FALSE
      OBVIOUS
    <3>. QED
      BY <2>1, <2>4 DEF Loopless
  <2>6. \A y \in Up(cut, z) : more[y] = cut[y]
    BY <1>1, <2>2, <2>4, <2>5
  <2>7. Up(more, z) = Up(cut, z)
    BY <1>1, <2>1, <2>2, <2>6, UpAgree
  <2>8. Tops(more, z) = Tops(cut, x)
    BY <2>1, <2>3, <2>6, <2>7 DEF Tops
  <2>. QED
    BY <1>3, <2>8 DEF End
<1>. QED
  BY <1>2, <1>3

(* Where nothing is its own ancestor, the climb ends at the one top.        *)
LEMMA RootIsTop ==
  ASSUME NEW par \in Parents, Loopless(par), NEW id \in Ids
  PROVE  FindRoot(par, id) \in Tops(par, id)
<1> DEFINE D == Ids \X SUBSET Ids
           Stops(c) == par[c[1]] = None \/ par[c[1]] \in c[2]
           Above(c) == <<par[c[1]], c[2] \cup {par[c[1]]}>>
           climb == CHOOSE f : f = [c \in D |-> IF Stops(c) THEN c[1] ELSE f[Above(c)]]
<1>1. climb = [c \in D |-> IF Stops(c) THEN c[1] ELSE climb[Above(c)]]
  <2> DEFINE f == [c \in D |-> End(par, c[1], c[2])]
  <2>1. ASSUME NEW c \in D
        PROVE  End(par, c[1], c[2]) = IF Stops(c) THEN c[1] ELSE f[Above(c)]
    <3>1. ~Stops(c) => Above(c) \in D
      BY DEF Parents
    <3>2. ~Stops(c) => f[Above(c)] = End(par, par[c[1]], c[2] \cup {par[c[1]]})
      BY <3>1
    <3> HIDE DEF f
    <3>. QED
      BY <3>2, EndSteps
  <2>2. f = [c \in D |-> IF Stops(c) THEN c[1] ELSE f[Above(c)]]
    BY <2>1
  <2> HIDE DEF f
  <2>. QED
    BY <2>2
<1>2. FindRoot(par, id) = climb[<<id, {id}>>]
  BY DEF FindRoot
<1> HIDE DEF climb
<1> DEFINE r == FindRoot(par, id)
           U == Up(par, id)
           (* where the climb comes through *)
           W == {c \in D : /\ c[1] \in U /\ \A y \in c[2] : c[1] \in Up(par, y)
                           /\ climb[c] = r}
           left(c) == Cardinality(Ids \ c[2])
           N == {left(c) : c \in W}
<1>3. U \subseteq Ids /\ id \in U /\ Closed(par, U)
  BY UpLeast
<1>4. <<id, {id}>> \in W
  BY <1>2, <1>3
<1>5. \A c \in W : IsFiniteSet(Ids \ c[2]) /\ left(c) \in Nat
  BY ThreadingAssumption, FS_Difference, FS_CardinalityType
<1>6. N \subseteq Nat /\ N # {}
  BY <1>4, <1>5
<1>7. PICK c \in W : \A d \in W : ~(left(d) < left(c))
  <2>1. PICK n \in N : \A k \in N : <<k, n>> \notin OpToRel(<, Nat)
    <3> HIDE DEF N
    <3>. QED
      BY <1>6, WFMin, NatLessThanWellFounded
  <2>2. OpToRel(<, Nat) = {ss \in Nat \X Nat : ss[1] < ss[2]}
    BY DEF OpToRel
  <2>3. \A k \in N : ~(k < n)
    <3> HIDE DEF N
    <3>. QED
      BY <1>6, <2>1, <2>2
  <2>. QED
    BY <2>1, <2>3
<1>8. c \in D /\ c[1] \in Ids /\ c[2] \subseteq Ids /\ c[1] \in U /\ climb[c] = r
  OBVIOUS
<1>9. CASE par[c[1]] = None
  BY <1>1, <1>8, <1>9 DEF Tops
<1>10. CASE par[c[1]] # None
  <2> DEFINE z == par[c[1]]
             s == c[2] \cup {z}
  <2>1. z \in Ids /\ z \in U /\ s \subseteq Ids
    BY <1>3, <1>8, <1>10 DEF Closed, Parents
  <2>2. z \notin c[2]
    <3>1. c[1] \notin Up(par, z)
      BY <1>8, <1>10 DEF Loopless
    <3>. QED
      BY <3>1
  <2>3. climb[<<z, s>>] = r
    <3>1. ~Stops(c) /\ Above(c) = <<z, s>>
      BY <1>10, <2>2
    <3>. QED
      BY <1>1, <1>8, <3>1
  <2>4. \A y \in s : z \in Up(par, y)
    <3> SUFFICES ASSUME NEW y \in s PROVE z \in Up(par, y)
      OBVIOUS
    <3>1. y \in Ids /\ y \in Up(par, y) /\ Closed(par, Up(par, y))
      BY <2>1, UpLeast
    <3>2. CASE y = z
      BY <3>1, <3>2
    <3>3. CASE y \in c[2]
      <4>1. c[1] \in Up(par, y)
        BY <3>3
      <4>. QED
        BY <3>1, <4>1, <1>10, <2>1, ThreadingAssumption DEF Closed
    <3>. QED
      BY <3>2, <3>3
  <2>5. <<z, s>> \in W
    BY <2>1, <2>3, <2>4
  <2>6. left(<<z, s>>) < left(c)
    <3>1. PICK A : A = Ids \ c[2]
      OBVIOUS
    <3>2. IsFiniteSet(A) /\ z \in A /\ Ids \ s = A \ {z}
      BY <1>5, <2>1, <2>2, <3>1
    <3> HIDE DEF z, s
    <3>3. Cardinality(A \ {z}) = Cardinality(A) - 1
      BY <3>2, FS_RemoveElement
    <3>4. Cardinality(A) \in Nat
      BY <3>2, FS_CardinalityType
    <3>5. left(<<z, s>>) = Cardinality(Ids \ s) /\ left(c) = Cardinality(A)
      BY <3>1
    <3>6. Cardinality(Ids \ s) = Cardinality(A) - 1
      BY <3>2, <3>3
    <3> HIDE DEF left
    <3>. QED
      BY <3>4, <3>5, <3>6
  <2>. QED
    BY <1>7, <2>5, <2>6
<1>. QED
  BY <1>9, <1>10

(* The links of a path that have been wired lead from its end to its start. *)
LEMMA PathLeadsUp ==
  ASSUME NEW par \in Parents, NEW p \in Seq(Ids), p # <<>>,
         \A i \in 2..Len(p) : par[p[i]] = p[i - 1]
  PROVE  p[1] \in Up(par, p[Len(p)])
<1> DEFINE n == Len(p)
           U == Up(par, p[n])
           I == {i \in 1..n : p[i] \in U}
<1>1. n \in Nat /\ n >= 1 /\ \A i \in 1..n : p[i] \in Ids /\ p[i] # None
  BY ThreadingAssumption
<1>2. p[n] \in U /\ Closed(par, U)
  BY <1>1, UpLeast
<1> HIDE DEF U
<1>3. I \subseteq Nat /\ n \in I
  BY <1>1, <1>2
<1>4. PICK m \in I : \A i \in I : <<i, m>> \notin OpToRel(<, Nat)
  <2> HIDE DEF I
  <2>. QED
    BY <1>3, WFMin, NatLessThanWellFounded
<1>5. OpToRel(<, Nat) = {ss \in Nat \X Nat : ss[1] < ss[2]}
  BY DEF OpToRel
<1>6. \A i \in I : ~(i < m)
  <2> HIDE DEF I
  <2>. QED
    BY <1>3, <1>4, <1>5
<1>7. m = 1
  <2> SUFFICES ASSUME m # 1 PROVE FALSE
    OBVIOUS
  <2>1. m \in 2..n /\ m - 1 \in 1..n /\ m - 1 < m
    BY <1>1
  <2>2. par[p[m]] = p[m - 1] /\ p[m] \in U /\ p[m - 1] # None
    BY <1>1, <2>1
  <2>3. p[m - 1] \in U
    BY <1>2, <2>2 DEF Closed
  <2>. QED
    BY <1>6, <2>1, <2>3
<1>. QED
  BY <1>7 DEF U

-----------------------------------------------------------------------------
Inv3 == Inv2 /\ ThreadsAreConversations

(* Links that are true, and all that a message tells: its root is an        *)
(* ancestor, and where it tells the whole way, the start.                   *)
LEMMA TrueRoot ==
  ASSUME TypeOK, NoLoop, NEW m \in Msgs, mail[m].id # None, Honest,
         \A x \in Ids : parent[x] # None => parent[x] = truth[x],
         \A j \in 2..Len(Path(m)) : parent[Path(m)[j]] = truth[Path(m)[j]]
  PROVE  /\ FindRoot(parent, mail[m].id) \in Up(truth, mail[m].id)
         /\ Full(m) => FindRoot(parent, mail[m].id) = FindRoot(truth, mail[m].id)
<1> DEFINE id == mail[m].id
<1>1. parent \in Parents /\ truth \in Parents /\ Loopless(parent) /\ Loopless(truth) /\ id \in Ids
  BY ThreadingAssumption DEF TypeOK, NoLoop, Headers
<1>2. FindRoot(parent, id) \in Tops(parent, id) /\ FindRoot(truth, id) \in Tops(truth, id)
  BY <1>1, RootIsTop
<1>3. Up(parent, id) \subseteq Up(truth, id)
  BY <1>1, UpMonotone
<1>4. ASSUME Full(m)
      PROVE  FindRoot(parent, id) = FindRoot(truth, id)
  <2> DEFINE p == Path(m)
  <2>1. p \in Seq(Ids) /\ p # <<>> /\ p[Len(p)] = id /\ p[1] \in Ids
    <3>1. mail[m] \in Headers
      BY ThreadingAssumption DEF TypeOK
    <3>2. Chain(mail[m]) \in Seq(Ids)
      BY <3>1 DEF Chain, Headers
    <3>. QED
      BY <3>2, PathTyped
  <2>2. \A j \in 2..Len(p) : parent[p[j]] = p[j - 1] /\ truth[p[j]] = p[j - 1]
    BY DEF Honest
  <2>3. p[1] \in Up(parent, id) /\ p[1] \in Up(truth, id)
    BY <1>1, <2>1, <2>2, PathLeadsUp
  <2>4. truth[p[1]] = None /\ parent[p[1]] = None
    BY <1>4, <2>1 DEF Full
  <2>5. p[1] \in Tops(parent, id) /\ p[1] \in Tops(truth, id)
    BY <2>3, <2>4 DEF Tops
  <2>. QED
    BY <1>1, <1>2, <2>5, OneTop
<1>. QED
  BY <1>2, <1>3, <1>4 DEF Tops

LEMMA StepConversations == Inv3 /\ [Next]_vars => Inv3'
<1> SUFFICES ASSUME Inv3, [Next]_vars PROVE Inv3'
  OBVIOUS
<1>1. Inv2 /\ Inv2' /\ Inv /\ TypeOK /\ NoLoop
  BY StepTold DEF Inv3, Inv2, Inv
<1>2. mail' = mail /\ truth' = truth /\ Honest' = Honest /\ \A m : Full(m)' = Full(m) /\ Path(m)' = Path(m)
  BY DEF Next, Fetch, WireAncestor, WireMessage, Skip, Store, vars, world, Honest, Full, Path
<1>3. SUFFICES ASSUME Honest PROVE ThreadsAreConversations'
  BY <1>1, <1>2 DEF Inv3, ThreadsAreConversations
<1>4. CASE Store
  <2>1. PICK written \in SUBSET {batch[i] : i \in 1..Len(batch)} :
          /\ stored' = stored \cup written
          /\ thread' = [m \in Msgs |-> IF m \in written \ stored THEN Threaded(m) ELSE thread[m]]
    BY <1>4 DEF Store
  <2>2. AsTold /\ batch # <<>> /\ batch \in Seq(Msgs) /\ at \in Nat /\ at > Len(batch) /\ stored \subseteq Msgs
    BY <1>1, <1>3, <1>4 DEF Inv2, Store, Wired, Wiring, TypeOK, Batches
  <2> SUFFICES ASSUME NEW m \in stored', mail[m].id # None
               PROVE  /\ thread'[m] \in Up(truth, mail[m].id)
                      /\ Full(m) => thread'[m] = FindRoot(truth, mail[m].id)
    BY <1>2 DEF ThreadsAreConversations
  <2>3. CASE m \in stored
    BY <1>3, <2>1, <2>2, <2>3 DEF Inv3, ThreadsAreConversations
  <2>4. CASE m \notin stored
    <3>1. m \in written /\ m \in Msgs
      BY <2>1, <2>2, <2>4
    <3>2. PICK i \in 1..Len(batch) : m = batch[i]
      BY <3>1
    <3>3. thread'[m] = FindRoot(parent, mail[m].id)
      BY <2>1, <2>4, <3>1 DEF Threaded
    <3>4. \A j \in 2..Len(Path(m)) : parent[Path(m)[j]] = truth[Path(m)[j]]
      BY <2>2, <3>2 DEF AsTold, Tied
    <3>. QED
      BY <1>1, <1>3, <2>2, <3>1, <3>3, <3>4, TrueRoot DEF AsTold
  <2>. QED
    BY <2>3, <2>4
<1>5. CASE ~Store
  <2>1. stored' = stored /\ thread' = thread
    BY <1>5 DEF Next, Fetch, WireAncestor, WireMessage, Skip, vars, rows
  <2>. QED
    BY <1>2, <1>3, <2>1 DEF Inv3, ThreadsAreConversations
<1>. QED
  BY <1>4, <1>5

(* Over all batches, and whatever else came with it: a message of headers   *)
(* that agree is threaded under an ancestor, and under the start of its     *)
(* conversation when its headers name the whole way.                        *)
THEOREM ConversationsHold == Spec => []ThreadsAreConversations
<1>1. Init => Inv3
  <2>1. Init => Inv2
    BY InitInv DEF Inv2, Init, AsTold
  <2>. QED
    BY <2>1 DEF Inv3, Init, ThreadsAreConversations
<1>2. Inv3 => ThreadsAreConversations
  BY DEF Inv3
<1>. QED
  BY <1>1, <1>2, StepConversations, PTL DEF Spec
-----------------------------------------------------------------------------
(* Shadows.                                                                *)
Reading == {"aggregate", "find", "write"}
Jobs == [at : {"idle", "collect"} \cup Reading, left : SUBSET Threads, counts : [Threads -> Nat],
         thread : Threads \cup {Nothing}, found : BOOLEAN]
Typed ==
  /\ inbox \in [Threads -> [n : Nat, ragged : BOOLEAN]]
  /\ row \in [Threads -> ThreadRows \cup {Nothing}]
  /\ job \in [Tasks -> Jobs]
  /\ asked \in [Promoters -> Rows \cup {Nothing}]
  /\ loop \in [at : {"sleep", "read", "model", "write"}, batch : SUBSET Rows]
  /\ loop.at \in {"model", "write"} => loop.batch # {}

(* A task that writes has threads left, and is at one of them.             *)
AtWork(s) == /\ job[s].at \in {"find", "write"} => job[s].left # {}
             /\ job[s].at = "write" => job[s].thread \in job[s].left

(* Some task will still write the row of the thread.                       *)
Coming(t) == \E s \in Tasks : job[s].at = "collect" \/ (job[s].at \in Reading /\ t \in job[s].left)

(* The count is the one of mail.db, or the thread changed under a count.   *)
Right(t, n) == t \in raced \/ n = inbox[t].n

CountsHold == \A s \in Tasks : job[s].at \in {"find", "write"} => \A t \in job[s].left : Right(t, job[s].counts[t])

(* A row that another task created between SELECT and CREATE stays as it   *)
(* is: its count is right, too.                                            *)
OthersRow == \A s \in Tasks : job[s].at = "write" /\ ~job[s].found /\ job[s].thread \in Rows
                 => Right(job[s].thread, row[job[s].thread].count)
Reached == \A t \in Mailed : t \in Rows \/ Coming(t)
Followed == \A t \in Mailed \cap Rows : Coming(t) \/ Right(t, row[t].count)
ShadowsInv == /\ Typed /\ (\A s \in Tasks : AtWork(s)) /\ CountsHold /\ OthersRow
              /\ Reached /\ Followed


LEMMA LeastIn == \A S \in SUBSET Threads : S # {} => Min(S) \in S
<1>1. SUFFICES ASSUME NEW S \in SUBSET Threads, S # {} PROVE Min(S) \in S
  OBVIOUS
<1>2. S \subseteq Nat
  BY ShadowsAssumption
<1>3. PICK m \in S : \A u \in S : <<u, m>> \notin OpToRel(<, Nat)
  BY <1>1, <1>2, WFMin, NatLessThanWellFounded
<1>4. OpToRel(<, Nat) = {ss \in Nat \X Nat : ss[1] < ss[2]}
  BY DEF OpToRel
<1>5. \A u \in S : ~(u < m)
  BY <1>2, <1>3, <1>4
<1>6. \A u \in S : m =< u
  BY <1>2, <1>5
<1>. QED
  BY <1>6 DEF Min

LEMMA ArriveKeeps ==
  ASSUME ShadowsInv, NEW s \in Syncs, Arrive(s)
  PROVE  ShadowsInv'
<1>1. PICK T \in (SUBSET Threads) \ {{}}, ragged \in BOOLEAN :
        /\ inbox' = [t \in Threads |-> IF t \in T THEN [n |-> inbox[t].n + 1, ragged |-> ragged] ELSE inbox[t]]
        /\ job' = [job EXCEPT ![s] = [Idle EXCEPT !.at = "aggregate", !.left = T]]
        /\ raced' = raced \cup {t \in T : InHand(t)}
  BY DEF Arrive
<1>2. /\ s \in Tasks /\ job[s] = Idle
      /\ UNCHANGED <<row, asked, loop>>
  BY DEF Arrive, Tasks
<1>3. Rows' = Rows
  BY <1>2 DEF Rows
<1>4. /\ job'[s].at = "aggregate" /\ job'[s].left = T
      /\ \A r \in Tasks \ {s} : job'[r] = job[r]
  BY <1>1, <1>2 DEF ShadowsInv, Typed, Idle
<1>5. Typed'
  <2>1. inbox' \in [Threads -> [n : Nat, ragged : BOOLEAN]]
    BY <1>1 DEF ShadowsInv, Typed
  <2>2. job' \in [Tasks -> Jobs]
    BY <1>1, <1>2 DEF ShadowsInv, Typed, Jobs, Idle, Reading
  <2>. QED
    BY <2>1, <2>2, <1>2, <1>3 DEF ShadowsInv, Typed
<1>6. \A r \in Tasks : AtWork(r)'
  BY <1>4 DEF ShadowsInv, AtWork
<1>7. ASSUME NEW t \in Threads, NEW r \in Tasks \ {s}, job[r].at \in {"find", "write"}, t \in job[r].left, NEW n, Right(t, n)
      PROVE  Right(t, n)'
  <2>1. CASE t \in T
    BY <2>1, <1>1, <1>7 DEF InHand, Right
  <2>2. CASE t \notin T
    BY <2>2, <1>1, <1>7 DEF Right
  <2>. QED
    BY <2>1, <2>2
<1>8. CountsHold'
  <2>1. SUFFICES ASSUME NEW r \in Tasks, (job[r].at \in {"find", "write"})', NEW t \in job'[r].left
                 PROVE  Right(t, job[r].counts[t])'
    BY DEF CountsHold
  <2>2. r # s
    BY <2>1, <1>4
  <2>3. t \in Threads
    BY <2>1, <1>5 DEF Typed, Jobs
  <2>. QED
    BY <2>1, <2>2, <2>3, <1>4, <1>7 DEF ShadowsInv, CountsHold
<1>9. OthersRow'
  <2>1. SUFFICES ASSUME NEW r \in Tasks, (job[r].at = "write" /\ ~job[r].found /\ job[r].thread \in Rows)'
                 PROVE  Right(job[r].thread, row[job[r].thread].count)'
    BY DEF OthersRow
  <2>2. r # s /\ job'[r] = job[r]
    BY <2>1, <1>4
  <2>3. job[r].thread \in Threads /\ job[r].thread \in job[r].left
    BY <2>1, <2>2, <1>3 DEF Rows, ShadowsInv, AtWork
  <2>. QED
    BY <2>1, <2>2, <2>3, <1>2, <1>3, <1>7 DEF ShadowsInv, OthersRow
<1>10. ASSUME NEW t, Coming(t) PROVE Coming(t)'
  BY <1>10, <1>2, <1>4 DEF Coming, Idle, Reading
<1>11. \A t \in T : Coming(t)'
  BY <1>2, <1>4 DEF Coming, Reading
<1>12. ASSUME NEW t \in Threads \ T
       PROVE  (t \in Mailed' => t \in Mailed) /\ \A n : Right(t, n) => Right(t, n)'
  BY <1>1, <1>12 DEF Mailed, Right
<1>13. Reached'
  BY <1>3, <1>10, <1>11, <1>12 DEF ShadowsInv, Reached, Mailed
<1>14. Followed'
  BY <1>2, <1>3, <1>10, <1>11, <1>12 DEF ShadowsInv, Followed, Mailed
<1>. QED
  BY <1>5, <1>6, <1>8, <1>9, <1>13, <1>14 DEF ShadowsInv

LEMMA RemoveKeeps ==
  ASSUME ShadowsInv, Remove
  PROVE  ShadowsInv'
<1>1. PICK t \in Mailed, ragged \in BOOLEAN :
        /\ inbox' = [inbox EXCEPT ![t] = [n |-> @.n - 1, ragged |-> ragged /\ @.n > 1]]
        /\ raced' = raced \cup {t}
  BY DEF Remove
<1>2. UNCHANGED <<row, job, asked, loop>>
  BY DEF Remove
<1>3. Rows' = Rows
  BY <1>2 DEF Rows
<1>4. \A u \in Threads : \A n : Right(u, n) => Right(u, n)'
  BY <1>1 DEF ShadowsInv, Typed, Right
<1>5. Mailed' \subseteq Mailed
  BY <1>1 DEF ShadowsInv, Typed, Mailed
<1>6. Typed'
  <2>1. t \in Threads /\ inbox[t].n \in Nat /\ inbox[t].n > 0
    BY DEF ShadowsInv, Typed, Mailed
  <2>2. inbox[t].n - 1 \in Nat
    BY <2>1
  <2>3. inbox' \in [Threads -> [n : Nat, ragged : BOOLEAN]]
    BY <1>1, <2>1, <2>2 DEF ShadowsInv, Typed
  <2>. QED
    BY <2>3, <1>2, <1>3 DEF ShadowsInv, Typed
<1>7. \A s \in Tasks : AtWork(s)'
  BY <1>2 DEF ShadowsInv, AtWork
<1>8. \A s \in Tasks : job[s].left \subseteq Threads
  BY DEF ShadowsInv, Typed, Jobs
<1>9. CountsHold'
  BY <1>2, <1>4, <1>8 DEF ShadowsInv, CountsHold
<1>10. OthersRow'
  BY <1>2, <1>3, <1>4 DEF ShadowsInv, OthersRow, Rows
<1>11. Reached' /\ Followed'
  BY <1>2, <1>3, <1>4, <1>5 DEF ShadowsInv, Reached, Followed, Coming, Mailed
<1>. QED
  BY <1>6, <1>7, <1>9, <1>10, <1>11 DEF ShadowsInv

(* A step of the loop or of a promoter changes no count and no row comes   *)
(* or goes.                                                                *)
LEMMA FlagsKeep ==
  ASSUME ShadowsInv, UNCHANGED <<inbox, job, raced>>, Typed', Rows' = Rows,
         \A t \in Rows : row'[t].count = row[t].count
  PROVE  ShadowsInv'
<1>1. \A t, n : Right(t, n) = Right(t, n)'
  BY DEF Right
<1>2. Mailed' = Mailed /\ \A t : Coming(t)' = Coming(t)
  BY DEF Mailed, Coming
<1>3. \A s \in Tasks : AtWork(s)'
  BY DEF ShadowsInv, AtWork
<1>4. CountsHold' /\ OthersRow'
  BY <1>1 DEF ShadowsInv, CountsHold, OthersRow
<1>5. Reached' /\ Followed'
  BY <1>1, <1>2 DEF ShadowsInv, Reached, Followed
<1>. QED
  BY <1>3, <1>4, <1>5 DEF ShadowsInv

(* Collect, and the aggregate of a task: a job is begun or goes on with    *)
(* what has messages.                                                      *)
LEMMA CollectKeeps ==
  ASSUME ShadowsInv, Collect
  PROVE  ShadowsInv'
<1>1. /\ Backfill \in Tasks /\ job[Backfill].at = "collect"
      /\ UNCHANGED <<inbox, row, asked, loop, bound, raced>>
      /\ job' = [job EXCEPT ![Backfill] = [Idle EXCEPT !.at = "aggregate", !.left = Mailed]]
  BY DEF Collect, Tasks
<1>2. /\ job'[Backfill].at = "aggregate" /\ job'[Backfill].left = Mailed
      /\ \A r \in Tasks \ {Backfill} : job'[r] = job[r]
  BY <1>1 DEF ShadowsInv, Typed, Idle
<1>3. Rows' = Rows /\ Mailed' = Mailed /\ \A t, n : Right(t, n)' = Right(t, n)
  BY <1>1 DEF Rows, Mailed, Right
<1>4. Typed'
  <2>1. job' \in [Tasks -> Jobs]
    BY <1>1 DEF ShadowsInv, Typed, Jobs, Idle, Reading, Mailed
  <2>. QED
    BY <2>1, <1>1, <1>3 DEF ShadowsInv, Typed
<1>5. \A r \in Tasks : AtWork(r)'
  BY <1>2 DEF ShadowsInv, AtWork
<1>6. CountsHold'
  BY <1>2, <1>3 DEF ShadowsInv, CountsHold
<1>7. OthersRow'
  BY <1>1, <1>2, <1>3 DEF ShadowsInv, OthersRow
<1>8. \A t \in Mailed : Coming(t)'
  BY <1>1, <1>2 DEF Coming, Reading
<1>9. Reached' /\ Followed'
  BY <1>3, <1>8 DEF Reached, Followed
<1>. QED
  BY <1>4, <1>5, <1>6, <1>7, <1>9 DEF ShadowsInv

LEMMA AggregateKeeps ==
  ASSUME ShadowsInv, NEW s \in Tasks, Aggregate(s)
  PROVE  ShadowsInv'
<1> DEFINE left   == job[s].left \cap Mailed
           counts == [t \in Threads |-> IF t \in left THEN inbox[t].n ELSE 0]
<1>1. /\ job[s].at = "aggregate"
      /\ UNCHANGED <<inbox, row, asked, loop, bound, raced>>
      /\ job' = [job EXCEPT ![s] = IF left = {} THEN Idle
                                   ELSE [Idle EXCEPT !.at = "find", !.left = left, !.counts = counts]]
  BY DEF Aggregate
<1>2. /\ \A r \in Tasks \ {s} : job'[r] = job[r]
      /\ left = {} => job'[s].at = "idle"
      /\ left # {} => job'[s].at = "find" /\ job'[s].left = left /\ job'[s].counts = counts
  BY <1>1 DEF ShadowsInv, Typed, Idle
<1>3. Rows' = Rows /\ Mailed' = Mailed /\ \A t, n : Right(t, n)' = Right(t, n)
  BY <1>1 DEF Rows, Mailed, Right
<1>4. left \subseteq Threads /\ counts \in [Threads -> Nat]
  BY DEF ShadowsInv, Typed, Mailed
<1>5. Typed'
  <2>1. job' \in [Tasks -> Jobs]
    BY <1>1, <1>4 DEF ShadowsInv, Typed, Jobs, Idle, Reading
  <2>. QED
    BY <2>1, <1>1, <1>3 DEF ShadowsInv, Typed
<1>6. \A r \in Tasks : AtWork(r)'
  BY <1>2 DEF ShadowsInv, AtWork
<1>7. CountsHold'
  <2>1. \A t \in left : Right(t, counts[t])
    BY <1>4 DEF Right
  <2>. QED
    BY <2>1, <1>2, <1>3 DEF ShadowsInv, CountsHold
<1>8. OthersRow'
  BY <1>1, <1>2, <1>3 DEF ShadowsInv, OthersRow
<1>9. \A t \in Mailed : Coming(t) => Coming(t)'
  BY <1>1, <1>2 DEF Coming, Reading
<1>10. Reached' /\ Followed'
  BY <1>1, <1>3, <1>9 DEF ShadowsInv, Reached, Followed
<1>. QED
  BY <1>5, <1>6, <1>7, <1>8, <1>10 DEF ShadowsInv

LEMMA FindKeeps ==
  ASSUME ShadowsInv, NEW s \in Tasks, Find(s)
  PROVE  ShadowsInv'
<1>1. PICK t : t = Min(job[s].left)
  OBVIOUS
<1>2. /\ job[s].at = "find"
      /\ UNCHANGED <<inbox, row, asked, loop, bound, raced>>
      /\ job' = [job EXCEPT ![s].at = "write", ![s].thread = t, ![s].found = row[t] # Nothing]
  BY <1>1 DEF Find
<1>3. t \in job[s].left /\ t \in Threads
  BY <1>1, <1>2, LeastIn DEF ShadowsInv, Typed, Jobs, AtWork
<1>4. /\ \A r \in Tasks \ {s} : job'[r] = job[r]
      /\ job'[s].at = "write" /\ job'[s].left = job[s].left /\ job'[s].counts = job[s].counts
      /\ job'[s].thread = t /\ job'[s].found = (row[t] # Nothing)
  BY <1>2 DEF ShadowsInv, Typed, Jobs
<1>5. Rows' = Rows /\ Mailed' = Mailed /\ \A u, n : Right(u, n)' = Right(u, n)
  BY <1>2 DEF Rows, Mailed, Right
<1>6. Typed'
  <2>1. /\ job[s] \in Jobs /\ t \in Threads \cup {Nothing} /\ (row[t] # Nothing) \in BOOLEAN
    BY <1>3 DEF ShadowsInv, Typed
  <2>2. [job[s] EXCEPT !.at = "write", !.thread = t, !.found = row[t] # Nothing] \in Jobs
    BY <2>1 DEF Jobs, Reading
  <2>3. job' = [job EXCEPT ![s] = [job[s] EXCEPT !.at = "write", !.thread = t, !.found = row[t] # Nothing]]
    BY <1>2 DEF ShadowsInv, Typed
  <2>4. job' \in [Tasks -> Jobs]
    BY <2>2, <2>3 DEF ShadowsInv, Typed
  <2>. QED
    BY <2>4, <1>2, <1>5 DEF ShadowsInv, Typed
<1>7. \A r \in Tasks : AtWork(r)'
  BY <1>3, <1>4 DEF ShadowsInv, AtWork
<1>8. CountsHold'
  BY <1>2, <1>4, <1>5 DEF ShadowsInv, CountsHold
<1>9. OthersRow'
  <2>1. SUFFICES ASSUME NEW r \in Tasks, job'[r].at = "write", ~job'[r].found, job'[r].thread \in Rows
                 PROVE  Right(job[r].thread, row[job[r].thread].count)'
    BY <1>5 DEF OthersRow
  <2>0. row' = row /\ inbox' = inbox /\ raced' = raced
    BY <1>2
  <2>2. CASE r = s
    BY <1>4, <2>1, <2>2 DEF Rows
  <2>3. CASE r # s
    <3>1. job'[r] = job[r]
      BY <1>4, <2>3
    <3>2. Right(job[r].thread, row[job[r].thread].count)
      BY <2>1, <3>1 DEF ShadowsInv, OthersRow
    <3>3. PICK u, n : u = job[r].thread /\ n = row[u].count
      OBVIOUS
    <3>4. Right(u, n)'
      BY <2>0, <3>2, <3>3 DEF Right
    <3>. QED
      BY <2>0, <3>1, <3>3, <3>4 DEF Right
  <2>. QED
    BY <2>2, <2>3
<1>10. \A u : Coming(u) => Coming(u)'
  BY <1>2, <1>4 DEF Coming, Reading
<1>11. Reached' /\ Followed'
  BY <1>2, <1>5, <1>10 DEF ShadowsInv, Reached, Followed
<1>. QED
  BY <1>6, <1>7, <1>8, <1>9, <1>11 DEF ShadowsInv

(* The row is there after the write; it has the count of the task, unless  *)
(* another task created it meanwhile.                                      *)
LEMMA WriteKeeps ==
  ASSUME ShadowsInv, NEW s \in Tasks, Write(s)
  PROVE  ShadowsInv'
<1>1. PICK t, left : t = job[s].thread /\ left = job[s].left \ {t}
  OBVIOUS
<1>2. /\ job[s].at = "write"
      /\ UNCHANGED <<inbox, asked, loop, bound, raced>>
      /\ row' = [row EXCEPT ![t] = Mirrored(@, job[s].counts[t], job[s].found)]
      /\ job' = [job EXCEPT ![s] = IF left = {} THEN Idle
                                   ELSE [@ EXCEPT !.at = "find", !.left = left, !.thread = Nothing, !.found = FALSE]]
  BY <1>1 DEF Write, Upserting
<1>3. t \in job[s].left /\ t \in Threads /\ job[s].left \subseteq Threads
  BY <1>1, <1>2 DEF ShadowsInv, Typed, Jobs, AtWork
<1>4. /\ \A r \in Tasks \ {s} : job'[r] = job[r]
      /\ left = {} => job'[s].at = "idle"
      /\ left # {} => job'[s].at = "find" /\ job'[s].left = left /\ job'[s].counts = job[s].counts
  BY <1>2 DEF ShadowsInv, Typed, Jobs, Idle
<1>5. Mailed' = Mailed /\ \A u, n : Right(u, n)' = Right(u, n)
  BY <1>2 DEF Mailed, Right
<1>6. Right(t, job[s].counts[t]) /\ job[s].counts[t] \in Nat
  BY <1>2, <1>3 DEF ShadowsInv, Typed, Jobs, CountsHold
<1>7. row'[t] \in ThreadRows
  BY <1>2, <1>3, <1>6 DEF ShadowsInv, Typed, Mirrored, ThreadRows
<1>8. Right(t, row'[t].count)
  <2>1. CASE row[t] = Nothing
    BY <2>1, <1>2, <1>3, <1>6 DEF ShadowsInv, Typed, Mirrored
  <2>2. CASE row[t] # Nothing /\ job[s].found
    BY <2>2, <1>2, <1>3, <1>6 DEF ShadowsInv, Typed, Mirrored, ThreadRows
  <2>3. CASE row[t] # Nothing /\ ~job[s].found
    BY <2>3, <1>1, <1>2, <1>3 DEF ShadowsInv, Typed, OthersRow, Rows, Mirrored
  <2>. QED
    BY <2>1, <2>2, <2>3
<1>9. /\ \A u \in Threads \ {t} : row'[u] = row[u]
      /\ Rows' = Rows \cup {t}
  BY <1>2, <1>3, <1>7, ShadowsAssumption DEF ShadowsInv, Typed, Rows
<1>10. Typed'
  <2>1. job' \in [Tasks -> Jobs]
    <3>1. job[s] \in Jobs /\ left \in SUBSET Threads /\ Idle \in Jobs
      BY <1>1 DEF ShadowsInv, Typed, Jobs, Idle
    <3>2. [job[s] EXCEPT !.at = "find", !.left = left, !.thread = Nothing, !.found = FALSE] \in Jobs
      BY <3>1 DEF Jobs, Reading
    <3>. QED
      BY <3>1, <3>2, <1>2 DEF ShadowsInv, Typed
  <2>2. row' \in [Threads -> ThreadRows \cup {Nothing}]
    BY <1>2, <1>7, <1>9 DEF ShadowsInv, Typed
  <2>3. /\ asked' \in [Promoters -> Rows' \cup {Nothing}]
        /\ loop' \in [at : {"sleep", "read", "model", "write"}, batch : SUBSET Rows']
    BY <1>2, <1>9 DEF ShadowsInv, Typed
  <2>. QED
    BY <2>1, <2>2, <2>3, <1>2 DEF ShadowsInv, Typed
<1>11. \A r \in Tasks : AtWork(r)'
  BY <1>4 DEF ShadowsInv, AtWork
<1>12. CountsHold'
  BY <1>1, <1>2, <1>4, <1>5 DEF ShadowsInv, CountsHold
<1>13. OthersRow'
  BY <1>4, <1>5, <1>8, <1>9 DEF ShadowsInv, OthersRow, Rows
<1>14. \A u \in Threads \ {t} : Coming(u) => Coming(u)'
  BY <1>1, <1>2, <1>4 DEF Coming, Reading
<1>15. Mailed \subseteq Threads
  BY DEF Mailed
<1>16. Reached'
  BY <1>5, <1>9, <1>14, <1>15 DEF ShadowsInv, Reached
<1>17. Followed'
  BY <1>5, <1>8, <1>9, <1>14, <1>15 DEF ShadowsInv, Followed
<1>. QED
  BY <1>10, <1>11, <1>12, <1>13, <1>16, <1>17 DEF ShadowsInv

LEMMA PromotionKeeps ==
  ASSUME ShadowsInv, (\E p \in Promoters : Promote(p) \/ Promoted(p)) \/ Unpromote
  PROVE  ShadowsInv'
<1>1. ASSUME NEW p \in Promoters, Promote(p)
      PROVE  ShadowsInv'
  <2>1. /\ UNCHANGED <<inbox, row, job, loop, raced>>
        /\ asked' \in [Promoters -> Rows \cup {Nothing}]
    BY <1>1 DEF Promote, ShadowsInv, Typed
  <2>2. Rows' = Rows
    BY <2>1 DEF Rows
  <2>. QED
    BY <2>1, <2>2, FlagsKeep DEF ShadowsInv, Typed
<1>2. ASSUME NEW p \in Promoters, Promoted(p)
      PROVE  ShadowsInv'
  <2>1. PICK t : t = asked[p]
    OBVIOUS
  <2>2. /\ t \in Rows /\ t \in Threads /\ row[t] \in ThreadRows
        /\ UNCHANGED <<inbox, job, loop, raced>> /\ asked' = [asked EXCEPT ![p] = Nothing]
        /\ row' = [row EXCEPT ![t].promoted = TRUE, ![t].behind = TRUE]
    BY <1>2, <2>1 DEF Promoted, ShadowsInv, Typed, Rows
  <2>3. row' = [row EXCEPT ![t] = [[row[t] EXCEPT !.promoted = TRUE] EXCEPT !.behind = TRUE]]
    BY <2>2 DEF ShadowsInv, Typed
  <2>4. /\ [row[t] EXCEPT !.promoted = TRUE] \in ThreadRows
        /\ [row[t] EXCEPT !.promoted = TRUE].count = row[t].count
    BY <2>2 DEF ThreadRows
  <2>5. /\ [[row[t] EXCEPT !.promoted = TRUE] EXCEPT !.behind = TRUE] \in ThreadRows
        /\ [[row[t] EXCEPT !.promoted = TRUE] EXCEPT !.behind = TRUE].count = row[t].count
    BY <2>4 DEF ThreadRows
  <2>6. row'[t] \in ThreadRows /\ row'[t].count = row[t].count
    BY <2>2, <2>3, <2>5 DEF ShadowsInv, Typed
  <2>7. Rows' = Rows /\ row' \in [Threads -> ThreadRows \cup {Nothing}]
    <3>1. \A u \in Threads \ {t} : row'[u] = row[u]
      BY <2>3 DEF ShadowsInv, Typed
    <3>2. row[t] # Nothing /\ row'[t] # Nothing
      BY <2>2, <2>6, ShadowsAssumption
    <3>3. Rows' = Rows
      BY <3>1, <3>2 DEF Rows
    <3>4. DOMAIN row' = Threads /\ row' = [u \in Threads |-> row'[u]]
      BY <2>3 DEF ShadowsInv, Typed
    <3>. QED
      BY <2>6, <3>1, <3>3, <3>4 DEF ShadowsInv, Typed
  <2>8. \A u \in Rows : row'[u].count = row[u].count
    BY <2>2, <2>3, <2>6 DEF ShadowsInv, Typed, Rows
  <2>9. Typed'
    BY <2>2, <2>7 DEF ShadowsInv, Typed
  <2>. QED
    BY <2>2, <2>7, <2>8, <2>9, FlagsKeep
<1>3. ASSUME Unpromote
      PROVE  ShadowsInv'
  <2>1. PICK t \in Rows : row' = [row EXCEPT ![t].promoted = FALSE]
    BY <1>3 DEF Unpromote
  <2>2. /\ t \in Threads /\ row[t] \in ThreadRows
        /\ UNCHANGED <<inbox, job, asked, loop, raced>>
    BY <1>3 DEF Unpromote, ShadowsInv, Typed, Rows
  <2>3. row'[t] \in ThreadRows /\ row'[t].count = row[t].count
    BY <2>1, <2>2 DEF ShadowsInv, Typed, ThreadRows
  <2>4. Rows' = Rows /\ row' \in [Threads -> ThreadRows \cup {Nothing}]
    BY <2>1, <2>2, <2>3, ShadowsAssumption DEF ShadowsInv, Typed, Rows
  <2>5. \A u \in Rows : row'[u].count = row[u].count
    BY <2>1, <2>2, <2>3 DEF ShadowsInv, Typed, Rows
  <2>6. Typed'
    BY <2>2, <2>4 DEF ShadowsInv, Typed
  <2>. QED
    BY <2>2, <2>4, <2>5, <2>6, FlagsKeep
<1>. QED
  BY <1>1, <1>2, <1>3

LEMMA LoopingKeeps ==
  ASSUME ShadowsInv, Looping
  PROVE  ShadowsInv'
<1>1. ASSUME UNCHANGED <<inbox, row, job, asked, raced>>,
             loop' \in [at : {"sleep", "read", "model", "write"}, batch : SUBSET Rows],
             loop'.at \in {"model", "write"} => loop'.batch # {}
      PROVE  ShadowsInv'
  <2>1. Rows' = Rows
    BY <1>1 DEF Rows
  <2>. QED
    BY <1>1, <2>1, FlagsKeep DEF ShadowsInv, Typed
<1>2. CASE Pick
  <2>1. First(Pending) \subseteq Rows
    BY DEF First, Pending
  <2>. QED
    BY <1>1, <1>2, <2>1 DEF Pick
<1>3. CASE Read
  BY <1>1, <1>3 DEF Read, Readable, Sleep, ShadowsInv, Typed
<1>4. CASE Embed
  BY <1>1, <1>4 DEF Embed, ShadowsInv, Typed
<1>5. CASE EmbedFails
  BY <1>1, <1>5 DEF EmbedFails, Sleep
<1>6. CASE StoreEmbedding
  <2>1. PICK t : t = Min(loop.batch)
    OBVIOUS
  <2>2. /\ UNCHANGED <<inbox, job, asked, raced>>
        /\ row' = [row EXCEPT ![t] = Embedded(@)]
        /\ loop' = IF loop.batch = {t} THEN Sleep ELSE [loop EXCEPT !.batch = @ \ {t}]
        /\ loop.batch # {} /\ loop.batch \in SUBSET Rows
    BY <1>6, <2>1 DEF StoreEmbedding, ShadowsInv, Typed
  <2>3. t \in Rows /\ t \in Threads /\ t \in loop.batch
    BY <2>1, <2>2, LeastIn DEF Rows
  <2>4. row[t] \in ThreadRows
    BY <2>3 DEF ShadowsInv, Typed, Rows
  <2>5. row'[t] \in ThreadRows /\ row'[t].count = row[t].count
    BY <2>2, <2>3, <2>4 DEF ShadowsInv, Typed, ThreadRows, Embedded
  <2>6. Rows' = Rows /\ row' \in [Threads -> ThreadRows \cup {Nothing}]
    BY <2>2, <2>3, <2>5, ShadowsAssumption DEF ShadowsInv, Typed, Rows
  <2>7. \A u \in Rows : row'[u].count = row[u].count
    BY <2>2, <2>3, <2>5 DEF ShadowsInv, Typed, Rows
  <2>8. /\ loop' \in [at : {"sleep", "read", "model", "write"}, batch : SUBSET Rows]
        /\ loop'.at \in {"model", "write"} => loop'.batch # {}
    BY <2>2, <2>3 DEF ShadowsInv, Typed, Sleep
  <2>9. Typed'
    BY <2>2, <2>6, <2>8 DEF ShadowsInv, Typed
  <2>. QED
    BY <2>2, <2>6, <2>7, <2>9, FlagsKeep
<1>. QED
  BY <1>2, <1>3, <1>4, <1>5, <1>6 DEF Looping

(* What a crash cuts off, the backfill of the next start collects.         *)
LEMMA CrashKeeps ==
  ASSUME ShadowsInv, Crash
  PROVE  ShadowsInv'
<1>1. /\ UNCHANGED <<inbox, row, raced>> /\ Backfill \in Tasks
      /\ job' = [s \in Tasks |-> IF s = Backfill THEN [Idle EXCEPT !.at = "collect"] ELSE Idle]
      /\ asked' = [p \in Promoters |-> Nothing] /\ loop' = Sleep
  BY DEF Crash, Tasks
<1>2. Rows' = Rows
  BY <1>1 DEF Rows
<1>3. /\ \A s \in Tasks : job'[s].at \in {"idle", "collect"}
      /\ job'[Backfill].at = "collect"
  BY <1>1 DEF Idle
<1>4. Typed'
  <2>1. job' \in [Tasks -> Jobs]
    BY <1>1 DEF Jobs, Idle, Reading
  <2>. QED
    BY <2>1, <1>1, <1>2 DEF ShadowsInv, Typed, Sleep
<1>5. \A t : Coming(t)'
  BY <1>1, <1>3 DEF Coming
<1>6. (\A s \in Tasks : AtWork(s)') /\ CountsHold' /\ OthersRow'
  BY <1>3 DEF AtWork, CountsHold, OthersRow
<1>. QED
  BY <1>4, <1>5, <1>6 DEF ShadowsInv, Reached, Followed

LEMMA ShadowsInitially == ShadowsInit => ShadowsInv
<1> SUFFICES ASSUME ShadowsInit PROVE ShadowsInv
  OBVIOUS
<1>1. Backfill \in Tasks /\ Rows = {}
  BY DEF ShadowsInit, Tasks, Rows
<1>2. /\ \A s \in Tasks : job[s].at \in {"idle", "collect"}
      /\ job[Backfill].at = "collect"
  BY <1>1 DEF ShadowsInit, Idle
<1>3. Typed
  <2>1. Idle \in Jobs
    BY DEF Jobs, Idle
  <2>2. [Idle EXCEPT !.at = "collect"] \in Jobs
    BY <2>1 DEF Jobs
  <2>3. job \in [Tasks -> Jobs]
    BY <2>1, <2>2 DEF ShadowsInit
  <2>. QED
    <3>1. inbox \in [Threads -> [n : Nat, ragged : BOOLEAN]]
      <4>1. ASSUME NEW m \in [n : {0, 1}, ragged : {FALSE}] PROVE m \in [n : Nat, ragged : BOOLEAN]
        <5>1. m = [n |-> m.n, ragged |-> m.ragged] /\ m.n \in {0, 1} /\ m.ragged \in {FALSE}
          BY <4>1
        <5>2. m.n \in Nat
          BY <5>1
        <5>3. m.ragged \in BOOLEAN
          BY <5>1, Zenon
        <5>. QED
          BY <5>1, <5>2, <5>3
      <4>. QED
        BY <4>1 DEF ShadowsInit
    <3>2. row \in [Threads -> ThreadRows \cup {Nothing}] /\ asked \in [Promoters -> Rows \cup {Nothing}]
      BY DEF ShadowsInit
    <3>3. loop \in [at : {"sleep", "read", "model", "write"}, batch : SUBSET Rows] /\ loop.at = "sleep"
      BY DEF ShadowsInit, Sleep
    <3>. QED
      BY <2>3, <3>1, <3>2, <3>3 DEF Typed
<1>4. \A t : Coming(t)
  BY <1>1, <1>2 DEF Coming
<1>5. (\A s \in Tasks : AtWork(s)) /\ CountsHold /\ OthersRow
  BY <1>2 DEF AtWork, CountsHold, OthersRow
<1>. QED
  BY <1>3, <1>4, <1>5 DEF ShadowsInv, Reached, Followed

LEMMA ShadowsKept == ShadowsInv /\ [ShadowsNext]_shadowVars => ShadowsInv'
<1> SUFFICES ASSUME ShadowsInv, [ShadowsNext]_shadowVars PROVE ShadowsInv'
  OBVIOUS
<1>1. CASE UNCHANGED shadowVars
  <2>1. Rows' = Rows
    BY <1>1 DEF shadowVars, Rows
  <2>. QED
    BY <1>1, <2>1, FlagsKeep DEF shadowVars, ShadowsInv, Typed
<1>2. CASE ShadowsNext
  BY <1>2, ArriveKeeps, CollectKeeps, AggregateKeeps, FindKeeps, WriteKeeps, RemoveKeeps,
     PromotionKeeps, LoopingKeeps, CrashKeeps DEF ShadowsNext, Mirror
<1>. QED
  BY <1>1, <1>2

(* After any number of overlapping upserts, deletions and crashes: when no *)
(* upsert is under way, every thread with messages has its row, with its   *)
(* count unless the messages changed under a count on its way              *)
(* (upsert_thread_shadows, backfill_thread_shadows).                       *)
THEOREM RowsFollowMail == ShadowsSpec => []ShadowsFollow
<1>1. ShadowsInv => ShadowsFollow
  <2> SUFFICES ASSUME ShadowsInv, Quiet PROVE \A t \in Mailed : t \in Rows /\ (t \in raced \/ row[t].count = inbox[t].n)
    BY DEF ShadowsFollow
  <2>1. \A t : ~Coming(t)
    BY DEF Quiet, Coming, Idle, Reading
  <2>. QED
    BY <2>1 DEF ShadowsInv, Reached, Followed, Right
<1>. QED
  BY <1>1, ShadowsInitially, ShadowsKept, PTL DEF ShadowsSpec
=============================================================================
