----------------------------- MODULE Threading -----------------------------
(***************************************************************************)
(* Conversations: how a sync threads the messages it has just fetched      *)
(* (src/src-tauri/src/mail/threading.rs: assign, and its caller            *)
(* persist_messages in sync.rs, which stores the result with the rows).    *)
(*                                                                         *)
(* A batch is threaded by its own headers alone: the links between         *)
(* Message-IDs are wired one by one, the first parent an ID gets stays,    *)
(* and the ID at the top of a message names its thread. Rows of earlier    *)
(* batches are neither read nor threaded again.                            *)
(*                                                                         *)
(* Abstracted: thread_id is the root itself (the code stores a digest of   *)
(* it); an empty Message-ID and none are both None, since either leaves    *)
(* the row without a thread; a failed parse is a message of no batch.      *)
(***************************************************************************)
EXTENDS Naturals, Sequences, FiniteSets

CONSTANTS
  Msgs,       \* messages of the folder
  Ids,        \* Message-IDs, of messages here or only referred to
  Mailboxes,  \* what the folder may hold: headers, and the replies they stem from
  MaxBatches, \* bound: batches fetched
  None

Headers == [id : Ids \cup {None}, refs : Seq(Ids), irt : Ids \cup {None}]
Parents == [Ids -> Ids \cup {None}]

Closed(par, S) == \A x \in S : par[x] \in S \cup {None}

(* id and all above it: the smallest set that holds id and its parents.     *)
Up(par, id) == {y \in Ids : \A S \in SUBSET Ids : id \in S /\ Closed(par, S) => y \in S}

Loopless(par) == \A x \in Ids : par[x] # None => x \notin Up(par, par[x])

ASSUME ThreadingAssumption ==
  /\ None \notin Ids /\ IsFiniteSet(Ids) /\ MaxBatches \in Nat
  /\ Mailboxes \subseteq [mail : [Msgs -> Headers], truth : Parents]
  /\ \A box \in Mailboxes : Loopless(box.truth)

VARIABLES
  mail,    \* the headers of each message
  truth,   \* history: which message each one really answers; not known to the code
  batch,   \* the messages being threaded, in the order of the fetch
  at, pos, \* the next message of batch, the next entry of its chain
  parent,  \* parent_of; an ID with no entry and one without parent are both None
  stored,  \* messages with a row
  thread,  \* message -> thread_id of its row
  batches  \* how much of MaxBatches is used

world == <<mail, truth>>
rows  == <<stored, thread, batches>>
vars  == <<world, batch, at, pos, parent, rows>>

(* The IDs a header names, oldest first: References, or else In-Reply-To.   *)
Chain(h) == IF h.refs # <<>> THEN h.refs ELSE IF h.irt # None THEN <<h.irt>> ELSE <<>>

(* Mutant: only an ID that refers to itself is noticed.                     *)
CreatesCycle_SelfOnly(par, child, above) == child = above

CreatesCycle(par, child, above) ==
  \/ child \in Up(par, above)
  \/ \E x \in Up(par, above) : par[x] # None /\ x \in Up(par, par[x])

(* A link is refused when the child has a parent already, or would close a  *)
(* loop.                                                                    *)
Linked(par, child, above) ==
  IF par[child] # None \/ CreatesCycle(par, child, above) THEN par ELSE [par EXCEPT ![child] = above]

(* The climb to the top, with its guard against loops: c is where it is,  *)
(* and what it has seen.                                                    *)
FindRoot(par, id) ==
  LET climb[c \in Ids \X SUBSET Ids] ==
        LET up == par[c[1]]
        IN  IF up = None \/ up \in c[2] THEN c[1] ELSE climb[<<up, c[2] \cup {up}>>]
  IN  climb[<<id, {id}>>]

Batches == UNION {{s \in [1..n -> Msgs] : \A i, j \in 1..n : s[i] = s[j] => i = j} : n \in 1..Cardinality(Msgs)}

Init ==
  /\ \E box \in Mailboxes : mail = box.mail /\ truth = box.truth
  /\ batch = <<>> /\ at = 1 /\ pos = 1 /\ parent = [x \in Ids |-> None]
  /\ stored = {} /\ thread = [m \in Msgs |-> None] /\ batches = 0

(* A sync hands over what it fetched: new messages, and some again that     *)
(* another sync has stored in between.                                      *)
Fetch ==
  /\ batch = <<>> /\ batches < MaxBatches
  /\ batch' \in Batches /\ at' = 1 /\ pos' = 1
  /\ parent' = [x \in Ids |-> None]
  /\ batches' = batches + 1
  /\ UNCHANGED <<world, stored, thread>>

Wiring == at <= Len(batch)
Wired  == batch # <<>> /\ ~Wiring
Cur    == mail[batch[at]]

(* Mutant: every entry is put under the oldest.                             *)
WireAncestor_Oldest ==
  /\ Wiring /\ Cur.id # None /\ pos <= Len(Chain(Cur))
  /\ parent' = IF pos = 1 THEN parent ELSE Linked(parent, Chain(Cur)[pos], Chain(Cur)[1])
  /\ pos' = pos + 1
  /\ UNCHANGED <<world, batch, at, rows>>

(* Each entry of the chain becomes the child of the one before it.          *)
WireAncestor ==
  /\ Wiring /\ Cur.id # None /\ pos <= Len(Chain(Cur))
  /\ parent' = IF pos = 1 THEN parent ELSE Linked(parent, Chain(Cur)[pos], Chain(Cur)[pos - 1])
  /\ pos' = pos + 1
  /\ UNCHANGED <<world, batch, at, rows>>

(* The message itself becomes the child of the last entry.                  *)
WireMessage ==
  /\ Wiring /\ Cur.id # None /\ pos > Len(Chain(Cur))
  /\ parent' = IF Chain(Cur) = <<>> THEN parent ELSE Linked(parent, Cur.id, Chain(Cur)[Len(Chain(Cur))])
  /\ at' = at + 1 /\ pos' = 1
  /\ UNCHANGED <<world, batch, rows>>

Skip ==
  /\ Wiring /\ Cur.id = None
  /\ at' = at + 1 /\ pos' = 1
  /\ UNCHANGED <<world, batch, parent, rows>>

(* Mutant: the thread is named by the message answered, not by the top.     *)
Threaded_Immediate(m) ==
  IF mail[m].id = None THEN None ELSE IF parent[mail[m].id] = None THEN mail[m].id ELSE parent[mail[m].id]

Threaded(m) == IF mail[m].id = None THEN None ELSE FindRoot(parent, mail[m].id)

(* The rows are written; one whose file or row fails is left out, one that  *)
(* exists keeps its thread.                                                 *)
Store ==
  /\ Wired
  /\ \E written \in SUBSET {batch[i] : i \in 1..Len(batch)} :
       /\ stored' = stored \cup written
       /\ thread' = [m \in Msgs |-> IF m \in written \ stored THEN Threaded(m) ELSE thread[m]]
  /\ batch' = <<>>
  /\ UNCHANGED <<world, at, pos, parent, batches>>

Next == Fetch \/ WireAncestor \/ WireMessage \/ Skip \/ Store

Spec == Init /\ [][Next]_vars

-----------------------------------------------------------------------------
(* The chain of a message and the message, as a path from old to new.       *)
Path(m) == IF mail[m].id = None THEN <<>> ELSE Append(Chain(mail[m]), mail[m].id)

(* Headers that tell nothing but the truth, though maybe not all of it.     *)
Honest == \A m \in Msgs : \A i \in 2..Len(Path(m)) : truth[Path(m)[i]] = Path(m)[i - 1]

(* Headers that name the whole way to the start of the conversation.        *)
Full(m) == mail[m].id # None /\ truth[Path(m)[1]] = None

(* What a set of messages tells of the replies, in whatever order it is     *)
(* read.                                                                    *)
Told(S) == [x \in Ids |-> IF \E m \in S : \E i \in 2..Len(Path(m)) : Path(m)[i] = x THEN truth[x] ELSE None]

TypeOK ==
  /\ [mail |-> mail, truth |-> truth] \in Mailboxes
  /\ batch \in Batches \cup {<<>>} /\ at \in Nat \ {0} /\ pos \in Nat \ {0}
  /\ parent \in Parents /\ stored \subseteq Msgs
  /\ DOMAIN thread = Msgs /\ batches \in 0..MaxBatches

(* No ID is ever above itself, whatever nonsense the headers hold (the test *)
(* cycle_in_references_does_not_loop): the climbs of creates_cycle and      *)
(* find_root end at a top, and their guards against loops never fire.       *)
NoLoop == Loopless(parent)

(* "Order independent: same inputs, same outputs" (threading.rs:50). For    *)
(* headers that agree with each other, the links a batch ends with are      *)
(* those its headers tell, however they were ordered.                       *)
OrderIndependent ==
  Wired /\ Honest => parent = Told({batch[i] : i \in 1..Len(batch)})

(* Threads are conversations, over all batches: a message whose headers     *)
(* name the whole way is threaded under the true start of its conversation, *)
(* whenever it came and with whom; any other one under an ancestor, so no   *)
(* two conversations are ever taken for one.                                *)
ThreadsAreConversations ==
  Honest => \A m \in stored : mail[m].id # None =>
    /\ thread[m] \in Up(truth, mail[m].id)
    /\ Full(m) => thread[m] = FindRoot(truth, mail[m].id)

=============================================================================
