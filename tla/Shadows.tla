------------------------------ MODULE Shadows ------------------------------
(***************************************************************************)
(* Mail threads as nodes of the graph: the email_thread rows that every    *)
(* sync and every start mirrors from mail.db (src/src-tauri/src/mail/      *)
(* sync.rs, db.rs), their promotion into the graph, and the loop that      *)
(* embeds the promoted ones (embed.rs).                                    *)
(*                                                                         *)
(* Two databases without a common transaction: messages and rows agree     *)
(* only through upserts, of which several may run at once. A query is      *)
(* atomic; every await is a point where others run.                        *)
(*                                                                         *)
(* Abstracted: subject, sender and date go with the count; one account;    *)
(* touched_at, which nothing reads; the workspace a row is bound to. What  *)
(* the queries of the embedding loop do to notes is in Vault, and so is    *)
(* the panic that ends the loop.                                           *)
(***************************************************************************)
EXTENDS Naturals, FiniteSets, FiniteSetsExt

CONSTANTS
  Threads,     \* in the order of their record ids
  Syncs,       \* what may sync at once: IDLE, poll, commands
  Backfill,    \* the task of setup that mirrors what is there
  Promoters,   \* the window and the agent
  Limit,       \* threads the loop takes at a time; 8 in the code
  MaxMail,     \* bound: messages that arrive
  MaxRemovals, \* bound: messages that are deleted
  MaxPromotions, \* bound: promotions and unpromotions
  MaxCrashes,  \* bound: times the process ends
  Nothing

Tasks == Syncs \cup {Backfill}

(* What the columns of email_thread are here.                              *)
ThreadRows == [count : Nat, promoted : BOOLEAN, embedded : BOOLEAN, behind : BOOLEAN]

ASSUME ShadowsAssumption ==
  /\ Threads \subseteq Nat /\ IsFiniteSet(Threads) /\ Backfill \notin Syncs
  /\ Nothing \notin Threads /\ Nothing \notin ThreadRows
  /\ Limit \in Nat \ {0} /\ {MaxMail, MaxRemovals, MaxPromotions, MaxCrashes} \subseteq Nat

VARIABLES
  inbox,  \* thread -> its messages in mail.db, and whether the latest has a
          \* long body whose byte 1000 is not the first of a character
  row,    \* thread -> its row of email_thread, or Nothing
  job,    \* task -> where its upserts are and what they have read
  asked,  \* promoter -> the thread whose row it has found, or Nothing
  loop,   \* the embedding loop: its stage, and the threads it works on
  bound,  \* what is used up of the bounds
  raced   \* history: threads whose messages changed while a count was on its
          \* way, or that lost one, which no sync reports

shadowVars == <<inbox, row, job, asked, loop, bound, raced>>

Idle  == [at |-> "idle", left |-> {}, counts |-> [t \in Threads |-> 0], thread |-> Nothing, found |-> FALSE]
Sleep == [at |-> "sleep", batch |-> {}]

Rows    == {t \in Threads : row[t] # Nothing}
Mailed  == {t \in Threads : inbox[t].n > 0}
Spend(what, max) == bound[what] < max /\ bound' = [bound EXCEPT ![what] = @ + 1]

(* A count is on its way from its aggregate to its row.                    *)
InHand(t) == \E s \in Tasks : job[s].at \in {"find", "write"} /\ t \in job[s].left

ShadowsInit ==
  /\ inbox \in [Threads -> [n : {0, 1}, ragged : {FALSE}]]
  /\ row = [t \in Threads |-> Nothing]
  /\ job = [s \in Tasks |-> IF s = Backfill THEN [Idle EXCEPT !.at = "collect"] ELSE Idle]
  /\ asked = [p \in Promoters |-> Nothing] /\ loop = Sleep
  /\ bound = [what \in {"mail", "removal", "promotion", "crash"} |-> 0] /\ raced = {}

-----------------------------------------------------------------------------
(* A sync stores messages and then reports the threads it touched.         *)
Arrive(s) ==
  /\ job[s] = Idle /\ Spend("mail", MaxMail)
  /\ \E T \in (SUBSET Threads) \ {{}}, ragged \in BOOLEAN :
       /\ inbox' = [t \in Threads |-> IF t \in T THEN [n |-> inbox[t].n + 1, ragged |-> ragged] ELSE inbox[t]]
       /\ job' = [job EXCEPT ![s] = [Idle EXCEPT !.at = "aggregate", !.left = T]]
       /\ raced' = raced \cup {t \in T : InHand(t)}
  /\ UNCHANGED <<row, asked, loop>>

(* backfill_thread_shadows reads the threads there are, at every start.    *)
Collect ==
  /\ job[Backfill].at = "collect"
  /\ job' = [job EXCEPT ![Backfill] = [Idle EXCEPT !.at = "aggregate", !.left = Mailed]]
  /\ UNCHANGED <<inbox, row, asked, loop, bound, raced>>

(* upsert_thread_shadows: one query for all; threads without messages are  *)
(* passed over.                                                            *)
Upserting(s, left) == job' = [job EXCEPT ![s] =
  IF left = {} THEN Idle ELSE [@ EXCEPT !.at = "find", !.left = left, !.thread = Nothing, !.found = FALSE]]
Aggregate(s) ==
  /\ job[s].at = "aggregate"
  /\ LET left == job[s].left \cap Mailed
     IN job' = [job EXCEPT ![s] =
          IF left = {} THEN Idle
          ELSE [Idle EXCEPT !.at = "find", !.left = left,
                            !.counts = [t \in Threads |-> IF t \in left THEN inbox[t].n ELSE 0]]]
  /\ UNCHANGED <<inbox, row, asked, loop, bound, raced>>

(* upsert_email_thread: SELECT, then UPDATE or CREATE; email_thread_unique *)
(* refuses a second CREATE, which is logged and passed over.               *)
Find(s) ==
  /\ job[s].at = "find"
  /\ LET t == Min(job[s].left)
     IN job' = [job EXCEPT ![s].at = "write", ![s].thread = t, ![s].found = row[t] # Nothing]
  /\ UNCHANGED <<inbox, row, asked, loop, bound, raced>>

(* mutant: an existing row keeps its count *)
Mirrored_Kept(old, count, found) == IF old = Nothing THEN [count |-> count, promoted |-> FALSE, embedded |-> FALSE, behind |-> FALSE] ELSE old

Mirrored(old, count, found) ==
  IF old = Nothing THEN [count |-> count, promoted |-> FALSE, embedded |-> FALSE, behind |-> FALSE]
  ELSE IF found THEN [old EXCEPT !.count = count] ELSE old

Write(s) ==
  /\ job[s].at = "write"
  /\ LET t == job[s].thread
     IN /\ row' = [row EXCEPT ![t] = Mirrored(@, job[s].counts[t], job[s].found)]
        /\ Upserting(s, job[s].left \ {t})
  /\ UNCHANGED <<inbox, asked, loop, bound, raced>>

(* A message is deleted; no upsert follows.                                *)
Remove ==
  /\ Spend("removal", MaxRemovals)
  /\ \E t \in Mailed, ragged \in BOOLEAN :
       /\ inbox' = [inbox EXCEPT ![t] = [n |-> @.n - 1, ragged |-> ragged /\ @.n > 1]]
       /\ raced' = raced \cup {t}
  /\ UNCHANGED <<row, job, asked, loop>>

-----------------------------------------------------------------------------
(* promote_email_thread: SELECT, then UPDATE of a row that was not yet     *)
(* promoted. A thread without a row is an error.                           *)
Promote(p) ==
  /\ asked[p] = Nothing /\ Spend("promotion", MaxPromotions)
  /\ \E t \in Rows : ~row[t].promoted /\ asked' = [asked EXCEPT ![p] = t]
  /\ UNCHANGED <<inbox, row, job, loop, raced>>

Promoted(p) ==
  /\ asked[p] # Nothing /\ asked' = [asked EXCEPT ![p] = Nothing]
  /\ row' = [row EXCEPT ![asked[p]].promoted = TRUE, ![asked[p]].behind = TRUE]
  /\ UNCHANGED <<inbox, job, loop, bound, raced>>

(* unpromote_email_thread keeps the embedding.                             *)
Unpromote ==
  /\ Spend("promotion", MaxPromotions)
  /\ \E t \in Rows : row[t].promoted /\ row' = [row EXCEPT ![t].promoted = FALSE]
  /\ UNCHANGED <<inbox, job, asked, loop, raced>>

-----------------------------------------------------------------------------
(* step_email_threads takes the first threads whose embedding is missing   *)
(* or older than their promotion.                                          *)
Pending  == {t \in Rows : row[t].promoted /\ (~row[t].embedded \/ row[t].behind)}
First(S) == {t \in S : Cardinality({u \in S : u < t}) < Limit}

Pick ==
  /\ loop.at = "sleep" /\ Pending # {}
  /\ loop' = [at |-> "read", batch |-> First(Pending)]
  /\ UNCHANGED <<inbox, row, job, asked, bound, raced>>

(* Threads without messages are passed over; cutting a body in the middle  *)
(* of a character panics, and the whole batch with it.                     *)
Readable(batch) == batch \cap Mailed # {} /\ \A t \in batch : ~inbox[t].ragged

Read ==
  /\ loop.at = "read"
  /\ loop' = IF Readable(loop.batch) THEN [at |-> "model", batch |-> loop.batch \cap Mailed] ELSE Sleep
  /\ UNCHANGED <<inbox, row, job, asked, bound, raced>>

Embed ==
  /\ loop.at = "model" /\ loop' = [loop EXCEPT !.at = "write"]
  /\ UNCHANGED <<inbox, row, job, asked, bound, raced>>

EmbedFails ==
  /\ loop.at = "model" /\ loop' = Sleep
  /\ UNCHANGED <<inbox, row, job, asked, bound, raced>>

(* mutant: the embedding is written, embedded_at is not *)
Embedded_Undated(old) == [old EXCEPT !.embedded = TRUE]

(* The embeddings are written one by one, whatever was promoted or arrived *)
(* since.                                                                  *)
Embedded(old) == [old EXCEPT !.embedded = TRUE, !.behind = FALSE]

StoreEmbedding ==
  /\ loop.at = "write"
  /\ LET t == Min(loop.batch)
     IN /\ row' = [row EXCEPT ![t] = Embedded(@)]
        /\ loop' = IF loop.batch = {t} THEN Sleep ELSE [loop EXCEPT !.batch = @ \ {t}]
  /\ UNCHANGED <<inbox, job, asked, bound, raced>>

(* The process ends anywhere; setup starts another backfill.               *)
Crash ==
  /\ Spend("crash", MaxCrashes)
  /\ job' = [s \in Tasks |-> IF s = Backfill THEN [Idle EXCEPT !.at = "collect"] ELSE Idle]
  /\ asked' = [p \in Promoters |-> Nothing] /\ loop' = Sleep
  /\ UNCHANGED <<inbox, row, raced>>

Mirror(s) == Aggregate(s) \/ Find(s) \/ Write(s)
Looping   == Pick \/ Read \/ Embed \/ EmbedFails \/ StoreEmbedding
ShadowsNext ==
  \/ \E s \in Syncs : Arrive(s)
  \/ Collect \/ \E s \in Tasks : Mirror(s)
  \/ Remove \/ \E p \in Promoters : Promote(p) \/ Promoted(p)
  \/ Unpromote \/ Looping \/ Crash

(* The loop never stops, and the model is there in the end.                *)
Fairness == WF_shadowVars(Pick \/ Read) /\ SF_shadowVars(Embed) /\ WF_shadowVars(StoreEmbedding)
ShadowsSpec == ShadowsInit /\ [][ShadowsNext]_shadowVars /\ Fairness

-----------------------------------------------------------------------------
(* When no upsert is under way, every thread with messages has its row,    *)
(* whatever overlapped and whenever the process ended, and the row has its *)
(* count unless messages changed while an older count was on its way.      *)
Quiet == \A s \in Tasks : job[s] = Idle
ShadowsFollow == Quiet => \A t \in Mailed : t \in Rows /\ (t \in raced \/ row[t].count = inbox[t].n)

(* "eligible for the background embed loop": a promoted thread that has    *)
(* messages does not wait for ever, unless the loop takes nothing but      *)
(* threads without messages, or one it panics at, again and again.         *)
Waiting(t) == t \in Pending /\ t \in Mailed /\ ~inbox[t].ragged
Blocked    == First(Pending) \cap Mailed = {} \/ \E t \in First(Pending) : inbox[t].ragged
NoneStarves == \A t \in Threads : []<>(~Waiting(t) \/ Blocked)
=============================================================================
