----------------------------- MODULE OutboxAbs ------------------------------
(***************************************************************************)
(* What the outbox promises about one message, without the table, the      *)
(* supervisor, the clock or crashes: a message the composer handed over is *)
(* pending until it gets one verdict; while it is pending the relay may    *)
(* see it a bounded number of times; 'sent' is said only of a message the  *)
(* relay took; after the verdict the relay sees it no more.                *)
(***************************************************************************)
EXTENDS Integers

CONSTANTS Msgs, MaxAttempts

VARIABLES
  verdict,   \* "none", "pending", or the final "sent", "failed", "cancelled"
  tries,     \* how often the relay was offered the message
  delivered  \* how often it took it

avars == <<verdict, tries, delivered>>

AInit ==
  /\ verdict   = [m \in Msgs |-> "none"]
  /\ tries     = [m \in Msgs |-> 0]
  /\ delivered = [m \in Msgs |-> 0]

Accept(m) ==
  /\ verdict[m] = "none"
  /\ verdict' = [verdict EXCEPT ![m] = "pending"]
  /\ UNCHANGED <<tries, delivered>>

Offer(m) ==
  /\ verdict[m] = "pending"
  /\ tries[m] < MaxAttempts
  /\ tries' = [tries EXCEPT ![m] = @ + 1]
  /\ \/ delivered' = [delivered EXCEPT ![m] = @ + 1]
     \/ UNCHANGED delivered
  /\ UNCHANGED verdict

Conclude(m, v) ==
  /\ verdict[m] = "pending"
  /\ v = "sent" => delivered[m] > 0
  /\ verdict' = [verdict EXCEPT ![m] = v]
  /\ UNCHANGED <<tries, delivered>>

ANext ==
  \E m \in Msgs :
    \/ Accept(m)
    \/ Offer(m)
    \/ \E v \in {"sent", "failed", "cancelled"} : Conclude(m, v)

ASpec == AInit /\ [][ANext]_avars
=============================================================================
