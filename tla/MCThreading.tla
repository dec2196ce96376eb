---------------------------- MODULE MCThreading ----------------------------
(* Instances of Threading for TLC.                                         *)
EXTENDS Threading

CONSTANTS a, b, c, d, m1, m2, m3

Order == <<a, b, c, d>>

(* Conversations in which an ID answers one earlier in Order, or none: every *)
(* forest of four IDs, up to their names.                                    *)
Forests == {f \in Parents : \A i \in 1..4 : f[Order[i]] \in {None} \cup {Order[j] : j \in 1..(i - 1)}}

WayTo(f, x) ==
  LET way[y \in Ids] == IF f[y] = None THEN <<>> ELSE Append(way[f[y]], f[y]) IN way[x]

Tail2(s) == IF Len(s) > 2 THEN SubSeq(s, Len(s) - 1, Len(s)) ELSE s

(* A client writes all References, the last two, only In-Reply-To, or none.  *)
Written(f, x) ==
  LET way == WayTo(f, x) IN
  {[id |-> x, refs |-> r, irt |-> f[x]] : r \in {way, Tail2(way), <<>>}} \cup {[id |-> x, refs |-> <<>>, irt |-> None]}

(* Three of the four IDs have messages, the fourth is only referred to.      *)
Candid ==
  UNION {UNION {{[mail |-> [m \in Msgs |-> IF m = m1 THEN h1 ELSE IF m = m2 THEN h2 ELSE h3], truth |-> f] :
                 h1 \in Written(f, s[1]), h2 \in Written(f, s[2]), h3 \in Written(f, s[3])} :
          s \in {<<b, c, d>>, <<a, c, d>>}} : f \in Forests}

(* Headers that contradict each other or themselves; one message without ID. *)
Wild ==
  {[mail |-> [m \in Msgs |-> [id |-> IF m = m1 THEN a ELSE IF m = m2 THEN b ELSE last,
                              refs |-> r[m], irt |-> None]],
    truth |-> [x \in Ids |-> None]] :
     r \in [Msgs -> {<<>>, <<a>>, <<b, c>>, <<c, a>>}], last \in {c, None}}

MCMailboxes == Candid \cup Wild
=============================================================================
