------------------------------ MODULE Posting ------------------------------
(***************************************************************************)
(* What becomes of a message a peer sends: it is given a time, stored and  *)
(* published, each once and in this order.  It may be given up before it   *)
(* is stored, and never after.  What is stored may be deleted at any time. *)
(***************************************************************************)
CONSTANTS
  Channels,
  Messages   \* ids of messages

VARIABLES
  life,   \* how far each message has come
  table   \* what is stored

States == {"new", "timed", "stored", "published", "lost"}

Init ==
  /\ life = [m \in Messages |-> "new"]
  /\ table = {}

Becomes(m, from, to) ==
  /\ life[m] = from
  /\ life' = [life EXCEPT ![m] = to]

Time(m)   == Becomes(m, "new", "timed") /\ UNCHANGED table
GiveUp(m) == Becomes(m, "timed", "lost") /\ UNCHANGED table

Store(m, ch) ==
  /\ Becomes(m, "timed", "stored")
  /\ table' = table \cup {[ch |-> ch, id |-> m]}

Publish(m) == Becomes(m, "stored", "published") /\ UNCHANGED table

Delete == table' \subseteq table /\ UNCHANGED life

Next ==
  \/ \E m \in Messages :
       \/ Time(m) \/ GiveUp(m) \/ Publish(m)
       \/ \E ch \in Channels : Store(m, ch)
  \/ Delete

Spec == Init /\ [][Next]_<<life, table>>
=============================================================================
