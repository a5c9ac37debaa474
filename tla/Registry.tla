------------------------------ MODULE Registry ------------------------------
(***************************************************************************)
(* What the client's map of connections promises: every host has a slot,   *)
(* which is empty or has the connection to it.  A connection is put in an  *)
(* empty slot, taken out of it, and then retired by whoever took it out;   *)
(* it never comes back.  A connection may be contested from the start:     *)
(* then, and only then, another one may take its slot while it is there,   *)
(* and it is never retired.                                                *)
(***************************************************************************)
CONSTANTS
  Hosts,
  Conns,
  None   \* an empty slot

VARIABLES
  slot,       \* the connection to each host
  used,       \* connections that are, or were, in a slot
  contested,  \* connections whose slot another one may take
  out,        \* connections that were taken out, and not yet retired
  retired     \* connections that were told to end

vars == <<slot, used, contested, out, retired>>

Init ==
  /\ slot = [h \in Hosts |-> None]
  /\ used = {}
  /\ contested = {}
  /\ out = {}
  /\ retired = {}

Open(h, c) ==
  /\ slot[h] \in contested \cup {None}
  /\ c \notin used
  /\ slot' = [slot EXCEPT ![h] = c]
  /\ used' = used \cup {c}
  /\ contested' \in {contested, contested \cup {c}}
  /\ UNCHANGED <<out, retired>>

Close(h) ==
  /\ slot[h] # None
  /\ out' = out \cup {slot[h]}
  /\ slot' = [slot EXCEPT ![h] = None]
  /\ UNCHANGED <<used, contested, retired>>

Retire(c) ==
  /\ c \in out \ retired
  /\ out' = out \ {c}
  /\ retired' = retired \cup {c}
  /\ UNCHANGED <<slot, used, contested>>

Next ==
  \/ \E h \in Hosts : Close(h) \/ \E c \in Conns : Open(h, c)
  \/ \E c \in Conns : Retire(c)

Spec == Init /\ [][Next]_vars
=============================================================================
