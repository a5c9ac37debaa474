---------------------------- MODULE MCChatAccess ----------------------------
(* Small instances of the server with access lists for TLC. *)
EXTENDS ChatAccess

\* Open to all, to the members of the groups, and to all but them; and one
\* that allows the members but not c of them.
MCLists ==
  {NoLists, [allow |-> Groups, deny |-> {}], [allow |-> {}, deny |-> Groups]}
    \cup {[allow |-> Groups, deny |-> {c}] : c \in Clients}
=============================================================================
