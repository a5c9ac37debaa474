---------------------------- MODULE MCChatServer ----------------------------
(* Small instances of the server for TLC. *)
EXTENDS ChatServer, TLC

MCLists == {NoLists}

Symmetry == Permutations(Clients) \cup Permutations(Messages)

=============================================================================
