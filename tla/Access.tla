------------------------------- MODULE Access -------------------------------
(***************************************************************************)
(* Access control of channels (server/handlers.go, canAccessChannel).      *)
(* Users and groups are named alike in a channel's lists.                  *)
(***************************************************************************)

NoLists == [allow |-> {}, deny |-> {}]

\* A deny list shuts out; an allow list, when there is one, lets in.
CanAccess(user, userGroups, lists) ==
  LET principals == {user} \cup userGroups
  IN  /\ lists.deny \cap principals = {}
      /\ lists.allow = {} \/ lists.allow \cap principals # {}

=============================================================================
