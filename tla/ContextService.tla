--------------------------- MODULE ContextService ---------------------------
(***************************************************************************)
(* What the UM programs owe the UM library: a context serves its users,    *)
(* the source that lives in it and the thread inside                       *)
(* lbm_context_process_events(), and it is deleted only after the last of  *)
(* them has left it.  UmContext implements this specification.             *)
(***************************************************************************)
CONSTANT Users

VARIABLES context, users

serviceVars == <<context, users>>

ServiceInit == context = "none" /\ users = {}

Open == context = "none" /\ context' = "open" /\ UNCHANGED users

Enter(u) ==
  /\ context = "open"
  /\ u \notin users
  /\ users' = users \cup {u}
  /\ UNCHANGED context

Leave(u) ==
  /\ u \in users
  /\ users' = users \ {u}
  /\ UNCHANGED context

Delete ==
  /\ context = "open" /\ users = {}
  /\ context' = "deleted"
  /\ UNCHANGED users

ServiceNext == Open \/ Delete \/ \E u \in Users : Enter(u) \/ Leave(u)

ServiceSpec == ServiceInit /\ [][ServiceNext]_serviceVars
=============================================================================
