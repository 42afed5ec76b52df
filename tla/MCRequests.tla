----------------------------- MODULE MCRequests -----------------------------
(***************************************************************************)
(* What runs beside the tasks of the worker, from two initial states.  In  *)
(* the first a request may be challenged while commands, rivals and        *)
(* restarts change what the credentials belong to; in the second IP checks *)
(* run while commands and proxy errors do.                                 *)
(***************************************************************************)
EXTENDS MCBackground

RequestCommands == {"connect", "disconnect", "importKey", "saveExclusions"}
BudgetOf ==
  [challenge |-> [NoEvents EXCEPT !["command"] = 1, !["takeover"] = 1, !["kill"] = 1],
   check |-> [NoEvents EXCEPT !["command"] = 1, !["test"] = 1, !["error"] = 2]]

\* in the second state the request of the first is over
RequestInit ==
  /\ LeftBehind /\ NotLoaded
  /\ \/ /\ budget = BudgetOf.challenge
        /\ auth = [r \in Requests |-> NoChallenge("idle")]
     \/ /\ budget = BudgetOf.check
        /\ auth = [r \in Requests |-> NoChallenge("closed")]
RequestSpec == RequestInit /\ [][Next]_vars
=============================================================================
