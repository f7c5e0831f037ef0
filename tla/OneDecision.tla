---------------------------- MODULE OneDecision ----------------------------
(***************************************************************************)
(* What the approval store and the permission hook promise together: a     *)
(* request is raised once, ends once, in one of four ways, and the provider *)
(* is told a decision only when the request ended with that decision.      *)
(***************************************************************************)
CONSTANT Requests

VARIABLES
    outcome,    \* how each request stands
    told        \* the decision the provider was told, if any

odVars == <<outcome, told>>

Outcomes == {"none", "waiting", "allowed", "denied", "expired", "closed"}
Decisions == {"allowed", "denied"}

ODInit ==
    /\ outcome = [r \in Requests |-> "none"]
    /\ told = [r \in Requests |-> "none"]

(* One commit of the store.  Any number of requests may lapse with it, but  *)
(* at most one is raised, decided or closed.                               *)
Commit ==
    \E focus \in Requests :
        /\ outcome' \in [Requests -> Outcomes]
        /\ \A r \in Requests \ {focus} :
              outcome'[r] # outcome[r] => outcome[r] = "waiting" /\ outcome'[r] = "expired"
        /\ outcome'[focus] # outcome[focus] =>
              \/ outcome[focus] = "none" /\ outcome'[focus] = "waiting"
              \/ outcome[focus] = "waiting" /\ outcome'[focus] # "none"
        /\ UNCHANGED told

(* The provider is told the decision the request ended with, once. *)
Tell ==
    \E r \in Requests :
        /\ told[r] = "none"
        /\ outcome[r] \in Decisions
        /\ told' = [told EXCEPT ![r] = outcome[r]]
        /\ UNCHANGED outcome

ODNext == Commit \/ Tell

ODSpec == ODInit /\ [][ODNext]_odVars
=============================================================================
