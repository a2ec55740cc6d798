------------------------------- MODULE MCLink -------------------------------
(***************************************************************************)
(* Constant values for the runs of Calls and Sessions.  The two share no   *)
(* state: a behaviour is one of Calls or one of Sessions.                  *)
(***************************************************************************)
EXTENDS Calls, Sessions

CONSTANT Parts    \* which of "calls" and "sessions" to run
VARIABLE part

linkVars == <<part, callVars, sessionVars>>

Budget(t, e, c) == [texts |-> t, edits |-> e, cuts |-> c]

LinkInit ==
  /\ CallsInit /\ SessionsInit /\ part \in Parts
  /\ part # "sessions" => left = Budget(2, 1, 0)
LinkNext ==
  /\ UNCHANGED part
  /\ \/ part = "calls" /\ CallsNext /\ UNCHANGED sessionVars
     \/ part = "sessions" /\ SessionsNext /\ UNCHANGED callVars
LinkSpec == LinkInit /\ [][LinkNext]_linkVars /\ CallsFairness /\ SessionsFairness

\* Type correctness of both.
TypesOK == CallsTypeOK /\ SessionsTypeOK

PlanLink == {Budget(2, 1, 0), Budget(2, 0, 1), Budget(1, 1, 1)}
=============================================================================
