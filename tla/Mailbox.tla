------------------------------- MODULE Mailbox -------------------------------
(***************************************************************************)
(* What direct messaging promises, message by message: a message put in    *)
(* the sender's outbox stays there until the server holds it, the server   *)
(* holds it until a device of the recipient has taken it, and nothing ever *)
(* moves back.  DirectDelivery implements this specification.              *)
(***************************************************************************)
CONSTANT Msg

VARIABLE place  \* [Msg -> {"idle", "outbox", "server", "seen"}]

Init == place = [m \in Msg |-> "idle"]

Move(m, from, to) ==
  /\ place[m] = from
  /\ place' = [place EXCEPT ![m] = to]

Submit(m) == Move(m, "idle", "outbox")
Accept(m) == Move(m, "outbox", "server")
Take(m)   == Move(m, "server", "seen")

Next == \E m \in Msg : Submit(m) \/ Accept(m) \/ Take(m)

Spec == Init /\ [][Next]_place

\* Every submitted message is accepted, every accepted message is taken.
FairSpec == Spec /\ \A m \in Msg : WF_place(Accept(m)) /\ WF_place(Take(m))
=============================================================================
