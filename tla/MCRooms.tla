------------------------------ MODULE MCRooms -------------------------------
(***************************************************************************)
(* Constant values for the run of GroupEvents, Rooms and History: what is  *)
(* said in a group, who is in it, and what is read of a direct chat.  They *)
(* share no state: a behaviour is one of one of the three modules.         *)
(***************************************************************************)
EXTENDS GroupEvents, Rooms, History

VARIABLE part

roomVars == <<part, groupVars, roomsVars, historyVars>>

Mishaps(n, l, c, t, s, e) ==
  [events |-> n, listed |-> l, changes |-> c, cuts |-> t, losses |-> s, errors |-> e]

ChatsInit ==
  /\ GroupInit /\ RoomsInit /\ HistoryInit /\ part \in {"events", "members", "history"}
  /\ part # "events" => odds = Mishaps(2, {}, 0, 0, 0, 0)
ChatsNext ==
  /\ UNCHANGED part
  /\ \/ part = "events" /\ GroupNext /\ UNCHANGED <<roomsVars, historyVars>>
     \/ part = "members" /\ RoomsNext /\ UNCHANGED <<groupVars, historyVars>>
     \/ part = "history" /\ HistoryNext /\ UNCHANGED <<groupVars, roomsVars>>
ChatsSpec == ChatsInit /\ [][ChatsNext]_roomVars /\ GroupFairness

\* Type correctness of the three.
TypesOK == GroupTypeOK /\ RoomsTypeOK /\ HistoryTypeOK

\* Two events with nothing else; or the member is known and is removed, or
\* two envelopes fail, or the link drops once; one event and two drops.
OddsRooms == {Mishaps(2, {}, 0, 0, 0, 0), Mishaps(2, Peer, 1, 0, 0, 0), Mishaps(2, Peer, 0, 0, 1, 1),
              Mishaps(2, Peer, 0, 1, 0, 0), Mishaps(1, Peer, 0, 2, 0, 0)}
=============================================================================
