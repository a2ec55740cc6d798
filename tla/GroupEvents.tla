----------------------------- MODULE GroupEvents -----------------------------
(***************************************************************************)
(* Group and channel events of one sending web client: its sender key, its *)
(* queue and the flush loop (socket.ts, socketGroups.ts), the fan-out of   *)
(* the backend (client.go, hub.go) and the handlers of the other members.  *)
(* A step is what runs between two awaits; a client's handlers for several *)
(* envelopes wait side by side.                                            *)
(*                                                                         *)
(* "edit" stands for every event that names a message: edits, deletions    *)
(* and reactions.  Events of a group are sealed under the sender's key,    *)
(* its deletions and the events of a channel are not; the two have the     *)
(* same people here.                                                       *)
(***************************************************************************)
EXTENDS Naturals, Sequences, FiniteSets

CONSTANTS
  Peer,         \* clients other than the sender
  Me,           \* the sender
  MaxEvents,    \* bound: events composed
  MaxKeys,      \* bound: keys made
  Odds          \* bounds: set of [events, listed, changes, cuts, losses, errors]: how many
                \*   events, the members the sender's row lists at first, how often the server's list changes, the
                \*   sender, a member loses the connection, an INSERT of an offline row fails

ASSUME GroupAssumption ==
  /\ Me \notin Peer /\ {MaxEvents, MaxKeys} \subseteq Nat
  /\ Odds \subseteq [events : 0 .. MaxEvents, listed : SUBSET Peer, changes : Nat,
                     cuts : Nat, losses : Nat, errors : Nat]

VARIABLES
  events,   \* Seq([type, sealed, target]) events composed, by id
  queue,    \* SUBSET id: outgoingGroupEvents
  chores,   \* SUBSET chore: sends waiting at an await
  flushing, left,  \* flushingGroupOutbox, and what the running loop has left
  listed,   \* SUBSET Peer: members of the sender's groupThreads row
  own,      \* [people, key]: its own groupSenderKeys row, key 0: none
  keys,     \* Seq([people, to]): keys made, and who was sent them
  linked,   \* the sender is authenticated
  downs,    \* SUBSET id: acknowledgements on their way to the sender
  acked,    \* SUBSET id: events it has one for; its messages' status is then sent
  members,  \* SUBSET (Peer \cup {Me}): the server's member list
  goal, reached,  \* [id -> SUBSET Peer] members at the last accepted fan-out; who got it or has a row
  rows,     \* [Peer -> SUBSET packet] offline_messages
  present,  \* SUBSET Peer: connected
  handling, \* [Peer -> SUBSET packet] on the wire to a member, or its handler at an await
  parked,   \* [Peer -> Seq(packet)] pendingGroupEvents
  held,     \* [Peer -> Nat] the member's groupSenderKeys row for the sender
  applied,  \* [Peer -> SUBSET id] events the member's messages show
  odds      \* how many faults and changes may still come

senderVars == <<events, queue, chores, flushing, left, listed, own, keys, linked, downs, acked>>
serverVars == <<members, goal, reached, rows>>
memberVars == <<present, handling, parked, held, applied>>
groupVars == <<senderVars, serverVars, memberVars, odds>>

Ids == DOMAIN events

-----------------------------------------------------------------------------
GroupInit ==
  /\ events = <<>> /\ queue = {} /\ chores = {}
  /\ flushing = FALSE /\ left = {}
  /\ own = [people |-> {}, key |-> 0] /\ keys = <<>>
  /\ linked = TRUE /\ downs = {} /\ acked = {}
  /\ members = Peer \cup {Me} /\ goal = <<>> /\ reached = <<>>
  /\ rows = [p \in Peer |-> {}] /\ present = Peer
  /\ handling = [p \in Peer |-> {}] /\ parked = [p \in Peer |-> <<>>]
  /\ held = [p \in Peer |-> 0] /\ applied = [p \in Peer |-> {}]
  /\ odds \in Odds /\ listed = odds.listed

Odd(kind) == odds[kind] > 0 /\ odds' = [odds EXCEPT ![kind] = @ - 1]

-----------------------------------------------------------------------------
(* The sender.                                                             *)

Chore(id, queued) ==
  [id |-> id, step |-> IF events'[id].sealed THEN "members" ELSE "post",
   people |-> {}, key |-> 0, queued |-> queued]

\* sendGroupMessage and the other seven: at once when connected, else queued.
Compose(type, sealed, target) ==
  /\ Odd("events")
  /\ type = "edit" <=> target # 0
  /\ target # 0 => events[target].type = "message" /\ (sealed => events[target].sealed)
  /\ LET id == Len(events) + 1 IN
       /\ events' = Append(events, [type |-> type, sealed |-> sealed, target |-> target])
       /\ goal' = Append(goal, {}) /\ reached' = Append(reached, {})
       /\ IF linked THEN chores' = chores \cup {Chore(id, FALSE)} /\ UNCHANGED queue
                    ELSE queue' = queue \cup {id} /\ UNCHANGED chores
  /\ UNCHANGED <<flushing, left, listed, own, keys, linked, downs, acked, members, rows,
                 memberVars>>

\* flushOutgoingGroupEvents, on authentication and every eight seconds.
FlushStarts ==
  /\ ~flushing /\ linked /\ queue # {}
  /\ flushing' = TRUE /\ left' = queue
  /\ UNCHANGED <<events, queue, chores, listed, own, keys, linked, downs, acked, serverVars,
                 memberVars, odds>>

\* Mutant: flushingGroupOutbox stays set.
FlushStaysOn ==
  /\ flushing /\ left # {} /\ \A c \in chores : ~c.queued
  /\ \E id \in left :
       /\ \A j \in left : id <= j
       /\ left' = left \ {id}
       /\ chores' = chores \cup {[id |-> id,
            step |-> IF events[id].sealed THEN "members" ELSE "post",
            people |-> {}, key |-> 0, queued |-> TRUE]}
  /\ UNCHANGED <<flushing, events, queue, listed, own, keys, linked, downs, acked, serverVars,
                 memberVars, odds>>

\* Its next event in the order of createdAt, or its end.
FlushGoesOn ==
  /\ flushing /\ \A c \in chores : ~c.queued
  /\ IF left = {} THEN flushing' = FALSE /\ UNCHANGED <<left, chores>>
     ELSE \E id \in left :
            /\ \A j \in left : id <= j
            /\ left' = left \ {id}
            /\ chores' = chores \cup {[id |-> id,
                 step |-> IF events[id].sealed THEN "members" ELSE "post",
                 people |-> {}, key |-> 0, queued |-> TRUE]}
            /\ UNCHANGED flushing
  /\ UNCHANGED <<events, queue, listed, own, keys, linked, downs, acked, serverVars,
                 memberVars, odds>>

Becomes(c, d) == chores' = (chores \ {c}) \cup {d}

\* ensureGroupSenderKey: the members are read first,
ReadMembers(c) ==
  /\ c.step = "members"
  /\ Becomes(c, [c EXCEPT !.step = "key", !.people = listed])
  /\ UNCHANGED <<events, queue, flushing, left, listed, own, keys, linked, downs, acked,
                 serverVars, memberVars, odds>>

\* Mutant: any key of one's own will do.
Fits(people) == own.key # 0

\* then the row of the own key, which serves while the fingerprint fits,
KeyServes(people) == own.key # 0 /\ own.people = people

ReadKey(c) ==
  /\ c.step = "key"
  /\ IF KeyServes(c.people)
     THEN Becomes(c, [c EXCEPT !.step = "post", !.key = own.key]) /\ UNCHANGED keys
     ELSE /\ Len(keys) < MaxKeys
          /\ keys' = Append(keys, [people |-> c.people, to |-> {}])
          /\ Becomes(c, [c EXCEPT !.step = "save", !.key = Len(keys) + 1])
  /\ UNCHANGED <<events, queue, flushing, left, listed, own, linked, downs, acked,
                 serverVars, memberVars, odds>>

\* or a new one is stored,
SaveKey(c) ==
  /\ c.step = "save"
  /\ own' = [people |-> c.people, key |-> c.key]
  /\ Becomes(c, [c EXCEPT !.step = "share"])
  /\ UNCHANGED <<events, queue, flushing, left, listed, keys, linked, downs, acked,
                 serverVars, memberVars, odds>>

\* One message id, and so one offline row.
Same(packet, other) ==
  packet.id = other.id /\ (packet.id = 0 => packet.key = other.key)

Without(all, packet) == {x \in all : ~Same(x, packet)}

\* deliverToPubKey, or else saveOfflineMessage, which may fail.
Hand(to, packet, lost) ==
  /\ handling' = [p \in Peer |-> handling[p] \cup {x \in {packet} : p \in to \cap present}]
  /\ rows' = [p \in Peer |-> IF p \in (to \ present) \ lost
                             THEN Without(rows[p], packet) \cup {packet} ELSE rows[p]]

Losing(away) ==
  {lost \in SUBSET away : lost = {} \/ (odds.errors > 0 /\ Cardinality(lost) = 1)}

Count(lost) == odds' = [odds EXCEPT !.errors = @ - Cardinality(lost)]

\* The catch of the loop, and its finally.
Throws(c) ==
  IF c.queued THEN flushing' = FALSE /\ left' = {} ELSE UNCHANGED <<flushing, left>>

\* and sent to every member of the list read, one envelope each; sendEnvelope throws when offline.
ShareKey(c) ==
  /\ c.step = "share"
  /\ IF linked
     THEN \E lost \in Losing(c.people \ present) :
            /\ keys' = [keys EXCEPT ![c.key].to = c.people]
            /\ Hand(c.people, [id |-> 0, key |-> c.key], lost) /\ Count(lost)
            /\ Becomes(c, [c EXCEPT !.step = "post"])
            /\ UNCHANGED <<flushing, left>>
     ELSE chores' = chores \ {c} /\ Throws(c) /\ UNCHANGED <<keys, handling, rows, odds>>
  /\ UNCHANGED <<events, queue, listed, own, linked, downs, acked, members, goal, reached,
                 present, parked, held, applied>>

\* Mutant: routeGroupMessage accepts whatever saveOfflineMessage returns.
AcceptsAnyway(lost) == TRUE

Accepts(lost) == lost = {}

\* readPump: members only; routeGroupMessage and routeChannelMessage; the ack.
Route(c, lost) ==
  LET to == members \ {Me} IN
    /\ Hand(to, [id |-> c.id, key |-> c.key], lost) /\ Count(lost)
    /\ reached' = [reached EXCEPT ![c.id] = @ \cup (to \ lost)]
    /\ goal' = IF Accepts(lost) THEN [goal EXCEPT ![c.id] = to] ELSE goal
    /\ downs' = IF Accepts(lost) THEN downs \cup {c.id} ELSE downs

\* ws.send: the frame is routed, or goes down with the connection.
Post(c) ==
  /\ c.step = "post"
  /\ chores' = chores \ {c}
  /\ \/ /\ linked /\ Me \in members
        /\ \E lost \in Losing((members \ {Me}) \ present) : Route(c, lost)
     \/ ~(linked /\ Me \in members) /\ UNCHANGED <<handling, rows, reached, goal, downs, odds>>
  /\ UNCHANGED <<events, queue, flushing, left, listed, own, keys, linked, acked, members,
                 present, parked, held, applied>>

\* handleServerAck.
OnAck(id) ==
  /\ id \in downs
  /\ downs' = downs \ {id}
  /\ acked' = acked \cup {id}
  /\ queue' = queue \ {id}
  /\ UNCHANGED <<events, chores, flushing, left, listed, own, keys, linked, serverVars, memberVars, odds>>

LoseLink ==
  /\ linked /\ Odd("cuts")
  /\ linked' = FALSE /\ downs' = {}
  /\ UNCHANGED <<events, queue, chores, flushing, left, listed, own, keys, acked, serverVars,
                 memberVars>>

Relink ==
  /\ ~linked
  /\ linked' = TRUE
  /\ UNCHANGED <<events, queue, chores, flushing, left, listed, own, keys, downs, acked,
                 serverVars, memberVars, odds>>

\* listGroupMembers, when the chat of the group is opened.
ListMembers ==
  /\ linked /\ Me \in members /\ listed # members \ {Me}
  /\ listed' = members \ {Me}
  /\ UNCHANGED <<events, queue, chores, flushing, left, own, keys, linked, downs, acked,
                 serverVars, memberVars, odds>>

\* Someone adds or removes a member.
ChangeMembers(p) ==
  /\ Odd("changes")
  /\ members' = IF p \in members THEN members \ {p} ELSE members \cup {p}
  /\ UNCHANGED <<senderVars, goal, reached, rows, memberVars>>

-----------------------------------------------------------------------------
(* Another member.                                                         *)

\* Whether an event can be read with key k and changes what done shows.
Takes(packet, k, done) ==
  LET e == events[packet.id] IN
    /\ e.sealed => packet.key = k
    /\ e.type = "message" \/ e.target \in done

Finish(p, packet) == handling' = [handling EXCEPT ![p] = @ \ {packet}]

\* acknowledgeOfflineEnvelope, as far as the socket is there.
Settle(p, packet) ==
  rows' = IF p \in present THEN [rows EXCEPT ![p] = Without(@, packet)] ELSE rows

\* flushPendingGroupEvents: one after the other, each sees what those before it did.
Replayed(q, k, done) ==
  LET after[n \in 0 .. Len(q)] ==
        IF n = 0 THEN done
        ELSE IF Takes(q[n], k, after[n - 1]) THEN after[n - 1] \cup {q[n].id} ELSE after[n - 1]
  IN  after[Len(q)]

\* group_sender_key: the key is stored, and what waited for it is replayed.
OnKey(p, packet) ==
  /\ packet.id = 0
  /\ held' = [held EXCEPT ![p] = packet.key]
  /\ applied' = [applied EXCEPT ![p] = Replayed(parked[p], packet.key, @)]
  /\ parked' = [parked EXCEPT ![p] = <<>>]
  /\ Finish(p, packet) /\ Settle(p, packet)
  /\ UNCHANGED <<senderVars, members, goal, reached, present, odds>>

Keyless(p, packet) == events[packet.id].sealed /\ held[p] = 0

Known(p, packet) == packet.id \in applied[p] /\ events[packet.id].type = "message"

\* A message is added, once; an edit, deletion or reaction changes its target.
Show(p, packet) == applied' = [applied EXCEPT ![p] = @ \cup {packet.id}]

\* The handler of an event that needs no key or finds one.
OnEvent(p, packet) ==
  /\ packet.id # 0 /\ (Known(p, packet) \/ ~Keyless(p, packet))
  /\ IF Known(p, packet) \/ Takes(packet, held[p], applied[p])
     THEN Show(p, packet) /\ Settle(p, packet)
     ELSE UNCHANGED <<applied, rows>>
  /\ Finish(p, packet)
  /\ UNCHANGED <<senderVars, members, goal, reached, present, parked, held, odds>>

\* Mutant: an event is acknowledged when it is parked.
ParksSettled(p, packet) ==
  /\ packet.id # 0 /\ events[packet.id].sealed
  /\ parked' = [parked EXCEPT ![p] = Append(@, packet)]
  /\ Finish(p, packet) /\ Settle(p, packet)
  /\ UNCHANGED <<senderVars, members, goal, reached, present, held, applied, odds>>

\* waitForGroupSenderKey gave up after its last look, 150 ms ago: the event is
\* parked, whatever came since, unless its like is parked already.
Parks(p, packet) ==
  /\ packet.id # 0 /\ events[packet.id].sealed
  /\ parked' = IF \E i \in DOMAIN parked[p] :
                    \/ parked[p][i].id = packet.id
                    \/ /\ events[packet.id].type = "edit" /\ events[parked[p][i].id].type = "edit"
                       /\ events[parked[p][i].id].target = events[packet.id].target
               THEN parked ELSE [parked EXCEPT ![p] = Append(@, packet)]
  /\ Finish(p, packet)
  /\ UNCHANGED <<senderVars, serverVars, present, held, applied, odds>>

\* A lost socket, with what is still on the wire; a reload loses what is in memory too.
Leaves(p, reload) ==
  /\ p \in present /\ Odd("losses")
  /\ present' = present \ {p}
  /\ \E started \in IF reload THEN {{}} ELSE SUBSET handling[p] :
       handling' = [handling EXCEPT ![p] = started]
  /\ parked' = IF reload THEN [parked EXCEPT ![p] = <<>>] ELSE parked
  /\ UNCHANGED <<senderVars, serverVars, held, applied>>

\* The registration goroutine sends the offline rows.
Returns(p) ==
  /\ p \notin present
  /\ present' = present \cup {p}
  /\ handling' = [handling EXCEPT ![p] = @ \cup rows[p]]
  /\ UNCHANGED <<senderVars, serverVars, parked, held, applied, odds>>

-----------------------------------------------------------------------------
SendStep == \E c \in chores : ReadMembers(c) \/ ReadKey(c) \/ SaveKey(c) \/ ShareKey(c) \/ Post(c)

GroupNext ==
  \/ \E type \in {"message", "edit"}, sealed \in BOOLEAN, target \in {0} \cup Ids :
       Compose(type, sealed, target)
  \/ FlushStarts \/ FlushGoesOn \/ SendStep \/ LoseLink \/ Relink \/ ListMembers
  \/ \E id \in Ids : OnAck(id)
  \/ \E p \in Peer \cup {Me} : ChangeMembers(p)
  \/ \E p \in Peer :
       \/ Returns(p) \/ \E reload \in BOOLEAN : Leaves(p, reload)
       \/ \E packet \in handling[p] : OnKey(p, packet) \/ OnEvent(p, packet) \/ Parks(p, packet)

GroupSpec == GroupInit /\ [][GroupNext]_groupVars

-----------------------------------------------------------------------------
GroupTypeOK ==
  /\ queue \cup acked \cup left \subseteq Ids
  /\ \A id \in Ids : goal[id] \cup reached[id] \subseteq Peer
  /\ own.key \in 0 .. Len(keys) /\ listed \subseteq Peer
  /\ \A p \in Peer : held[p] \in 0 .. Len(keys) /\ applied[p] \subseteq Ids
  /\ \A c \in chores : c.id \in Ids /\ c.key \in 0 .. Len(keys)
  /\ flushing \/ (left = {} /\ \A c \in chores : ~c.queued)

\* A key reached only people on the member list that the send using it had
\* read, whatever other sends and changes of the list ran meanwhile: someone
\* taken off the list cannot open what is sealed afterwards.
KeysStayInside ==
  \A c \in chores : c.step \in {"share", "post"} /\ c.key # 0 => keys[c.key].to \subseteq c.people

\* An event the sender takes off its queue was handed to the connection of
\* every member there was, or is in its offline rows, even if an INSERT failed.
AckedReachesAll == \A id \in acked : goal[id] \subseteq reached[id]

\* A member's offline row goes only when its messages show the event.
RowsOutliveSilence ==
  [][\A p \in Peer : \A r \in rows[p] :
       r.id = 0 \/ r.id \in applied'[p] \/ \E s \in rows'[p] : s.id = r.id]_groupVars

GroupFairness ==
  /\ WF_groupVars(SendStep) /\ WF_groupVars(Relink)
  /\ WF_groupVars(FlushStarts) /\ WF_groupVars(FlushGoesOn)
  /\ WF_groupVars(\E id \in Ids : OnAck(id))

\* What was queued is accepted by the server, as long as the sender is a member.
QueuedIsAccepted == \A i \in 1 .. MaxEvents : i \in queue ~> i \notin queue \/ Me \notin members
=============================================================================
