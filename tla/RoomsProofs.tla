----------------------------- MODULE RoomsProofs ----------------------------
(***************************************************************************)
(* Groups: who is in one, and what is said in it.                          *)
(*                                                                         *)
(* Rooms: for any set of users and any number of requests, a group has the *)
(* one owner its row names, and the row of the client follows the table,   *)
(* until requests cross.                                                   *)
(*                                                                         *)
(* GroupEvents: for any number of members, events, keys and faults, a key  *)
(* stays with the people it was made for, an acknowledged event has been   *)
(* handed to everyone, and an offline row goes only when it is of no use.  *)
(* What a replay of parked events shows is a recursive function: an        *)
(* argument by the least counterexample (ReachesAll) takes the place of    *)
(* induction in the lemmas about it.                                       *)
(*                                                                         *)
(* History: whatever the sizes of pages and of the history, and however    *)
(* many syncs and handlers overlap, no message is passed over by the       *)
(* cursor, and the session is lost for the named reasons only.             *)
(***************************************************************************)
EXTENDS MCRooms, WellFoundedInduction, TLAPS

-----------------------------------------------------------------------------
(* Rooms: the inductive invariant.                                         *)

Ask == [who : Person, op : Ops, to : Person, step : {"check", "target", "act", "reply"},
        mine : Roles, its : Roles]

\* The tables and the requests under way.
TablesFit ==
  /\ rank \in [Person -> Roles] /\ head \in Person \cup {"unborn", "gone"}
  /\ asks \subseteq Ask /\ crossed \in BOOLEAN

\* Self's client.
ClientFits ==
  /\ {shown, view} \subseteq Roles
  /\ {invited, asking, fresh, behind} \subseteq BOOLEAN
  /\ sync \in {"idle", "fetch", "put", "prune", "tidy"}
  /\ asking => sync # "idle"

\* A request about to act has passed the check of the one it names.
TargetsChecked == \A r \in asks : r.step = "act" /\ r.op \in Names \ {"add"} => r.its \in {"member", "admin"}

\* The owner's row of the group and the rows of its members name the same
\* person, and a group that is not there has no members.
RowsName ==
  /\ Exists => \A p \in Person : rank[p] = "owner" <=> p = head
  /\ ~Exists => \A p \in Person : rank[p] = "out"

\* Without a group nobody has a row, even after requests crossed.
NobodyLeft == ~Exists => \A p \in Person : rank[p] = "out"

Ownership == TablesFit /\ TargetsChecked /\ NobodyLeft /\ (crossed \/ RowsName)

-----------------------------------------------------------------------------
\* A request that is replaced keeps its kind.
LEMMA ReplaceFits ==
  ASSUME TablesFit, TargetsChecked, NEW r \in asks, NEW s \in Ask, Replace(r, s),
         s.step = "act" /\ s.op \in Names \ {"add"} => s.its \in {"member", "admin"}
  PROVE  asks' \subseteq Ask /\ TargetsChecked'
  BY DEF TablesFit, TargetsChecked, Replace

\* One that is refused leaves the others.
LEMMA RefuseFits ==
  ASSUME TablesFit, TargetsChecked, NEW r \in asks, Refuse(r)
  PROVE  asks' \subseteq Ask /\ TargetsChecked'
  BY DEF TablesFit, TargetsChecked, Refuse

\* A request begins with its check.
LEMMA BeginFits ==
  ASSUME Ownership, NEW p \in Person, NEW op \in Ops, NEW q \in Person, Begin(p, op, q)
  PROVE  Ownership'
<1> DEFINE r == [who |-> p, op |-> op, to |-> q, step |-> "check", mine |-> "out", its |-> "out"]
<1>1. r \in Ask /\ r.step # "act"
  BY DEF Ask, Roles
<1>2. asks' = asks \cup {r}
  BY DEF Begin
<1> HIDE DEF r
<1>3. asks' \subseteq Ask /\ TargetsChecked'
  BY <1>1, <1>2 DEF Ownership, TablesFit, TargetsChecked
<1> QED BY <1>3 DEF Ownership, TablesFit, NobodyLeft, RowsName, Exists, Begin, tableVars

\* What a statement does to the two tables keeps them in step, unless the
\* request has crossed another.
LEMMA ChangeKeeps ==
  ASSUME Ownership, NEW r \in asks, r.step = "act", r.op = "create" => head = "unborn", Change(r)
  PROVE  /\ rank' \in [Person -> Roles] /\ head' \in Person \cup {"unborn", "gone"}
         /\ NobodyLeft' /\ (crossed \/ Crosses(r) \/ RowsName')
<1>0. /\ rank \in [Person -> Roles] /\ head \in Person \cup {"unborn", "gone"} /\ r \in Ask
      /\ r.who \in Person /\ r.to \in Person /\ r.op \in Ops /\ r.its \in Roles /\ r.mine \in Roles
      /\ \A p \in Person : rank[p] \in Roles
      /\ {"unborn", "gone"} \cap Person = {}
  BY RoomsAssumption DEF Ownership, TablesFit, Ask
<1>1. CASE r.op = "create"
  <2>1. head = "unborn" /\ head' = r.who
    BY <1>1 DEF Change
  <2>2. PICK some \in SUBSET (Person \ {r.who}) :
          rank' = [x \in Person |-> IF x = r.who THEN "owner" ELSE IF x \in some THEN "member" ELSE "out"]
    BY <1>1 DEF Change
  <2>3. rank' \in [Person -> Roles] /\ \A p \in Person : rank'[p] = "owner" <=> p = r.who
    BY <2>2, <1>0 DEF Roles
  <2> QED BY <1>0, <2>1, <2>3 DEF RowsName, NobodyLeft, Exists
<1>2. CASE r.op \in {"add", "join"}
  <2>1. head' = head /\ rank' = IF Exists /\ rank[r.to] = "out" THEN [rank EXCEPT ![r.to] = "member"] ELSE rank
    BY <1>2 DEF Change
  <2> QED BY <1>0, <2>1 DEF Ownership, RowsName, NobodyLeft, Exists, Roles
<1>3. CASE r.op \in {"promote", "demote"}
  <2>1. head' = head /\ rank' = IF rank[r.to] = "out" THEN rank
                    ELSE [rank EXCEPT ![r.to] = IF r.op = "promote" THEN "admin" ELSE "member"]
    BY <1>3 DEF Change
  <2>2. rank[r.to] = "owner" => Crosses(r)
    BY <1>3, <1>0 DEF Crosses, Names, Ownership, TargetsChecked
  <2> QED BY <1>0, <2>1, <2>2 DEF Ownership, RowsName, NobodyLeft, Exists, Roles
<1>4. CASE r.op = "remove"
  <2>1. head' = head /\ rank' = [rank EXCEPT ![r.to] = "out"]
    BY <1>4 DEF Change
  <2>2. rank[r.to] = "owner" => Crosses(r)
    BY <1>4, <1>0 DEF Crosses, Names, Ownership, TargetsChecked
  <2> QED BY <1>0, <2>1, <2>2 DEF Ownership, RowsName, NobodyLeft, Exists, Roles
<1>5. CASE r.op = "transfer"
  <2>1. Transferred(r.who, r.to)
    BY <1>5 DEF Change
  <2>2. Crosses(r) \/ (rank[r.who] = "owner" /\ rank[r.to] \notin {"out", "owner"})
    BY <1>5, <1>0 DEF Crosses, Names, Ownership, TargetsChecked
  <2> QED BY <1>0, <2>1, <2>2 DEF Transferred, Ownership, RowsName, NobodyLeft, Exists, Roles
<1>6. CASE r.op = "leave"
  <2>1. Left(r)
    BY <1>6 DEF Change
  <2>2. r.mine = "owner" \/ Crosses(r) \/ rank[r.who] # "owner"
    BY <1>6 DEF Crosses
  <2>3. CASE r.mine = "owner"
    BY <1>0, <2>1, <2>3 DEF Left, Ownership, RowsName, NobodyLeft, Exists, Roles
  <2>4. CASE r.mine # "owner"
    BY <1>0, <2>1, <2>2, <2>4 DEF Left, Ownership, RowsName, NobodyLeft, Exists, Roles
  <2> QED BY <2>3, <2>4
<1> QED BY <1>0, <1>1, <1>2, <1>3, <1>4, <1>5, <1>6 DEF Ops

\* Every step keeps the tables in step.
LEMMA OwnershipStep == ASSUME Ownership, [RoomsNext]_roomsVars PROVE Ownership'
<1> USE DEF tableVars
<1>1. ASSUME NEW p \in Person, Create(p) PROVE Ownership'
  BY <1>1, BeginFits DEF Create, Ops
<1>2. ASSUME NEW p \in Person, JoinByLink(p) PROVE Ownership'
  BY <1>2, BeginFits DEF JoinByLink, Ops
<1>3. ASSUME NEW p \in Person, NEW op \in Ops, NEW q \in Person, Manage(p, op, q) PROVE Ownership'
  BY <1>3, BeginFits DEF Manage
<1>4. ASSUME NEW r \in asks, CheckRole(r) PROVE Ownership'
  <2> DEFINE mine == rank[r.who]
             s == [r EXCEPT !.mine = mine, !.step = IF r.op \in Names \ {"add"} THEN "target" ELSE "act"]
  <2>1. r \in Ask /\ mine \in Roles
    BY DEF Ownership, TablesFit, Ask
  <2>2. s \in Ask /\ s.op = r.op /\ (s.step = "act" => r.op \notin Names \ {"add"})
    BY <2>1 DEF Ask
  <2>3. Replace(r, s) \/ Refuse(r)
    BY <1>4 DEF CheckRole
  <2>4. asks' \subseteq Ask /\ TargetsChecked'
    BY <2>2, <2>3, ReplaceFits, RefuseFits DEF Ownership
  <2> QED BY <1>4, <2>4 DEF CheckRole, Ownership, TablesFit, NobodyLeft, RowsName, Exists
<1>5. ASSUME NEW r \in asks, CheckTarget(r) PROVE Ownership'
  <2> DEFINE its == rank[r.to]
             s == [r EXCEPT !.its = its, !.step = "act"]
  <2>1. r \in Ask /\ its \in Roles
    BY DEF Ownership, TablesFit, Ask
  <2>2. s \in Ask /\ s.its = its
    BY <2>1 DEF Ask
  <2>3. (MayTouch(r, its) /\ Replace(r, s)) \/ Refuse(r)
    BY <1>5 DEF CheckTarget
  <2>4. asks' \subseteq Ask /\ TargetsChecked'
    BY <2>2, <2>3, ReplaceFits, RefuseFits DEF Ownership, MayTouch
  <2> QED BY <1>5, <2>4 DEF CheckTarget, Ownership, TablesFit, NobodyLeft, RowsName, Exists
<1>6. ASSUME NEW r \in asks, Act(r) PROVE Ownership'
  <2> DEFINE s == [r EXCEPT !.step = "reply"]
  <2>1. /\ rank' \in [Person -> Roles] /\ head' \in Person \cup {"unborn", "gone"}
        /\ NobodyLeft' /\ (crossed \/ Crosses(r) \/ RowsName')
    BY <1>6, ChangeKeeps DEF Act
  <2>2. r \in Ask /\ s \in Ask /\ s.step = "reply"
    BY DEF Ownership, TablesFit, Ask
  <2>3. Replace(r, s) \/ Refuse(r)
    BY <1>6 DEF Act
  <2>4. asks' \subseteq Ask /\ TargetsChecked'
    BY <2>2, <2>3, ReplaceFits, RefuseFits DEF Ownership
  <2>5. crossed' = (crossed \/ Crosses(r))
    BY <1>6 DEF Act
  <2>6. crossed' \in BOOLEAN
    BY <2>5
  <2> QED BY <2>1, <2>4, <2>5, <2>6 DEF Ownership, TablesFit
<1>7. ASSUME NEW r \in asks, Replied(r) \/ ReplyLost(r) PROVE Ownership'
  <2>1. asks' \subseteq Ask /\ TargetsChecked'
    BY <1>7, RefuseFits DEF Ownership, Replied, ReplyLost
  <2>2. UNCHANGED <<rank, head, crossed>>
    BY <1>7 DEF Replied, ReplyLost
  <2> QED BY <2>1, <2>2 DEF Ownership, TablesFit, NobodyLeft, RowsName, Exists
<1>8. ASSUME UNCHANGED <<rank, head, crossed, asks>> PROVE Ownership'
  BY <1>8 DEF Ownership, TablesFit, TargetsChecked, NobodyLeft, RowsName, Exists
<1>9. ASSUME Refresh \/ Expire \/ SyncStep \/ OnInvite \/ OpenInvited \/ Dismiss \/ UNCHANGED roomsVars
      PROVE  UNCHANGED <<rank, head, crossed, asks>>
  BY <1>9 DEF Refresh, Expire, SyncStep, SyncFetches, SyncPuts, SyncPrunes, SyncEnds, SyncFails,
              OnInvite, OpenInvited, Dismiss, roomsVars
<1> QED BY <1>1, <1>2, <1>3, <1>4, <1>5, <1>6, <1>7, <1>8, <1>9 DEF RoomsNext

\* At first there is no group.
LEMMA OwnershipInit == ASSUME RoomsInit PROVE Ownership
  BY RoomsAssumption DEF RoomsInit, Ownership, TablesFit, TargetsChecked, NobodyLeft, RowsName,
                         Exists, Roles

\* However the requests of however many people interleave, a group has one
\* owner and it is the one its row names, unless a transfer, or the leaving
\* of its target, came between a check and its statement (main.go, db.go).
THEOREM OneOwnerOnly == RoomsSpec => []OneOwner
<1>1. Ownership => OneOwner
  BY DEF Ownership, RowsName, OneOwner, Exists
<1> QED BY OwnershipInit, OwnershipStep, <1>1, PTL DEF RoomsSpec

-----------------------------------------------------------------------------
\* The client's variables keep their types; joining a synchronisation leaves
\* one under way.
LEMMA ClientStep ==
  ASSUME Ownership, Ownership', ClientFits, [RoomsNext]_roomsVars
  PROVE  ClientFits'
<1>0. /\ {shown, view} \subseteq Roles /\ {invited, asking, fresh, behind} \subseteq BOOLEAN
      /\ sync \in {"idle", "fetch", "put", "prune", "tidy"} /\ (asking => sync # "idle")
      /\ Self \in Person /\ rank[Self] \in Roles
  BY RoomsAssumption DEF ClientFits, Ownership, TablesFit
<1>1. ASSUME UNCHANGED clientVars, behind' \in BOOLEAN PROVE ClientFits'
  BY <1>0, <1>1 DEF ClientFits, clientVars
<1>2. ASSUME NEW p \in Person, Create(p) \/ JoinByLink(p) \/ \E op \in Ops, q \in Person : Manage(p, op, q)
      PROVE ClientFits'
  BY <1>0, <1>1, <1>2 DEF Create, JoinByLink, Manage, Begin
<1>3. ASSUME NEW r \in asks, CheckRole(r) \/ CheckTarget(r) \/ ReplyLost(r) PROVE ClientFits'
  BY <1>0, <1>1, <1>3 DEF CheckRole, CheckTarget, ReplyLost
<1>4. ASSUME NEW r \in asks, Act(r) PROVE ClientFits'
  BY <1>0, <1>4 DEF Act, ClientFits
<1>5. ASSUME NEW r \in asks, Replied(r) PROVE ClientFits'
  BY <1>0, <1>5 DEF Replied, JoinSync, ClientFits, Roles
<1>6. ASSUME Refresh \/ Expire \/ OnInvite \/ OpenInvited \/ Dismiss PROVE ClientFits'
  <2>1. ASSUME JoinSync
        PROVE  sync' \in {"idle", "fetch", "put", "prune", "tidy"} /\ sync' # "idle"
    BY <1>0, <2>1 DEF JoinSync
  <2>2. CASE Refresh
    BY <1>0, <2>1, <2>2 DEF Refresh, ClientFits
  <2>3. CASE Expire
    BY <1>0, <2>3 DEF Expire, ClientFits
  <2>4. CASE OnInvite
    BY <1>0, <2>1, <2>4 DEF OnInvite, ClientFits
  <2>5. CASE OpenInvited
    BY <1>0, <2>1, <2>5 DEF OpenInvited, ClientFits
  <2>6. CASE Dismiss
    BY <1>0, <2>6 DEF Dismiss, ClientFits
  <2> QED BY <1>6, <2>2, <2>3, <2>4, <2>5, <2>6
<1>7. ASSUME SyncStep PROVE ClientFits'
  BY <1>0, <1>7 DEF SyncStep, SyncFetches, SyncPuts, SyncPrunes, SyncEnds, SyncFails, ClientFits, Roles
<1>8. CASE UNCHANGED roomsVars
  BY <1>0, <1>8 DEF roomsVars, ClientFits
<1> QED BY <1>2, <1>3, <1>4, <1>5, <1>6, <1>7, <1>8 DEF RoomsNext

\* The variables of Rooms have their types, and a handler that waits for a
\* synchronisation always has one to wait for (community.ts).
THEOREM RoomsTypeCorrect == RoomsSpec => []RoomsTypeOK
<1>1. RoomsInit => ClientFits
  BY DEF RoomsInit, ClientFits, Roles
<1>2. Ownership /\ ClientFits => RoomsTypeOK
  BY DEF Ownership, TablesFit, NobodyLeft, ClientFits, RoomsTypeOK, Ask
<1>3. Ownership /\ ClientFits /\ [RoomsNext]_roomsVars => (Ownership /\ ClientFits)'
  BY OwnershipStep, ClientStep
<1> QED BY OwnershipInit, <1>1, <1>2, <1>3, PTL DEF RoomsSpec

-----------------------------------------------------------------------------
(* The client's row.                                                       *)

\* An answer to one of Self's requests is on its way.
Owed == \E r \in asks : r.who = Self /\ r.step = "reply"

\* While nothing went unnoticed, a synchronisation that has its list has a
\* list that is still right, and takes the row to it step by step; when none
\* runs and no answer is owed the row is right, and the invitation was tidied.
RowInv ==
  ~behind =>
    /\ sync \in {"put", "prune", "tidy"} => view = rank[Self]
    /\ sync = "prune" /\ view # "out" => shown = view
    /\ sync = "tidy" => shown = view
    /\ sync = "idle" /\ shown # "out" => ~invited
    /\ sync = "idle" /\ ~Owed => shown = rank[Self]

\* A request that has not acted is answered or not without Self being owed more or less.
LEMMA OwedKeeps ==
  ASSUME NEW r \in asks, r.step # "reply",
         Refuse(r) \/ \E s : Replace(r, s) /\ s.step # "reply"
  PROVE  Owed' <=> Owed
BY DEF Owed, Refuse, Replace

\* The statement of a request: a change by another, or one the running
\* synchronisation has missed, is behind; one of Self's own is owed an answer.
LEMMA RowAct == ASSUME Ownership, RowInv, NEW r \in asks, Act(r) PROVE RowInv'
<1>1. /\ behind' = (behind \/ (rank'[Self] # rank[Self] /\ (r.who # Self \/ sync \notin {"idle", "fetch"})))
      /\ UNCHANGED <<shown, invited, sync, view>> /\ r.step = "act"
  BY DEF Act
<1>2. SUFFICES ASSUME ~behind' PROVE RowInv'
  BY DEF RowInv
<1>3. CASE r.who = Self
  <2> DEFINE s == [r EXCEPT !.step = "reply"]
  <2>1. s \in asks' /\ s.who = Self /\ s.step = "reply"
    BY <1>3 DEF Act, Replace, Ownership, TablesFit, Ask
  <2>2. Owed'
    BY <2>1 DEF Owed
  <2>3. QED
    BY <1>1, <1>2, <1>3, <2>2 DEF RowInv
<1>4. CASE r.who # Self
  <2>1. rank'[Self] = rank[Self] /\ ~behind
    BY <1>1, <1>2, <1>4
  <2>2. Owed' <=> Owed
    BY <1>1, <1>4, OwedKeeps DEF Act
  <2>3. QED
    BY <1>1, <2>1, <2>2 DEF RowInv
<1>5. QED
  BY <1>3, <1>4

\* An answer: leaving takes the row away, everything else synchronises.
LEMMA RowReplied == ASSUME Ownership, RowInv, NEW r \in asks, Replied(r) PROVE RowInv'
<1>1. /\ UNCHANGED <<rank, view, invited>>
      /\ behind' = (behind \/ (r.op = "leave" /\ rank[Self] # "out"))
  BY DEF Replied, tableVars
<1>2. CASE r.op = "leave"
  <2>1. shown' = "out" /\ sync' = sync
    BY <1>2 DEF Replied
  <2>2. QED
    BY <1>1, <1>2, <2>1 DEF RowInv
<1>3. CASE r.op # "leave"
  <2>1. shown' = shown /\ sync' = (IF sync = "idle" THEN "fetch" ELSE sync)
    BY <1>3 DEF Replied, JoinSync
  <2>2. QED
    BY <1>1, <1>3, <2>1 DEF RowInv
<1>4. QED
  BY <1>2, <1>3

LEMMA RowStep == ASSUME Ownership, RowInv, [RoomsNext]_roomsVars PROVE RowInv'
<1>1. ASSUME UNCHANGED <<rank, shown, invited, sync, view>>, behind' = behind \/ behind' = TRUE,
             Owed' <=> Owed
      PROVE  RowInv'
  BY <1>1 DEF RowInv
<1>2. ASSUME NEW p \in Person, Create(p) \/ JoinByLink(p) \/ \E op \in Ops, q \in Person : Manage(p, op, q)
      PROVE  RowInv'
  <2>1. PICK op, q : Begin(p, op, q)
    BY <1>2 DEF Create, JoinByLink, Manage
  <2>2. UNCHANGED <<rank, shown, invited, sync, view, behind>> /\ (Owed' <=> Owed)
    BY <2>1 DEF Begin, tableVars, clientVars, Owed
  <2>3. QED
    BY <1>1, <2>2
<1>3. ASSUME NEW r \in asks, CheckRole(r) \/ CheckTarget(r) PROVE RowInv'
  <2>1. UNCHANGED <<rank, shown, invited, sync, view, behind>> /\ r.step \in {"check", "target"}
    BY <1>3 DEF CheckRole, CheckTarget, tableVars, clientVars
  <2>2. \A x : [r EXCEPT !.its = x, !.step = "act"].step = "act"
    BY DEF Ownership, TablesFit, Ask
  <2>3. Refuse(r) \/ \E s : Replace(r, s) /\ s.step # "reply"
    <3>1. CASE CheckRole(r)
      <4> DEFINE next == IF r.op \in Names \ {"add"} THEN "target" ELSE "act"
      <4>1. Refuse(r) \/ Replace(r, [r EXCEPT !.mine = rank[r.who], !.step = next])
        BY <3>1 DEF CheckRole
      <4>2. next # "reply"
        OBVIOUS
      <4>3. [r EXCEPT !.mine = rank[r.who], !.step = next].step # "reply"
        BY <4>2 DEF Ownership, TablesFit, Ask
      <4> DEFINE s == [r EXCEPT !.mine = rank[r.who], !.step = next]
      <4> HIDE DEF s
      <4>4. QED
        BY <4>1, <4>3 DEF s
    <3>2. CASE CheckTarget(r)
      <4>1. Refuse(r) \/ Replace(r, [r EXCEPT !.its = rank[r.to], !.step = "act"])
        BY <3>2 DEF CheckTarget
      <4>2. QED
        BY <2>2, <4>1
    <3>3. QED
      BY <1>3, <3>1, <3>2
  <2>4. QED
    BY <1>1, <2>1, <2>3, OwedKeeps
<1>4. ASSUME NEW r \in asks, Act(r) \/ Replied(r) PROVE RowInv'
  BY <1>4, RowAct, RowReplied
<1>5. ASSUME NEW r \in asks, ReplyLost(r) PROVE RowInv'
  BY <1>5 DEF ReplyLost, RowInv
<1>6. ASSUME asks' = asks PROVE Owed' <=> Owed
  BY <1>6 DEF Owed
<1>7. CASE Refresh \/ Expire \/ OnInvite \/ OpenInvited \/ Dismiss
  BY <1>6, <1>7 DEF Refresh, Expire, OnInvite, OpenInvited, Dismiss, JoinSync, tableVars, RowInv
<1>8. CASE SyncStep
  BY <1>6, <1>8 DEF SyncStep, SyncFetches, SyncPuts, SyncPrunes, SyncEnds, SyncFails, tableVars, RowInv
<1>9. CASE UNCHANGED roomsVars
  BY <1>1, <1>6, <1>9 DEF roomsVars
<1>10. QED
  BY <1>2, <1>3, <1>4, <1>5, <1>7, <1>8, <1>9 DEF RoomsNext

\* The row the client shows is the one the backend has whenever nothing is
\* under way and nothing was missed, whatever answers, invitations and
\* synchronisations ran side by side (community.ts, Chat.tsx, Sidebar.tsx).
THEOREM RowIsRight == RoomsSpec => []RowFollowsTable
<1>1. RoomsInit => RowInv
  BY RoomsAssumption DEF RoomsInit, RowInv
<1>2. RowInv => RowFollowsTable
  BY DEF RowInv, RowFollowsTable, Owed
<1>3. Ownership /\ RowInv /\ [RoomsNext]_roomsVars => (Ownership /\ RowInv)'
  BY OwnershipStep, RowStep
<1>4. QED
  BY OwnershipInit, <1>1, <1>2, <1>3, PTL DEF RoomsSpec

-----------------------------------------------------------------------------
(* GroupEvents: the inductive invariant.                                   *)

Chores == [id : Ids, step : {"members", "key", "save", "share", "post"}, people : SUBSET Peer,
           key : 0 .. Len(keys), queued : BOOLEAN]

Key == [people : SUBSET Peer, to : SUBSET Peer]

\* The sender's events, its queue and its sends at an await.
SenderFits ==
  /\ Ids = 1 .. Len(events) /\ Len(events) \in Nat
  /\ keys \in Seq(Key)
  /\ own \in [people : SUBSET Peer, key : 0 .. Len(keys)]
  /\ chores \subseteq Chores
  /\ queue \subseteq Ids /\ left \subseteq Ids /\ listed \subseteq Peer

\* A key has gone only to people it was made for, and whoever works with a
\* key works with the people it was made for.
MadeFor(k, people) == k # 0 => keys[k].people = people

KeysFit ==
  /\ \A k \in DOMAIN keys : keys[k].to \subseteq keys[k].people
  /\ MadeFor(own.key, own.people)
  /\ \A c \in chores : IF c.step \in {"members", "key"} THEN c.key = 0 ELSE MadeFor(c.key, c.people)

\* The server's side: what has been accepted has been handed over.
ServerFits ==
  /\ members \subseteq Peer \cup {Me}
  /\ goal \in Seq(SUBSET Peer) /\ reached \in Seq(SUBSET Peer)
  /\ Len(goal) = Len(events) /\ Len(reached) = Len(events)
  /\ \A id \in Ids : goal[id] \subseteq reached[id]
  /\ downs \subseteq Ids /\ acked \subseteq Ids

\* Every member has its rows and its messages.
MembersFit == rows = [p \in Peer |-> rows[p]] /\ applied = [p \in Peer |-> applied[p]]

Delivery == SenderFits /\ KeysFit /\ ServerFits

-----------------------------------------------------------------------------
\* A send moves on with the key it has.
LEMMA ChoreMoves ==
  ASSUME Delivery, NEW c \in chores, NEW d \in Chores, Becomes(c, d), UNCHANGED <<events, keys>>,
         IF d.step \in {"members", "key"} THEN d.key = 0 ELSE MadeFor(d.key, d.people)
  PROVE  chores' \subseteq Chores' /\
         \A e \in chores' : IF e.step \in {"members", "key"} THEN e.key = 0 ELSE MadeFor(e.key, e.people)'
  BY DEF Delivery, SenderFits, KeysFit, Becomes, Chores, MadeFor, Ids

\* A new send joins the others.
LEMMA ChoreJoins ==
  ASSUME Delivery, NEW d \in Chores', chores' = chores \cup {d}, Ids \subseteq Ids', UNCHANGED keys,
         d.step \in {"members", "post"}, d.key = 0
  PROVE  chores' \subseteq Chores' /\
         \A e \in chores' : IF e.step \in {"members", "key"} THEN e.key = 0 ELSE MadeFor(e.key, e.people)'
<1>1. chores \subseteq Chores'
  BY DEF Delivery, SenderFits, Chores
<1>2. \A e \in chores : IF e.step \in {"members", "key"} THEN e.key = 0 ELSE MadeFor(e.key, e.people)'
  BY DEF Delivery, KeysFit, MadeFor
<1> QED BY <1>1, <1>2 DEF MadeFor

\* Composing adds an event that no list knows yet.
LEMMA ComposeKeeps ==
  ASSUME Delivery, NEW type \in {"message", "edit"}, NEW sealed \in BOOLEAN, NEW target,
         Compose(type, sealed, target)
  PROVE  Delivery'
<1> DEFINE id == Len(events) + 1
           e == [type |-> type, sealed |-> sealed, target |-> target]
<1>1. /\ events' = Append(events, e) /\ goal' = Append(goal, {}) /\ reached' = Append(reached, {})
      /\ UNCHANGED <<left, listed, own, keys, downs, acked, members>>
      /\ \/ chores' = chores \cup {Chore(id, FALSE)} /\ UNCHANGED queue
         \/ queue' = queue \cup {id} /\ UNCHANGED chores
  BY DEF Compose
<1>2. /\ Ids' = 1 .. Len(events') /\ Len(events') = Len(events) + 1 /\ Len(events') \in Nat
      /\ Ids \subseteq Ids' /\ id \in Ids'
  BY <1>1 DEF Delivery, SenderFits, Ids
<1>3. /\ goal' \in Seq(SUBSET Peer) /\ reached' \in Seq(SUBSET Peer)
      /\ Len(goal') = Len(events') /\ Len(reached') = Len(events')
      /\ \A i \in Ids' : goal'[i] \subseteq reached'[i]
  BY <1>1, <1>2 DEF Delivery, SenderFits, ServerFits
<1>4. ServerFits'
  BY <1>1, <1>2, <1>3 DEF Delivery, ServerFits
<1>5. Chore(id, FALSE) \in Chores' /\ Chore(id, FALSE).step \in {"members", "post"} /\ Chore(id, FALSE).key = 0
  BY <1>1, <1>2 DEF Chore, Chores, Delivery, SenderFits
<1>6. chores' \subseteq Chores' /\
      \A c \in chores' : IF c.step \in {"members", "key"} THEN c.key = 0 ELSE MadeFor(c.key, c.people)'
  <2>1. CASE chores' = chores \cup {Chore(id, FALSE)}
    BY <1>1, <1>2, <1>5, <2>1, ChoreJoins
  <2>2. CASE UNCHANGED chores
    BY <1>1, <1>2, <2>2 DEF Delivery, SenderFits, KeysFit, Chores, MadeFor
  <2> QED BY <1>1, <2>1, <2>2
<1>7. SenderFits'
  BY <1>1, <1>2, <1>6 DEF Delivery, SenderFits
<1>8. KeysFit'
  BY <1>1, <1>6 DEF Delivery, KeysFit, MadeFor
<1> QED BY <1>4, <1>7, <1>8 DEF Delivery

\* The flush loop takes up one event after the other.
LEMMA FlushKeeps == ASSUME Delivery, FlushStarts \/ FlushGoesOn PROVE Delivery'
<1>1. UNCHANGED <<events, queue, listed, own, keys, downs, acked, members, goal, reached>>
  BY DEF FlushStarts, FlushGoesOn, serverVars
<1>2. ServerFits' /\ Ids' = Ids
  BY <1>1 DEF Delivery, ServerFits, Ids
<1>3. ASSUME FlushStarts PROVE Delivery'
  BY <1>1, <1>2, <1>3 DEF FlushStarts, Delivery, SenderFits, KeysFit, Chores, MadeFor
<1>4. ASSUME FlushGoesOn, left = {} PROVE Delivery'
  BY <1>1, <1>2, <1>4 DEF FlushGoesOn, Delivery, SenderFits, KeysFit, Chores, MadeFor
<1>5. ASSUME FlushGoesOn, left # {} PROVE Delivery'
  <2>1. PICK id \in left :
          /\ left' = left \ {id}
          /\ chores' = chores \cup {[id |-> id, step |-> IF events[id].sealed THEN "members" ELSE "post",
                                     people |-> {}, key |-> 0, queued |-> TRUE]}
    BY <1>5 DEF FlushGoesOn
  <2> DEFINE c == [id |-> id, step |-> IF events[id].sealed THEN "members" ELSE "post",
                   people |-> {}, key |-> 0, queued |-> TRUE]
  <2>2. chores' = chores \cup {c} /\ left' = left \ {id}
    BY <2>1
  <2>3. c \in Chores' /\ c.step \in {"members", "post"} /\ c.key = 0
    BY <1>1, <1>2, <2>1 DEF Delivery, SenderFits, Chores
  <2> HIDE DEF c
  <2>4. chores' \subseteq Chores' /\
        \A e \in chores' : IF e.step \in {"members", "key"} THEN e.key = 0 ELSE MadeFor(e.key, e.people)'
    BY <1>1, <1>2, <2>2, <2>3, ChoreJoins
  <2>5. SenderFits' /\ KeysFit'
    BY <1>1, <1>2, <2>2, <2>4 DEF Delivery, SenderFits, KeysFit, MadeFor
  <2> QED BY <1>2, <2>5 DEF Delivery
<1> QED BY <1>3, <1>4, <1>5

\* A send looks for a key, makes one, shares it and posts its event.
LEMMA SendKeeps == ASSUME Delivery, SendStep PROVE Delivery'
<1>0. PICK c \in chores : ReadMembers(c) \/ ReadKey(c) \/ SaveKey(c) \/ ShareKey(c) \/ Post(c)
  BY DEF SendStep
<1>a. c \in Chores /\ Len(keys) \in Nat /\ chores \subseteq Chores
  BY DEF Delivery, SenderFits
<1>1. ASSUME ReadMembers(c) PROVE Delivery'
  <2> DEFINE d == [c EXCEPT !.step = "key", !.people = listed]
  <2>1. d \in Chores /\ d.step = "key" /\ d.key = 0
    BY <1>1, <1>a DEF ReadMembers, Chores, Delivery, SenderFits, KeysFit
  <2>2. Becomes(c, d) /\ UNCHANGED <<events, queue, left, listed, own, keys, downs, acked, members, goal, reached>>
    BY <1>1 DEF ReadMembers, serverVars
  <2> HIDE DEF d
  <2> QED BY <2>1, <2>2, ChoreMoves DEF Delivery, SenderFits, KeysFit, ServerFits, MadeFor, Ids
<1>2. ASSUME ReadKey(c), KeyServes(c.people) PROVE Delivery'
  <2> DEFINE d == [c EXCEPT !.step = "post", !.key = own.key]
  <2>1. d \in Chores /\ d.step = "post" /\ MadeFor(d.key, d.people)
    BY <1>2, <1>a DEF KeyServes, Chores, Delivery, SenderFits, KeysFit, MadeFor
  <2>2. Becomes(c, d) /\ UNCHANGED <<events, queue, left, listed, own, keys, downs, acked, members, goal, reached>>
    BY <1>2 DEF ReadKey, serverVars
  <2> HIDE DEF d
  <2> QED BY <2>1, <2>2, ChoreMoves DEF Delivery, SenderFits, KeysFit, ServerFits, MadeFor, Ids
<1>3. ASSUME ReadKey(c), ~KeyServes(c.people) PROVE Delivery'
  <2> DEFINE k == [people |-> c.people, to |-> {}]
  <2>0. PICK d : d = [c EXCEPT !.step = "save", !.key = Len(keys) + 1]
    OBVIOUS
  <2>1. Becomes(c, d) /\ keys' = Append(keys, k)
        /\ UNCHANGED <<events, queue, left, listed, own, downs, acked, members, goal, reached>>
    BY <1>3, <2>0 DEF ReadKey, serverVars
  <2>2. k \in Key /\ k.to \subseteq k.people
    BY <1>a DEF Chores, Key
  <2>3. /\ keys' \in Seq(Key) /\ Len(keys') = Len(keys) + 1
        /\ keys'[Len(keys) + 1] = k /\ \A i \in 1 .. Len(keys) : keys'[i] = keys[i]
        /\ DOMAIN keys' = 1 .. Len(keys')
    BY <2>1, <2>2, <1>a DEF Delivery, SenderFits
  <2>4. d \in Chores' /\ d.step = "save" /\ MadeFor(d.key, d.people)'
    <3>1. c \in Chores' /\ Len(keys) + 1 \in 0 .. Len(keys')
      BY <1>a, <2>1, <2>3 DEF Chores, Ids
    <3>2. d \in Chores'
      BY <2>0, <3>1 DEF Chores
    <3>3. d.step = "save" /\ d.key = Len(keys) + 1 /\ d.people = c.people
      BY <1>a, <2>0 DEF Chores
    <3> QED BY <2>3, <3>2, <3>3 DEF MadeFor
  <2>5. chores' = (chores \ {c}) \cup {d}
    BY <2>1 DEF Becomes
  <2> HIDE DEF k
  <2>6. chores \subseteq Chores' /\ own' \in [people : SUBSET Peer, key : 0 .. Len(keys')]
    BY <1>a, <2>1, <2>3 DEF Chores, Ids, Delivery, SenderFits
  <2>7. \A people : \A n \in 0 .. Len(keys) : MadeFor(n, people) => MadeFor(n, people)'
    BY <1>a, <2>3 DEF MadeFor
  <2>8. SenderFits' /\ ServerFits'
    BY <2>1, <2>3, <2>4, <2>5, <2>6 DEF Delivery, SenderFits, ServerFits, Ids
  <2>9. \A e \in chores : e.key \in 0 .. Len(keys)
    BY <1>a DEF Chores
  <2>10. \A e \in chores' : IF e.step \in {"members", "key"} THEN e.key = 0 ELSE MadeFor(e.key, e.people)'
    <3>1. ASSUME NEW e \in chores
          PROVE  IF e.step \in {"members", "key"} THEN e.key = 0 ELSE MadeFor(e.key, e.people)'
      BY <2>7, <2>9 DEF Delivery, KeysFit
    <3> QED BY <2>4, <2>5, <3>1
  <2>11. MadeFor(own.key, own.people)'
    BY <1>a, <2>1, <2>3 DEF Delivery, SenderFits, KeysFit, MadeFor
  <2>12. \A n \in DOMAIN keys' : keys'[n].to \subseteq keys'[n].people
    BY <1>a, <2>2, <2>3 DEF Delivery, SenderFits, KeysFit
  <2> QED BY <2>8, <2>10, <2>11, <2>12 DEF Delivery, KeysFit
<1>4. ASSUME SaveKey(c) PROVE Delivery'
  <2> DEFINE d == [c EXCEPT !.step = "share"]
  <2>1. d \in Chores /\ d.step = "share" /\ MadeFor(c.key, c.people) /\ d.key = c.key /\ d.people = c.people
    BY <1>4, <1>a DEF SaveKey, Chores, Delivery, KeysFit
  <2>2. Becomes(c, d) /\ own' = [people |-> c.people, key |-> c.key]
        /\ UNCHANGED <<events, queue, left, listed, keys, downs, acked, members, goal, reached>>
    BY <1>4 DEF SaveKey, serverVars
  <2>3. own' \in [people : SUBSET Peer, key : 0 .. Len(keys)] /\ own'.key = c.key /\ own'.people = c.people
    BY <1>a, <2>2 DEF Chores
  <2> HIDE DEF d
  <2> QED BY <2>1, <2>2, <2>3, ChoreMoves DEF Delivery, SenderFits, KeysFit, ServerFits, MadeFor, Ids
<1>5. ASSUME ShareKey(c), linked PROVE Delivery'
  <2> DEFINE d == [c EXCEPT !.step = "post"]
  <2>1. /\ keys' = [keys EXCEPT ![c.key].to = c.people] /\ Becomes(c, d)
        /\ UNCHANGED <<events, queue, left, listed, own, downs, acked, members, goal, reached>>
    BY <1>5 DEF ShareKey
  <2>2. d \in Chores /\ d.step = "post" /\ d.key = c.key /\ d.people = c.people /\ MadeFor(c.key, c.people)
    BY <1>5, <1>a DEF ShareKey, Chores, Delivery, KeysFit
  <2>3. /\ keys' \in Seq(Key) /\ Len(keys') = Len(keys)
        /\ \A n \in DOMAIN keys : keys'[n].people = keys[n].people
        /\ DOMAIN keys' = DOMAIN keys /\ DOMAIN keys = 1 .. Len(keys)
        /\ \A n \in DOMAIN keys : n # c.key => keys'[n].to = keys[n].to
        /\ c.key \in DOMAIN keys => keys'[c.key].to = c.people
    <3>1. keys \in Seq(Key) /\ DOMAIN keys = 1 .. Len(keys)
      BY DEF Delivery, SenderFits
    <3>2. \A k \in Key : [k EXCEPT !.to = c.people] \in Key
      BY <1>a DEF Chores, Key
    <3>3. DOMAIN keys' = DOMAIN keys /\ Len(keys') = Len(keys)
      BY <2>1, <3>1
    <3>4. \A n \in DOMAIN keys : n # c.key => keys'[n] = keys[n]
      BY <2>1, <3>1
    <3>5. c.key \in DOMAIN keys => keys'[c.key] = [keys[c.key] EXCEPT !.to = c.people]
      BY <2>1, <3>1
    <3>6. \A n \in DOMAIN keys : keys[n] \in Key
      BY <3>1
    <3>7. \A n \in DOMAIN keys : keys'[n] \in Key
      BY <3>2, <3>4, <3>5, <3>6
    <3>8. keys' \in Seq(Key)
      <4>1. keys' = [n \in 1 .. Len(keys) |-> keys'[n]]
        BY <2>1, <3>1
      <4>2. keys' \in [1 .. Len(keys) -> Key]
        BY <3>1, <3>7, <4>1
      <4> QED BY <1>a, <4>2
    <3> QED BY <3>1, <3>3, <3>4, <3>5, <3>6, <3>8 DEF Key
  <2>4. chores' = (chores \ {c}) \cup {d}
    BY <2>1 DEF Becomes
  <2> HIDE DEF d
  <2>5. \A people : \A n \in 0 .. Len(keys) : MadeFor(n, people) => MadeFor(n, people)'
    BY <1>a, <2>3 DEF MadeFor
  <2>6. Chores' = Chores
    BY <2>1, <2>3 DEF Chores, Ids
  <2>7. SenderFits' /\ ServerFits'
    BY <1>a, <2>1, <2>2, <2>3, <2>4, <2>6 DEF Delivery, SenderFits, ServerFits, Ids
  <2>8. \A e \in chores : e.key \in 0 .. Len(keys)
    BY <1>a DEF Chores
  <2>9. \A e \in chores' : IF e.step \in {"members", "key"} THEN e.key = 0 ELSE MadeFor(e.key, e.people)'
    BY <2>2, <2>4, <2>5, <2>8 DEF Delivery, KeysFit
  <2>10. MadeFor(own.key, own.people)'
    BY <1>a, <2>1, <2>3 DEF Delivery, SenderFits, KeysFit, MadeFor
  <2>11. \A n \in DOMAIN keys' : keys'[n].to \subseteq keys'[n].people
    BY <1>a, <2>2, <2>3 DEF Delivery, KeysFit, MadeFor
  <2> QED BY <2>7, <2>9, <2>10, <2>11 DEF Delivery, KeysFit
<1>6. ASSUME ShareKey(c), ~linked PROVE Delivery'
  <2>1. /\ chores' = chores \ {c} /\ left' \in {{}, left}
        /\ UNCHANGED <<events, queue, listed, own, keys, downs, acked, members, goal, reached>>
    BY <1>6 DEF ShareKey, Throws
  <2> QED BY <2>1 DEF Delivery, SenderFits, KeysFit, ServerFits, MadeFor, Ids, Chores
<1>7. ASSUME Post(c) PROVE Delivery'
  <2>1. chores' = chores \ {c} /\ UNCHANGED <<events, queue, left, listed, own, keys, acked, members>>
    BY <1>7 DEF Post
  <2>2. SenderFits' /\ KeysFit' /\ Ids' = Ids
    BY <2>1 DEF Delivery, SenderFits, KeysFit, MadeFor, Ids, Chores
  <2>3. CASE UNCHANGED <<reached, goal, downs>>
    BY <2>1, <2>2, <2>3 DEF Delivery, ServerFits
  <2>4. CASE \E lost \in Losing((members \ {Me}) \ present) : Route(c, lost)
    <3>1. PICK lost \in Losing((members \ {Me}) \ present) : Route(c, lost)
      BY <2>4
    <3> DEFINE to == members \ {Me}
    <3>2. /\ to \subseteq Peer /\ c.id \in Ids /\ Ids = DOMAIN goal /\ Ids = DOMAIN reached
          /\ goal \in Seq(SUBSET Peer) /\ reached \in Seq(SUBSET Peer)
      BY <1>a DEF Delivery, SenderFits, ServerFits, Chores
    <3>3. /\ reached' = [reached EXCEPT ![c.id] = @ \cup (to \ lost)]
          /\ \/ UNCHANGED <<goal, downs>>
             \/ lost = {} /\ goal' = [goal EXCEPT ![c.id] = to] /\ downs' = downs \cup {c.id}
      BY <3>1 DEF Route, Accepts
    <3>4. /\ reached' \in Seq(SUBSET Peer) /\ Len(reached') = Len(reached)
          /\ \A id \in Ids : reached[id] \subseteq reached'[id]
          /\ to \ lost \subseteq reached'[c.id]
      BY <3>2, <3>3
    <3>5. CASE UNCHANGED <<goal, downs>>
      BY <2>1, <2>2, <3>2, <3>4, <3>5 DEF Delivery, ServerFits
    <3>6. CASE lost = {} /\ goal' = [goal EXCEPT ![c.id] = to] /\ downs' = downs \cup {c.id}
      <4>1. goal' \in Seq(SUBSET Peer) /\ Len(goal') = Len(goal)
            /\ \A id \in Ids : goal'[id] \subseteq reached'[id]
        BY <3>2, <3>4, <3>6 DEF Delivery, ServerFits
      <4> QED BY <2>1, <2>2, <3>2, <3>4, <3>6, <4>1 DEF Delivery, ServerFits
    <3> QED BY <3>3, <3>5, <3>6
  <2> QED BY <1>7, <2>3, <2>4 DEF Post
<1> QED BY <1>0, <1>1, <1>2, <1>3, <1>4, <1>5, <1>6, <1>7

\* What the link, the server's list and the members do leaves it so.
LEMMA OthersKeep ==
  ASSUME Delivery,
         \/ LoseLink \/ Relink \/ ListMembers \/ \E id \in Ids : OnAck(id)
         \/ \E p \in Peer \cup {Me} : ChangeMembers(p)
         \/ \E p \in Peer :
              \/ Returns(p) \/ \E reload \in BOOLEAN : Leaves(p, reload)
              \/ \E packet \in handling[p] : OnKey(p, packet) \/ OnEvent(p, packet) \/ Parks(p, packet)
         \/ UNCHANGED groupVars
  PROVE  Delivery'
<1> DEFINE Kept == /\ UNCHANGED <<events, chores, left, own, keys, goal, reached>>
                   /\ queue' \subseteq queue /\ listed' \in {listed, members \ {Me}}
                   /\ downs' \subseteq downs /\ acked' \subseteq acked \cup downs
                   /\ members' \subseteq members \cup Peer \cup {Me}
<1>1. Kept
  <2>1. CASE LoseLink \/ Relink \/ ListMembers
    BY <2>1 DEF LoseLink, Relink, ListMembers, senderVars, serverVars, memberVars
  <2>2. ASSUME NEW id \in Ids, OnAck(id) PROVE Kept
    BY <2>2 DEF OnAck, serverVars, memberVars
  <2>3. ASSUME NEW p \in Peer \cup {Me}, ChangeMembers(p) PROVE Kept
    BY <2>3 DEF ChangeMembers, senderVars, memberVars
  <2>4. ASSUME NEW p \in Peer, Returns(p) \/ \E reload \in BOOLEAN : Leaves(p, reload) PROVE Kept
    BY <2>4 DEF Returns, Leaves, senderVars, serverVars
  <2>5. ASSUME NEW p \in Peer, NEW packet \in handling[p], OnKey(p, packet) \/ OnEvent(p, packet) \/ Parks(p, packet)
        PROVE  Kept
    BY <2>5 DEF OnKey, OnEvent, Parks, senderVars, serverVars
  <2>6. CASE UNCHANGED groupVars
    BY <2>6 DEF groupVars, senderVars, serverVars, memberVars
  <2> QED BY <2>1, <2>2, <2>3, <2>4, <2>5, <2>6
<1>2. Ids' = Ids /\ Chores' = Chores
  BY <1>1 DEF Ids, Chores
<1>3. SenderFits'
  <2>1. listed' \subseteq Peer
    BY <1>1 DEF Delivery, SenderFits, ServerFits
  <2> QED BY <1>1, <1>2, <2>1 DEF Delivery, SenderFits
<1>4. KeysFit'
  BY <1>1 DEF Delivery, KeysFit, MadeFor
<1>5. ServerFits'
  BY <1>1, <1>2 DEF Delivery, ServerFits
<1> QED BY <1>3, <1>4, <1>5 DEF Delivery

\* At first nothing has been sent.
LEMMA DeliveryInit == ASSUME GroupInit PROVE Delivery
<1>1. odds \in Odds /\ listed = odds.listed /\ listed \subseteq Peer
  BY GroupAssumption DEF GroupInit
<1> QED BY <1>1 DEF GroupInit, Delivery, SenderFits, KeysFit, ServerFits, MadeFor, Ids, Chores

LEMMA DeliveryStep == ASSUME Delivery, [GroupNext]_groupVars PROVE Delivery'
  BY ComposeKeeps, FlushKeeps, SendKeeps, OthersKeep DEF GroupNext

\* However sends, changes of the members and losses interleave, a sender key
\* goes only to people on the list that its send has read (socketGroups.ts).
THEOREM KeysStayAlwaysInside == GroupSpec => []KeysStayInside
<1>1. Delivery => KeysStayInside
  BY DEF Delivery, SenderFits, KeysFit, MadeFor, KeysStayInside, Chores
<1> QED BY DeliveryInit, DeliveryStep, <1>1, PTL DEF GroupSpec

\* An event whose acknowledgement the sender has handled was handed over to
\* every member there was, or is in its offline rows (hub.go, socket.ts).
THEOREM AckedHasReachedAll == GroupSpec => []AckedReachesAll
<1>1. Delivery => AckedReachesAll
  BY DEF Delivery, ServerFits, AckedReachesAll
<1> QED BY DeliveryInit, DeliveryStep, <1>1, PTL DEF GroupSpec

-----------------------------------------------------------------------------
\* Handing over a packet removes rows of the same message only.
LEMMA HandKeepsRows ==
  ASSUME NEW to, NEW packet, NEW lost, Hand(to, packet, lost), NEW p \in Peer, NEW r \in rows[p]
  PROVE  r.id = 0 \/ \E s \in rows'[p] : s.id = r.id
<1>1. rows'[p] = rows[p] \/ rows'[p] = Without(rows[p], packet) \cup {packet}
  BY DEF Hand
<1>2. r \in Without(rows[p], packet) \/ packet.id = r.id
  BY DEF Without, Same
<1> QED BY <1>1, <1>2

\* Each step of the sender and of the server keeps a row or its like.
LEMMA SenderKeepsRows ==
  ASSUME SendStep, NEW p \in Peer, NEW r \in rows[p]
  PROVE  r.id = 0 \/ \E s \in rows'[p] : s.id = r.id
<1>1. PICK c \in chores : ReadMembers(c) \/ ReadKey(c) \/ SaveKey(c) \/ ShareKey(c) \/ Post(c)
  BY DEF SendStep
<1>2. ASSUME UNCHANGED rows PROVE r.id = 0 \/ \E s \in rows'[p] : s.id = r.id
  BY <1>2
<1>3. CASE ReadMembers(c) \/ ReadKey(c) \/ SaveKey(c)
  BY <1>2, <1>3 DEF ReadMembers, ReadKey, SaveKey, serverVars
<1>4. CASE ShareKey(c)
  BY <1>2, <1>4, HandKeepsRows DEF ShareKey
<1>5. CASE Post(c)
  BY <1>2, <1>5, HandKeepsRows DEF Post, Route
<1> QED BY <1>1, <1>3, <1>4, <1>5

\* A member's handler settles what it shows.
LEMMA MemberKeepsRows ==
  ASSUME MembersFit, NEW q \in Peer, NEW packet \in handling[q],
         OnKey(q, packet) \/ OnEvent(q, packet), NEW p \in Peer, NEW r \in rows[p]
  PROVE  r.id = 0 \/ r.id \in applied'[p] \/ \E s \in rows'[p] : s.id = r.id
<1>1. ASSUME Settle(q, packet)
      PROVE  r \in rows'[p] \/ (p = q /\ packet.id = r.id)
  <2>1. rows' = rows \/ rows' = [rows EXCEPT ![q] = Without(@, packet)]
    BY <1>1 DEF Settle
  <2>2. p = q /\ rows' # rows => rows'[p] = Without(rows[p], packet)
    BY <2>1 DEF MembersFit
  <2>3. p # q => rows'[p] = rows[p]
    BY <2>1 DEF MembersFit
  <2> QED BY <2>2, <2>3 DEF Without, Same
<1>2. CASE OnKey(q, packet)
  BY <1>1, <1>2 DEF OnKey
<1>3. CASE OnEvent(q, packet)
  <2>1. CASE UNCHANGED rows
    BY <2>1
  <2>2. CASE Show(q, packet) /\ Settle(q, packet)
    <3>1. packet.id \in applied'[q]
      BY <2>2 DEF Show, MembersFit
    <3> QED BY <1>1, <2>2, <3>1
  <2> QED BY <1>3, <2>1, <2>2 DEF OnEvent
<1> QED BY <1>2, <1>3

LEMMA MembersStep == ASSUME MembersFit, [GroupNext]_groupVars PROVE MembersFit'
<1>1. ASSUME NEW q \in Peer, NEW S PROVE [rows EXCEPT ![q] = S] = [p \in Peer |-> [rows EXCEPT ![q] = S][p]]
  BY DEF MembersFit
<1>2. ASSUME NEW q \in Peer, NEW S PROVE [applied EXCEPT ![q] = S] = [p \in Peer |-> [applied EXCEPT ![q] = S][p]]
  BY DEF MembersFit
<1>3. ASSUME SendStep PROVE MembersFit'
  <2>1. /\ UNCHANGED applied
        /\ rows' = rows \/ \E to, packet, lost : Hand(to, packet, lost)
    BY <1>3 DEF SendStep, ReadMembers, ReadKey, SaveKey, ShareKey, Post, Route, serverVars, memberVars
  <2> QED BY <2>1 DEF MembersFit, Hand
<1>4. ASSUME NEW q \in Peer, NEW packet \in handling[q], OnKey(q, packet) \/ OnEvent(q, packet) PROVE MembersFit'
  <2>1. rows' = rows \/ rows' = [rows EXCEPT ![q] = Without(@, packet)]
    BY <1>4 DEF OnKey, OnEvent, Settle
  <2>2. applied' = applied \/ \E S : applied' = [applied EXCEPT ![q] = S]
    BY <1>4 DEF OnKey, OnEvent, Show
  <2> QED BY <1>1, <1>2, <2>1, <2>2 DEF MembersFit
<1>5. ASSUME UNCHANGED <<rows, applied>> PROVE MembersFit'
  BY <1>5 DEF MembersFit
<1> QED
  BY <1>3, <1>4, <1>5 DEF GroupNext, Compose, FlushStarts, FlushGoesOn, LoseLink, Relink, ListMembers,
     OnAck, ChangeMembers, Returns, Leaves, Parks, groupVars, senderVars, serverVars, memberVars

\* A member's offline row goes only when its messages show the event, or when
\* another of the same event takes its place (hub.go, socket.ts).
THEOREM RowsAlwaysOutliveSilence == GroupSpec => RowsOutliveSilence
<1> DEFINE Kept == \A p \in Peer : \A r \in rows[p] :
                      r.id = 0 \/ r.id \in applied'[p] \/ \E s \in rows'[p] : s.id = r.id
<1>1. GroupInit => MembersFit
  BY DEF GroupInit, MembersFit
<1>2. MembersFit /\ [GroupNext]_groupVars => MembersFit'
  BY MembersStep
<1>3. MembersFit /\ [GroupNext]_groupVars => [Kept]_groupVars
  <2> SUFFICES ASSUME MembersFit, GroupNext, NEW p \in Peer, NEW r \in rows[p]
               PROVE  r.id = 0 \/ r.id \in applied'[p] \/ \E s \in rows'[p] : s.id = r.id
    OBVIOUS
  <2>1. CASE UNCHANGED rows
    BY <2>1
  <2>2. CASE SendStep
    BY <2>2, SenderKeepsRows
  <2>3. ASSUME NEW q \in Peer, NEW packet \in handling[q], OnKey(q, packet) \/ OnEvent(q, packet)
        PROVE  r.id = 0 \/ r.id \in applied'[p] \/ \E s \in rows'[p] : s.id = r.id
    BY <2>3, MemberKeepsRows
  <2> QED
    BY <2>1, <2>2, <2>3 DEF GroupNext, Compose, FlushStarts, FlushGoesOn, LoseLink, Relink, ListMembers,
       OnAck, ChangeMembers, Returns, Leaves, Parks, senderVars, serverVars, memberVars
<1> QED BY <1>1, <1>2, <1>3, PTL DEF GroupSpec, RowsOutliveSilence

-----------------------------------------------------------------------------
(* GroupEvents: what a replay applies.                                     *)

\* A set of numbers has a least one.
LEMMA HasLeast ==
  ASSUME NEW S, S \subseteq Nat, S # {}
  PROVE  \E k \in S : \A j \in S : ~(j < k)
<1>1. PICK k \in S : \A j \in S : <<j, k>> \notin OpToRel(<, Nat)
  BY WFMin, NatLessThanWellFounded, Zenon
<1>2. \A j \in S : j < k => <<j, k>> \in OpToRel(<, Nat)
  BY Zenon DEF OpToRel
<1> QED BY <1>1, <1>2, Zenon

\* Induction over an initial segment of the numbers, for a set.
LEMMA ReachesAll ==
  ASSUME NEW n \in Nat, NEW S, 0 \in S, \A i \in 0 .. n : i + 1 \in 0 .. n /\ i \in S => i + 1 \in S
  PROVE  n \in S
<1> DEFINE Missed == {i \in 0 .. n : i \notin S}
<1>1. SUFFICES ASSUME Missed # {} PROVE FALSE
  OBVIOUS
<1>2. Missed \subseteq Nat
  OBVIOUS
<1> HIDE DEF Missed
<1>3. PICK k \in Missed : \A j \in Missed : ~(j < k)
  BY <1>1, <1>2, HasLeast
<1>4. k \in 0 .. n /\ k \notin S /\ k # 0
  BY <1>3 DEF Missed
<1>5. k - 1 \in 0 .. n /\ k - 1 < k /\ (k - 1) + 1 = k
  BY <1>4
<1>6. k - 1 \in S
  BY <1>3, <1>5 DEF Missed
<1> QED BY <1>4, <1>5, <1>6

\* f is computed from a by G, up to n.
Computes(f, n, a, G) == f = [i \in 0 .. n |-> IF i = 0 THEN a ELSE G[i][f[i - 1]]]

\* What a step defines for the numbers up to n is defined for n.
LEMMA Computable ==
  ASSUME NEW V, NEW a \in V, NEW n \in Nat, NEW G \in [1 .. n -> [V -> V]]
  PROVE  \E f \in [0 .. n -> V] : Computes(f, n, a, G)
<1> DEFINE Good == {k \in 0 .. n : \E f \in [0 .. k -> V] : Computes(f, k, a, G)}
<1>1. 0 \in Good
  <2>1. [i \in 0 .. 0 |-> a] \in [0 .. 0 -> V] /\ Computes([i \in 0 .. 0 |-> a], 0, a, G)
    BY DEF Computes
  <2> QED BY <2>1
<1>2. ASSUME NEW k \in 0 .. n, k + 1 \in 0 .. n, k \in Good PROVE k + 1 \in Good
  <2>1. PICK f \in [0 .. k -> V] : Computes(f, k, a, G)
    BY <1>2
  <2> DEFINE g == [i \in 0 .. k + 1 |-> IF i = k + 1 THEN G[k + 1][f[k]] ELSE f[i]]
  <2>2. f[k] \in V /\ G[k + 1] \in [V -> V] /\ G[k + 1][f[k]] \in V
    BY <1>2
  <2>3. g \in [0 .. k + 1 -> V]
    BY <2>2
  <2>4. ASSUME NEW i \in 0 .. k + 1
        PROVE  g[i] = IF i = 0 THEN a ELSE G[i][g[i - 1]]
    <3>1. CASE i = k + 1
      BY <3>1
    <3>2. CASE i \in 0 .. k
      <4>1. f[i] = IF i = 0 THEN a ELSE G[i][f[i - 1]]
        BY <2>1, <3>2 DEF Computes
      <4>2. i # 0 => i - 1 \in 0 .. k /\ g[i - 1] = f[i - 1]
        BY <3>2
      <4> QED BY <3>2, <4>1, <4>2
    <3> QED BY <3>1, <3>2
  <2>5. Computes(g, k + 1, a, G)
    BY <2>3, <2>4 DEF Computes
  <2> QED BY <1>2, <2>3, <2>5
<1> HIDE DEF Good
<1>3. n \in Good
  BY <1>1, <1>2, ReachesAll
<1> QED BY <1>3 DEF Good

\* Replaying parked events shows what was shown and some of the parked.
LEMMA ReplayedIs ==
  ASSUME NEW q, NEW k, NEW done, NEW S, Len(q) \in Nat, done \in SUBSET S,
         \A i \in 1 .. Len(q) : q[i].id \in S
  PROVE  Replayed(q, k, done) \in SUBSET S
<1> DEFINE n == Len(q)
           V == SUBSET S
           G == [i \in 1 .. n |-> [d \in V |-> IF Takes(q[i], k, d) THEN d \cup {q[i].id} ELSE d]]
           R(f) == f = [i \in 0 .. n |-> IF i = 0 THEN done
                         ELSE IF Takes(q[i], k, f[i - 1]) THEN f[i - 1] \cup {q[i].id} ELSE f[i - 1]]
<1>1. Replayed(q, k, done) = (CHOOSE f : R(f))[n]
  BY DEF Replayed
<1>2. G \in [1 .. n -> [V -> V]]
  OBVIOUS
<1>3. \E f : R(f)
  <2>1. ASSUME NEW i \in 1 .. n, NEW d \in V
        PROVE  G[i][d] = IF Takes(q[i], k, d) THEN d \cup {q[i].id} ELSE d
    OBVIOUS
  <2> HIDE DEF G, V
  <2>2. PICK f \in [0 .. n -> V] : Computes(f, n, done, G)
    BY <1>2, Computable DEF V
  <2>3. \A i \in 0 .. n : i # 0 => i \in 1 .. n /\ f[i - 1] \in V
    BY <2>2
  <2>4. \A i \in 0 .. n : i # 0 => G[i][f[i - 1]] = IF Takes(q[i], k, f[i - 1]) THEN f[i - 1] \cup {q[i].id} ELSE f[i - 1]
    BY <2>1, <2>3
  <2>5. f = [i \in 0 .. n |-> IF i = 0 THEN done ELSE G[i][f[i - 1]]]
    BY <2>2 DEF Computes
  <2>6. R(f)
    BY <2>4, <2>5
  <2> QED BY <2>6
<1> DEFINE after == CHOOSE f : R(f)
<1>4. R(after)
  BY <1>3
<1> HIDE DEF after
<1>5. ASSUME NEW i \in 0 .. n
      PROVE  after[i] = IF i = 0 THEN done
                        ELSE IF Takes(q[i], k, after[i - 1]) THEN after[i - 1] \cup {q[i].id} ELSE after[i - 1]
  <2> DEFINE e(f, j) == IF j = 0 THEN done
                        ELSE IF Takes(q[j], k, f[j - 1]) THEN f[j - 1] \cup {q[j].id} ELSE f[j - 1]
  <2>1. after = [j \in 0 .. n |-> e(after, j)]
    BY <1>4
  <2> HIDE DEF e
  <2>2. after[i] = e(after, i)
    BY <2>1
  <2> QED BY <2>2 DEF e
<1> DEFINE Fine == {i \in 0 .. n : after[i] \in V}
<1>6. 0 \in Fine
  <2>1. 0 \in 0 .. n
    OBVIOUS
  <2>2. after[0] = done
    BY <1>5, <2>1
  <2> QED BY <2>1, <2>2
<1>7. ASSUME NEW i \in 0 .. n, i + 1 \in 0 .. n, i \in Fine PROVE i + 1 \in Fine
  <2>1. PICK j \in 1 .. n : j = i + 1 /\ j - 1 = i
    BY <1>7
  <2>2. after[j] = IF Takes(q[j], k, after[i]) THEN after[i] \cup {q[j].id} ELSE after[i]
    <3>1. j \in 0 .. n /\ j # 0
      BY <2>1
    <3>2. after[j] = IF Takes(q[j], k, after[j - 1]) THEN after[j - 1] \cup {q[j].id} ELSE after[j - 1]
      BY <1>5, <3>1
    <3> QED BY <2>1, <3>2
  <2>3. after[i] \in SUBSET S /\ q[j].id \in S
    BY <1>7
  <2>4. after[j] \in SUBSET S
    BY <2>2, <2>3
  <2> QED BY <2>1, <2>4
<1>8. n \in Fine
  <2> HIDE DEF Fine
  <2> QED BY <1>6, <1>7, ReachesAll
<1> QED BY <1>1, <1>8 DEF after

-----------------------------------------------------------------------------
(* GroupEvents: types.                                                     *)

\* What is on its way to a member names an event and a key that there are.
Packet == [id : {0} \cup Ids, key : 0 .. Len(keys)]

MembersHold ==
  /\ rows \in [Peer -> SUBSET Packet] /\ handling \in [Peer -> SUBSET Packet]
  /\ parked \in [Peer -> Seq(Packet)]
  /\ \A p \in Peer : \A i \in DOMAIN parked[p] : parked[p][i].id \in Ids
  /\ held \in [Peer -> 0 .. Len(keys)] /\ applied \in [Peer -> SUBSET Ids]

\* The loop waits for the one send it started, and when it has thrown or
\* ended no such send is left: what is thrown meets no second send of the queue.
OneQueued ==
  /\ flushing \/ (left = {} /\ \A c \in chores : ~c.queued)
  /\ \A c, d \in chores : c.queued /\ d.queued => c = d

\* Events and keys are only added.
LEMMA NothingShrinks ==
  ASSUME Delivery, [GroupNext]_groupVars
  PROVE  /\ Ids \subseteq Ids' /\ Packet \subseteq Packet'
         /\ Len(keys) \in Nat /\ Len(keys') \in Nat /\ Len(keys) <= Len(keys')
<1>0. Delivery'
  BY DeliveryStep
<1>1. Len(events) \in Nat /\ Ids = 1 .. Len(events) /\ Len(keys) \in Nat /\ keys \in Seq(Key)
  BY DEF Delivery, SenderFits
<1>2. Len(events') \in Nat /\ Ids' = 1 .. Len(events') /\ Len(keys') \in Nat
  BY <1>0 DEF Delivery, SenderFits
<1>3. events' = events \/ Len(events') = Len(events) + 1
  <2>1. ASSUME NEW type \in {"message", "edit"}, NEW sealed \in BOOLEAN, NEW target, Compose(type, sealed, target)
        PROVE  Len(events') = Len(events) + 1
    BY <2>1 DEF Compose, Delivery, SenderFits
  <2>2. CASE SendStep
    BY <2>2 DEF SendStep, ReadMembers, ReadKey, SaveKey, ShareKey, Post
  <2>3. ASSUME NEW p \in Peer, NEW packet \in handling[p], OnKey(p, packet) \/ OnEvent(p, packet) \/ Parks(p, packet)
        PROVE  events' = events
    BY <2>3 DEF OnKey, OnEvent, Parks, senderVars
  <2>4. CASE FlushStarts \/ FlushGoesOn \/ LoseLink \/ Relink \/ ListMembers \/ \E id \in Ids : OnAck(id)
    BY <2>4 DEF FlushStarts, FlushGoesOn, LoseLink, Relink, ListMembers, OnAck
  <2>5. CASE \/ \E p \in Peer \cup {Me} : ChangeMembers(p)
             \/ \E p \in Peer : Returns(p) \/ \E reload \in BOOLEAN : Leaves(p, reload)
    BY <2>5 DEF ChangeMembers, Returns, Leaves, senderVars
  <2>6. CASE UNCHANGED groupVars
    BY <2>6 DEF groupVars, senderVars
  <2> QED BY <2>1, <2>2, <2>3, <2>4, <2>5, <2>6 DEF GroupNext
<1>4. Len(keys) <= Len(keys')
  <2>1. ASSUME NEW c \in chores, ReadKey(c) \/ ShareKey(c) PROVE Len(keys) <= Len(keys')
    <3>1. \/ keys' = keys \/ keys' = Append(keys, [people |-> c.people, to |-> {}])
          \/ keys' = [keys EXCEPT ![c.key].to = c.people]
      BY <2>1 DEF ReadKey, ShareKey
    <3>2. Len(keys') = Len(keys) \/ Len(keys') = Len(keys) + 1
      BY <1>1, <3>1
    <3> QED BY <1>1, <3>2
  <2>2. ASSUME NEW c \in chores, ReadMembers(c) \/ SaveKey(c) \/ Post(c) PROVE keys' = keys
    BY <2>2 DEF ReadMembers, SaveKey, Post
  <2>3. ASSUME NEW p \in Peer, NEW packet \in handling[p], OnKey(p, packet) \/ OnEvent(p, packet) \/ Parks(p, packet)
        PROVE  keys' = keys
    BY <2>3 DEF OnKey, OnEvent, Parks, senderVars
  <2>4. CASE \/ FlushStarts \/ FlushGoesOn \/ LoseLink \/ Relink \/ ListMembers \/ \E id \in Ids : OnAck(id)
    BY <1>1, <2>4 DEF FlushStarts, FlushGoesOn, LoseLink, Relink, ListMembers, OnAck
  <2>7. ASSUME NEW type \in {"message", "edit"}, NEW sealed \in BOOLEAN, NEW target, Compose(type, sealed, target)
        PROVE  keys' = keys
    BY <2>7 DEF Compose
  <2>5. CASE \/ \E p \in Peer \cup {Me} : ChangeMembers(p)
             \/ \E p \in Peer : Returns(p) \/ \E reload \in BOOLEAN : Leaves(p, reload)
    BY <1>1, <2>5 DEF ChangeMembers, Returns, Leaves, senderVars
  <2>6. CASE UNCHANGED groupVars
    BY <1>1, <2>6 DEF groupVars, senderVars
  <2> QED BY <1>1, <2>1, <2>2, <2>3, <2>4, <2>5, <2>6, <2>7 DEF GroupNext, SendStep
<1>5. Ids \subseteq Ids'
  BY <1>1, <1>2, <1>3
<1> QED BY <1>1, <1>2, <1>4, <1>5 DEF Packet

\* A sequence over a set is one over a larger set.
LEMMA SeqGrows == ASSUME NEW S, NEW T, S \subseteq T PROVE Seq(S) \subseteq Seq(T)
<1> SUFFICES ASSUME NEW s \in Seq(S) PROVE s \in Seq(T)
  OBVIOUS
<1>1. Len(s) \in Nat /\ s \in [1 .. Len(s) -> S]
  OBVIOUS
<1>2. s \in [1 .. Len(s) -> T]
  BY <1>1
<1> QED BY <1>1, <1>2

\* What members hold stays right when events and keys are added.
LEMMA HoldsOn ==
  ASSUME Delivery, MembersHold, [GroupNext]_groupVars
  PROVE  /\ rows \in [Peer -> SUBSET Packet'] /\ handling \in [Peer -> SUBSET Packet']
         /\ parked \in [Peer -> Seq(Packet')]
         /\ \A p \in Peer : \A i \in DOMAIN parked[p] : parked[p][i].id \in Ids'
         /\ held \in [Peer -> 0 .. Len(keys')] /\ applied \in [Peer -> SUBSET Ids']
<1>1. /\ Ids \subseteq Ids' /\ Packet \subseteq Packet'
      /\ Len(keys) \in Nat /\ Len(keys') \in Nat /\ Len(keys) <= Len(keys')
  BY NothingShrinks
<1> DEFINE old == Packet
           new == Packet'
<1>2. Seq(old) \subseteq Seq(new)
  BY <1>1, SeqGrows
<1>3. /\ rows \in [Peer -> SUBSET old] /\ handling \in [Peer -> SUBSET old] /\ parked \in [Peer -> Seq(old)]
      /\ old \subseteq new
  BY <1>1 DEF MembersHold
<1> HIDE DEF old, new
<1>4. /\ rows \in [Peer -> SUBSET new] /\ handling \in [Peer -> SUBSET new] /\ parked \in [Peer -> Seq(new)]
  BY <1>2, <1>3
<1>5. held \in [Peer -> 0 .. Len(keys')] /\ applied \in [Peer -> SUBSET Ids']
  <2>1. 0 .. Len(keys) \subseteq 0 .. Len(keys')
    BY <1>1
  <2> QED BY <1>1, <2>1 DEF MembersHold
<1>6. \A p \in Peer : \A i \in DOMAIN parked[p] : parked[p][i].id \in Ids'
  BY <1>1 DEF MembersHold
<1> QED BY <1>4, <1>5, <1>6 DEF new

\* Handing a packet over.
LEMMA HandHolds ==
  ASSUME NEW S, rows \in [Peer -> SUBSET S], handling \in [Peer -> SUBSET S],
         NEW packet \in S, NEW to, NEW lost, Hand(to, packet, lost)
  PROVE  rows' \in [Peer -> SUBSET S] /\ handling' \in [Peer -> SUBSET S]
<1>1. handling' = [p \in Peer |-> handling[p] \cup {x \in {packet} : p \in to \cap present}]
  BY DEF Hand
<1>2. rows' = [p \in Peer |-> IF p \in (to \ present) \ lost
                              THEN Without(rows[p], packet) \cup {packet} ELSE rows[p]]
  BY DEF Hand
<1>3. \A p \in Peer : Without(rows[p], packet) \subseteq rows[p]
  BY DEF Without
<1> QED BY <1>1, <1>2, <1>3

\* Taking packets off the wire and out of the rows.
LEMMA SettleHolds ==
  ASSUME NEW S, rows \in [Peer -> SUBSET S], handling \in [Peer -> SUBSET S],
         NEW p \in Peer, NEW packet, Finish(p, packet)
  PROVE  /\ handling' \in [Peer -> SUBSET S]
         /\ Settle(p, packet) => rows' \in [Peer -> SUBSET S]
<1>1. handling' \in [Peer -> SUBSET S]
  BY DEF Finish
<1>2. Without(rows[p], packet) \subseteq rows[p]
  BY DEF Without
<1>3. ASSUME Settle(p, packet) PROVE rows' \in [Peer -> SUBSET S]
  BY <1>2, <1>3 DEF Settle
<1> QED BY <1>1, <1>3

\* What the sender sends.
LEMMA SendHolds == ASSUME Delivery, MembersHold, SendStep PROVE MembersHold'
<1>0. GroupNext
  BY DEF GroupNext
<1>1. /\ rows \in [Peer -> SUBSET Packet'] /\ handling \in [Peer -> SUBSET Packet']
      /\ parked \in [Peer -> Seq(Packet')]
      /\ \A p \in Peer : \A i \in DOMAIN parked[p] : parked[p][i].id \in Ids'
      /\ held \in [Peer -> 0 .. Len(keys')] /\ applied \in [Peer -> SUBSET Ids']
  BY <1>0, HoldsOn
<1>2. PICK c \in chores : ReadMembers(c) \/ ReadKey(c) \/ SaveKey(c) \/ ShareKey(c) \/ Post(c)
  BY DEF SendStep
<1>3. UNCHANGED <<parked, held, applied>>
  BY <1>2 DEF ReadMembers, ReadKey, SaveKey, ShareKey, Post, memberVars
<1>4. [id |-> c.id, key |-> c.key] \in Packet' /\ [id |-> 0, key |-> c.key] \in Packet'
  <2>1. c \in Chores /\ c.id \in Ids /\ c.key \in 0 .. Len(keys)
    BY DEF Delivery, SenderFits, Chores
  <2>2. [id |-> c.id, key |-> c.key] \in Packet /\ [id |-> 0, key |-> c.key] \in Packet
    BY <2>1 DEF Packet
  <2>3. Packet \subseteq Packet'
    BY <1>0, NothingShrinks
  <2> QED BY <2>2, <2>3
<1> DEFINE S == Packet'
<1>5. rows' \in [Peer -> SUBSET S] /\ handling' \in [Peer -> SUBSET S]
  <2>0. rows \in [Peer -> SUBSET S] /\ handling \in [Peer -> SUBSET S]
        /\ [id |-> c.id, key |-> c.key] \in S /\ [id |-> 0, key |-> c.key] \in S
    BY <1>1, <1>4
  <2> HIDE DEF S
  <2>1. CASE UNCHANGED <<rows, handling>>
    BY <2>0, <2>1
  <2>2. ASSUME NEW to, NEW packet \in S, NEW lost, Hand(to, packet, lost)
        PROVE  rows' \in [Peer -> SUBSET S] /\ handling' \in [Peer -> SUBSET S]
    BY <2>0, <2>2, HandHolds
  <2>3. CASE ShareKey(c)
    BY <2>0, <2>1, <2>2, <2>3 DEF ShareKey
  <2>4. CASE Post(c)
    BY <2>0, <2>1, <2>2, <2>4 DEF Post, Route
  <2>5. CASE ReadMembers(c) \/ ReadKey(c) \/ SaveKey(c)
    BY <2>1, <2>5 DEF ReadMembers, ReadKey, SaveKey, serverVars, memberVars
  <2> QED BY <1>2, <2>3, <2>4, <2>5
<1> QED BY <1>1, <1>3, <1>5 DEF MembersHold

\* A key is stored and what waited for it replayed.
LEMMA KeyHolds ==
  ASSUME Delivery, MembersHold, NEW p \in Peer, NEW packet \in handling[p], OnKey(p, packet)
  PROVE  MembersHold'
<1>1. packet \in Packet /\ packet.key \in 0 .. Len(keys)
  BY DEF MembersHold, Packet
<1>2. UNCHANGED <<events, keys>>
  BY DEF OnKey, senderVars
<1>3. Packet' = Packet /\ Ids' = Ids
  BY <1>2 DEF Packet, Ids
<1>4. rows' \in [Peer -> SUBSET Packet] /\ handling' \in [Peer -> SUBSET Packet]
  <2>1. rows \in [Peer -> SUBSET Packet] /\ handling \in [Peer -> SUBSET Packet]
    BY DEF MembersHold
  <2>2. Finish(p, packet) /\ Settle(p, packet)
    BY DEF OnKey
  <2> QED BY <2>1, <2>2, SettleHolds
<1>5. Replayed(parked[p], packet.key, applied[p]) \in SUBSET Ids
  <2> DEFINE q == parked[p]
  <2>1. q \in Seq(Packet) /\ (\A i \in DOMAIN q : q[i].id \in Ids) /\ applied[p] \in SUBSET Ids
    BY DEF MembersHold
  <2> HIDE DEF q
  <2>2. Len(q) \in Nat /\ \A i \in 1 .. Len(q) : q[i].id \in Ids
    BY <2>1
  <2>3. Replayed(q, packet.key, applied[p]) \in SUBSET Ids
    BY <2>1, <2>2, ReplayedIs
  <2> QED BY <2>3 DEF q
<1>6. applied' \in [Peer -> SUBSET Ids]
  <2>1. applied' = [applied EXCEPT ![p] = Replayed(parked[p], packet.key, @)]
    BY DEF OnKey
  <2> QED BY <1>5, <2>1 DEF MembersHold
<1>7. parked' \in [Peer -> Seq(Packet)] /\ \A o \in Peer : \A i \in DOMAIN parked'[o] : parked'[o][i].id \in Ids
  <2>1. parked' = [parked EXCEPT ![p] = <<>>]
    BY DEF OnKey
  <2>2. parked' \in [Peer -> Seq(Packet)]
    BY <2>1 DEF MembersHold
  <2>3. \A o \in Peer : parked'[o] = <<>> \/ parked'[o] = parked[o]
    BY <2>1 DEF MembersHold
  <2> QED BY <2>2, <2>3 DEF MembersHold
<1>8. held' \in [Peer -> 0 .. Len(keys)]
  BY <1>1 DEF OnKey, MembersHold
<1> QED BY <1>2, <1>3, <1>4, <1>6, <1>7, <1>8 DEF MembersHold

\* An event is shown, passed over or parked.
LEMMA EventHolds ==
  ASSUME Delivery, MembersHold, NEW p \in Peer, NEW packet \in handling[p],
         OnEvent(p, packet) \/ Parks(p, packet)
  PROVE  MembersHold'
<1>1. packet \in Packet /\ packet.id \in Ids
  BY DEF MembersHold, Packet, OnEvent, Parks
<1>2. UNCHANGED <<events, keys, held>> /\ Finish(p, packet)
  BY DEF OnEvent, Parks, senderVars
<1>3. Packet' = Packet /\ Ids' = Ids
  BY <1>2 DEF Packet, Ids
<1>4. rows' \in [Peer -> SUBSET Packet] /\ handling' \in [Peer -> SUBSET Packet]
  <2>1. rows \in [Peer -> SUBSET Packet] /\ handling \in [Peer -> SUBSET Packet]
    BY DEF MembersHold
  <2>2. Settle(p, packet) \/ UNCHANGED rows
    BY DEF OnEvent, Parks, serverVars
  <2> QED BY <1>2, <2>1, <2>2, SettleHolds
<1>5. applied' \in [Peer -> SUBSET Ids]
  <2>1. Show(p, packet) \/ UNCHANGED applied
    BY DEF OnEvent, Parks
  <2> QED BY <1>1, <2>1 DEF Show, MembersHold
<1>6. parked' \in [Peer -> Seq(Packet)] /\ \A o \in Peer : \A i \in DOMAIN parked'[o] : parked'[o][i].id \in Ids
  <2> DEFINE q == parked[p]
             r == Append(q, packet)
  <2>1. parked' = parked \/ parked' = [parked EXCEPT ![p] = r]
    BY DEF OnEvent, Parks
  <2>2. q \in Seq(Packet) /\ \A i \in DOMAIN q : q[i].id \in Ids
    BY DEF MembersHold
  <2> HIDE DEF q
  <2>3. r \in Seq(Packet) /\ \A i \in DOMAIN r : r[i].id \in Ids
    BY <1>1, <2>2
  <2> HIDE DEF r
  <2>4. parked' \in [Peer -> Seq(Packet)]
    BY <2>1, <2>3 DEF MembersHold
  <2>5. \A o \in Peer : parked'[o] = r \/ parked'[o] = parked[o]
    BY <2>1 DEF MembersHold
  <2> QED BY <2>3, <2>4, <2>5 DEF MembersHold
<1> QED BY <1>2, <1>3, <1>4, <1>5, <1>6 DEF MembersHold

LEMMA MembersHoldStep == ASSUME Delivery, MembersHold, [GroupNext]_groupVars PROVE MembersHold'
<1>1. /\ rows \in [Peer -> SUBSET Packet'] /\ handling \in [Peer -> SUBSET Packet']
      /\ parked \in [Peer -> Seq(Packet')]
      /\ \A p \in Peer : \A i \in DOMAIN parked[p] : parked[p][i].id \in Ids'
      /\ held \in [Peer -> 0 .. Len(keys')] /\ applied \in [Peer -> SUBSET Ids']
  BY HoldsOn
<1>2. ASSUME UNCHANGED <<rows, handling, parked, held, applied>> PROVE MembersHold'
  BY <1>1, <1>2 DEF MembersHold
<1>3. CASE SendStep
  BY <1>3, SendHolds
<1>4. ASSUME NEW p \in Peer, NEW packet \in handling[p], OnKey(p, packet) \/ OnEvent(p, packet) \/ Parks(p, packet)
      PROVE  MembersHold'
  BY <1>4, KeyHolds, EventHolds
<1>5. ASSUME NEW p \in Peer, Returns(p) PROVE MembersHold'
  <2>1. UNCHANGED <<rows, parked, held, applied>> /\ handling' = [handling EXCEPT ![p] = @ \cup rows[p]]
    BY <1>5 DEF Returns, serverVars
  <2>2. handling' \in [Peer -> SUBSET Packet']
    <3> DEFINE S == Packet'
    <3>1. rows \in [Peer -> SUBSET S] /\ handling \in [Peer -> SUBSET S]
      BY <1>1
    <3> HIDE DEF S
    <3>2. handling' \in [Peer -> SUBSET S]
      BY <2>1, <3>1
    <3> QED BY <3>2 DEF S
  <2> QED BY <1>1, <2>1, <2>2 DEF MembersHold
<1>6. ASSUME NEW p \in Peer, NEW reload \in BOOLEAN, Leaves(p, reload) PROVE MembersHold'
  <2>1. PICK started \in SUBSET handling[p] : handling' = [handling EXCEPT ![p] = started]
    BY <1>6 DEF Leaves
  <2>2. UNCHANGED <<rows, held, applied>> /\ (parked' = parked \/ parked' = [parked EXCEPT ![p] = <<>>])
    BY <1>6 DEF Leaves, serverVars
  <2> DEFINE S == Packet'
  <2>3. handling \in [Peer -> SUBSET S] /\ parked \in [Peer -> Seq(S)]
    BY <1>1
  <2>4. \A o \in Peer : parked'[o] = <<>> \/ parked'[o] = parked[o]
    BY <2>2, <2>3
  <2>5. \A o \in Peer : \A i \in DOMAIN parked'[o] : parked'[o][i].id \in Ids'
    <3> SUFFICES ASSUME NEW o \in Peer, NEW i \in DOMAIN parked'[o] PROVE parked'[o][i].id \in Ids'
      OBVIOUS
    <3>1. parked'[o] = parked[o]
      BY <2>4
    <3> QED BY <1>1, <3>1
  <2> HIDE DEF S
  <2>6. handling' \in [Peer -> SUBSET S] /\ parked' \in [Peer -> Seq(S)]
    <3>1. handling' \in [Peer -> SUBSET S]
      BY <2>1, <2>3
    <3>2. <<>> \in Seq(S)
      OBVIOUS
    <3>3. parked' \in [Peer -> Seq(S)]
      BY <2>2, <2>3, <3>2
    <3> QED BY <3>1, <3>3
  <2> QED BY <1>1, <2>2, <2>5, <2>6 DEF MembersHold, S
<1>7. ASSUME NEW type \in {"message", "edit"}, NEW sealed \in BOOLEAN, NEW target, Compose(type, sealed, target)
      PROVE  UNCHANGED <<rows, handling, parked, held, applied>>
  BY <1>7 DEF Compose, memberVars
<1>8. ASSUME \/ FlushStarts \/ FlushGoesOn \/ LoseLink \/ Relink \/ ListMembers
             \/ \E id \in Ids : OnAck(id)
             \/ \E p \in Peer \cup {Me} : ChangeMembers(p)
             \/ UNCHANGED groupVars
      PROVE  UNCHANGED <<rows, handling, parked, held, applied>>
  BY <1>8 DEF FlushStarts, FlushGoesOn, LoseLink, Relink, ListMembers, OnAck, ChangeMembers,
              groupVars, serverVars, memberVars
<1> QED BY <1>2, <1>3, <1>4, <1>5, <1>6, <1>7, <1>8 DEF GroupNext

\* A send that moves on stays the one it was for the loop.
LEMMA StaysQueued ==
  ASSUME OneQueued, NEW c \in chores, NEW d, d.queued <=> c.queued, Becomes(c, d), UNCHANGED <<flushing, left>>
  PROVE  OneQueued'
BY DEF OneQueued, Becomes

LEMMA OneQueuedStep == ASSUME Delivery, OneQueued, [GroupNext]_groupVars PROVE OneQueued'
<1>1. ASSUME UNCHANGED <<flushing, left, chores>> PROVE OneQueued'
  BY <1>1 DEF OneQueued
<1>2. ASSUME NEW type \in {"message", "edit"}, NEW sealed \in BOOLEAN, NEW target, Compose(type, sealed, target)
      PROVE  OneQueued'
  <2>1. UNCHANGED <<flushing, left>> /\
        (UNCHANGED chores \/ chores' = chores \cup {Chore(Len(events) + 1, FALSE)})
    BY <1>2 DEF Compose
  <2>2. ~Chore(Len(events) + 1, FALSE).queued
    BY DEF Chore
  <2> QED BY <2>1, <2>2 DEF OneQueued
<1>3. CASE FlushStarts
  BY <1>3 DEF FlushStarts, OneQueued
<1>4. CASE FlushGoesOn
  <2>1. CASE left = {}
    BY <1>4, <2>1 DEF FlushGoesOn, OneQueued
  <2>2. CASE left # {}
    <3>1. PICK c : chores' = chores \cup {c}
      BY <1>4, <2>2 DEF FlushGoesOn
    <3>2. flushing' /\ \A d \in chores : ~d.queued
      BY <1>4, <2>2 DEF FlushGoesOn
    <3> QED BY <3>1, <3>2 DEF OneQueued
  <2> QED BY <2>1, <2>2
<1>5. ASSUME NEW c \in chores, ReadMembers(c) \/ ReadKey(c) \/ SaveKey(c) PROVE OneQueued'
  <2>0. c \in Chores
    BY DEF Delivery, SenderFits
  <2>1. PICK d : Becomes(c, d) /\ d.queued = c.queued
    <3>1. \A s, people : [c EXCEPT !.step = s, !.people = people].queued = c.queued
      BY <2>0 DEF Chores
    <3>2. \A s, k : [c EXCEPT !.step = s, !.key = k].queued = c.queued
      BY <2>0 DEF Chores
    <3>3. \A s : [c EXCEPT !.step = s].queued = c.queued
      BY <2>0 DEF Chores
    <3>4. CASE ReadMembers(c)
      BY <3>1, <3>4 DEF ReadMembers
    <3>5. CASE ReadKey(c)
      BY <3>2, <3>5 DEF ReadKey
    <3>6. CASE SaveKey(c)
      BY <3>3, <3>6 DEF SaveKey
    <3> QED BY <1>5, <3>4, <3>5, <3>6
  <2>2. UNCHANGED <<flushing, left>>
    BY <1>5 DEF ReadMembers, ReadKey, SaveKey
  <2> QED BY <2>1, <2>2, StaysQueued
<1>6. ASSUME NEW c \in chores, ShareKey(c) PROVE OneQueued'
  <2>0. c \in Chores
    BY DEF Delivery, SenderFits
  <2>1. CASE linked
    <3> DEFINE d == [c EXCEPT !.step = "post"]
    <3>1. d.queued = c.queued
      BY <2>0 DEF Chores
    <3>2. Becomes(c, d) /\ UNCHANGED <<flushing, left>>
      BY <1>6, <2>1 DEF ShareKey
    <3> HIDE DEF d
    <3> QED BY <3>1, <3>2, StaysQueued
  <2>2. CASE ~linked
    <3>1. chores' = chores \ {c} /\ IF c.queued THEN flushing' = FALSE /\ left' = {}
                                                ELSE UNCHANGED <<flushing, left>>
      BY <1>6, <2>2 DEF ShareKey, Throws
    <3>2. CASE c.queued
      BY <3>1, <3>2 DEF OneQueued
    <3>3. CASE ~c.queued
      BY <3>1, <3>3 DEF OneQueued
    <3> QED BY <3>2, <3>3
  <2> QED BY <2>1, <2>2
<1>7. ASSUME NEW c \in chores, Post(c) PROVE OneQueued'
  BY <1>7 DEF Post, OneQueued
<1>8. ASSUME NEW p \in Peer, NEW packet \in handling[p], OnKey(p, packet) \/ OnEvent(p, packet) \/ Parks(p, packet)
      PROVE  OneQueued'
  BY <1>1, <1>8 DEF OnKey, OnEvent, Parks, senderVars
<1>9. CASE \/ LoseLink \/ Relink \/ ListMembers \/ \E id \in Ids : OnAck(id)
           \/ \E p \in Peer \cup {Me} : ChangeMembers(p)
           \/ \E p \in Peer : Returns(p) \/ \E reload \in BOOLEAN : Leaves(p, reload)
           \/ UNCHANGED groupVars
  BY <1>1, <1>9 DEF LoseLink, Relink, ListMembers, OnAck, ChangeMembers, Returns, Leaves,
                    groupVars, senderVars
<1> QED BY <1>2, <1>3, <1>4, <1>5, <1>6, <1>7, <1>8, <1>9 DEF GroupNext, SendStep

\* At first nothing is parked, held or under way.
LEMMA HoldsAtFirst == ASSUME GroupInit PROVE MembersHold /\ OneQueued
<1>1. /\ events = <<>> /\ keys = <<>> /\ chores = {} /\ left = {}
      /\ rows = [p \in Peer |-> {}] /\ handling = [p \in Peer |-> {}] /\ parked = [p \in Peer |-> <<>>]
      /\ held = [p \in Peer |-> 0] /\ applied = [p \in Peer |-> {}]
  BY DEF GroupInit
<1>2. Len(keys) = 0
  BY <1>1
<1> QED BY <1>1, <1>2 DEF MembersHold, OneQueued

\* Whatever sends, faults and replays interleave, every event and key that is
\* named exists, and the flush loop has nothing left when it has ended or
\* thrown (socket.ts, socketGroups.ts).
THEOREM GroupTypeCorrect == GroupSpec => []GroupTypeOK
<1> DEFINE I == Delivery /\ MembersHold /\ OneQueued
<1>1. GroupInit => I
  BY DeliveryInit, HoldsAtFirst
<1>2. I /\ [GroupNext]_groupVars => I'
  BY DeliveryStep, MembersHoldStep, OneQueuedStep
<1>3. I => GroupTypeOK
  <2> SUFFICES ASSUME I PROVE GroupTypeOK
    OBVIOUS
  <2>1. queue \cup acked \cup left \subseteq Ids /\ listed \subseteq Peer
    BY DEF Delivery, SenderFits, ServerFits
  <2>2. \A id \in Ids : goal[id] \cup reached[id] \subseteq Peer
    BY DEF Delivery, SenderFits, ServerFits
  <2>3. own.key \in 0 .. Len(keys) /\ \A c \in chores : c.id \in Ids /\ c.key \in 0 .. Len(keys)
    BY DEF Delivery, SenderFits, Chores
  <2>4. \A p \in Peer : held[p] \in 0 .. Len(keys) /\ applied[p] \subseteq Ids
    BY DEF MembersHold
  <2> QED BY <2>1, <2>2, <2>3, <2>4 DEF GroupTypeOK, OneQueued
<1> QED BY <1>1, <1>2, <1>3, PTL DEF GroupSpec

-----------------------------------------------------------------------------
(* History: what is read in pages while envelopes come live.               *)

Reading == {"look", "open", "store"}

\* The history only grows, and keeps its rows.
LEMMA TableGrows ==
  ASSUME table \in Seq(Row), NEW row \in Row, table' = Append(table, row)
  PROVE  /\ table' \in Seq(Row) /\ Rows \subseteq Rows' /\ Rows' = Rows \cup {Len(table) + 1}
         /\ Len(table) + 1 \notin Rows
         /\ table'[Len(table) + 1] = row
         /\ \A id \in Rows : table'[id] = table[id]
  BY DEF Rows

\* A form does not touch which messages there are.
LEMMA ChangedKeeps ==
  ASSUME HistoryTypeOK, NEW id, NEW form \in {"sent", "edited", "deleted"}
  PROVE  /\ Changed(id, form) \subseteq [id : Rows, form : {"sent", "edited", "deleted"}]
         /\ \A m \in Changed(id, form) : \E k \in kept : k.id = m.id
         /\ \A k \in kept : \E m \in Changed(id, form) : k.id = m.id
<1>1. \A m \in kept : m \in [id : Rows, form : {"sent", "edited", "deleted"}]
  BY DEF HistoryTypeOK
<1>2. \A m \in kept : /\ [m EXCEPT !.form = form] \in [id : Rows, form : {"sent", "edited", "deleted"}]
                      /\ [m EXCEPT !.form = form].id = m.id
  BY <1>1
<1>3. \A m \in Changed(id, form) : \E k \in kept : m = IF k.id = id THEN [k EXCEPT !.form = form] ELSE k
  BY DEF Changed
<1>4. \A k \in kept : (IF k.id = id THEN [k EXCEPT !.form = form] ELSE k) \in Changed(id, form)
  BY DEF Changed
<1>5. \A m \in Changed(id, form) : m \in [id : Rows, form : {"sent", "edited", "deleted"}]
  BY <1>1, <1>2, <1>3
<1>6. \A m \in Changed(id, form) : \E k \in kept : k.id = m.id
  BY <1>2, <1>3
<1>7. \A k \in kept : \E m \in Changed(id, form) : k.id = m.id
  BY <1>2, <1>4
<1> QED BY <1>5, <1>6, <1>7

\* What a page and a task may be.
TasksFit(ts) ==
  /\ ts \subseteq Task
  /\ \A t \in ts : t.at \in {0} \cup Rows /\ (t.step \in Reading => t.id \in Rows /\ t.last \in Rows)

\* Taking a task away, and adding one.
LEMMA TaskLeaves == ASSUME NEW ts, TasksFit(ts), NEW t PROVE TasksFit(ts \ {t})
  BY DEF TasksFit

LEMMA TaskMoves ==
  ASSUME NEW ts, TasksFit(ts), NEW t, NEW u \in Task, u.at \in {0} \cup Rows,
         u.step \in Reading => u.id \in Rows /\ u.last \in Rows
  PROVE  TasksFit((ts \ {t}) \cup {u})
  BY DEF TasksFit

\* A row done leads to the next one, or moves the cursor within the history.
LEMMA DoneFits ==
  ASSUME HistoryTypeOK, NEW t \in tasks, t.step \in Reading, Done(t)
  PROVE  TasksFit(tasks') /\ wire' \subseteq Rows /\ cursor' \in {0} \cup Rows /\ syncing' \in BOOLEAN
<1>1. /\ TasksFit(tasks) /\ wire \subseteq Rows /\ cursor \in {0} \cup Rows /\ syncing \in BOOLEAN
      /\ t \in Task /\ t.id \in Rows /\ t.last \in Rows /\ t.at \in {0} \cup Rows /\ Rows = 1 .. Len(table)
      /\ Len(table) \in Nat
  BY DEF HistoryTypeOK, TasksFit, Reading, Rows
<1>2. TasksFit(tasks \ {t})
  BY <1>1, TaskLeaves
<1>3. CASE t.kind = "live"
  BY <1>1, <1>2, <1>3 DEF Done, Answers
<1>4. CASE t.kind # "live" /\ t.id < t.last
  <2> DEFINE u == [t EXCEPT !.step = "look", !.id = @ + 1]
  <2>0. t.id \in Nat /\ t.last \in Nat /\ t.id + 1 \in Nat /\ t.id + 1 \in Rows
    BY <1>1, <1>4
  <2>1. u \in Task /\ u.at \in {0} \cup Rows /\ u.id \in Rows /\ u.last \in Rows
    BY <1>1, <2>0 DEF Task
  <2>2. TasksFit((tasks \ {t}) \cup {u})
    BY <1>1, <2>1, TaskMoves
  <2> QED BY <1>1, <1>4, <2>2 DEF Done, NextRow
<1>5. CASE t.kind # "live" /\ ~(t.id < t.last)
  <2> DEFINE u == [t EXCEPT !.step = "fetch", !.at = t.last]
  <2>1. u \in Task /\ u.at \in {0} \cup Rows /\ u.step \notin Reading
    BY <1>1 DEF Task, Reading
  <2>2. TasksFit((tasks \ {t}) \cup {u})
    BY <1>1, <2>1, TaskMoves
  <2> QED BY <1>1, <1>2, <1>5, <2>2 DEF Done, NextRow
<1> QED BY <1>3, <1>4, <1>5

\* A task goes on to another step.
LEMMA GoesFits ==
  ASSUME HistoryTypeOK, NEW t \in tasks, t.step \in Reading, NEW step \in {"open", "store"}, Goes(t, step)
  PROVE  TasksFit(tasks')
<1> DEFINE u == [t EXCEPT !.step = step]
<1>1. TasksFit(tasks) /\ u \in Task /\ u.at \in {0} \cup Rows /\ u.id \in Rows /\ u.last \in Rows
  BY DEF HistoryTypeOK, TasksFit, Reading, Task
<1> QED BY <1>1, TaskMoves DEF Goes

\* The type invariant from its parts, in the next state.
LEMMA TypeFromParts ==
  ASSUME table' \in Seq(Row), wire' \cup spent' \cup known' \subseteq Rows', cursor' \in {0} \cup Rows',
         kept' \subseteq [id : Rows', form : {"sent", "edited", "deleted"}],
         {session', syncing', spoilt'} \subseteq BOOLEAN, breaks' \in Nat, TasksFit(tasks)'
  PROVE  HistoryTypeOK'
  BY DEF HistoryTypeOK, TasksFit, Reading

\* Every step keeps the types.
LEMMA TypeStep == ASSUME HistoryTypeOK, [HistoryNext]_historyVars PROVE HistoryTypeOK'
<1> USE HistoryAssumption
<1>0. /\ TasksFit(tasks) /\ table \in Seq(Row) /\ wire \cup spent \cup known \subseteq Rows
      /\ cursor \in {0} \cup Rows /\ kept \subseteq [id : Rows, form : {"sent", "edited", "deleted"}]
      /\ {session, syncing, spoilt} \subseteq BOOLEAN /\ breaks \in Nat
      /\ Rows = 1 .. Len(table) /\ Len(table) \in Nat
  BY DEF HistoryTypeOK, TasksFit, Reading, Rows
<1>1. ASSUME NEW kind \in {"message", "edit", "delete"}, NEW target \in {0} \cup Rows, Accepted(kind, target)
      PROVE  HistoryTypeOK'
  <2> DEFINE row == [by |-> "peer", kind |-> kind, target |-> target]
  <2>1. Len(table) < MaxRows /\ table' = Append(table, row) /\ row \in Row
    BY <1>0, <1>1 DEF Accepted, Grows, Row
  <2>2. table' \in Seq(Row) /\ Rows \subseteq Rows' /\ Len(table) + 1 \in Rows'
    BY <1>0, <2>1, TableGrows
  <2>3. TasksFit(tasks)'
    BY <1>0, <1>1, <2>2 DEF Accepted, TasksFit
  <2> QED BY <1>0, <1>1, <2>2, <2>3, TypeFromParts DEF Accepted
<1>2. CASE Sends
  <2> DEFINE row == [by |-> "me", kind |-> "message", target |-> 0]
  <2>1. table' = Append(table, row) /\ row \in Row
    BY <1>0, <1>2 DEF Sends, Grows, Row
  <2>2. table' \in Seq(Row) /\ Rows \subseteq Rows' /\ Len(table) + 1 \in Rows'
    BY <1>0, <2>1, TableGrows
  <2>3. TasksFit(tasks)'
    BY <1>0, <1>2, <2>2 DEF Sends, TasksFit
  <2>4. kept' \subseteq [id : Rows', form : {"sent", "edited", "deleted"}]
    BY <1>0, <1>2, <2>2 DEF Sends, Stored
  <2> QED BY <1>0, <1>2, <2>2, <2>3, <2>4, TypeFromParts DEF Sends
<1>3. CASE Clear
  BY <1>0, <1>3, TypeFromParts DEF Clear, Break, TasksFit, Rows
<1>4. CASE ReloadChat
  <2>1. spoilt' \in BOOLEAN /\ breaks' \in Nat /\ Rows' = Rows /\ TasksFit(tasks)'
    BY <1>0, <1>4 DEF ReloadChat, Break, TasksFit, Rows
  <2> QED BY <1>0, <1>4, <2>1, TypeFromParts DEF ReloadChat
<1>5. CASE Healed
  BY <1>0, <1>5, TypeFromParts DEF Healed, TasksFit, Rows
<1>6. CASE SyncCalled
  <2>1. PICK n \in 1 .. MaxTasks :
          tasks' = tasks \cup {[kind |-> "sync", nr |-> n, step |-> "ready", at |-> 0, id |-> 0, last |-> 0]}
    BY <1>6 DEF SyncCalled, Begins
  <2>2. TasksFit(tasks')
    BY <1>0, <2>1 DEF TasksFit, Task, Reading
  <2> QED BY <1>0, <1>6, <2>2, TypeFromParts DEF SyncCalled, TasksFit, Rows
<1>7. ASSUME NEW id \in wire, Receives(id) PROVE HistoryTypeOK'
  <2>1. tasks' = tasks \cup {[kind |-> "live", nr |-> 0, step |-> "look", at |-> 0, id |-> id, last |-> id]}
    BY <1>7 DEF Receives, Begins
  <2>2. TasksFit(tasks')
    BY <1>0, <2>1 DEF TasksFit, Task, Reading
  <2> QED BY <1>0, <1>7, <2>2, TypeFromParts DEF Receives, TasksFit, Rows
<1>8. ASSUME NEW t \in tasks, Look(t) PROVE HistoryTypeOK'
  <2>1. UNCHANGED <<table, spent, session, known, breaks>> /\ Rows' = Rows /\ t.step \in Reading
    BY <1>8 DEF Look, Rows, Reading
  <2>2. CASE Done(t) /\ UNCHANGED spoilt
    <3>1. kept' = kept \/ kept' = Changed(table[t.id].target, "deleted") \/ Goes(t, "open")
      BY <1>8 DEF Look
    <3>2. kept' \subseteq [id : Rows, form : {"sent", "edited", "deleted"}]
      BY <1>0, <1>8, <2>1, ChangedKeeps DEF Look
    <3> QED BY <1>0, <2>1, <2>2, <3>2, DoneFits, TypeFromParts DEF TasksFit
  <2>3. CASE Goes(t, "open") /\ UNCHANGED <<kept, cursor, syncing, wire>> /\ spoilt' \in BOOLEAN
    BY <1>0, <2>1, <2>3, GoesFits, TypeFromParts DEF TasksFit
  <2> QED BY <1>8, <2>2, <2>3 DEF Look
<1>9. ASSUME NEW t \in tasks, Opens(t) PROVE HistoryTypeOK'
  <2>1. t.step \in Reading /\ t.id \in Rows /\ Rows' = Rows
    BY <1>0, <1>9 DEF Opens, Reading, TasksFit, Rows
  <2> QED BY <1>0, <1>9, <2>1, GoesFits, TypeFromParts DEF Opens, TasksFit
<1>10. ASSUME NEW t \in tasks, SyncStops(t) PROVE HistoryTypeOK'
  BY <1>0, <1>10, TaskLeaves, TypeFromParts DEF SyncStops, SyncLeaves, TasksFit, Rows
<1>11. ASSUME NEW t \in tasks, LiveFails(t) PROVE HistoryTypeOK'
  BY <1>0, <1>11, TaskLeaves, TypeFromParts DEF LiveFails, Answers, TasksFit, Rows
<1>12. ASSUME NEW t \in tasks, Keeps(t) PROVE HistoryTypeOK'
  <2>1. t.step \in Reading /\ t.id \in Rows /\ Rows' = Rows /\ Done(t)
    BY <1>0, <1>12 DEF Keeps, Reading, TasksFit, Rows
  <2>2. kept' \subseteq [id : Rows, form : {"sent", "edited", "deleted"}] /\ known' \subseteq Rows
    BY <1>0, <1>12, <2>1, ChangedKeeps DEF Keeps, Stored
  <2> QED BY <1>0, <1>12, <2>1, <2>2, DoneFits, TypeFromParts DEF Keeps, TasksFit
<1>13. ASSUME NEW t \in tasks, SyncStarts(t) PROVE HistoryTypeOK'
  <2> DEFINE at == IF kept = {} THEN 0 ELSE cursor
             u == [t EXCEPT !.step = "fetch", !.at = at]
  <2>0. t \in Task /\ at \in Nat /\ at \in {0} \cup Rows
    BY <1>0 DEF TasksFit
  <2> HIDE DEF at
  <2>1. u \in Task /\ u.at \in {0} \cup Rows /\ u.step \notin Reading
    BY <2>0 DEF Task, Reading
  <2>2. TasksFit((tasks \ {t}) \cup {u})
    BY <1>0, <2>1, TaskMoves
  <2> QED BY <1>0, <1>13, <2>2, TypeFromParts DEF SyncStarts, TasksFit, Rows, at
<1>14. ASSUME NEW t \in tasks, SyncDropped(t) PROVE HistoryTypeOK'
  BY <1>0, <1>14, TaskLeaves, TypeFromParts DEF SyncDropped, TasksFit, Rows
<1>15. ASSUME NEW t \in tasks, Fetches(t) PROVE HistoryTypeOK'
  <2> DEFINE last == IF t.at + Page < Len(table) THEN t.at + Page ELSE Len(table)
             u == [t EXCEPT !.step = "look", !.id = t.at + 1, !.last = last]
  <2>1. t \in Task /\ t.at \in Nat /\ t.at < Len(table)
    BY <1>0, <1>15 DEF Fetches, TasksFit, Task
  <2>2. t.at + 1 \in Rows /\ t.at + 1 \in Nat /\ last \in Rows /\ last \in Nat /\ t.at \in {0} \cup Rows
    BY <1>0, <2>1 DEF TasksFit
  <2> HIDE DEF last
  <2>3. u \in Task /\ u.at \in {0} \cup Rows /\ u.id \in Rows /\ u.last \in Rows
    BY <2>1, <2>2 DEF Task
  <2>4. TasksFit((tasks \ {t}) \cup {u})
    BY <1>0, <2>3, TaskMoves
  <2> QED BY <1>0, <1>15, <2>4, TypeFromParts DEF Fetches, TasksFit, Rows, last
<1>16. ASSUME NEW t \in tasks, FetchEnds(t) PROVE HistoryTypeOK'
  BY <1>0, <1>16, TaskLeaves, TypeFromParts DEF FetchEnds, SyncLeaves, TasksFit, Rows
<1>17. CASE UNCHANGED historyVars
  BY <1>0, <1>17, TypeFromParts DEF historyVars, TasksFit, Rows
<1> QED BY <1>1, <1>2, <1>3, <1>4, <1>5, <1>6, <1>7, <1>8, <1>9, <1>10, <1>11, <1>12, <1>13, <1>14,
           <1>15, <1>16, <1>17 DEF HistoryNext

\* The first state has the types.
LEMMA HistoryTypeInit == ASSUME HistoryInit PROVE HistoryTypeOK
<1> DEFINE row == [by |-> "peer", kind |-> "message", target |-> 0]
<1>1. row \in Row /\ table = <<row>>
  BY HistoryAssumption DEF HistoryInit, Row
<1> HIDE DEF row
<1>2. table \in Seq(Row) /\ Rows = {1}
  BY <1>1 DEF Rows
<1>3. kept \subseteq [id : Rows, form : {"sent", "edited", "deleted"}]
  BY <1>2 DEF HistoryInit, Stored
<1>4. wire \cup spent \cup known \subseteq Rows /\ cursor \in {0} \cup Rows
  BY <1>2 DEF HistoryInit
<1> QED BY <1>2, <1>3, <1>4 DEF HistoryInit, HistoryTypeOK

\* The variables of History have their types: what syncDirectHistory, the
\* handlers of envelopes, clearing, reloading and repair leave behind.
THEOREM HistoryTypeCorrect == HistorySpec => []HistoryTypeOK
  BY HistoryTypeInit, TypeStep, PTL DEF HistorySpec

-----------------------------------------------------------------------------
\* Every message of the peer up to n has been stored.
IsTheirs(id) == table[id].by = "peer" /\ table[id].kind = "message"
Read(n) == \A id \in Rows : id <= n /\ IsTheirs(id) => id \in known

\* A sync has stored what lies below the page, and of the page what lies
\* before its row.
SyncFine(t) ==
  t.kind = "sync" => /\ t.step = "fetch" => Read(t.at)
                     /\ t.step \in Reading => Read(t.id - 1) /\ t.id <= t.last

ReadInv ==
  /\ Read(cursor)
  /\ \A t \in tasks : SyncFine(t)
  /\ \A m \in kept : IsTheirs(m.id) => m.id \in known

\* What was read stays read when the history grows.
LEMMA ReadStays ==
  ASSUME HistoryTypeOK, ReadInv, known \subseteq known',
         table' = table \/ \E row \in Row : table' = Append(table, row)
  PROVE  /\ Read(cursor) /\ \A n \in Nat : n <= Len(table) /\ Read(n) => Read(n)'
         /\ \A t \in tasks : SyncFine(t)'
         /\ \A m \in kept : IsTheirs(m.id)' => m.id \in known'
<1>1. /\ table \in Seq(Row) /\ Rows = 1 .. Len(table) /\ Len(table) \in Nat
      /\ \A m \in kept : m.id \in Rows
      /\ \A t \in tasks : t \in Task /\ t.at \in {0} \cup Rows /\ (t.step \in Reading => t.id \in Rows)
  BY DEF HistoryTypeOK, Rows, Reading
<1>2. /\ \A id \in Rows : id \in Rows' /\ table'[id] = table[id]
      /\ \A id \in Rows' : id \in Rows \/ id = Len(table) + 1
  BY <1>1, TableGrows DEF Rows
<1>3. ASSUME NEW n \in Nat, n <= Len(table), Read(n) PROVE Read(n)'
  BY <1>1, <1>2, <1>3 DEF Read, IsTheirs
<1>4. ASSUME NEW t \in tasks PROVE SyncFine(t)'
  <2>1. CASE t.kind = "sync" /\ t.step = "fetch"
    <3>1. t.at \in Nat /\ t.at <= Len(table) /\ Read(t.at)
      BY <1>1, <2>1 DEF ReadInv, SyncFine
    <3>2. Read(t.at)'
      BY <3>1, <1>3
    <3> QED BY <2>1, <3>2 DEF SyncFine, Reading
  <2>2. CASE t.kind = "sync" /\ t.step \in Reading
    <3>1. t.id - 1 \in Nat /\ t.id - 1 <= Len(table) /\ Read(t.id - 1) /\ t.id <= t.last
      BY <1>1, <2>2 DEF ReadInv, SyncFine
    <3>2. Read(t.id - 1)'
      BY <3>1, <1>3
    <3> QED BY <2>2, <3>1, <3>2 DEF SyncFine, Reading
  <2> QED BY <2>1, <2>2 DEF SyncFine
<1>5. \A m \in kept : IsTheirs(m.id)' => m.id \in known'
  BY <1>1, <1>2 DEF IsTheirs, ReadInv
<1> QED BY <1>3, <1>4, <1>5 DEF ReadInv

\* Doing with the row of a task leaves the chat read up to the next one.
LEMMA DoneReads ==
  ASSUME HistoryTypeOK, ReadInv, UNCHANGED table, known \subseteq known', NEW t \in tasks, t.step \in Reading,
         Done(t), IsTheirs(t.id) => t.id \in known'
  PROVE  Read(cursor)' /\ \A x \in tasks' : SyncFine(x)'
<1>1. /\ Rows = 1 .. Len(table) /\ Len(table) \in Nat /\ cursor \in Nat /\ cursor <= Len(table)
      /\ t \in Task /\ t.id \in Rows /\ t.last \in Rows /\ t.at \in {0} \cup Rows
  BY DEF HistoryTypeOK, Rows, Reading
<1>2. (\A x \in tasks : SyncFine(x)') /\ Read(cursor) /\ (Read(cursor) => \A n \in {cursor} : Read(n)')
  BY <1>1, ReadStays
<1>3. CASE t.kind = "live"
  <2>1. cursor' = cursor /\ tasks' = tasks \ {t}
    BY <1>3 DEF Done, Answers
  <2>2. Read(cursor)'
    BY <1>2, <2>1 DEF Read
  <2> QED BY <1>2, <2>1, <2>2
<1>4. CASE t.kind = "sync"
  <2>1. NextRow(t) /\ Read(t.id - 1) /\ t.id <= t.last
    BY <1>4 DEF Done, ReadInv, SyncFine
  <2>2. \A n \in {t.id} : Read(n)'
    BY <1>1, <2>1 DEF Read, IsTheirs, Rows
  <2>3. CASE t.id < t.last
    <3> DEFINE u == [t EXCEPT !.step = "look", !.id = @ + 1]
    <3>1. cursor' = cursor /\ tasks' = (tasks \ {t}) \cup {u}
      BY <2>1, <2>3 DEF NextRow
    <3>2. u.id = t.id + 1 /\ u.last = t.last /\ u.step = "look" /\ u.id - 1 = t.id /\ u.id <= u.last
      BY <1>1, <2>3 DEF Task
    <3>3. SyncFine(u)'
      BY <2>2, <3>2 DEF SyncFine, Reading
    <3>4. Read(cursor)'
      BY <1>2, <3>1 DEF Read
    <3> QED BY <1>2, <3>1, <3>3, <3>4
  <2>4. CASE ~(t.id < t.last)
    <3> DEFINE u == [t EXCEPT !.step = "fetch", !.at = t.last]
    <3>1. cursor' = t.id /\ tasks' \subseteq (tasks \ {t}) \cup {u} /\ t.id = t.last
      BY <1>1, <2>1, <2>4 DEF NextRow
    <3>2. u.at = t.id /\ u.step = "fetch"
      BY <1>1, <3>1 DEF Task
    <3>3. SyncFine(u)'
      BY <2>2, <3>2 DEF SyncFine, Reading
    <3>4. Read(cursor)'
      BY <2>2, <3>1 DEF Read
    <3> QED BY <1>2, <3>1, <3>3, <3>4
  <2> QED BY <2>3, <2>4
<1> QED BY <1>1, <1>3, <1>4 DEF Task

\* Steps that move no task over a row, and read nothing.
LEMMA QuietReads ==
  ASSUME HistoryTypeOK, ReadInv, UNCHANGED <<cursor, kept, known>>,
         table' = table \/ \E row \in Row : table' = Append(table, row),
         \A x \in tasks' : x \in tasks \/ SyncFine(x)'
  PROVE  ReadInv'
<1>1. cursor \in Nat /\ cursor <= Len(table)
  BY DEF HistoryTypeOK, Rows
<1>2. (\A n \in {cursor} : Read(n)') /\ (\A x \in tasks' : SyncFine(x)')
      /\ \A m \in kept : IsTheirs(m.id)' => m.id \in known'
  BY <1>1, ReadStays
<1>3. Read(cursor)'
  BY <1>2 DEF Read
<1> QED BY <1>2, <1>3 DEF ReadInv

\* Every step keeps the chat read up to the cursor and up to every sync's row.
LEMMA ReadStep == ASSUME HistoryTypeOK, ReadInv, [HistoryNext]_historyVars PROVE ReadInv'
<1>0. /\ \A t \in tasks : t \in Task /\ t.at \in {0} \cup Rows /\ (t.step \in Reading => t.id \in Rows)
      /\ Rows = 1 .. Len(table) /\ Len(table) \in Nat /\ cursor \in {0} \cup Rows /\ table \in Seq(Row)
      /\ \A m \in kept : m.id \in Rows
  BY DEF HistoryTypeOK, Reading, Rows
<1>1. ASSUME NEW kind \in {"message", "edit", "delete"}, NEW target \in {0} \cup Rows, Accepted(kind, target)
      PROVE  ReadInv'
  <2>1. [by |-> "peer", kind |-> kind, target |-> target] \in Row
    BY <1>0, <1>1, HistoryAssumption DEF Accepted, Grows, Row
  <2> QED BY <1>1, <2>1, QuietReads DEF Accepted, Grows
<1>2. CASE Sends
  <2> DEFINE row == [by |-> "me", kind |-> "message", target |-> 0]
  <2>1. row \in Row /\ table' = Append(table, row) /\ row.by = "me"
    BY <1>0, <1>2, HistoryAssumption DEF Sends, Grows, Row
  <2> HIDE DEF row
  <2>2. table'[Len(table) + 1].by = "me" /\ cursor \in Nat /\ cursor <= Len(table)
    BY <1>0, <2>1, TableGrows
  <2>3. /\ \A n \in {cursor} : Read(n)'
        /\ \A x \in tasks : SyncFine(x)'
        /\ \A m \in kept : IsTheirs(m.id)' => m.id \in known'
    BY <1>2, <2>1, <2>2, ReadStays DEF Sends
  <2>4. \A m \in kept' : IsTheirs(m.id)' => m.id \in known'
    BY <1>2, <2>2, <2>3 DEF Sends, Stored, IsTheirs
  <2>5. Read(cursor)'
    BY <1>2, <2>3 DEF Sends, Read
  <2> QED BY <1>2, <2>3, <2>4, <2>5 DEF ReadInv, Sends
<1>3. CASE Clear
  <2>1. table' = table /\ UNCHANGED <<cursor, tasks, known>> /\ kept' = {}
    BY <1>3 DEF Clear
  <2>2. (\A n \in {cursor} : Read(n)') /\ \A x \in tasks : SyncFine(x)'
    BY <1>0, <2>1, ReadStays
  <2> QED BY <2>1, <2>2 DEF ReadInv, Read
<1>4. CASE ReloadChat
  BY <1>4, QuietReads DEF ReloadChat
<1>5. CASE Healed
  BY <1>5, QuietReads DEF Healed
<1>6. CASE SyncCalled
  <2>1. PICK n \in 1 .. MaxTasks :
          tasks' = tasks \cup {[kind |-> "sync", nr |-> n, step |-> "ready", at |-> 0, id |-> 0, last |-> 0]}
    BY <1>6 DEF SyncCalled, Begins
  <2>2. \A x \in tasks' : x \in tasks \/ SyncFine(x)'
    BY <2>1 DEF SyncFine, Reading
  <2> QED BY <1>6, <2>2, QuietReads DEF SyncCalled
<1>7. ASSUME NEW id \in wire, Receives(id) PROVE ReadInv'
  <2>1. \A x \in tasks' : x \in tasks \/ SyncFine(x)'
    BY <1>7 DEF Receives, Begins, SyncFine
  <2> QED BY <1>7, <2>1, QuietReads DEF Receives
<1>8. ASSUME NEW t \in tasks, Look(t) PROVE ReadInv'
  <2>1. UNCHANGED <<table, known>> /\ t.step = "look" /\ t.id \in Rows
    BY <1>0, <1>8 DEF Look, Reading
  <2>2. CASE Done(t) /\ (table[t.id].kind = "delete" \/ table[t.id].by = "me"
                          \/ (table[t.id].kind = "message" /\ Found(t.id)) \/ table[t.id].kind = "edit")
    <3>1. IsTheirs(t.id) => t.id \in known
      BY <2>2 DEF IsTheirs, Found, ReadInv
    <3>2. Read(cursor)' /\ \A x \in tasks' : SyncFine(x)'
      BY <2>1, <2>2, <3>1, DoneReads DEF Reading
    <3>3. \A m \in kept' : \E k \in kept : k.id = m.id
      BY <1>8, ChangedKeeps DEF Look
    <3>4. \A m \in kept' : IsTheirs(m.id)' => m.id \in known'
      BY <2>1, <3>3 DEF ReadInv, IsTheirs
    <3> QED BY <3>2, <3>4 DEF ReadInv
  <2>3. CASE Goes(t, "open") /\ UNCHANGED <<kept, cursor, syncing, wire>>
    <3> DEFINE u == [t EXCEPT !.step = "open"]
    <3>1. u.kind = t.kind /\ u.id = t.id /\ u.last = t.last /\ u.step = "open"
      BY <1>0 DEF Task
    <3>2. SyncFine(t)'
      BY <2>1, ReadStays
    <3>3. SyncFine(u)'
      BY <2>1, <3>1, <3>2 DEF SyncFine, Reading
    <3> QED BY <2>1, <2>3, <3>3, QuietReads DEF Goes
  <2> QED BY <1>8, <2>2, <2>3 DEF Look
<1>9. ASSUME NEW t \in tasks, Opens(t) PROVE ReadInv'
  <2> DEFINE u == [t EXCEPT !.step = "store"]
  <2>1. u.kind = t.kind /\ u.id = t.id /\ u.last = t.last /\ u.step = "store" /\ t.step = "open"
    BY <1>0, <1>9 DEF Task, Opens
  <2>2. SyncFine(t)'
    BY <1>9, ReadStays DEF Opens
  <2>3. SyncFine(u)'
    BY <2>1, <2>2 DEF SyncFine, Reading
  <2> QED BY <1>9, <2>3, QuietReads DEF Opens, Goes
<1>10. ASSUME NEW t \in tasks, SyncStops(t) PROVE ReadInv'
  BY <1>10, QuietReads DEF SyncStops, SyncLeaves
<1>11. ASSUME NEW t \in tasks, LiveFails(t) PROVE ReadInv'
  BY <1>11, QuietReads DEF LiveFails, Answers
<1>12. ASSUME NEW t \in tasks, Keeps(t) PROVE ReadInv'
  <2>1. UNCHANGED table /\ t.step \in Reading /\ known \subseteq known' /\ Done(t)
    BY <1>12 DEF Keeps, Reading
  <2>2. IsTheirs(t.id) => t.id \in known'
    BY <1>12 DEF Keeps, IsTheirs
  <2>3. Read(cursor)' /\ \A x \in tasks' : SyncFine(x)'
    BY <2>1, <2>2, DoneReads
  <2>4. \A m \in kept' : (\E k \in kept : k.id = m.id) \/ m.id \in known'
    BY <1>12, ChangedKeeps DEF Keeps, Stored
  <2>5. \A m \in kept' : IsTheirs(m.id)' => m.id \in known'
    BY <2>1, <2>4 DEF ReadInv, IsTheirs
  <2> QED BY <2>3, <2>5 DEF ReadInv
<1>13. ASSUME NEW t \in tasks, SyncStarts(t) PROVE ReadInv'
  <2> DEFINE at == IF kept = {} THEN 0 ELSE cursor
             u == [t EXCEPT !.step = "fetch", !.at = at]
  <2>0. at \in {0, cursor}
    OBVIOUS
  <2> HIDE DEF at
  <2>1. u.at = at /\ u.step = "fetch" /\ at \in {0, cursor}
    BY <1>0, <2>0 DEF Task
  <2> HIDE DEF u
  <2>2. cursor \in Nat /\ cursor <= Len(table)
    BY <1>0
  <2>2a. UNCHANGED <<table, kept, cursor, known>>
    BY <1>13 DEF SyncStarts
  <2>3. \A n \in {cursor} : Read(n)'
    BY <2>2, <2>2a, ReadStays
  <2>4. \A n \in {0} : Read(n)'
    BY <1>0, <2>2a DEF Read, Rows
  <2>5. tasks' = (tasks \ {t}) \cup {u}
    BY <1>13 DEF SyncStarts, at, u
  <2>6. \A x \in {u} : SyncFine(x)'
    <3> SUFFICES ASSUME NEW x, x.at = at, x.step = "fetch" PROVE SyncFine(x)'
      BY <2>1
    <3> QED BY <2>0, <2>3, <2>4 DEF SyncFine, Reading
  <2> QED BY <2>2a, <2>5, <2>6, QuietReads
<1>14. ASSUME NEW t \in tasks, SyncDropped(t) PROVE ReadInv'
  BY <1>14, QuietReads DEF SyncDropped
<1>15. ASSUME NEW t \in tasks, Fetches(t) PROVE ReadInv'
  <2> DEFINE last == IF t.at + Page < Len(table) THEN t.at + Page ELSE Len(table)
             u == [t EXCEPT !.step = "look", !.id = t.at + 1, !.last = last]
  <2>1. /\ t \in Task /\ t.at \in Nat /\ t.step = "fetch" /\ last \in Nat /\ t.at + 1 <= last
        /\ tasks' = (tasks \ {t}) \cup {u} /\ UNCHANGED <<table, kept, cursor, known>>
    BY <1>0, <1>15, HistoryAssumption DEF Fetches
  <2> HIDE DEF last
  <2>2. u.id = t.at + 1 /\ u.id - 1 = t.at /\ u.last = last /\ u.step = "look" /\ u.kind = t.kind
    BY <2>1 DEF Task
  <2>3. SyncFine(t)'
    BY <2>1, ReadStays
  <2>4. \A x \in {u} : SyncFine(x)'
    <3> SUFFICES ASSUME NEW x, x.id - 1 = t.at, x.id <= x.last, x.step = "look", x.kind = t.kind PROVE SyncFine(x)'
      BY <2>1, <2>2
    <3> QED BY <2>1, <2>3 DEF SyncFine, Reading
  <2> HIDE DEF u
  <2> QED BY <2>1, <2>4, QuietReads
<1>16. ASSUME NEW t \in tasks, FetchEnds(t) PROVE ReadInv'
  BY <1>16, QuietReads DEF FetchEnds, SyncLeaves
<1>17. CASE UNCHANGED historyVars
  BY <1>17, QuietReads DEF historyVars
<1> QED BY <1>1, <1>2, <1>3, <1>4, <1>5, <1>6, <1>7, <1>8, <1>9, <1>10, <1>11, <1>12, <1>13, <1>14,
           <1>15, <1>16, <1>17 DEF HistoryNext

-----------------------------------------------------------------------------
\* The first message, with the X3DH parameters, is not opened again.
FirstIsRead == /\ 1 \in Rows /\ table[1].kind = "message" /\ Found(1)
               /\ \A t \in tasks : t.step \in {"open", "store"} => t.id # 1
\* A message that was opened is stored, or about to be.
SpentIsFound ==
  \A id \in spent : table[id].kind = "message" => Found(id) \/ \E t \in tasks : t.step = "store" /\ t.id = id
\* What a task is about to open is unopened, but for edits in the history.
OpenIsFresh ==
  \A t \in tasks : t.step = "open" => t.id \notin spent \/ (t.kind = "sync" /\ table[t.id].kind = "edit")
\* An envelope has one handler, until it is acknowledged.
LiveIsDue == /\ \A t \in tasks : t.kind = "live" => t.id \in wire /\ t.step \in Reading
             /\ \A t, u \in tasks : t.kind = "live" /\ u.kind = "live" /\ t.id = u.id => t = u
\* A ciphertext is in the hands of one task.
OneAtOnce == \A t, u \in tasks :
  t.step \in {"open", "store"} /\ u.step \in {"open", "store"} /\ t.id = u.id => t = u
\* An edit opened and not acknowledged is with its handler.
EditsAwait == \A id \in wire : table[id].kind = "edit" /\ id \in spent =>
  \E t \in tasks : t.kind = "live" /\ t.step = "store" /\ t.id = id

Safe == session /\ FirstIsRead /\ SpentIsFound /\ OpenIsFresh /\ LiveIsDue /\ OneAtOnce /\ EditsAwait
SafeInv == ~spoilt => Safe

\* A task that has nothing opened in hand leaves, or goes where nothing is opened.
LEMMA CalmSafe ==
  ASSUME HistoryTypeOK, Safe, UNCHANGED <<table, session, spent>>,
         \A k \in kept : \E m \in kept' : m.id = k.id,
         NEW t \in tasks, t.step # "store",
         wire' = wire \/ (t.kind = "live" /\ wire' = wire \ {t.id}),
         \A x \in tasks' : x \in tasks \ {t} \/ (x.kind = "sync" /\ x.step \notin {"open", "store"}),
         tasks \ {t} \subseteq tasks'
  PROVE  Safe'
<1>1. \A id : Found(id) => Found(id)'
  BY DEF Found
<1>2. FirstIsRead'
  BY <1>1 DEF Safe, FirstIsRead, Rows
<1>3. SpentIsFound'
  BY <1>1 DEF Safe, SpentIsFound
<1>4. OpenIsFresh'
  BY DEF Safe, OpenIsFresh
<1>5. LiveIsDue'
  BY DEF Safe, LiveIsDue
<1>6. OneAtOnce'
  BY DEF Safe, OneAtOnce
<1>7. EditsAwait'
  BY DEF Safe, EditsAwait
<1> QED BY <1>2, <1>3, <1>4, <1>5, <1>6, <1>7 DEF Safe

\* What is done with after it was stored, or without opening it, is safe to leave.
LEMMA DoneMoves ==
  ASSUME HistoryTypeOK, NEW t \in tasks, t.step \in Reading, Done(t)
  PROVE  /\ wire' = wire \/ (t.kind = "live" /\ wire' = wire \ {t.id})
         /\ t.kind = "live" => wire' = wire \ {t.id}
         /\ \A x \in tasks' : x \in tasks \ {t} \/ (x.kind = "sync" /\ x.step \notin {"open", "store"})
         /\ tasks \ {t} \subseteq tasks'
<1>1. t \in Task
  BY DEF HistoryTypeOK
<1>2. CASE t.kind = "live"
  BY <1>2 DEF Done, Answers
<1>3. CASE t.kind = "sync"
  <2> DEFINE u == [t EXCEPT !.step = "look", !.id = @ + 1]
             v == [t EXCEPT !.step = "fetch", !.at = t.last]
  <2>1. u.kind = "sync" /\ u.step = "look" /\ v.kind = "sync" /\ v.step = "fetch"
    BY <1>1, <1>3 DEF Task
  <2>2. tasks' = tasks \ {t} \/ tasks' = (tasks \ {t}) \cup {u} \/ tasks' = (tasks \ {t}) \cup {v}
    BY <1>3 DEF Done, NextRow
  <2>3. wire' = wire
    BY <1>3 DEF Done, NextRow
  <2> HIDE DEF u, v
  <2> QED BY <1>3, <2>1, <2>2, <2>3
<1> QED BY <1>1, <1>2, <1>3 DEF Task

\* New rows are unopened and in nobody's hands.
LEMMA GrowthSafe ==
  ASSUME HistoryTypeOK, Safe, NEW row \in Row, table' = Append(table, row),
         UNCHANGED <<session, spent, tasks>>, kept \subseteq kept', wire \subseteq wire',
         wire' \subseteq wire \cup {Len(table) + 1}
  PROVE  Safe'
<1>1. /\ Rows \subseteq Rows' /\ Len(table) + 1 \notin Rows /\ spent \subseteq Rows /\ wire \subseteq Rows
      /\ \A id \in Rows : table'[id] = table[id]
  BY TableGrows DEF HistoryTypeOK
<1>2. \A id : Found(id) => Found(id)'
  BY DEF Found
<1>3. \A t \in tasks : t.step \in Reading => t.id \in Rows
  BY DEF HistoryTypeOK, Reading
<1>4. FirstIsRead'
  BY <1>1, <1>2 DEF Safe, FirstIsRead
<1>5. SpentIsFound'
  BY <1>1, <1>2 DEF Safe, SpentIsFound
<1>6. OpenIsFresh'
  BY <1>1, <1>3 DEF Safe, OpenIsFresh, Reading
<1>7. LiveIsDue' /\ OneAtOnce'
  BY DEF Safe, LiveIsDue, OneAtOnce
<1>8. EditsAwait'
  BY <1>1 DEF Safe, EditsAwait
<1> QED BY <1>4, <1>5, <1>6, <1>7, <1>8 DEF Safe

\* A task that turns to open its row finds it unopened, or in another's hands.
LEMMA LookSafe ==
  ASSUME HistoryTypeOK, Safe, NEW t \in tasks, Look(t), Goes(t, "open"), ~spoilt',
         spoilt' = (spoilt \/ \E u \in tasks \ {t} : u.step \in {"open", "store"} /\ u.id = t.id),
         UNCHANGED <<table, wire, kept, spent, session>>,
         ~(table[t.id].kind = "delete" \/ (table[t.id].kind = "message" /\ Found(t.id)))
  PROVE  Safe'
<1> DEFINE u == [t EXCEPT !.step = "open"]
<1>1. /\ t \in Task /\ t.id \in Rows /\ t.step = "look" /\ table[t.id] \in Row
      /\ u.step = "open" /\ u.id = t.id /\ u.kind = t.kind /\ tasks' = (tasks \ {t}) \cup {u}
  BY DEF HistoryTypeOK, Look, Rows, Task, Goes
<1> HIDE DEF u
<1>2. \A x \in tasks \ {t} : x.step \in {"open", "store"} => x.id # t.id
  OBVIOUS
<1>3. table[t.id].kind = "message" => t.id \notin spent
  BY <1>1, <1>2 DEF Safe, SpentIsFound
<1>4. table[t.id].kind = "edit" /\ t.kind = "live" => t.id \notin spent
  BY <1>1, <1>2 DEF Safe, EditsAwait, LiveIsDue
<1>5. t.id \notin spent \/ (t.kind = "sync" /\ table[t.id].kind = "edit")
  BY <1>1, <1>3, <1>4 DEF Row, Task
<1>6. FirstIsRead'
  BY <1>1 DEF Safe, FirstIsRead, Rows, Found
<1>7. SpentIsFound'
  BY <1>1 DEF Safe, SpentIsFound, Found
<1>8. OpenIsFresh'
  BY <1>1, <1>5 DEF Safe, OpenIsFresh
<1>9. LiveIsDue'
  BY <1>1 DEF Safe, LiveIsDue, Reading
<1>10. OneAtOnce'
  BY <1>1, <1>2 DEF Safe, OneAtOnce
<1>11. EditsAwait'
  BY <1>1 DEF Safe, EditsAwait
<1> QED BY <1>6, <1>7, <1>8, <1>9, <1>10, <1>11 DEF Safe

\* What was opened is in the hands of the task that stores it.
LEMMA OpensSafe ==
  ASSUME HistoryTypeOK, Safe, NEW t \in tasks, Opens(t), ~spoilt' PROVE Safe'
<1> DEFINE u == [t EXCEPT !.step = "store"]
<1>1. /\ t \in Task /\ t.id \in Rows /\ t.step = "open" /\ u.step = "store" /\ u.id = t.id /\ u.kind = t.kind
      /\ tasks' = (tasks \ {t}) \cup {u} /\ spent' = spent \cup {t.id}
      /\ UNCHANGED <<table, wire, kept, session>>
  BY DEF HistoryTypeOK, Opens, Task, Goes
<1>2. ~(t.kind = "sync" /\ table[t.id].kind = "edit" /\ t.id \in wire)
  BY DEF Opens
<1> HIDE DEF u
<1>3. FirstIsRead'
  BY <1>1 DEF Safe, FirstIsRead, Rows, Found
<1>4. SpentIsFound'
  BY <1>1 DEF Safe, SpentIsFound, Found
<1>5. OpenIsFresh'
  BY <1>1 DEF Safe, OpenIsFresh, OneAtOnce
<1>6. LiveIsDue'
  BY <1>1 DEF Safe, LiveIsDue, Reading
<1>7. OneAtOnce'
  BY <1>1 DEF Safe, OneAtOnce
<1>8. EditsAwait'
  BY <1>1, <1>2 DEF Safe, EditsAwait, Task
<1> QED BY <1>1, <1>3, <1>4, <1>5, <1>6, <1>7, <1>8 DEF Safe

\* What is stored is found, and its envelope is acknowledged.
LEMMA KeepsSafe ==
  ASSUME HistoryTypeOK, Safe, NEW t \in tasks, Keeps(t) PROVE Safe'
<1>1. /\ t \in Task /\ t.id \in Rows /\ t.step = "store" /\ t.step \in Reading /\ Done(t)
      /\ UNCHANGED <<table, spent, session>>
  BY DEF HistoryTypeOK, Keeps, Reading
<1>2. \A k \in kept : \E m \in kept' : m.id = k.id
  BY <1>1, ChangedKeeps DEF Keeps
<1>3. \A id : Found(id) => Found(id)'
  BY <1>2 DEF Found
<1>4. ASSUME table[t.id].kind = "message" PROVE Found(t.id)'
  <2>1. Stored(t.id) \in kept' /\ Stored(t.id).id = t.id
    BY <1>4 DEF Keeps, Stored
  <2> QED BY <2>1 DEF Found
<1>5. /\ wire' = wire \/ (t.kind = "live" /\ wire' = wire \ {t.id})
      /\ t.kind = "live" => wire' = wire \ {t.id}
      /\ \A x \in tasks' : x \in tasks \ {t} \/ (x.kind = "sync" /\ x.step \notin {"open", "store"})
      /\ tasks \ {t} \subseteq tasks'
  BY <1>1, DoneMoves
<1>6. FirstIsRead'
  BY <1>1, <1>3, <1>5 DEF Safe, FirstIsRead, Rows
<1>7. SpentIsFound'
  BY <1>1, <1>3, <1>4, <1>5 DEF Safe, SpentIsFound
<1>8. OpenIsFresh'
  BY <1>1, <1>5 DEF Safe, OpenIsFresh
<1>9. LiveIsDue'
  BY <1>5 DEF Safe, LiveIsDue
<1>10. OneAtOnce'
  BY <1>5 DEF Safe, OneAtOnce
<1>11. EditsAwait'
  BY <1>1, <1>5 DEF Safe, EditsAwait
<1> QED BY <1>1, <1>6, <1>7, <1>8, <1>9, <1>10, <1>11 DEF Safe

\* Every step keeps the session, and what protects it, unless something spoils it.
LEMMA SafeStep == ASSUME HistoryTypeOK, SafeInv, [HistoryNext]_historyVars PROVE SafeInv'
<1> SUFFICES ASSUME ~spoilt' PROVE Safe'
  BY DEF SafeInv
<1>0. (~spoilt => Safe) /\ \A t \in tasks : t \in Task
  BY DEF SafeInv, HistoryTypeOK
<1>1. ASSUME NEW kind \in {"message", "edit", "delete"}, NEW target \in {0} \cup Rows, Accepted(kind, target)
      PROVE  Safe'
  <2>1. [by |-> "peer", kind |-> kind, target |-> target] \in Row
    BY <1>1, HistoryAssumption DEF Accepted, Grows, Row, Rows, HistoryTypeOK
  <2> QED BY <1>0, <1>1, <2>1, GrowthSafe DEF Accepted, Grows
<1>2. CASE Sends
  <2>1. [by |-> "me", kind |-> "message", target |-> 0] \in Row
    BY HistoryAssumption DEF Row
  <2> QED BY <1>0, <1>2, <2>1, GrowthSafe DEF Sends, Grows
<1>3. CASE Clear
  BY <1>3 DEF Clear
<1>4. CASE ReloadChat
  <2>1. /\ Safe /\ tasks' = {} /\ \A t \in tasks : t.step # "store"
        /\ UNCHANGED <<table, wire, kept, spent, session>>
    BY <1>0, <1>4 DEF ReloadChat
  <2>2. FirstIsRead' /\ SpentIsFound' /\ EditsAwait'
    BY <2>1 DEF Safe, FirstIsRead, SpentIsFound, EditsAwait, Rows, Found
  <2>3. OpenIsFresh' /\ LiveIsDue' /\ OneAtOnce'
    BY <2>1 DEF OpenIsFresh, LiveIsDue, OneAtOnce
  <2> QED BY <2>1, <2>2, <2>3 DEF Safe
<1>5. CASE Healed
  BY <1>0, <1>5 DEF Healed, Safe
<1>6. ASSUME Safe, NEW u, tasks' = tasks \cup {u}, u.step \notin {"open", "store"},
             u.kind = "live" => u.step = "look" /\ u.id \in wire /\ \A t \in tasks : t.kind = "live" => t.id # u.id,
             UNCHANGED <<table, wire, kept, spent, session>>
      PROVE  Safe'
  <2>1. FirstIsRead' /\ SpentIsFound' /\ OpenIsFresh'
    BY <1>6 DEF Safe, FirstIsRead, SpentIsFound, OpenIsFresh, Rows, Found
  <2>2. LiveIsDue' /\ OneAtOnce' /\ EditsAwait'
    BY <1>6 DEF Safe, LiveIsDue, OneAtOnce, EditsAwait, Reading
  <2> QED BY <1>6, <2>1, <2>2 DEF Safe
<1>7. CASE SyncCalled
  <2>1. PICK n \in 1 .. MaxTasks :
          tasks' = tasks \cup {[kind |-> "sync", nr |-> n, step |-> "ready", at |-> 0, id |-> 0, last |-> 0]}
    BY <1>7 DEF SyncCalled, Begins
  <2> QED BY <1>0, <1>6, <1>7, <2>1 DEF SyncCalled
<1>8. ASSUME NEW id \in wire, Receives(id) PROVE Safe'
  BY <1>0, <1>6, <1>8 DEF Receives, Begins
<1>9. ASSUME NEW t \in tasks, Look(t) PROVE Safe'
  <2>1. UNCHANGED <<table, spent, session>> /\ t.step = "look" /\ t.step \in Reading
    BY <1>9 DEF Look, Reading
  <2>2. CASE Done(t) /\ UNCHANGED spoilt
    <3>1. \A k \in kept : \E m \in kept' : m.id = k.id
      BY <1>9, ChangedKeeps DEF Look
    <3> QED BY <1>0, <2>1, <2>2, <3>1, DoneMoves, CalmSafe
  <2>3. CASE ~(Done(t) /\ UNCHANGED spoilt)
    BY <1>0, <1>9, <2>3, LookSafe DEF Look
  <2> QED BY <2>2, <2>3
<1>10. ASSUME NEW t \in tasks, Opens(t) PROVE Safe'
  BY <1>0, <1>10, OpensSafe DEF Opens
<1>11. ASSUME NEW t \in tasks, SyncStops(t) PROVE Safe'
  <2>1. Safe /\ t.step = "open" /\ session' = (session /\ t.id # 1) /\ t.id # 1
    BY <1>0, <1>11 DEF SyncStops, Safe, FirstIsRead
  <2> QED BY <1>11, <2>1, CalmSafe DEF SyncStops, SyncLeaves, Safe
<1>12. ASSUME NEW t \in tasks, LiveFails(t) PROVE Safe'
  BY <1>0, <1>12 DEF LiveFails, Safe, OpenIsFresh
<1>13. ASSUME NEW t \in tasks, Keeps(t) PROVE Safe'
  BY <1>0, <1>13, KeepsSafe DEF Keeps
<1>14. ASSUME Safe, NEW t \in tasks, t.step \in {"ready", "fetch"},
              UNCHANGED <<table, wire, kept, spent, session>>, tasks \ {t} \subseteq tasks',
              \A x \in tasks' : x \in tasks \ {t} \/ (x.kind = t.kind /\ x.step \notin {"open", "store"})
       PROVE  Safe'
  <2>1. t.kind = "sync"
    BY <1>0, <1>14 DEF Safe, LiveIsDue, Reading, Task
  <2> QED BY <1>14, <2>1, CalmSafe
<1>15. ASSUME NEW t \in tasks, SyncStarts(t) \/ Fetches(t) PROVE Safe'
  <2> DEFINE u(at) == [t EXCEPT !.step = "fetch", !.at = at]
             v(last) == [t EXCEPT !.step = "look", !.id = t.at + 1, !.last = last]
  <2>1. \A n : u(n).kind = t.kind /\ u(n).step = "fetch" /\ v(n).kind = t.kind /\ v(n).step = "look"
    BY <1>0 DEF Task
  <2>2. \E n : tasks' = (tasks \ {t}) \cup {u(n)} \/ tasks' = (tasks \ {t}) \cup {v(n)}
    BY <1>15 DEF SyncStarts, Fetches
  <2>3. t.step \in {"ready", "fetch"} /\ UNCHANGED <<table, wire, kept, spent, session, spoilt>>
    BY <1>15 DEF SyncStarts, Fetches
  <2> HIDE DEF u, v
  <2> QED BY <1>0, <1>14, <2>1, <2>2, <2>3
<1>16. ASSUME NEW t \in tasks, SyncDropped(t) \/ FetchEnds(t) PROVE Safe'
  BY <1>0, <1>14, <1>16 DEF SyncDropped, FetchEnds, SyncLeaves
<1>17. CASE UNCHANGED historyVars
  BY <1>0, <1>17 DEF historyVars, Safe, FirstIsRead, SpentIsFound, OpenIsFresh, LiveIsDue, OneAtOnce, EditsAwait,
                     Rows, Found, Reading
<1> QED BY <1>1, <1>2, <1>3, <1>4, <1>5, <1>7, <1>8, <1>9, <1>10, <1>11, <1>12, <1>13, <1>15, <1>16, <1>17
        DEF HistoryNext

\* syncDirectHistory and the handlers of envelopes agree on what has been read,
\* for every size of page and history and every number of tasks: no message is
\* left behind the cursor, and the session is lost for the named reasons only.
THEOREM HistoryIsRead == HistorySpec => []HistoryAgrees
<1> DEFINE Inv == HistoryTypeOK /\ ReadInv /\ SafeInv
<1>1. ASSUME HistoryInit PROVE ReadInv /\ SafeInv
  <2>1. /\ Rows = {1} /\ table[1].kind = "message" /\ kept = {[id |-> 1, form |-> "sent"]} /\ wire = {}
        /\ known = {1} /\ spent = {1} /\ tasks = {} /\ session
    BY <1>1 DEF HistoryInit, Rows, Stored
  <2>2. ReadInv
    BY <2>1 DEF ReadInv, Read
  <2>3. Found(1)
    BY <2>1 DEF Found
  <2>4. Safe
    BY <2>1, <2>3 DEF Safe, FirstIsRead, SpentIsFound, OpenIsFresh, LiveIsDue, OneAtOnce, EditsAwait
  <2> QED BY <2>2, <2>4 DEF SafeInv
<1>2. ASSUME HistoryTypeOK, ReadInv, SafeInv PROVE HistoryAgrees
  <2>1. NothingSkipped
    BY <1>2 DEF NothingSkipped, ReadInv, Read, IsTheirs, HistoryTypeOK, Rows
  <2>2. SessionSurvives
    BY <1>2 DEF SessionSurvives, SafeInv, Safe, HistoryTypeOK
  <2> QED BY <2>1, <2>2 DEF HistoryAgrees
<1>3. HistoryInit => Inv
  <2>1. HistoryInit => HistoryTypeOK
    BY HistoryTypeInit
  <2> QED BY <1>1, <2>1
<1>4. Inv /\ [HistoryNext]_historyVars => Inv'
  BY TypeStep, ReadStep, SafeStep
<1>5. Inv => HistoryAgrees
  BY <1>2
<1> QED BY <1>3, <1>4, <1>5, PTL DEF HistorySpec

-----------------------------------------------------------------------------
(* The three together.                                                     *)

\* A behaviour of the run of MCRooms is one of each of its three modules: what
\* is proved of one holds in the run.
THEOREM ChatsAreThree == ChatsSpec => GroupSpec /\ RoomsSpec /\ HistorySpec
<1>1. ChatsInit => GroupInit /\ RoomsInit /\ HistoryInit
  BY DEF ChatsInit
<1>2. [ChatsNext]_roomVars => [GroupNext]_groupVars /\ [RoomsNext]_roomsVars /\ [HistoryNext]_historyVars
  BY DEF ChatsNext, roomVars
<1> QED BY <1>1, <1>2, PTL DEF ChatsSpec, GroupSpec, RoomsSpec, HistorySpec

\* Groups, their events and the history always have their types.
THEOREM ChatsTypesCorrect == ChatsSpec => []TypesOK
<1>1. GroupTypeOK /\ RoomsTypeOK /\ HistoryTypeOK => TypesOK
  BY DEF TypesOK
<1>2. ChatsSpec => GroupSpec /\ RoomsSpec /\ HistorySpec
  BY ChatsAreThree
<1>3. GroupSpec => []GroupTypeOK
  BY GroupTypeCorrect
<1>4. RoomsSpec => []RoomsTypeOK
  BY RoomsTypeCorrect
<1>5. HistorySpec => []HistoryTypeOK
  BY HistoryTypeCorrect
<1> QED BY <1>1, <1>2, <1>3, <1>4, <1>5, PTL
=============================================================================
