------------------------------- MODULE Rooms --------------------------------
(***************************************************************************)
(* Who belongs to a group: the member table of the backend and the routes  *)
(* that change it (main.go, db.go), and the row, the invitations and the   *)
(* shared synchronisation of one web client (community.ts, Sidebar,        *)
(* Chat).  A route reads roles in one statement and acts in another, and   *)
(* other requests run in between.  Channels have the same routes and the   *)
(* same client code under other names.  One group; titles, avatars, limits *)
(* of invite links and the audit log are left out.                         *)
(***************************************************************************)
EXTENDS Naturals, FiniteSets

CONSTANTS Person, Self,    \* users; the one whose client is modelled
          MaxAsks,         \* bound: requests under way
          MaxTurns         \* bound: requests, refreshes and answers to invitations in a run

ASSUME RoomsAssumption == /\ Self \in Person /\ {MaxAsks, MaxTurns} \subseteq Nat
                          /\ {"unborn", "gone"} \cap Person = {}

VARIABLES rank,     \* [Person -> role] group_members; "out": no row
          head,     \* groups_meta.owner_pub_key, or "unborn" or "gone"
          asks,     \* requests of anyone, not yet answered and handled
          crossed,  \* a request acted though a transfer, or the named one's leaving, had come between
          shown,    \* Self's groupThreads row: its role, or "out"
          invited,  \* there are groupInvites rows
          letters,  \* group_invite envelopes on their way to Self
          asking,   \* a handler of an invitation waits for the synchronisation
          sync,     \* groupsSyncPromise: how far it is
          view,     \* Self's role in the list it was given
          fresh,    \* lastGroupsSyncAt is less than GROUP_SYNC_TTL_MS ago
          behind,   \* Self's role changed since the list was read, without a later list to come
          turns

roomsVars == <<rank, head, asks, crossed, shown, invited, letters, asking, sync, view, fresh, behind, turns>>
tableVars == <<rank, head, crossed>>
clientVars == <<shown, invited, letters, asking, sync, view, fresh>>

Roles == {"out", "member", "admin", "owner"}
Managers == {"admin", "owner"}
Ops == {"create", "join", "add", "promote", "demote", "remove", "transfer", "leave"}
Exists == head \in Person

RoomsInit ==
  /\ rank = [p \in Person |-> "out"] /\ head = "unborn"
  /\ asks = {} /\ crossed = FALSE
  /\ shown = "out" /\ invited = FALSE /\ letters = 0 /\ asking = FALSE
  /\ sync = "idle" /\ view = "out" /\ fresh = FALSE /\ behind = FALSE
  /\ turns = 0

Turn == turns < MaxTurns /\ turns' = turns + 1
Replace(r, s) == asks' = (asks \ {r}) \cup {s}

-----------------------------------------------------------------------------
(* The routes.                                                             *)

Names == {"add", "promote", "demote", "remove", "transfer"}

Begin(p, op, q) ==
  /\ Turn /\ Cardinality(asks) < MaxAsks
  /\ asks' = asks \cup {[who |-> p, op |-> op, to |-> q, step |-> "check", mine |-> "out", its |-> "out"]}
  /\ UNCHANGED <<tableVars, clientVars, behind>>

Create(p) == head = "unborn" /\ Begin(p, "create", p)

\* An invite link, opened at any time.
JoinByLink(p) == Begin(p, "join", p)

\* Self's buttons are there while its row shows the group; others may ask anything.
Manage(p, op, q) ==
  /\ op \notin {"create", "join"}
  /\ IF op \in Names THEN q # p ELSE q = p
  /\ p = Self => shown # "out" /\ (op \in Names => shown \in Managers)
  /\ Begin(p, op, q)

\* The answer is an error: the handler shows it.
Refuse(r) == asks' = asks \ {r}

\* GetGroupMemberRole of the caller; creating and joining need none.
CheckRole(r) ==
  /\ r.step = "check"
  /\ LET mine == rank[r.who]
         allowed == CASE r.op \in {"create", "join"} -> TRUE
                      [] r.op = "leave" -> mine # "out"
                      [] r.op = "add" -> mine \in Managers
                      [] r.op = "remove" -> mine # "out"
                      [] OTHER -> mine = "owner" IN
       IF allowed
       THEN Replace(r, [r EXCEPT !.mine = mine,
                          !.step = IF r.op \in Names \ {"add"} THEN "target" ELSE "act"])
       ELSE Refuse(r)
  /\ UNCHANGED <<tableVars, clientVars, behind, turns>>

\* Mutant: members without a row and owners pass too.
AnyTarget(r, its) == r.op = "remove" => r.mine \in Managers

MayTouch(r, its) ==
  /\ its \in {"member", "admin"}
  /\ r.op = "remove" => r.mine = "owner" \/ (r.mine = "admin" /\ its = "member")

\* GetGroupMemberRole of the one named.
CheckTarget(r) ==
  /\ r.step = "target"
  /\ LET its == rank[r.to] IN
       IF MayTouch(r, its) THEN Replace(r, [r EXCEPT !.its = its, !.step = "act"]) ELSE Refuse(r)
  /\ UNCHANGED <<tableVars, clientVars, behind, turns>>

\* TransferGroupOwnership, one transaction: the group's owner and the caller's
\* role change only if the caller is still owner, the other's role in any case.
Transferred(p, q) ==
  /\ head' = IF head = p THEN q ELSE head
  /\ rank' = [x \in Person |-> CASE x = q /\ rank[q] # "out" -> "owner"
                                 [] x = p /\ rank[p] = "owner" -> "admin"
                                 [] OTHER -> rank[x]]

\* Mutant: the rows of the members outlive the group.
LeavesMembers(r) ==
  IF r.mine = "owner"
  THEN head' = (IF head = r.who THEN "gone" ELSE head) /\ rank' = [rank EXCEPT ![r.who] = "out"]
  ELSE rank' = [rank EXCEPT ![r.who] = "out"] /\ UNCHANGED head

\* DeleteGroup, with its members by ON DELETE CASCADE, or RemoveGroupMember.
Left(r) ==
  IF r.mine = "owner"
  THEN /\ head' = IF head = r.who THEN "gone" ELSE head
       /\ rank' = IF head = r.who THEN [x \in Person |-> "out"] ELSE rank
  ELSE rank' = [rank EXCEPT ![r.who] = "out"] /\ UNCHANGED head

Change(r) ==
  CASE r.op = "create" ->
         head' = r.who /\ \E some \in SUBSET (Person \ {r.who}) :
           rank' = [x \in Person |-> IF x = r.who THEN "owner" ELSE IF x \in some THEN "member" ELSE "out"]
    [] r.op \in {"add", "join"} ->
         /\ UNCHANGED head
         /\ rank' = IF Exists /\ rank[r.to] = "out" THEN [rank EXCEPT ![r.to] = "member"] ELSE rank
    [] r.op \in {"promote", "demote"} ->
         /\ UNCHANGED head
         /\ rank' = IF rank[r.to] = "out" THEN rank
                    ELSE [rank EXCEPT ![r.to] = IF r.op = "promote" THEN "admin" ELSE "member"]
    [] r.op = "remove" -> rank' = [rank EXCEPT ![r.to] = "out"] /\ UNCHANGED head
    [] r.op = "transfer" -> Transferred(r.who, r.to)
    [] r.op = "leave" -> Left(r)

\* None of the statements looks at the roles again.
Crosses(r) ==
  \/ r.op \in Names \ {"add"} /\ rank[r.to] = "owner" /\ r.its # "owner"
  \/ r.op = "transfer" /\ (rank[r.who] # "owner" \/ (rank[r.to] = "out" /\ r.its # "out"))
  \/ r.op = "leave" /\ r.mine # "owner" /\ rank[r.who] = "owner"

\* The statement that changes the table; dispatchGroupInvites tells those who were added.
Act(r) ==
  /\ r.step = "act"
  /\ r.op = "create" => head = "unborn"
  /\ Change(r)
  /\ LET told == r.who # Self /\ r.op \in {"create", "add"} /\ rank'[Self] # "out"
                   /\ (r.op = "create" \/ r.to = Self)
         touched == rank'[Self] # rank[Self] IN
       /\ crossed' = (crossed \/ Crosses(r))
       /\ letters' = IF told THEN letters + 1 ELSE letters
       /\ behind' = (behind \/ (touched /\ (r.who # Self \/ sync \notin {"idle", "fetch"})))
  /\ IF r.who = Self THEN Replace(r, [r EXCEPT !.step = "reply"]) ELSE Refuse(r)
  /\ UNCHANGED <<shown, invited, asking, sync, view, fresh, turns>>

-----------------------------------------------------------------------------
(* Self's client.                                                          *)

\* syncGroups(true): a synchronisation that runs is waited for, whatever its age.
JoinSync == sync' = IF sync = "idle" THEN "fetch" ELSE sync

\* leaveGroup and deleteGroup delete the row, though Self may be back in the
\* group by then; the others synchronise.
Replied(r) ==
  /\ r.step = "reply" /\ Refuse(r)
  /\ fresh' = IF r.op = "join" THEN fresh ELSE FALSE
  /\ IF r.op = "leave" THEN shown' = "out" /\ UNCHANGED sync ELSE JoinSync /\ UNCHANGED shown
  /\ behind' = (behind \/ (r.op = "leave" /\ rank[Self] # "out"))
  /\ UNCHANGED <<tableVars, invited, letters, asking, view, turns>>

\* fetchWithTimeout gave up, or the connection is gone: an error is shown.
ReplyLost(r) ==
  /\ r.step = "reply" /\ Refuse(r)
  /\ behind' = TRUE
  /\ UNCHANGED <<tableVars, clientVars, turns>>

\* Sidebar: on a connection, and by the refresh button.
Refresh ==
  /\ ~fresh /\ Turn
  /\ JoinSync
  /\ UNCHANGED <<tableVars, asks, shown, invited, letters, asking, view, fresh, behind>>

Expire ==
  /\ fresh /\ fresh' = FALSE
  /\ UNCHANGED <<tableVars, asks, shown, invited, letters, asking, sync, view, behind, turns>>

\* ListGroupsForUser.
SyncFetches ==
  /\ sync = "fetch"
  /\ sync' = "put" /\ view' = rank[Self] /\ behind' = FALSE
  /\ UNCHANGED <<tableVars, asks, shown, invited, letters, asking, fresh, turns>>

SyncPuts ==
  /\ sync = "put"
  /\ sync' = "prune"
  /\ shown' = IF view # "out" THEN view ELSE shown
  /\ UNCHANGED <<tableVars, asks, invited, letters, asking, view, fresh, behind, turns>>

\* Mutant: groups that are no longer in the list stay.
KeepsStale ==
  /\ sync = "prune" /\ sync' = "tidy"
  /\ UNCHANGED <<tableVars, asks, shown, invited, letters, asking, view, fresh, behind, turns>>

SyncPrunes ==
  /\ sync = "prune"
  /\ sync' = "tidy"
  /\ shown' = IF view = "out" THEN "out" ELSE shown
  /\ UNCHANGED <<tableVars, asks, invited, letters, asking, view, fresh, behind, turns>>

\* Invitations to a group of the list go, here and in the handler that waits.
SyncEnds ==
  /\ sync = "tidy"
  /\ sync' = "idle" /\ fresh' = TRUE /\ asking' = FALSE
  /\ invited' = (invited /\ view = "out")
  /\ UNCHANGED <<tableVars, asks, shown, letters, view, behind, turns>>

SyncFails ==
  /\ sync = "fetch"
  /\ sync' = "idle" /\ asking' = FALSE /\ behind' = TRUE
  /\ UNCHANGED <<tableVars, asks, shown, invited, letters, view, fresh, turns>>

\* The group_invite branch of onmessage; handleOpenInvitedGroup does the rest again.
OnInvite ==
  /\ letters > 0 /\ letters' = letters - 1
  /\ invited' = TRUE /\ asking' = TRUE
  /\ JoinSync
  /\ UNCHANGED <<tableVars, asks, shown, view, fresh, behind, turns>>

OpenInvited ==
  /\ invited /\ ~asking /\ Turn
  /\ asking' = TRUE
  /\ JoinSync
  /\ UNCHANGED <<tableVars, asks, shown, invited, letters, view, fresh, behind>>

Dismiss ==
  /\ invited /\ ~asking /\ Turn
  /\ invited' = FALSE
  /\ UNCHANGED <<tableVars, asks, shown, letters, asking, sync, view, fresh, behind>>

\* Of syncGroups, and of syncChannels, which has no invitations to tidy.
SyncStep == SyncFetches \/ SyncPuts \/ SyncPrunes \/ SyncEnds \/ SyncFails

RoomsNext ==
  \/ \E p \in Person : Create(p) \/ JoinByLink(p) \/ \E op \in Ops, q \in Person : Manage(p, op, q)
  \/ \E r \in asks : CheckRole(r) \/ CheckTarget(r) \/ Act(r) \/ Replied(r) \/ ReplyLost(r)
  \/ Refresh \/ Expire \/ SyncStep \/ OnInvite \/ OpenInvited \/ Dismiss

RoomsSpec == RoomsInit /\ [][RoomsNext]_roomsVars

-----------------------------------------------------------------------------
RoomsTypeOK ==
  /\ rank \in [Person -> Roles] /\ head \in Person \cup {"unborn", "gone"}
  /\ {shown, view} \subseteq Roles
  /\ {crossed, invited, asking, fresh, behind} \subseteq BOOLEAN
  /\ sync \in {"idle", "fetch", "put", "prune", "tidy"}
  /\ \A r \in asks : r.op \in Ops /\ r.step \in {"check", "target", "act", "reply"}
  /\ ~Exists => \A p \in Person : rank[p] = "out"
  /\ asking => sync # "idle"

\* A group has one owner, the one its row names, whatever requests ran side
\* by side, unless a transfer, or the leaving of its target, came between the
\* reading of the roles and the statement of one of them.
OneOwner == crossed \/ ~Exists \/ {p \in Person : rank[p] = "owner"} = {head}

\* When the client has nothing under way its row shows the role the backend
\* has, and no invitation to a group it shows is left; only changes by others,
\* lost answers and changes of its own during a synchronisation go unnoticed.
RowFollowsTable ==
  (sync = "idle" /\ letters = 0 /\ ~behind /\ \A r \in asks : r.who # Self) =>
    shown = rank[Self] /\ (shown # "out" /\ fresh => ~invited)
=============================================================================
