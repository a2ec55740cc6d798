# Messk in TLA+

A verification project for Messk, an end-to-end encrypted messenger: a Go
backend (`src/mess`), a web client (`src/messk`), a Rust core and a Windows
client (`src/clients`). The modules here model what the code does, TLC checks
them on small instances, and TLAPS proves what matters most for every value
of the constants.

Contents: [inventory](#inventory) · [plan](#plan) ·
[DirectDelivery](#directdelivery) · [Ratchet](#ratchet) ·
[MeshGossip](#meshgossip) · [Sessions](#sessions) · [History](#history) ·
[Calls](#calls) · [GroupEvents](#groupevents) · [Rooms](#rooms) ·
[Account](#account) · [Conversation](#conversation) ·
[Connection](#connection) · [runs](#runs) ·
[fairness](#fairness) · [proofs](#proofs) ·
[where code and documents disagree](#where-code-and-documents-disagree) ·
[what is not modelled](#what-is-not-modelled) · [how to run](#how-to-run)

## Inventory

**Backend** (`src/mess`, Go, one process and one SQLite file, optionally
several processes joined by Redis)

| part | state | operations | what makes it correct |
|---|---|---|---|
| hub (`hub.go`) | `clients` by public key, channels `register`, `unregister` | `Run`, `deliverToPubKey`, `routeToLocal`, `routeGroupMessage`, `routeChannelMessage`, `dropClient` | an acknowledged message is held by the server until the recipient has it; a dropped client is cancelled |
| connection (`client.go`) | `send` buffer, `ctx`, socket, flood windows | `serveWs`, `readPump`, `writePump`, `sendServerAck`, `requestDrop`, `allowInboundEvent` | one reader and one writer per socket, both end when either does |
| tables (`db.go`) | `message_history`, `offline_messages`, `prekeys`, `session_tokens`, groups, channels, invites, file access | one statement or transaction each | rows go only after an ack; keys are consumed once; roles and counters hold under concurrency |
| session tokens (`hub.go`, `auth_http.go`) | in-memory map in front of a table | store, validate, list, revoke, clean up | a revoked token is never valid again |
| presence (`cache.go`) | set of online keys | set on register, cleared on the last unregister, both from goroutines | follows the connections |
| groups, channels, invites (`main.go`, `db.go`) | members, roles, owners, invite counters | HTTP handlers | exactly one owner; a use is counted once; removed members get nothing |
| files (`file_routes.go`, `hub.go`) | uploads, tokens, access lists in memory and table | upload, grant, validate | memory and table agree |
| relays (`relay_routes.go`) | records by node id | announce, list, prune | a newer record is never replaced by an older one |
| HTTP surface | none of its own | profile, health, history, proxy, admin | stateless |

**Web client** (`src/messk/src`, TypeScript, IndexedDB)

| part | state | operations | what makes it correct |
|---|---|---|---|
| `SocketManager` (`lib/socket.ts`) | socket, timers, flags, cursors | `connect`, `send`, `flushOutgoingDirectMessages`, `onmessage`, `syncDirectHistory`, `handlePeerSessionReset` | what the user wrote is sent until acknowledged, what arrives is stored once |
| local database (`lib/db.ts`) | messages, outboxes, sessions, prekeys, contacts | Dexie tables, one transaction per call | the status of a message never lies |
| ratchet (`lib/ratchet.ts`, `lib/crypto.ts`) | a session per peer | `encryptInSession`, `decryptInSession` | every message opens exactly once, in any order |
| groups (`lib/socketGroups.ts`, ...) | sender keys, pending events | distribution, out-of-order events | an event that outruns its key is kept |
| calls (`lib/webrtc.ts`) | one peer connection | offer, answer, candidates, end | signals of an ended call have no effect |
| lock, logout, panic reset (`store`, `lib/security.ts`, ...) | keys in memory, lock flags, PIN hash and sealed identity | sign in, unlock, lock, change the PIN, wipe | the PIN that unlocks also signs in; nothing of a wiped identity remains |
| chats (`pages/Chat.tsx`, `lib/socketMessageStore.ts`, `lib/db.ts`, `lib/backup.ts`) | the composer, contact rows, messages, `threadStats` | type, send, edit, delete, read, pin, verify, clear, restore | what is typed is not lost; rows that summarise others follow them |
| connection (`lib/socket.ts`, `lib/transportDiscovery.ts`, `lib/protocolCompatibility.ts`) | `ws`, `reconnectTimer`, `reconnectAttempts`, checks | `connect`, `disconnect`, reconnect, handlers of a socket | one socket, and always a next attempt |

**Rust core** (`src/clients/core`): mesh gossip with a dedupe cache,
transport choice and failover, metadata padding, retry delays, call state.
**Windows client** (`src/clients/windows`): the same protocol as the web
client over its own network task, storage and ratchet.
**Scripts, documents, tests**: statements of intent.

How they interact: a client and its `readPump` exchange frames over a
websocket; `readPump` calls `routeToLocal`, which writes the tables and puts
frames in other clients' `send` buffers; `writePump` empties them into
sockets; `Hub.Run` takes connections in and out; goroutines replay offline
rows and serve `offline_ack`. The client's flush loop, timers and `onmessage`
share the IndexedDB tables and interleave at every `await`.

What is hard: frames in a buffer whose socket dies, statements that fail
between two others, acks lost with a connection, resends, several devices of
one user, loops working on a snapshot, registration racing unregistration,
restarts of either side. `PROJECT.json` lists these hazards with their lines.

## Plan

What is done, in the order it was written; each module has its runs, and where
noted a proof.

1. `DirectDelivery` implements `Mailbox` (proved).
2. `Ratchet`: a symbolic double ratchet and its row under overlapping handlers
   (types and key use proved).
3. `MeshGossip`: the flooding of the Rust core (proved but for the distance).
4. `Sessions`: the row of `Ratchet` as it is begun, replaced, reset and
   repaired, and the outbox rows a reset touches (safety proved).
5. `Calls`: overlay, connection and microphone of two clients (safety proved).
6. `GroupEvents`: a sender's key and queue, the fan-out, the members' handlers
   (safety proved).
7. `Rooms`: the member table under concurrent requests, and one client's row
   (proved).
8. `Account`: sign-in, PIN, lock, logout, panic reset (proved).
9. `Conversation`: the composer, contact rows, messages and their summaries
   (proved).
10. `Connection`: the socket, its timers and checks (proved).
11. `History`: pages, cursor and live envelopes over one session (proved).

`MCLink` composes `Calls` and `Sessions`, `MCRooms` composes `GroupEvents`,
`Rooms` and `History`, `MCDevice` composes `Account`, `Conversation` and
`Connection`: a variable `part`, chosen in the initial state, says which of
them runs. The parts share no state, so their state spaces add up and do not
multiply, and a part that does not run stays in an initial state in which no
action with fairness is enabled.

What is left: `SessionTokens` (the map in front of the table against an
abstract store, with revocation and clean-up), `Presence`, `clear_prekeys`
against uploads, batches and stale rows of `offline_messages`, `FileAccess`,
`AntiFlood`, `RelayRegistry`, Redis between instances, the transport policy and
padding of the Rust core, the Windows client. Of the properties of the runs
every safety property is a theorem; what comes next is modelled first.

## DirectDelivery

`DirectDelivery.tla` follows a direct message from `send()` to a device of the
recipient through one backend process. A step is what the code does between
two points where something else can run: an `await`, a channel operation, a
lock, a SQL statement.

| state | code |
|---|---|
| `outbox`, `status`, `stored` | IndexedDB: `outgoingDirectMessages`, `messages` |
| `composing`, `flush`, `page`, `link` | a client's memory: `send()` between its writes, the flush loop's snapshot, fetched history rows, `SocketManager.ws` |
| `refused` | messages a device acknowledged without being able to open them (kept by the model to tell that the recipient has had them) |
| `up`, `cut` | the websocket towards the server; closed sockets |
| `send` | `Client.send` together with what `writePump` and the network carry |
| `regq`, `unregq`, `sess`, `gone` | `Hub.register`, `Hub.unregister`, `Hub.clients`, cancelled contexts |
| `listing`, `replay` | the goroutine `Hub.Run` starts for a connection |
| `pc`, `frame`, `todo`, `got` | a `readPump` and the `routeToLocal` it is in |
| `dels`, `marks` | the goroutines that serve `offline_ack` |
| `history`, `offline` | tables `message_history`, `offline_messages` |

`page` elements and `dev` record who asked; `early` and `faults` only bound
the behaviours. Actions: `Compose`, `Enqueue` (the two writes of `send`);
`FlushStart`, `FlushSend`, `FlushSkip`, `FlushFail` (the flush loop);
`RetryDirectMessage`; `Connect`, `Register`, `ListOffline`, `Replay`,
`ReplayStops`, `WriterExits`, `ReaderExits`, `Unregister` (a connection's
life); `ReadRouted`, `SaveHistory`, `LookupSessions`, `DeliverTo`,
`MarkDelivered`, `SaveOffline`, `MarkWaiting`, `SendServerAck` (`readPump` and
`routeToLocal`); `ReadOfflineAck`, `DeleteOffline`, `MarkAcknowledged`;
`ReceiveMessage`, `RefuseMessage`, `HandleServerAck`, `ReceiveReceipt`,
`OnClose` (the client's socket); `FetchHistory`, `ApplySentRow`,
`ApplyReceivedRow`, `RowUnreadable` (history sync). Faults: `LoseLink`,
`Reload`, `Restart`, `Throttle`, and the failing statements
(`SaveHistoryFails`, `SaveOfflineFails`, `MarkFails`, `ListOfflineFails`, and
the failing branches of `DeleteOffline` and `MarkAcknowledged`).

Abstractions: a ciphertext is only openable or not (`Garbled`); decrypting and
storing a received message is one action (the race on the ratchet session is
`Ratchet`'s); `dropClient`'s removal, close and cancel are one action, as
nothing reads between them what they change one by one; a connection is used
once; a `server_ack` for a receipt is left out because `handleServerAck` does
nothing with it; `self_sync` copies are left out.

`Mailbox.tla` is what this promises, per message:
`idle -> outbox -> server -> seen`, never back. `place` in `DirectDelivery`
maps the concrete state to it: *seen* when a device of the recipient stored
the message or acknowledged it unread, *server* when `message_history` has it,
*outbox* when only the sender's outbox does.

Properties (each in `DirectDelivery.tla`, with its reason):

- `SentIsRecorded`: what the sender shows as sent or delivered, the server has.
- `AckHasCustody`: at the moment of the ack some connection took the message,
  or it is an offline row, or the recipient has seen it.
- `WaitingIsQueuedOrSeen`, `RowKeptUntilSeen`: the two tables together lose
  nothing unseen.
- `UnlistedIsCancelled`: no connection is forgotten by the hub and left open.
- `MailboxSpec`, `MailboxFairSpec`: refinement of `Mailbox`, without and with
  liveness.
- `OutboxDrains`: every outbox row leaves, and only towards the server.

`handlePeerSessionReset` deletes outbox rows and enqueues them anew; it is not
part of this module, so its results hold as long as no peer asks for a
session reset. That case is `Sessions`'. What a client does with the rows
between the cursor and the table's end is `History`'s.

## Ratchet

`Ratchet.tla` is `RatchetManager` and the `db.sessions` row of a chat, on both
ends. Keys are symbolic: a chain is the sequence of Diffie-Hellman outputs it
was derived from, a message key a chain with a position, so that two keys are
equal exactly when the code would derive the same bytes. A ciphertext opens
when the receiver derives the key it was made with.

| state | code |
|---|---|
| `row` | `db.sessions`: the `Session` of each end, or none |
| `made` | key pairs an end has taken from `box.keyPair()` |
| `sealed` | the messages each end has encrypted; the network may deliver any of them, in any order and repeatedly, until it is opened |
| `opened` | which have been opened (their row in `messages` exists) |
| `opening` | handlers that have read the session and not yet written it |
| `width` | how many handlers of an end may be under way at once |
| `raced` | whether a send has run inside another handler |

`Encrypt` is `encryptInSession`; `OpenStart` and `OpenEnd` are
`decryptInSession` before and after its awaits: the write is computed from the
row that was read, not from the row it overwrites. `Decrypt` follows
`RatchetManager.decrypt` branch by branch (`SkippedKey`, `CanSkip`,
`SkipKeys`, `Turn`, `DropSkipped`), `EnsureSendChain`, `Initiate` and
`Respond` the three ways a chain starts. `ratchet.rs` in the Windows client is
the same algorithm.

Properties:

- `KeyUsedOnce`: a message key encrypts one message.
- `OpensWithinSkip`: in any order, a message opens while at most `MAX_SKIP` of
  those sent before it are missing. It rests on `previousSendChainLength`: the
  receiver closes an old chain by the length its peer announces.
- `OverlapIsHarmless`: handlers that overwrite each other's rows do not make
  a message unreadable, as what was lost can be derived again.
- `OpensOnce`: an opened message does not open a second time.

What the browser does not protect: a send whose write is overwritten by a
handler that read the row before it loses its `sendChainIndex`, and the next
message repeats an index the peer has passed. The model marks this (`raced`)
and follows a behaviour up to it; the properties are stated up to there.
The Windows client meets the same case in another way: its realtime task keeps
sessions in a map of its own while sends load and save them in the store.

Left out: messages that do not open and are dropped, a second X3DH over an
existing session and session resets (`Sessions`), two overlapping sends,
which race by definition.

## MeshGossip

`MeshGossip.tla` is `mesh.rs`: `MeshSimulator` floods an envelope from node to
node, each node suppresses what its `MeshDedupeCache` holds.

| state | code |
|---|---|
| `nodes`, `links`, `now` | `MeshSimulator` |
| `cache` | `MeshDedupeCache`: `order` with the expiry `seen` has for it |
| `queue` | the local queue of a `publish` under way |
| `trip`, `reached` | the last envelope, who had not seen it, and who accepted it with how many hops left (what the report lists for subscribers) |

`Publish` validates and starts; `AcceptDuplicate` and `AcceptNew` are
`accept_at_node`; a publish runs until its queue is empty, as it borrows the
simulator. `SetNow`, `Link`, `Unlink`, `AddNode`, `RemoveNode` are the methods
of those names. `links` iterates a `HashSet`: `Orders` allows every order.
Subscriptions only choose what the report lists and are left out.

Properties:

- `FloodIsClosed`: who accepted with hops to spare has all its neighbours
  served. Copies race along ways of different lengths and the cache keeps the
  first, so that this is the best one depends on the queue being first in,
  first out.
- `FloodIsBreadthFirst`: the nodes reached are those within the hop limit,
  each along a shortest way among the nodes that had not seen the envelope.
- `ForgetsOnlyExpired`: pruning, remembering and forwarding lose no live entry.

The converse of the last does not hold: `prune` stops at the first live entry,
and an expired one behind it goes on suppressing its id.

## Sessions

`Sessions.tla` is the session of two users across its lifetimes: begun by X3DH
with a one-time prekey asked from the server, replaced by an envelope with X3DH
parameters the row cannot open, deleted when an envelope opens in no way, healed
by the `session_reset` / `session_repair` exchange. A session is a number, a
ciphertext the number of the session it was made in. Only the await of the
prekey bundle, a round trip of up to five seconds, is split: that is where
other calls and envelopes come in.

The outbox is the set of its rows: the flush loop reads them by `createdAt`, the
time the text was written, so `FlushText` takes the row of the oldest text, and a
reset that enqueues a message anew gives its row the message's old time. `mail`
is in order, the rows of the offline table first: the goroutine of `Hub.Run`
that hands them out is taken to be done before new envelopes are routed.

| state | code |
|---|---|
| `row`, `secrets`, `outbox`, `texts`, `shown` | `db.sessions`, `db.prekeys`, `outgoingDirectMessages`, `messages` of either end |
| `shelf`, `mail` | the server's `prekeys`; envelopes at the server or in the socket |
| `asks`, `ear`, `bundles` | calls of `getPreKeyBundle` with their timers, `pendingPreKeyResolvers`, answers under way |
| `live`, `hush` | the authenticated socket; the cooldown of reset notices |
| `hurried`, `clashed`, `severed` | what has happened that a property excepts |

Actions: `SendText`, `SendEdit`, `FlushText` (`send`, `sendEdit`, the flush loop
with the ack), `BundleArrives`, `BundleTimeout` (with the rest of the caller,
`Finish`), `Receive` by kind of envelope (`OnText`, `OnEdit`, `OnRepair`,
`OnReset`), `LinkDrops`, `LinkUp` (with `ensurePreKeys`), `CooldownEnds`.

Properties: `PendingSurvivesReset` (a reset takes no pending message out of the
outbox for good), `SessionsAgree` (`RowsAgree`: when nothing is under way the
ends have the same session or one will begin anew; `FirstOpens`: the private
half of a prekey outlives every envelope made with it), `RepairEnds` (resets do
not feed each other for ever, every caller is answered).

What the exceptions stand for, all of it the code's behaviour: two overlapping
asks for a peer leave the first caller waiting for ever, as the second
overwrites its resolver, and the first one's timer then kills the second's
(`hurried`); a link that drops inside a reset strands messages (`severed`, see
`ss_stranded`); two users who begin at the same time may keep different rows
until the next envelope (`clashed`). Besides, a message acknowledged by the
server that its recipient could not open is not among those a reset resends,
and an edit as the first envelope of a session carries no X3DH parameters.

## History

`History.tla` is `message_history` of one chat as a client reads it:
`syncDirectHistory` pages through it from a cursor, while the same envelopes
come over the websocket. Both open a ciphertext, and it opens once.

| state | code |
|---|---|
| `table` | `message_history` of the thread, by id |
| `wire` | envelopes this client has not acknowledged (`offline_messages` and the socket) |
| `kept`, `session`, `cursor` | `messages`, the row of `sessions`, the stored history cursor |
| `spent` | ciphertexts whose key is used up |
| `syncing`, `tasks` | `syncingDirectHistory`; syncs, and handlers of `onmessage`, at an await |
| `known`, `spoilt` | messages ever stored; what has happened that may cost the session |

Actions: `Accepted` (the peer's envelope), `Sends`, `Clear`, `ReloadChat`,
`Healed` (the exchange of `Sessions`); `SyncCalled`, `SyncStarts`,
`SyncDropped`, `Fetches`, `FetchEnds`; `Look`, `Opens`, `Keeps`, `SyncStops`,
`LiveFails` (one row or one envelope); `Receives`. The limit of five pages is a
sync that may end after any page.

`HistoryAgrees`: `NothingSkipped`, every message of the peer below the cursor
has been stored, and `SessionSurvives`, reading costs the session only in the
cases `spoilt` names. These are real: `syncingDirectHistory` is checked before
an await and set after it, so two syncs of a chat overlap; clearing a chat
makes the next sync begin at 0, where the peer's first message no longer opens,
and the session is deleted; when a sync and a live handler open the same
ciphertext, the second fails and the live one deletes the session and asks for
a reset; an edit read from the history before its envelope costs the session,
as the live branch never asks whether it was applied; a reload between the
`put` of the session and the message's `add` loses the message. A row that
never opens keeps all later rows from being read, which is what
`NothingSkipped` costs.

## Calls

`Calls.tla` is two overlays (`CallOverlay.tsx`) with their `WebRTCManager`s.

| state | code |
|---|---|
| `ui` | `callState`, `callGenerationRef`, `callPeerRef`, `incomingSDP`, `rtcManagerRef`, `callTimeoutRef`, `connectTimeoutRef` |
| `early` | `pendingRemoteCandidatesRef` |
| `rtc` | every `WebRTCManager` made: connection, microphone, descriptions, pending and added candidates |
| `tasks` | `handleStartCallAction` and `handleAccept` at an await: recovering the transport, `getUserMedia`, descriptions, `play()` |
| `wire`, `ready` | signals under way, `isRealtimeReady` |
| `heard`, `raced` | candidates that reached the overlay; a call was reset or begun while another was being set up |

Actions: `ClickCall`, `ClickAccept`, `HangUp`, the four continuations
(`Recovered`, `MicGranted` or `MicDenied`, `Negotiated`, `Attached`),
`RingTimeout`, `ConnectTimeout`, `OnOffer`, `OnAnswer`, `OnEnd`, `OnCandidate`,
`Gathers`, `Connects`, `Breaks`, `SocketDrops`, `SocketReturns`.

Properties: `CandidatesKept` (a candidate is used wherever in the setup it
came), `MicReleased` (an idle overlay holds no microphone), `CallsSettle` (no
overlay rings or connects for ever).

`raced` excepts what the code does not guard: hanging up while `getUserMedia`
waits hands the stream to an ended manager, and the microphone stays on; a
second setup overwrites `rtcManagerRef`, and nobody ends the first manager; a
ring timer that fires while an accept waits clears the candidates it would have
used. Signals carry no call id, so a late `call_end` ends the next call with the
same peer, and `Attached` sets its timers without looking at the generation;
both end in a call that is over, which `CallsSettle` allows. Camera, screen
sharing, call history and the native client's answers without media are left
out.

## GroupEvents

`GroupEvents.tla` is one sender's events to a group or a channel, the backend's
fan-out, and the handlers of the other members.

| state | code |
|---|---|
| `events`, `queue`, `chores`, `flushing`, `left` | what was composed; `outgoingGroupEvents`; sends at an await; the flush loop and its snapshot |
| `listed`, `own`, `keys` | the members in `groupThreads`; the sender's row of `groupSenderKeys`; every key made, with those it was sent to |
| `linked`, `downs`, `acked` | the socket, acknowledgements under way and handled |
| `members`, `rows`, `goal`, `reached` | the server's member list and `offline_messages`; the members of an accepted fan-out, and who got it |
| `present`, `handling`, `parked`, `held`, `applied` | a member's connection, its handlers, `pendingGroupEvents`, its key for the sender, what its messages show |

Actions: `Compose`, `FlushStarts`, `FlushGoesOn`; a send's steps `ReadMembers`,
`ReadKey`, `SaveKey`, `ShareKey`, `Post`; `OnAck`, `LoseLink`, `Relink`,
`ListMembers`, `ChangeMembers`; a member's `OnKey`, `OnEvent`, `Parks`,
`Leaves`, `Returns`. The faults are a failing `INSERT`, lost links and reloads.

Properties: `KeysStayInside` (a key has gone only to people on the list that the
send using it read), `AckedReachesAll` (an acknowledged event was handed to, or
lies in a row for, every member), `RowsOutliveSilence` (a row goes only when the
member shows the event), `QueuedIsAccepted` (liveness).

Met on the way: the key's row is stored before it is shared, so a share that
fails leaves a key that fits and that nobody has; two first sends side by side
make two keys, and a member keeps the later; an event parked 150 ms after the
last look is not replayed if its key came within that time; a second edit of
the same target is dropped while one is parked; direct sends overtake queued
ones; what is sent while connected is not queued, and lost with the connection;
`GET /groups/{id}/members` refuses plain members, whose list then stays empty
and whose key goes to nobody.

## Rooms

`Rooms.tla` is the member table under concurrent requests, and the row one
client keeps of the group. A route reads roles in one statement (`CheckRole`,
`CheckTarget`) and acts in another (`Act`); requests of anyone run in between.
`rank` is `group_members`, `head` is `groups_meta.owner_pub_key`; `shown`,
`invited`, `sync`, `view`, `fresh` are the client's `groupThreads` and
`groupInvites` rows, its shared `groupsSyncPromise`, the list it was given and
`lastGroupsSyncAt`. The client's actions: `Replied`, `ReplyLost`, `Refresh`,
`Expire`, `SyncFetches`, `SyncPuts`, `SyncPrunes`, `SyncEnds`, `SyncFails`,
`OnInvite`, `OpenInvited`, `Dismiss`.

Properties: `OneOwner` and `RowFollowsTable`. The first holds until requests
cross (`crossed`): two transfers side by side make two owners, as the
transaction sets the new owner's role whether or not the old one still was; a
target that leaves between check and transfer leaves a group without an owner.
The second excepts what the client is not told (`behind`): a leave whose answer
comes late deletes the row of a group the user is back in; a leave during a
synchronisation has its row put again; a forced synchronisation joins one that
read the list before. Not in the model: a synchronisation also drops
`pinnedMsgId`.

## Account

`Account.tla` is who is signed in on a device.

| state | code |
|---|---|
| `key`, `locked`, `pin`, `remembered` | the store: keys, `isLocked`, `pinHash`, `isIdentityRemembered` |
| `base`, `vault`, `rows` | `db` and its name, `vaultKey` in `db.ts`, the rows of each database with who wrote them and the key that seals them |
| `disk` | `localStorage`: PIN hash, sealed identity, database names, profile |
| `todo`, `wiping` | handlers at an await; a wipe under way |
| `wiped`, `rash`, `late` | history the properties speak of |

Actions: `LoginBegins`/`LoginEnds`, `UnlockBegins`/`UnlockVerified`/`UnlockOpens`,
`SavePin`/`PinHashed`/`BoxSealed`, `RemovePin`, `RememberDevice`,
`ForgetDevice`, `LockApp`, `WriteBegins`/`WriteEnds`, `ProfileBegins`,
`ProfileEnds`, `SaveProfile`, `Reload`, `Logout`, `PanicReset`, `PanicReopens`,
`WipeEnds`.

Properties: `PinOpensBox` (the PIN that unlocks also signs in) and
`DataStaysOwn` (rows lie in their owner's database under their owner's key, and
are gone after a wipe). `rash` and `late` except what the code does not guard:
a reload between `setPinHash` and `rememberIdentityWithPin` makes a lock screen
that accepts the PIN and never signs in; a PIN change under way survives a
logout and writes the identity back; the panic reset opens the default database
before it reloads, and a handler at work writes there; a late `setProfile`
writes settings after the wipe.

## Conversation

`Conversation.tla` is direct chats on one device: the composer with its drafts,
and the handlers that keep a contact's row, its messages and `threadStats`.
Some change fields of a row, others read it, wait, and put it back whole
(`GetCard`, `PutCard`); `syncThreadStats` counts and then puts (`CountThread`,
`PutStat`).

| state | code |
|---|---|
| `open`, `typed`, `saving` | `activePeerKey`, `draftOverrides`, `draftSyncTimerRef` |
| `card`, `log`, `stat` | `contacts`, `messages`, `threadStats` |
| `copy` | a backup file |
| `jobs` | handlers at an await |
| `wish`, `hasty`, `torn`, `bent` | what was last asked of a row; typed during a send; a row or messages changed between a read and its put |

Properties: `TypedIsKept` (what was typed last is in the input or on its way,
whatever is opened and sent meanwhile), `MarksAreKept` (a verified fingerprint
and a pin survive every rewriting of the row), `StatsFollow` (the sidebar's row
says what the messages are). They hold until a change falls into the read and
put of another handler. The flaws behind the exceptions: text typed during a
send is wiped when the send returns, Enter twice sends twice, a text that was
sent may come back as stored draft, a chat left before the timer of 250 ms keeps
its draft in memory only; the reconciliation at each connect forgets
`pinnedMsgId`; a late edit brings a deleted message back; restoring a backup
drops verified fingerprint, pin and archive flags; a reload between the
transaction of a restore and `rebuildAllThreadStats`, or a message that arrives
between its list and its clear, leaves wrong stats; own pending messages of a
backup come back without outbox row. Abstracted: stats are rebuilt chat by chat
(finer than the code); reactions and receipts are only a recount (`Touch`);
contacts are there from the start.

## Connection

`Connection.tla` is how `SocketManager` keeps its websocket. `mgr` has its
fields (`ws`, `reconnectTimer` as `handle`, `manual`, `tries`, `authed`,
`status`, verified servers, the list of servers) with every socket it made and
every timer that runs; `up` is which servers answer. Actions: `Mount`, `Wake`
(`ensureRealtimeReady`, `recoverTransport`), `Disconnect`, `Fire` (a timer),
`CheckEnds` (`verifyWebSocketProtocol`), `DiscoveryEnds`, `OnOpen`,
`OnChallenge`, `OnAuthSuccess`, `OnAuthError`, `SocketEnds`, `Fault`.

`LinkIsHeld`: every live socket is the one in use and what the manager says of
it is true (`SocketIsHeld`); a page that has not disconnected always has a
socket, a check or a timer from which it tries again (`KeepsTrying`). Excepted:
the handlers work on `this.ws` whichever socket that is, so the close event of
an old one resets a new one's state (`crossed`); the callback of `onclose`'s
timer leaves `reconnectTimer` set, and a check of a server that fails after
that arms nothing (`stranded`; it takes a server not yet checked, so more than
one). A timer that is overwritten keeps running, and can connect after
`disconnect()`.

## Runs

The runs of `DirectDelivery` are configurations of `MCDirectDelivery`: alice
writes on her phone, bob reads on a laptop.

| run | bounds that matter | what it shows |
|---|---|---|
| `dd_reconnect` | 3 connections, send buffers of one frame, 1 fault of any kind | `TypeOK`, `AckHasCustody`, `WaitingIsQueuedOrSeen`, `UnlistedIsCancelled`, `RowKeptUntilSeen`, `MailboxSpec` |
| `dd_sync` | 2 connections, buffers of 3, receipts, history sync on both sides, garbled message, 1 fault of any kind | `SentIsRecorded` when a status may also come over HTTP |
| `dd_live` | a failing statement or throttled frame, 1 early resend | `MailboxFairSpec` |
| `dd_drain` | recipient away, buffers of one frame, 1 early resend, 1 fault of any kind, 3 connections | `OutboxDrains` |
| `dd_delivered`, `dd_zombie` | | the code against its documents, see below |
| `rt_pair` | 7 messages in all, `MaxSkip` 1, one or two handlers | `TypeOK`, `KeyUsedOnce`, `OpensWithinSkip`, `OverlapIsHarmless`, `OpensOnce` |
| `mesh` | every graph of 4 nodes, 2 publishes of 2 keys, hop limits to 3, 1 change of the graph | `TypeOK`, `FloodIsClosed`, `FloodIsBreadthFirst`, `ForgetsOnlyExpired` |
| `link` | `MCLink`: 2 clients, 2 clicks, 1 lost socket; 2 users, 2 prekeys, 2 texts with an edit or a dropped link, 1 with both | `TypesOK`, `CandidatesKept`, `MicReleased`, `CallsSettle`; `PendingSurvivesReset`, `SessionsAgree`, `RepairEnds` |
| `ss_stranded` | the sessions of `link` | the code against its document, see below |
| `rooms` | `MCRooms`: 1 sender and 1 member, 2 events, the five choices of `OddsRooms`; 3 people, 3 turns, 2 requests under way; 3 rows in pages of 2, 2 tasks, 1 clear or reload | `TypesOK`, `KeysStayInside`, `AckedReachesAll`, `RowsOutliveSilence`, `QueuedIsAccepted`; `OneOwner`, `RowFollowsTable`; `HistoryAgrees` |
| `device` | `MCDevice`: 2 identities, 2 PINs, 2 tasks, 7 deeds; 2 chats, 2 texts, 4 moves, 2 jobs; 1 own server and 1 relay, 3 sockets, 3 tries, 2 faults, 1 wake | `TypesOK`, `PinOpensBox`, `DataStaysOwn`; `TypedIsKept`, `MarksAreKept`, `StatsFollow`; `LinkIsHeld` |

Bounds of `DirectDelivery`. `MaxConn`: connections in a behaviour; two per side of a reconnect is
what makes a stale session and its replacement coexist. `BufCap` stands for
256: 3 is enough for a replay, a delivery and an ack to be under way at once,
1 makes every second frame a drop. `WireCap`, `AckCap`: frames and ack
goroutines in flight. `MaxEarly`: resends while a copy is still under way (a
resend of a lost copy is not bounded by it). `MaxFaults`, `FaultKinds`: one
fault at any point already gives every pair of steps of the code a failure in
between. `Syncing`, `Receipting`, `Garbled` switch parts of the behaviour on
where a run needs them. One message is enough for every property here: they
speak of one message each, and the buffers' competition is what `BufCap = 1`
gives. Several devices of the recipient are covered by the theorems only.

`MaxSkip` 1 instead of 50: the limit is met with two messages in a gap.
`MaxSeals` 7: enough for both ends to turn twice with messages of every chain
outstanding. `Widths`: two handlers are what overwriting takes, one is needed
for the properties that two break.

`mesh`: four nodes give ways of different lengths to one node, with and without
a cycle; `MaxTime` 1 lets an entry expire between two publishes; hop limits
below and at the diameter. Nodes are symmetric.

`link`: two clicks give a call, and either a second one from the same end or
one from the other at the same time; a setup has three awaits, at each of which
a signal, a timer, a hang-up or the lost socket comes in. The budgets of
`PlanLink` are three because all of it at once is too much: two texts and an
edit (who may write them is free, so both may begin a session at once), two
texts and a dropped link, one of each. Two prekeys are one to use and one to
find the shelf empty after. The theorems of `SessionsProofs` hold for any number
of texts, edits, lost links and prekeys between two users.

`rooms`: with two events one may change the other, and each of them may be the
first to make a key. `OddsRooms` gives every kind of fault to a pair of events,
not all kinds at once. Three people are an owner, a target and a third who acts
against either; three turns and two requests under way are a transfer, a
request that crosses it and what both of them rest on. Three rows in pages of
two give a full page, a short one and the cursor in between; two tasks are two
syncs, or a sync and an envelope, or two envelopes. The theorems of
`RoomsProofs` hold for any number of each.

`device`: two identities are what one finds of the other; with seven deeds one
signs in, sets a PIN, is remembered, is wiped, and another comes. Two chats are
what switching takes; two jobs are a read and the change that falls into it.
Two sockets make an old one's events reach a new one's state, the third is the
attempt after that. Chats are symmetric. The theorems of `ConversationProofs` and
`DeviceProofs` hold for any number of all these, and those of `CallsProofs` for
any clients, clicks and lost sockets of `link`.

Deadlock is not an error in any run: when everything is delivered, or all
messages are opened, or the publishes, clicks, turns or deeds are used up, the
system stops.

## Fairness

`CodeFairness` gives weak fairness to what the runtime always gets around to:
goroutines, the select loop of `Hub.Run`, the client's timers (`startOutboxLoop`,
the reconnect timer) and its event loop. Faults, composing and the retry
button get none. A failing statement has its own action without fairness, and
shares its guard with the succeeding one, so a fault can still win.
`UserOpensChats` assumes that the recipient's client goes on syncing the
chat's history: `Chat.tsx` does it when the chat is opened, `auth_success` for
the twenty latest contacts. It is needed: a frame that died in a send buffer
is in no queue, only the history still has it.

`dd_live` leaves out the loss of connections: under them the messages still
arrive, but the connections of a behaviour are bounded, and the last one must
live. `dd_drain` allows them because the outbox needs one good connection.

`SessionsFairness` is one weak fairness over all that needs nobody's decision:
timers of `getPreKeyBundle` and of the cooldown, answers of the server, the
flush loop, deliveries, reconnection. Writing and losing the link get none.
One formula for all of them suffices, as each step of it takes something away
or hands it on; `RepairEnds` says that this comes to an end.

`CallsFairness` is the same for calls: handlers go on after an await
(`getUserMedia` answers, granted or not, when the user does: `MicDenied` is not
needed, `MicGranted` is part of going on), the timers fire, signals arrive, the
socket reconnects, WebRTC reports a connection as made or broken. Clicking,
hanging up and losing the socket get none; candidates need not be gathered.

`GroupFairness`: a send goes on, the socket reconnects, the flush loop's timer
(every eight seconds) starts it and it moves on, acknowledgements arrive. The
members' handlers need none for `QueuedIsAccepted`.

## Proofs

Every safety property of the runs is proved for all values of the constants,
but for those named at the end. The way is the same everywhere: an inductive
invariant, one lemma per action or group of actions that keeps it, and what the
invariant implies.

`DirectDeliveryProofs` proves, for all values of the constants that satisfy
`DeliveryAssumption` (owners and addressees are users, nobody writes to
themselves):

- `TypeCorrect`: `Spec => []TypeOK`.
- `CustodyHolds`, and from it `SentIsAlwaysRecorded` and `ImplementsMailbox`.
  `SentIsRecorded` is not inductive: an ack frame in a buffer, a reader about to
  acknowledge, a receipt on the wire, or a fetched history row could each set
  the status. `Custody` therefore says of each of these carriers that its
  message is recorded, and of every message beyond the outbox that it is
  somewhere safe.
- `RoutingHolds`, and from it `AckAlwaysHasCustody`,
  `WaitingIsAlwaysQueuedOrSeen`, `RowIsAlwaysKeptUntilSeen` and
  `UnlistedIsAlwaysCancelled`. `Routing` adds what a reader knows at each
  statement of `routeToLocal`, that an `offline_ack` in flight or a pending
  delete means the message has been seen, and where a connection can be
  between `Hub.register` and `Hub.clients`.

The step lemmas go action by action; `Writers` lemmas say once which actions
touch a variable.

`RatchetProofs` proves, from `RatchetAssumption` (two parties, one of them the
initiator; `None` is no chain, no pair and no row):

- `TypeCorrect`: `Spec => []TypeOK`, by lemmas on each operator of
  `RatchetManager`. That `ensureSendChain` never lacks the peer's key
  (`Missing peer ratchet public key`) is part of it.
- `KeysAreUsedOnce`: `Spec => []KeyUsedOnce`. `KeysInOrder` strengthens it:
  not only the row but every snapshot in the hands of a handler is *usable*,
  its pair is one of its owner's and all positions sealed with that pair come
  before its next one. So it does not matter which handler writes last, as
  long as no send runs while a snapshot is held.
- `OverlapLosesNothing`: `Spec => []OverlapIsHarmless`, for any number of
  handlers that overlap. The invariant `Agree` relates both ends. Of the messages
  of an end (`InOrder`): those of one pair share a chain, positions leave no gap
  and `pn` counts the chain before (`Gapless`), and the lengths of its chains are
  all even or all odd (`Parity`). Of every copy of its row, in the table or held
  by a handler (`Ready`), that it `Fits` what both have sealed: its sending half
  is ahead of all its owner sent (`Sends`, `Turned`), its receiving half comes
  from messages of the peer (`Heard`), and each message of the peer is of a chain
  the copy has reached, and then kept among the skipped keys or still to come, or
  continues the copy's own chain (`Receives`). `DecryptIs` reduces `decrypt` to
  the three ways in which a message can open (`CanTake`, `CanRead`, `CanTurn`),
  and each keeps `Fits` (`TakeFits`, `ReadFits`, `TurnFits`). The case that needs
  both ends is the first message of a new chain, which must be ahead of every
  copy the peer still holds (`FirstSealedIsAhead`): as the two
  ends' chains differ in parity, none of them has turned past the chain that the
  new one continues.
- `OpenedStaysShut`: `Spec => []OpensOnce`. `DoneIfAlone` adds that with one
  handler the copy held is the row in the table, and that of an opened message
  neither a skipped key nor a position ahead is left (`Gone`).
- `WithinSkipOpens`: `Spec => []OpensWithinSkip`. By `Gapless` the messages that
  would have to be skipped are a run of unopened ones just before the message or
  at the end of the chain before it, so there are at most `MAX_SKIP` of them.

`MeshGossipProofs` proves, from `MeshAssumption` (finitely many nodes; `None`
is no node and no envelope):

- `TypeCorrect`; among it, links join only nodes that exist.
- `FloodingIsComplete`: `Spec => FloodIsClosed`, for every graph and hop limit.
  The invariant `Flooding` says what holds while a publish is under way: the
  caches know the envelope exactly where `reached` says (`Remembering`), the
  queue holds two generations at most, the older in front (`Sorted`), nothing
  in it is ahead of what was accepted (`Ahead`), each neighbour of an accepting
  node is served or queued (`Covered`), and the one that is not sent a copy,
  where it came from, is closer to the origin (`CameFrom`).
- `FloodingIsBreadthFirst`: `Spec => FloodIsBreadthFirst`, for every graph, cache,
  hop limit and order of visits. `Widening` adds to `Flooding` that whoever
  accepted has the hops left that its distance leaves (`Shortest`), that a copy
  starts at the origin or has come along a link (`Traced`), and that the origin
  is served first (`Rooted`). That a copy arrives within its distance follows
  from where it came from (`HeadIsNear`); that it is no nearer
  (`HeadIsNoNearer`), as by the order of the queue all that is nearer has been
  served before, ball by ball (`LayersFill`).
- `NothingIsForgotten`: `Spec => ForgetsOnlyExpired`, from lemmas on `Prune`.

`Ball` is a recursive function. That there is such a function
(`IterationExists`, `IterationForever`), and that it steps as it is defined
(`BallIs`), is proved from the least number at which it would fail: a set of
numbers has a least one (`HasLeast`), which stands in for induction
(`ReachesAll`).

`RoomsProofs` proves, from `RoomsAssumption` (the client's user is one of the
users, and none of them is called `unborn` or `gone`), for any set of users and
any number of requests under way:

- `RoomsTypeCorrect`: `RoomsSpec => []RoomsTypeOK`; among it, a handler that
  waits for a synchronisation always has one to wait for, and a group that is
  gone has no members, whatever crossed.
- `OneOwnerOnly`: `RoomsSpec => []OneOwner`. `Ownership` strengthens it by what a
  request about to act has seen (`TargetsChecked`): the one it names was a
  member or an admin. With `RowsName`, who owns the group in both tables, each
  statement then keeps the two in step or has crossed another.
- `RowIsRight`: `RoomsSpec => []RowFollowsTable`. `RowInv` adds what a
  synchronisation under way has done already (its list is still right, the row
  has been written, the row has been pruned) and that a request of the client's
  own that has acted is owed an answer, which synchronises again.

It also proves, from `GroupAssumption` (the sender is none of the members), for
any number of members, events, keys and faults:

- `KeysStayAlwaysInside`: `GroupSpec => []KeysStayInside`. `KeysFit` says of
  every key, of the stored one and of the one in the hands of each send, which
  people it was made for.
- `AckedHasReachedAll`: `GroupSpec => []AckedReachesAll`, as `ServerFits` says
  already of acknowledgements under way.
- `RowsAlwaysOutliveSilence`: `GroupSpec => RowsOutliveSilence`.
- `GroupTypeCorrect`: `GroupSpec => []GroupTypeOK`. `MembersHold` adds that what
  lies in a member's rows, hands and parked events names an event and a key that
  exist; the events a late key releases are replayed one on the other
  (`Replayed`, a recursive function), which `ReplayedIs` bounds in the way
  described for `Ball`. `OneQueued` says that the flush has started one send at
  most, without which a second one would be left when the first throws.

And from `HistoryAssumption` (bounds are numbers, a page has a row and so does
the history):

- `HistoryTypeCorrect`: `HistorySpec => []HistoryTypeOK`.
- `HistoryIsRead`: `HistorySpec => []HistoryAgrees`, for any number of rows,
  pages, overlapping syncs and handlers. `NothingSkipped` is strengthened to
  what each sync has read: all before the row it is at (`ReadInv`).
  `SessionSurvives` holds because, while nothing has spoilt it, every
  ciphertext that may be opened is still fresh (`Safe`): the first row is
  among the messages (`FirstIsRead`), a message whose ciphertext is spent is
  stored or about to be (`SpentIsFound`), whoever is about to open a row finds
  it unopened (`OpenIsFresh`), a live edit has not been opened before
  (`LiveIsDue`, `EditsAwait`), and no two tasks open the same row
  (`OneAtOnce`).

For the three together, as `MCRooms` runs them:

- `ChatsAreThree`: a behaviour of `MCRooms` is one of `Rooms`, one of
  `GroupEvents` and one of `History`, so what is proved of each holds in it.
- `ChatsTypesCorrect`: `ChatsSpec => []TypesOK`.

`CallsProofs` proves, from `CallsAssumption` (`Nobody` is no client), for any
clients that call each other any number of times:

- `CallsTypeCorrect`: `CallsSpec => []CallsTypeOK`.
- `CandidatesStayKept`: `CallsSpec => []CandidatesKept`. A candidate is sent
  after the description of its manager and the queue between two clients keeps
  the order (`WireInOrder`, `GatheredIsDescribed`), so whoever reads a
  description has heard no candidate of it before; from then on the candidate is
  in the overlay's buffer or in the manager's (`EarlyAreKept`). That it is the
  right manager's rests on generations (`GensAgree`, `HoldsOwn`) and on a setup
  that overlaps no other being the one the overlay shows (`SetupsAreFresh`,
  `SetupsAreShown`).
- `MicStaysReleased`: `CallsSpec => []MicReleased`, as only the manager that the
  overlay holds has the microphone (`MicIsHeld`).

The steps of `Calls` are many and their effects few: one lemma says of each
action which effect it has, and another of each effect that it keeps a part of
the invariant.

`SessionsProofs` proves, from `SessionsAssumption` (there are two users, prekeys
are positive numbers), for any number of texts, edits, lost links and prekeys:

- `SessionsTypeCorrect`: `SessionsSpec => [](SessionsTypeOK /\ Fitting)`. Types
  alone are not inductive: that an ask to send, an outbox row and an envelope
  each name a text with the status that goes with it (`AskingFits`, `RowsFit`,
  `MailFits`) is what makes the number of sessions in use finite, and with it
  `FreshSession` a number nobody uses.
- `PendingIsKept`: `SessionsSpec => []PendingSurvivesReset`, as without
  overlapping asks an end has at most one, and it is heard (`AskAlone`); a
  pending text then has its row, or the one ask is a repair (`PendingStays`).
  The reset notice in the mail, for which `PendingIsCarried` allows besides, is
  needed only when a link has dropped inside a reset.
- `SessionsStayAgreed`: `SessionsSpec => []SessionsAgree`. `FirstOpens` follows
  from `KeysAreHeld`: a prekey is on the shelf, or in exactly one bundle, outbox
  row or envelope, and its owner keeps the private half as long. `RowsAgree`
  follows from `RowsMeet`: at most one end is beginning a session (`OneBegins`),
  the last envelope of those it began is of the session it keeps (`LastBegun`),
  who waits for a bundle has no row and nothing queued behind the text it
  waits for (`WaitsAlone`), and rows differ only while such an envelope is on
  its way (`RowsOf`).
- `LinkIsBoth` and `LinkTypesCorrect`: a behaviour of `MCLink` is one of `Calls`
  and one of `Sessions`, so all that is proved of them holds in it, and
  `LinkSpec => []TypesOK`.

`ConversationProofs` proves, from `ConversationAssumption` (`NoThread` is neither
a chat nor a text), for any chats, texts and handlers at work:

- `ConversationTypeCorrect`: `ConversationSpec => []ConversationTypeOK`.
- `TypedTextIsKept`: `ConversationSpec => []TypedIsKept`. `SendsInput` says that
  every send of a chat sends the text that stands in its input, so the one that
  empties the input empties that text. A draft restored from a backup while a
  text is being sent is wiped with it, as one typed then is; `hasty` records
  both.
- `MarksStayAsSet`: `ConversationSpec => []MarksAreKept`. A handler that is about
  to put a row holds the row as it is (`RowIsFresh`), unless `torn` records a
  change in between.
- `SidebarFollowsMessages`: `ConversationSpec => []StatsFollow`. `CountsHold`: the
  row is right or somebody still owes it a count, and what a handler has
  counted, listed or found deleted is still so.

`DeviceProofs` proves, from `AccountAssumption` (`None` is neither an identity
nor a PIN) and `ConnectionAssumption` (there is a server of one's own), for any
identities, PINs, servers, sockets, timers and attempts:

- `AccountTypeCorrect`: `AccountSpec => []AccountTypeOK`.
- `PinAlwaysOpensBox`: `AccountSpec => []PinOpensBox`. `PinInStep`: the PIN in the
  store is the one on the disk, one handler at most changes it, and the one that
  seals the box holds it.
- `DataStaysWithOwner`: `AccountSpec => []DataStaysOwn`. A handler that writes is
  one of the identity signed in (`TasksAreOwn`), whose database and vault are
  open (`KeysTogether`); nobody signs in over another (`EntersOnce`); what a wipe
  leaves behind is said from the moment it begins (`WipedIsGone`).
- `ConnectionTypeCorrect`: `ConnectionSpec => []ConnectionTypeOK`.
- `LinkStaysHeld`: `ConnectionSpec => []LinkIsHeld`. `LinkInv` says that the live
  socket is the one held (`Held`) and that something is under way (`Trying`); the
  lemmas say of each operator on the manager (`Arm`, `Connect`, `Closed`, ...) that
  it leaves a manager of which this holds.
- `DeviceTypesCorrect`: `DeviceSpec => []TypesOK`, for the three parts of
  `MCDevice` together.

Only model-checked:

- liveness, out of the prover's reach: `MailboxFairSpec`, `OutboxDrains`,
  `CallsSettle`, `RepairEnds`, `QueuedIsAccepted`;
- the violations, which are found.

## Where code and documents disagree

Each is a run that TLC must find violated.

- `dd_delivered`: *delivered* at the sender may come from history sync, where
  the server wrote it when it filled a send buffer; `deliveryStatus.ts` says a
  device acknowledged.
- `dd_zombie`: a connection taken from `unregister` before `register` stays in
  `Hub.clients`; frames for a recipient who is offline then fill its buffer
  instead of `offline_messages`, where `PROTOCOL_CONTRACT.md` says they go.
- `ss_stranded`: "Messages stay on this device and retry automatically" says
  the client; `handlePeerSessionReset` deletes the peer's outbox rows before it
  enqueues them anew, and when the link drops in between, or the prekey bundle
  does not come, pending messages are left that nothing resends.

## What is not modelled

- Backend: session tokens, presence, files and their access lists, relays,
  Redis, the stateless HTTP surface; of prekeys, `clear_prekeys` and the
  goroutines that serve uploads; limits and expiry of invite links, titles, the
  audit log; the windows of the flood control, which are counters of time (the
  refusal is a fault of `DirectDelivery`).
- Of the direct path: `self_sync`, read receipts and reactions as messages
  (what they change on a device is in `Conversation` and `History`), several
  backend instances, `disconnectSessionClients`. An edit, a deletion, a
  reaction or a read receipt made offline is not queued by the code and is
  simply not sent.
- Web client: rendering, translation, search, media, stickers, schema upgrades
  of the database, the count of wrong PINs and its delays, the ranking of
  servers by latency. The cryptography is symbolic throughout; paddings and the
  post-quantum part are left out.
- Rust core: transport choice, metadata padding, retry delays and call state
  are pure functions with unit tests; only the mesh has behaviour over time.
- The Windows client: a second implementation of the protocol, followed only
  where a section above says so.
- Installers, scripts, styling.

`PROJECT.json` gives the reason for each component, and the hazard that no
property covers.

## How to run

    tlc -workers 2 -config dd_reconnect.cfg MCDirectDelivery
    tlc -workers 2 -config rt_pair.cfg MCRatchet
    tlc -workers 2 -config mesh.cfg MCMeshGossip
    tlc -workers 2 -config link.cfg MCLink
    tlc -workers 2 -config rooms.cfg MCRooms
    tlc -workers 2 -config device.cfg MCDevice
    tlapm DirectDeliveryProofs.tla
    tlapm RatchetProofs.tla
    tlapm MeshGossipProofs.tla
    tlapm RoomsProofs.tla
    tlapm CallsProofs.tla
    tlapm SessionsProofs.tla
    tlapm ConversationProofs.tla
    tlapm DeviceProofs.tla
