--------------------------- MODULE DirectDelivery ---------------------------
(***************************************************************************)
(* The life of a direct message: the web client's durable outbox and its   *)
(* flush loop (socket.ts), the websocket, the goroutines of one backend    *)
(* instance (client.go, hub.go), the two tables that keep ciphertext       *)
(* (db.go), and the recipient's handler, receipts and history sync.        *)
(*                                                                         *)
(* Every step between two awaits, channel operations, locks or SQL         *)
(* statements is an action of its own.  What a ciphertext says is          *)
(* abstracted to whether the recipient can open it (Garbled).  A           *)
(* connection is used once; connections are numbered as they arrive.       *)
(***************************************************************************)
EXTENDS Naturals, Sequences, FiniteSets

CONSTANTS
  Device,     \* installations of the client, each with its own IndexedDB
  User,       \* public keys
  Owner,      \* Owner[d]: the user logged in on device d
  Msg,        \* direct messages, by msg_id
  From,       \* From[m]: the device that composes m
  To,         \* To[m]: the user m is addressed to
  Syncing,    \* bound: devices whose history sync is modelled
  Receipting, \* bound: devices whose delivery receipts are modelled
  Garbled,    \* messages the recipient's ratchet session may fail to open
  None,       \* no connection, no device, no frame
  MaxConn,    \* bound: connections made in a behaviour
  BufCap,     \* capacity of Client.send (256 in the code), wire included
  WireCap,    \* bound: frames in flight from a client to the server
  AckCap,     \* bound: goroutines serving offline_acks of one message
  MaxEarly,   \* bound: retries made while an earlier copy is still under way
  FaultKinds, \* the kinds of fault a behaviour may have
  MaxFaults   \* bound: how many

Conn == 1..MaxConn

ASSUME DeliveryAssumption ==
  /\ Owner \in [Device -> User]
  /\ From \in [Msg -> Device]
  /\ To \in [Msg -> User]
  /\ \A m \in Msg : To[m] # Owner[From[m]]
  /\ Garbled \subseteq Msg /\ Syncing \subseteq Device /\ Receipting \subseteq Device
  /\ FaultKinds \subseteq {"link", "reload", "restart", "sql", "flood"}
  /\ None \notin Device /\ None \notin Conn
  /\ {MaxConn, BufCap, WireCap, AckCap, MaxEarly, MaxFaults} \subseteq Nat

Frame ==
  [kind : {"message", "offline_ack", "delivery_receipt", "server_ack"}, m : Msg]

\* delivery_state of a message_history row, "none" when there is no row.
DeliveryState == {"none", "accepted", "waiting_delivery", "delivered"}

\* status of a row of the sender's messages table, "none" before send().
Status == {"none", "failed", "pending", "sent", "delivered"}

\* Where a readPump stands: waiting for a frame, at a statement of
\* routeToLocal, about to acknowledge, returned, or not started.
ReaderPc == {"off", "idle", "record", "lookup", "deliver", "markDelivered",
             "persist", "markWaiting", "ack", "exited"}

VARIABLES
  outbox,     \* [Device -> SUBSET Msg] outgoingDirectMessages
  status,     \* [Msg -> Status] the sender's messages row
  composing,  \* [Device -> SUBSET Msg] send() between its two writes
  flush,      \* [Device -> SUBSET Msg] what a running flush loop has left
  stored,     \* [Device -> SUBSET Msg] messages rows of received messages
  refused,    \* [Device -> SUBSET Msg] received, not decrypted, acknowledged
  page,       \* [Device -> SUBSET [m, state]] history rows fetched, not applied
  link,       \* [Device -> Conn or None] the socket in SocketManager.ws
  dev,        \* [Conn -> Device or None] who authenticated on a connection
  up,         \* [Conn -> Seq(Frame)] frames on the wire to the server
  cut,        \* SUBSET Conn: connections whose TCP side is closed
  gone,       \* SUBSET Conn: connections whose ctx is cancelled
  regq,       \* SUBSET Conn: in Hub.register
  unregq,     \* SUBSET Conn: in Hub.unregister
  sess,       \* SUBSET Conn: in Hub.clients
  listing,    \* SUBSET Conn: registration goroutine before ListOfflineMessages
  replay,     \* [Conn -> SUBSET Msg] rows it still has to send
  send,       \* [Conn -> Seq(Frame)] Client.send, and the wire behind writePump
  pc,         \* [Conn -> ReaderPc] readPump and the routeToLocal it runs
  frame,      \* [Conn -> Frame or None] the frame it serves
  todo,       \* [Conn -> SUBSET Conn] sessions it still has to hand it to
  got,        \* SUBSET Conn: readers whose frame some session took
  dels, marks,\* [Msg -> Nat] offline_ack goroutines before DELETE, before UPDATE
  history,    \* [Msg -> DeliveryState] message_history
  offline,    \* SUBSET Msg: offline_messages
  early,      \* retries made so far while an earlier copy was under way
  faults      \* faults so far

appVars == <<outbox, status, composing, flush, early, stored, refused, page>>
wireVars == <<link, dev, up, cut>>
hubVars == <<gone, regq, unregq, sess, listing, replay>>
readerVars == <<pc, frame, todo, got>>
ackVars == <<dels, marks>>
dbVars == <<history, offline>>
vars == <<appVars, wireVars, hubVars, send, readerVars, ackVars, dbVars, faults>>

Init ==
  /\ outbox = [d \in Device |-> {}]
  /\ status = [m \in Msg |-> "none"]
  /\ composing = [d \in Device |-> {}]
  /\ flush = [d \in Device |-> {}]
  /\ stored = [d \in Device |-> {}]
  /\ refused = [d \in Device |-> {}]
  /\ page = [d \in Device |-> {}]
  /\ link = [d \in Device |-> None]
  /\ dev = [c \in Conn |-> None]
  /\ up = [c \in Conn |-> <<>>]
  /\ cut = {} /\ gone = {} /\ regq = {} /\ unregq = {} /\ sess = {}
  /\ listing = {}
  /\ replay = [c \in Conn |-> {}]
  /\ send = [c \in Conn |-> <<>>]
  /\ pc = [c \in Conn |-> "off"]
  /\ frame = [c \in Conn |-> None]
  /\ todo = [c \in Conn |-> {}] /\ got = {}
  /\ dels = [m \in Msg |-> 0]
  /\ marks = [m \in Msg |-> 0]
  /\ history = [m \in Msg |-> "none"]
  /\ offline = {}
  /\ early = 0 /\ faults = 0

\* Something that goes wrong, as it may at most MaxFaults times.
Fault(kind) ==
  /\ kind \in FaultKinds /\ faults < MaxFaults
  /\ faults' = faults + 1

-----------------------------------------------------------------------------
(* Operators shared by the actions.                                        *)

\* messageStatusRank; a message not composed yet ranks below all of them.
Rank(s) ==
  CASE s = "none" -> 0 [] s = "failed" -> 1 [] s = "pending" -> 2
    [] s = "sent" -> 3 [] s = "delivered" -> 4

\* historyStatusFor, of a record the device itself sent.
HistoryStatus(state) == IF state = "delivered" THEN "delivered" ELSE "sent"

\* The user a frame is routed to: receipts go back to the sender.
Dest(f) == IF f.kind = "message" THEN To[f.m] ELSE Owner[From[f.m]]

FrameOf(k, m) == [kind |-> k, m |-> m]

ConnsOf(u) == {c \in Conn : dev[c] # None /\ Owner[dev[c]] = u}

\* Some device of the recipient has taken m: stored it, or failed to decrypt
\* it and acknowledged it all the same.
Seen(m) == \E d \in Device : Owner[d] = To[m] /\ m \in stored[d] \cup refused[d]

\* ws.send of frames fs on the socket of d: lost when the connection is cut.
Upload(d, fs) ==
  LET c == link[d] IN
  /\ c # None
  /\ IF c \in cut
     THEN UNCHANGED up
     ELSE /\ Len(up[c]) + Len(fs) <= WireCap
          /\ up' = [up EXCEPT ![c] = @ \o fs]

Receipt(d, m) == IF d \in Receipting THEN <<FrameOf("delivery_receipt", m)>> ELSE <<>>

\* Client.send has room: the non-blocking send does not take its default.
Room(c) == Len(send[c]) < BufCap

\* Mutant: the context is left alone.
DropClientNoCancel(c) == sess' = sess \ {c} /\ cut' = cut \cup {c} /\ UNCHANGED gone

\* dropClient: forget the session, close the socket, cancel the context.
DropClient(c) ==
  /\ sess' = sess \ {c}
  /\ cut' = cut \cup {c}
  /\ gone' = gone \cup {c}

-----------------------------------------------------------------------------
(* The client: composing, the outbox and the flush loop.                   *)

\* send(): the message is added to messages as pending ...
Compose(d, m) ==
  /\ From[m] = d /\ status[m] = "none"
  /\ status' = [status EXCEPT ![m] = "pending"]
  /\ composing' = [composing EXCEPT ![d] = @ \cup {m}]
  /\ UNCHANGED <<early, outbox, flush, stored, refused, page>>
  /\ UNCHANGED <<wireVars, hubVars, send, readerVars, ackVars, dbVars, faults>>

\* ... and, one await later, put in the outbox.
Enqueue(d, m) ==
  /\ m \in composing[d]
  /\ composing' = [composing EXCEPT ![d] = @ \ {m}]
  /\ outbox' = [outbox EXCEPT ![d] = @ \cup {m}]
  /\ UNCHANGED <<early, status, flush, stored, refused, page>>
  /\ UNCHANGED <<wireVars, hubVars, send, readerVars, ackVars, dbVars, faults>>

\* flushOutgoingDirectMessages takes a snapshot of the outbox; one loop at a time.
FlushStart(d) ==
  /\ link[d] # None /\ flush[d] = {} /\ outbox[d] # {}
  /\ flush' = [flush EXCEPT ![d] = outbox[d]]
  /\ UNCHANGED <<early, outbox, status, composing, stored, refused, page>>
  /\ UNCHANGED <<wireVars, hubVars, send, readerVars, ackVars, dbVars, faults>>

\* A copy of m on the socket of d, in the reader behind it, or its ack; or m
\* was acknowledged after the loop took its snapshot.
UnderWay(d, m) ==
  LET c == link[d] IN
  \/ m \notin outbox[d]
  \/ /\ c # None
     /\ \/ \E i \in DOMAIN up[c] : up[c][i] = FrameOf("message", m)
        \/ frame[c] = FrameOf("message", m)
        \/ \E i \in DOMAIN send[c] : send[c][i] = FrameOf("server_ack", m)

\* Mutant: the row is deleted once sent.
FlushSendForgets(d, m) ==
  /\ m \in flush[d] /\ ~UnderWay(d, m)
  /\ Upload(d, <<FrameOf("message", m)>>)
  /\ flush' = [flush EXCEPT ![d] = @ \ {m}]
  /\ outbox' = [outbox EXCEPT ![d] = @ \ {m}]
  /\ UNCHANGED <<early, status, composing, stored, refused, page, link, dev, cut>>
  /\ UNCHANGED <<hubVars, send, readerVars, ackVars, dbVars, faults>>

\* The retry delay of m has passed: the message is sent (again).
FlushSend(d, m) ==
  /\ m \in flush[d]
  /\ IF UnderWay(d, m) THEN early < MaxEarly /\ early' = early + 1 ELSE UNCHANGED early
  /\ Upload(d, <<FrameOf("message", m)>>)
  /\ status' = [status EXCEPT ![m] = IF @ = "failed" THEN "pending" ELSE @]
  /\ flush' = [flush EXCEPT ![d] = @ \ {m}]
  /\ UNCHANGED <<outbox, composing, stored, refused, page, link, dev, cut>>
  /\ UNCHANGED <<hubVars, send, readerVars, ackVars, dbVars, faults>>

\* It has not passed: the loop goes on.
FlushSkip(d, m) ==
  /\ m \in flush[d] /\ UnderWay(d, m)
  /\ flush' = [flush EXCEPT ![d] = @ \ {m}]
  /\ UNCHANGED <<outbox, status, composing, early, stored, refused, page>>
  /\ UNCHANGED <<wireVars, hubVars, send, readerVars, ackVars, dbVars, faults>>

\* Mutant: a failed message leaves the outbox.
FlushFailGivesUp(d, m) ==
  /\ m \in flush[d] /\ link[d] = None
  /\ status' = [status EXCEPT ![m] = "failed"]
  /\ flush' = [flush EXCEPT ![d] = {}]
  /\ outbox' = [outbox EXCEPT ![d] = @ \ {m}]
  /\ UNCHANGED <<early, composing, stored, refused, page>>
  /\ UNCHANGED <<wireVars, hubVars, send, readerVars, ackVars, dbVars, faults>>

\* The socket closed while the loop was awaiting: sendEnvelope throws.
FlushFail(d, m) ==
  /\ m \in flush[d] /\ link[d] = None
  /\ status' = [status EXCEPT ![m] = "failed"]
  /\ flush' = [flush EXCEPT ![d] = {}]
  /\ UNCHANGED <<early, outbox, composing, stored, refused, page>>
  /\ UNCHANGED <<wireVars, hubVars, send, readerVars, ackVars, dbVars, faults>>

\* retryDirectMessage, for a message that still waits in the outbox.
RetryDirectMessage(d, m) ==
  /\ m \in outbox[d] /\ status[m] = "failed"
  /\ status' = [status EXCEPT ![m] = "pending"]
  /\ UNCHANGED <<early, outbox, composing, flush, stored, refused, page>>
  /\ UNCHANGED <<wireVars, hubVars, send, readerVars, ackVars, dbVars, faults>>

-----------------------------------------------------------------------------
(* Connections: serveWs, Hub.Run, the pumps' exits, faults.                *)

\* serveWs after the challenge: the client is told auth_success, then pushed
\* into Hub.register, and its pumps start.
Connect(d, c) ==
  /\ link[d] = None
  /\ dev[c] = None /\ \A k \in 1..(c - 1) : dev[k] # None
  /\ link' = [link EXCEPT ![d] = c]
  /\ dev' = [dev EXCEPT ![c] = d]
  /\ regq' = regq \cup {c}
  /\ pc' = [pc EXCEPT ![c] = "idle"]
  /\ UNCHANGED <<appVars, up, cut, gone, unregq, sess, listing, replay>>
  /\ UNCHANGED <<send, frame, todo, got, ackVars, dbVars, faults>>

\* The network, the device or a deadline closes the TCP connection.
LoseLink(c) ==
  /\ dev[c] # None /\ c \notin cut
  /\ Fault("link")
  /\ cut' = cut \cup {c}
  /\ UNCHANGED <<appVars, link, dev, up, hubVars, send, readerVars, ackVars, dbVars>>

\* ws.onclose at the device.
OnClose(d) ==
  /\ link[d] # None /\ link[d] \in cut
  /\ link' = [link EXCEPT ![d] = None]
  /\ UNCHANGED <<appVars, dev, up, cut>>
  /\ UNCHANGED <<hubVars, send, readerVars, ackVars, dbVars, faults>>

\* The page is reloaded: what is only in memory is gone, IndexedDB stays.
Reload(d) ==
  /\ Fault("reload")
  /\ composing' = [composing EXCEPT ![d] = {}]
  /\ flush' = [flush EXCEPT ![d] = {}]
  /\ page' = [page EXCEPT ![d] = {}]
  /\ link' = [link EXCEPT ![d] = None]
  /\ cut' = IF link[d] = None THEN cut ELSE cut \cup {link[d]}
  /\ UNCHANGED <<early, outbox, status, stored, refused, dev, up>>
  /\ UNCHANGED <<hubVars, send, readerVars, ackVars, dbVars>>

\* The backend process restarts: the tables stay, everything else is gone.
Restart ==
  /\ Fault("restart")
  /\ cut' = {c \in Conn : dev[c] # None} /\ gone' = cut'
  /\ regq' = {} /\ unregq' = {} /\ sess' = {} /\ listing' = {}
  /\ replay' = [c \in Conn |-> {}]
  /\ up' = [c \in Conn |-> <<>>]
  /\ send' = [c \in Conn |-> <<>>]
  /\ pc' = [c \in Conn |-> IF dev[c] = None THEN "off" ELSE "exited"]
  /\ frame' = [c \in Conn |-> None]
  /\ todo' = [c \in Conn |-> {}] /\ got' = {}
  /\ dels' = [m \in Msg |-> 0] /\ marks' = [m \in Msg |-> 0]
  /\ UNCHANGED <<appVars, link, dev, dbVars>>

\* Hub.Run takes a client from register and starts the goroutine that
\* replays its offline messages.
Register(c) ==
  /\ c \in regq
  /\ regq' = regq \ {c}
  /\ sess' = sess \cup {c}
  /\ listing' = listing \cup {c}
  /\ UNCHANGED <<appVars, wireVars, gone, unregq, replay, send, readerVars, ackVars, dbVars, faults>>

\* Hub.Run takes a client from unregister.  Both channels may be ready at
\* once: select picks either.
Unregister(c) ==
  /\ c \in unregq
  /\ unregq' = unregq \ {c}
  /\ DropClient(c)
  /\ UNCHANGED <<appVars, link, dev, up, regq, listing, replay>>
  /\ UNCHANGED <<send, readerVars, ackVars, dbVars, faults>>

\* Mutant: the rows are deleted as they are read.
ListOfflineTakes(c) ==
  /\ c \in listing
  /\ listing' = listing \ {c}
  /\ LET rows == {m \in offline : To[m] = Owner[dev[c]]} IN
       replay' = [replay EXCEPT ![c] = rows] /\ offline' = offline \ rows
  /\ UNCHANGED <<appVars, wireVars, gone, regq, unregq, sess, history>>
  /\ UNCHANGED <<send, readerVars, ackVars, faults>>

\* ListOfflineMessages of the registration goroutine.
ListOffline(c) ==
  /\ c \in listing
  /\ listing' = listing \ {c}
  /\ replay' = [replay EXCEPT ![c] = {m \in offline : To[m] = Owner[dev[c]]}]
  /\ UNCHANGED <<appVars, wireVars, gone, regq, unregq, sess>>
  /\ UNCHANGED <<send, readerVars, ackVars, dbVars, faults>>

ListOfflineFails(c) ==
  /\ c \in listing /\ Fault("sql")
  /\ listing' = listing \ {c}
  /\ UNCHANGED <<appVars, wireVars, gone, regq, unregq, sess, replay>>
  /\ UNCHANGED <<send, readerVars, ackVars, dbVars>>

\* The goroutine's blocking send of one row ...
Replay(c, m) ==
  /\ m \in replay[c] /\ Room(c)
  /\ send' = [send EXCEPT ![c] = Append(@, FrameOf("message", m))]
  /\ replay' = [replay EXCEPT ![c] = @ \ {m}]
  /\ UNCHANGED <<appVars, wireVars, gone, regq, unregq, sess, listing>>
  /\ UNCHANGED <<readerVars, ackVars, dbVars, faults>>

\* ... which gives up when the client's context is cancelled.
ReplayStops(c) ==
  /\ replay[c] # {} /\ c \in gone
  /\ replay' = [replay EXCEPT ![c] = {}]
  /\ UNCHANGED <<appVars, wireVars, gone, regq, unregq, sess, listing>>
  /\ UNCHANGED <<send, readerVars, ackVars, dbVars, faults>>

\* writePump sees the cancelled context and closes the socket.
WriterExits(c) ==
  /\ c \in gone /\ c \notin cut
  /\ cut' = cut \cup {c}
  /\ UNCHANGED <<appVars, link, dev, up, hubVars, send, readerVars, ackVars, dbVars, faults>>

\* readPump returns: a read fails or the context is cancelled.  What it has
\* not read is lost.
ReaderExits(c) ==
  /\ pc[c] = "idle" /\ c \in cut \cup gone
  /\ pc' = [pc EXCEPT ![c] = "exited"]
  /\ unregq' = unregq \cup {c}
  /\ cut' = cut \cup {c} /\ gone' = gone \cup {c}
  /\ up' = [up EXCEPT ![c] = <<>>]
  /\ UNCHANGED <<appVars, link, dev, regq, sess, listing, replay>>
  /\ UNCHANGED <<send, frame, todo, got, ackVars, dbVars, faults>>

-----------------------------------------------------------------------------
(* readPump and routeToLocal, for direct messages and delivery receipts.   *)

\* The frame is dealt with.
Rest(c) ==
  /\ pc' = [pc EXCEPT ![c] = "idle"]
  /\ frame' = [frame EXCEPT ![c] = None]
  /\ got' = got \ {c}

\* Mutant: a message that reached nobody is acknowledged as it is.
AfterDeliveryAcks(c, reached) ==
  IF frame[c].kind = "delivery_receipt" THEN Rest(c)
  ELSE /\ pc' = [pc EXCEPT ![c] = IF reached THEN "markDelivered" ELSE "ack"]
       /\ got' = IF reached THEN got \cup {c} ELSE got
       /\ UNCHANGED frame

\* What follows deliverToPubKey.  Receipts are not persisted; the server_ack
\* of a receipt is left out, handleServerAck does nothing with it.
AfterDelivery(c, reached) ==
  IF frame[c].kind = "delivery_receipt" THEN Rest(c)
  ELSE /\ pc' = [pc EXCEPT ![c] = IF reached THEN "markDelivered" ELSE "persist"]
       /\ got' = IF reached THEN got \cup {c} ELSE got
       /\ UNCHANGED frame

\* Mutant: the frame is not kept.
ReadRoutedBlank(c) ==
  /\ pc[c] = "idle" /\ up[c] # <<>>
  /\ Head(up[c]).kind # "offline_ack"
  /\ pc' = [pc EXCEPT ![c] = "record"]
  /\ up' = [up EXCEPT ![c] = Tail(@)]
  /\ UNCHANGED <<appVars, link, dev, cut, hubVars, send, frame, todo, got, ackVars, dbVars, faults>>

ReadRouted(c) ==
  /\ pc[c] = "idle" /\ up[c] # <<>>
  /\ Head(up[c]).kind # "offline_ack"
  /\ frame' = [frame EXCEPT ![c] = Head(up[c])]
  /\ pc' = [pc EXCEPT ![c] = IF Head(up[c]).kind = "message" THEN "record" ELSE "lookup"]
  /\ up' = [up EXCEPT ![c] = Tail(@)]
  /\ UNCHANGED <<appVars, link, dev, cut, hubVars, send, todo, got, ackVars, dbVars, faults>>

\* allowInboundEvent refuses the frame: it is dropped without an ack.
Throttle(c) ==
  /\ pc[c] = "idle" /\ up[c] # <<>>
  /\ Head(up[c]).kind # "offline_ack"
  /\ Fault("flood")
  /\ up' = [up EXCEPT ![c] = Tail(@)]
  /\ UNCHANGED <<appVars, link, dev, cut, hubVars, send, readerVars, ackVars, dbVars>>

\* offline_ack is served by a goroutine of its own.
ReadOfflineAck(c) ==
  /\ pc[c] = "idle" /\ up[c] # <<>>
  /\ Head(up[c]).kind = "offline_ack"
  /\ LET m == Head(up[c]).m IN
       /\ dels[m] < AckCap
       /\ dels' = [dels EXCEPT ![m] = @ + 1]
  /\ up' = [up EXCEPT ![c] = Tail(@)]
  /\ UNCHANGED <<appVars, link, dev, cut, hubVars, send, readerVars, marks, dbVars, faults>>

\* saveDirectMessageHistory: INSERT OR IGNORE with state accepted.
SaveHistory(c) ==
  /\ pc[c] = "record"
  /\ history' = [history EXCEPT ![frame[c].m] = IF @ = "none" THEN "accepted" ELSE @]
  /\ pc' = [pc EXCEPT ![c] = "lookup"]
  /\ UNCHANGED <<appVars, wireVars, hubVars, send, frame, todo, got, ackVars, offline, faults>>

\* Mutant: the error is only logged.
SaveHistoryFailsOn(c) ==
  /\ pc[c] = "record" /\ Fault("sql")
  /\ pc' = [pc EXCEPT ![c] = "lookup"]
  /\ UNCHANGED <<appVars, wireVars, hubVars, send, frame, todo, got, ackVars, dbVars>>

SaveHistoryFails(c) ==
  /\ pc[c] = "record" /\ Fault("sql")
  /\ Rest(c)
  /\ UNCHANGED <<appVars, wireVars, hubVars, send, todo, ackVars, dbVars>>

\* deliverToPubKey copies the recipient's sessions under the read lock ...
LookupSessions(c) ==
  /\ pc[c] = "lookup"
  /\ LET targets == sess \cap ConnsOf(Dest(frame[c])) IN
       IF targets = {}
       THEN AfterDelivery(c, FALSE) /\ UNCHANGED todo
       ELSE /\ pc' = [pc EXCEPT ![c] = "deliver"]
            /\ todo' = [todo EXCEPT ![c] = targets]
            /\ UNCHANGED <<frame, got>>
  /\ UNCHANGED <<appVars, wireVars, hubVars, send, ackVars, dbVars, faults>>

\* ... and, without the lock, hands the frame to each or drops a slow one.
DeliverTo(c, k) ==
  /\ pc[c] = "deliver" /\ k \in todo[c]
  /\ todo' = [todo EXCEPT ![c] = @ \ {k}]
  /\ IF todo[c] = {k}
     THEN AfterDelivery(c, c \in got \/ Room(k))
     ELSE /\ got' = IF Room(k) THEN got \cup {c} ELSE got
          /\ UNCHANGED <<pc, frame>>
  /\ IF Room(k)
     THEN /\ send' = [send EXCEPT ![k] = Append(@, frame[c])]
          /\ UNCHANGED <<sess, cut, gone>>
     ELSE DropClient(k) /\ UNCHANGED send
  /\ UNCHANGED <<appVars, link, dev, up, regq, unregq, listing, replay>>
  /\ UNCHANGED <<ackVars, dbVars, faults>>

\* updateDirectHistoryState, after a delivery and after an offline row.
MarkDelivered(c) ==
  /\ pc[c] = "markDelivered"
  /\ history' = [history EXCEPT ![frame[c].m] = "delivered"]
  /\ pc' = [pc EXCEPT ![c] = "ack"]
  /\ UNCHANGED <<appVars, wireVars, hubVars, send, frame, todo, got, ackVars, offline, faults>>

MarkWaiting(c) ==
  /\ pc[c] = "markWaiting"
  /\ history' = [history EXCEPT ![frame[c].m] = "waiting_delivery"]
  /\ pc' = [pc EXCEPT ![c] = "ack"]
  /\ UNCHANGED <<appVars, wireVars, hubVars, send, frame, todo, got, ackVars, offline, faults>>

\* The UPDATE fails: only logged.
MarkFails(c) ==
  /\ pc[c] \in {"markDelivered", "markWaiting"} /\ Fault("sql")
  /\ pc' = [pc EXCEPT ![c] = "ack"]
  /\ UNCHANGED <<appVars, wireVars, hubVars, send, frame, todo, got, ackVars, dbVars>>

\* saveOfflineMessage: a row per (recipient, msg_id); a resend replaces it.
SaveOffline(c) ==
  /\ pc[c] = "persist"
  /\ offline' = offline \cup {frame[c].m}
  /\ pc' = [pc EXCEPT ![c] = "markWaiting"]
  /\ UNCHANGED <<appVars, wireVars, hubVars, send, frame, todo, got, ackVars, history, faults>>

\* Mutant: the error is only logged.
SaveOfflineFailsOn(c) ==
  /\ pc[c] = "persist" /\ Fault("sql")
  /\ pc' = [pc EXCEPT ![c] = "markWaiting"]
  /\ UNCHANGED <<appVars, wireVars, hubVars, send, frame, todo, got, ackVars, dbVars>>

SaveOfflineFails(c) ==
  /\ pc[c] = "persist" /\ Fault("sql")
  /\ Rest(c)
  /\ UNCHANGED <<appVars, wireVars, hubVars, send, todo, ackVars, dbVars>>

\* sendServerAck: non-blocking; a full buffer makes it ask for a drop, and
\* the request itself may be given up after a second.
SendServerAck(c) ==
  /\ pc[c] = "ack"
  /\ Rest(c)
  /\ \/ /\ Room(c)
        /\ send' = [send EXCEPT ![c] = Append(@, FrameOf("server_ack", frame[c].m))]
        /\ UNCHANGED <<gone, unregq>>
     \/ /\ c \in gone
        /\ UNCHANGED <<send, gone, unregq>>
     \/ /\ ~Room(c)
        /\ gone' = gone \cup {c}
        /\ unregq' \in {unregq, unregq \cup {c}}
        /\ UNCHANGED send
  /\ UNCHANGED <<appVars, wireVars, regq, sess, listing, replay, todo, ackVars, dbVars, faults>>

\* The offline_ack goroutine: DeleteOfflineMessage, whose error is logged ...
DeleteOffline(m) ==
  /\ dels[m] > 0
  /\ dels' = [dels EXCEPT ![m] = @ - 1]
  /\ marks' = [marks EXCEPT ![m] = @ + 1]
  /\ \/ offline' = offline \ {m} /\ UNCHANGED faults
     \/ Fault("sql") /\ UNCHANGED offline
  /\ UNCHANGED <<appVars, wireVars, hubVars, send, readerVars, history>>

\* ... then MarkMessageHistoryDeliveredByRecipient.
MarkAcknowledged(m) ==
  /\ marks[m] > 0
  /\ marks' = [marks EXCEPT ![m] = @ - 1]
  /\ \/ /\ history' = [history EXCEPT ![m] = IF @ = "none" THEN @ ELSE "delivered"]
        /\ UNCHANGED faults
     \/ Fault("sql") /\ UNCHANGED history
  /\ UNCHANGED <<appVars, wireVars, hubVars, send, readerVars, dels, offline>>

-----------------------------------------------------------------------------
(* The client: what ws.onmessage does with a frame, and history sync.      *)

\* The next frame writePump wrote and the network carried.  Frames written
\* before the socket closed may still arrive; OnClose loses the rest.
Incoming(d, k) ==
  /\ link[d] # None
  /\ send[link[d]] # <<>> /\ Head(send[link[d]]).kind = k
  /\ send' = [send EXCEPT ![link[d]] = Tail(@)]

\* A message: a known msg_id is only receipted and acknowledged again, a new
\* one is decrypted and stored first.
ReceiveMessage(d) ==
  /\ Incoming(d, "message")
  /\ LET m == Head(send[link[d]]).m IN
       /\ stored' = [stored EXCEPT ![d] = @ \cup {m}]
       /\ Upload(d, Receipt(d, m) \o <<FrameOf("offline_ack", m)>>)
  /\ UNCHANGED <<early, outbox, status, composing, flush, refused, page, link, dev, cut>>
  /\ UNCHANGED <<hubVars, readerVars, ackVars, dbVars, faults>>

\* A message that fails to decrypt is acknowledged all the same (and a
\* session_reset is sent, which SessionReset models).
RefuseMessage(d) ==
  /\ Incoming(d, "message")
  /\ LET m == Head(send[link[d]]).m IN
       /\ m \in Garbled \ stored[d]
       /\ refused' = [refused EXCEPT ![d] = @ \cup {m}]
       /\ Upload(d, <<FrameOf("offline_ack", m)>>)
  /\ UNCHANGED <<early, outbox, status, composing, flush, stored, page, link, dev, cut>>
  /\ UNCHANGED <<hubVars, readerVars, ackVars, dbVars, faults>>

\* handleServerAck: out of the outbox, and sent if it was pending or failed.
HandleServerAck(d) ==
  /\ Incoming(d, "server_ack")
  /\ LET m == Head(send[link[d]]).m IN
       /\ outbox' = [outbox EXCEPT ![d] = @ \ {m}]
       /\ status' = [status EXCEPT ![m] =
            IF @ \in {"pending", "failed"} THEN "sent" ELSE @]
  /\ UNCHANGED <<early, composing, flush, stored, refused, page, link, dev, up, cut>>
  /\ UNCHANGED <<hubVars, readerVars, ackVars, dbVars, faults>>

\* A delivery receipt sets the sender's row to delivered, whatever it was.
ReceiveReceipt(d) ==
  /\ Incoming(d, "delivery_receipt")
  /\ LET m == Head(send[link[d]]).m IN
       status' = [status EXCEPT ![m] = IF From[m] = d THEN "delivered" ELSE @]
  /\ UNCHANGED <<early, outbox, composing, flush, stored, refused, page, link, dev, up, cut>>
  /\ UNCHANGED <<hubVars, readerVars, ackVars, dbVars, faults>>

\* Mutant: only the rows the user sent.
ThreadSent(d) ==
  {[m |-> m, state |-> history[m]] :
     m \in {n \in Msg : history[n] # "none" /\ Owner[d] = Owner[From[n]]}}

\* The rows of the threads of d's user.
Thread(d) ==
  {[m |-> m, state |-> history[m]] :
     m \in {n \in Msg : history[n] # "none" /\ Owner[d] \in {To[n], Owner[From[n]]}}}

\* Whether applying a row would change anything on d.
News(d, row) ==
  \/ Owner[d] = To[row.m] /\ row.m \notin stored[d]
  \/ From[row.m] = d /\ Rank(HistoryStatus(row.state)) > Rank(status[row.m])

\* syncDirectHistory fetches them over HTTP; a fetch that brings nothing new
\* is left out ...
FetchHistory(d) ==
  /\ d \in Syncing /\ link[d] # None /\ page[d] = {}
  /\ \E row \in Thread(d) : News(d, row)
  /\ page' = [page EXCEPT ![d] = Thread(d)]
  /\ UNCHANGED <<early, outbox, status, composing, flush, stored, refused>>
  /\ UNCHANGED <<wireVars, hubVars, send, readerVars, ackVars, dbVars, faults>>

\* ... and applies them.  A row of its own message raises the status, never
\* lowers it; other devices of the sender skip it.
ApplySentRow(d, row) ==
  /\ row \in page[d] /\ Owner[d] = Owner[From[row.m]]
  /\ status' = [status EXCEPT ![row.m] =
       IF From[row.m] = d /\ Rank(HistoryStatus(row.state)) > Rank(@)
       THEN HistoryStatus(row.state) ELSE @]
  /\ page' = [page EXCEPT ![d] = @ \ {row}]
  /\ UNCHANGED <<early, outbox, composing, flush, stored, refused>>
  /\ UNCHANGED <<wireVars, hubVars, send, readerVars, ackVars, dbVars, faults>>

\* A row of a received message: stored and receipted if it is new.
ApplyReceivedRow(d, row) ==
  /\ row \in page[d] /\ Owner[d] = To[row.m]
  /\ page' = [page EXCEPT ![d] = @ \ {row}]
  /\ stored' = [stored EXCEPT ![d] = @ \cup {row.m}]
  /\ IF row.m \in stored[d] \/ link[d] = None
     THEN UNCHANGED up
     ELSE Upload(d, Receipt(d, row.m))
  /\ UNCHANGED <<early, outbox, status, composing, flush, refused, link, dev, cut>>
  /\ UNCHANGED <<hubVars, send, readerVars, ackVars, dbVars, faults>>

\* A row that does not decrypt ends the sync.
RowUnreadable(d, row) ==
  /\ row \in page[d] /\ Owner[d] = To[row.m] /\ row.m \in Garbled \ stored[d]
  /\ page' = [page EXCEPT ![d] = {}]
  /\ UNCHANGED <<early, outbox, status, composing, flush, stored, refused>>
  /\ UNCHANGED <<wireVars, hubVars, send, readerVars, ackVars, dbVars, faults>>

-----------------------------------------------------------------------------
ClientSend(d) ==
  \/ \E m \in Msg : Compose(d, m) \/ Enqueue(d, m) \/ RetryDirectMessage(d, m)
  \/ FlushStart(d)
  \/ \E m \in Msg : FlushSend(d, m) \/ FlushSkip(d, m) \/ FlushFail(d, m)

ClientReceive(d) ==
  \/ ReceiveMessage(d) \/ RefuseMessage(d) \/ HandleServerAck(d) \/ ReceiveReceipt(d)
  \/ FetchHistory(d)
  \/ \E row \in page[d] : ApplySentRow(d, row) \/ ApplyReceivedRow(d, row) \/ RowUnreadable(d, row)

HubStep(c) ==
  \/ Register(c) \/ Unregister(c) \/ ListOffline(c) \/ ListOfflineFails(c)
  \/ \E m \in Msg : Replay(c, m)
  \/ ReplayStops(c) \/ WriterExits(c) \/ ReaderExits(c)

ReaderStep(c) ==
  \/ ReadRouted(c) \/ Throttle(c) \/ ReadOfflineAck(c)
  \/ SaveHistory(c) \/ SaveHistoryFails(c) \/ LookupSessions(c)
  \/ \E k \in Conn : DeliverTo(c, k)
  \/ MarkDelivered(c) \/ MarkWaiting(c) \/ MarkFails(c)
  \/ SaveOffline(c) \/ SaveOfflineFails(c) \/ SendServerAck(c)

Next ==
  \/ \E d \in Device : ClientSend(d) \/ ClientReceive(d) \/ OnClose(d) \/ Reload(d)
  \/ \E d \in Device, c \in Conn : Connect(d, c)
  \/ \E c \in Conn : HubStep(c) \/ ReaderStep(c) \/ LoseLink(c)
  \/ \E m \in Msg : DeleteOffline(m) \/ MarkAcknowledged(m)
  \/ Restart

Spec == Init /\ [][Next]_vars

-----------------------------------------------------------------------------
(* Fairness.  Goroutines, timers and event loops that can take a step do;  *)
(* faults, composing and the user's retry button are never forced.         *)

\* The outbox timer, the reconnect timer and every goroutine.
CodeFairness ==
  /\ \A d \in Device :
       /\ WF_vars(FlushStart(d)) /\ WF_vars(OnClose(d))
       /\ WF_vars(\E c \in Conn : Connect(d, c))
       /\ WF_vars(ReceiveMessage(d) \/ RefuseMessage(d) \/ HandleServerAck(d) \/ ReceiveReceipt(d))
       /\ \A m \in Msg : WF_vars(Enqueue(d, m)) /\ WF_vars(FlushSend(d, m) \/ FlushSkip(d, m) \/ FlushFail(d, m))
       /\ WF_vars(\E row \in page[d] : ApplySentRow(d, row) \/ ApplyReceivedRow(d, row) \/ RowUnreadable(d, row))
  /\ \A c \in Conn :
       /\ WF_vars(Register(c)) /\ WF_vars(Unregister(c)) /\ WF_vars(ListOffline(c))
       /\ \A m \in Msg : WF_vars(Replay(c, m))
       /\ WF_vars(ReplayStops(c))
       /\ WF_vars(WriterExits(c)) /\ WF_vars(ReaderExits(c))
       /\ WF_vars(ReadRouted(c) \/ ReadOfflineAck(c)) /\ WF_vars(SaveHistory(c)) /\ WF_vars(LookupSessions(c))
       /\ WF_vars(\E k \in Conn : DeliverTo(c, k))
       /\ WF_vars(MarkDelivered(c) \/ MarkWaiting(c)) /\ WF_vars(SaveOffline(c)) /\ WF_vars(SendServerAck(c))
  /\ \A m \in Msg : WF_vars(DeleteOffline(m)) /\ WF_vars(MarkAcknowledged(m))

\* The recipient goes on opening the chat: Chat.tsx then syncs its history.
UserOpensChats == \A d \in Device : WF_vars(FetchHistory(d))

FairSpec == Spec /\ CodeFairness /\ UserOpensChats

-----------------------------------------------------------------------------
(* Properties.                                                             *)

TypeOK ==
  /\ outbox \in [Device -> SUBSET Msg] /\ composing \in [Device -> SUBSET Msg]
  /\ flush \in [Device -> SUBSET Msg]
  /\ stored \in [Device -> SUBSET Msg] /\ refused \in [Device -> SUBSET Msg]
  /\ page \in [Device -> SUBSET [m : Msg, state : DeliveryState]]
  /\ status \in [Msg -> Status]
  /\ link \in [Device -> Conn \cup {None}] /\ dev \in [Conn -> Device \cup {None}]
  /\ up \in [Conn -> Seq(Frame)]
  /\ send \in [Conn -> Seq(Frame)]
  /\ cut \subseteq Conn /\ gone \subseteq Conn /\ regq \subseteq Conn
  /\ unregq \subseteq Conn /\ sess \subseteq Conn /\ listing \subseteq Conn
  /\ replay \in [Conn -> SUBSET Msg]
  /\ pc \in [Conn -> ReaderPc] /\ frame \in [Conn -> Frame \cup {None}]
  /\ todo \in [Conn -> SUBSET Conn] /\ got \subseteq Conn
  /\ \A c \in Conn : pc[c] \notin {"off", "idle", "exited"} => frame[c] \in Frame
  /\ dels \in [Msg -> Nat] /\ marks \in [Msg -> Nat]
  /\ history \in [Msg -> DeliveryState] /\ offline \subseteq Msg
  /\ early \in Nat /\ faults \in Nat

\* The server has m in message_history.
Recorded(m) == history[m] # "none"

\* A sender that shows a message as sent or delivered never waits for
\* something the server does not have: the row of message_history is there,
\* whatever crashed, was resent or was dropped in between.
SentIsRecorded == \A m \in Msg : status[m] \in {"sent", "delivered"} => Recorded(m)

\* When routeToLocal returns true for a message, and until the ack is out,
\* some connection took it, or it is an offline row, or the recipient has
\* already seen (and so may have deleted) it.
AckHasCustody ==
  \A c \in Conn :
    pc[c] = "ack" /\ frame[c].kind = "message" =>
      \/ c \in got \/ frame[c].m \in offline \/ Seen(frame[c].m)

\* A message counted as waiting for delivery is in offline_messages, unless
\* the recipient has seen it: the state written late by the sender's reader
\* may be stale, but never points to a row that was dropped unseen.
WaitingIsQueuedOrSeen ==
  \A m \in Msg : history[m] = "waiting_delivery" => m \in offline \/ Seen(m)

\* A connection that the hub has registered and no longer lists is cancelled:
\* no client stays on an open socket that nothing is delivered to.
UnlistedIsCancelled ==
  \A c \in Conn : dev[c] # None /\ c \notin regq \cup sess => c \in gone

\* An offline row goes only after a device of the recipient has taken the
\* message (TestListOfflineMessagesKeepsMessagesUntilAck): not by a replay,
\* nor by a connection that dies, nor by a restart.
RowKeptUntilSeen == [][\A m \in offline \ offline' : Seen(m)]_vars

\* "without losing outbox durability": an outbox row stays until the server
\* has the message, and the retry loop gets every row out of the outbox,
\* acks lost with a connection, failed statements and reloads included.
OutboxDrains ==
  \A m \in Msg : m \in outbox[From[m]] ~> Recorded(m) /\ m \notin outbox[From[m]]

-----------------------------------------------------------------------------
(* What the documents say and the code does not keep.  Each has a run that *)
(* shows the violation.                                                    *)

\* deliveryStatus.ts: delivered means a device of the recipient acknowledged.
\* History sync takes it from a state the server sets when it fills a buffer.
DeliveredIsAcknowledged ==
  \A m \in Msg : status[m] = "delivered" =>
    \E d \in Device : Owner[d] = To[m] /\ m \in stored[d]

\* Every connection u ever made has ended, and Hub.Run has been told.
Ended(u) ==
  \A c \in ConnsOf(u) : pc[c] = "exited" /\ c \notin regq \cup unregq

\* PROTOCOL_CONTRACT.md: when the recipient is offline the server stores the
\* envelope in offline_messages.  Hub.Run may take a connection that died at
\* once from unregister before it takes it from register, and lists it forever.
OfflineRecipientIsPersisted ==
  [][\A c \in Conn :
       LookupSessions(c) /\ frame[c].kind = "message" /\ Ended(Dest(frame[c]))
         => pc'[c] = "persist"]_vars

-----------------------------------------------------------------------------
(* The abstract specification this module implements.                      *)

place == [m \in Msg |->
  IF Seen(m) THEN "seen"
  ELSE IF Recorded(m) THEN "server"
  ELSE IF m \in outbox[From[m]] THEN "outbox" ELSE "idle"]

M == INSTANCE Mailbox WITH place <- place

MailboxSpec == M!Spec
MailboxFairSpec == M!FairSpec
=============================================================================
