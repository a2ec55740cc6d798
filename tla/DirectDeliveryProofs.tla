------------------------ MODULE DirectDeliveryProofs ------------------------
(***************************************************************************)
(* Direct delivery, for every number of devices, messages and connections, *)
(* every buffer size and every number of faults, in three parts.           *)
(*                                                                         *)
(* Types: type correctness, and for each part of the state the actions that *)
(* write it, which the invariance proofs split on.                         *)
(*                                                                         *)
(* From the sender's outbox to the server: the inductive invariant Custody *)
(* follows a message from the outbox to message_history; it yields         *)
(* SentIsRecorded and the refinement of Mailbox.                           *)
(*                                                                         *)
(* From the server to the recipient: the inductive invariant Routing says  *)
(* that what a connection carries is addressed to its user, and that whoever *)
(* acts on a message (deletes its offline row, counts it as waiting,       *)
(* acknowledges it) knows where it is.                                     *)
(***************************************************************************)
EXTENDS DirectDelivery, TLAPS

-----------------------------------------------------------------------------
(* Frames and queues of frames.                                            *)

\* What a frame is made of.
LEMMA FrameType ==
  /\ \A f \in Frame : f.m \in Msg /\ f.kind \in {"message", "offline_ack", "delivery_receipt", "server_ack"}
  /\ \A m \in Msg : \A k \in {"message", "offline_ack", "delivery_receipt", "server_ack"} : FrameOf(k, m) \in Frame
BY DEF Frame, FrameOf

\* A receipt is a sequence of at most one frame.
LEMMA ReceiptType == \A d \in Device, m \in Msg : Receipt(d, m) \in Seq(Frame)
BY FrameType DEF Receipt

\* Queues of frames stay queues of frames.
LEMMA AppendType == \A s \in Seq(Frame), f \in Frame : Append(s, f) \in Seq(Frame)
OBVIOUS

\* ws.send keeps the type of the wires.
LEMMA UploadType ==
  ASSUME TypeOK, NEW d \in Device, NEW fs \in Seq(Frame), Upload(d, fs)
  PROVE  up' \in [Conn -> Seq(Frame)]
<1>1. link[d] \in Conn
  BY DEF TypeOK, Upload
<1>2. \A s, t \in Seq(Frame) : s \o t \in Seq(Frame)
  OBVIOUS
<1>3. up \in [Conn -> Seq(Frame)]
  BY DEF TypeOK
<1>4. CASE link[d] \in cut
  BY <1>3, <1>4 DEF Upload
<1>5. CASE link[d] \notin cut
  <2>1. up' = [up EXCEPT ![link[d]] = @ \o fs]
    BY <1>5 DEF Upload
  <2>2. up[link[d]] \o fs \in Seq(Frame)
    BY <1>1, <1>2, <1>3
  <2>3. QED
    BY <1>1, <1>3, <2>1, <2>2
<1>6. QED
  BY <1>4, <1>5

\* The frame a device receives, and what it leaves behind it.
LEMMA IncomingType ==
  ASSUME TypeOK, NEW d \in Device, NEW k, Incoming(d, k)
  PROVE  /\ link[d] \in Conn
         /\ Head(send[link[d]]) \in Frame
         /\ Head(send[link[d]]).m \in Msg
         /\ send' \in [Conn -> Seq(Frame)]
<1>1. link[d] \in Conn
  BY DEF TypeOK, Incoming
<1>2. send[link[d]] \in Seq(Frame) /\ send[link[d]] # <<>>
  BY <1>1 DEF TypeOK, Incoming
<1>3. Head(send[link[d]]) \in Frame /\ Tail(send[link[d]]) \in Seq(Frame)
  BY <1>2
<1>4. send' \in [Conn -> Seq(Frame)]
  BY <1>1, <1>3 DEF TypeOK, Incoming
<1>5. QED
  BY <1>1, <1>3, <1>4, FrameType

\* The handlers of ws.onmessage keep the types.
LEMMA ReceiveType ==
  ASSUME TypeOK, NEW d \in Device,
         ReceiveMessage(d) \/ RefuseMessage(d) \/ HandleServerAck(d) \/ ReceiveReceipt(d)
  PROVE  TypeOK'
<1> DEFINE m == Head(send[link[d]]).m
<1> USE DEF appVars, wireVars, hubVars, readerVars, ackVars, dbVars
<1>0. \A n \in Msg : <<FrameOf("offline_ack", n)>> \in Seq(Frame) /\ Receipt(d, n) \o <<FrameOf("offline_ack", n)>> \in Seq(Frame)
  BY FrameType, ReceiptType
<1>1. CASE ReceiveMessage(d)
  <2>1. m \in Msg /\ send' \in [Conn -> Seq(Frame)]
    BY <1>1, IncomingType DEF ReceiveMessage
  <2>2. up' \in [Conn -> Seq(Frame)]
    BY <1>0, <1>1, <2>1, UploadType DEF ReceiveMessage
  <2>3. QED
    BY <1>1, <2>1, <2>2 DEF TypeOK, ReceiveMessage
<1>2. CASE RefuseMessage(d)
  <2>1. m \in Msg /\ send' \in [Conn -> Seq(Frame)]
    BY <1>2, IncomingType DEF RefuseMessage
  <2>2. up' \in [Conn -> Seq(Frame)]
    BY <1>0, <1>2, <2>1, UploadType DEF RefuseMessage
  <2>3. QED
    BY <1>2, <2>1, <2>2 DEF TypeOK, RefuseMessage
<1>3. CASE HandleServerAck(d)
  <2>1. m \in Msg /\ send' \in [Conn -> Seq(Frame)]
    BY <1>3, IncomingType DEF HandleServerAck
  <2>3. QED
    BY <1>3, <2>1 DEF TypeOK, HandleServerAck, Status
<1>4. CASE ReceiveReceipt(d)
  <2>1. m \in Msg /\ send' \in [Conn -> Seq(Frame)]
    BY <1>4, IncomingType DEF ReceiveReceipt
  <2>3. QED
    BY <1>4, <2>1 DEF TypeOK, ReceiveReceipt, Status
<1>5. QED
  BY <1>1, <1>2, <1>3, <1>4

\* FlushSend keeps the types.
LEMMA FlushSendType ==
  ASSUME TypeOK, NEW d \in Device, NEW m \in Msg, FlushSend(d, m)
  PROVE  TypeOK'
<1> USE DEF appVars, wireVars, hubVars, readerVars, ackVars, dbVars
<1>1. up' \in [Conn -> Seq(Frame)]
  <2>1. <<FrameOf("message", m)>> \in Seq(Frame)
    BY FrameType
  <2>2. Upload(d, <<FrameOf("message", m)>>)
    BY DEF FlushSend
  <2>3. QED
    BY <2>1, <2>2, UploadType
<1>2. early' \in Nat
  BY DEF FlushSend, TypeOK
<1> QED
  BY <1>1, <1>2 DEF TypeOK, FlushSend, Status

\* ReadOfflineAck keeps the types.
LEMMA ReadOfflineAckType ==
  ASSUME TypeOK, NEW c \in Conn, ReadOfflineAck(c)
  PROVE  TypeOK'
<1> USE DEF appVars, wireVars, hubVars, readerVars, ackVars, dbVars
<1>1. Head(up[c]) \in Frame /\ Tail(up[c]) \in Seq(Frame)
  BY DEF TypeOK, ReadOfflineAck
<1>2. dels' \in [Msg -> Nat]
  BY <1>1, FrameType DEF ReadOfflineAck, TypeOK
<1> QED
  BY <1>1, <1>2 DEF TypeOK, ReadOfflineAck

\* LookupSessions keeps the types.
LEMMA LookupSessionsType ==
  ASSUME TypeOK, NEW c \in Conn, LookupSessions(c)
  PROVE  TypeOK'
<1> USE DEF appVars, wireVars, hubVars, readerVars, ackVars, dbVars
<1> DEFINE targets == sess \cap ConnsOf(Dest(frame[c]))
<1>1. targets \subseteq Conn /\ frame[c] \in Frame
  BY DEF TypeOK, LookupSessions
<1>2. CASE targets = {}
  <2>1. AfterDelivery(c, FALSE) /\ todo' = todo
    BY <1>2 DEF LookupSessions
  <2>2. \/ pc' = [pc EXCEPT ![c] = "idle"] /\ frame' = [frame EXCEPT ![c] = None] /\ got' = got \ {c}
        \/ pc' = [pc EXCEPT ![c] = "persist"] /\ UNCHANGED <<frame, got>>
    BY <2>1 DEF AfterDelivery, Rest
  <2>3. pc' \in [Conn -> ReaderPc] /\ frame' \in [Conn -> Frame \cup {None}]
    BY <1>1, <2>2 DEF TypeOK, ReaderPc
  <2>4. \A x \in Conn : pc'[x] \notin {"off", "idle", "exited"} => frame'[x] \in Frame
    BY <1>1, <2>2 DEF TypeOK
  <2>5. QED
    BY <2>1, <2>2, <2>3, <2>4 DEF TypeOK, LookupSessions
<1>3. CASE targets # {}
  <2>1. /\ pc' = [pc EXCEPT ![c] = "deliver"] /\ todo' = [todo EXCEPT ![c] = targets]
        /\ UNCHANGED <<frame, got>>
    BY <1>3 DEF LookupSessions
  <2>2. pc' \in [Conn -> ReaderPc] /\ todo' \in [Conn -> SUBSET Conn]
    BY <1>1, <2>1 DEF TypeOK, ReaderPc
  <2>3. \A x \in Conn : pc'[x] \notin {"off", "idle", "exited"} => frame'[x] \in Frame
    BY <1>1, <2>1 DEF TypeOK
  <2>4. QED
    BY <2>1, <2>2, <2>3 DEF TypeOK, LookupSessions
<1> QED
  BY <1>2, <1>3

\* DeliverTo keeps the types.
LEMMA DeliverToType ==
  ASSUME TypeOK, NEW c \in Conn, NEW k \in Conn, DeliverTo(c, k)
  PROVE  TypeOK'
<1> USE DEF appVars, wireVars, hubVars, readerVars, ackVars, dbVars
<1>1. frame[c] \in Frame /\ todo' \in [Conn -> SUBSET Conn]
  BY DEF TypeOK, DeliverTo
<1>2. send' \in [Conn -> Seq(Frame)]
  <2>1. send \in [Conn -> Seq(Frame)]
    BY DEF TypeOK
  <2>2. send' = [send EXCEPT ![k] = Append(@, frame[c])] \/ send' = send
    BY DEF DeliverTo
  <2>3. Append(send[k], frame[c]) \in Seq(Frame)
    BY <1>1, <2>1, AppendType
  <2>4. QED
    BY <2>1, <2>2, <2>3
<1>4. sess' \subseteq Conn /\ cut' \subseteq Conn /\ gone' \subseteq Conn
  BY DEF TypeOK, DeliverTo, DropClient
<1>3. /\ pc' \in [Conn -> ReaderPc] /\ frame' \in [Conn -> Frame \cup {None}] /\ got' \subseteq Conn
      /\ \A x \in Conn : pc'[x] \notin {"off", "idle", "exited"} => frame'[x] \in Frame
  <2>1. /\ pc \in [Conn -> ReaderPc] /\ frame \in [Conn -> Frame \cup {None}] /\ got \subseteq Conn
        /\ \A x \in Conn : pc[x] \notin {"off", "idle", "exited"} => frame[x] \in Frame
    BY DEF TypeOK
  <2>2. \/ Rest(c)
        \/ /\ \E p \in {"deliver", "markDelivered", "persist"} : pc' = [pc EXCEPT ![c] = p]
           /\ frame' = frame /\ got' \in {got, got \cup {c}}
    <3>1. CASE todo[c] = {k}
      BY <3>1 DEF DeliverTo, AfterDelivery
    <3>2. CASE todo[c] # {k}
      <4>1. pc' = [pc EXCEPT ![c] = "deliver"]
        BY <2>1, <3>2 DEF DeliverTo
      <4>2. QED
        BY <3>2, <4>1 DEF DeliverTo
    <3>3. QED
      BY <3>1, <3>2
  <2>3. CASE Rest(c)
    BY <2>1, <2>3 DEF Rest, ReaderPc
  <2>4. CASE /\ \E p \in {"deliver", "markDelivered", "persist"} : pc' = [pc EXCEPT ![c] = p]
             /\ frame' = frame /\ got' \in {got, got \cup {c}}
    BY <1>1, <2>1, <2>4 DEF ReaderPc
  <2>5. QED
    BY <2>2, <2>3, <2>4
<1> QED
  BY <1>1, <1>2, <1>3, <1>4 DEF TypeOK, DeliverTo

\* SendServerAck keeps the types.
LEMMA SendServerAckType ==
  ASSUME TypeOK, NEW c \in Conn, SendServerAck(c)
  PROVE  TypeOK'
<1> USE DEF appVars, wireVars, hubVars, readerVars, ackVars, dbVars
<1>1. frame[c] \in Frame /\ FrameOf("server_ack", frame[c].m) \in Frame
  BY FrameType DEF TypeOK, SendServerAck
<1>2. send' \in [Conn -> Seq(Frame)]
  <2>1. send \in [Conn -> Seq(Frame)]
    BY DEF TypeOK
  <2>2. send' = [send EXCEPT ![c] = Append(@, FrameOf("server_ack", frame[c].m))] \/ send' = send
    BY DEF SendServerAck
  <2>3. Append(send[c], FrameOf("server_ack", frame[c].m)) \in Seq(Frame)
    BY <1>1, <2>1, AppendType
  <2>4. QED
    BY <2>1, <2>2, <2>3
<1>4. gone' \subseteq Conn /\ unregq' \subseteq Conn
  BY <1>1 DEF TypeOK, SendServerAck
<1>3. /\ pc' \in [Conn -> ReaderPc] /\ frame' \in [Conn -> Frame \cup {None}] /\ got' \subseteq Conn
      /\ \A x \in Conn : pc'[x] \notin {"off", "idle", "exited"} => frame'[x] \in Frame
  BY <1>1 DEF TypeOK, SendServerAck, Rest, ReaderPc
<1> QED
  BY <1>4, <1>2, <1>3 DEF TypeOK, SendServerAck

\* MarkAcknowledged keeps the types.
LEMMA MarkAcknowledgedType ==
  ASSUME TypeOK, NEW m \in Msg, MarkAcknowledged(m)
  PROVE  TypeOK'
<1> USE DEF appVars, wireVars, hubVars, readerVars, ackVars, dbVars
<1>1. history' \in [Msg -> DeliveryState] /\ faults' \in Nat
  <2>1. history \in [Msg -> DeliveryState] /\ faults \in Nat
    BY DEF TypeOK
  <2>2. \/ history' = [history EXCEPT ![m] = IF @ = "none" THEN @ ELSE "delivered"] /\ faults' = faults
        \/ history' = history /\ faults' = faults + 1
    BY DEF MarkAcknowledged, Fault
  <2>3. QED
    BY <2>1, <2>2 DEF DeliveryState
<1>2. marks' \in [Msg -> Nat]
  BY DEF TypeOK, MarkAcknowledged
<1> QED
  BY <1>1, <1>2 DEF TypeOK, MarkAcknowledged

\* ApplyReceivedRow keeps the types.
LEMMA ApplyReceivedRowType ==
  ASSUME TypeOK, NEW d \in Device, NEW row \in page[d], ApplyReceivedRow(d, row)
  PROVE  TypeOK'
<1> USE DEF appVars, wireVars, hubVars, readerVars, ackVars, dbVars
<1>1. row \in [m : Msg, state : DeliveryState]
  BY DEF TypeOK
<1>2. row.m \in Msg
  BY <1>1
<1>3. up' \in [Conn -> Seq(Frame)]
  BY <1>2, UploadType, ReceiptType DEF ApplyReceivedRow, TypeOK
<1> QED
  BY <1>2, <1>3 DEF TypeOK, ApplyReceivedRow

-----------------------------------------------------------------------------
(* Type correctness.                                                       *)

\* The initial state is well typed.
LEMMA TypeInit == Init => TypeOK
BY DeliveryAssumption DEF Init, TypeOK, ReaderPc, Status, DeliveryState

\* So is the successor of a well typed state.
LEMMA TypeNext == TypeOK /\ [Next]_vars => TypeOK'
<1> SUFFICES ASSUME TypeOK, [Next]_vars PROVE TypeOK'
  OBVIOUS
<1> USE DEF appVars, wireVars, hubVars, readerVars, ackVars, dbVars
<1>1. ASSUME NEW d \in Device, NEW m \in Msg, Compose(d, m)
      PROVE  TypeOK'
  BY <1>1 DEF TypeOK, Compose, Status
<1>2. ASSUME NEW d \in Device, NEW m \in Msg, Enqueue(d, m)
      PROVE  TypeOK'
  BY <1>2 DEF TypeOK, Enqueue
<1>3. ASSUME NEW d \in Device, FlushStart(d)
      PROVE  TypeOK'
  BY <1>3 DEF TypeOK, FlushStart
<1>4. ASSUME NEW d \in Device, NEW m \in Msg, FlushSend(d, m)
      PROVE  TypeOK'
  BY <1>4, FlushSendType
<1>5. ASSUME NEW d \in Device, NEW m \in Msg, FlushSkip(d, m)
      PROVE  TypeOK'
  BY <1>5 DEF TypeOK, FlushSkip
<1>6. ASSUME NEW d \in Device, NEW m \in Msg, FlushFail(d, m)
      PROVE  TypeOK'
  BY <1>6 DEF TypeOK, FlushFail, Status
<1>7. ASSUME NEW d \in Device, NEW m \in Msg, RetryDirectMessage(d, m)
      PROVE  TypeOK'
  BY <1>7 DEF TypeOK, RetryDirectMessage, Status
<1>8. ASSUME NEW d \in Device, NEW c \in Conn, Connect(d, c)
      PROVE  TypeOK'
  BY <1>8, DeliveryAssumption DEF TypeOK, Connect, ReaderPc
<1>9. ASSUME NEW c \in Conn, LoseLink(c)
      PROVE  TypeOK'
  BY <1>9 DEF TypeOK, LoseLink, Fault
<1>10. ASSUME NEW d \in Device, OnClose(d)
      PROVE  TypeOK'
  BY <1>10 DEF TypeOK, OnClose
<1>11. ASSUME NEW d \in Device, Reload(d)
      PROVE  TypeOK'
  BY <1>11 DEF TypeOK, Reload, Fault
<1>12. ASSUME Restart
      PROVE  TypeOK'
  BY <1>12 DEF TypeOK, Restart, ReaderPc, Fault
<1>13. ASSUME NEW c \in Conn, Register(c)
      PROVE  TypeOK'
  BY <1>13 DEF TypeOK, Register
<1>14. ASSUME NEW c \in Conn, Unregister(c)
      PROVE  TypeOK'
  BY <1>14 DEF TypeOK, Unregister, DropClient
<1>15. ASSUME NEW c \in Conn, ListOffline(c)
      PROVE  TypeOK'
  BY <1>15 DEF TypeOK, ListOffline
<1>16. ASSUME NEW c \in Conn, ListOfflineFails(c)
      PROVE  TypeOK'
  BY <1>16 DEF TypeOK, ListOfflineFails, Fault
<1>17. ASSUME NEW c \in Conn, NEW m \in Msg, Replay(c, m)
      PROVE  TypeOK'
  BY <1>17, FrameType DEF TypeOK, Replay
<1>18. ASSUME NEW c \in Conn, ReplayStops(c)
      PROVE  TypeOK'
  BY <1>18 DEF TypeOK, ReplayStops
<1>19. ASSUME NEW c \in Conn, WriterExits(c)
      PROVE  TypeOK'
  BY <1>19 DEF TypeOK, WriterExits
<1>20. ASSUME NEW c \in Conn, ReaderExits(c)
      PROVE  TypeOK'
  BY <1>20 DEF TypeOK, ReaderExits, ReaderPc
<1>21. ASSUME NEW c \in Conn, ReadRouted(c)
      PROVE  TypeOK'
  BY <1>21 DEF TypeOK, ReadRouted, ReaderPc
<1>22. ASSUME NEW c \in Conn, Throttle(c)
      PROVE  TypeOK'
  BY <1>22 DEF TypeOK, Throttle, Fault
<1>23. ASSUME NEW c \in Conn, ReadOfflineAck(c)
      PROVE  TypeOK'
  BY <1>23, ReadOfflineAckType
<1>24. ASSUME NEW c \in Conn, SaveHistory(c)
      PROVE  TypeOK'
  BY <1>24, FrameType DEF TypeOK, SaveHistory, ReaderPc, DeliveryState
<1>25. ASSUME NEW c \in Conn, SaveHistoryFails(c)
      PROVE  TypeOK'
  BY <1>25 DEF TypeOK, SaveHistoryFails, ReaderPc, Rest, Fault
<1>26. ASSUME NEW c \in Conn, LookupSessions(c)
      PROVE  TypeOK'
  BY <1>26, LookupSessionsType
<1>27. ASSUME NEW c \in Conn, NEW k \in Conn, DeliverTo(c, k)
      PROVE  TypeOK'
  BY <1>27, DeliverToType
<1>28. ASSUME NEW c \in Conn, MarkDelivered(c)
      PROVE  TypeOK'
  BY <1>28, FrameType DEF TypeOK, MarkDelivered, ReaderPc, DeliveryState
<1>29. ASSUME NEW c \in Conn, MarkWaiting(c)
      PROVE  TypeOK'
  BY <1>29, FrameType DEF TypeOK, MarkWaiting, ReaderPc, DeliveryState
<1>30. ASSUME NEW c \in Conn, MarkFails(c)
      PROVE  TypeOK'
  <2>1. pc[c] \in {"markDelivered", "markWaiting"} /\ pc' = [pc EXCEPT ![c] = "ack"]
    BY <1>30 DEF MarkFails
  <2>2. frame[c] \in Frame /\ pc' \in [Conn -> ReaderPc]
    BY <2>1 DEF TypeOK, ReaderPc
  <2>3. faults' \in Nat
    BY <1>30 DEF MarkFails, Fault, TypeOK
  <2>4. QED
    BY <1>30, <2>1, <2>2, <2>3 DEF TypeOK, MarkFails
<1>31. ASSUME NEW c \in Conn, SaveOffline(c)
      PROVE  TypeOK'
  BY <1>31, FrameType DEF TypeOK, SaveOffline, ReaderPc
<1>32. ASSUME NEW c \in Conn, SaveOfflineFails(c)
      PROVE  TypeOK'
  BY <1>32 DEF TypeOK, SaveOfflineFails, ReaderPc, Rest, Fault
<1>33. ASSUME NEW c \in Conn, SendServerAck(c)
      PROVE  TypeOK'
  BY <1>33, SendServerAckType
<1>34. ASSUME NEW m \in Msg, DeleteOffline(m)
      PROVE  TypeOK'
  BY <1>34 DEF TypeOK, DeleteOffline, Fault
<1>35. ASSUME NEW m \in Msg, MarkAcknowledged(m)
      PROVE  TypeOK'
  BY <1>35, MarkAcknowledgedType
<1>36. ASSUME NEW d \in Device, ReceiveMessage(d)
      PROVE  TypeOK'
  BY <1>36, ReceiveType
<1>37. ASSUME NEW d \in Device, RefuseMessage(d)
      PROVE  TypeOK'
  BY <1>37, ReceiveType
<1>38. ASSUME NEW d \in Device, HandleServerAck(d)
      PROVE  TypeOK'
  BY <1>38, ReceiveType
<1>39. ASSUME NEW d \in Device, ReceiveReceipt(d)
      PROVE  TypeOK'
  BY <1>39, ReceiveType
<1>40. ASSUME NEW d \in Device, FetchHistory(d)
      PROVE  TypeOK'
  BY <1>40 DEF TypeOK, FetchHistory, Thread
<1>41. ASSUME NEW d \in Device, NEW row \in page[d], ApplySentRow(d, row)
      PROVE  TypeOK'
  BY <1>41 DEF TypeOK, ApplySentRow, HistoryStatus, Status
<1>42. ASSUME NEW d \in Device, NEW row \in page[d], ApplyReceivedRow(d, row)
      PROVE  TypeOK'
  BY <1>42, ApplyReceivedRowType
<1>43. ASSUME NEW d \in Device, NEW row \in page[d], RowUnreadable(d, row)
      PROVE  TypeOK'
  BY <1>43 DEF TypeOK, RowUnreadable
<1>44. CASE UNCHANGED vars
  BY <1>44 DEF TypeOK, vars
<1> HIDE DEF appVars, wireVars, hubVars, readerVars, ackVars, dbVars
<1> QED
  BY <1>1, <1>2, <1>3, <1>4, <1>5, <1>6, <1>7, <1>8, <1>9, <1>10, <1>11,
     <1>12, <1>13, <1>14, <1>15, <1>16, <1>17, <1>18, <1>19, <1>20,
     <1>21, <1>22, <1>23, <1>24, <1>25, <1>26, <1>27, <1>28, <1>29,
     <1>30, <1>31, <1>32, <1>33, <1>34, <1>35, <1>36, <1>37, <1>38,
     <1>39, <1>40, <1>41, <1>42, <1>43, <1>44
     DEF Next, ClientSend, ClientReceive, HubStep, ReaderStep

\* Every behaviour of the system stays within TypeOK: queues hold frames, a
\* reader that serves a frame has one, and the tables hold known messages.
THEOREM TypeCorrect == Spec => []TypeOK
BY TypeInit, TypeNext, PTL DEF Spec

-----------------------------------------------------------------------------
(* Who writes what.                                                        *)

\* Who writes the outbox, what is about to enter it, and the flush loop.
LEMMA OutboxWriters ==
  ASSUME [Next]_vars
  PROVE  \/ UNCHANGED <<outbox, composing, flush>>
         \/ \E d \in Device, m \in Msg : Compose(d, m) \/ Enqueue(d, m)
               \/ FlushSend(d, m) \/ FlushSkip(d, m) \/ FlushFail(d, m)
         \/ \E d \in Device : FlushStart(d) \/ Reload(d)
               \/ HandleServerAck(d)
<1> USE DEF appVars
<1>1. ASSUME NEW d \in Device, ClientSend(d),
            \A m \in Msg : ~Compose(d, m), \A m \in Msg : ~Enqueue(d, m),
            ~FlushStart(d), \A m \in Msg : ~FlushSend(d, m),
            \A m \in Msg : ~FlushSkip(d, m), \A m \in Msg : ~FlushFail(d, m)
     PROVE  UNCHANGED <<outbox, composing, flush>>
  BY <1>1 DEF ClientSend, RetryDirectMessage
<1>2. ASSUME NEW d \in Device, ClientReceive(d),
            ~HandleServerAck(d)
     PROVE  UNCHANGED <<outbox, composing, flush>>
  BY <1>2 DEF ClientReceive, ReceiveMessage, RefuseMessage, ReceiveReceipt,
     FetchHistory, ApplySentRow, ApplyReceivedRow, RowUnreadable
<1>3. ASSUME NEW c \in Conn, HubStep(c)
     PROVE  UNCHANGED <<outbox, composing, flush>>
  BY <1>3 DEF HubStep, Register, Unregister, ListOffline, ListOfflineFails,
     Replay, ReplayStops, WriterExits, ReaderExits
<1>4. ASSUME NEW c \in Conn, ReaderStep(c)
     PROVE  UNCHANGED <<outbox, composing, flush>>
  BY <1>4 DEF ReaderStep, ReadRouted, Throttle, ReadOfflineAck, SaveHistory,
     SaveHistoryFails, LookupSessions, DeliverTo, MarkDelivered,
     MarkWaiting, MarkFails, SaveOffline, SaveOfflineFails, SendServerAck
<1>5. QED
  BY <1>1, <1>2, <1>3, <1>4 DEF Next, vars, OnClose, Connect, LoseLink, DeleteOffline,
     MarkAcknowledged, Restart

\* Who writes the status of a message.
LEMMA StatusWriters ==
  ASSUME [Next]_vars
  PROVE  \/ UNCHANGED status
         \/ \E d \in Device, m \in Msg : Compose(d, m) \/ FlushSend(d, m)
               \/ FlushFail(d, m) \/ RetryDirectMessage(d, m)
         \/ \E d \in Device : HandleServerAck(d) \/ ReceiveReceipt(d)
         \/ \E d \in Device : \E row \in page[d] : ApplySentRow(d, row)
<1> USE DEF appVars
<1>1. ASSUME NEW d \in Device, ClientSend(d),
            \A m \in Msg : ~Compose(d, m),
            \A m \in Msg : ~RetryDirectMessage(d, m),
            \A m \in Msg : ~FlushSend(d, m), \A m \in Msg : ~FlushFail(d, m)
     PROVE  UNCHANGED status
  BY <1>1 DEF ClientSend, Enqueue, FlushStart, FlushSkip
<1>2. ASSUME NEW d \in Device, ClientReceive(d),
            ~HandleServerAck(d), ~ReceiveReceipt(d),
            \A row \in page[d] : ~ApplySentRow(d, row)
     PROVE  UNCHANGED status
  BY <1>2 DEF ClientReceive, ReceiveMessage, RefuseMessage, FetchHistory,
     ApplyReceivedRow, RowUnreadable
<1>3. ASSUME NEW c \in Conn, HubStep(c)
     PROVE  UNCHANGED status
  BY <1>3 DEF HubStep, Register, Unregister, ListOffline, ListOfflineFails,
     Replay, ReplayStops, WriterExits, ReaderExits
<1>4. ASSUME NEW c \in Conn, ReaderStep(c)
     PROVE  UNCHANGED status
  BY <1>4 DEF ReaderStep, ReadRouted, Throttle, ReadOfflineAck, SaveHistory,
     SaveHistoryFails, LookupSessions, DeliverTo, MarkDelivered,
     MarkWaiting, MarkFails, SaveOffline, SaveOfflineFails, SendServerAck
<1>5. QED
  BY <1>1, <1>2, <1>3, <1>4 DEF Next, vars, OnClose, Reload, Connect, LoseLink, DeleteOffline,
     MarkAcknowledged, Restart

\* Who takes messages at a recipient.
LEMMA InboxWriters ==
  ASSUME [Next]_vars
  PROVE  \/ UNCHANGED <<stored, refused>>
         \/ \E d \in Device : ReceiveMessage(d) \/ RefuseMessage(d)
         \/ \E d \in Device : \E row \in page[d] : ApplyReceivedRow(d, row)
<1> USE DEF appVars
<1>1. ASSUME NEW d \in Device, ClientSend(d)
     PROVE  UNCHANGED <<stored, refused>>
  BY <1>1 DEF ClientSend, Compose, Enqueue, RetryDirectMessage, FlushStart,
     FlushSend, FlushSkip, FlushFail
<1>2. ASSUME NEW d \in Device, ClientReceive(d),
            ~ReceiveMessage(d), ~RefuseMessage(d),
            \A row \in page[d] : ~ApplyReceivedRow(d, row)
     PROVE  UNCHANGED <<stored, refused>>
  BY <1>2 DEF ClientReceive, HandleServerAck, ReceiveReceipt, FetchHistory,
     ApplySentRow, RowUnreadable
<1>3. ASSUME NEW c \in Conn, HubStep(c)
     PROVE  UNCHANGED <<stored, refused>>
  BY <1>3 DEF HubStep, Register, Unregister, ListOffline, ListOfflineFails,
     Replay, ReplayStops, WriterExits, ReaderExits
<1>4. ASSUME NEW c \in Conn, ReaderStep(c)
     PROVE  UNCHANGED <<stored, refused>>
  BY <1>4 DEF ReaderStep, ReadRouted, Throttle, ReadOfflineAck, SaveHistory,
     SaveHistoryFails, LookupSessions, DeliverTo, MarkDelivered,
     MarkWaiting, MarkFails, SaveOffline, SaveOfflineFails, SendServerAck
<1>5. QED
  BY <1>1, <1>2, <1>3, <1>4 DEF Next, vars, OnClose, Reload, Connect, LoseLink, DeleteOffline,
     MarkAcknowledged, Restart

\* Who writes a page of history.
LEMMA PageWriters ==
  ASSUME [Next]_vars
  PROVE  \/ UNCHANGED page
         \/ \E d \in Device : Reload(d) \/ FetchHistory(d)
         \/ \E d \in Device : \E row \in page[d] : ApplySentRow(d, row)
               \/ ApplyReceivedRow(d, row) \/ RowUnreadable(d, row)
<1> USE DEF appVars
<1>1. ASSUME NEW d \in Device, ClientSend(d)
     PROVE  UNCHANGED page
  BY <1>1 DEF ClientSend, Compose, Enqueue, RetryDirectMessage, FlushStart,
     FlushSend, FlushSkip, FlushFail
<1>2. ASSUME NEW d \in Device, ClientReceive(d),
            ~FetchHistory(d), \A row \in page[d] : ~ApplySentRow(d, row),
            \A row \in page[d] : ~ApplyReceivedRow(d, row),
            \A row \in page[d] : ~RowUnreadable(d, row)
     PROVE  UNCHANGED page
  BY <1>2 DEF ClientReceive, ReceiveMessage, RefuseMessage, HandleServerAck,
     ReceiveReceipt
<1>3. ASSUME NEW c \in Conn, HubStep(c)
     PROVE  UNCHANGED page
  BY <1>3 DEF HubStep, Register, Unregister, ListOffline, ListOfflineFails,
     Replay, ReplayStops, WriterExits, ReaderExits
<1>4. ASSUME NEW c \in Conn, ReaderStep(c)
     PROVE  UNCHANGED page
  BY <1>4 DEF ReaderStep, ReadRouted, Throttle, ReadOfflineAck, SaveHistory,
     SaveHistoryFails, LookupSessions, DeliverTo, MarkDelivered,
     MarkWaiting, MarkFails, SaveOffline, SaveOfflineFails, SendServerAck
<1>5. QED
  BY <1>1, <1>2, <1>3, <1>4 DEF Next, vars, OnClose, Connect, LoseLink, DeleteOffline,
     MarkAcknowledged, Restart

\* Who opens and closes sockets.
LEMMA LinkWriters ==
  ASSUME [Next]_vars
  PROVE  \/ UNCHANGED <<link, dev>>
         \/ \E d \in Device, c \in Conn : Connect(d, c)
         \/ \E d \in Device : OnClose(d) \/ Reload(d)
<1> USE DEF wireVars
<1>1. ASSUME NEW d \in Device, ClientSend(d)
     PROVE  UNCHANGED <<link, dev>>
  BY <1>1 DEF ClientSend, Compose, Enqueue, RetryDirectMessage, FlushStart,
     FlushSend, FlushSkip, FlushFail
<1>2. ASSUME NEW d \in Device, ClientReceive(d)
     PROVE  UNCHANGED <<link, dev>>
  BY <1>2 DEF ClientReceive, ReceiveMessage, RefuseMessage, HandleServerAck,
     ReceiveReceipt, FetchHistory, ApplySentRow, ApplyReceivedRow,
     RowUnreadable
<1>3. ASSUME NEW c \in Conn, HubStep(c)
     PROVE  UNCHANGED <<link, dev>>
  BY <1>3 DEF HubStep, Register, Unregister, ListOffline, ListOfflineFails,
     Replay, ReplayStops, WriterExits, ReaderExits
<1>4. ASSUME NEW c \in Conn, ReaderStep(c)
     PROVE  UNCHANGED <<link, dev>>
  BY <1>4 DEF ReaderStep, ReadRouted, Throttle, ReadOfflineAck, SaveHistory,
     SaveHistoryFails, LookupSessions, DeliverTo, MarkDelivered,
     MarkWaiting, MarkFails, SaveOffline, SaveOfflineFails, SendServerAck
<1>5. QED
  BY <1>1, <1>2, <1>3, <1>4 DEF Next, vars, LoseLink, DeleteOffline, MarkAcknowledged, Restart

\* Who puts frames on the wire, and takes them from it.
LEMMA UpWriters ==
  ASSUME [Next]_vars
  PROVE  \/ UNCHANGED up
         \/ \E d \in Device, m \in Msg : FlushSend(d, m)
         \/ Restart
         \/ \E c \in Conn : ReaderExits(c) \/ ReadRouted(c) \/ Throttle(c)
               \/ ReadOfflineAck(c)
         \/ \E d \in Device : ReceiveMessage(d) \/ RefuseMessage(d)
         \/ \E d \in Device : \E row \in page[d] : ApplyReceivedRow(d, row)
<1> USE DEF wireVars
<1>1. ASSUME NEW d \in Device, ClientSend(d),
            \A m \in Msg : ~FlushSend(d, m)
     PROVE  UNCHANGED up
  BY <1>1 DEF ClientSend, Compose, Enqueue, RetryDirectMessage, FlushStart,
     FlushSkip, FlushFail
<1>2. ASSUME NEW d \in Device, ClientReceive(d),
            ~ReceiveMessage(d), ~RefuseMessage(d),
            \A row \in page[d] : ~ApplyReceivedRow(d, row)
     PROVE  UNCHANGED up
  BY <1>2 DEF ClientReceive, HandleServerAck, ReceiveReceipt, FetchHistory,
     ApplySentRow, RowUnreadable
<1>3. ASSUME NEW c \in Conn, HubStep(c),
            ~ReaderExits(c)
     PROVE  UNCHANGED up
  BY <1>3 DEF HubStep, Register, Unregister, ListOffline, ListOfflineFails,
     Replay, ReplayStops, WriterExits
<1>4. ASSUME NEW c \in Conn, ReaderStep(c),
            ~ReadRouted(c), ~Throttle(c), ~ReadOfflineAck(c)
     PROVE  UNCHANGED up
  BY <1>4 DEF ReaderStep, SaveHistory, SaveHistoryFails, LookupSessions,
     DeliverTo, MarkDelivered, MarkWaiting, MarkFails, SaveOffline,
     SaveOfflineFails, SendServerAck
<1>5. QED
  BY <1>1, <1>2, <1>3, <1>4 DEF Next, vars, OnClose, Reload, Connect, LoseLink, DeleteOffline,
     MarkAcknowledged

\* Who fills and empties Client.send.
LEMMA SendWriters ==
  ASSUME [Next]_vars
  PROVE  \/ UNCHANGED send
         \/ Restart
         \/ \E c \in Conn, m \in Msg : Replay(c, m)
         \/ \E c \in Conn, k \in Conn : DeliverTo(c, k)
         \/ \E c \in Conn : SendServerAck(c)
         \/ \E d \in Device : ReceiveMessage(d) \/ RefuseMessage(d)
               \/ HandleServerAck(d) \/ ReceiveReceipt(d)
<1>1. ASSUME NEW d \in Device, ClientSend(d)
     PROVE  UNCHANGED send
  BY <1>1 DEF ClientSend, Compose, Enqueue, RetryDirectMessage, FlushStart,
     FlushSend, FlushSkip, FlushFail
<1>2. ASSUME NEW d \in Device, ClientReceive(d),
            ~ReceiveMessage(d), ~RefuseMessage(d), ~HandleServerAck(d),
            ~ReceiveReceipt(d)
     PROVE  UNCHANGED send
  BY <1>2 DEF ClientReceive, FetchHistory, ApplySentRow, ApplyReceivedRow,
     RowUnreadable
<1>3. ASSUME NEW c \in Conn, HubStep(c),
            \A m \in Msg : ~Replay(c, m)
     PROVE  UNCHANGED send
  BY <1>3 DEF HubStep, Register, Unregister, ListOffline, ListOfflineFails,
     ReplayStops, WriterExits, ReaderExits
<1>4. ASSUME NEW c \in Conn, ReaderStep(c),
            \A k \in Conn : ~DeliverTo(c, k), ~SendServerAck(c)
     PROVE  UNCHANGED send
  BY <1>4 DEF ReaderStep, ReadRouted, Throttle, ReadOfflineAck, SaveHistory,
     SaveHistoryFails, LookupSessions, MarkDelivered, MarkWaiting,
     MarkFails, SaveOffline, SaveOfflineFails
<1>5. QED
  BY <1>1, <1>2, <1>3, <1>4 DEF Next, vars, OnClose, Reload, Connect, LoseLink, DeleteOffline,
     MarkAcknowledged

\* Who changes what the hub knows of a connection.
LEMMA SessionWriters ==
  ASSUME [Next]_vars
  PROVE  \/ UNCHANGED <<gone, regq, sess, listing, replay>>
         \/ \E d \in Device, c \in Conn : Connect(d, c)
         \/ Restart
         \/ \E c \in Conn : Register(c) \/ Unregister(c) \/ ListOffline(c)
               \/ ListOfflineFails(c) \/ ReplayStops(c) \/ ReaderExits(c)
               \/ SendServerAck(c)
         \/ \E c \in Conn, m \in Msg : Replay(c, m)
         \/ \E c \in Conn, k \in Conn : DeliverTo(c, k)
<1> USE DEF hubVars
<1>1. ASSUME NEW d \in Device, ClientSend(d)
     PROVE  UNCHANGED <<gone, regq, sess, listing, replay>>
  BY <1>1 DEF ClientSend, Compose, Enqueue, RetryDirectMessage, FlushStart,
     FlushSend, FlushSkip, FlushFail
<1>2. ASSUME NEW d \in Device, ClientReceive(d)
     PROVE  UNCHANGED <<gone, regq, sess, listing, replay>>
  BY <1>2 DEF ClientReceive, ReceiveMessage, RefuseMessage, HandleServerAck,
     ReceiveReceipt, FetchHistory, ApplySentRow, ApplyReceivedRow,
     RowUnreadable
<1>3. ASSUME NEW c \in Conn, HubStep(c),
            ~Register(c), ~Unregister(c), ~ListOffline(c),
            ~ListOfflineFails(c), \A m \in Msg : ~Replay(c, m),
            ~ReplayStops(c), ~ReaderExits(c)
     PROVE  UNCHANGED <<gone, regq, sess, listing, replay>>
  BY <1>3 DEF HubStep, WriterExits
<1>4. ASSUME NEW c \in Conn, ReaderStep(c),
            \A k \in Conn : ~DeliverTo(c, k), ~SendServerAck(c)
     PROVE  UNCHANGED <<gone, regq, sess, listing, replay>>
  BY <1>4 DEF ReaderStep, ReadRouted, Throttle, ReadOfflineAck, SaveHistory,
     SaveHistoryFails, LookupSessions, MarkDelivered, MarkWaiting,
     MarkFails, SaveOffline, SaveOfflineFails
<1>5. QED
  BY <1>1, <1>2, <1>3, <1>4 DEF Next, vars, OnClose, Reload, LoseLink, DeleteOffline,
     MarkAcknowledged

\* Who moves a readPump.
LEMMA ReaderWriters ==
  ASSUME [Next]_vars
  PROVE  \/ UNCHANGED <<pc, frame, todo, got>>
         \/ \E d \in Device, c \in Conn : Connect(d, c)
         \/ Restart
         \/ \E c \in Conn : ReaderExits(c) \/ ReadRouted(c)
               \/ SaveHistory(c) \/ SaveHistoryFails(c) \/ LookupSessions(c)
               \/ MarkDelivered(c) \/ MarkWaiting(c) \/ MarkFails(c)
               \/ SaveOffline(c) \/ SaveOfflineFails(c) \/ SendServerAck(c)
         \/ \E c \in Conn, k \in Conn : DeliverTo(c, k)
<1> USE DEF readerVars
<1>1. ASSUME NEW d \in Device, ClientSend(d)
     PROVE  UNCHANGED <<pc, frame, todo, got>>
  BY <1>1 DEF ClientSend, Compose, Enqueue, RetryDirectMessage, FlushStart,
     FlushSend, FlushSkip, FlushFail
<1>2. ASSUME NEW d \in Device, ClientReceive(d)
     PROVE  UNCHANGED <<pc, frame, todo, got>>
  BY <1>2 DEF ClientReceive, ReceiveMessage, RefuseMessage, HandleServerAck,
     ReceiveReceipt, FetchHistory, ApplySentRow, ApplyReceivedRow,
     RowUnreadable
<1>3. ASSUME NEW c \in Conn, HubStep(c),
            ~ReaderExits(c)
     PROVE  UNCHANGED <<pc, frame, todo, got>>
  BY <1>3 DEF HubStep, Register, Unregister, ListOffline, ListOfflineFails,
     Replay, ReplayStops, WriterExits
<1>4. ASSUME NEW c \in Conn, ReaderStep(c),
            ~ReadRouted(c), ~SaveHistory(c), ~SaveHistoryFails(c),
            ~LookupSessions(c), \A k \in Conn : ~DeliverTo(c, k),
            ~MarkDelivered(c), ~MarkWaiting(c), ~MarkFails(c), ~SaveOffline(c),
            ~SaveOfflineFails(c), ~SendServerAck(c)
     PROVE  UNCHANGED <<pc, frame, todo, got>>
  BY <1>4 DEF ReaderStep, Throttle, ReadOfflineAck
<1>5. QED
  BY <1>1, <1>2, <1>3, <1>4 DEF Next, vars, OnClose, Reload, LoseLink, DeleteOffline,
     MarkAcknowledged

\* Who starts and ends offline_ack goroutines.
LEMMA AckWriters ==
  ASSUME [Next]_vars
  PROVE  \/ UNCHANGED dels
         \/ Restart
         \/ \E c \in Conn : ReadOfflineAck(c)
         \/ \E m \in Msg : DeleteOffline(m)
<1> USE DEF ackVars
<1>1. ASSUME NEW d \in Device, ClientSend(d)
     PROVE  UNCHANGED dels
  BY <1>1 DEF ClientSend, Compose, Enqueue, RetryDirectMessage, FlushStart,
     FlushSend, FlushSkip, FlushFail
<1>2. ASSUME NEW d \in Device, ClientReceive(d)
     PROVE  UNCHANGED dels
  BY <1>2 DEF ClientReceive, ReceiveMessage, RefuseMessage, HandleServerAck,
     ReceiveReceipt, FetchHistory, ApplySentRow, ApplyReceivedRow,
     RowUnreadable
<1>3. ASSUME NEW c \in Conn, HubStep(c)
     PROVE  UNCHANGED dels
  BY <1>3 DEF HubStep, Register, Unregister, ListOffline, ListOfflineFails,
     Replay, ReplayStops, WriterExits, ReaderExits
<1>4. ASSUME NEW c \in Conn, ReaderStep(c),
            ~ReadOfflineAck(c)
     PROVE  UNCHANGED dels
  BY <1>4 DEF ReaderStep, ReadRouted, Throttle, SaveHistory, SaveHistoryFails,
     LookupSessions, DeliverTo, MarkDelivered, MarkWaiting, MarkFails,
     SaveOffline, SaveOfflineFails, SendServerAck
<1>5. QED
  BY <1>1, <1>2, <1>3, <1>4 DEF Next, vars, OnClose, Reload, Connect, LoseLink, MarkAcknowledged

\* Who writes the two tables.
LEMMA TableWriters ==
  ASSUME [Next]_vars
  PROVE  \/ UNCHANGED <<history, offline>>
         \/ \E c \in Conn : SaveHistory(c) \/ MarkDelivered(c)
               \/ MarkWaiting(c) \/ SaveOffline(c)
         \/ \E m \in Msg : DeleteOffline(m) \/ MarkAcknowledged(m)
<1> USE DEF dbVars
<1>1. ASSUME NEW d \in Device, ClientSend(d)
     PROVE  UNCHANGED <<history, offline>>
  BY <1>1 DEF ClientSend, Compose, Enqueue, RetryDirectMessage, FlushStart,
     FlushSend, FlushSkip, FlushFail
<1>2. ASSUME NEW d \in Device, ClientReceive(d)
     PROVE  UNCHANGED <<history, offline>>
  BY <1>2 DEF ClientReceive, ReceiveMessage, RefuseMessage, HandleServerAck,
     ReceiveReceipt, FetchHistory, ApplySentRow, ApplyReceivedRow,
     RowUnreadable
<1>3. ASSUME NEW c \in Conn, HubStep(c)
     PROVE  UNCHANGED <<history, offline>>
  BY <1>3 DEF HubStep, Register, Unregister, ListOffline, ListOfflineFails,
     Replay, ReplayStops, WriterExits, ReaderExits
<1>4. ASSUME NEW c \in Conn, ReaderStep(c),
            ~SaveHistory(c), ~MarkDelivered(c), ~MarkWaiting(c), ~SaveOffline(c)
     PROVE  UNCHANGED <<history, offline>>
  BY <1>4 DEF ReaderStep, ReadRouted, Throttle, ReadOfflineAck, SaveHistoryFails,
     LookupSessions, DeliverTo, MarkFails, SaveOfflineFails, SendServerAck
<1>5. QED
  BY <1>1, <1>2, <1>3, <1>4 DEF Next, vars, OnClose, Reload, Connect, LoseLink, Restart

-----------------------------------------------------------------------------
(* The frames of a queue, and how they move.                               *)

Frames(s) == {s[i] : i \in DOMAIN s}

\* Reading a queue takes one of its frames and adds none.
LEMMA FramesOfTail ==
  ASSUME NEW s \in Seq(Frame), s # <<>>
  PROVE  Head(s) \in Frames(s) /\ Frames(Tail(s)) \subseteq Frames(s)
<1>1. Len(s) \in Nat /\ Len(s) > 0 /\ DOMAIN s = 1..Len(s) /\ Head(s) = s[1]
  OBVIOUS
<1>2. \A i \in DOMAIN Tail(s) : i + 1 \in DOMAIN s /\ Tail(s)[i] = s[i + 1]
  OBVIOUS
<1>3. QED
  BY <1>1, <1>2 DEF Frames

\* Appending adds one frame.
LEMMA FramesOfAppend ==
  ASSUME NEW s \in Seq(Frame), NEW f \in Frame
  PROVE  Frames(Append(s, f)) \subseteq Frames(s) \cup {f}
<1>1. \A i \in DOMAIN Append(s, f) :
         \/ i \in DOMAIN s /\ Append(s, f)[i] = s[i]
         \/ Append(s, f)[i] = f
  OBVIOUS
<1>2. QED
  BY <1>1 DEF Frames

\* A queue of two parts has the frames of both.
LEMMA FramesOfConcat ==
  ASSUME NEW s \in Seq(Frame), NEW t \in Seq(Frame)
  PROVE  Frames(s \o t) \subseteq Frames(s) \cup Frames(t)
<1>1. ASSUME NEW i \in DOMAIN (s \o t)
      PROVE  (i \in DOMAIN s /\ (s \o t)[i] = s[i])
               \/ (i - Len(s) \in DOMAIN t /\ (s \o t)[i] = t[i - Len(s)])
  <2>1. i \in 1..(Len(s) + Len(t)) /\ Len(s) \in Nat /\ Len(t) \in Nat
    OBVIOUS
  <2>2. CASE i <= Len(s)
    BY <2>1, <2>2
  <2>3. CASE i > Len(s)
    BY <2>1, <2>3
  <2>4. QED
    BY <2>1, <2>2, <2>3
<1>2. QED
  BY <1>1 DEF Frames

\* A queue of one frame.
LEMMA FramesOfOne == \A f : Frames(<<f>>) = {f}
BY DEF Frames

\* The frames of a queue of frames are frames.
LEMMA FramesType == \A s \in Seq(Frame) : Frames(s) \subseteq Frame
BY DEF Frames

\* What ws.send adds to the wires.
LEMMA UploadFlow ==
  ASSUME TypeOK, NEW d \in Device, NEW fs \in Seq(Frame), Upload(d, fs), NEW c \in Conn
  PROVE  Frames(up'[c]) \subseteq Frames(up[c]) \cup Frames(fs)
<1>1. link[d] \in Conn /\ up \in [Conn -> Seq(Frame)]
  BY DEF TypeOK, Upload
<1>2. CASE link[d] \in cut
  BY <1>2 DEF Upload
<1>3. CASE link[d] \notin cut
  <2>1. up' = [up EXCEPT ![link[d]] = @ \o fs]
    BY <1>3 DEF Upload
  <2>2. up'[c] = up[c] \/ up'[c] = up[c] \o fs
    BY <1>1, <2>1
  <2>3. QED
    BY <1>1, <2>2, FramesOfConcat
<1>4. QED
  BY <1>2, <1>3

\* The frames of a receipt.
LEMMA FramesOfReceipt ==
  ASSUME NEW d \in Device, NEW m \in Msg
  PROVE  Frames(Receipt(d, m)) \subseteq {FrameOf("delivery_receipt", m)}
BY FramesOfOne DEF Receipt, Frames

\* Where a frame that is on the wire to the server comes from.
LEMMA UpFlow ==
  ASSUME TypeOK, [Next]_vars, NEW c \in Conn, NEW f \in Frames(up'[c]), f \notin Frames(up[c])
  PROVE  \/ \E d \in Device, m \in Msg : FlushSend(d, m) /\ f = FrameOf("message", m)
         \/ \E d \in Device : \E k \in {"offline_ack", "delivery_receipt"} :
              /\ ReceiveMessage(d) \/ RefuseMessage(d)
              /\ f = FrameOf(k, Head(send[link[d]]).m)
         \/ \E d \in Device : \E row \in page[d] :
              /\ ApplyReceivedRow(d, row)
              /\ f = FrameOf("delivery_receipt", row.m)
<1>1. up \in [Conn -> Seq(Frame)]
  BY DEF TypeOK
<1>2. ASSUME NEW d \in Device, NEW m \in Msg, FlushSend(d, m)
      PROVE  f = FrameOf("message", m)
  <2> DEFINE fs == <<FrameOf("message", m)>>
  <2>1. fs \in Seq(Frame) /\ Upload(d, fs) /\ Frames(fs) = {FrameOf("message", m)}
    BY <1>2, FrameType, FramesOfOne DEF FlushSend
  <2> HIDE DEF fs
  <2>2. QED
    BY <2>1, UploadFlow
<1>3. ASSUME NEW d \in Device, ReceiveMessage(d)
      PROVE  \E k \in {"offline_ack", "delivery_receipt"} : f = FrameOf(k, Head(send[link[d]]).m)
  <2> DEFINE m == Head(send[link[d]]).m
             acks == <<FrameOf("offline_ack", m)>>
  <2>1. m \in Msg
    BY <1>3, IncomingType DEF ReceiveMessage
  <2>2. Receipt(d, m) \in Seq(Frame) /\ acks \in Seq(Frame)
    BY <2>1, FrameType, ReceiptType
  <2> DEFINE fs == Receipt(d, m) \o acks
  <2>3. Upload(d, fs)
    BY <1>3 DEF ReceiveMessage
  <2>4. \A s, t \in Seq(Frame) : s \o t \in Seq(Frame) /\ Frames(s \o t) \subseteq Frames(s) \cup Frames(t)
    BY FramesOfConcat
  <2>5. fs \in Seq(Frame) /\ Upload(d, fs) /\ Frames(fs) \subseteq Frames(Receipt(d, m)) \cup Frames(acks)
    BY <2>3, <2>4, <2>2
  <2>6. Frames(acks) = {FrameOf("offline_ack", m)} /\ Frames(Receipt(d, m)) \subseteq {FrameOf("delivery_receipt", m)}
    BY <2>1, FramesOfOne, FramesOfReceipt
  <2> HIDE DEF fs, acks
  <2>7. f \in Frames(fs)
    BY <2>5, UploadFlow
  <2>8. QED
    BY <2>5, <2>6, <2>7
<1>4. ASSUME NEW d \in Device, RefuseMessage(d)
      PROVE  f = FrameOf("offline_ack", Head(send[link[d]]).m)
  <2> DEFINE m == Head(send[link[d]]).m
         fs == <<FrameOf("offline_ack", m)>>
  <2>1. fs \in Seq(Frame) /\ Upload(d, fs) /\ Frames(fs) = {FrameOf("offline_ack", m)}
    BY <1>4, FrameType, IncomingType, FramesOfOne DEF RefuseMessage
  <2> HIDE DEF fs
  <2>2. QED
    BY <2>1, UploadFlow
<1>5. ASSUME NEW d \in Device, NEW row \in page[d], ApplyReceivedRow(d, row)
      PROVE  f = FrameOf("delivery_receipt", row.m)
  <2>1. row \in [m : Msg, state : DeliveryState]
    BY DEF TypeOK
  <2>2. row.m \in Msg /\ Receipt(d, row.m) \in Seq(Frame)
    BY <2>1, ReceiptType
  <2>3. Upload(d, Receipt(d, row.m)) \/ UNCHANGED up
    BY <1>5 DEF ApplyReceivedRow
  <2>4. QED
    BY <2>2, <2>3, UploadFlow, FramesOfReceipt
<1>6. ASSUME NEW r \in Conn, ReaderExits(r) \/ ReadRouted(r) \/ Throttle(r) \/ ReadOfflineAck(r)
      PROVE  FALSE
  <2>1. CASE ReaderExits(r)
    <3>1. up'[c] = up[c] \/ up'[c] = <<>>
      BY <1>1, <2>1 DEF ReaderExits
    <3>2. QED
      BY <3>1 DEF Frames
  <2>2. CASE ReadRouted(r) \/ Throttle(r) \/ ReadOfflineAck(r)
    <3>1. up[r] # <<>> /\ up' = [up EXCEPT ![r] = Tail(@)]
      BY <2>2 DEF ReadRouted, Throttle, ReadOfflineAck
    <3>2. up'[c] = up[c] \/ (up[c] # <<>> /\ up'[c] = Tail(up[c]))
      BY <1>1, <3>1
    <3>3. QED
      BY <1>1, <3>2, FramesOfTail
  <2>3. QED
    BY <1>6, <2>1, <2>2
<1>7. ASSUME Restart
      PROVE  FALSE
  <2>1. up'[c] = <<>>
    BY <1>7 DEF Restart
  <2>2. QED
    BY <2>1 DEF Frames
<1>8. QED
  BY <1>2, <1>3, <1>4, <1>5, <1>6, <1>7, UpWriters

\* Where a frame that waits for a client comes from.
LEMMA SendFlow ==
  ASSUME TypeOK, [Next]_vars, NEW c \in Conn, NEW f \in Frames(send'[c]), f \notin Frames(send[c])
  PROVE  \/ \E m \in Msg : Replay(c, m) /\ f = FrameOf("message", m)
         \/ \E r \in Conn : DeliverTo(r, c) /\ f = frame[r]
         \/ SendServerAck(c) /\ f = FrameOf("server_ack", frame[c].m)
<1>1. send \in [Conn -> Seq(Frame)]
  BY DEF TypeOK
<1>2. ASSUME NEW k \in Conn, NEW g \in Frame, send' = [send EXCEPT ![k] = Append(@, g)]
      PROVE  c = k /\ f = g
  <2>1. send'[c] = IF c = k THEN Append(send[c], g) ELSE send[c]
    BY <1>1, <1>2
  <2>2. QED
    BY <1>1, <2>1, FramesOfAppend
<1>3. ASSUME NEW k \in Conn, NEW m \in Msg, Replay(k, m)
      PROVE  c = k /\ f = FrameOf("message", m)
  BY <1>2, <1>3, FrameType DEF Replay
<1>4. ASSUME NEW r \in Conn, NEW k \in Conn, DeliverTo(r, k)
      PROVE  c = k /\ f = frame[r]
  <2>1. frame[r] \in Frame
    BY <1>4 DEF TypeOK, DeliverTo
  <2>2. send' = [send EXCEPT ![k] = Append(@, frame[r])]
    BY <1>4 DEF DeliverTo
  <2>3. QED
    BY <1>2, <2>1, <2>2
<1>5. ASSUME NEW r \in Conn, SendServerAck(r)
      PROVE  c = r /\ f = FrameOf("server_ack", frame[r].m)
  <2>1. FrameOf("server_ack", frame[r].m) \in Frame
    BY <1>5, FrameType DEF TypeOK, SendServerAck
  <2>2. send' = [send EXCEPT ![r] = Append(@, FrameOf("server_ack", frame[r].m))]
    BY <1>5 DEF SendServerAck
  <2>3. QED
    BY <1>2, <2>1, <2>2
<1>6. ASSUME NEW d \in Device, NEW k \in {"message", "server_ack", "delivery_receipt"}, Incoming(d, k)
      PROVE  FALSE
  <2>1. link[d] \in Conn /\ send[link[d]] # <<>> /\ send' = [send EXCEPT ![link[d]] = Tail(@)]
    BY <1>6, IncomingType DEF Incoming
  <2>2. send'[c] = send[c] \/ (send[c] # <<>> /\ send'[c] = Tail(send[c]))
    BY <1>1, <2>1
  <2>3. QED
    BY <1>1, <2>2, FramesOfTail
<1>7. ASSUME NEW d \in Device,
             ReceiveMessage(d) \/ RefuseMessage(d) \/ HandleServerAck(d) \/ ReceiveReceipt(d)
      PROVE  FALSE
  BY <1>6, <1>7 DEF ReceiveMessage, RefuseMessage, HandleServerAck, ReceiveReceipt
<1>8. ASSUME Restart
      PROVE  FALSE
  <2>1. send'[c] = <<>>
    BY <1>8 DEF Restart
  <2>2. QED
    BY <2>1 DEF Frames
<1>9. QED
  BY <1>3, <1>4, <1>5, <1>7, <1>8, SendWriters

-----------------------------------------------------------------------------
(* Custody: from the outbox to message_history.                            *)

\* The server has m, or the sender still does.
Kept(m) == Recorded(m) \/ m \in outbox[From[m]]

\* A device only ever handles the outbox rows of its own messages.
OwnOutbox ==
  \A d \in Device : \A m \in outbox[d] \cup composing[d] \cup flush[d] : From[m] = d

FlushIsKept == \A d \in Device : \A m \in flush[d] : Kept(m)

\* A message on its way to the server is kept, everything else that moves
\* is about a message the server has.
WireIsKept ==
  \A c \in Conn : \A f \in Frames(up[c]) :
    Kept(f.m) /\ (f.kind # "message" => Recorded(f.m))

ReaderIsKept ==
  \A c \in Conn : pc[c] \notin {"off", "idle", "exited"} =>
    Kept(frame[c].m) /\ (pc[c] # "record" => Recorded(frame[c].m))

SendIsRecorded == \A c \in Conn : \A f \in Frames(send[c]) : Recorded(f.m)

ReplayIsRecorded == (\A c \in Conn : \A m \in replay[c] : Recorded(m)) /\ \A m \in offline : Recorded(m)

InboxIsRecorded == \A d \in Device : \A m \in stored[d] \cup refused[d] : Recorded(m)

PageIsRecorded == \A d \in Device : \A row \in page[d] : Recorded(row.m)

Custody ==
  /\ OwnOutbox /\ FlushIsKept /\ WireIsKept /\ ReaderIsKept
  /\ SendIsRecorded /\ ReplayIsRecorded /\ InboxIsRecorded /\ PageIsRecorded
  /\ SentIsRecorded

LEMMA CustodyInit == Init => Custody
BY DEF Init, Custody, OwnOutbox, FlushIsKept, WireIsKept, ReaderIsKept, SendIsRecorded,
   ReplayIsRecorded, InboxIsRecorded, PageIsRecorded, SentIsRecorded, Frames

\* No statement deletes a message_history row.
LEMMA RecordedStays ==
  ASSUME TypeOK, [Next]_vars, NEW m \in Msg, Recorded(m)
  PROVE  Recorded(m)'
<1>1. history \in [Msg -> DeliveryState] /\ history[m] # "none"
  BY DEF TypeOK, Recorded
<1>2. ASSUME NEW c \in Conn, SaveHistory(c) \/ MarkDelivered(c) \/ MarkWaiting(c)
      PROVE  history'[m] # "none"
  BY <1>1, <1>2 DEF SaveHistory, MarkDelivered, MarkWaiting
<1>3. ASSUME NEW n \in Msg, MarkAcknowledged(n)
      PROVE  history'[m] # "none"
  BY <1>1, <1>3 DEF MarkAcknowledged
<1>4. ASSUME UNCHANGED history
      PROVE  history'[m] # "none"
  BY <1>1, <1>4
<1>5. ASSUME NEW c \in Conn, SaveOffline(c)
      PROVE  UNCHANGED history
  BY <1>5 DEF SaveOffline
<1>6. ASSUME NEW n \in Msg, DeleteOffline(n)
      PROVE  UNCHANGED history
  BY <1>6 DEF DeleteOffline
<1>7. QED
  BY <1>2, <1>3, <1>4, <1>5, <1>6, TableWriters DEF Recorded

\* What the head of Client.send is about.
LEMMA IncomingIsRecorded ==
  ASSUME TypeOK, SendIsRecorded, NEW d \in Device, NEW k, Incoming(d, k)
  PROVE  Recorded(Head(send[link[d]]).m) /\ Head(send[link[d]]).m \in Msg
         /\ Head(send[link[d]]) \in Frames(send[link[d]]) /\ link[d] \in Conn
<1>1. link[d] \in Conn /\ Head(send[link[d]]).m \in Msg
  BY IncomingType
<1>2. send[link[d]] \in Seq(Frame) /\ send[link[d]] # <<>>
  BY <1>1 DEF TypeOK, Incoming
<1>3. QED
  BY <1>1, <1>2, FramesOfTail DEF SendIsRecorded

\* An outbox row goes only when the server has the message.
LEMMA KeptStays ==
  ASSUME TypeOK, Custody, [Next]_vars, NEW m \in Msg, Kept(m)
  PROVE  Kept(m)'
<1>1. outbox \in [Device -> SUBSET Msg] /\ From[m] \in Device
  BY DeliveryAssumption DEF TypeOK
<1>2. CASE Recorded(m)
  BY <1>2, RecordedStays DEF Kept
<1>3. CASE ~Recorded(m)
  <2>1. m \in outbox[From[m]]
    BY <1>3 DEF Kept
  <2>2. ASSUME NEW d \in Device, HandleServerAck(d)
        PROVE  m \in outbox'[From[m]]
    <3>1. Head(send[link[d]]).m # m
      BY <1>3, <2>2, IncomingIsRecorded DEF Custody, HandleServerAck
    <3>2. QED
      BY <1>1, <2>1, <2>2, <3>1 DEF HandleServerAck
  <2>3. ASSUME NEW d \in Device, NEW n \in Msg, Enqueue(d, n)
        PROVE  m \in outbox'[From[m]]
    BY <1>1, <2>1, <2>3 DEF Enqueue
  <2>4. ASSUME NEW d \in Device, NEW n \in Msg,
               Compose(d, n) \/ FlushSend(d, n) \/ FlushSkip(d, n) \/ FlushFail(d, n)
                 \/ FlushStart(d) \/ Reload(d)
        PROVE  outbox' = outbox
    BY <2>4 DEF Compose, FlushSend, FlushSkip, FlushFail, FlushStart, Reload
  <2>5. QED
    BY <2>1, <2>2, <2>3, <2>4, OutboxWriters DEF Kept
<1>4. QED
  BY <1>2, <1>3

LEMMA OwnOutboxNext ==
  ASSUME TypeOK, Custody, [Next]_vars
  PROVE  OwnOutbox'
<1>1. /\ outbox \in [Device -> SUBSET Msg] /\ composing \in [Device -> SUBSET Msg]
      /\ flush \in [Device -> SUBSET Msg] /\ OwnOutbox
  BY DEF TypeOK, Custody
<1>2. ASSUME NEW d \in Device, NEW m \in Msg, Compose(d, m)
      PROVE  OwnOutbox'
  BY <1>1, <1>2 DEF Compose, OwnOutbox
<1>3. ASSUME NEW d \in Device, NEW m \in Msg, Enqueue(d, m)
      PROVE  OwnOutbox'
  BY <1>1, <1>3 DEF Enqueue, OwnOutbox
<1>4. ASSUME NEW d \in Device, NEW m \in Msg,
             FlushSend(d, m) \/ FlushSkip(d, m) \/ FlushFail(d, m)
      PROVE  OwnOutbox'
  <2>1. outbox' = outbox /\ composing' = composing
    BY <1>4 DEF FlushSend, FlushSkip, FlushFail
  <2>2. \A e \in Device : flush'[e] \subseteq flush[e]
    BY <1>1, <1>4 DEF FlushSend, FlushSkip, FlushFail
  <2>3. QED
    BY <1>1, <2>1, <2>2 DEF OwnOutbox
<1>5. ASSUME NEW d \in Device, FlushStart(d) \/ Reload(d)
      PROVE  OwnOutbox'
  BY <1>1, <1>5 DEF FlushStart, Reload, OwnOutbox
<1>6. ASSUME NEW d \in Device, HandleServerAck(d)
      PROVE  OwnOutbox'
  BY <1>1, <1>6 DEF HandleServerAck, OwnOutbox
<1>7. ASSUME UNCHANGED <<outbox, composing, flush>>
      PROVE  OwnOutbox'
  BY <1>1, <1>7 DEF OwnOutbox
<1>8. QED
  BY <1>2, <1>3, <1>4, <1>5, <1>6, <1>7, OutboxWriters

LEMMA FlushIsKeptNext ==
  ASSUME TypeOK, Custody, [Next]_vars
  PROVE  FlushIsKept'
<1>1. outbox \in [Device -> SUBSET Msg] /\ flush \in [Device -> SUBSET Msg]
  BY DEF TypeOK
<1>2. \A d \in Device : flush'[d] \subseteq flush[d] \cup outbox[d]
  <2>1. ASSUME NEW d \in Device, NEW m \in Msg, Compose(d, m) \/ Enqueue(d, m)
        PROVE  flush' = flush
    BY <2>1 DEF Compose, Enqueue
  <2>2. ASSUME NEW d \in Device, NEW m \in Msg,
               FlushSend(d, m) \/ FlushSkip(d, m) \/ FlushFail(d, m)
        PROVE  \A e \in Device : flush'[e] \subseteq flush[e]
    BY <1>1, <2>2 DEF FlushSend, FlushSkip, FlushFail
  <2>3. ASSUME NEW d \in Device, FlushStart(d) \/ Reload(d) \/ HandleServerAck(d)
        PROVE  \A e \in Device : flush'[e] \subseteq flush[e] \cup outbox[e]
    BY <1>1, <2>3 DEF FlushStart, Reload, HandleServerAck
  <2>4. QED
    BY <2>1, <2>2, <2>3, OutboxWriters
<1>3. \A d \in Device : \A m \in outbox[d] : Kept(m)
  BY DEF Custody, OwnOutbox, Kept
<1>4. QED
  BY <1>1, <1>2, <1>3, KeptStays DEF Custody, FlushIsKept

LEMMA WireIsKeptNext ==
  ASSUME TypeOK, Custody, [Next]_vars
  PROVE  WireIsKept'
<1> SUFFICES ASSUME NEW c \in Conn, NEW f \in Frames(up'[c])
             PROVE  Kept(f.m)' /\ (f.kind # "message" => Recorded(f.m)')
  BY DEF WireIsKept
<1>1. CASE f \in Frames(up[c])
  <2>1. f \in Frame
    BY <1>1, FramesType DEF TypeOK
  <2>2. Kept(f.m) /\ (f.kind # "message" => Recorded(f.m))
    BY <1>1 DEF Custody, WireIsKept
  <2>3. QED
    BY <2>1, <2>2, FrameType, KeptStays, RecordedStays
<1>2. ASSUME NEW d \in Device, NEW m \in Msg, FlushSend(d, m), f = FrameOf("message", m)
      PROVE  Kept(f.m)' /\ (f.kind # "message" => Recorded(f.m)')
  <2>1. Kept(m) /\ f.m = m /\ f.kind = "message"
    BY <1>2 DEF Custody, FlushIsKept, FlushSend, FrameOf
  <2>2. QED
    BY <2>1, KeptStays
<1>3. ASSUME NEW d \in Device, NEW k \in {"offline_ack", "delivery_receipt"},
             ReceiveMessage(d) \/ RefuseMessage(d), f = FrameOf(k, Head(send[link[d]]).m)
      PROVE  Kept(f.m)' /\ (f.kind # "message" => Recorded(f.m)')
  <2>1. Incoming(d, "message")
    BY <1>3 DEF ReceiveMessage, RefuseMessage
  <2>2. f.m \in Msg /\ Recorded(f.m)
    BY <1>3, <2>1, IncomingIsRecorded DEF Custody, FrameOf
  <2>3. QED
    BY <2>2, RecordedStays DEF Kept
<1>4. ASSUME NEW d \in Device, NEW row \in page[d], f = FrameOf("delivery_receipt", row.m)
      PROVE  Kept(f.m)' /\ (f.kind # "message" => Recorded(f.m)')
  <2>1. row \in [m : Msg, state : DeliveryState]
    BY DEF TypeOK
  <2>2. f.m \in Msg /\ Recorded(f.m)
    BY <1>4, <2>1 DEF Custody, PageIsRecorded, FrameOf
  <2>3. QED
    BY <2>2, RecordedStays DEF Kept
<1>5. QED
  BY <1>1, <1>2, <1>3, <1>4, UpFlow

LEMMA ReaderIsKeptNext ==
  ASSUME TypeOK, Custody, [Next]_vars
  PROVE  ReaderIsKept'
<1> DEFINE Busy(x) == x \notin {"off", "idle", "exited"}
<1>1. /\ pc \in [Conn -> ReaderPc] /\ frame \in [Conn -> Frame \cup {None}]
      /\ \A c \in Conn : Busy(pc[c]) => frame[c] \in Frame
  BY DEF TypeOK
<1>2. ReaderIsKept /\ WireIsKept
  BY DEF Custody
<1> SUFFICES ASSUME NEW c \in Conn, Busy(pc'[c])
             PROVE  Kept(frame[c].m)' /\ (pc'[c] # "record" => Recorded(frame[c].m)')
  BY DEF ReaderIsKept
\* The reader goes on with the frame it has.
<1>3. ASSUME Busy(pc[c]), frame'[c] = frame[c], pc[c] = "record" => pc'[c] = "record"
      PROVE  Kept(frame[c].m)' /\ (pc'[c] # "record" => Recorded(frame[c].m)')
  <2>1. frame[c].m \in Msg
    BY <1>1, <1>3, FrameType
  <2>2. Kept(frame[c].m) /\ (pc[c] # "record" => Recorded(frame[c].m))
    BY <1>2, <1>3 DEF ReaderIsKept
  <2>3. QED
    BY <1>3, <2>1, <2>2, KeptStays, RecordedStays
<1>4. ASSUME NEW r \in Conn, ReadRouted(r)
      PROVE  Kept(frame[c].m)' /\ (pc'[c] # "record" => Recorded(frame[c].m)')
  <2>1. CASE c = r
    <3> DEFINE f == Head(up[r])
    <3>1. up[r] \in Seq(Frame) /\ up[r] # <<>>
      BY <1>4 DEF TypeOK, ReadRouted
    <3>2. f \in Frames(up[r]) /\ f \in Frame
      BY <3>1, FramesOfTail, FramesType
    <3>3. frame'[c] = f /\ pc'[c] = IF f.kind = "message" THEN "record" ELSE "lookup"
      BY <1>1, <1>4, <2>1 DEF ReadRouted
    <3>4. f.m \in Msg /\ Kept(f.m) /\ (f.kind # "message" => Recorded(f.m))
      BY <1>2, <3>2, FrameType DEF WireIsKept
    <3>5. QED
      BY <3>3, <3>4, KeptStays, RecordedStays
  <2>2. CASE c # r
    BY <1>1, <1>3, <1>4, <2>2 DEF ReadRouted
  <2>3. QED
    BY <2>1, <2>2
<1>5. ASSUME NEW r \in Conn, SaveHistory(r)
      PROVE  Kept(frame[c].m)' /\ (pc'[c] # "record" => Recorded(frame[c].m)')
  <2>1. CASE c = r
    <3>1. frame[r] \in Frame /\ frame[r].m \in Msg
      BY <1>1, <1>5, FrameType DEF SaveHistory
    <3>2. Recorded(frame[r].m)'
      BY <1>5, <3>1 DEF SaveHistory, Recorded, TypeOK
    <3>3. frame' = frame
      BY <1>5 DEF SaveHistory
    <3>4. QED
      BY <2>1, <3>2, <3>3 DEF Kept
  <2>2. CASE c # r
    BY <1>1, <1>3, <1>5, <2>2 DEF SaveHistory
  <2>3. QED
    BY <2>1, <2>2
<1>6. ASSUME NEW r \in Conn, SaveHistoryFails(r) \/ SaveOfflineFails(r) \/ SendServerAck(r)
      PROVE  Kept(frame[c].m)' /\ (pc'[c] # "record" => Recorded(frame[c].m)')
  <2>1. Rest(r)
    BY <1>6 DEF SaveHistoryFails, SaveOfflineFails, SendServerAck
  <2>2. QED
    BY <1>1, <1>3, <2>1 DEF Rest
<1>7. ASSUME NEW r \in Conn, LookupSessions(r) \/ \E k \in Conn : DeliverTo(r, k)
      PROVE  Kept(frame[c].m)' /\ (pc'[c] # "record" => Recorded(frame[c].m)')
  <2>1. pc[r] \in {"lookup", "deliver"}
    BY <1>7 DEF LookupSessions, DeliverTo
  <2>2. \/ Rest(r)
        \/ frame' = frame /\ pc' = pc
        \/ frame' = frame /\ \E p \in {"deliver", "markDelivered", "persist"} : pc' = [pc EXCEPT ![r] = p]
    BY <1>7 DEF LookupSessions, DeliverTo, AfterDelivery
  <2>3. QED
    BY <1>1, <1>3, <2>1, <2>2 DEF Rest
<1>8. ASSUME NEW r \in Conn, MarkDelivered(r) \/ MarkWaiting(r) \/ MarkFails(r) \/ SaveOffline(r)
      PROVE  Kept(frame[c].m)' /\ (pc'[c] # "record" => Recorded(frame[c].m)')
  BY <1>1, <1>3, <1>8 DEF MarkDelivered, MarkWaiting, MarkFails, SaveOffline
<1>9. ASSUME NEW r \in Conn, ReaderExits(r) \/ \E d \in Device : Connect(d, r)
      PROVE  Kept(frame[c].m)' /\ (pc'[c] # "record" => Recorded(frame[c].m)')
  BY <1>1, <1>3, <1>9 DEF ReaderExits, Connect
<1>10. ASSUME Restart
       PROVE  FALSE
  BY <1>10 DEF Restart
<1>11. ASSUME UNCHANGED <<pc, frame, todo, got>>
       PROVE  Kept(frame[c].m)' /\ (pc'[c] # "record" => Recorded(frame[c].m)')
  BY <1>3, <1>11
<1>12. QED
  BY <1>4, <1>5, <1>6, <1>7, <1>8, <1>9, <1>10, <1>11, ReaderWriters

LEMMA SendIsRecordedNext ==
  ASSUME TypeOK, Custody, [Next]_vars
  PROVE  SendIsRecorded'
<1> SUFFICES ASSUME NEW c \in Conn, NEW f \in Frames(send'[c])
             PROVE  Recorded(f.m)'
  BY DEF SendIsRecorded
<1>1. CASE f \in Frames(send[c])
  <2>1. f \in Frame
    BY <1>1, FramesType DEF TypeOK
  <2>2. QED
    BY <1>1, <2>1, FrameType, RecordedStays DEF Custody, SendIsRecorded
<1>2. ASSUME NEW m \in Msg, Replay(c, m), f = FrameOf("message", m)
      PROVE  Recorded(f.m)'
  <2>1. Recorded(m) /\ f.m = m
    BY <1>2 DEF Custody, ReplayIsRecorded, Replay, FrameOf
  <2>2. QED
    BY <2>1, RecordedStays
<1>3. ASSUME NEW r \in Conn, DeliverTo(r, c), f = frame[r]
      PROVE  Recorded(f.m)'
  <2>1. f \in Frame /\ Recorded(f.m)
    BY <1>3 DEF Custody, ReaderIsKept, DeliverTo, TypeOK
  <2>2. QED
    BY <2>1, FrameType, RecordedStays
<1>4. ASSUME SendServerAck(c), f = FrameOf("server_ack", frame[c].m)
      PROVE  Recorded(f.m)'
  <2>1. frame[c] \in Frame /\ Recorded(frame[c].m) /\ f.m = frame[c].m
    BY <1>4 DEF Custody, ReaderIsKept, SendServerAck, TypeOK, FrameOf
  <2>2. QED
    BY <2>1, FrameType, RecordedStays
<1>5. QED
  BY <1>1, <1>2, <1>3, <1>4, SendFlow

LEMMA ReplayIsRecordedNext ==
  ASSUME TypeOK, Custody, [Next]_vars
  PROVE  ReplayIsRecorded'
<1>1. /\ replay \in [Conn -> SUBSET Msg] /\ offline \subseteq Msg
      /\ \A c \in Conn : \A m \in replay[c] : Recorded(m)
      /\ \A m \in offline : Recorded(m)
  BY DEF TypeOK, Custody, ReplayIsRecorded
<1>2. ASSUME NEW c \in Conn, NEW m \in replay'[c]
      PROVE  Recorded(m)'
  <2>1. ASSUME NEW k \in Conn, NEW n \in Msg, Replay(k, n)
        PROVE  m \in replay[c]
    BY <1>1, <1>2, <2>1 DEF Replay
  <2>2. ASSUME NEW k \in Conn, ListOffline(k)
        PROVE  m \in replay[c] \cup offline
    BY <1>1, <1>2, <2>2 DEF ListOffline
  <2>3. ASSUME NEW k \in Conn, Unregister(k) \/ ReaderExits(k) \/ Register(k) \/ ListOfflineFails(k)
                  \/ SendServerAck(k) \/ (\E d \in Device : Connect(d, k))
                  \/ (\E x \in Conn : DeliverTo(k, x))
        PROVE  replay' = replay
    BY <2>3 DEF Unregister, ReaderExits, Register, ListOfflineFails, SendServerAck, Connect, DeliverTo
  <2>4. ASSUME NEW k \in Conn, ReplayStops(k)
        PROVE  m \in replay[c]
    BY <1>1, <1>2, <2>4 DEF ReplayStops
  <2>5. ASSUME Restart
        PROVE  FALSE
    BY <1>2, <2>5 DEF Restart
  <2>6. m \in replay[c] \cup offline
    BY <1>2, <2>1, <2>2, <2>3, <2>4, <2>5, SessionWriters
  <2>7. QED
    BY <1>1, <2>6, RecordedStays
<1>3. ASSUME NEW m \in offline'
      PROVE  Recorded(m)'
  <2>1. ASSUME NEW c \in Conn, SaveOffline(c)
        PROVE  m \in Msg /\ Recorded(m)
    <3>1. frame[c] \in Frame /\ Recorded(frame[c].m)
      BY <2>1 DEF Custody, ReaderIsKept, SaveOffline, TypeOK
    <3>2. QED
      BY <1>1, <1>3, <2>1, <3>1, FrameType DEF SaveOffline
  <2>2. ASSUME NEW n \in Msg, DeleteOffline(n)
        PROVE  m \in Msg /\ Recorded(m)
    BY <1>1, <1>3, <2>2 DEF DeleteOffline
  <2>3. ASSUME NEW c \in Conn, SaveHistory(c) \/ MarkDelivered(c) \/ MarkWaiting(c)
        PROVE  m \in Msg /\ Recorded(m)
    BY <1>1, <1>3, <2>3 DEF SaveHistory, MarkDelivered, MarkWaiting
  <2>4. ASSUME NEW n \in Msg, MarkAcknowledged(n)
        PROVE  m \in Msg /\ Recorded(m)
    BY <1>1, <1>3, <2>4 DEF MarkAcknowledged
  <2>5. m \in Msg /\ Recorded(m)
    BY <1>1, <1>3, <2>1, <2>2, <2>3, <2>4, TableWriters
  <2>6. QED
    BY <2>5, RecordedStays
<1>4. QED
  BY <1>2, <1>3 DEF ReplayIsRecorded

\* What a device takes, the server has; and it takes one message at a time.
LEMMA InboxFlow ==
  ASSUME TypeOK, Custody, [Next]_vars
  PROVE  \/ UNCHANGED <<stored, refused>>
         \/ \E d \in Device, m \in Msg :
              /\ Recorded(m) /\ UNCHANGED <<outbox, history>>
              /\ \/ stored' = [stored EXCEPT ![d] = @ \cup {m}] /\ refused' = refused
                 \/ refused' = [refused EXCEPT ![d] = @ \cup {m}] /\ stored' = stored
<1>1. ASSUME NEW d \in Device, ReceiveMessage(d)
      PROVE  \E m \in Msg : /\ Recorded(m) /\ UNCHANGED <<outbox, history>>
                            /\ stored' = [stored EXCEPT ![d] = @ \cup {m}] /\ refused' = refused
  BY <1>1, IncomingIsRecorded DEF Custody, ReceiveMessage, dbVars
<1>2. ASSUME NEW d \in Device, RefuseMessage(d)
      PROVE  \E m \in Msg : /\ Recorded(m) /\ UNCHANGED <<outbox, history>>
                            /\ refused' = [refused EXCEPT ![d] = @ \cup {m}] /\ stored' = stored
  BY <1>2, IncomingIsRecorded DEF Custody, RefuseMessage, dbVars
<1>3. ASSUME NEW d \in Device, NEW row \in page[d], ApplyReceivedRow(d, row)
      PROVE  \E m \in Msg : /\ Recorded(m) /\ UNCHANGED <<outbox, history>>
                            /\ stored' = [stored EXCEPT ![d] = @ \cup {m}] /\ refused' = refused
  <2>1. row \in [m : Msg, state : DeliveryState] /\ Recorded(row.m)
    BY DEF TypeOK, Custody, PageIsRecorded
  <2>2. QED
    BY <1>3, <2>1 DEF ApplyReceivedRow, dbVars
<1>4. QED
  BY <1>1, <1>2, <1>3, InboxWriters

LEMMA InboxIsRecordedNext ==
  ASSUME TypeOK, Custody, [Next]_vars
  PROVE  InboxIsRecorded'
<1>1. /\ stored \in [Device -> SUBSET Msg] /\ refused \in [Device -> SUBSET Msg]
      /\ \A d \in Device : \A m \in stored[d] \cup refused[d] : Recorded(m)
  BY DEF TypeOK, Custody, InboxIsRecorded
<1>2. ASSUME NEW d \in Device, NEW m \in stored'[d] \cup refused'[d]
      PROVE  m \in Msg /\ Recorded(m)
  BY <1>1, <1>2, InboxFlow
<1>3. QED
  BY <1>2, RecordedStays DEF InboxIsRecorded

LEMMA PageIsRecordedNext ==
  ASSUME TypeOK, Custody, [Next]_vars
  PROVE  PageIsRecorded'
<1>1. /\ page \in [Device -> SUBSET [m : Msg, state : DeliveryState]]
      /\ \A d \in Device : \A row \in page[d] : Recorded(row.m)
  BY DEF TypeOK, Custody, PageIsRecorded
<1> SUFFICES ASSUME NEW e \in Device, NEW r \in page'[e]
             PROVE  Recorded(r.m)'
  BY DEF PageIsRecorded
<1>2. ASSUME NEW d \in Device, FetchHistory(d)
      PROVE  r.m \in Msg /\ Recorded(r.m)
  <2>1. r \in page[e] \/ r \in Thread(d)
    BY <1>1, <1>2 DEF FetchHistory
  <2>2. QED
    BY <1>1, <2>1 DEF Thread, Recorded
<1>3. ASSUME NEW d \in Device, Reload(d)
      PROVE  r \in page[e]
  BY <1>1, <1>3 DEF Reload
<1>4. ASSUME NEW d \in Device, NEW row \in page[d],
             ApplySentRow(d, row) \/ ApplyReceivedRow(d, row) \/ RowUnreadable(d, row)
      PROVE  r \in page[e]
  BY <1>1, <1>4 DEF ApplySentRow, ApplyReceivedRow, RowUnreadable
<1>5. r.m \in Msg /\ Recorded(r.m)
  BY <1>1, <1>2, <1>3, <1>4, PageWriters
<1>6. QED
  BY <1>5, RecordedStays

\* A status only becomes sent or delivered on the word of the server.
LEMMA SentIsRecordedNext ==
  ASSUME TypeOK, Custody, [Next]_vars
  PROVE  SentIsRecorded'
<1>1. status \in [Msg -> Status]
  BY DEF TypeOK
<1> SUFFICES ASSUME NEW m \in Msg, status'[m] \in {"sent", "delivered"}
             PROVE  Recorded(m)
  BY RecordedStays DEF SentIsRecorded
<1>2. CASE status[m] \in {"sent", "delivered"}
  BY <1>2 DEF Custody, SentIsRecorded
<1>3. CASE status[m] \notin {"sent", "delivered"}
  <2>1. ASSUME NEW d \in Device, NEW n \in Msg,
               Compose(d, n) \/ FlushSend(d, n) \/ FlushFail(d, n) \/ RetryDirectMessage(d, n)
        PROVE  FALSE
    BY <1>1, <1>3, <2>1 DEF Compose, FlushSend, FlushFail, RetryDirectMessage
  <2>2. ASSUME NEW d \in Device, HandleServerAck(d) \/ ReceiveReceipt(d)
        PROVE  Recorded(m)
    <3>1. Recorded(Head(send[link[d]]).m)
      BY <2>2, IncomingIsRecorded DEF Custody, HandleServerAck, ReceiveReceipt
    <3>2. m = Head(send[link[d]]).m
      BY <1>1, <1>3, <2>2 DEF HandleServerAck, ReceiveReceipt
    <3>3. QED
      BY <3>1, <3>2
  <2>3. ASSUME NEW d \in Device, NEW row \in page[d], ApplySentRow(d, row)
        PROVE  Recorded(m)
    <3>1. m = row.m
      BY <1>1, <1>3, <2>3 DEF ApplySentRow
    <3>2. QED
      BY <3>1 DEF Custody, PageIsRecorded
  <2>4. QED
    BY <1>3, <2>1, <2>2, <2>3, StatusWriters
<1>4. QED
  BY <1>2, <1>3

LEMMA CustodyNext == TypeOK /\ Custody /\ [Next]_vars => Custody'
BY OwnOutboxNext, FlushIsKeptNext, WireIsKeptNext, ReaderIsKeptNext, SendIsRecordedNext,
   ReplayIsRecordedNext, InboxIsRecordedNext, PageIsRecordedNext, SentIsRecordedNext DEF Custody

\* The inductive invariant behind SentIsRecorded and the refinement.
THEOREM CustodyHolds == Spec => []Custody
<1>1. Spec => []TypeOK
  BY TypeCorrect
<1>2. QED
  BY <1>1, CustodyInit, CustodyNext, PTL DEF Spec

\* A message shown as sent or delivered is in message_history, for any number
\* of devices, connections and faults: whatever is dropped, resent, reloaded
\* or restarted between the server's INSERT and the handling of its ack.
THEOREM SentIsAlwaysRecorded == Spec => []SentIsRecorded
<1>1. Custody => SentIsRecorded
  BY DEF Custody
<1>2. QED
  BY <1>1, CustodyHolds, PTL

-----------------------------------------------------------------------------
(* DirectDelivery implements Mailbox.                                      *)

\* The places of a message that nothing has moved.
LEMMA SamePlace ==
  ASSUME NEW m \in Msg, Seen(m)' <=> Seen(m), Recorded(m)' <=> Recorded(m),
         Seen(m) \/ Recorded(m) \/ (m \in outbox'[From[m]] <=> m \in outbox[From[m]])
  PROVE  place'[m] = place[m]
BY DEF place

\* A step that leaves every message where it is, is a stutter ...
LEMMA NoMove ==
  ASSUME \A m \in Msg : place'[m] = place[m]
  PROVE  [M!Next]_place
BY DEF place

\* ... and one that moves a single message along, a step of Mailbox.
LEMMA OneMove ==
  ASSUME NEW m \in Msg, \A n \in Msg \ {m} : place'[n] = place[n],
         \/ place[m] = "idle" /\ place'[m] = "outbox"
         \/ place[m] = "outbox" /\ place'[m] = "server"
         \/ place[m] = "server" /\ place'[m] = "seen"
  PROVE  [M!Next]_place
<1>1. place' = [place EXCEPT ![m] = place'[m]]
  BY DEF place
<1>2. M!Submit(m) \/ M!Accept(m) \/ M!Take(m)
  BY <1>1 DEF M!Submit, M!Accept, M!Take, M!Move
<1>3. QED
  BY <1>2 DEF M!Next

\* Taking a message at a device: "server" to "seen" at most.
LEMMA TakeStep ==
  ASSUME TypeOK, Custody, NEW d \in Device, NEW m \in Msg,
         Recorded(m), UNCHANGED <<outbox, history>>,
         \/ stored' = [stored EXCEPT ![d] = @ \cup {m}] /\ refused' = refused
         \/ refused' = [refused EXCEPT ![d] = @ \cup {m}] /\ stored' = stored
  PROVE  [M!Next]_place
<1>1. stored \in [Device -> SUBSET Msg] /\ refused \in [Device -> SUBSET Msg]
  BY DEF TypeOK
<1>2. \A n \in Msg : Recorded(n)' <=> Recorded(n)
  BY DEF Recorded
<1>3. \A n \in Msg \ {m} : Seen(n)' <=> Seen(n)
  BY <1>1 DEF Seen
<1>4. \A n \in Msg \ {m} : place'[n] = place[n]
  BY <1>2, <1>3, SamePlace
<1>5. Seen(m) => Seen(m)'
  BY <1>1 DEF Seen
<1>6. CASE Seen(m)' <=> Seen(m)
  <2>1. place'[m] = place[m]
    BY <1>2, <1>6, SamePlace
  <2>2. QED
    BY <1>4, <2>1, NoMove
<1>7. CASE Seen(m)' /\ ~Seen(m)
  <2>1. place[m] = "server" /\ place'[m] = "seen"
    BY <1>7 DEF place
  <2>2. QED
    BY <1>4, <2>1, OneMove
<1>8. QED
  BY <1>5, <1>6, <1>7

\* Every step moves at most one message, one place along.
LEMMA MailboxStep ==
  ASSUME TypeOK, Custody, [Next]_vars
  PROVE  [M!Next]_place
<1>1. CASE \E d \in Device, m \in Msg :
             /\ Recorded(m) /\ UNCHANGED <<outbox, history>>
             /\ \/ stored' = [stored EXCEPT ![d] = @ \cup {m}] /\ refused' = refused
                \/ refused' = [refused EXCEPT ![d] = @ \cup {m}] /\ stored' = stored
  BY <1>1, TakeStep
<1>2. CASE UNCHANGED <<stored, refused>>
  <2>1. \A m \in Msg : Seen(m)' <=> Seen(m)
    BY <1>2 DEF Seen
  <2>2. \A m \in Msg : Seen(m) => Recorded(m)
    BY DEF Custody, InboxIsRecorded, Seen
  <2>3. outbox \in [Device -> SUBSET Msg] /\ history \in [Msg -> DeliveryState]
    BY DEF TypeOK
  <2>4. ASSUME NEW d \in Device, NEW m \in Msg, Enqueue(d, m)
        PROVE  [M!Next]_place
    <3>1. From[m] = d /\ history' = history /\ outbox' = [outbox EXCEPT ![d] = @ \cup {m}]
      BY <2>4 DEF Custody, OwnOutbox, Enqueue, dbVars
    <3>2. \A n \in Msg : Recorded(n)' <=> Recorded(n)
      BY <3>1 DEF Recorded
    <3>3. \A n \in Msg \ {m} : place'[n] = place[n]
      <4>1. \A n \in Msg \ {m} : n \in outbox'[From[n]] <=> n \in outbox[From[n]]
        BY <2>3, <3>1, DeliveryAssumption
      <4>2. QED
        BY <2>1, <3>2, <4>1, SamePlace
    <3>4. CASE Seen(m) \/ Recorded(m) \/ m \in outbox[d]
      <4>1. Seen(m) \/ Recorded(m) \/ (m \in outbox'[From[m]] <=> m \in outbox[From[m]])
        BY <2>3, <3>1, <3>4
      <4>2. place'[m] = place[m]
        BY <2>1, <3>2, <4>1, SamePlace
      <4>3. QED
        BY <3>3, <4>2, NoMove
    <3>5. CASE ~Seen(m) /\ ~Recorded(m) /\ m \notin outbox[d]
      <4>1. m \in outbox'[From[m]]
        BY <2>3, <3>1
      <4>2. place[m] = "idle" /\ place'[m] = "outbox"
        BY <2>1, <3>1, <3>2, <3>5, <4>1 DEF place
      <4>3. QED
        BY <3>3, <4>2, OneMove
    <3>6. QED
      BY <3>4, <3>5
  <2>5. ASSUME NEW d \in Device, HandleServerAck(d)
        PROVE  [M!Next]_place
    <3> DEFINE m == Head(send[link[d]]).m
    <3>1. Recorded(m) /\ history' = history /\ outbox' = [outbox EXCEPT ![d] = @ \ {m}]
      BY <2>5, IncomingIsRecorded DEF Custody, HandleServerAck, dbVars
    <3>2. \A n \in Msg : Recorded(n)' <=> Recorded(n)
      BY <3>1 DEF Recorded
    <3>3. \A n \in Msg : Recorded(n) \/ (n \in outbox'[From[n]] <=> n \in outbox[From[n]])
      BY <2>3, <3>1, DeliveryAssumption
    <3>4. QED
      BY <2>1, <3>2, <3>3, SamePlace, NoMove
  <2>6. ASSUME NEW c \in Conn, SaveHistory(c)
        PROVE  [M!Next]_place
    <3>1. PICK m \in Msg : m = frame[c].m /\ Kept(m)
      BY <2>6, FrameType DEF Custody, ReaderIsKept, SaveHistory, TypeOK
    <3>2. /\ outbox' = outbox
          /\ history' = [history EXCEPT ![m] = IF @ = "none" THEN "accepted" ELSE @]
      BY <2>6, <3>1 DEF SaveHistory, appVars
    <3>3. \A n \in Msg \ {m} : Recorded(n)' <=> Recorded(n)
      BY <2>3, <3>2 DEF Recorded
    <3>4. \A n \in Msg \ {m} : place'[n] = place[n]
      BY <2>1, <3>2, <3>3, SamePlace
    <3>5. Recorded(m)'
      BY <2>3, <3>2 DEF Recorded
    <3>6. CASE Recorded(m)
      BY <2>1, <3>2, <3>4, <3>5, <3>6, SamePlace, NoMove
    <3>7. CASE ~Recorded(m)
      <4>1. place[m] = "outbox" /\ place'[m] = "server"
        BY <2>1, <2>2, <3>1, <3>5, <3>7 DEF place, Kept
      <4>2. QED
        BY <3>4, <4>1, OneMove
    <3>8. QED
      BY <3>6, <3>7
  <2>7. ASSUME UNCHANGED outbox, \A n \in Msg : Recorded(n)' <=> Recorded(n)
        PROVE  [M!Next]_place
    BY <2>1, <2>7, SamePlace, NoMove
  \* No other action moves a row of history from or to "none".
  <2>8. ASSUME ~(\E c \in Conn : SaveHistory(c))
        PROVE  \A n \in Msg : Recorded(n)' <=> Recorded(n)
    <3>1. ASSUME NEW c \in Conn, MarkDelivered(c) \/ MarkWaiting(c)
          PROVE  \A n \in Msg : Recorded(n)' => Recorded(n)
      <4>1. Recorded(frame[c].m)
        BY <3>1 DEF Custody, ReaderIsKept, MarkDelivered, MarkWaiting
      <4>2. QED
        BY <2>3, <3>1, <4>1 DEF MarkDelivered, MarkWaiting, Recorded
    <3>2. ASSUME NEW n \in Msg, MarkAcknowledged(n)
          PROVE  \A k \in Msg : Recorded(k)' => Recorded(k)
      BY <2>3, <3>2 DEF MarkAcknowledged, Recorded
    <3>3. ASSUME NEW n \in Msg, DeleteOffline(n)
          PROVE  history' = history
      BY <3>3 DEF DeleteOffline
    <3>4. ASSUME NEW c \in Conn, SaveOffline(c)
          PROVE  history' = history
      BY <3>4 DEF SaveOffline
    <3>5. \A n \in Msg : Recorded(n)' => Recorded(n)
      BY <2>8, <3>1, <3>2, <3>3, <3>4, TableWriters DEF Recorded
    <3>6. QED
      BY <3>5, RecordedStays
  <2>9. ASSUME NEW d \in Device, NEW m \in Msg,
               Compose(d, m) \/ FlushSend(d, m) \/ FlushSkip(d, m) \/ FlushFail(d, m)
                 \/ FlushStart(d) \/ Reload(d)
        PROVE  outbox' = outbox
    BY <2>9 DEF Compose, FlushSend, FlushSkip, FlushFail, FlushStart, Reload
  <2>10. ASSUME NEW d \in Device, FlushStart(d) \/ Reload(d)
         PROVE  outbox' = outbox
    BY <2>10 DEF FlushStart, Reload
  <2>11. QED
    BY <2>4, <2>5, <2>6, <2>7, <2>8, <2>9, <2>10, OutboxWriters
<1>3. QED
  BY <1>1, <1>2, InboxFlow

\* The system implements Mailbox: a message that entered the outbox is never
\* lost on its way to the server, is never taken by a recipient's device
\* before the server has recorded it, and never moves back.
THEOREM ImplementsMailbox == Spec => MailboxSpec
<1>1. Init => M!Init
  <2>1. SUFFICES ASSUME Init, NEW m \in Msg
                 PROVE  ~Seen(m) /\ ~Recorded(m) /\ m \notin outbox[From[m]]
    BY DEF M!Init, place
  <2>2. From[m] \in Device
    BY DeliveryAssumption
  <2>3. QED
    BY <2>1, <2>2 DEF Init, Seen, Recorded
<1>2. TypeOK /\ Custody /\ [Next]_vars => [M!Next]_place
  BY MailboxStep
<1>3. QED
  BY <1>1, <1>2, TypeCorrect, CustodyHolds, PTL DEF Spec, MailboxSpec, M!Spec

-----------------------------------------------------------------------------
(* From the server to the recipient: the invariant.                        *)

\* Connection c belongs to the recipient of m.
Reaches(c, m) == dev[c] \in Device /\ Owner[dev[c]] = To[m]

LinksAreOwn == \A d \in Device : link[d] # None => dev[link[d]] = d

ListedAreKnown == \A c \in regq \cup listing : dev[c] # None

SendIsAddressed ==
  \A c \in Conn : \A f \in Frames(send[c]) : f.kind = "message" => Reaches(c, f.m)

ReplayIsAddressed == \A c \in Conn : \A m \in replay[c] : Reaches(c, m)

TargetsAreAddressed ==
  \A c \in Conn : pc[c] = "deliver" /\ frame[c].kind = "message" =>
    \A k \in todo[c] : Reaches(k, frame[c].m)

\* An offline_ack, on the wire or being served, is about a message seen.
AcksAreSeen ==
  /\ \A c \in Conn : \A f \in Frames(up[c]) : f.kind = "offline_ack" => Seen(f.m)
  /\ \A m \in Msg : dels[m] > 0 => Seen(m)

QueuedOrSeen(m) == m \in offline \/ Seen(m)

MarksAreRight ==
  \A c \in Conn :
    /\ pc[c] = "markWaiting" => QueuedOrSeen(frame[c].m)
    /\ pc[c] = "markDelivered" => c \in got

Routing ==
  /\ LinksAreOwn /\ ListedAreKnown /\ SendIsAddressed /\ ReplayIsAddressed
  /\ TargetsAreAddressed /\ AcksAreSeen /\ MarksAreRight
  /\ AckHasCustody /\ WaitingIsQueuedOrSeen

LEMMA RoutingInit == Init => Routing
<1> SUFFICES ASSUME Init PROVE Routing
  OBVIOUS
<1>1. \A c \in Conn : Frames(send[c]) = {} /\ Frames(up[c]) = {}
  BY DEF Init, Frames
<1>2. QED
  BY <1>1 DEF Init, Routing, LinksAreOwn, ListedAreKnown, SendIsAddressed, ReplayIsAddressed,
     TargetsAreAddressed, AcksAreSeen, MarksAreRight, AckHasCustody, WaitingIsQueuedOrSeen

-----------------------------------------------------------------------------
(* What no step takes back.                                                *)

\* A device never forgets a message it has taken.
LEMMA SeenStays ==
  ASSUME TypeOK, Custody, [Next]_vars, NEW m \in Msg, Seen(m)
  PROVE  Seen(m)'
<1>1. stored \in [Device -> SUBSET Msg] /\ refused \in [Device -> SUBSET Msg]
  BY DEF TypeOK
<1>2. \A d \in Device : stored[d] \subseteq stored'[d] /\ refused[d] \subseteq refused'[d]
  BY <1>1, InboxFlow
<1>3. QED
  BY <1>2 DEF Seen

\* A connection keeps the device that authenticated on it.
LEMMA DevStays ==
  ASSUME TypeOK, [Next]_vars, NEW c \in Conn, dev[c] # None
  PROVE  dev'[c] = dev[c]
<1>1. dev \in [Conn -> Device \cup {None}]
  BY DEF TypeOK
<1>2. ASSUME NEW d \in Device, NEW k \in Conn, Connect(d, k)
      PROVE  dev'[c] = dev[c]
  BY <1>1, <1>2 DEF Connect
<1>3. ASSUME NEW d \in Device, OnClose(d) \/ Reload(d)
      PROVE  dev' = dev
  BY <1>3 DEF OnClose, Reload
<1>4. QED
  BY <1>2, <1>3, LinkWriters

LEMMA ReachesStays ==
  ASSUME TypeOK, [Next]_vars, NEW c \in Conn, NEW m, Reaches(c, m)
  PROVE  Reaches(c, m)'
<1>1. dev[c] # None
  BY DeliveryAssumption DEF Reaches
<1>2. QED
  BY <1>1, DevStays DEF Reaches

\* Only DeleteOfflineMessage takes a row, on behalf of a device that has it.
LEMMA RowGoesSeen ==
  ASSUME TypeOK, Custody, Routing, [Next]_vars, NEW m \in offline, m \notin offline'
  PROVE  Seen(m)
<1>1. ASSUME NEW c \in Conn, SaveHistory(c) \/ MarkDelivered(c) \/ MarkWaiting(c) \/ SaveOffline(c)
      PROVE  FALSE
  BY <1>1 DEF SaveHistory, MarkDelivered, MarkWaiting, SaveOffline
<1>2. ASSUME NEW n \in Msg, MarkAcknowledged(n)
      PROVE  FALSE
  BY <1>2 DEF MarkAcknowledged
<1>3. ASSUME NEW n \in Msg, DeleteOffline(n)
      PROVE  n = m /\ dels[m] > 0
  BY <1>3 DEF DeleteOffline
<1>4. dels[m] > 0 /\ m \in Msg
  BY <1>1, <1>2, <1>3, TableWriters DEF TypeOK
<1>5. QED
  BY <1>4 DEF Routing, AcksAreSeen

LEMMA QueuedOrSeenStays ==
  ASSUME TypeOK, Custody, Routing, [Next]_vars, NEW m \in Msg, QueuedOrSeen(m)
  PROVE  QueuedOrSeen(m)'
BY RowGoesSeen, SeenStays DEF QueuedOrSeen

-----------------------------------------------------------------------------
(* Each part of Routing is preserved.                                      *)

LEMMA LinksAreOwnNext ==
  ASSUME TypeOK, Routing, [Next]_vars
  PROVE  LinksAreOwn'
<1>1. /\ link \in [Device -> Conn \cup {None}] /\ dev \in [Conn -> Device \cup {None}]
      /\ LinksAreOwn
  BY DEF TypeOK, Routing
<1>2. ASSUME NEW d \in Device, NEW c \in Conn, Connect(d, c)
      PROVE  LinksAreOwn'
  <2>1. dev[c] = None /\ link' = [link EXCEPT ![d] = c] /\ dev' = [dev EXCEPT ![c] = d]
    BY <1>2 DEF Connect
  <2>2. ASSUME NEW e \in Device, link'[e] # None
        PROVE  dev'[link'[e]] = e
    <3>1. CASE e = d
      BY <1>1, <2>1, <3>1
    <3>2. CASE e # d
      <4>1. link'[e] = link[e] /\ link[e] \in Conn /\ dev[link[e]] = e
        BY <1>1, <2>1, <2>2, <3>2 DEF LinksAreOwn
      <4>2. link[e] # c
        BY <2>1, <4>1, DeliveryAssumption
      <4>3. QED
        BY <1>1, <2>1, <4>1, <4>2
    <3>3. QED
      BY <3>1, <3>2
  <2>3. QED
    BY <2>2 DEF LinksAreOwn
<1>3. ASSUME NEW d \in Device, OnClose(d) \/ Reload(d)
      PROVE  LinksAreOwn'
  <2>1. link' = [link EXCEPT ![d] = None] /\ dev' = dev
    BY <1>3 DEF OnClose, Reload
  <2>2. QED
    BY <1>1, <2>1 DEF LinksAreOwn
<1>4. QED
  BY <1>1, <1>2, <1>3, LinkWriters DEF LinksAreOwn

LEMMA ListedAreKnownNext ==
  ASSUME TypeOK, Routing, [Next]_vars
  PROVE  ListedAreKnown'
<1>1. regq \subseteq Conn /\ listing \subseteq Conn /\ dev \in [Conn -> Device \cup {None}]
  BY DEF TypeOK
<1>2. \A c \in regq \cup listing : dev[c] # None
  BY DEF Routing, ListedAreKnown
<1> SUFFICES ASSUME NEW c \in regq' \cup listing'
             PROVE  dev'[c] # None
  BY DEF ListedAreKnown
<1>3. CASE c \in regq \cup listing
  BY <1>1, <1>2, <1>3, DevStays
<1>4. CASE c \notin regq \cup listing
  <2>1. ASSUME NEW d \in Device, NEW k \in Conn, Connect(d, k)
        PROVE  dev'[c] # None
    <3>1. c = k /\ dev' = [dev EXCEPT ![k] = d]
      BY <1>4, <2>1 DEF Connect
    <3>2. QED
      BY <1>1, <3>1, DeliveryAssumption
  <2>2. ASSUME NEW k \in Conn,
               \/ Register(k) \/ Unregister(k) \/ ListOffline(k) \/ ListOfflineFails(k)
               \/ ReplayStops(k) \/ ReaderExits(k) \/ SendServerAck(k)
               \/ (\E m \in Msg : Replay(k, m)) \/ (\E j \in Conn : DeliverTo(k, j))
        PROVE  FALSE
    BY <1>4, <2>2 DEF Register, Unregister, ListOffline, ListOfflineFails, ReplayStops,
       ReaderExits, SendServerAck, Replay, DeliverTo
  <2>3. ASSUME Restart
        PROVE  FALSE
    BY <1>4, <2>3 DEF Restart
  <2>4. QED
    BY <1>4, <2>1, <2>2, <2>3, SessionWriters
<1>5. QED
  BY <1>3, <1>4

LEMMA SendIsAddressedNext ==
  ASSUME TypeOK, Routing, [Next]_vars
  PROVE  SendIsAddressed'
<1> SUFFICES ASSUME NEW c \in Conn, NEW f \in Frames(send'[c]), f.kind = "message"
             PROVE  Reaches(c, f.m)'
  BY DEF SendIsAddressed
<1>1. CASE f \in Frames(send[c])
  BY <1>1, ReachesStays DEF Routing, SendIsAddressed
<1>2. ASSUME NEW m \in Msg, Replay(c, m), f = FrameOf("message", m)
      PROVE  Reaches(c, f.m)
  BY <1>2 DEF Routing, ReplayIsAddressed, Replay, FrameOf
<1>3. ASSUME NEW r \in Conn, DeliverTo(r, c), f = frame[r]
      PROVE  Reaches(c, f.m)
  BY <1>3 DEF Routing, TargetsAreAddressed, DeliverTo
<1>4. ASSUME f = FrameOf("server_ack", frame[c].m)
      PROVE  FALSE
  BY <1>4 DEF FrameOf
<1>5. QED
  BY <1>1, <1>2, <1>3, <1>4, SendFlow, ReachesStays

LEMMA ReplayIsAddressedNext ==
  ASSUME TypeOK, Routing, [Next]_vars
  PROVE  ReplayIsAddressed'
<1>1. /\ replay \in [Conn -> SUBSET Msg] /\ offline \subseteq Msg
      /\ dev \in [Conn -> Device \cup {None}]
  BY DEF TypeOK
<1> SUFFICES ASSUME NEW c \in Conn, NEW m \in replay'[c]
             PROVE  Reaches(c, m)'
  BY DEF ReplayIsAddressed
<1>2. CASE m \in replay[c]
  BY <1>2, ReachesStays DEF Routing, ReplayIsAddressed
<1>3. CASE m \notin replay[c]
  <2>1. ASSUME NEW k \in Conn, ListOffline(k)
        PROVE  Reaches(c, m)
    <3>1. c = k /\ m \in offline /\ To[m] = Owner[dev[c]]
      BY <1>1, <1>3, <2>1 DEF ListOffline
    <3>2. dev[c] # None
      BY <2>1, <3>1 DEF Routing, ListedAreKnown, ListOffline
    <3>3. QED
      BY <1>1, <3>1, <3>2 DEF Reaches
  <2>2. ASSUME NEW k \in Conn,
               \/ Register(k) \/ Unregister(k) \/ ListOfflineFails(k) \/ ReaderExits(k)
               \/ SendServerAck(k) \/ (\E d \in Device : Connect(d, k))
               \/ (\E j \in Conn : DeliverTo(k, j))
        PROVE  FALSE
    <3>1. replay' = replay
      BY <2>2 DEF Register, Unregister, ListOfflineFails, ReaderExits, SendServerAck, Connect, DeliverTo
    <3>2. QED
      BY <1>3, <3>1
  <2>3. ASSUME NEW k \in Conn, ReplayStops(k) \/ \E n \in Msg : Replay(k, n)
        PROVE  FALSE
    BY <1>1, <1>3, <2>3 DEF ReplayStops, Replay
  <2>4. ASSUME Restart
        PROVE  FALSE
    BY <2>4 DEF Restart
  <2>5. Reaches(c, m)
    BY <1>3, <2>1, <2>2, <2>3, <2>4, SessionWriters
  <2>6. QED
    BY <2>5, ReachesStays
<1>4. QED
  BY <1>2, <1>3

LEMMA TargetsAreAddressedNext ==
  ASSUME TypeOK, Routing, [Next]_vars
  PROVE  TargetsAreAddressed'
<1>1. /\ pc \in [Conn -> ReaderPc] /\ todo \in [Conn -> SUBSET Conn]
      /\ frame \in [Conn -> Frame \cup {None}] /\ dev \in [Conn -> Device \cup {None}]
  BY DEF TypeOK
<1> SUFFICES ASSUME NEW c \in Conn, pc'[c] = "deliver", frame'[c].kind = "message",
                    NEW k \in todo'[c]
             PROVE  Reaches(k, frame[c].m)'
  BY DEF TargetsAreAddressed
\* The loop over the sessions goes on.
<1>2. ASSUME pc[c] = "deliver", frame'[c] = frame[c], k \in todo[c]
      PROVE  Reaches(k, frame[c].m)'
  <2>1. Reaches(k, frame[c].m) /\ k \in Conn
    BY <1>1, <1>2 DEF Routing, TargetsAreAddressed
  <2>2. dev'[k] = dev[k]
    BY <2>1, DevStays, DeliveryAssumption DEF Reaches
  <2>3. QED
    BY <1>2, <2>1, <2>2 DEF Reaches
<1>3. ASSUME NEW r \in Conn, LookupSessions(r)
      PROVE  Reaches(k, frame[c].m)'
  <2>1. CASE c = r
    <3>1. frame'[c] = frame[c] /\ k \in ConnsOf(Dest(frame[c]))
      BY <1>1, <1>3, <2>1 DEF LookupSessions, AfterDelivery, Rest
    <3>2. k \in Conn /\ Reaches(k, frame[c].m)
      BY <1>1, <3>1 DEF ConnsOf, Dest, Reaches
    <3>3. dev'[k] = dev[k]
      BY <3>2, DevStays, DeliveryAssumption DEF Reaches
    <3>4. QED
      BY <3>1, <3>2, <3>3 DEF Reaches
  <2>2. CASE c # r
    <3>1. pc'[c] = pc[c] /\ frame'[c] = frame[c] /\ todo'[c] = todo[c]
      BY <1>1, <1>3, <2>2 DEF LookupSessions, AfterDelivery, Rest
    <3>2. QED
      BY <1>2, <3>1
  <2>3. QED
    BY <2>1, <2>2
<1>4. ASSUME NEW r \in Conn, NEW j \in Conn, DeliverTo(r, j)
      PROVE  Reaches(k, frame[c].m)'
  <2>1. pc[c] = "deliver" /\ frame'[c] = frame[c] /\ k \in todo[c]
    BY <1>1, <1>4 DEF DeliverTo, AfterDelivery, Rest
  <2>2. QED
    BY <1>2, <2>1
<1>5. ASSUME NEW r \in Conn,
             \/ ReaderExits(r) \/ ReadRouted(r) \/ SaveHistory(r) \/ MarkDelivered(r)
             \/ MarkWaiting(r) \/ MarkFails(r) \/ SaveOffline(r)
             \/ (\E d \in Device : Connect(d, r))
      PROVE  pc[c] = "deliver" /\ frame'[c] = frame[c] /\ k \in todo[c]
  BY <1>1, <1>5 DEF ReaderExits, ReadRouted, SaveHistory, MarkDelivered, MarkWaiting,
     MarkFails, SaveOffline, Connect
<1>6. ASSUME NEW r \in Conn, SaveHistoryFails(r) \/ SaveOfflineFails(r) \/ SendServerAck(r)
      PROVE  pc[c] = "deliver" /\ frame'[c] = frame[c] /\ k \in todo[c]
  BY <1>1, <1>6 DEF SaveHistoryFails, SaveOfflineFails, SendServerAck, Rest
<1>7. ASSUME Restart
      PROVE  FALSE
  BY <1>7 DEF Restart
<1>8. QED
  BY <1>2, <1>3, <1>4, <1>5, <1>6, <1>7, ReaderWriters

\* The device that takes a message is one of its recipient's.
LEMMA TakenIsSeen ==
  ASSUME TypeOK, Routing, NEW d \in Device, ReceiveMessage(d) \/ RefuseMessage(d),
         NEW m, m = Head(send[link[d]]).m
  PROVE  Seen(m)'
<1> DEFINE f == Head(send[link[d]])
<1>1. Incoming(d, "message")
  BY DEF ReceiveMessage, RefuseMessage
<1>2. link[d] \in Conn /\ send[link[d]] \in Seq(Frame) /\ send[link[d]] # <<>> /\ f.kind = "message"
  BY <1>1 DEF Incoming, TypeOK
<1>3. f \in Frames(send[link[d]])
  BY <1>2, FramesOfTail
<1>4. Owner[d] = To[m]
  BY <1>2, <1>3, DeliveryAssumption DEF Routing, LinksAreOwn, SendIsAddressed, Reaches
<1>5. m \in stored'[d] \cup refused'[d]
  BY DEF ReceiveMessage, RefuseMessage, TypeOK
<1>6. QED
  BY <1>4, <1>5 DEF Seen

LEMMA AcksAreSeenNext ==
  ASSUME TypeOK, Custody, Routing, [Next]_vars
  PROVE  AcksAreSeen'
<1>1. /\ up \in [Conn -> Seq(Frame)] /\ dels \in [Msg -> Nat]
  BY DEF TypeOK
<1>2. ASSUME NEW c \in Conn, NEW f \in Frames(up'[c]), f.kind = "offline_ack"
      PROVE  Seen(f.m)'
  <2>1. CASE f \in Frames(up[c])
    <3>1. f \in Frame
      BY <1>1, <2>1, FramesType
    <3>2. Seen(f.m)
      BY <1>2, <2>1 DEF Routing, AcksAreSeen
    <3>3. QED
      BY <3>1, <3>2, FrameType, SeenStays
  <2>2. ASSUME NEW d \in Device, NEW k, ReceiveMessage(d) \/ RefuseMessage(d),
               f = FrameOf(k, Head(send[link[d]]).m)
        PROVE  Seen(f.m)'
    BY <2>2, TakenIsSeen DEF FrameOf
  <2>3. ASSUME NEW m, f = FrameOf("message", m) \/ f = FrameOf("delivery_receipt", m)
        PROVE  FALSE
    BY <1>2, <2>3 DEF FrameOf
  <2>4. QED
    BY <1>2, <2>1, <2>2, <2>3, UpFlow
<1>3. ASSUME NEW m \in Msg, dels'[m] > 0
      PROVE  Seen(m)'
  <2>1. CASE dels[m] > 0
    BY <2>1, SeenStays DEF Routing, AcksAreSeen
  <2>2. CASE ~(dels[m] > 0)
    <3>1. ASSUME NEW c \in Conn, ReadOfflineAck(c)
          PROVE  Seen(m)
      <4>1. up[c] \in Seq(Frame) /\ up[c] # <<>> /\ Head(up[c]).kind = "offline_ack"
        BY <1>1, <3>1 DEF ReadOfflineAck
      <4>2. Head(up[c]) \in Frames(up[c])
        BY <4>1, FramesOfTail
      <4>3. m = Head(up[c]).m
        BY <1>1, <1>3, <2>2, <3>1 DEF ReadOfflineAck
      <4>4. QED
        BY <4>1, <4>2, <4>3 DEF Routing, AcksAreSeen
    <3>2. ASSUME NEW n \in Msg, DeleteOffline(n)
          PROVE  FALSE
      BY <1>1, <1>3, <2>2, <3>2 DEF DeleteOffline
    <3>3. ASSUME Restart
          PROVE  FALSE
      BY <1>3, <3>3 DEF Restart
    <3>4. QED
      BY <1>3, <2>2, <3>1, <3>2, <3>3, AckWriters, SeenStays
  <2>3. QED
    BY <2>1, <2>2
<1>4. QED
  BY <1>2, <1>3 DEF AcksAreSeen

\* The parts of Routing about a reader, together: what it knows of its frame.
ReaderKnows(c) ==
  /\ pc[c] = "markWaiting" => QueuedOrSeen(frame[c].m)
  /\ pc[c] = "markDelivered" => c \in got
  /\ pc[c] = "ack" /\ frame[c].kind = "message" => c \in got \/ QueuedOrSeen(frame[c].m)

LEMMA ReaderKnowsNext ==
  ASSUME TypeOK, Custody, Routing, [Next]_vars, NEW c \in Conn
  PROVE  ReaderKnows(c)'
<1>1. /\ pc \in [Conn -> ReaderPc] /\ frame \in [Conn -> Frame \cup {None}] /\ got \subseteq Conn
      /\ pc[c] \notin {"off", "idle", "exited"} => frame[c] \in Frame
  BY DEF TypeOK
<1>2. ReaderKnows(c)
  BY DEF Routing, MarksAreRight, AckHasCustody, QueuedOrSeen, ReaderKnows
\* The reader stays where it is.
<1>3. ASSUME pc'[c] = pc[c], frame'[c] = frame[c], c \in got => c \in got'
      PROVE  ReaderKnows(c)'
  <2>1. CASE pc[c] \in {"markWaiting", "ack"}
    <3>1. frame[c].m \in Msg
      BY <1>1, <2>1, FrameType
    <3>2. QED
      BY <1>2, <1>3, <2>1, <3>1, QueuedOrSeenStays DEF ReaderKnows, QueuedOrSeen
  <2>2. CASE pc[c] \notin {"markWaiting", "ack"}
    BY <1>2, <1>3, <2>2 DEF ReaderKnows
  <2>3. QED
    BY <2>1, <2>2
<1>4. ASSUME pc'[c] \notin {"markWaiting", "markDelivered", "ack"}
      PROVE  ReaderKnows(c)'
  BY <1>4 DEF ReaderKnows
<1>5. ASSUME NEW r \in Conn, MarkDelivered(r) \/ MarkWaiting(r) \/ MarkFails(r)
      PROVE  ReaderKnows(c)'
  <2>1. /\ pc[r] \in {"markDelivered", "markWaiting"} /\ pc' = [pc EXCEPT ![r] = "ack"]
        /\ frame' = frame /\ got' = got
    BY <1>5 DEF MarkDelivered, MarkWaiting, MarkFails
  <2>2. CASE c = r
    <3>1. frame[c].m \in Msg
      BY <1>1, <2>1, <2>2, FrameType
    <3>2. c \in got \/ QueuedOrSeen(frame[c].m)
      BY <1>2, <2>1, <2>2 DEF ReaderKnows
    <3>3. QED
      BY <1>1, <2>1, <2>2, <3>1, <3>2, QueuedOrSeenStays DEF ReaderKnows, QueuedOrSeen
  <2>3. CASE c # r
    BY <1>1, <1>3, <2>1, <2>3
  <2>4. QED
    BY <2>2, <2>3
<1>6. ASSUME NEW r \in Conn, SaveOffline(r)
      PROVE  ReaderKnows(c)'
  <2>1. CASE c = r
    <3>1. pc'[c] = "markWaiting" /\ frame' = frame /\ frame[c].m \in offline'
      BY <1>1, <1>6, <2>1 DEF SaveOffline
    <3>2. QED
      BY <3>1 DEF ReaderKnows, QueuedOrSeen
  <2>2. CASE c # r
    BY <1>1, <1>3, <1>6, <2>2 DEF SaveOffline
  <2>3. QED
    BY <2>1, <2>2
<1>7. ASSUME NEW r \in Conn, LookupSessions(r) \/ \E k \in Conn : DeliverTo(r, k)
      PROVE  ReaderKnows(c)'
  <2>1. CASE c = r
    <3>1. pc'[c] \in {"idle", "deliver", "persist"} \/ (pc'[c] = "markDelivered" /\ c \in got')
      BY <1>1, <1>7, <2>1 DEF LookupSessions, DeliverTo, AfterDelivery, Rest
    <3>2. QED
      BY <3>1 DEF ReaderKnows
  <2>2. CASE c # r
    <3>1. pc'[c] = pc[c] /\ frame'[c] = frame[c] /\ (c \in got => c \in got')
      BY <1>1, <1>7, <2>2 DEF LookupSessions, DeliverTo, AfterDelivery, Rest
    <3>2. QED
      BY <1>3, <3>1
  <2>3. QED
    BY <2>1, <2>2
<1>8. ASSUME NEW r \in Conn, SaveHistoryFails(r) \/ SaveOfflineFails(r) \/ SendServerAck(r)
      PROVE  ReaderKnows(c)'
  <2>1. Rest(r)
    BY <1>8 DEF SaveHistoryFails, SaveOfflineFails, SendServerAck
  <2>2. CASE c = r
    BY <1>1, <1>4, <2>1, <2>2 DEF Rest
  <2>3. CASE c # r
    BY <1>1, <1>3, <2>1, <2>3 DEF Rest
  <2>4. QED
    BY <2>2, <2>3
<1>9. ASSUME NEW r \in Conn,
             ReaderExits(r) \/ ReadRouted(r) \/ SaveHistory(r) \/ \E d \in Device : Connect(d, r)
      PROVE  ReaderKnows(c)'
  <2>1. \/ pc'[c] \in {"exited", "record", "lookup", "idle"}
        \/ pc'[c] = pc[c] /\ frame'[c] = frame[c] /\ got' = got
    BY <1>1, <1>9 DEF ReaderExits, ReadRouted, SaveHistory, Connect
  <2>2. QED
    BY <1>3, <1>4, <2>1
<1>10. ASSUME Restart
       PROVE  ReaderKnows(c)'
  BY <1>4, <1>10 DEF Restart
<1>11. ASSUME UNCHANGED <<pc, frame, todo, got>>
       PROVE  ReaderKnows(c)'
  BY <1>3, <1>11
<1>12. QED
  BY <1>5, <1>6, <1>7, <1>8, <1>9, <1>10, <1>11, ReaderWriters

LEMMA WaitingIsQueuedOrSeenNext ==
  ASSUME TypeOK, Custody, Routing, [Next]_vars
  PROVE  WaitingIsQueuedOrSeen'
<1>1. history \in [Msg -> DeliveryState]
  BY DEF TypeOK
<1> SUFFICES ASSUME NEW m \in Msg, history'[m] = "waiting_delivery"
             PROVE  QueuedOrSeen(m)'
  BY DEF WaitingIsQueuedOrSeen, QueuedOrSeen
<1>2. CASE history[m] = "waiting_delivery"
  BY <1>2, QueuedOrSeenStays DEF Routing, WaitingIsQueuedOrSeen, QueuedOrSeen
<1>3. CASE history[m] # "waiting_delivery"
  <2>1. ASSUME NEW c \in Conn, MarkWaiting(c)
        PROVE  QueuedOrSeen(m)
    <3>1. m = frame[c].m /\ pc[c] = "markWaiting"
      BY <1>1, <1>3, <2>1 DEF MarkWaiting
    <3>2. QED
      BY <3>1 DEF Routing, MarksAreRight
  <2>2. ASSUME NEW c \in Conn, SaveHistory(c) \/ MarkDelivered(c) \/ SaveOffline(c)
        PROVE  FALSE
    BY <1>1, <1>3, <2>2 DEF SaveHistory, MarkDelivered, SaveOffline
  <2>3. ASSUME NEW n \in Msg, DeleteOffline(n) \/ MarkAcknowledged(n)
        PROVE  FALSE
    BY <1>1, <1>3, <2>3 DEF DeleteOffline, MarkAcknowledged
  <2>4. QED
    BY <1>3, <2>1, <2>2, <2>3, TableWriters, QueuedOrSeenStays
<1>4. QED
  BY <1>2, <1>3

LEMMA RoutingNext == TypeOK /\ Custody /\ Routing /\ [Next]_vars => Routing'
<1> SUFFICES ASSUME TypeOK, Custody, Routing, [Next]_vars
             PROVE  Routing'
  OBVIOUS
<1>1. MarksAreRight' /\ AckHasCustody'
  BY ReaderKnowsNext DEF ReaderKnows, MarksAreRight, AckHasCustody, QueuedOrSeen
<1>2. QED
  BY <1>1, LinksAreOwnNext, ListedAreKnownNext, SendIsAddressedNext, ReplayIsAddressedNext,
     TargetsAreAddressedNext, AcksAreSeenNext, WaitingIsQueuedOrSeenNext DEF Routing

-----------------------------------------------------------------------------
(* The theorems.                                                           *)

\* The inductive invariant behind the three properties below.
THEOREM RoutingHolds == Spec => []Routing
<1>1. Spec => []TypeOK /\ []Custody
  BY TypeCorrect, CustodyHolds
<1>2. QED
  BY <1>1, RoutingInit, RoutingNext, PTL DEF Spec

\* routeToLocal never acknowledges a message that is nowhere: a connection
\* took it, it has an offline row, or its recipient has seen it.
THEOREM AckAlwaysHasCustody == Spec => []AckHasCustody
<1>1. Routing => AckHasCustody
  BY DEF Routing
<1>2. QED
  BY <1>1, RoutingHolds, PTL

\* A message counted as waiting has its offline row or has been seen, however
\* late the sender's reader writes the state.
THEOREM WaitingIsAlwaysQueuedOrSeen == Spec => []WaitingIsQueuedOrSeen
<1>1. Routing => WaitingIsQueuedOrSeen
  BY DEF Routing
<1>2. QED
  BY <1>1, RoutingHolds, PTL

\* An offline row is deleted only on behalf of a device of the recipient that
\* has taken the message, whatever replays, drops and restarts happen.
THEOREM RowIsAlwaysKeptUntilSeen == Spec => RowKeptUntilSeen
<1>1. TypeOK /\ Custody /\ Routing /\ [Next]_vars => [\A m \in offline \ offline' : Seen(m)]_vars
  BY RowGoesSeen
<1>2. QED
  BY <1>1, TypeCorrect, CustodyHolds, RoutingHolds, PTL DEF Spec, RowKeptUntilSeen

\* No client is left on an open socket that the hub no longer delivers to.
THEOREM UnlistedIsAlwaysCancelled == Spec => []UnlistedIsCancelled
<1>1. Init => UnlistedIsCancelled
  BY DEF Init, UnlistedIsCancelled
<1>2. ASSUME TypeOK, UnlistedIsCancelled, [Next]_vars
      PROVE  UnlistedIsCancelled'
  <2>1. dev \in [Conn -> Device \cup {None}]
    BY <1>2 DEF TypeOK
  <2>2. ASSUME NEW d \in Device, NEW k \in Conn, Connect(d, k)
        PROVE  UnlistedIsCancelled'
    BY <1>2, <2>1, <2>2 DEF Connect, UnlistedIsCancelled
  <2>3. ASSUME Restart
        PROVE  UnlistedIsCancelled'
    BY <2>3 DEF Restart, UnlistedIsCancelled
  <2>4. ASSUME dev' = dev,
               \A c \in Conn : c \in regq \cup sess \cup gone => c \in regq' \cup sess' \cup gone'
        PROVE  UnlistedIsCancelled'
    BY <1>2, <2>4 DEF UnlistedIsCancelled
  <2>5. ASSUME NEW k \in Conn,
               \/ Register(k) \/ Unregister(k) \/ ListOffline(k) \/ ListOfflineFails(k)
               \/ ReplayStops(k) \/ ReaderExits(k) \/ SendServerAck(k)
               \/ (\E m \in Msg : Replay(k, m)) \/ (\E j \in Conn : DeliverTo(k, j))
        PROVE  dev' = dev /\ \A c \in Conn : c \in regq \cup sess \cup gone => c \in regq' \cup sess' \cup gone'
    BY <2>5 DEF Register, Unregister, ListOffline, ListOfflineFails, ReplayStops, ReaderExits,
       SendServerAck, Replay, DeliverTo, DropClient, wireVars
  <2>6. ASSUME NEW d \in Device, OnClose(d) \/ Reload(d)
        PROVE  dev' = dev /\ UNCHANGED <<gone, regq, sess>>
    BY <2>6 DEF OnClose, Reload, hubVars
  <2>7. QED
    BY <1>2, <2>2, <2>3, <2>4, <2>5, <2>6, SessionWriters, LinkWriters
<1>3. QED
  BY <1>1, <1>2, TypeCorrect, PTL DEF Spec
=============================================================================
