------------------------------- MODULE Calls -------------------------------
(***************************************************************************)
(* One-to-one calls of the web client: CallOverlay.tsx, the state of the   *)
(* overlay and its timers, and WebRTCManager (webrtc.ts), the connection   *)
(* and the microphone of a call.  A step is what runs between two awaits.  *)
(*                                                                         *)
(* A session description is the manager that made it, and so is the one    *)
(* candidate each manager gathers.  Signals between two clients keep their *)
(* order; the server drops them when the recipient is away.  Media modes,  *)
(* screen sharing, status texts and the call history are left out.         *)
(***************************************************************************)
EXTENDS Naturals, Sequences, FiniteSets

CONSTANTS
  Client,      \* clients, each with one overlay
  Nobody,      \* null in callPeerRef and the timers
  MaxCalls,    \* bound: start and accept clicks
  MaxDrops     \* bound: lost sockets

ASSUME CallsAssumption == Nobody \notin Client /\ {MaxCalls, MaxDrops} \subseteq Nat

Manager == Nat \ {0}     \* an index into rtc; 0 is null
Signal == [type : {"offer", "answer", "reject", "end", "candidate"}, mgr : Nat]
Timer == [to : Client, gen : Nat]  \* gen 0: not guarded by a generation

VARIABLES
  ui,      \* [Client -> overlay]: callState, callGenerationRef, callPeerRef, incomingSDP,
           \*   rtcManagerRef, callTimeoutRef, connectTimeoutRef
  early,   \* [Client -> SUBSET (Client \X Manager)] pendingRemoteCandidatesRef
  rtc,     \* Seq of WebRTCManager, in the order they were made
  tasks,   \* [Client -> SUBSET task]: handlers waiting at an await
  wire,    \* [Client -> [Client -> Seq(Signal)]] signals under way
  ready,   \* [Client -> BOOLEAN] isRealtimeReady
  heard,   \* [Client -> SUBSET Manager]: whose candidate reached the overlay
  raced,   \* [Client -> BOOLEAN]: a call was reset or started while one was being set up
  clicks, drops

callVars == <<ui, early, rtc, tasks, wire, ready, heard, raced, clicks, drops>>

-----------------------------------------------------------------------------
Idle(gen) == [state |-> "idle", gen |-> gen, peer |-> Nobody, sdp |-> 0, mgr |-> 0,
              ring |-> Nobody, conn |-> Nobody]

\* createRtcManager, with createPeerConnection of startCall and handleOffer.
NewManager(p, q, gen) ==
  [owner |-> p, peer |-> q, gen |-> gen, pc |-> TRUE, mic |-> FALSE, sdp |-> FALSE,
   remote |-> 0, state |-> "new", pending |-> {}, added |-> {}, gathered |-> FALSE]

\* Mutant: the tracks are not stopped.
EndCallKeepsMic(r) == [r EXCEPT !.pc = FALSE, !.remote = 0, !.pending = {}]

\* WebRTCManager.endCall: a setup that is waiting goes on without a connection.
EndCall(r) == [r EXCEPT !.pc = FALSE, !.mic = FALSE, !.remote = 0, !.pending = {}]

EndManager(m, s) == IF m = 0 THEN s ELSE [s EXCEPT ![m] = EndCall(@)]

Post(p, q, s) ==
  IF ready[p] /\ ready[q] THEN [wire EXCEPT ![p][q] = Append(@, s)] ELSE wire

Say(p, q, type) == Post(p, q, [type |-> type, mgr |-> 0])

\* resetCallState, with rtc as the caller leaves it and the other handlers waiting.
ResetCall(p, managers, waiting) ==
  /\ ui' = [ui EXCEPT ![p] = Idle(@.gen + 1)]
  /\ rtc' = EndManager(ui[p].mgr, managers)
  /\ early' = [early EXCEPT ![p] = {}]
  /\ raced' = [raced EXCEPT ![p] = @ \/ waiting # {}]

Task(kind, step, peer, sdp, mgr, gen) ==
  [kind |-> kind, step |-> step, peer |-> peer, sdp |-> sdp, mgr |-> mgr, gen |-> gen]

Move(p, t, step) == tasks' = [tasks EXCEPT ![p] = (@ \ {t}) \cup {[t EXCEPT !.step = step]}]

Drop(p, t) == tasks' = [tasks EXCEPT ![p] = @ \ {t}]

\* The catch of handleStartCallAction and of handleAccept.
Fails(p, t, managers) ==
  /\ Drop(p, t)
  /\ wire' = IF t.kind = "accept" THEN Say(p, t.peer, "reject") ELSE wire
  /\ ResetCall(p, managers, tasks[p] \ {t})
  /\ UNCHANGED <<ready, heard, clicks, drops>>

-----------------------------------------------------------------------------
CallsInit ==
  /\ ui = [p \in Client |-> Idle(1)]
  /\ early = [p \in Client |-> {}]
  /\ rtc = <<>>
  /\ tasks = [p \in Client |-> {}]
  /\ wire = [p \in Client |-> [q \in Client |-> <<>>]]
  /\ ready = [p \in Client |-> TRUE]
  /\ heard = [p \in Client |-> {}]
  /\ raced = [p \in Client |-> FALSE]
  /\ clicks = 0 /\ drops = 0

\* The call button of a chat and the retry button are there while no overlay is.
ClickCall(p, q) ==
  /\ q # p /\ ui[p].state = "idle" /\ clicks < MaxCalls
  /\ clicks' = clicks + 1
  /\ tasks' = [tasks EXCEPT ![p] = @ \cup {Task("start", "recover", q, 0, 0, clicks)}]
  /\ UNCHANGED <<ui, early, rtc, wire, ready, heard, raced, drops>>

\* handleAccept up to recoverTransport; offers without media were rejected.
ClickAccept(p) ==
  /\ ui[p].state = "incoming" /\ clicks < MaxCalls
  /\ clicks' = clicks + 1
  /\ tasks' = [tasks EXCEPT ![p] = @ \cup {Task("accept", "recover", ui[p].peer, ui[p].sdp, 0, clicks)}]
  /\ UNCHANGED <<ui, early, rtc, wire, ready, heard, raced, drops>>

\* recoverTransport is back: a new generation and its manager.
Recovered(p, t) ==
  /\ t.step = "recover"
  /\ IF ready[p]
     THEN LET g == ui[p].gen + 1
              m == Len(rtc) + 1 IN
            /\ ui' = [ui EXCEPT ![p] =
                        [@ EXCEPT !.gen = g, !.peer = t.peer, !.mgr = m,
                           !.state = IF t.kind = "start" THEN "outgoing" ELSE "active",
                           !.ring = IF t.kind = "start" THEN ui[p].ring ELSE Nobody]]
            /\ rtc' = Append(rtc, NewManager(p, t.peer, g))
            /\ tasks' = [tasks EXCEPT ![p] =
                           (@ \ {t}) \cup {[t EXCEPT !.step = "media", !.mgr = m, !.gen = g]}]
            /\ raced' = [raced EXCEPT ![p] = @ \/ ui[p].mgr # 0 \/ tasks[p] # {t}]
            /\ UNCHANGED <<early, wire, ready, heard, clicks, drops>>
     ELSE Fails(p, t, rtc)

\* getUserMedia settles; the manager may have been ended meanwhile.
MicGranted(p, t) ==
  /\ t.step = "media"
  /\ rtc' = [rtc EXCEPT ![t.mgr].mic = TRUE]
  /\ Move(p, t, "negotiate")
  /\ UNCHANGED <<ui, early, wire, ready, heard, raced, clicks, drops>>

MicDenied(p, t) ==
  /\ t.step = "media"
  /\ Fails(p, t, rtc)

\* Mutant: candidates that came early stay where they are.
FlushNot(r) == r

\* flushPendingCandidates: what came before the remote description is added now.
Flush(r) == [r EXCEPT !.added = @ \cup r.pending, !.pending = {}]

\* The descriptions that startCall makes, and handleOffer after the one it was given.
Described(t) ==
  IF t.kind = "start" THEN [rtc[t.mgr] EXCEPT !.sdp = TRUE]
  ELSE Flush([rtc[t.mgr] EXCEPT !.sdp = TRUE, !.remote = t.sdp])

\* createOffer or createAnswer and its signal, then the check of the generation.
Negotiated(p, t) ==
  /\ t.step = "negotiate"
  /\ IF rtc[t.mgr].pc /\ ready[p]
     THEN LET done == [rtc EXCEPT ![t.mgr] = Described(t)] IN
            /\ wire' = Post(p, t.peer, [type |-> IF t.kind = "start" THEN "offer" ELSE "answer",
                                        mgr |-> t.mgr])
            /\ IF ui[p].gen = t.gen
               THEN /\ Move(p, t, "attach")
                    /\ LET mine == {c \in early[p] : c[1] = t.peer /\ t.kind = "accept"} IN
                         /\ rtc' = [done EXCEPT ![t.mgr].added = @ \cup {c[2] : c \in mine}]
                         /\ early' = [early EXCEPT ![p] = @ \ mine]
               ELSE /\ Drop(p, t)
                    /\ rtc' = EndManager(ui[p].mgr, done)
                    /\ UNCHANGED early
            /\ UNCHANGED <<ui, ready, heard, raced, clicks, drops>>
     ELSE Fails(p, t, rtc)

\* play() is back: the timers start, whatever happened meanwhile.
Attached(p, t) ==
  /\ t.step = "attach"
  /\ LET timer == [to |-> t.peer, gen |-> t.gen] IN
       ui' = [ui EXCEPT ![p].conn = timer,
                        ![p].ring = IF t.kind = "start" THEN timer ELSE @]
  /\ Drop(p, t)
  /\ UNCHANGED <<early, rtc, wire, ready, heard, raced, clicks, drops>>

\* handleEndCall and handleRejectCall.
HangUp(p) ==
  /\ ui[p].state # "idle"
  /\ wire' = Say(p, ui[p].peer, IF ui[p].state = "incoming" THEN "reject" ELSE "end")
  /\ ResetCall(p, rtc, tasks[p])
  /\ UNCHANGED <<tasks, ready, heard, clicks, drops>>

\* The callbacks of callTimeoutRef; that of an incoming call checks nothing.
RingTimeout(p) ==
  /\ ui[p].ring # Nobody
  /\ LET r == ui[p].ring IN
       IF r.gen \in {0, ui[p].gen}
       THEN /\ wire' = Say(p, r.to, IF r.gen = 0 THEN "reject" ELSE "end")
            /\ ResetCall(p, rtc, tasks[p])
       ELSE /\ ui' = [ui EXCEPT ![p].ring = Nobody]
            /\ UNCHANGED <<early, rtc, wire, raced>>
  /\ UNCHANGED <<tasks, ready, heard, clicks, drops>>

ConnectTimeout(p) ==
  /\ ui[p].conn # Nobody
  /\ IF ui[p].conn.gen = ui[p].gen
     THEN /\ wire' = Say(p, ui[p].conn.to, "end")
          /\ ResetCall(p, rtc, tasks[p])
     ELSE /\ ui' = [ui EXCEPT ![p].conn = Nobody]
          /\ UNCHANGED <<early, rtc, wire, raced>>
  /\ UNCHANGED <<tasks, ready, heard, clicks, drops>>

-----------------------------------------------------------------------------
(* onSignal: the next signal from q at p.                                  *)

Take(p, q, type) == wire[q][p] # <<>> /\ Head(wire[q][p]).type = type

Rest(p, q) == [wire EXCEPT ![q][p] = Tail(@)]

\* Mutant: an incoming call rings without a limit.
OnOfferUntimed(p, q) ==
  /\ Take(p, q, "offer") /\ ui[p].state = "idle"
  /\ ui' = [ui EXCEPT ![p] = [@ EXCEPT !.state = "incoming", !.peer = q,
                 !.sdp = Head(wire[q][p]).mgr]]
  /\ wire' = Rest(p, q)
  /\ UNCHANGED <<early, rtc, tasks, ready, heard, raced, clicks, drops>>

\* An overlay that is not idle answers busy.
OnOffer(p, q) ==
  /\ Take(p, q, "offer")
  /\ IF ui[p].state = "idle"
     THEN /\ ui' = [ui EXCEPT ![p] = [@ EXCEPT !.state = "incoming", !.peer = q,
                      !.sdp = Head(wire[q][p]).mgr, !.ring = [to |-> q, gen |-> 0]]]
          /\ wire' = Rest(p, q)
     ELSE /\ wire' = IF ready[p] /\ ready[q]
                     THEN [Rest(p, q) EXCEPT ![p][q] = Append(@, [type |-> "reject", mgr |-> 0])]
                     ELSE Rest(p, q)
          /\ UNCHANGED ui
  /\ UNCHANGED <<early, rtc, tasks, ready, heard, raced, clicks, drops>>

\* handleAnswer; a manager without an offer of its own refuses the description.
OnAnswer(p, q) ==
  /\ Take(p, q, "answer")
  /\ wire' = Rest(p, q)
  /\ IF ui[p].state = "outgoing" /\ ui[p].mgr # 0 /\ ui[p].peer = q
     THEN LET m == ui[p].mgr IN
            /\ ui' = [ui EXCEPT ![p].ring = Nobody]
            /\ rtc' = IF rtc[m].pc /\ rtc[m].sdp /\ rtc[m].remote = 0
                      THEN [rtc EXCEPT ![m] = Flush([@ EXCEPT !.remote = Head(wire[q][p]).mgr])]
                      ELSE rtc
     ELSE UNCHANGED <<ui, rtc>>
  /\ UNCHANGED <<early, tasks, ready, heard, raced, clicks, drops>>

\* call_reject and call_end name no call: they end whatever there is with q.
OnEnd(p, q) ==
  /\ Take(p, q, "reject") \/ Take(p, q, "end")
  /\ wire' = Rest(p, q)
  /\ IF ui[p].peer = q THEN ResetCall(p, rtc, tasks[p]) ELSE UNCHANGED <<ui, early, rtc, raced>>
  /\ UNCHANGED <<tasks, ready, heard, clicks, drops>>

\* handleCandidate.
AddCandidate(r, c) ==
  IF r.pc /\ r.remote # 0 THEN [r EXCEPT !.added = @ \cup {c}]
  ELSE [r EXCEPT !.pending = @ \cup {c}]

OnCandidate(p, q) ==
  /\ Take(p, q, "candidate")
  /\ wire' = Rest(p, q)
  /\ LET c == Head(wire[q][p]).mgr
         m == ui[p].mgr IN
       IF ui[p].peer # q THEN UNCHANGED <<early, rtc, heard>>
       ELSE /\ heard' = [heard EXCEPT ![p] = @ \cup {c}]
            /\ early' = IF m = 0 THEN [early EXCEPT ![p] = @ \cup {<<q, c>>}] ELSE early
            /\ rtc' = IF m = 0 THEN rtc ELSE [rtc EXCEPT ![m] = AddCandidate(@, c)]
  /\ UNCHANGED <<ui, tasks, ready, raced, clicks, drops>>

-----------------------------------------------------------------------------
(* The browser's connection, and the socket.                               *)

\* onicecandidate.
Gathers(m) ==
  /\ rtc[m].pc /\ rtc[m].sdp /\ ~rtc[m].gathered
  /\ rtc' = [rtc EXCEPT ![m].gathered = TRUE]
  /\ wire' = Post(rtc[m].owner, rtc[m].peer, [type |-> "candidate", mgr |-> m])
  /\ UNCHANGED <<ui, early, tasks, ready, heard, raced, clicks, drops>>

\* Two ends that have each other's descriptions.
Paired(m) ==
  LET r == rtc[m].remote IN
    r # 0 /\ rtc[m].pc /\ rtc[r].pc /\ rtc[r].remote = m

\* connectionState connected; only the manager of the current generation counts.
Connects(m) ==
  /\ Paired(m) /\ rtc[m].state = "new"
  /\ rtc' = [rtc EXCEPT ![m].state = "connected"]
  /\ LET p == rtc[m].owner IN
       ui' = IF ui[p].gen = rtc[m].gen
             THEN [ui EXCEPT ![p].state = "active", ![p].conn = Nobody]
             ELSE ui
  /\ UNCHANGED <<early, tasks, wire, ready, heard, raced, clicks, drops>>

\* connectionState disconnected or failed: the other end is gone or another one.
Breaks(m) ==
  /\ rtc[m].pc /\ rtc[m].remote # 0 /\ ~Paired(m) /\ rtc[m].state # "failed"
  /\ rtc[m].state = "connected" \/ ~rtc[rtc[m].remote].pc
  /\ LET p == rtc[m].owner
         broken == [rtc EXCEPT ![m].state = "failed"] IN
       IF ui[p].gen = rtc[m].gen
       THEN ResetCall(p, broken, tasks[p])
       ELSE rtc' = broken /\ UNCHANGED <<ui, early, raced>>
  /\ UNCHANGED <<tasks, wire, ready, heard, clicks, drops>>

\* socket_disconnected: signals to and from the client are lost with it.
SocketDrops(p) ==
  /\ ready[p] /\ drops < MaxDrops
  /\ drops' = drops + 1
  /\ ready' = [ready EXCEPT ![p] = FALSE]
  /\ wire' = [q \in Client |-> [r \in Client |-> IF p \in {q, r} THEN <<>> ELSE wire[q][r]]]
  /\ IF ui[p].state # "idle" THEN ResetCall(p, rtc, tasks[p]) ELSE UNCHANGED <<ui, early, rtc, raced>>
  /\ UNCHANGED <<tasks, heard, clicks>>

SocketReturns(p) ==
  /\ ~ready[p]
  /\ ready' = [ready EXCEPT ![p] = TRUE]
  /\ UNCHANGED <<ui, early, rtc, tasks, wire, heard, raced, clicks, drops>>

-----------------------------------------------------------------------------
Continue(p) ==
  \E t \in tasks[p] : Recovered(p, t) \/ MicGranted(p, t) \/ Negotiated(p, t) \/ Attached(p, t)

OnSignal(p, q) == OnOffer(p, q) \/ OnAnswer(p, q) \/ OnEnd(p, q) \/ OnCandidate(p, q)

CallsNext ==
  \/ \E p, q \in Client : ClickCall(p, q) \/ OnSignal(p, q)
  \/ \E p \in Client :
       \/ ClickAccept(p) \/ Continue(p) \/ HangUp(p) \/ RingTimeout(p) \/ ConnectTimeout(p)
       \/ SocketDrops(p) \/ SocketReturns(p)
       \/ \E t \in tasks[p] : MicDenied(p, t)
  \/ \E m \in DOMAIN rtc : Gathers(m) \/ Connects(m) \/ Breaks(m)

CallsSpec == CallsInit /\ [][CallsNext]_callVars

-----------------------------------------------------------------------------
CallsTypeOK ==
  /\ \A p \in Client :
       /\ ui[p].state \in {"idle", "incoming", "outgoing", "active"}
       /\ ui[p].peer \in Client \cup {Nobody}
       /\ ui[p].sdp \in 0 .. Len(rtc) /\ ui[p].mgr \in 0 .. Len(rtc)
       /\ {ui[p].ring, ui[p].conn} \subseteq Timer \cup {Nobody}
       /\ early[p] \subseteq Client \X DOMAIN rtc /\ heard[p] \subseteq DOMAIN rtc
       /\ \A q \in Client : wire[p][q] \in Seq(Signal)
       /\ ui[p].state = "idle" => ui[p].peer = Nobody
  /\ \A m \in DOMAIN rtc : rtc[m].owner \in Client /\ rtc[m].pc \in BOOLEAN

\* A candidate that reached the overlay during a call is used by the
\* connection it is for, whether it came before the call was accepted, before
\* the remote description was set, or later.
CandidatesKept ==
  \A p \in Client : LET m == ui[p].mgr IN
    (m # 0 /\ rtc[m].pc /\ rtc[m].remote \in heard[p] /\ ~raced[p])
      => rtc[m].remote \in rtc[m].added

\* An idle overlay holds no microphone, unless a call was reset while it was
\* still being set up: then getUserMedia hands its stream to an ended manager.
MicReleased ==
  \A p \in Client : ui[p].state = "idle" /\ tasks[p] = {} /\ ~raced[p] =>
    \A m \in DOMAIN rtc : rtc[m].owner = p => ~rtc[m].mic

Talks(p) == ui[p].state = "active" /\ ui[p].mgr # 0 /\ rtc[ui[p].mgr].state = "connected"

\* Handlers go on, timers fire, signals arrive, the socket reconnects and a
\* connection is made or given up: not all of this stops while any is due.
CallsFairness ==
  WF_callVars(\/ \E p \in Client : \/ Continue(p) \/ RingTimeout(p) \/ ConnectTimeout(p)
                                 \/ SocketReturns(p) \/ \E q \in Client : OnSignal(p, q)
              \/ \E m \in DOMAIN rtc : Connects(m) \/ Breaks(m))

\* No overlay rings or connects for ever: in the end, when the users have
\* clicked for the last time, each is idle or talks, unless two setups overlapped.
CallsSettle == <>[](\A p \in Client : ui[p].state = "idle" \/ Talks(p) \/ raced[p])
=============================================================================
