----------------------------- MODULE Connection -----------------------------
(***************************************************************************)
(* How the web client keeps its websocket: SocketManager.connect, the      *)
(* handlers of a socket, disconnect, ensureRealtimeReady and the check of  *)
(* a server's protocol (socket.ts, protocolCompatibility.ts,               *)
(* transportDiscovery.ts), against serveWs of the backend.  The handlers   *)
(* of every socket work on this.ws, whichever socket that is by then.      *)
(* What flows over an authenticated socket is in the other modules.        *)
(***************************************************************************)
EXTENDS Naturals, Sequences, FiniteSets

CONSTANTS Own, Relay,               \* appConfig.wsUrls; what /bootstrap may add
          Fast,                     \* SOCKET_FAST_RECONNECT_ATTEMPTS
          MaxTries, MaxSockets,     \* bounds: reconnectAttempts, sockets in a run
          MaxFaults, MaxWakes       \* bounds: servers going up or down, calls that want a link

Url == {Own[k] : k \in DOMAIN Own} \cup {Relay[k] : k \in DOMAIN Relay}

ASSUME ConnectionAssumption ==
  /\ Own \in Seq(Url) /\ Own # <<>> /\ Relay \in Seq(Url)
  /\ {Fast, MaxTries, MaxSockets, MaxFaults, MaxWakes} \subseteq Nat

VARIABLES mgr,       \* the SocketManager and its sockets
          up,        \* servers that answer
          faults, wakes,
          crossed,   \* the close event of one socket has reset the state of another
          stranded   \* a check failed while reconnectTimer held a timer that had fired

connectionVars == <<mgr, up, faults, wakes, crossed, stranded>>

Live == {"opening", "open", "mute", "answered", "wronged", "ready"}
Stages == Live \cup {"closing", "gone"}

\* The servers are up when the page opens, or not.
ConnectionInit ==
  /\ mgr = [ws |-> 0, socks |-> <<>>, armed |-> {}, handle |-> 0, manual |-> FALSE, tries |-> 0,
          authed |-> FALSE, status |-> "offline", compat |-> {}, checks |-> {},
          list |-> Own, seeking |-> FALSE, begun |-> FALSE]
  /\ up \in SUBSET Url
  /\ faults = 0 /\ wakes = 0 /\ crossed = FALSE /\ stranded = FALSE

-----------------------------------------------------------------------------
(* What the methods do to the manager s.                                   *)

Stage(s) == IF s.ws = 0 THEN "gone" ELSE s.socks[s.ws].at
At(s, i, stage) == [s EXCEPT !.socks[i].at = stage]
Target(s) == s.list[(s.tries % Len(s.list)) + 1]

\* Mutant: a socket that is still connecting is no reason to wait.
InUseOnceOpen(s) == Stage(s) \in Live \ {"opening"}

InUse(s) == Stage(s) \in Live

Connect(s) ==
  LET t == [s EXCEPT !.manual = FALSE, !.seeking = TRUE, !.begun = TRUE,
              !.status = IF s.tries >= Fast THEN "offline"
                         ELSE IF s.tries > 0 THEN "reconnecting" ELSE "connecting"] IN
  IF InUse(s) THEN s
  ELSE IF Target(s) \notin s.compat THEN [t EXCEPT !.checks = @ \cup {Target(s)}]
  ELSE [t EXCEPT !.socks = Append(@, [url |-> Target(s), at |-> "opening"]),
                 !.ws = Len(s.socks) + 1, !.authed = FALSE]

\* setTimeout: reconnectTimer is overwritten, a timer it held still runs.
Arm(s, kind) ==
  LET free == CHOOSE n \in 1..(Cardinality(s.armed) + 2) : n # s.handle /\ \A a \in s.armed : a.no # n IN
  [s EXCEPT !.armed = @ \cup {[no |-> free, kind |-> kind]}, !.handle = free, !.tries = @ + 1]

Disarm(s) == [s EXCEPT !.armed = {a \in @ : a.no # s.handle}, !.handle = 0]

CloseWs(s) == IF Stage(s) \in Live THEN At(s, s.ws, "closing") ELSE s

\* onclose of socket i.
Closed(s, i) ==
  LET t == [At(s, i, "gone") EXCEPT !.ws = 0, !.authed = FALSE] IN
  IF s.manual THEN [t EXCEPT !.status = "offline"]
  ELSE Arm([t EXCEPT !.status = IF s.tries >= Fast THEN "offline" ELSE "reconnecting"], "close")

Sets(s) == mgr' = s /\ s.tries <= MaxTries /\ Len(s.socks) <= MaxSockets
Same == UNCHANGED <<up, faults, wakes, crossed, stranded>>

-----------------------------------------------------------------------------
(* The page.                                                               *)

\* Chat is mounted with an identity.
Mount == ~mgr.begun /\ Sets(Connect(mgr)) /\ Same

\* ensureRealtimeReady and recoverTransport; they then wait, for a time.
Wake ==
  /\ mgr.begun /\ ~InUse(mgr)
  /\ wakes < MaxWakes /\ wakes' = wakes + 1
  /\ Sets(Connect(mgr))
  /\ UNCHANGED <<up, faults, crossed, stranded>>

\* Before the page is left, which the user may still refuse.
Disconnect ==
  /\ mgr.begun /\ ~mgr.manual
  /\ LET s == Disarm(mgr) IN
       Sets([CloseWs(s) EXCEPT !.ws = 0, !.authed = FALSE, !.manual = TRUE, !.status = "offline"])
  /\ Same

\* The callback of the check clears reconnectTimer, that of onclose does not.
Fire(a) ==
  LET s == [mgr EXCEPT !.armed = @ \ {a}] IN
  /\ Sets(Connect(IF a.kind = "check" THEN [s EXCEPT !.handle = 0] ELSE s))
  /\ Same

RetryCheck(s) == Arm(s, "check")

\* verifyWebSocketProtocol answers; a server that is down is incompatible.
CheckEnds(u) ==
  LET s == [mgr EXCEPT !.checks = @ \ {u}]
      t == [s EXCEPT !.status = "offline"]
      good == [s EXCEPT !.compat = @ \cup {u}] IN
  IF u \in up
  THEN Sets(IF mgr.manual THEN good ELSE Connect(good)) /\ Same
  ELSE /\ Sets(IF mgr.manual \/ mgr.handle # 0 THEN t ELSE RetryCheck(t))
       /\ stranded' = (stranded \/ (~mgr.manual /\ mgr.handle # 0 /\ \A a \in mgr.armed : a.no # mgr.handle))
       /\ UNCHANGED <<up, faults, wakes, crossed>>

\* resolveWebSocketUrls: the relays one of the own servers lists now.
DiscoveryEnds ==
  /\ mgr.seeking
  /\ \E list \in {Own, Own \o Relay} :
       /\ list # Own => \E k \in DOMAIN Own : Own[k] \in up
       /\ Sets([mgr EXCEPT !.seeking = FALSE, !.list = list])
  /\ Same

-----------------------------------------------------------------------------
(* The sockets.                                                            *)

OnOpen(i) ==
  /\ mgr.socks[i].at = "opening" /\ mgr.socks[i].url \in up
  /\ Sets(At(IF mgr.handle = 0 THEN mgr ELSE Disarm(mgr), i, "open"))
  /\ Same

\* The answer goes out on this.ws: there it is the wrong one, if it is awaited
\* at all, and the server of socket i waits in vain.
OnChallenge(i) ==
  /\ mgr.socks[i].at = "open"
  /\ Sets(IF mgr.ws = i THEN At(mgr, i, "answered")
          ELSE IF Stage(mgr) \in {"open", "mute"} THEN At(At(mgr, i, "mute"), mgr.ws, "wronged")
          ELSE At(mgr, i, "mute"))
  /\ Same

OnAuthSuccess(i) ==
  /\ mgr.socks[i].at = "answered"
  /\ Sets([At(mgr, i, "ready") EXCEPT !.authed = TRUE, !.tries = 0, !.status = "connected"])
  /\ Same

\* auth_error closes this.ws; the server closes socket i.
OnAuthError(i) ==
  /\ mgr.socks[i].at = "wronged"
  /\ Sets(CloseWs(At([mgr EXCEPT !.authed = FALSE, !.status = "offline"], i, "closing")))
  /\ Same

\* The close event, with an error event before it when the connection failed.
Closes(i, failed) ==
  LET s == IF failed THEN CloseWs([mgr EXCEPT !.status = "offline"]) ELSE mgr IN
  /\ Sets(Closed(s, i))
  /\ crossed' = (crossed \/ mgr.ws \notin {0, i})
  /\ UNCHANGED <<up, faults, wakes, stranded>>

SocketEnds(i) ==
  \/ mgr.socks[i].at \in {"closing", "mute"} /\ Closes(i, FALSE)
  \/ mgr.socks[i].at \in Live /\ mgr.socks[i].url \notin up /\ \E failed \in BOOLEAN : Closes(i, failed)

Fault(u) ==
  /\ faults < MaxFaults /\ faults' = faults + 1
  /\ up' = IF u \in up THEN up \ {u} ELSE up \cup {u}
  /\ UNCHANGED <<mgr, wakes, crossed, stranded>>

ConnectionNext ==
  \/ Mount \/ Wake \/ Disconnect \/ DiscoveryEnds
  \/ \E a \in mgr.armed : Fire(a)
  \/ \E u \in mgr.checks : CheckEnds(u)
  \/ \E i \in DOMAIN mgr.socks :
       OnOpen(i) \/ OnChallenge(i) \/ OnAuthSuccess(i) \/ OnAuthError(i) \/ SocketEnds(i)
  \/ \E u \in Url : Fault(u)

ConnectionSpec == ConnectionInit /\ [][ConnectionNext]_connectionVars

-----------------------------------------------------------------------------
ConnectionTypeOK ==
  /\ mgr.ws \in 0..Len(mgr.socks)
  /\ \A i \in DOMAIN mgr.socks : mgr.socks[i].url \in Url /\ mgr.socks[i].at \in Stages
  /\ \A a, b \in mgr.armed : a.no = b.no => a = b
  /\ mgr.status \in {"offline", "connecting", "reconnecting", "connected"}
  /\ {mgr.manual, mgr.authed, mgr.seeking, mgr.begun, crossed, stranded} \subseteq BOOLEAN
  /\ mgr.compat \cup mgr.checks \cup up \subseteq Url
  /\ mgr.list \in {Own, Own \o Relay}

\* Every socket that is alive is the one the manager uses, and it says it is
\* authenticated, or connected, only when that socket is, until the close
\* event of a socket it had given up resets the state of a later one.
SocketIsHeld ==
  crossed \/ (/\ \A i \in DOMAIN mgr.socks : mgr.socks[i].at \in Live => mgr.ws = i
              /\ mgr.authed => mgr.ws # 0 /\ mgr.socks[mgr.ws].at \in {"ready", "closing"}
              /\ mgr.status = "connected" => mgr.authed)

\* A page that has not disconnected always has a socket, a check or a timer
\* from which it will connect again, unless a check failed while
\* reconnectTimer held a timer that had fired.
KeepsTrying ==
  (mgr.begun /\ ~mgr.manual /\ ~stranded) =>
     \/ mgr.checks # {} \/ mgr.armed # {}
     \/ \E i \in DOMAIN mgr.socks : mgr.socks[i].at # "gone"

\* The client holds on to the link it has, and to the attempt to have one.
LinkIsHeld == SocketIsHeld /\ KeepsTrying
=============================================================================
