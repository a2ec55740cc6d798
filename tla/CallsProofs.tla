---------------------------- MODULE CallsProofs ----------------------------
(***************************************************************************)
(* What the runs check of the calls holds for any clients, however often   *)
(* they call and lose their sockets: the types, that no candidate is lost  *)
(* between the overlay's buffer and the manager's (CandidatesKept), and    *)
(* that no ended call keeps the microphone (MicReleased).                  *)
(*                                                                         *)
(* The steps are many and their effects few: the lemmas ...Effect bring    *)
(* every action down to one of the effects defined here, ...Wire down to   *)
(* what happens to a queue of signals, and each part of CallsInv is then   *)
(* kept by each effect (the lemmas ...Step).                               *)
(***************************************************************************)
EXTENDS Calls, TLAPS

-----------------------------------------------------------------------------
(* The types of the fields, and the inductive invariant.                   *)

Overlay == [state : {"idle", "incoming", "outgoing", "active"}, gen : Nat, peer : Client \cup {Nobody},
            sdp : Nat, mgr : Nat, ring : Timer \cup {Nobody}, conn : Timer \cup {Nobody}]
Rtc == [owner : Client, peer : Client, gen : Nat, pc : BOOLEAN, mic : BOOLEAN, sdp : BOOLEAN, remote : Nat,
        state : {"new", "connected", "failed"}, pending : SUBSET Nat, added : SUBSET Nat, gathered : BOOLEAN]
Setup == [kind : {"start", "accept"}, step : {"recover", "media", "negotiate", "attach"}, peer : Client,
          sdp : Nat, mgr : Nat, gen : Nat]

OverlaysTyped ==
  /\ ui \in [Client -> Overlay]
  /\ \A p \in Client :
       /\ ui[p].sdp \in 0 .. Len(rtc) /\ ui[p].mgr \in 0 .. Len(rtc)
       /\ ui[p].state = "idle" <=> ui[p].peer = Nobody
       /\ ui[p].state \in {"idle", "incoming"} => ui[p].mgr = 0

ManagersTyped == rtc \in Seq(Rtc)

\* A setup past recoverTransport has a manager.
SetupsTyped ==
  /\ tasks \in [Client -> SUBSET Setup]
  /\ \A p \in Client : \A t \in tasks[p] :
       /\ t.sdp \in 0 .. Len(rtc)
       /\ t.step # "recover" => t.mgr \in 1 .. Len(rtc) /\ rtc[t.mgr].owner = p

WireTyped == wire \in [Client -> [Client -> Seq(Signal)]]

HearingTyped ==
  /\ ready \in [Client -> BOOLEAN] /\ raced \in [Client -> BOOLEAN] /\ clicks \in Nat
  /\ early \in [Client -> SUBSET (Client \X (1 .. Len(rtc)))]
  /\ heard \in [Client -> SUBSET (1 .. Len(rtc))]

CallsTyped == OverlaysTyped /\ ManagersTyped /\ SetupsTyped /\ WireTyped /\ HearingTyped

\* The overlay and the manager it holds are of one generation, and no other
\* manager of the client is.
GensAgree ==
  \A m \in 1 .. Len(rtc) : LET p == rtc[m].owner IN
    /\ rtc[m].gen <= ui[p].gen
    /\ rtc[m].gen = ui[p].gen => ui[p].mgr = m
HoldsOwn ==
  \A p \in Client : ui[p].mgr # 0 => rtc[ui[p].mgr].owner = p /\ rtc[ui[p].mgr].gen = ui[p].gen

\* A manager that is being set up has made no description and gathered nothing.
Fresh(r) == ~r.sdp /\ ~r.gathered /\ r.remote = 0
SettingUp == {"media", "negotiate"}
SetupsAreFresh ==
  /\ \A p \in Client : \A t \in tasks[p] : t.step \in SettingUp => Fresh(rtc[t.mgr])
  /\ \A p \in Client : \A t, u \in tasks[p] : {t.step, u.step} \subseteq SettingUp /\ t.mgr = u.mgr => t = u
GatheredIsDescribed == \A m \in 1 .. Len(rtc) : rtc[m].gathered => rtc[m].sdp

\* Unless setups overlapped, the overlay shows the call that is being set up.
SetupIsShown(p) ==
  ~raced[p] => \A t \in tasks[p] :
    IF t.step = "recover"
    THEN t.kind = "accept" => ui[p].state = "incoming" /\ ui[p].peer = t.peer /\ ui[p].sdp = t.sdp
    ELSE tasks[p] = {t} /\ ui[p].mgr = t.mgr /\ ui[p].gen = t.gen /\ ui[p].peer = t.peer

SetupsAreShown == \A p \in Client : SetupIsShown(p)

\* Only the manager in the overlay has the microphone.
MicIsHeld ==
  \A m \in 1 .. Len(rtc) : LET p == rtc[m].owner IN ~raced[p] /\ rtc[m].mic => ui[p].mgr = m

\* A description comes before the candidate of its manager, and whoever is to
\* read it, having heard the candidates h, has not heard that one yet.
InLine(r, w, q, h) ==
  \A i \in 1 .. Len(w) :
    /\ w[i].type \in {"offer", "answer", "candidate"} => w[i].mgr \in 1 .. Len(r) /\ r[w[i].mgr].owner = q
    /\ w[i].type = "candidate" => r[w[i].mgr].gathered
    /\ w[i].type \in {"offer", "answer"} =>
         /\ w[i].mgr \notin h
         /\ \A j \in 1 .. i : w[j].type = "candidate" => w[j].mgr # w[i].mgr
WireInOrder == \A p, q \in Client : InLine(rtc, wire[q][p], q, heard[p])
HeardIsGathered == \A p \in Client : \A c \in heard[p] : rtc[c].gathered

\* What was heard of the offer shown, or of the one being accepted, waits in
\* the overlay or in the manager that will accept it.
EarlyIsKept(p) ==
  ~raced[p] =>
    /\ ui[p].state = "incoming" /\ ui[p].sdp \in heard[p] => <<ui[p].peer, ui[p].sdp>> \in early[p]
    /\ \A t \in tasks[p] : t.step \in SettingUp /\ t.kind = "accept" /\ t.sdp \in heard[p] =>
         <<t.peer, t.sdp>> \in early[p] \/ t.sdp \in rtc[t.mgr].pending

EarlyAreKept == \A p \in Client : EarlyIsKept(p)

CallsInv ==
  /\ CallsTyped /\ GensAgree /\ HoldsOwn /\ SetupsAreFresh /\ GatheredIsDescribed
  /\ SetupsAreShown /\ MicIsHeld /\ WireInOrder /\ HeardIsGathered /\ EarlyAreKept /\ CandidatesKept

-----------------------------------------------------------------------------
(* What the steps do to the overlays and the managers.                     *)

\* The same call is shown, though its timers or its wording may differ.
SameCall(v, u) ==
  /\ v.gen = u.gen /\ v.peer = u.peer /\ v.sdp = u.sdp /\ v.mgr = u.mgr
  /\ v.state = "idle" <=> u.state = "idle"
  /\ v.state = "incoming" <=> u.state = "incoming"

\* The same manager, whose description and candidate are as they were.
SameManager(s, r) == s.owner = r.owner /\ s.gen = r.gen /\ s.sdp = r.sdp /\ s.gathered = r.gathered

\* Its connection is as it was.
SameLink(s, r) == s.pc = r.pc /\ s.remote = r.remote /\ s.pending = r.pending /\ s.added = r.added

FewerSetups == tasks' \in [Client -> SUBSET Setup] /\ \A p \in Client : tasks'[p] \subseteq tasks[p]

\* Nothing that the properties speak of changes; a setup may be over.
Unmoved ==
  /\ ui' \in [Client -> Overlay] /\ \A p \in Client : SameCall(ui'[p], ui[p])
  /\ rtc' \in Seq(Rtc) /\ Len(rtc') = Len(rtc)
  /\ \A m \in 1 .. Len(rtc) : SameManager(rtc'[m], rtc[m]) /\ SameLink(rtc'[m], rtc[m]) /\ rtc'[m].mic = rtc[m].mic
  /\ FewerSetups /\ UNCHANGED <<early, raced, heard>>

\* The call of p is reset: an idle overlay of a new generation, its manager ended.
Cut(p) ==
  /\ ui' = [ui EXCEPT ![p] = Idle(ui[p].gen + 1)]
  /\ early' = [early EXCEPT ![p] = {}]
  /\ raced' = [raced EXCEPT ![p] = @ \/ tasks'[p] # {}]
  /\ rtc' \in Seq(Rtc) /\ Len(rtc') = Len(rtc)
  /\ \A m \in 1 .. Len(rtc) :
       /\ SameManager(rtc'[m], rtc[m])
       /\ IF m = ui[p].mgr THEN ~rtc'[m].mic /\ rtc'[m].remote = 0
                           ELSE SameLink(rtc'[m], rtc[m]) /\ rtc'[m].mic = rtc[m].mic
  /\ FewerSetups /\ UNCHANGED heard

\* EndCall leaves everything but the connection and the microphone.
LEMMA EndCallFields ==
  ASSUME NEW r \in Rtc
  PROVE  /\ EndCall(r) \in Rtc /\ SameManager(EndCall(r), r)
         /\ ~EndCall(r).mic /\ ~EndCall(r).pc /\ EndCall(r).remote = 0
<1>1. [r EXCEPT !.pc = FALSE] \in Rtc
  BY DEF Rtc
<1>2. [[r EXCEPT !.pc = FALSE] EXCEPT !.mic = FALSE] \in Rtc
  BY <1>1 DEF Rtc
<1>3. [[[r EXCEPT !.pc = FALSE] EXCEPT !.mic = FALSE] EXCEPT !.remote = 0] \in Rtc
  BY <1>2 DEF Rtc
<1>4. [[[[r EXCEPT !.pc = FALSE] EXCEPT !.mic = FALSE] EXCEPT !.remote = 0] EXCEPT !.pending = {}] \in Rtc
  BY <1>3 DEF Rtc
<1>5. EndCall(r) = [[[[r EXCEPT !.pc = FALSE] EXCEPT !.mic = FALSE] EXCEPT !.remote = 0] EXCEPT !.pending = {}]
  BY DEF EndCall
<1>6. SameManager(EndCall(r), r) /\ ~EndCall(r).mic /\ ~EndCall(r).pc /\ EndCall(r).remote = 0
  BY DEF EndCall, SameManager, Rtc
<1>7. QED
  BY <1>4, <1>5, <1>6

\* EndManager ends the manager that the overlay holds and no other.
LEMMA EndManagerFields ==
  ASSUME NEW s \in Seq(Rtc), NEW n \in 0 .. Len(s)
  PROVE  /\ EndManager(n, s) \in Seq(Rtc) /\ Len(EndManager(n, s)) = Len(s)
         /\ \A m \in 1 .. Len(s) :
              IF m = n THEN EndManager(n, s)[m] = EndCall(s[m]) ELSE EndManager(n, s)[m] = s[m]
<1>1. CASE n = 0
  BY <1>1 DEF EndManager
<1>2. CASE n # 0
  <2>1. n \in 1 .. Len(s) /\ EndManager(n, s) = [s EXCEPT ![n] = EndCall(s[n])]
    BY <1>2 DEF EndManager
  <2>2. EndCall(s[n]) \in Rtc
    BY <2>1, EndCallFields
  <2>3. QED
    BY <2>1, <2>2
<1>3. QED
  BY <1>1, <1>2

\* resetCallState is a cut, whatever became of the states of the connections.
LEMMA ResetCuts ==
  ASSUME CallsTyped, NEW p \in Client, NEW s \in Seq(Rtc), Len(s) = Len(rtc),
         \A m \in 1 .. Len(rtc) : SameManager(s[m], rtc[m]) /\ SameLink(s[m], rtc[m]) /\ s[m].mic = rtc[m].mic,
         ResetCall(p, s, tasks'[p]), FewerSetups, heard' = heard
  PROVE  Cut(p)
<1>1. ui[p].mgr \in 0 .. Len(s)
  BY DEF CallsTyped, OverlaysTyped
<1>2. rtc' = EndManager(ui[p].mgr, s)
  BY DEF ResetCall
<1>3. rtc' \in Seq(Rtc) /\ Len(rtc') = Len(rtc)
  BY <1>1, <1>2, EndManagerFields
<1>4. ASSUME NEW m \in 1 .. Len(rtc)
      PROVE  /\ SameManager(rtc'[m], rtc[m])
             /\ IF m = ui[p].mgr THEN ~rtc'[m].mic /\ rtc'[m].remote = 0
                                 ELSE SameLink(rtc'[m], rtc[m]) /\ rtc'[m].mic = rtc[m].mic
  <2>1. s[m] \in Rtc
    BY <1>4
  <2>2. CASE m = ui[p].mgr
    <3>1. rtc'[m] = EndCall(s[m])
      BY <1>1, <1>2, <2>2, EndManagerFields
    <3>2. QED
      BY <2>1, <2>2, <3>1, EndCallFields DEF SameManager
  <2>3. CASE m # ui[p].mgr
    <3>1. rtc'[m] = s[m]
      BY <1>1, <1>2, <2>3, EndManagerFields
    <3>2. QED
      BY <2>3, <3>1
  <2>4. QED
    BY <2>2, <2>3
<1>5. QED
  BY <1>3, <1>4 DEF ResetCall, Cut

\* A manager and its connection are like themselves.
LEMMA SameManagers ==
  ASSUME CallsTyped
  PROVE  /\ rtc \in Seq(Rtc)
         /\ \A m \in 1 .. Len(rtc) : SameManager(rtc[m], rtc[m]) /\ SameLink(rtc[m], rtc[m]) /\ rtc[m].mic = rtc[m].mic
BY DEF CallsTyped, ManagersTyped, SameManager, SameLink

\* An overlay shows what it shows.
LEMMA SameOverlays == ASSUME CallsTyped PROVE \A p \in Client : SameCall(ui[p], ui[p])
BY DEF SameCall

\* Every way out of a call is a cut.
LEMMA FailsCuts ==
  ASSUME CallsTyped, NEW p \in Client, NEW t \in tasks[p], Fails(p, t, rtc) PROVE Cut(p)
<1>1. tasks' = [tasks EXCEPT ![p] = @ \ {t}] /\ tasks \in [Client -> SUBSET Setup] /\ heard' = heard
  BY DEF Fails, Drop, CallsTyped, SetupsTyped
<1>2. FewerSetups /\ tasks'[p] = tasks[p] \ {t}
  BY <1>1 DEF FewerSetups
<1>3. ResetCall(p, rtc, tasks'[p])
  BY <1>2 DEF Fails
<1>4. QED
  BY <1>1, <1>2, <1>3, SameManagers, ResetCuts

\* ResetCall of the managers as they are cuts the call.
LEMMA PlainResetCuts ==
  ASSUME CallsTyped, NEW p \in Client, ResetCall(p, rtc, tasks[p]), UNCHANGED <<tasks, heard>> PROVE Cut(p)
<1>1. FewerSetups /\ tasks'[p] = tasks[p]
  BY DEF FewerSetups, CallsTyped, SetupsTyped
<1>2. QED
  BY <1>1, SameManagers, ResetCuts

\* A step that touches neither overlay, manager nor setup is quiet.
LEMMA NothingIsQuiet ==
  ASSUME CallsTyped, UNCHANGED <<ui, early, rtc, tasks, heard, raced>> PROVE Unmoved
<1>1. FewerSetups /\ ui' \in [Client -> Overlay] /\ rtc' \in Seq(Rtc)
  BY DEF FewerSetups, CallsTyped, SetupsTyped, OverlaysTyped, ManagersTyped
<1>2. QED
  BY <1>1, SameManagers, SameOverlays DEF Unmoved

\* A timer is set or cleared.
LEMMA TimersAreQuiet ==
  ASSUME CallsTyped, NEW p \in Client, NEW r \in Timer \cup {Nobody}, NEW c \in Timer \cup {Nobody},
         ui' = [ui EXCEPT ![p] = [ui[p] EXCEPT !.ring = r, !.conn = c]],
         UNCHANGED <<early, rtc, heard, raced>>, FewerSetups
  PROVE  Unmoved
<1>1. ui[p] \in Overlay /\ ui \in [Client -> Overlay] /\ rtc' \in Seq(Rtc)
  BY DEF CallsTyped, OverlaysTyped, ManagersTyped
<1> DEFINE v == [ui[p] EXCEPT !.ring = r, !.conn = c]
<1>2. [ui[p] EXCEPT !.ring = r] \in Overlay
  BY <1>1 DEF Overlay
<1>3. [[ui[p] EXCEPT !.ring = r] EXCEPT !.conn = c] \in Overlay
  BY <1>2 DEF Overlay
<1>4. v = [[ui[p] EXCEPT !.ring = r] EXCEPT !.conn = c]
  OBVIOUS
<1>5. SameCall(v, ui[p])
  BY <1>1 DEF SameCall, Overlay
<1>6. v \in Overlay
  BY <1>3, <1>4
<1> HIDE DEF v
<1>7. ui' \in [Client -> Overlay] /\ \A q \in Client : SameCall(ui'[q], ui[q])
  BY <1>1, <1>5, <1>6, SameOverlays DEF v
<1>8. QED
  BY <1>1, <1>7, SameManagers DEF Unmoved

\* An overlay with other timers is an overlay.
LEMMA TimersTyped ==
  ASSUME CallsTyped, NEW p \in Client
  PROVE  /\ ui[p].ring \in Timer \cup {Nobody} /\ ui[p].conn \in Timer \cup {Nobody}
         /\ ui[p] = [ui[p] EXCEPT !.ring = ui[p].ring, !.conn = ui[p].conn]
         /\ [ui EXCEPT ![p].ring = Nobody] = [ui EXCEPT ![p] = [ui[p] EXCEPT !.ring = Nobody, !.conn = ui[p].conn]]
         /\ [ui EXCEPT ![p].conn = Nobody] = [ui EXCEPT ![p] = [ui[p] EXCEPT !.ring = ui[p].ring, !.conn = Nobody]]
BY DEF CallsTyped, OverlaysTyped, Overlay

\* A click: a setup waits for recoverTransport.
Clicks(p, t) ==
  /\ t \in Setup /\ t.step = "recover" /\ t.sdp = (IF t.kind = "accept" THEN ui[p].sdp ELSE 0)
  /\ IF t.kind = "accept" THEN ui[p].state = "incoming" /\ ui[p].peer = t.peer ELSE ui[p].state = "idle"
  /\ tasks' = [tasks EXCEPT ![p] = @ \cup {t}]
  /\ UNCHANGED <<ui, early, rtc, heard, raced>>

\* A setup goes on as h.
GoesOn(p, t, h) ==
  /\ h \in Setup /\ h.kind = t.kind /\ h.peer = t.peer /\ h.sdp = t.sdp
  /\ tasks' = [tasks EXCEPT ![p] = (@ \ {t}) \cup {h}]

\* A setup has its manager, and the overlay shows it.
Begins(p, t) ==
  LET n == Len(rtc) + 1  g == ui[p].gen + 1 IN
  /\ t.step = "recover"
  /\ \E v \in Overlay :
       /\ ui' = [ui EXCEPT ![p] = v]
       /\ v.gen = g /\ v.peer = t.peer /\ v.sdp = ui[p].sdp /\ v.mgr = n /\ v.state \in {"outgoing", "active"}
  /\ rtc' \in Seq(Rtc) /\ Len(rtc') = n /\ \A m \in 1 .. Len(rtc) : rtc'[m] = rtc[m]
  /\ rtc'[n].owner = p /\ rtc'[n].gen = g /\ Fresh(rtc'[n]) /\ ~rtc'[n].mic
  /\ \E h : GoesOn(p, t, h) /\ h.step = "media" /\ h.mgr = n /\ h.gen = g
  /\ raced' = [raced EXCEPT ![p] = @ \/ ui[p].mgr # 0 \/ tasks[p] # {t}]
  /\ UNCHANGED <<early, heard>>

\* One manager changes.
OneManager(n) ==
  /\ n \in 1 .. Len(rtc) /\ rtc' \in Seq(Rtc) /\ Len(rtc') = Len(rtc)
  /\ \A m \in 1 .. Len(rtc) : m # n => rtc'[m] = rtc[m]

Grants(p, t) ==
  /\ t.step = "media" /\ OneManager(t.mgr)
  /\ SameManager(rtc'[t.mgr], rtc[t.mgr]) /\ SameLink(rtc'[t.mgr], rtc[t.mgr])
  /\ \E h : GoesOn(p, t, h) /\ h.step = "negotiate" /\ h.mgr = t.mgr /\ h.gen = t.gen
  /\ UNCHANGED <<ui, early, heard, raced>>

\* The description of the setup's manager is made while the overlay shows it,
Negotiates(p, t) ==
  LET n == t.mgr  r == rtc[n]  s == rtc'[n] IN
  /\ t.step = "negotiate" /\ ui[p].gen = t.gen /\ OneManager(n)
  /\ s.owner = r.owner /\ s.gen = r.gen /\ s.sdp /\ s.gathered = r.gathered /\ s.mic = r.mic
  /\ IF t.kind = "start" THEN s.remote = r.remote
     ELSE /\ s.remote = t.sdp
          /\ r.added \cup r.pending \cup {c[2] : c \in {d \in early[p] : d[1] = t.peer}} \subseteq s.added
  /\ early' \in [Client -> SUBSET (Client \X (1 .. Len(rtc)))] /\ \A q \in Client \ {p} : early'[q] = early[q]
  /\ \E h : GoesOn(p, t, h) /\ h.step = "attach" /\ h.mgr = n /\ h.gen = t.gen
  /\ UNCHANGED <<ui, heard, raced>>

\* or while it shows another one, which is ended in its place.
NegotiatesLate(p, t) ==
  LET n == t.mgr IN
  /\ t.step = "negotiate" /\ ui[p].gen # t.gen
  /\ rtc' \in Seq(Rtc) /\ Len(rtc') = Len(rtc)
  /\ \A m \in 1 .. Len(rtc) :
       /\ rtc'[m].owner = rtc[m].owner /\ rtc'[m].gen = rtc[m].gen /\ rtc'[m].gathered = rtc[m].gathered
       /\ m # n => rtc'[m].sdp = rtc[m].sdp
       /\ m \notin {n, ui[p].mgr} => rtc'[m] = rtc[m]
       /\ rtc'[m].remote = 0 \/ rtc'[m].remote = rtc[m].remote \/ m = n
  /\ rtc'[n].sdp
  /\ tasks' = [tasks EXCEPT ![p] = @ \ {t}]
  /\ UNCHANGED <<ui, early, heard, raced>>

\* An idle overlay shows an offer.
Rings(p, q) ==
  /\ wire[q][p] # <<>> /\ wire[q][p][1].type = "offer" /\ ui[p].state = "idle"
  /\ \E v \in Overlay :
       /\ ui' = [ui EXCEPT ![p] = v]
       /\ v.state = "incoming" /\ v.peer = q /\ v.sdp = wire[q][p][1].mgr /\ v.mgr = 0 /\ v.gen = ui[p].gen
  /\ UNCHANGED <<early, rtc, tasks, heard, raced>>

\* The answer reaches the manager that made the offer.
Answers(p, q) ==
  LET n == ui[p].mgr  r == rtc[n]  s == rtc'[n] IN
  /\ wire[q][p] # <<>> /\ wire[q][p][1].type = "answer" /\ ui[p].peer = q
  /\ OneManager(n) /\ r.sdp /\ r.remote = 0
  /\ SameManager(s, r) /\ s.mic = r.mic /\ s.remote = wire[q][p][1].mgr
  /\ ui' \in [Client -> Overlay] /\ \A o \in Client : SameCall(ui'[o], ui[o])
  /\ UNCHANGED <<early, tasks, heard, raced>>

\* A candidate of q is heard at p.
Hears(p, q) ==
  LET n == ui[p].mgr  r == rtc[n]  s == rtc'[n]  c == wire[q][p][1].mgr IN
  /\ wire[q][p] # <<>> /\ wire[q][p][1].type = "candidate" /\ ui[p].peer = q /\ wire' = Rest(p, q)
  /\ heard' = [heard EXCEPT ![p] = @ \cup {c}]
  /\ IF n = 0 THEN early' = [early EXCEPT ![p] = @ \cup {<<q, c>>}] /\ rtc' = rtc
     ELSE /\ early' = early /\ OneManager(n)
          /\ SameManager(s, r) /\ s.mic = r.mic /\ s.pc = r.pc /\ s.remote = r.remote
          /\ r.added \subseteq s.added /\ r.pending \subseteq s.pending
          /\ IF r.pc /\ r.remote # 0 THEN c \in s.added ELSE c \in s.pending
  /\ UNCHANGED <<ui, tasks, raced>>

\* A manager has its candidate.
GathersOne(n) ==
  /\ OneManager(n) /\ rtc[n].sdp
  /\ rtc'[n].owner = rtc[n].owner /\ rtc'[n].gen = rtc[n].gen /\ rtc'[n].sdp = rtc[n].sdp
  /\ rtc'[n].gathered /\ rtc'[n].mic = rtc[n].mic /\ SameLink(rtc'[n], rtc[n])
  /\ UNCHANGED <<ui, early, tasks, heard, raced>>

\* The call button starts a setup.
LEMMA ClickCallEffect ==
  ASSUME CallsTyped, clicks \in Nat, NEW p \in Client, NEW q \in Client, ClickCall(p, q)
  PROVE  \E t : Clicks(p, t)
<1> DEFINE t == Task("start", "recover", q, 0, 0, clicks)
<1>1. t \in Setup /\ t.kind = "start" /\ t.step = "recover" /\ t.sdp = 0
  BY DEF Task, Setup
<1>2. tasks' = [tasks EXCEPT ![p] = @ \cup {t}] /\ ui[p].state = "idle" /\ UNCHANGED <<ui, early, rtc, heard, raced>>
  BY DEF ClickCall
<1> HIDE DEF t
<1>3. Clicks(p, t)
  BY <1>1, <1>2 DEF Clicks
<1>4. QED
  BY <1>3

\* The accept button starts a setup of the offer shown.
LEMMA ClickAcceptEffect ==
  ASSUME CallsTyped, clicks \in Nat, NEW p \in Client, ClickAccept(p)
  PROVE  \E t : Clicks(p, t)
<1> DEFINE t == Task("accept", "recover", ui[p].peer, ui[p].sdp, 0, clicks)
<1>1. ui[p].peer \in Client /\ ui[p].sdp \in Nat
  BY DEF ClickAccept, CallsTyped, OverlaysTyped, Overlay
<1>2. t \in Setup /\ t.kind = "accept" /\ t.step = "recover" /\ t.sdp = ui[p].sdp /\ t.peer = ui[p].peer
  BY <1>1 DEF Task, Setup
<1>3. /\ tasks' = [tasks EXCEPT ![p] = @ \cup {t}] /\ ui[p].state = "incoming"
      /\ UNCHANGED <<ui, early, rtc, heard, raced>>
  BY DEF ClickAccept
<1> HIDE DEF t
<1>4. Clicks(p, t)
  BY <1>2, <1>3 DEF Clicks
<1>5. QED
  BY <1>4

\* After recoverTransport the setup makes its manager, or fails.
LEMMA RecoveredEffect ==
  ASSUME CallsTyped, NEW p \in Client, NEW t \in tasks[p], Recovered(p, t)
  PROVE  Begins(p, t) \/ Cut(p)
<1>1. CASE ~ready[p]
  BY <1>1, FailsCuts DEF Recovered
<1>2. CASE ready[p]
  <2> DEFINE g == ui[p].gen + 1
             n == Len(rtc) + 1
             st == IF t.kind = "start" THEN "outgoing" ELSE "active"
             ring == IF t.kind = "start" THEN ui[p].ring ELSE Nobody
             v == [ui[p] EXCEPT !.gen = g, !.peer = t.peer, !.mgr = n, !.state = st, !.ring = ring]
             r == NewManager(p, t.peer, g)
             h == [t EXCEPT !.step = "media", !.mgr = n, !.gen = g]
  <2>1. ui[p] \in Overlay /\ t \in Setup /\ t.peer \in Client /\ g \in Nat /\ n \in Nat /\ rtc \in Seq(Rtc)
    BY DEF CallsTyped, OverlaysTyped, SetupsTyped, ManagersTyped, Overlay, Setup
  <2>2. st \in {"outgoing", "active"} /\ ring \in Timer \cup {Nobody}
    BY <2>1 DEF Overlay
  <2>3. /\ rtc' = Append(rtc, r) /\ t.step = "recover"
        /\ tasks' = [tasks EXCEPT ![p] = (@ \ {t}) \cup {h}]
        /\ raced' = [raced EXCEPT ![p] = @ \/ ui[p].mgr # 0 \/ tasks[p] # {t}]
        /\ UNCHANGED <<early, heard>>
    BY <1>2 DEF Recovered
  <2>14. ui' = [ui EXCEPT ![p] = v]
    BY <1>2 DEF Recovered
  <2>4. r \in Rtc /\ r.owner = p /\ r.gen = g /\ Fresh(r) /\ ~r.mic
    BY <2>1 DEF NewManager, Rtc, Fresh
  <2> HIDE DEF g, n, st, ring, r
  <2>5. /\ v.gen = g /\ v.peer = t.peer /\ v.sdp = ui[p].sdp /\ v.mgr = n /\ v.state = st
    BY <2>1 DEF Overlay
  <2> DEFINE v1 == [ui[p] EXCEPT !.gen = g]
             v2 == [v1 EXCEPT !.peer = t.peer]
             v3 == [v2 EXCEPT !.mgr = n]
             v4 == [v3 EXCEPT !.state = st]
             v5 == [v4 EXCEPT !.ring = ring]
  <2>6. v \in Overlay
    <3>1. v1 \in Overlay
      BY <2>1 DEF Overlay
    <3> HIDE DEF v1
    <3>2. v2 \in Overlay
      BY <2>1, <3>1 DEF Overlay
    <3> HIDE DEF v2
    <3>3. v3 \in Overlay
      BY <2>1, <3>2 DEF Overlay
    <3> HIDE DEF v3
    <3>4. v4 \in Overlay
      BY <2>2, <3>3 DEF Overlay
    <3> HIDE DEF v4
    <3>5. v5 \in Overlay
      BY <2>2, <3>4 DEF Overlay
    <3>6. v = v5
      BY DEF v1, v2, v3, v4
    <3>7. QED
      BY <3>5, <3>6
  <2>7. h.kind = t.kind /\ h.peer = t.peer /\ h.sdp = t.sdp /\ h.step = "media" /\ h.mgr = n /\ h.gen = g
    BY <2>1 DEF Setup
  <2>8. h \in Setup
    BY <2>1 DEF Setup
  <2>9. /\ rtc' \in Seq(Rtc) /\ Len(rtc') = n /\ rtc'[n] = r
        /\ \A m \in 1 .. Len(rtc) : rtc'[m] = rtc[m]
    BY <2>1, <2>3, <2>4 DEF n
  <2> HIDE DEF v, h
  <2>11. GoesOn(p, t, h)
    BY <2>3, <2>7, <2>8 DEF GoesOn
  <2>12. Begins(p, t)
    BY <2>2, <2>3, <2>4, <2>5, <2>6, <2>7, <2>9, <2>11, <2>14 DEF Begins, g, n
  <2>13. QED
    BY <2>12
<1>3. QED
  BY <1>1, <1>2

\* The microphone goes to the manager of the setup.
LEMMA MicGrantedEffect ==
  ASSUME CallsTyped, NEW p \in Client, NEW t \in tasks[p], MicGranted(p, t)
  PROVE  Grants(p, t)
<1> DEFINE h == [t EXCEPT !.step = "negotiate"]
           s == [rtc[t.mgr] EXCEPT !.mic = TRUE]
<1>1. t \in Setup /\ t.mgr \in 1 .. Len(rtc) /\ rtc \in Seq(Rtc) /\ rtc[t.mgr] \in Rtc /\ t.step = "media"
  BY DEF MicGranted, CallsTyped, SetupsTyped, ManagersTyped
<1>2. h.kind = t.kind /\ h.peer = t.peer /\ h.sdp = t.sdp /\ h.step = "negotiate" /\ h.mgr = t.mgr /\ h.gen = t.gen
  BY <1>1 DEF Setup
<1>3. h \in Setup
  BY <1>1 DEF Setup
<1>4. s \in Rtc
  BY <1>1 DEF Rtc
<1>5. SameManager(s, rtc[t.mgr]) /\ SameLink(s, rtc[t.mgr])
  BY <1>1 DEF Rtc, SameManager, SameLink
<1>6. /\ rtc' = [rtc EXCEPT ![t.mgr] = s] /\ tasks' = [tasks EXCEPT ![p] = (@ \ {t}) \cup {h}]
      /\ UNCHANGED <<ui, early, heard, raced>>
  BY DEF MicGranted, Move
<1> HIDE DEF h, s
<1>7. OneManager(t.mgr) /\ rtc'[t.mgr] = s
  BY <1>1, <1>4, <1>6 DEF OneManager
<1>8. GoesOn(p, t, h)
  BY <1>2, <1>3, <1>6 DEF GoesOn
<1>9. QED
  BY <1>1, <1>2, <1>5, <1>6, <1>7, <1>8 DEF Grants

\* The description, whichever side makes it.
LEMMA DescribedFields ==
  ASSUME NEW t \in Setup, rtc[t.mgr] \in Rtc
  PROVE  LET d == Described(t)  r == rtc[t.mgr] IN
         /\ d \in Rtc /\ d.sdp
         /\ d.owner = r.owner /\ d.gen = r.gen /\ d.gathered = r.gathered /\ d.mic = r.mic
         /\ IF t.kind = "start" THEN d.remote = r.remote
            ELSE d.remote = t.sdp /\ r.added \cup r.pending \subseteq d.added
<1> DEFINE r == rtc[t.mgr]
           a == [r EXCEPT !.sdp = TRUE]
           b == [a EXCEPT !.remote = t.sdp]
           more == b.added \cup b.pending
           c == [b EXCEPT !.added = more]
           d == [c EXCEPT !.pending = {}]
<1>1. a \in Rtc /\ t.sdp \in Nat
  BY DEF Rtc, Setup
<1>2. /\ a.sdp /\ a.remote = r.remote /\ a.owner = r.owner /\ a.gen = r.gen /\ a.gathered = r.gathered
      /\ a.mic = r.mic /\ a.pending = r.pending /\ a.added = r.added
  BY DEF Rtc
<1>3. CASE t.kind = "start"
  <2>1. Described(t) = a
    BY <1>3 DEF Described
  <2>2. QED
    BY <1>1, <1>2, <1>3, <2>1
<1>4. CASE t.kind # "start"
  <2> HIDE DEF a
  <2>1. b \in Rtc
    BY <1>1 DEF Rtc
  <2>2. /\ b.sdp /\ b.remote = t.sdp /\ b.owner = r.owner /\ b.gen = r.gen /\ b.gathered = r.gathered
        /\ b.mic = r.mic /\ b.pending = r.pending /\ b.added = r.added
    BY <1>1, <1>2 DEF Rtc
  <2>3. Described(t) = Flush(b)
    BY <1>4 DEF Described, a
  <2> HIDE DEF b
  <2>4. more \in SUBSET Nat /\ more = r.added \cup r.pending
    BY <2>1, <2>2 DEF Rtc
  <2>5. Flush(b) = [b EXCEPT !.added = more, !.pending = {}]
    BY DEF Flush
  <2> HIDE DEF more
  <2>6. c \in Rtc
    BY <2>1, <2>4 DEF Rtc
  <2>7. Flush(b) = d
    BY <2>5
  <2>8. /\ d.sdp /\ d.remote = t.sdp /\ d.owner = r.owner /\ d.gen = r.gen /\ d.gathered = r.gathered
        /\ d.mic = r.mic /\ d.added = more
    BY <2>1, <2>2 DEF Rtc
  <2> HIDE DEF c
  <2>9. d \in Rtc
    BY <2>6 DEF Rtc
  <2>10. QED
    BY <1>4, <2>3, <2>4, <2>7, <2>8, <2>9
<1>5. QED
  BY <1>3, <1>4

\* The description is made and sent by the manager of the setup; a late one is ended.
LEMMA NegotiatedEffect ==
  ASSUME CallsTyped, NEW p \in Client, NEW t \in tasks[p], Negotiated(p, t)
  PROVE  Negotiates(p, t) \/ NegotiatesLate(p, t) \/ Cut(p)
<1> DEFINE n == t.mgr
           r == rtc[n]
           d == Described(t)
           done == [rtc EXCEPT ![n] = d]
<1>1. /\ t \in Setup /\ n \in 1 .. Len(rtc) /\ rtc \in Seq(Rtc) /\ r \in Rtc /\ t.step = "negotiate"
      /\ ui[p].mgr \in 0 .. Len(rtc)
  BY DEF Negotiated, CallsTyped, SetupsTyped, ManagersTyped, OverlaysTyped
<1>2. /\ d \in Rtc /\ d.sdp
      /\ d.owner = r.owner /\ d.gen = r.gen /\ d.gathered = r.gathered /\ d.mic = r.mic
      /\ IF t.kind = "start" THEN d.remote = r.remote
         ELSE d.remote = t.sdp /\ r.added \cup r.pending \subseteq d.added
  BY <1>1, DescribedFields
<1> HIDE DEF d
<1>3. /\ done \in Seq(Rtc) /\ Len(done) = Len(rtc) /\ done[n] = d
      /\ \A m \in 1 .. Len(rtc) : m # n => done[m] = rtc[m]
  BY <1>1, <1>2
<1>4. CASE ~(rtc[t.mgr].pc /\ ready[p])
  BY <1>4, FailsCuts DEF Negotiated
<1>5. CASE rtc[t.mgr].pc /\ ready[p] /\ ui[p].gen = t.gen
  <2> DEFINE mine == {c \in early[p] : c[1] = t.peer /\ t.kind = "accept"}
             came == {c[2] : c \in mine}
             more == d.added \cup came
             s == [d EXCEPT !.added = more]
             h == [t EXCEPT !.step = "attach"]
  <2>1. /\ rtc' = [done EXCEPT ![n].added = @ \cup came]
        /\ early' = [early EXCEPT ![p] = @ \ mine]
        /\ tasks' = [tasks EXCEPT ![p] = (@ \ {t}) \cup {h}]
        /\ UNCHANGED <<ui, heard, raced>>
    BY <1>5 DEF Negotiated, Move, d
  <2>2. early \in [Client -> SUBSET (Client \X (1 .. Len(rtc)))]
    BY DEF CallsTyped, HearingTyped
  <2>3. came \in SUBSET Nat
    BY <1>1, <2>2
  <2>4. t.kind # "start" => came = {c[2] : c \in {e \in early[p] : e[1] = t.peer}}
    BY <1>1 DEF Setup
  <2>5. early' \in [Client -> SUBSET (Client \X (1 .. Len(rtc)))] /\ \A q \in Client \ {p} : early'[q] = early[q]
    BY <2>1, <2>2
  <2>6. h.kind = t.kind /\ h.peer = t.peer /\ h.sdp = t.sdp /\ h.step = "attach" /\ h.mgr = n /\ h.gen = t.gen
    BY <1>1 DEF Setup
  <2>7. h \in Setup
    BY <1>1 DEF Setup
  <2>8. rtc' = [done EXCEPT ![n] = s]
    BY <1>1, <1>3, <2>1
  <2> HIDE DEF came, h, mine
  <2>9. more \in SUBSET Nat /\ d.added \cup came = more
    BY <1>2, <2>3 DEF Rtc
  <2> HIDE DEF more
  <2>10. /\ s.owner = d.owner /\ s.gen = d.gen /\ s.sdp = d.sdp /\ s.gathered = d.gathered /\ s.mic = d.mic
         /\ s.remote = d.remote /\ s.added = more
    BY <1>2 DEF Rtc
  <2>11. s \in Rtc
    BY <1>2, <2>9 DEF Rtc
  <2> HIDE DEF s, done
  <2>12. OneManager(n) /\ rtc'[n] = s
    BY <1>1, <1>3, <2>8, <2>11 DEF OneManager
  <2>13. GoesOn(p, t, h)
    BY <2>1, <2>6, <2>7 DEF GoesOn
  <2>14. IF t.kind = "start" THEN s.remote = r.remote
         ELSE /\ s.remote = t.sdp
              /\ r.added \cup r.pending \cup {c[2] : c \in {e \in early[p] : e[1] = t.peer}} \subseteq s.added
    BY <1>2, <2>4, <2>9, <2>10
  <2>15. QED
    BY <1>1, <1>2, <1>5, <2>1, <2>5, <2>6, <2>10, <2>12, <2>13, <2>14 DEF Negotiates
<1>6. CASE rtc[t.mgr].pc /\ ready[p] /\ ui[p].gen # t.gen
  <2>1. rtc' = EndManager(ui[p].mgr, done) /\ tasks' = [tasks EXCEPT ![p] = @ \ {t}] /\ UNCHANGED <<ui, early, heard, raced>>
    BY <1>6 DEF Negotiated, Drop, d
  <2> HIDE DEF done
  <2>2. /\ rtc' \in Seq(Rtc) /\ Len(rtc') = Len(rtc)
        /\ \A m \in 1 .. Len(rtc) : IF m = ui[p].mgr THEN rtc'[m] = EndCall(done[m]) ELSE rtc'[m] = done[m]
    BY <1>1, <1>3, <2>1, EndManagerFields
  <2>3. ASSUME NEW m \in 1 .. Len(rtc)
        PROVE  /\ rtc'[m].owner = done[m].owner /\ rtc'[m].gen = done[m].gen /\ rtc'[m].gathered = done[m].gathered
               /\ rtc'[m].sdp = done[m].sdp /\ (rtc'[m].remote = 0 \/ rtc'[m] = done[m])
               /\ m # ui[p].mgr => rtc'[m] = done[m]
    <3>1. done[m] \in Rtc
      BY <1>3, <2>3
    <3>2. QED
      BY <2>2, <2>3, <3>1, EndCallFields DEF SameManager
  <2>4. ASSUME NEW m \in 1 .. Len(rtc)
        PROVE  /\ rtc'[m].owner = rtc[m].owner /\ rtc'[m].gen = rtc[m].gen /\ rtc'[m].gathered = rtc[m].gathered
               /\ m # n => rtc'[m].sdp = rtc[m].sdp
               /\ m \notin {n, ui[p].mgr} => rtc'[m] = rtc[m]
               /\ rtc'[m].remote = 0 \/ rtc'[m].remote = rtc[m].remote \/ m = n
    BY <1>2, <1>3, <2>3, <2>4
  <2>5. rtc'[n].sdp
    BY <1>1, <1>2, <1>3, <2>3
  <2>6. QED
    BY <1>1, <1>6, <2>1, <2>2, <2>4, <2>5 DEF NegotiatesLate
<1>7. QED
  BY <1>4, <1>5, <1>6

\* The end of a setup only sets timers.
LEMMA AttachedEffect ==
  ASSUME CallsTyped, NEW p \in Client, NEW t \in tasks[p], Attached(p, t) PROVE Unmoved
<1> DEFINE timer == [to |-> t.peer, gen |-> t.gen]
           ring == IF t.kind = "start" THEN timer ELSE ui[p].ring
<1>1. t \in Setup /\ tasks \in [Client -> SUBSET Setup] /\ ui[p] \in Overlay /\ ui \in [Client -> Overlay]
  BY DEF CallsTyped, SetupsTyped, OverlaysTyped
<1>2. timer \in Timer
  BY <1>1 DEF Timer, Setup
<1>3. ring \in Timer \cup {Nobody}
  BY <1>1, <1>2 DEF Overlay
<1>4. ui' = [ui EXCEPT ![p].conn = timer, ![p].ring = IF t.kind = "start" THEN timer ELSE @]
  BY DEF Attached
<1> HIDE DEF timer
<1>5. ui' = [ui EXCEPT ![p] = [ui[p] EXCEPT !.ring = ring, !.conn = timer]]
  BY <1>1, <1>4 DEF Overlay
<1>6. FewerSetups /\ UNCHANGED <<early, rtc, heard, raced>>
  BY <1>1 DEF Attached, Drop, FewerSetups
<1> HIDE DEF ring
<1>7. QED
  BY <1>2, <1>3, <1>5, <1>6, TimersAreQuiet

\* handleEndCall and handleRejectCall cut the call.
LEMMA HangUpEffect == ASSUME CallsTyped, NEW p \in Client, HangUp(p) PROVE Cut(p)
BY PlainResetCuts DEF HangUp

\* A denied microphone cuts the call.
LEMMA MicDeniedEffect ==
  ASSUME CallsTyped, NEW p \in Client, NEW t \in tasks[p], MicDenied(p, t) PROVE Cut(p)
BY FailsCuts DEF MicDenied

\* No setup is new when none changes.
LEMMA SameSetups == ASSUME CallsTyped, tasks' = tasks PROVE FewerSetups
BY DEF CallsTyped, SetupsTyped, FewerSetups

\* The ringing that is over cuts the call, unless it rang for an earlier one.
LEMMA RingTimeoutEffect == ASSUME CallsTyped, NEW p \in Client, RingTimeout(p) PROVE Cut(p) \/ Unmoved
<1>1. CASE ui[p].ring.gen \in {0, ui[p].gen}
  BY <1>1, PlainResetCuts DEF RingTimeout
<1>2. CASE ui[p].ring.gen \notin {0, ui[p].gen}
  <2>1. ui' = [ui EXCEPT ![p].ring = Nobody] /\ UNCHANGED <<early, rtc, heard, raced, tasks>>
    BY <1>2 DEF RingTimeout
  <2> DEFINE c == ui[p].conn
  <2>2. ui' = [ui EXCEPT ![p] = [ui[p] EXCEPT !.ring = Nobody, !.conn = c]] /\ c \in Timer \cup {Nobody}
    BY <2>1, TimersTyped
  <2>3. FewerSetups
    BY <2>1, SameSetups
  <2> HIDE DEF c
  <2>4. QED
    BY <2>1, <2>2, <2>3, TimersAreQuiet
<1>3. QED
  BY <1>1, <1>2

\* The connecting that took too long cuts the call, unless it was an earlier one.
LEMMA ConnectTimeoutEffect == ASSUME CallsTyped, NEW p \in Client, ConnectTimeout(p) PROVE Cut(p) \/ Unmoved
<1>1. CASE ui[p].conn.gen = ui[p].gen
  BY <1>1, PlainResetCuts DEF ConnectTimeout
<1>2. CASE ui[p].conn.gen # ui[p].gen
  <2>1. ui' = [ui EXCEPT ![p].conn = Nobody] /\ UNCHANGED <<early, rtc, heard, raced, tasks>>
    BY <1>2 DEF ConnectTimeout
  <2> DEFINE c == ui[p].ring
  <2>2. ui' = [ui EXCEPT ![p] = [ui[p] EXCEPT !.ring = c, !.conn = Nobody]] /\ c \in Timer \cup {Nobody}
    BY <2>1, TimersTyped
  <2>3. FewerSetups
    BY <2>1, SameSetups
  <2> HIDE DEF c
  <2>4. QED
    BY <2>1, <2>2, <2>3, TimersAreQuiet
<1>3. QED
  BY <1>1, <1>2

\* A reject or an end cuts the call with its sender.
LEMMA OnEndEffect == ASSUME CallsTyped, NEW p \in Client, NEW q \in Client, OnEnd(p, q) PROVE Cut(p) \/ Unmoved
<1>1. CASE ui[p].peer = q
  BY <1>1, PlainResetCuts DEF OnEnd
<1>2. CASE ui[p].peer # q
  BY <1>2, NothingIsQuiet DEF OnEnd
<1>3. QED
  BY <1>1, <1>2

\* A lost socket cuts the call, if there is one.
LEMMA SocketDropsEffect == ASSUME CallsTyped, NEW p \in Client, SocketDrops(p) PROVE Cut(p) \/ Unmoved
<1>1. CASE ui[p].state # "idle"
  BY <1>1, PlainResetCuts DEF SocketDrops
<1>2. CASE ui[p].state = "idle"
  BY <1>2, NothingIsQuiet DEF SocketDrops
<1>3. QED
  BY <1>1, <1>2

\* A socket that is back changes no call.
LEMMA SocketReturnsEffect == ASSUME CallsTyped, NEW p \in Client, SocketReturns(p) PROVE Unmoved
BY NothingIsQuiet DEF SocketReturns

\* Only the state of a connection changes.
LEMMA StateOnly ==
  ASSUME CallsTyped, NEW m \in 1 .. Len(rtc), NEW st \in {"connected", "failed"}
  PROVE  LET s == [rtc EXCEPT ![m].state = st] IN
         /\ s \in Seq(Rtc) /\ Len(s) = Len(rtc)
         /\ \A n \in 1 .. Len(rtc) : SameManager(s[n], rtc[n]) /\ SameLink(s[n], rtc[n]) /\ s[n].mic = rtc[n].mic
<1> DEFINE r == [rtc[m] EXCEPT !.state = st]
           s == [rtc EXCEPT ![m] = r]
<1>1. rtc \in Seq(Rtc) /\ rtc[m] \in Rtc
  BY DEF CallsTyped, ManagersTyped
<1>2. r \in Rtc
  BY <1>1 DEF Rtc
<1>3. SameManager(r, rtc[m]) /\ SameLink(r, rtc[m]) /\ r.mic = rtc[m].mic
  BY <1>1 DEF Rtc, SameManager, SameLink
<1>4. [rtc EXCEPT ![m].state = st] = s
  OBVIOUS
<1> HIDE DEF r
<1>5. s \in Seq(Rtc) /\ Len(s) = Len(rtc) /\ s[m] = r /\ \A n \in 1 .. Len(rtc) : n # m => s[n] = rtc[n]
  BY <1>1, <1>2
<1> HIDE DEF s
<1>6. QED
  BY <1>3, <1>4, <1>5, SameManagers

\* A broken connection cuts the call of its generation.
LEMMA BreaksEffect ==
  ASSUME CallsTyped, NEW m \in DOMAIN rtc, Breaks(m) PROVE Unmoved \/ \E p \in Client : Cut(p)
<1> DEFINE s == [rtc EXCEPT ![m].state = "failed"]
<1>1. rtc \in Seq(Rtc) /\ m \in 1 .. Len(rtc) /\ rtc[m] \in Rtc
  BY DEF CallsTyped, ManagersTyped
<1>2. rtc[m].owner \in Client
  BY <1>1 DEF Rtc
<1>3. /\ s \in Seq(Rtc) /\ Len(s) = Len(rtc)
      /\ \A n \in 1 .. Len(rtc) : SameManager(s[n], rtc[n]) /\ SameLink(s[n], rtc[n]) /\ s[n].mic = rtc[n].mic
  BY <1>1, StateOnly
<1>4. FewerSetups
  BY SameSetups DEF Breaks
<1>5. CASE ui[rtc[m].owner].gen = rtc[m].gen
  <2>1. ResetCall(rtc[m].owner, s, tasks[rtc[m].owner]) /\ UNCHANGED <<tasks, heard>>
    BY <1>5 DEF Breaks
  <2> HIDE DEF s
  <2>2. ResetCall(rtc[m].owner, s, tasks'[rtc[m].owner])
    BY <2>1
  <2>3. Cut(rtc[m].owner)
    BY <1>2, <1>3, <1>4, <2>1, <2>2, ResetCuts
  <2>4. QED
    BY <1>2, <2>3
<1>6. CASE ui[rtc[m].owner].gen # rtc[m].gen
  <2>1. rtc' = s /\ UNCHANGED <<ui, early, heard, raced>>
    BY <1>6 DEF Breaks
  <2> HIDE DEF s
  <2>2. ui' \in [Client -> Overlay] /\ \A p \in Client : SameCall(ui'[p], ui[p])
    BY <2>1, SameOverlays DEF CallsTyped, OverlaysTyped
  <2>3. QED
    BY <1>3, <1>4, <2>1, <2>2 DEF Unmoved
<1>7. QED
  BY <1>5, <1>6

\* A connection that is made is shown, and changes nothing else.
LEMMA ConnectsEffect ==
  ASSUME CallsTyped, GensAgree, NEW m \in DOMAIN rtc, Connects(m) PROVE Unmoved
<1> DEFINE s == [rtc EXCEPT ![m].state = "connected"]
           p == rtc[m].owner
           v == [ui[p] EXCEPT !.state = "active", !.conn = Nobody]
<1>1. rtc \in Seq(Rtc) /\ m \in 1 .. Len(rtc) /\ rtc[m] \in Rtc
  BY DEF CallsTyped, ManagersTyped
<1>2. p \in Client
  BY <1>1 DEF Rtc
<1>3. /\ s \in Seq(Rtc) /\ Len(s) = Len(rtc)
      /\ \A n \in 1 .. Len(rtc) : SameManager(s[n], rtc[n]) /\ SameLink(s[n], rtc[n]) /\ s[n].mic = rtc[n].mic
  BY <1>1, StateOnly
<1>4. FewerSetups /\ rtc' = s /\ UNCHANGED <<early, heard, raced>>
  BY SameSetups DEF Connects
<1>5. ui \in [Client -> Overlay] /\ ui[p] \in Overlay
  BY <1>2 DEF CallsTyped, OverlaysTyped
<1> HIDE DEF s
<1>6. CASE ui[p].gen = rtc[m].gen
  <2>1. ui[p].mgr = m
    BY <1>1, <1>6 DEF GensAgree
  <2>2. ui[p].state \notin {"idle", "incoming"}
    BY <1>1, <1>2, <2>1 DEF CallsTyped, OverlaysTyped
  <2>3. SameCall(v, ui[p])
    BY <1>5, <2>2 DEF SameCall, Overlay
  <2>4. [ui[p] EXCEPT !.state = "active"] \in Overlay
    BY <1>5 DEF Overlay
  <2>5. [[ui[p] EXCEPT !.state = "active"] EXCEPT !.conn = Nobody] \in Overlay
    BY <2>4 DEF Overlay
  <2>6. v = [[ui[p] EXCEPT !.state = "active"] EXCEPT !.conn = Nobody]
    OBVIOUS
  <2>7. ui' = [ui EXCEPT ![p].state = "active", ![p].conn = Nobody]
    BY <1>6 DEF Connects
  <2>8. ui' = [ui EXCEPT ![p] = v]
    BY <1>2, <1>5, <2>7
  <2>9. v \in Overlay
    BY <2>5, <2>6
  <2> HIDE DEF v
  <2>10. ui' \in [Client -> Overlay] /\ \A o \in Client : SameCall(ui'[o], ui[o])
    BY <1>5, <2>3, <2>8, <2>9, SameOverlays
  <2>11. QED
    BY <1>3, <1>4, <2>10 DEF Unmoved
<1>7. CASE ui[p].gen # rtc[m].gen
  <2>1. ui' = ui
    BY <1>7 DEF Connects
  <2>2. ui' \in [Client -> Overlay] /\ \A o \in Client : SameCall(ui'[o], ui[o])
    BY <1>5, <2>1, SameOverlays
  <2>3. QED
    BY <1>3, <1>4, <2>2 DEF Unmoved
<1>8. QED
  BY <1>6, <1>7

\* The next signal.
LEMMA HeadTyped ==
  ASSUME NEW w \in Seq(Signal), w # <<>>
  PROVE  w[1] \in Signal /\ w[1].mgr \in Nat /\ Head(w) = w[1]
<1>1. w[1] \in Signal
  OBVIOUS
<1>2. QED
  BY <1>1 DEF Signal

\* An offer rings at an idle overlay.
LEMMA OnOfferEffect ==
  ASSUME CallsTyped, NEW p \in Client, NEW q \in Client, OnOffer(p, q) PROVE Rings(p, q) \/ Unmoved
<1>1. CASE ui[p].state # "idle"
  BY <1>1, NothingIsQuiet DEF OnOffer
<1>2. CASE ui[p].state = "idle"
  <2> DEFINE ring == [to |-> q, gen |-> 0]
             n == wire[q][p][1].mgr
             v == [ui[p] EXCEPT !.state = "incoming", !.peer = q, !.sdp = n, !.ring = ring]
  <2>1. wire[q][p] # <<>> /\ wire[q][p][1].type = "offer" /\ ui' = [ui EXCEPT ![p] = v]
        /\ UNCHANGED <<early, rtc, tasks, heard, raced>>
    BY <1>2 DEF OnOffer, Take
  <2>2. wire[q][p] \in Seq(Signal) /\ ui[p] \in Overlay /\ ui[p].mgr = 0
    BY <1>2 DEF CallsTyped, WireTyped, OverlaysTyped
  <2>3. n \in Nat
    BY <2>1, <2>2, HeadTyped
  <2>4. ring \in Timer
    BY DEF Timer
  <2> HIDE DEF ring, n
  <2>5. v.state = "incoming" /\ v.peer = q /\ v.sdp = n /\ v.mgr = 0 /\ v.gen = ui[p].gen
    BY <2>2 DEF Overlay
  <2> DEFINE v1 == [ui[p] EXCEPT !.state = "incoming"]
             v2 == [v1 EXCEPT !.peer = q]
             v3 == [v2 EXCEPT !.sdp = n]
             v4 == [v3 EXCEPT !.ring = ring]
  <2>6. v \in Overlay
    <3>1. v1 \in Overlay
      BY <2>2 DEF Overlay
    <3> HIDE DEF v1
    <3>2. v2 \in Overlay
      BY <3>1 DEF Overlay
    <3> HIDE DEF v2
    <3>3. v3 \in Overlay
      BY <2>3, <3>2 DEF Overlay
    <3> HIDE DEF v3
    <3>4. v4 \in Overlay
      BY <2>4, <3>3 DEF Overlay
    <3>5. v = v4
      BY DEF v1, v2, v3
    <3>6. QED
      BY <3>4, <3>5
  <2> HIDE DEF v
  <2>7. Rings(p, q)
    BY <1>2, <2>1, <2>5, <2>6 DEF Rings, n
  <2>8. QED
    BY <2>7
<1>3. QED
  BY <1>1, <1>2

\* The answer, when the manager takes it.
LEMMA AnsweredFields ==
  ASSUME NEW r \in Rtc, NEW n \in Nat
  PROVE  LET s == Flush([r EXCEPT !.remote = n]) IN
         s \in Rtc /\ SameManager(s, r) /\ s.mic = r.mic /\ s.remote = n /\ r.added \cup r.pending \subseteq s.added
<1> DEFINE b == [r EXCEPT !.remote = n]
           more == b.added \cup r.pending
           c == [b EXCEPT !.added = b.added \cup b.pending]
           d == [c EXCEPT !.pending = {}]
<1>1. b \in Rtc
  BY DEF Rtc
<1>2. b.remote = n /\ b.added = r.added /\ b.pending = r.pending /\ b.mic = r.mic /\ SameManager(b, r)
  BY DEF Rtc, SameManager
<1> HIDE DEF b
<1>3. c \in Rtc
  BY <1>1 DEF Rtc
<1>4. Flush(b) = d
  BY DEF Flush
<1>5. d.added = b.added \cup b.pending /\ d.remote = b.remote /\ d.mic = b.mic /\ SameManager(d, b)
  BY <1>1 DEF Rtc, SameManager
<1> HIDE DEF c
<1>6. d \in Rtc
  BY <1>3 DEF Rtc
<1>7. SameManager(d, r)
  BY <1>2, <1>5 DEF SameManager
<1>8. QED
  BY <1>2, <1>4, <1>5, <1>6, <1>7 DEF b

\* An answer is the remote description of the manager that offered.
LEMMA OnAnswerEffect ==
  ASSUME CallsTyped, NEW p \in Client, NEW q \in Client, OnAnswer(p, q) PROVE Answers(p, q) \/ Unmoved
<1>1. CASE ~(ui[p].state = "outgoing" /\ ui[p].mgr # 0 /\ ui[p].peer = q)
  BY <1>1, NothingIsQuiet DEF OnAnswer
<1>2. CASE ui[p].state = "outgoing" /\ ui[p].mgr # 0 /\ ui[p].peer = q
  <2> DEFINE m == ui[p].mgr
             n == wire[q][p][1].mgr
             s == Flush([rtc[m] EXCEPT !.remote = n])
             takes == rtc[m].pc /\ rtc[m].sdp /\ rtc[m].remote = 0
  <2>1. /\ wire[q][p] # <<>> /\ wire[q][p][1].type = "answer" /\ ui' = [ui EXCEPT ![p].ring = Nobody]
        /\ rtc' = IF takes THEN [rtc EXCEPT ![m] = s] ELSE rtc
        /\ UNCHANGED <<early, tasks, heard, raced>>
    BY <1>2 DEF OnAnswer, Take
  <2>2. /\ wire[q][p] \in Seq(Signal) /\ ui \in [Client -> Overlay] /\ ui[p] \in Overlay
        /\ rtc \in Seq(Rtc) /\ m \in 1 .. Len(rtc) /\ rtc[m] \in Rtc
    BY <1>2 DEF CallsTyped, WireTyped, OverlaysTyped, ManagersTyped
  <2>3. n \in Nat
    BY <2>1, <2>2, HeadTyped
  <2>4. ui' = [ui EXCEPT ![p] = [ui[p] EXCEPT !.ring = Nobody, !.conn = ui[p].conn]] /\ ui[p].conn \in Timer \cup {Nobody}
    BY <2>1, TimersTyped
  <2>5. CASE ~takes
    <3>1. rtc' = rtc
      BY <2>1, <2>5
    <3>2. Unmoved
      BY <2>1, <2>4, <3>1, SameSetups, TimersAreQuiet
    <3>3. QED
      BY <3>2
  <2>6. CASE takes
    <3> DEFINE v == [ui[p] EXCEPT !.ring = Nobody]
    <3>1. s \in Rtc /\ SameManager(s, rtc[m]) /\ s.mic = rtc[m].mic /\ s.remote = n /\ rtc' = [rtc EXCEPT ![m] = s]
      BY <2>1, <2>2, <2>3, <2>6, AnsweredFields
    <3> HIDE DEF s
    <3>2. OneManager(m) /\ rtc'[m] = s
      BY <2>2, <3>1 DEF OneManager
    <3>3. v \in Overlay /\ SameCall(v, ui[p]) /\ ui' = [ui EXCEPT ![p] = v]
      BY <2>1, <2>2 DEF Overlay, SameCall
    <3> HIDE DEF v
    <3>4. ui' \in [Client -> Overlay] /\ \A o \in Client : SameCall(ui'[o], ui[o])
      BY <2>2, <3>3, SameOverlays
    <3>5. Answers(p, q)
      BY <1>2, <2>1, <2>6, <3>1, <3>2, <3>4 DEF Answers
    <3>6. QED
      BY <3>5
  <2>7. QED
    BY <2>5, <2>6
<1>3. QED
  BY <1>1, <1>2

\* handleCandidate keeps the candidate, whatever the manager has.
LEMMA AddCandidateFields ==
  ASSUME NEW r \in Rtc, NEW c \in Nat
  PROVE  LET s == AddCandidate(r, c) IN
         /\ s \in Rtc /\ SameManager(s, r) /\ s.mic = r.mic /\ s.pc = r.pc /\ s.remote = r.remote
         /\ r.added \subseteq s.added /\ r.pending \subseteq s.pending
         /\ IF r.pc /\ r.remote # 0 THEN c \in s.added ELSE c \in s.pending
<1>1. CASE r.pc /\ r.remote # 0
  <2> DEFINE s == [r EXCEPT !.added = r.added \cup {c}]
  <2>1. AddCandidate(r, c) = s
    BY <1>1 DEF AddCandidate
  <2>2. s \in Rtc
    BY DEF Rtc
  <2>3. /\ SameManager(s, r) /\ s.mic = r.mic /\ s.pc = r.pc /\ s.remote = r.remote
        /\ s.added = r.added \cup {c} /\ s.pending = r.pending
    BY DEF Rtc, SameManager
  <2>4. QED
    BY <1>1, <2>1, <2>2, <2>3
<1>2. CASE ~(r.pc /\ r.remote # 0)
  <2> DEFINE s == [r EXCEPT !.pending = r.pending \cup {c}]
  <2>1. AddCandidate(r, c) = s
    BY <1>2 DEF AddCandidate
  <2>2. s \in Rtc
    BY DEF Rtc
  <2>3. /\ SameManager(s, r) /\ s.mic = r.mic /\ s.pc = r.pc /\ s.remote = r.remote
        /\ s.pending = r.pending \cup {c} /\ s.added = r.added
    BY DEF Rtc, SameManager
  <2>4. QED
    BY <1>2, <2>1, <2>2, <2>3
<1>3. QED
  BY <1>1, <1>2

\* A candidate of the peer is heard; one of anybody else is not.
LEMMA OnCandidateEffect ==
  ASSUME CallsTyped, NEW p \in Client, NEW q \in Client, OnCandidate(p, q) PROVE Hears(p, q) \/ Unmoved
<1>1. CASE ui[p].peer # q
  BY <1>1, NothingIsQuiet DEF OnCandidate
<1>2. CASE ui[p].peer = q
  <2> DEFINE m == ui[p].mgr
             c == wire[q][p][1].mgr
             s == AddCandidate(rtc[m], c)
  <2>1. /\ wire[q][p] # <<>> /\ wire[q][p][1].type = "candidate" /\ UNCHANGED <<ui, tasks, raced>>
        /\ wire' = Rest(p, q)
        /\ heard' = [heard EXCEPT ![p] = @ \cup {c}]
        /\ early' = IF m = 0 THEN [early EXCEPT ![p] = @ \cup {<<q, c>>}] ELSE early
        /\ rtc' = IF m = 0 THEN rtc ELSE [rtc EXCEPT ![m] = s]
    BY <1>2 DEF OnCandidate, Take
  <2>2. wire[q][p] \in Seq(Signal) /\ rtc \in Seq(Rtc) /\ m \in 0 .. Len(rtc)
    BY DEF CallsTyped, WireTyped, OverlaysTyped, ManagersTyped
  <2>3. c \in Nat
    BY <2>1, <2>2, HeadTyped
  <2>4. CASE m = 0
    BY <1>2, <2>1, <2>4 DEF Hears
  <2>5. CASE m # 0
    <3>1. /\ s \in Rtc /\ SameManager(s, rtc[m]) /\ s.mic = rtc[m].mic /\ s.pc = rtc[m].pc /\ s.remote = rtc[m].remote
          /\ rtc[m].added \subseteq s.added /\ rtc[m].pending \subseteq s.pending
          /\ IF rtc[m].pc /\ rtc[m].remote # 0 THEN c \in s.added ELSE c \in s.pending
      <4>1. rtc[m] \in Rtc
        BY <2>2, <2>5
      <4>2. QED
        BY <2>3, <4>1, AddCandidateFields
    <3>2. rtc' = [rtc EXCEPT ![m] = s] /\ early' = early
      BY <2>1, <2>5
    <3> HIDE DEF s
    <3>3. OneManager(m) /\ rtc'[m] = s
      BY <2>2, <2>5, <3>1, <3>2 DEF OneManager
    <3>4. QED
      BY <1>2, <2>1, <2>5, <3>1, <3>2, <3>3 DEF Hears
  <2>6. QED
    BY <2>4, <2>5
<1>3. QED
  BY <1>1, <1>2

\* Gathering changes one manager.
LEMMA GathersEffect == ASSUME CallsTyped, NEW m \in DOMAIN rtc, Gathers(m) PROVE GathersOne(m)
<1> DEFINE s == [rtc[m] EXCEPT !.gathered = TRUE]
<1>1. rtc \in Seq(Rtc) /\ m \in 1 .. Len(rtc) /\ rtc[m] \in Rtc
  BY DEF CallsTyped, ManagersTyped
<1>2. s \in Rtc
  BY <1>1 DEF Rtc
<1>3. /\ s.owner = rtc[m].owner /\ s.gen = rtc[m].gen /\ s.sdp = rtc[m].sdp /\ s.gathered /\ s.mic = rtc[m].mic
      /\ SameLink(s, rtc[m])
  BY <1>1 DEF Rtc, SameLink
<1>4. rtc' = [rtc EXCEPT ![m] = s] /\ rtc[m].sdp /\ UNCHANGED <<ui, early, tasks, heard, raced>>
  BY DEF Gathers
<1> HIDE DEF s
<1>5. OneManager(m) /\ rtc'[m] = s
  BY <1>1, <1>2, <1>4 DEF OneManager
<1>6. QED
  BY <1>3, <1>4, <1>5 DEF GathersOne
-----------------------------------------------------------------------------
(* What a step does to the calls: one of these.                            *)

AtSetup(p, t) == Begins(p, t) \/ Grants(p, t) \/ Negotiates(p, t) \/ NegotiatesLate(p, t)
AtSignal(p, q) == Rings(p, q) \/ Answers(p, q) \/ Hears(p, q)

Effect ==
  \/ Unmoved
  \/ \E p \in Client : Cut(p)
  \/ \E p \in Client : \E t : Clicks(p, t)
  \/ \E p \in Client : \E t \in tasks[p] : AtSetup(p, t)
  \/ \E p, q \in Client : AtSignal(p, q)
  \/ \E m \in 1 .. Len(rtc) : GathersOne(m)

\* Every step has one of the effects.
LEMMA StepEffect == ASSUME CallsTyped, GensAgree, [CallsNext]_callVars PROVE Effect
<1>1. ASSUME NEW p \in Client, NEW q \in Client, ClickCall(p, q) PROVE Effect
  BY <1>1, ClickCallEffect DEF Effect, CallsTyped, HearingTyped
<1>2. ASSUME NEW p \in Client, NEW q \in Client, OnOffer(p, q) PROVE Effect
  BY <1>2, OnOfferEffect DEF Effect, AtSignal
<1>3. ASSUME NEW p \in Client, NEW q \in Client, OnAnswer(p, q) PROVE Effect
  BY <1>3, OnAnswerEffect DEF Effect, AtSignal
<1>4. ASSUME NEW p \in Client, NEW q \in Client, OnEnd(p, q) PROVE Effect
  BY <1>4, OnEndEffect DEF Effect
<1>5. ASSUME NEW p \in Client, NEW q \in Client, OnCandidate(p, q) PROVE Effect
  BY <1>5, OnCandidateEffect DEF Effect, AtSignal
<1>6. ASSUME NEW p \in Client, ClickAccept(p) PROVE Effect
  BY <1>6, ClickAcceptEffect DEF Effect, CallsTyped, HearingTyped
<1>7. ASSUME NEW p \in Client, NEW t \in tasks[p], Recovered(p, t) PROVE Effect
  BY <1>7, RecoveredEffect DEF Effect, AtSetup
<1>8. ASSUME NEW p \in Client, NEW t \in tasks[p], MicGranted(p, t) PROVE Effect
  BY <1>8, MicGrantedEffect DEF Effect, AtSetup
<1>9. ASSUME NEW p \in Client, NEW t \in tasks[p], Negotiated(p, t) PROVE Effect
  BY <1>9, NegotiatedEffect DEF Effect, AtSetup
<1>10. ASSUME NEW p \in Client, NEW t \in tasks[p], Attached(p, t) PROVE Effect
  BY <1>10, AttachedEffect DEF Effect
<1>11. ASSUME NEW p \in Client, HangUp(p) PROVE Effect
  BY <1>11, HangUpEffect DEF Effect
<1>12. ASSUME NEW p \in Client, RingTimeout(p) PROVE Effect
  BY <1>12, RingTimeoutEffect DEF Effect
<1>13. ASSUME NEW p \in Client, ConnectTimeout(p) PROVE Effect
  BY <1>13, ConnectTimeoutEffect DEF Effect
<1>14. ASSUME NEW p \in Client, SocketDrops(p) PROVE Effect
  BY <1>14, SocketDropsEffect DEF Effect
<1>15. ASSUME NEW p \in Client, SocketReturns(p) PROVE Effect
  BY <1>15, SocketReturnsEffect DEF Effect
<1>16. ASSUME NEW p \in Client, NEW t \in tasks[p], MicDenied(p, t) PROVE Effect
  BY <1>16, MicDeniedEffect DEF Effect
<1>17. ASSUME NEW m \in DOMAIN rtc, Gathers(m) PROVE Effect
  <2>1. m \in 1 .. Len(rtc)
    BY <1>17 DEF CallsTyped, ManagersTyped
  <2>2. QED
    BY <1>17, <2>1, GathersEffect DEF Effect
<1>18. ASSUME NEW m \in DOMAIN rtc, Connects(m) PROVE Effect
  BY <1>18, ConnectsEffect DEF Effect
<1>19. ASSUME NEW m \in DOMAIN rtc, Breaks(m) PROVE Effect
  BY <1>19, BreaksEffect DEF Effect
<1>20. CASE UNCHANGED callVars
  BY <1>20, NothingIsQuiet DEF Effect, callVars
<1>21. QED
  BY <1>1, <1>2, <1>3, <1>4, <1>5, <1>6, <1>7, <1>8, <1>9, <1>10, <1>11, <1>12, <1>13, <1>14, <1>15, <1>16,
     <1>17, <1>18, <1>19, <1>20 DEF CallsNext, Continue, OnSignal

-----------------------------------------------------------------------------
(* What a step does to the signals under way.                              *)

\* A queue loses its first signal or all of them, or stays.
Shorter(w, v) == v = w \/ v = <<>> \/ (w # <<>> /\ v = Tail(w))

\* What a client sends: words, the description of a fresh manager or the candidate of one.
Sent(a, s) ==
  /\ s \in Signal
  /\ \/ s.type \in {"reject", "end"}
     \/ /\ s.mgr \in 1 .. Len(rtc) /\ rtc[s.mgr].owner = a
        /\ IF s.type = "candidate" THEN rtc'[s.mgr].gathered
                                   ELSE s.type \in {"offer", "answer"} /\ Fresh(rtc[s.mgr])

QueueStep(a, b) ==
  \E v : Shorter(wire[a][b], v) /\ \/ wire'[a][b] = v
                                   \/ \E s : Sent(a, s) /\ wire'[a][b] = Append(v, s)

WireStep == wire' \in [Client -> [Client -> Seq(Signal)]] /\ \A a, b \in Client : QueueStep(a, b)

\* Signals that stay under way are a step of the wire.
LEMMA SameWire == ASSUME WireTyped, wire' = wire PROVE WireStep
BY DEF WireTyped, WireStep, QueueStep, Shorter

\* A signal goes to the end of one queue, or is lost when a socket is away.
LEMMA PostedWire ==
  ASSUME WireTyped, NEW p \in Client, NEW q \in Client, NEW s, Sent(p, s), wire' = Post(p, q, s) PROVE WireStep
<1>1. CASE ~(ready[p] /\ ready[q])
  BY <1>1, SameWire DEF Post
<1>2. CASE ready[p] /\ ready[q]
  <2> DEFINE w == Append(wire[p][q], s)
  <2>1. wire[p][q] \in Seq(Signal) /\ s \in Signal
    BY DEF WireTyped, Sent
  <2>2. w \in Seq(Signal)
    BY <2>1
  <2>3. wire' = [wire EXCEPT ![p][q] = w]
    BY <1>2 DEF Post
  <2>4. wire'[p][q] = w
    BY <2>3 DEF WireTyped
  <2>5. QueueStep(p, q)
    BY <2>4 DEF QueueStep, Shorter
  <2> HIDE DEF w
  <2>6. wire' \in [Client -> [Client -> Seq(Signal)]]
    BY <2>2, <2>3 DEF WireTyped
  <2>7. ASSUME NEW a \in Client, NEW b \in Client, <<a, b>> # <<p, q>> PROVE QueueStep(a, b)
    <3>1. wire'[a][b] = wire[a][b]
      BY <2>3, <2>7 DEF WireTyped
    <3>2. QED
      BY <3>1 DEF QueueStep, Shorter
  <2>8. QED
    BY <2>5, <2>6, <2>7 DEF WireStep
<1>3. QED
  BY <1>1, <1>2

\* A reject or an end is such a signal.
LEMMA SaidWire ==
  ASSUME WireTyped, NEW p \in Client, NEW q \in Client, NEW type \in {"reject", "end"},
         wire' = Say(p, q, type)
  PROVE  WireStep
<1>1. Sent(p, [type |-> type, mgr |-> 0])
  BY DEF Sent, Signal
<1>2. QED
  BY <1>1, PostedWire DEF Say

\* Whoever reads a signal takes it from its queue.
LEMMA TakenWire ==
  ASSUME WireTyped, NEW p \in Client, NEW q \in Client, wire[q][p] # <<>>, wire' = Rest(p, q)
  PROVE  WireStep /\ wire'[q][p] = Tail(wire[q][p])
<1>1. wire[q][p] \in Seq(Signal)
  BY DEF WireTyped
<1>2. Tail(wire[q][p]) \in Seq(Signal)
  BY <1>1
<1>3. wire' = [wire EXCEPT ![q][p] = Tail(wire[q][p])]
  BY DEF Rest
<1>4. wire'[q][p] = Tail(wire[q][p]) /\ wire' \in [Client -> [Client -> Seq(Signal)]]
  BY <1>2, <1>3 DEF WireTyped
<1>5. QueueStep(q, p)
  BY <1>4 DEF QueueStep, Shorter
<1>6. ASSUME NEW a \in Client, NEW b \in Client, <<a, b>> # <<q, p>> PROVE QueueStep(a, b)
  <2>1. wire'[a][b] = wire[a][b]
    BY <1>3, <1>6 DEF WireTyped
  <2>2. QED
    BY <2>1 DEF QueueStep, Shorter
<1>7. QED
  BY <1>4, <1>5, <1>6 DEF WireStep

\* The busy answer.
LEMMA OfferedWire ==
  ASSUME WireTyped, NEW p \in Client, NEW q \in Client, OnOffer(p, q) PROVE WireStep
<1> DEFINE no == [type |-> "reject", mgr |-> 0]
           rest == Tail(wire[q][p])
           mid == Rest(p, q)
           now == Append(mid[p][q], no)
<1>1. wire[q][p] # <<>> /\ (wire' = mid \/ wire' = [mid EXCEPT ![p][q] = Append(@, no)])
  BY DEF OnOffer, Take
<1>2. wire[q][p] \in Seq(Signal) /\ no \in Signal
  BY DEF WireTyped, Signal
<1>3. rest \in Seq(Signal)
  BY <1>1, <1>2
<1>4. mid = [wire EXCEPT ![q][p] = rest]
  BY DEF Rest
<1> HIDE DEF rest, mid
<1>5. mid \in [Client -> [Client -> Seq(Signal)]] /\ \A a, b \in Client : Shorter(wire[a][b], mid[a][b])
  BY <1>1, <1>3, <1>4 DEF WireTyped, Shorter, rest
<1>6. CASE wire' = mid
  BY <1>5, <1>6 DEF WireStep, QueueStep
<1>7. CASE wire' # mid
  <2>1. wire' = [mid EXCEPT ![p][q] = now]
    BY <1>1, <1>7
  <2>2. now \in Seq(Signal)
    BY <1>2, <1>5
  <2>3. Sent(p, no)
    BY <1>2 DEF Sent
  <2>4. wire'[p][q] = Append(mid[p][q], no)
    BY <1>5, <2>1
  <2> HIDE DEF now, no
  <2>5. wire' \in [Client -> [Client -> Seq(Signal)]]
    BY <1>5, <2>1, <2>2
  <2>6. QueueStep(p, q)
    BY <1>5, <2>3, <2>4 DEF QueueStep
  <2>7. ASSUME NEW a \in Client, NEW b \in Client, <<a, b>> # <<p, q>> PROVE QueueStep(a, b)
    <3>1. wire'[a][b] = mid[a][b]
      BY <1>5, <2>1, <2>7
    <3>2. QED
      BY <1>5, <3>1 DEF QueueStep
  <2>8. QED
    BY <2>5, <2>6, <2>7 DEF WireStep
<1>8. QED
  BY <1>6, <1>7

\* A lost socket loses what was on its way from and to the client.
LEMMA DroppedWire == ASSUME WireTyped, NEW p \in Client, SocketDrops(p) PROVE WireStep
<1>1. wire' = [q \in Client |-> [r \in Client |-> IF p \in {q, r} THEN <<>> ELSE wire[q][r]]]
  BY DEF SocketDrops
<1>2. ASSUME NEW a \in Client, NEW b \in Client
      PROVE  wire'[a][b] \in Seq(Signal) /\ (wire'[a][b] = wire[a][b] \/ wire'[a][b] = <<>>)
  BY <1>1 DEF WireTyped
<1>3. wire' \in [Client -> [Client -> Seq(Signal)]]
  BY <1>1, <1>2
<1>4. ASSUME NEW a \in Client, NEW b \in Client PROVE QueueStep(a, b)
  BY <1>2 DEF QueueStep, Shorter
<1>5. QED
  BY <1>3, <1>4 DEF WireStep

\* The description of a setup comes from a fresh manager.
LEMMA NegotiatedWire ==
  ASSUME CallsTyped, SetupsAreFresh, NEW p \in Client, NEW t \in tasks[p], Negotiated(p, t) PROVE WireStep
<1>1. /\ t \in Setup /\ t.mgr \in 1 .. Len(rtc) /\ rtc[t.mgr].owner = p /\ Fresh(rtc[t.mgr]) /\ t.peer \in Client
      /\ t.mgr \in Nat /\ t.kind \in {"start", "accept"}
  BY DEF Negotiated, CallsTyped, SetupsTyped, SetupsAreFresh, SettingUp, Setup
<1>2. CASE rtc[t.mgr].pc /\ ready[p]
  <2> DEFINE s == [type |-> IF t.kind = "start" THEN "offer" ELSE "answer", mgr |-> t.mgr]
  <2>1. wire' = Post(p, t.peer, s)
    BY <1>2 DEF Negotiated
  <2>2. s.type \in {"offer", "answer"} /\ s \in Signal /\ s.mgr = t.mgr
    BY <1>1 DEF Signal
  <2> HIDE DEF s
  <2>3. Sent(p, s)
    BY <1>1, <2>2 DEF Sent
  <2>4. QED
    BY <1>1, <2>1, <2>3, PostedWire DEF CallsTyped
<1>3. CASE ~(rtc[t.mgr].pc /\ ready[p])
  <2>1. wire' = Say(p, t.peer, "reject") \/ wire' = wire
    BY <1>3 DEF Negotiated, Fails
  <2>2. QED
    BY <1>1, <2>1, SameWire, SaidWire DEF CallsTyped
<1>4. QED
  BY <1>2, <1>3

\* A manager sends its candidate when it has gathered it.
LEMMA GatheredWire == ASSUME CallsTyped, NEW m \in DOMAIN rtc, Gathers(m) PROVE WireStep
<1> DEFINE s == [type |-> "candidate", mgr |-> m]
<1>1. rtc \in Seq(Rtc) /\ m \in 1 .. Len(rtc) /\ rtc[m] \in Rtc
  BY DEF CallsTyped, ManagersTyped
<1>2. rtc[m].owner \in Client /\ rtc[m].peer \in Client
  BY <1>1 DEF Rtc
<1>3. s \in Signal
  BY <1>1 DEF Signal
<1>4. rtc'[m].gathered
  BY <1>1 DEF Gathers, Rtc
<1>5. Sent(rtc[m].owner, s)
  BY <1>1, <1>3, <1>4 DEF Sent
<1>6. wire' = Post(rtc[m].owner, rtc[m].peer, s)
  BY DEF Gathers
<1> HIDE DEF s
<1>7. QED
  BY <1>2, <1>5, <1>6, PostedWire DEF CallsTyped

\* A setup that fails sends at most a reject.
LEMMA FailedWire ==
  ASSUME CallsTyped, NEW p \in Client, NEW t \in tasks[p], NEW s, Fails(p, t, s) PROVE WireStep
<1>1. t.peer \in Client
  BY DEF CallsTyped, SetupsTyped, Setup
<1>2. wire' = Say(p, t.peer, "reject") \/ wire' = wire
  BY DEF Fails
<1>3. QED
  BY <1>1, <1>2, SameWire, SaidWire DEF CallsTyped

\* A timer that is set is for a client.
LEMMA TimerTyped == ASSUME CallsTyped, NEW p \in Client, NEW r \in {ui[p].ring, ui[p].conn}, r # Nobody PROVE r.to \in Client
BY DEF CallsTyped, OverlaysTyped, Overlay, Timer

\* Every step is a step of the wire.
LEMMA StepWire ==
  ASSUME CallsTyped, SetupsAreFresh, [CallsNext]_callVars PROVE WireStep
<1> USE DEF CallsTyped
<1>1. ASSUME NEW p \in Client, NEW q \in Client, ClickCall(p, q) PROVE WireStep
  BY <1>1, SameWire DEF ClickCall
<1>2. ASSUME NEW p \in Client, NEW q \in Client, OnOffer(p, q) PROVE WireStep
  BY <1>2, OfferedWire
<1>3. ASSUME NEW p \in Client, NEW q \in Client, OnAnswer(p, q) PROVE WireStep
  BY <1>3, TakenWire DEF OnAnswer, Take
<1>4. ASSUME NEW p \in Client, NEW q \in Client, OnEnd(p, q) PROVE WireStep
  BY <1>4, TakenWire DEF OnEnd, Take
<1>5. ASSUME NEW p \in Client, NEW q \in Client, OnCandidate(p, q) PROVE WireStep
  BY <1>5, TakenWire DEF OnCandidate, Take
<1>6. ASSUME NEW p \in Client, ClickAccept(p) PROVE WireStep
  BY <1>6, SameWire DEF ClickAccept
<1>7. ASSUME NEW p \in Client, NEW t \in tasks[p], Recovered(p, t) PROVE WireStep
  BY <1>7, SameWire, FailedWire DEF Recovered
<1>8. ASSUME NEW p \in Client, NEW t \in tasks[p], MicGranted(p, t) PROVE WireStep
  BY <1>8, SameWire DEF MicGranted
<1>9. ASSUME NEW p \in Client, NEW t \in tasks[p], Negotiated(p, t) PROVE WireStep
  BY <1>9, NegotiatedWire
<1>10. ASSUME NEW p \in Client, NEW t \in tasks[p], Attached(p, t) PROVE WireStep
  BY <1>10, SameWire DEF Attached
<1>11. ASSUME NEW p \in Client, HangUp(p) PROVE WireStep
  <2>1. ui[p].peer \in Client
    BY <1>11 DEF HangUp, OverlaysTyped, Overlay
  <2>2. wire' = Say(p, ui[p].peer, "reject") \/ wire' = Say(p, ui[p].peer, "end")
    BY <1>11 DEF HangUp
  <2>3. QED
    BY <2>1, <2>2, SaidWire
<1>12. ASSUME NEW p \in Client, RingTimeout(p) PROVE WireStep
  <2>1. ui[p].ring.to \in Client
    BY <1>12, TimerTyped DEF RingTimeout
  <2>2. wire' = Say(p, ui[p].ring.to, "reject") \/ wire' = Say(p, ui[p].ring.to, "end") \/ wire' = wire
    BY <1>12 DEF RingTimeout
  <2>3. QED
    BY <2>1, <2>2, SaidWire, SameWire
<1>13. ASSUME NEW p \in Client, ConnectTimeout(p) PROVE WireStep
  <2>1. ui[p].conn.to \in Client
    BY <1>13, TimerTyped DEF ConnectTimeout
  <2>2. wire' = Say(p, ui[p].conn.to, "end") \/ wire' = wire
    BY <1>13 DEF ConnectTimeout
  <2>3. QED
    BY <2>1, <2>2, SaidWire, SameWire
<1>14. ASSUME NEW p \in Client, SocketDrops(p) PROVE WireStep
  BY <1>14, DroppedWire
<1>15. ASSUME NEW p \in Client, SocketReturns(p) PROVE WireStep
  BY <1>15, SameWire DEF SocketReturns
<1>16. ASSUME NEW p \in Client, NEW t \in tasks[p], MicDenied(p, t) PROVE WireStep
  BY <1>16, FailedWire DEF MicDenied
<1>17. ASSUME NEW m \in DOMAIN rtc, Gathers(m) PROVE WireStep
  BY <1>17, GatheredWire
<1>18. ASSUME NEW m \in DOMAIN rtc, Connects(m) PROVE WireStep
  BY <1>18, SameWire DEF Connects
<1>19. ASSUME NEW m \in DOMAIN rtc, Breaks(m) PROVE WireStep
  BY <1>19, SameWire DEF Breaks
<1>20. CASE UNCHANGED callVars
  BY <1>20, SameWire DEF callVars
<1>21. QED
  BY <1>1, <1>2, <1>3, <1>4, <1>5, <1>6, <1>7, <1>8, <1>9, <1>10, <1>11, <1>12, <1>13, <1>14, <1>15, <1>16,
     <1>17, <1>18, <1>19, <1>20 DEF CallsNext, Continue, OnSignal
-----------------------------------------------------------------------------
(* The invariant, part by part.                                            *)

\* What the types of the variables say of their fields.
LEMMA Basics ==
  ASSUME CallsTyped
  PROVE  /\ rtc \in Seq(Rtc) /\ Len(rtc) \in Nat
         /\ \A m \in 1 .. Len(rtc) :
              /\ rtc[m].owner \in Client /\ rtc[m].gen \in Nat /\ rtc[m].remote \in Nat
              /\ {rtc[m].sdp, rtc[m].gathered, rtc[m].mic} \subseteq BOOLEAN
         /\ ui \in [Client -> Overlay]
         /\ \A p \in Client :
              /\ ui[p].gen \in Nat /\ ui[p].mgr \in 0 .. Len(rtc) /\ ui[p].sdp \in 0 .. Len(rtc)
              /\ ui[p].peer \in Client \cup {Nobody}
              /\ ui[p].state = "idle" <=> ui[p].peer = Nobody
              /\ ui[p].state \in {"idle", "incoming"} => ui[p].mgr = 0
         /\ tasks \in [Client -> SUBSET Setup]
         /\ \A p \in Client : \A t \in tasks[p] :
              /\ t.kind \in {"start", "accept"} /\ t.peer \in Client /\ t.sdp \in 0 .. Len(rtc)
              /\ t.step \in {"recover", "media", "negotiate", "attach"}
              /\ t.step # "recover" => t.mgr \in 1 .. Len(rtc) /\ rtc[t.mgr].owner = p
         /\ raced \in [Client -> BOOLEAN]
         /\ early \in [Client -> SUBSET (Client \X (1 .. Len(rtc)))]
         /\ heard \in [Client -> SUBSET (1 .. Len(rtc))]
<1>1. rtc \in Seq(Rtc) /\ Len(rtc) \in Nat
  BY DEF CallsTyped, ManagersTyped
<1>2. ASSUME NEW m \in 1 .. Len(rtc)
      PROVE  /\ rtc[m].owner \in Client /\ rtc[m].gen \in Nat /\ rtc[m].remote \in Nat
             /\ {rtc[m].sdp, rtc[m].gathered, rtc[m].mic} \subseteq BOOLEAN
  <2>1. rtc[m] \in Rtc
    BY <1>1
  <2>2. QED
    BY <2>1 DEF Rtc
<1>3. ASSUME NEW p \in Client
      PROVE  /\ ui[p].gen \in Nat /\ ui[p].mgr \in 0 .. Len(rtc) /\ ui[p].sdp \in 0 .. Len(rtc)
             /\ ui[p].peer \in Client \cup {Nobody}
             /\ ui[p].state = "idle" <=> ui[p].peer = Nobody
             /\ ui[p].state \in {"idle", "incoming"} => ui[p].mgr = 0
  BY DEF CallsTyped, OverlaysTyped, Overlay
<1>4. ASSUME NEW p \in Client, NEW t \in tasks[p]
      PROVE  /\ t.kind \in {"start", "accept"} /\ t.peer \in Client /\ t.sdp \in 0 .. Len(rtc)
             /\ t.step \in {"recover", "media", "negotiate", "attach"}
             /\ t.step # "recover" => t.mgr \in 1 .. Len(rtc) /\ rtc[t.mgr].owner = p
  BY DEF CallsTyped, SetupsTyped, Setup
<1>5. QED
  BY <1>1, <1>2, <1>3, <1>4 DEF CallsTyped, OverlaysTyped, SetupsTyped, HearingTyped

\* The overlay after a reset has its type.
LEMMA IdleTyped == ASSUME CallsTyped, NEW p \in Client PROVE Idle(ui[p].gen + 1) \in Overlay
BY Basics DEF Idle, Overlay

\* A manager stays whose it is, and what it gathered it has gathered.
Grows ==
  /\ rtc' \in Seq(Rtc) /\ Len(rtc') \in Nat /\ Len(rtc) <= Len(rtc')
  /\ \A m \in 1 .. Len(rtc) :
       rtc'[m].owner = rtc[m].owner /\ rtc'[m].gen = rtc[m].gen /\ (rtc[m].gathered => rtc'[m].gathered)

\* A step of one manager that leaves it its owner and its generation lets the managers grow.
LEMMA OneGrows ==
  ASSUME CallsTyped, NEW n, OneManager(n), rtc'[n].owner = rtc[n].owner, rtc'[n].gen = rtc[n].gen,
         rtc[n].gathered => rtc'[n].gathered
  PROVE  Grows
BY Basics DEF OneManager, Grows

\* No effect loses a manager.
LEMMA EffectGrows == ASSUME CallsTyped, Effect PROVE Grows
<1>1. CASE Unmoved
  BY <1>1, Basics DEF Grows, Unmoved, SameManager
<1>2. ASSUME NEW p \in Client, Cut(p) PROVE Grows
  <2>1. rtc' \in Seq(Rtc) /\ Len(rtc') = Len(rtc) /\ \A m \in 1 .. Len(rtc) : SameManager(rtc'[m], rtc[m])
    BY <1>2 DEF Cut
  <2>2. QED
    BY <2>1, Basics DEF Grows, SameManager
<1>3. ASSUME NEW p \in Client, NEW t, Clicks(p, t) PROVE Grows
  BY <1>3, Basics DEF Grows, Clicks
<1>4. ASSUME NEW p \in Client, NEW t \in tasks[p], Begins(p, t) PROVE Grows
  BY <1>4, Basics DEF Grows, Begins
<1>5. ASSUME NEW p \in Client, NEW t \in tasks[p], Grants(p, t) PROVE Grows
  BY <1>5, OneGrows DEF Grants, SameManager
<1>6. ASSUME NEW p \in Client, NEW t \in tasks[p], Negotiates(p, t) PROVE Grows
  BY <1>6, OneGrows DEF Negotiates
<1>7. ASSUME NEW p \in Client, NEW t \in tasks[p], NegotiatesLate(p, t) PROVE Grows
  BY <1>7, Basics DEF Grows, NegotiatesLate
<1>8. ASSUME NEW p \in Client, NEW q \in Client, Rings(p, q) PROVE Grows
  BY <1>8, Basics DEF Grows, Rings
<1>9. ASSUME NEW p \in Client, NEW q \in Client, Answers(p, q) PROVE Grows
  BY <1>9, OneGrows DEF Answers, SameManager
<1>10. ASSUME NEW p \in Client, NEW q \in Client, Hears(p, q) PROVE Grows
  <2>1. CASE ui[p].mgr = 0
    BY <1>10, <2>1, Basics DEF Grows, Hears
  <2>2. CASE ui[p].mgr # 0
    BY <1>10, <2>2, OneGrows DEF Hears, SameManager
  <2>3. QED
    BY <2>1, <2>2
<1>11. ASSUME NEW m \in 1 .. Len(rtc), GathersOne(m) PROVE Grows
  BY <1>11, OneGrows DEF GathersOne
<1>12. QED
  BY <1>1, <1>2, <1>3, <1>4, <1>5, <1>6, <1>7, <1>8, <1>9, <1>10, <1>11 DEF Effect, AtSetup, AtSignal

\* Every overlay shows what it showed, and no manager is new.
Steady ==
  /\ ui' \in [Client -> Overlay] /\ \A p \in Client : SameCall(ui'[p], ui[p])
  /\ Len(rtc') = Len(rtc)

\* The overlays are steady unless a call is cut, begins or rings.
LEMMA SteadyUnless ==
  ASSUME CallsTyped, Effect
  PROVE  \/ Steady
         \/ \E p \in Client : Cut(p) \/ (\E t \in tasks[p] : Begins(p, t)) \/ (\E q \in Client : Rings(p, q))
<1> DEFINE Goal == \/ Steady
                   \/ \E p \in Client : Cut(p) \/ (\E t \in tasks[p] : Begins(p, t)) \/ (\E q \in Client : Rings(p, q))
<1>1. ASSUME ui' = ui, Len(rtc') = Len(rtc) PROVE Steady
  BY <1>1, Basics, SameOverlays DEF Steady
<1>2. ASSUME NEW n, OneManager(n) PROVE Len(rtc') = Len(rtc)
  BY <1>2 DEF OneManager
<1>3. Unmoved => Steady
  BY DEF Unmoved, Steady
<1>4. ASSUME NEW p \in Client, NEW t, Clicks(p, t) PROVE Steady
  BY <1>1, <1>4 DEF Clicks
<1>5. ASSUME NEW p \in Client, NEW t \in tasks[p], Grants(p, t) \/ Negotiates(p, t) \/ NegotiatesLate(p, t) PROVE Steady
  BY <1>1, <1>2, <1>5 DEF Grants, Negotiates, NegotiatesLate
<1>6. ASSUME NEW p \in Client, NEW q \in Client, Answers(p, q) PROVE Steady
  BY <1>2, <1>6 DEF Answers, Steady
<1>7. ASSUME NEW p \in Client, NEW q \in Client, Hears(p, q) PROVE Steady
  BY <1>1, <1>2, <1>7 DEF Hears
<1>8. ASSUME NEW m \in 1 .. Len(rtc), GathersOne(m) PROVE Steady
  BY <1>1, <1>2, <1>8 DEF GathersOne
<1>9. QED
  BY <1>3, <1>4, <1>5, <1>6, <1>7, <1>8 DEF Effect, AtSetup, AtSignal

\* What the overlay of p becomes in the steps that change it.
LEMMA CutShows ==
  ASSUME CallsTyped, NEW p \in Client, Cut(p)
  PROVE  /\ ui' \in [Client -> Overlay] /\ \A q \in Client \ {p} : ui'[q] = ui[q]
         /\ ui'[p].gen = ui[p].gen + 1 /\ ui'[p].mgr = 0 /\ ui'[p].state = "idle" /\ ui'[p].peer = Nobody /\ ui'[p].sdp = 0
<1> DEFINE v == Idle(ui[p].gen + 1)
<1>1. v.gen = ui[p].gen + 1 /\ v.mgr = 0 /\ v.state = "idle" /\ v.peer = Nobody /\ v.sdp = 0
  BY DEF Idle
<1>2. v \in Overlay
  BY IdleTyped
<1>3. ui' = [ui EXCEPT ![p] = v]
  BY DEF Cut
<1> HIDE DEF v
<1>4. QED
  BY <1>1, <1>2, <1>3, Basics

\* The overlay of a call that begins holds the new manager.
LEMMA BeginShows ==
  ASSUME CallsTyped, NEW p \in Client, NEW t \in tasks[p], Begins(p, t)
  PROVE  /\ ui' \in [Client -> Overlay] /\ \A q \in Client \ {p} : ui'[q] = ui[q]
         /\ ui'[p].gen = ui[p].gen + 1 /\ ui'[p].mgr = Len(rtc) + 1 /\ ui'[p].state \notin {"idle", "incoming"}
         /\ ui'[p].peer = t.peer /\ ui'[p].sdp = ui[p].sdp /\ t.peer # Nobody
<1>1. PICK v \in Overlay :
        /\ ui' = [ui EXCEPT ![p] = v] /\ v.gen = ui[p].gen + 1 /\ v.peer = t.peer /\ v.sdp = ui[p].sdp
        /\ v.mgr = Len(rtc) + 1 /\ v.state \in {"outgoing", "active"}
  BY DEF Begins
<1>2. QED
  BY <1>1, Basics, CallsAssumption

\* The overlay of an offer that rings shows its sender.
LEMMA RingShows ==
  ASSUME CallsTyped, NEW p \in Client, NEW q \in Client, Rings(p, q)
  PROVE  /\ ui' \in [Client -> Overlay] /\ \A o \in Client \ {p} : ui'[o] = ui[o]
         /\ ui'[p].gen = ui[p].gen /\ ui'[p].mgr = 0 /\ ui'[p].state = "incoming" /\ ui'[p].peer = q /\ q # Nobody
         /\ ui'[p].sdp = wire[q][p][1].mgr /\ ui[p].mgr = 0 /\ ui[p].state = "idle" /\ rtc' = rtc
<1>1. PICK v \in Overlay :
        /\ ui' = [ui EXCEPT ![p] = v] /\ v.state = "incoming" /\ v.peer = q /\ v.sdp = wire[q][p][1].mgr
        /\ v.mgr = 0 /\ v.gen = ui[p].gen
  BY DEF Rings
<1>2. ui[p].state = "idle" /\ rtc' = rtc
  BY DEF Rings
<1>3. QED
  BY <1>1, <1>2, Basics, CallsAssumption

\* The signal that p reads next.
LEMMA NextInLine ==
  ASSUME CallsTyped, WireInOrder, NEW p \in Client, NEW q \in Client, wire[q][p] # <<>>
  PROVE  LET s == wire[q][p][1] IN
         /\ s.type \in {"offer", "answer", "candidate"} => s.mgr \in 1 .. Len(rtc) /\ rtc[s.mgr].owner = q
         /\ s.type = "candidate" => rtc[s.mgr].gathered
         /\ s.type \in {"offer", "answer"} => s.mgr \notin heard[p]
<1>1. wire[q][p] \in Seq(Signal) /\ InLine(rtc, wire[q][p], q, heard[p])
  BY DEF CallsTyped, WireTyped, WireInOrder
<1>2. 1 \in 1 .. Len(wire[q][p])
  BY <1>1
<1>3. QED
  BY <1>1, <1>2 DEF InLine

\* The overlays keep their type.
LEMMA OverlaysTypedStep == ASSUME CallsTyped, WireInOrder, Effect PROVE OverlaysTyped'
<1>1. CASE Steady
  <2>1. ASSUME NEW p \in Client
        PROVE  /\ ui'[p].sdp \in 0 .. Len(rtc') /\ ui'[p].mgr \in 0 .. Len(rtc')
               /\ ui'[p].state = "idle" <=> ui'[p].peer = Nobody
               /\ ui'[p].state \in {"idle", "incoming"} => ui'[p].mgr = 0
    BY <1>1, Basics DEF Steady, SameCall
  <2>2. QED
    BY <1>1, <2>1 DEF Steady, OverlaysTyped
<1>2. ASSUME NEW p \in Client, Cut(p) PROVE OverlaysTyped'
  <2>1. Len(rtc') = Len(rtc)
    BY <1>2 DEF Cut
  <2>2. QED
    BY <1>2, <2>1, CutShows, Basics DEF OverlaysTyped
<1>3. ASSUME NEW p \in Client, NEW t \in tasks[p], Begins(p, t) PROVE OverlaysTyped'
  <2>1. Len(rtc') = Len(rtc) + 1
    BY <1>3 DEF Begins
  <2>2. ASSUME NEW o \in Client
        PROVE  /\ ui'[o].sdp \in 0 .. Len(rtc') /\ ui'[o].mgr \in 0 .. Len(rtc')
               /\ ui'[o].state = "idle" <=> ui'[o].peer = Nobody
               /\ ui'[o].state \in {"idle", "incoming"} => ui'[o].mgr = 0
    <3>1. CASE o = p
      BY <1>3, <2>1, <3>1, BeginShows, Basics
    <3>2. CASE o # p
      BY <1>3, <2>1, <3>2, BeginShows, Basics
    <3>3. QED
      BY <3>1, <3>2
  <2>3. QED
    BY <1>3, <2>2, BeginShows DEF OverlaysTyped
<1>4. ASSUME NEW p \in Client, NEW q \in Client, Rings(p, q) PROVE OverlaysTyped'
  <2>1. wire[q][p][1].mgr \in 1 .. Len(rtc)
    BY <1>4, NextInLine DEF Rings
  <2>2. ASSUME NEW o \in Client
        PROVE  /\ ui'[o].sdp \in 0 .. Len(rtc') /\ ui'[o].mgr \in 0 .. Len(rtc')
               /\ ui'[o].state = "idle" <=> ui'[o].peer = Nobody
               /\ ui'[o].state \in {"idle", "incoming"} => ui'[o].mgr = 0
    <3>1. CASE o = p
      BY <1>4, <2>1, <3>1, RingShows, Basics
    <3>2. CASE o # p
      BY <1>4, <2>1, <3>2, RingShows, Basics
    <3>3. QED
      BY <3>1, <3>2
  <2>3. QED
    BY <1>4, <2>2, RingShows DEF OverlaysTyped
<1>5. QED
  BY <1>1, <1>2, <1>3, <1>4, SteadyUnless

\* What the step must show of a manager, and of an overlay.
GenOK(m) == rtc[m].gen <= ui[rtc[m].owner].gen /\ (rtc[m].gen = ui[rtc[m].owner].gen => ui[rtc[m].owner].mgr = m)
HoldOK(o) == ui[o].mgr # 0 => rtc[ui[o].mgr].owner = o /\ rtc[ui[o].mgr].gen = ui[o].gen

\* Overlays and managers stay of one generation.
LEMMA GensAgreeStep == ASSUME CallsTyped, GensAgree, HoldsOwn, Effect PROVE GensAgree' /\ HoldsOwn'
<1>1. Grows
  BY EffectGrows
<1>2. ASSUME NEW m \in 1 .. Len(rtc)
      PROVE  /\ rtc'[m].owner = rtc[m].owner /\ rtc'[m].gen = rtc[m].gen /\ rtc[m].owner \in Client
             /\ rtc[m].gen \in Nat /\ GenOK(m)
  BY <1>1, Basics DEF Grows, GensAgree, GenOK
<1>3. ASSUME NEW o \in Client PROVE ui[o].mgr \in 0 .. Len(rtc) /\ ui[o].gen \in Nat /\ HoldOK(o)
  BY Basics DEF HoldsOwn, HoldOK
<1>4. SUFFICES (\A m \in 1 .. Len(rtc') : GenOK(m)') /\ \A o \in Client : HoldOK(o)'
  BY DEF GensAgree, HoldsOwn, GenOK, HoldOK
<1>5. CASE Steady
  <2>1. Len(rtc') = Len(rtc) /\ \A o \in Client : ui'[o].gen = ui[o].gen /\ ui'[o].mgr = ui[o].mgr
    BY <1>5 DEF Steady, SameCall
  <2>2. ASSUME NEW m \in 1 .. Len(rtc) PROVE GenOK(m)'
    BY <1>2, <2>1 DEF GenOK
  <2>3. ASSUME NEW o \in Client PROVE HoldOK(o)'
    BY <1>2, <1>3, <2>1 DEF HoldOK
  <2>4. QED
    BY <2>1, <2>2, <2>3
<1>6. ASSUME NEW p \in Client, Cut(p) PROVE (\A m \in 1 .. Len(rtc') : GenOK(m)') /\ \A o \in Client : HoldOK(o)'
  <2>1. Len(rtc') = Len(rtc)
    BY <1>6 DEF Cut
  <2>2. /\ \A o \in Client \ {p} : ui'[o] = ui[o]
        /\ ui'[p].gen = ui[p].gen + 1 /\ ui'[p].mgr = 0
    BY <1>6, CutShows
  <2>3. ASSUME NEW m \in 1 .. Len(rtc) PROVE GenOK(m)'
    <3> DEFINE o == rtc[m].owner
    <3>1. o \in Client /\ rtc'[m].owner = o /\ rtc[m].gen <= ui[o].gen /\ rtc'[m].gen = rtc[m].gen
          /\ rtc[m].gen \in Nat /\ (rtc[m].gen = ui[o].gen => ui[o].mgr = m)
      BY <1>2 DEF GenOK
    <3>2. ui[o].gen \in Nat
      BY <1>3, <3>1
    <3> HIDE DEF o
    <3>3. CASE o = p
      BY <2>2, <3>1, <3>2, <3>3 DEF GenOK
    <3>4. CASE o # p
      BY <2>2, <3>1, <3>4 DEF GenOK
    <3>5. QED
      BY <3>3, <3>4
  <2>4. ASSUME NEW o \in Client PROVE HoldOK(o)'
    BY <1>2, <1>3, <2>2 DEF HoldOK
  <2>5. QED
    BY <2>1, <2>3, <2>4
<1>7. ASSUME NEW p \in Client, NEW t \in tasks[p], Begins(p, t)
      PROVE  (\A m \in 1 .. Len(rtc') : GenOK(m)') /\ \A o \in Client : HoldOK(o)'
  <2>0. PICK n \in Nat : n = Len(rtc) + 1
    BY Basics
  <2>1. Len(rtc') = n /\ rtc'[n].owner = p /\ rtc'[n].gen = ui[p].gen + 1 /\ Len(rtc) \in Nat
    BY <1>7, <2>0, Basics DEF Begins
  <2>2. /\ \A o \in Client \ {p} : ui'[o] = ui[o]
        /\ ui'[p].gen = ui[p].gen + 1 /\ ui'[p].mgr = n
    BY <1>7, <2>0, BeginShows
  <2>3. ASSUME NEW m \in 1 .. Len(rtc) PROVE GenOK(m)'
    <3> DEFINE o == rtc[m].owner
    <3>1. o \in Client /\ rtc'[m].owner = o /\ rtc[m].gen <= ui[o].gen /\ rtc'[m].gen = rtc[m].gen
          /\ rtc[m].gen \in Nat /\ (rtc[m].gen = ui[o].gen => ui[o].mgr = m)
      BY <1>2 DEF GenOK
    <3>2. ui[o].gen \in Nat
      BY <1>3, <3>1
    <3> HIDE DEF o
    <3>3. CASE o = p
      BY <2>2, <3>1, <3>2, <3>3 DEF GenOK
    <3>4. CASE o # p
      BY <2>2, <3>1, <3>4 DEF GenOK
    <3>5. QED
      BY <3>3, <3>4
  <2>4. GenOK(n)'
    <3>1. ui[p].gen \in Nat
      BY <1>3
    <3>2. QED
      BY <2>1, <2>2, <3>1 DEF GenOK
  <2>5. ASSUME NEW o \in Client PROVE HoldOK(o)'
    <3>1. CASE o = p
      BY <2>1, <2>2, <3>1 DEF HoldOK
    <3>2. CASE o # p
      <4>1. ui[o].mgr # 0 => ui[o].mgr \in 1 .. Len(rtc)
        BY Basics
      <4>2. QED
        BY <1>2, <1>3, <2>2, <3>2, <4>1 DEF HoldOK, GenOK
    <3>3. QED
      BY <3>1, <3>2
  <2>6. ASSUME NEW m \in 1 .. Len(rtc') PROVE GenOK(m)'
    <3>1. m \in 1 .. Len(rtc) \/ m = n
      BY <2>0, <2>1
    <3>2. QED
      BY <2>3, <2>4, <3>1
  <2>7. QED
    BY <2>5, <2>6
<1>8. ASSUME NEW p \in Client, NEW q \in Client, Rings(p, q)
      PROVE  (\A m \in 1 .. Len(rtc') : GenOK(m)') /\ \A o \in Client : HoldOK(o)'
  <2>1. rtc' = rtc /\ \A o \in Client : ui'[o].gen = ui[o].gen /\ ui'[o].mgr = ui[o].mgr
    BY <1>8, RingShows
  <2>2. ASSUME NEW m \in 1 .. Len(rtc) PROVE GenOK(m)'
    BY <1>2, <2>1 DEF GenOK
  <2>3. ASSUME NEW o \in Client PROVE HoldOK(o)'
    BY <1>2, <1>3, <2>1 DEF HoldOK
  <2>4. QED
    BY <2>1, <2>2, <2>3
<1>9. QED
  BY <1>5, <1>6, <1>7, <1>8, SteadyUnless

\* No setup is new or goes on.
LEMMA FewerUnless ==
  ASSUME CallsTyped, Effect
  PROVE  \/ FewerSetups
         \/ \E p \in Client : \/ \E t : Clicks(p, t)
                              \/ \E t \in tasks[p] : Begins(p, t) \/ Grants(p, t) \/ Negotiates(p, t)
<1>1. Unmoved \/ (\E p \in Client : Cut(p)) => FewerSetups
  BY DEF Unmoved, Cut
<1>2. ASSUME tasks' = tasks PROVE FewerSetups
  BY <1>2, SameSetups
<1>3. ASSUME NEW p \in Client, NEW t \in tasks[p], NegotiatesLate(p, t) PROVE FewerSetups
  BY <1>3, Basics DEF NegotiatesLate, FewerSetups
<1>4. ASSUME NEW p \in Client, NEW q \in Client, AtSignal(p, q) PROVE FewerSetups
  BY <1>2, <1>4 DEF AtSignal, Rings, Answers, Hears
<1>5. ASSUME NEW m \in 1 .. Len(rtc), GathersOne(m) PROVE FewerSetups
  BY <1>2, <1>5 DEF GathersOne
<1>6. QED
  BY <1>1, <1>3, <1>4, <1>5 DEF Effect, AtSetup

\* What the setups of a client are when one went on.
LEMMA GoneOn ==
  ASSUME CallsTyped, NEW p \in Client, NEW t \in tasks[p], NEW h, GoesOn(p, t, h)
  PROVE  /\ tasks' \in [Client -> SUBSET Setup] /\ \A o \in Client \ {p} : tasks'[o] = tasks[o]
         /\ tasks'[p] = (tasks[p] \ {t}) \cup {h} /\ h.kind = t.kind /\ h.peer = t.peer /\ h.sdp = t.sdp
BY Basics DEF GoesOn

\* What they are after a click.
LEMMA Clicked ==
  ASSUME CallsTyped, NEW p \in Client, NEW t, Clicks(p, t)
  PROVE  /\ tasks' \in [Client -> SUBSET Setup] /\ \A o \in Client \ {p} : tasks'[o] = tasks[o]
         /\ tasks'[p] = tasks[p] \cup {t} /\ t.step = "recover" /\ t.sdp \in 0 .. Len(rtc)
         /\ UNCHANGED <<ui, early, rtc, heard, raced>>
BY Basics DEF Clicks

\* How a setup goes on, in the three steps it may take.
LEMMA BeginsSetup ==
  ASSUME CallsTyped, NEW p \in Client, NEW t \in tasks[p], Begins(p, t)
  PROVE  \E h : GoesOn(p, t, h) /\ h.step = "media" /\ h.mgr = Len(rtc) + 1 /\ h.gen = ui[p].gen + 1
BY DEF Begins

\* What they are after the microphone was granted.
LEMMA GrantsSetup ==
  ASSUME CallsTyped, NEW p \in Client, NEW t \in tasks[p], Grants(p, t)
  PROVE  /\ \E h : GoesOn(p, t, h) /\ h.step = "negotiate" /\ h.mgr = t.mgr /\ h.gen = t.gen
         /\ t.step = "media" /\ t.mgr \in 1 .. Len(rtc) /\ rtc[t.mgr].owner = p
BY Basics DEF Grants

\* What they are after the description was made.
LEMMA NegotiatesSetup ==
  ASSUME CallsTyped, NEW p \in Client, NEW t \in tasks[p], Negotiates(p, t)
  PROVE  /\ \E h : GoesOn(p, t, h) /\ h.step = "attach" /\ h.mgr = t.mgr /\ h.gen = t.gen
         /\ t.step = "negotiate" /\ t.mgr \in 1 .. Len(rtc) /\ rtc[t.mgr].owner = p
BY Basics DEF Negotiates

\* What SetupsTyped says of one setup.
SetupOK(p, t) ==
  t.sdp \in 0 .. Len(rtc) /\ (t.step # "recover" => t.mgr \in 1 .. Len(rtc) /\ rtc[t.mgr].owner = p)

\* The setups keep their type.
LEMMA SetupsTypedStep == ASSUME CallsTyped, Effect PROVE SetupsTyped'
<1>1. Grows
  BY EffectGrows
<1>2. ASSUME NEW p \in Client, NEW t \in tasks[p] PROVE SetupOK(p, t)'
  <2>1. t.sdp \in 0 .. Len(rtc) /\ (t.step # "recover" => t.mgr \in 1 .. Len(rtc) /\ rtc[t.mgr].owner = p)
    BY Basics
  <2>2. /\ Len(rtc) \in Nat /\ Len(rtc') \in Nat /\ Len(rtc) <= Len(rtc')
        /\ \A m \in 1 .. Len(rtc) : rtc'[m].owner = rtc[m].owner
    BY <1>1, Basics DEF Grows
  <2>3. QED
    BY <2>1, <2>2 DEF SetupOK
<1>3. SUFFICES tasks' \in [Client -> SUBSET Setup] /\ \A o \in Client : \A u \in tasks'[o] : SetupOK(o, u)'
  BY DEF SetupsTyped, SetupOK
<1> DEFINE Goal == tasks' \in [Client -> SUBSET Setup] /\ \A o \in Client : \A u \in tasks'[o] : SetupOK(o, u)'
<1>4. CASE FewerSetups
  BY <1>2, <1>4 DEF FewerSetups
<1>5. ASSUME NEW p \in Client, NEW t, Clicks(p, t) PROVE Goal
  <2>1. SetupOK(p, t)'
    BY <1>5, Clicked DEF SetupOK
  <2>2. QED
    BY <1>2, <1>5, <2>1, Clicked
<1>6. ASSUME NEW p \in Client, NEW t \in tasks[p], NEW h, GoesOn(p, t, h),
             h.mgr \in 1 .. Len(rtc') /\ rtc'[h.mgr].owner = p
      PROVE  Goal
  <2>1. SetupOK(p, h)'
    BY <1>1, <1>6, GoneOn, Basics DEF SetupOK, Grows
  <2>2. QED
    BY <1>2, <1>6, <2>1, GoneOn
<1>7. ASSUME NEW p \in Client, NEW t \in tasks[p], Begins(p, t) PROVE Goal
  <2>1. Len(rtc) \in Nat /\ Len(rtc') = Len(rtc) + 1 /\ rtc'[Len(rtc) + 1].owner = p
    BY <1>7, Basics DEF Begins
  <2>2. QED
    BY <1>6, <1>7, <2>1, BeginsSetup
<1>8. ASSUME NEW p \in Client, NEW t \in tasks[p], Grants(p, t) \/ Negotiates(p, t) PROVE Goal
  <2>1. /\ t.mgr \in 1 .. Len(rtc) /\ rtc[t.mgr].owner = p
        /\ \E h : GoesOn(p, t, h) /\ h.mgr = t.mgr
    BY <1>8, GrantsSetup, NegotiatesSetup
  <2>2. t.mgr \in 1 .. Len(rtc') /\ rtc'[t.mgr].owner = p
    BY <1>1, <2>1, Basics DEF Grows
  <2>3. QED
    BY <1>6, <2>1, <2>2
<1>9. QED
  BY <1>4, <1>5, <1>7, <1>8, FewerUnless

\* What is heard, what waits and what raced keep their types.
LEMMA HearingTypedStep ==
  ASSUME CallsTyped, WireInOrder, Effect
  PROVE  /\ raced' \in [Client -> BOOLEAN]
         /\ early' \in [Client -> SUBSET (Client \X (1 .. Len(rtc')))] /\ heard' \in [Client -> SUBSET (1 .. Len(rtc'))]
<1> DEFINE Goal == /\ raced' \in [Client -> BOOLEAN]
                   /\ early' \in [Client -> SUBSET (Client \X (1 .. Len(rtc')))]
                   /\ heard' \in [Client -> SUBSET (1 .. Len(rtc'))]
<1>1. 1 .. Len(rtc) \subseteq 1 .. Len(rtc')
  BY EffectGrows, Basics DEF Grows
<1>2. /\ raced \in [Client -> BOOLEAN]
      /\ early \in [Client -> SUBSET (Client \X (1 .. Len(rtc')))] /\ heard \in [Client -> SUBSET (1 .. Len(rtc'))]
  BY <1>1, Basics
<1> HIDE DEF Goal
<1>3. ASSUME UNCHANGED <<early, heard, raced>> PROVE Goal
  BY <1>2, <1>3 DEF Goal
<1>4. ASSUME NEW p \in Client, Cut(p) PROVE Goal
  BY <1>2, <1>4 DEF Cut, Goal
<1>5. ASSUME NEW p \in Client, NEW t \in tasks[p], Begins(p, t) PROVE Goal
  BY <1>2, <1>5 DEF Begins, Goal
<1>6. ASSUME NEW p \in Client, NEW t \in tasks[p], Negotiates(p, t) PROVE Goal
  <2>1. Len(rtc') = Len(rtc)
    BY <1>6 DEF Negotiates, OneManager
  <2>2. QED
    BY <1>2, <1>6, <2>1 DEF Negotiates, Goal
<1>7. ASSUME NEW p \in Client, NEW q \in Client, Hears(p, q) PROVE Goal
  <2> DEFINE c == wire[q][p][1].mgr
  <2>1. c \in 1 .. Len(rtc')
    BY <1>1, <1>7, NextInLine DEF Hears
  <2>2. /\ heard' = [heard EXCEPT ![p] = @ \cup {c}] /\ raced' = raced
        /\ early' = early \/ early' = [early EXCEPT ![p] = @ \cup {<<q, c>>}]
    BY <1>7 DEF Hears
  <2> HIDE DEF c
  <2>3. QED
    BY <1>2, <2>1, <2>2 DEF Goal
<1>8. ASSUME NEW p \in Client, NEW t, Clicks(p, t) PROVE Goal
  BY <1>3, <1>8 DEF Clicks
<1>9. ASSUME NEW p \in Client, NEW t \in tasks[p], Grants(p, t) \/ NegotiatesLate(p, t) PROVE Goal
  BY <1>3, <1>9 DEF Grants, NegotiatesLate
<1>10. ASSUME NEW p \in Client, NEW q \in Client, Rings(p, q) \/ Answers(p, q) PROVE Goal
  BY <1>3, <1>10 DEF Rings, Answers
<1>11. ASSUME NEW m \in 1 .. Len(rtc), GathersOne(m) PROVE Goal
  BY <1>3, <1>11 DEF GathersOne
<1>12. ASSUME Unmoved PROVE Goal
  BY <1>3, <1>12 DEF Unmoved
<1>13. Goal
  BY <1>4, <1>5, <1>6, <1>7, <1>8, <1>9, <1>10, <1>11, <1>12 DEF Effect, AtSetup, AtSignal
<1>14. QED
  BY <1>13 DEF Goal

\* A fresh manager stays fresh unless its description is made.
LEMMA FreshStays ==
  ASSUME CallsTyped, Effect, NEW m \in 1 .. Len(rtc), Fresh(rtc[m])
  PROVE  \/ Fresh(rtc'[m])
         \/ \E p \in Client : \E t \in tasks[p] : t.mgr = m /\ (Negotiates(p, t) \/ NegotiatesLate(p, t))
<1>1. CASE Unmoved
  BY <1>1 DEF Unmoved, SameManager, SameLink, Fresh
<1>2. ASSUME NEW p \in Client, Cut(p) PROVE Fresh(rtc'[m])
  BY <1>2 DEF Cut, SameManager, SameLink, Fresh
<1>3. ASSUME NEW p \in Client, NEW t, Clicks(p, t) PROVE Fresh(rtc'[m])
  BY <1>3 DEF Clicks
<1>4. ASSUME NEW p \in Client, NEW t \in tasks[p], Begins(p, t) PROVE Fresh(rtc'[m])
  BY <1>4 DEF Begins
<1>5. ASSUME NEW p \in Client, NEW t \in tasks[p], Grants(p, t) PROVE Fresh(rtc'[m])
  BY <1>5 DEF Grants, OneManager, SameManager, SameLink, Fresh
<1>6. ASSUME NEW p \in Client, NEW t \in tasks[p], Negotiates(p, t), t.mgr # m PROVE Fresh(rtc'[m])
  BY <1>6 DEF Negotiates, OneManager
<1>7. ASSUME NEW p \in Client, NEW t \in tasks[p], NegotiatesLate(p, t), t.mgr # m PROVE Fresh(rtc'[m])
  BY <1>7 DEF NegotiatesLate, Fresh
<1>8. ASSUME NEW p \in Client, NEW q \in Client, Rings(p, q) PROVE Fresh(rtc'[m])
  BY <1>8 DEF Rings
<1>9. ASSUME NEW p \in Client, NEW q \in Client, Answers(p, q) PROVE Fresh(rtc'[m])
  BY <1>9 DEF Answers, OneManager, Fresh
<1>10. ASSUME NEW p \in Client, NEW q \in Client, Hears(p, q) PROVE Fresh(rtc'[m])
  BY <1>10 DEF Hears, OneManager, SameManager, Fresh
<1>11. ASSUME NEW n \in 1 .. Len(rtc), GathersOne(n) PROVE Fresh(rtc'[m])
  BY <1>11 DEF GathersOne, OneManager, Fresh
<1>12. QED
  BY <1>1, <1>2, <1>3, <1>4, <1>5, <1>6, <1>7, <1>8, <1>9, <1>10, <1>11 DEF Effect, AtSetup, AtSignal

\* A setup that is making its description is the only one to use its manager.
LEMMA OneSetup ==
  ASSUME CallsTyped, SetupsAreFresh, NEW p \in Client, NEW t \in tasks[p], t.step \in SettingUp,
         NEW o \in Client, NEW u \in tasks[o], u.step \in SettingUp, u.mgr = t.mgr
  PROVE  o = p /\ u = t
<1>1. o = p
  BY Basics DEF SettingUp
<1>2. QED
  BY <1>1 DEF SetupsAreFresh

\* A manager under setup stays fresh, and with one setup.
LEMMA SetupsAreFreshStep == ASSUME CallsTyped, SetupsAreFresh, Effect PROVE SetupsAreFresh'
<1> DEFINE Each(o) == \A u \in tasks'[o] : u.step \in SettingUp => Fresh(rtc'[u.mgr])
           Apart(o) == \A u, w \in tasks'[o] : {u.step, w.step} \subseteq SettingUp /\ u.mgr = w.mgr => u = w
<1>1. SUFFICES \A o \in Client : Each(o) /\ Apart(o)
  BY DEF SetupsAreFresh
<1>2. ASSUME NEW o \in Client, NEW u \in tasks[o], u.step \in SettingUp
      PROVE  /\ u.mgr \in 1 .. Len(rtc) /\ Fresh(rtc[u.mgr])
             /\ \/ Fresh(rtc'[u.mgr])
                \/ Negotiates(o, u) \/ NegotiatesLate(o, u)
  <2>1. u.mgr \in 1 .. Len(rtc) /\ Fresh(rtc[u.mgr])
    BY <1>2, Basics DEF SettingUp, SetupsAreFresh
  <2>2. ASSUME NEW p \in Client, NEW t \in tasks[p], t.mgr = u.mgr, Negotiates(p, t) \/ NegotiatesLate(p, t)
        PROVE  p = o /\ t = u
    <3>1. t.step \in SettingUp
      BY <2>2 DEF Negotiates, NegotiatesLate, SettingUp
    <3>2. QED
      BY <1>2, <2>2, <3>1, OneSetup
  <2>3. QED
    BY <2>1, <2>2, FreshStays
<1>3. ASSUME NEW o \in Client, NEW u \in tasks[o], u \in tasks'[o], u.step \in SettingUp, ~Fresh(rtc'[u.mgr]) PROVE FALSE
  <2>1. CASE Negotiates(o, u)
    <3>1. PICK h : GoesOn(o, u, h) /\ h.step = "attach"
      BY <2>1, NegotiatesSetup
    <3>2. QED
      BY <1>3, <3>1, GoneOn DEF SettingUp
  <2>2. CASE NegotiatesLate(o, u)
    BY <1>3, <2>2, Basics DEF NegotiatesLate
  <2>3. QED
    BY <1>2, <1>3, <2>1, <2>2
<1>4. ASSUME NEW o \in Client, tasks'[o] \subseteq tasks[o] PROVE Each(o) /\ Apart(o)
  BY <1>3, <1>4 DEF SetupsAreFresh
<1>5. CASE FewerSetups
  BY <1>4, <1>5 DEF FewerSetups
<1>6. ASSUME NEW p \in Client, NEW t, Clicks(p, t) PROVE \A o \in Client : Each(o) /\ Apart(o)
  <2>1. Each(p) /\ Apart(p)
    BY <1>3, <1>6, Clicked DEF SettingUp, SetupsAreFresh
  <2>2. QED
    BY <1>4, <1>6, <2>1, Clicked
<1>7. ASSUME NEW p \in Client, NEW t \in tasks[p], NEW h, GoesOn(p, t, h),
             h.step \in SettingUp => /\ Fresh(rtc'[h.mgr])
                                     /\ \A u \in tasks[p] \ {t} : u.step \in SettingUp => u.mgr # h.mgr
      PROVE  \A o \in Client : Each(o) /\ Apart(o)
  <2>1. Each(p)
    BY <1>3, <1>7, GoneOn
  <2>2. Apart(p)
    BY <1>7, GoneOn DEF SetupsAreFresh
  <2>3. QED
    BY <1>4, <1>7, <2>1, <2>2, GoneOn
<1>8. ASSUME NEW p \in Client, NEW t \in tasks[p], Begins(p, t) PROVE \A o \in Client : Each(o) /\ Apart(o)
  <2>1. PICK h : GoesOn(p, t, h) /\ h.mgr = Len(rtc) + 1
    BY <1>8, BeginsSetup
  <2>2. Fresh(rtc'[Len(rtc) + 1])
    BY <1>8 DEF Begins
  <2>3. \A u \in tasks[p] : u.step \in SettingUp => u.mgr # Len(rtc) + 1
    BY Basics DEF SettingUp
  <2>4. QED
    BY <1>7, <2>1, <2>2, <2>3
<1>9. ASSUME NEW p \in Client, NEW t \in tasks[p], Grants(p, t) PROVE \A o \in Client : Each(o) /\ Apart(o)
  <2>1. PICK h : GoesOn(p, t, h) /\ h.mgr = t.mgr
    BY <1>9, GrantsSetup
  <2>2. t.step \in SettingUp /\ t.step # "negotiate"
    BY <1>9, GrantsSetup DEF SettingUp
  <2>3. Fresh(rtc'[t.mgr])
    BY <1>2, <2>2 DEF Negotiates, NegotiatesLate
  <2>4. \A u \in tasks[p] \ {t} : u.step \in SettingUp => u.mgr # t.mgr
    BY <2>2, OneSetup
  <2>5. QED
    BY <1>7, <2>1, <2>3, <2>4
<1>10. ASSUME NEW p \in Client, NEW t \in tasks[p], Negotiates(p, t) PROVE \A o \in Client : Each(o) /\ Apart(o)
  <2>1. PICK h : GoesOn(p, t, h) /\ h.step = "attach"
    BY <1>10, NegotiatesSetup
  <2>2. QED
    BY <1>7, <2>1 DEF SettingUp
<1>11. QED
  BY <1>5, <1>6, <1>8, <1>9, <1>10, FewerUnless

\* No manager gathers before it has a description.
LEMMA GatheredIsDescribedStep == ASSUME CallsTyped, GatheredIsDescribed, Effect PROVE GatheredIsDescribed'
<1> USE DEF GatheredIsDescribed
<1>1. ASSUME NEW n, OneManager(n), rtc'[n].gathered => rtc'[n].sdp PROVE GatheredIsDescribed'
  BY <1>1 DEF OneManager
<1>2. ASSUME rtc' = rtc PROVE GatheredIsDescribed'
  BY <1>2
<1>3. ASSUME NEW n, OneManager(n), SameManager(rtc'[n], rtc[n]) PROVE GatheredIsDescribed'
  <2>1. n \in 1 .. Len(rtc)
    BY <1>3 DEF OneManager
  <2>2. QED
    BY <1>1, <1>3, <2>1 DEF SameManager
<1>4. CASE Unmoved
  BY <1>4 DEF Unmoved, SameManager
<1>5. ASSUME NEW p \in Client, Cut(p) PROVE GatheredIsDescribed'
  BY <1>5 DEF Cut, SameManager
<1>6. ASSUME NEW p \in Client, NEW t, Clicks(p, t) PROVE GatheredIsDescribed'
  BY <1>2, <1>6 DEF Clicks
<1>7. ASSUME NEW p \in Client, NEW t \in tasks[p], Begins(p, t) PROVE GatheredIsDescribed'
  <2>1. /\ Len(rtc') = Len(rtc) + 1 /\ \A m \in 1 .. Len(rtc) : rtc'[m] = rtc[m]
        /\ ~rtc'[Len(rtc) + 1].gathered /\ Len(rtc) \in Nat
    BY <1>7, Basics DEF Begins, Fresh
  <2>2. QED
    BY <2>1
<1>8. ASSUME NEW p \in Client, NEW t \in tasks[p], Grants(p, t) PROVE GatheredIsDescribed'
  BY <1>3, <1>8 DEF Grants
<1>9. ASSUME NEW p \in Client, NEW t \in tasks[p], Negotiates(p, t) PROVE GatheredIsDescribed'
  BY <1>1, <1>9 DEF Negotiates
<1>10. ASSUME NEW p \in Client, NEW t \in tasks[p], NegotiatesLate(p, t) PROVE GatheredIsDescribed'
  BY <1>10 DEF NegotiatesLate
<1>11. ASSUME NEW p \in Client, NEW q \in Client, Rings(p, q) PROVE GatheredIsDescribed'
  BY <1>2, <1>11 DEF Rings
<1>12. ASSUME NEW p \in Client, NEW q \in Client, Answers(p, q) PROVE GatheredIsDescribed'
  BY <1>3, <1>12 DEF Answers
<1>13. ASSUME NEW p \in Client, NEW q \in Client, Hears(p, q) PROVE GatheredIsDescribed'
  BY <1>2, <1>3, <1>13 DEF Hears
<1>14. ASSUME NEW m \in 1 .. Len(rtc), GathersOne(m) PROVE GatheredIsDescribed'
  BY <1>1, <1>14 DEF GathersOne
<1>15. QED
  BY <1>4, <1>5, <1>6, <1>7, <1>8, <1>9, <1>10, <1>11, <1>12, <1>13, <1>14 DEF Effect, AtSetup, AtSignal

\* Late negotiations happen only where setups overlapped.
LEMMA LateIsRaced ==
  ASSUME CallsTyped, SetupsAreShown, NEW p \in Client, NEW t \in tasks[p], NegotiatesLate(p, t)
  PROVE  raced[p] /\ t.mgr \in 1 .. Len(rtc) /\ rtc[t.mgr].owner = p
BY Basics DEF NegotiatesLate, SetupsAreShown, SetupIsShown

\* The setup at work is the one that is shown.
LEMMA ShownSetup ==
  ASSUME CallsTyped, SetupsAreShown, NEW p \in Client, NEW t \in tasks[p], t.step # "recover", ~raced[p]
  PROVE  /\ tasks[p] = {t} /\ ui[p].mgr = t.mgr /\ ui[p].gen = t.gen /\ ui[p].peer = t.peer
         /\ t.mgr \in 1 .. Len(rtc) /\ ui[p].state \notin {"idle", "incoming"}
BY Basics DEF SetupsAreShown, SetupIsShown

\* Same overlays, fewer setups and as raced as before; or one of the steps that matter.
LEMMA StillUnless ==
  ASSUME CallsTyped, Effect
  PROVE  \/ Steady /\ FewerSetups /\ raced' = raced
         \/ \E p \in Client : \/ Cut(p) \/ \E t : Clicks(p, t)
                              \/ \E t \in tasks[p] : Begins(p, t) \/ Grants(p, t) \/ Negotiates(p, t)
                              \/ \E q \in Client : Rings(p, q)
<1>1. Unmoved => raced' = raced
  BY DEF Unmoved
<1>2. ASSUME NEW p \in Client, NEW t \in tasks[p], NegotiatesLate(p, t)
      PROVE  raced' = raced /\ FewerSetups /\ Len(rtc') = Len(rtc) /\ ui' = ui
  BY <1>2, Basics DEF NegotiatesLate, FewerSetups
<1>3. ASSUME NEW p \in Client, NEW q \in Client, Answers(p, q) \/ Hears(p, q) PROVE raced' = raced /\ FewerSetups
  BY <1>3, SameSetups DEF Answers, Hears
<1>4. ASSUME NEW m \in 1 .. Len(rtc), GathersOne(m) PROVE raced' = raced /\ FewerSetups
  BY <1>4, SameSetups DEF GathersOne
<1>5. Unmoved => FewerSetups
  BY DEF Unmoved
<1>6. ASSUME NEW p \in Client, NEW q \in Client, Answers(p, q) \/ Hears(p, q) PROVE Steady
  <2>1. Len(rtc') = Len(rtc)
    BY <1>6 DEF Answers, Hears, OneManager
  <2>2. ui' \in [Client -> Overlay] /\ \A o \in Client : SameCall(ui'[o], ui[o])
    BY <1>6, Basics, SameOverlays DEF Answers, Hears
  <2>3. QED
    BY <2>1, <2>2 DEF Steady
<1>7. ASSUME NEW m \in 1 .. Len(rtc), GathersOne(m) PROVE Steady
  BY <1>7, Basics, SameOverlays DEF GathersOne, OneManager, Steady
<1>8. ASSUME NEW p \in Client, NEW t \in tasks[p], NegotiatesLate(p, t) PROVE Steady
  BY <1>2, <1>8, Basics, SameOverlays DEF Steady
<1>9. Unmoved => Steady
  BY DEF Unmoved, Steady
<1>10. QED
  BY <1>1, <1>2, <1>3, <1>4, <1>5, <1>6, <1>7, <1>8, <1>9 DEF Effect, AtSetup, AtSignal

\* A setup is shown as long as the overlay shows the same call.
LEMMA ShownStays ==
  ASSUME CallsTyped, NEW p \in Client, SetupIsShown(p), SameCall(ui'[p], ui[p]), tasks'[p] \subseteq tasks[p],
         raced[p] => raced'[p]
  PROVE  SetupIsShown(p)'
<1>1. ASSUME NEW t \in tasks[p], tasks[p] = {t} PROVE \A u \in tasks'[p] : tasks'[p] = {u}
  BY <1>1
<1>2. QED
  BY <1>1 DEF SetupIsShown, SameCall

\* The overlay goes on showing the call that is set up.
LEMMA SetupsAreShownStep == ASSUME CallsTyped, SetupsAreShown, Effect PROVE SetupsAreShown'
<1>1. SUFFICES \A o \in Client : SetupIsShown(o)'
  BY DEF SetupsAreShown
<1>2. ASSUME NEW o \in Client, ui'[o] = ui[o], tasks'[o] \subseteq tasks[o], raced'[o] = raced[o] PROVE SetupIsShown(o)'
  BY <1>2, ShownStays, SameOverlays DEF SetupsAreShown
<1>3. CASE Steady /\ FewerSetups /\ raced' = raced
  BY <1>3, ShownStays DEF Steady, FewerSetups, SetupsAreShown
<1>4. ASSUME NEW p \in Client, Cut(p) PROVE \A o \in Client : SetupIsShown(o)'
  <2>1. FewerSetups /\ raced' = [raced EXCEPT ![p] = @ \/ tasks'[p] # {}]
    BY <1>4 DEF Cut
  <2>2. SetupIsShown(p)'
    BY <2>1, Basics DEF SetupIsShown
  <2>3. ASSUME NEW o \in Client \ {p} PROVE SetupIsShown(o)'
    BY <1>2, <1>4, <2>1, CutShows, Basics DEF FewerSetups
  <2>4. QED
    BY <2>2, <2>3
<1>5. ASSUME NEW p \in Client, NEW t, Clicks(p, t) PROVE \A o \in Client : SetupIsShown(o)'
  <2>1. ASSUME ~raced[p], NEW u \in tasks[p] PROVE u.step = "recover"
    BY <1>5, <2>1, ShownSetup DEF Clicks
  <2>2. /\ t.step = "recover" /\ UNCHANGED <<ui, raced>>
        /\ t.kind = "accept" => ui[p].state = "incoming" /\ ui[p].peer = t.peer /\ ui[p].sdp = t.sdp
    BY <1>5 DEF Clicks
  <2>3. tasks'[p] = tasks[p] \cup {t} /\ \A o \in Client \ {p} : tasks'[o] = tasks[o]
    BY <1>5, Clicked
  <2>4. SetupIsShown(p)'
    BY <2>1, <2>2, <2>3 DEF SetupsAreShown, SetupIsShown
  <2>5. QED
    BY <1>2, <2>2, <2>3, <2>4
<1>6. ASSUME NEW p \in Client, NEW t \in tasks[p], Begins(p, t) PROVE \A o \in Client : SetupIsShown(o)'
  <2>1. PICK h : GoesOn(p, t, h) /\ h.step = "media" /\ h.mgr = Len(rtc) + 1 /\ h.gen = ui[p].gen + 1
    BY <1>6, BeginsSetup
  <2>2. raced' = [raced EXCEPT ![p] = @ \/ ui[p].mgr # 0 \/ tasks[p] # {t}]
    BY <1>6 DEF Begins
  <2>3. /\ \A o \in Client \ {p} : ui'[o] = ui[o]
        /\ ui'[p].gen = h.gen /\ ui'[p].mgr = h.mgr /\ ui'[p].peer = h.peer
    BY <1>6, <2>1, BeginShows, GoneOn
  <2>4. /\ \A o \in Client \ {p} : tasks'[o] = tasks[o]
        /\ tasks'[p] = (tasks[p] \ {t}) \cup {h}
    BY <2>1, GoneOn
  <2>5. ASSUME ~raced'[p] PROVE tasks'[p] = {h}
    BY <2>2, <2>4, <2>5, Basics
  <2>6. SetupIsShown(p)'
    BY <2>1, <2>3, <2>5 DEF SetupIsShown
  <2>7. ASSUME NEW o \in Client \ {p} PROVE SetupIsShown(o)'
    BY <1>2, <2>2, <2>3, <2>4, Basics
  <2>8. QED
    BY <2>6, <2>7
<1>7. ASSUME NEW p \in Client, NEW t \in tasks[p], Grants(p, t) \/ Negotiates(p, t)
      PROVE  \A o \in Client : SetupIsShown(o)'
  <2>1. PICK h : GoesOn(p, t, h) /\ h.step # "recover" /\ h.mgr = t.mgr /\ h.gen = t.gen
    BY <1>7, GrantsSetup, NegotiatesSetup
  <2>2. t.step # "recover" /\ UNCHANGED <<ui, raced>>
    BY <1>7 DEF Grants, Negotiates
  <2>3. /\ \A o \in Client \ {p} : tasks'[o] = tasks[o]
        /\ tasks'[p] = (tasks[p] \ {t}) \cup {h} /\ h.peer = t.peer
    BY <2>1, GoneOn
  <2>4. ASSUME ~raced[p] PROVE tasks'[p] = {h} /\ ui[p].mgr = h.mgr /\ ui[p].gen = h.gen /\ ui[p].peer = h.peer
    BY <2>1, <2>2, <2>3, <2>4, ShownSetup
  <2>5. SetupIsShown(p)'
    BY <2>1, <2>2, <2>4 DEF SetupIsShown
  <2>6. QED
    BY <1>2, <2>2, <2>3, <2>5
<1>8. ASSUME NEW p \in Client, NEW q \in Client, Rings(p, q) PROVE \A o \in Client : SetupIsShown(o)'
  <2>1. UNCHANGED <<tasks, raced>> /\ ui[p].state = "idle" /\ \A o \in Client \ {p} : ui'[o] = ui[o]
    BY <1>8, RingShows DEF Rings
  <2>2. ASSUME ~raced[p], NEW u \in tasks[p] PROVE u.step = "recover" /\ u.kind = "start"
    <3>1. u.step = "recover"
      BY <2>1, <2>2, ShownSetup
    <3>2. QED
      BY <2>1, <2>2, <3>1, Basics DEF SetupsAreShown, SetupIsShown
  <2>3. SetupIsShown(p)'
    BY <2>1, <2>2 DEF SetupIsShown
  <2>4. QED
    BY <1>2, <2>1, <2>3
<1>9. QED
  BY <1>3, <1>4, <1>5, <1>6, <1>7, <1>8, StillUnless

\* Whose microphone is on has it on still, and it is on in the overlay only.
MicOK(m) == ~raced[rtc[m].owner] /\ rtc[m].mic => ui[rtc[m].owner].mgr = m

\* The microphone stays with the manager in the overlay.
LEMMA MicIsHeldStep == ASSUME CallsTyped, HoldsOwn, SetupsAreShown, MicIsHeld, Effect PROVE MicIsHeld'
<1>1. Grows
  BY EffectGrows
<1>2. ASSUME NEW m \in 1 .. Len(rtc) PROVE rtc'[m].owner = rtc[m].owner /\ rtc[m].owner \in Client /\ MicOK(m)
  BY <1>1, Basics DEF Grows, MicIsHeld, MicOK
<1>3. SUFFICES \A m \in 1 .. Len(rtc') : MicOK(m)'
  BY DEF MicIsHeld, MicOK
<1>4. ASSUME NEW m \in 1 .. Len(rtc), rtc'[m].mic => rtc[m].mic, raced[rtc[m].owner] => raced'[rtc[m].owner],
             ui'[rtc[m].owner].mgr = ui[rtc[m].owner].mgr
      PROVE  MicOK(m)'
  BY <1>2, <1>4 DEF MicOK
<1>5. ASSUME \A m \in 1 .. Len(rtc) : rtc'[m].mic = rtc[m].mic, raced' = raced, Steady
      PROVE  \A m \in 1 .. Len(rtc') : MicOK(m)'
  BY <1>2, <1>4, <1>5 DEF Steady, SameCall
<1>6. ASSUME NEW n, OneManager(n), rtc'[n].mic = rtc[n].mic PROVE \A m \in 1 .. Len(rtc) : rtc'[m].mic = rtc[m].mic
  BY <1>6 DEF OneManager
<1>7. ASSUME Unmoved PROVE \A m \in 1 .. Len(rtc') : MicOK(m)'
  BY <1>5, <1>7 DEF Unmoved, Steady
<1>8. ASSUME NEW p \in Client, Cut(p) PROVE \A m \in 1 .. Len(rtc') : MicOK(m)'
  <2>1. /\ Len(rtc') = Len(rtc) /\ raced' = [raced EXCEPT ![p] = @ \/ tasks'[p] # {}]
        /\ \A m \in 1 .. Len(rtc) : IF m = ui[p].mgr THEN ~rtc'[m].mic ELSE rtc'[m].mic = rtc[m].mic
    BY <1>8 DEF Cut
  <2>2. \A o \in Client : (raced[o] => raced'[o]) /\ (o # p => ui'[o] = ui[o])
    BY <1>8, <2>1, CutShows, Basics
  <2>3. ASSUME NEW m \in 1 .. Len(rtc) PROVE MicOK(m)'
    <3>1. CASE rtc[m].owner = p
      BY <1>2, <2>1, <2>2, <3>1 DEF MicOK
    <3>2. CASE rtc[m].owner # p
      BY <1>2, <1>4, <2>1, <2>2, <3>2
    <3>3. QED
      BY <3>1, <3>2
  <2>4. QED
    BY <2>1, <2>3
<1>9. ASSUME NEW p \in Client, NEW t, Clicks(p, t) PROVE \A m \in 1 .. Len(rtc') : MicOK(m)'
  BY <1>2, <1>4, <1>9 DEF Clicks
<1>10. ASSUME NEW p \in Client, NEW t \in tasks[p], Begins(p, t) PROVE \A m \in 1 .. Len(rtc') : MicOK(m)'
  <2>0. PICK n \in Nat : n = Len(rtc) + 1
    BY Basics
  <2>1. /\ Len(rtc') = n /\ Len(rtc) \in Nat /\ ~rtc'[n].mic /\ \A m \in 1 .. Len(rtc) : rtc'[m] = rtc[m]
        /\ raced' = [raced EXCEPT ![p] = @ \/ ui[p].mgr # 0 \/ tasks[p] # {t}]
    BY <1>10, <2>0, Basics DEF Begins
  <2>2. \A o \in Client : (raced[o] => raced'[o]) /\ (o # p => ui'[o] = ui[o])
    BY <1>10, <2>1, BeginShows, Basics
  <2>3. ASSUME NEW m \in 1 .. Len(rtc) PROVE MicOK(m)'
    <3>1. CASE rtc[m].owner = p
      <4>1. raced'[p] \/ (~raced[p] /\ ui[p].mgr = 0)
        BY <2>1, Basics
      <4>2. QED
        BY <1>2, <2>1, <3>1, <4>1 DEF MicOK
    <3>2. CASE rtc[m].owner # p
      BY <1>2, <1>4, <2>1, <2>2, <3>2
    <3>3. QED
      BY <3>1, <3>2
  <2>4. MicOK(n)'
    BY <2>1 DEF MicOK
  <2>5. ASSUME NEW m \in 1 .. Len(rtc') PROVE MicOK(m)'
    <3>1. m \in 1 .. Len(rtc) \/ m = n
      BY <2>0, <2>1
    <3>2. QED
      BY <2>3, <2>4, <3>1
  <2>6. QED
    BY <2>5
<1>11. ASSUME NEW p \in Client, NEW t \in tasks[p], Grants(p, t) PROVE \A m \in 1 .. Len(rtc') : MicOK(m)'
  <2>1. /\ Len(rtc') = Len(rtc) /\ UNCHANGED <<ui, raced>> /\ t.step # "recover"
        /\ \A m \in 1 .. Len(rtc) : m # t.mgr => rtc'[m] = rtc[m]
    BY <1>11 DEF Grants, OneManager
  <2>2. rtc[t.mgr].owner = p /\ (~raced[p] => ui[p].mgr = t.mgr)
    BY <2>1, ShownSetup, Basics
  <2>3. ASSUME NEW m \in 1 .. Len(rtc) PROVE MicOK(m)'
    <3>1. CASE m = t.mgr
      BY <1>2, <2>1, <2>2, <3>1 DEF MicOK
    <3>2. CASE m # t.mgr
      BY <1>4, <2>1, <3>2
    <3>3. QED
      BY <3>1, <3>2
  <2>4. QED
    BY <2>1, <2>3
<1>12. ASSUME NEW p \in Client, NEW t \in tasks[p], Negotiates(p, t) PROVE \A m \in 1 .. Len(rtc') : MicOK(m)'
  <2>1. OneManager(t.mgr) /\ rtc'[t.mgr].mic = rtc[t.mgr].mic /\ UNCHANGED <<ui, raced>>
    BY <1>12 DEF Negotiates
  <2>2. Steady
    BY <2>1, Basics, SameOverlays DEF OneManager, Steady
  <2>3. QED
    BY <1>5, <1>6, <2>1, <2>2
<1>13. ASSUME NEW p \in Client, NEW t \in tasks[p], NegotiatesLate(p, t) PROVE \A m \in 1 .. Len(rtc') : MicOK(m)'
  <2>1. /\ Len(rtc') = Len(rtc) /\ UNCHANGED <<ui, raced>>
        /\ \A m \in 1 .. Len(rtc) : m \notin {t.mgr, ui[p].mgr} => rtc'[m] = rtc[m]
    BY <1>13 DEF NegotiatesLate
  <2>2. raced[p] /\ \A m \in 1 .. Len(rtc) : m \in {t.mgr, ui[p].mgr} => rtc[m].owner = p
    BY <1>13, LateIsRaced, Basics DEF HoldsOwn
  <2>3. ASSUME NEW m \in 1 .. Len(rtc) PROVE MicOK(m)'
    <3>1. CASE rtc[m].owner = p
      BY <1>2, <2>1, <2>2, <3>1 DEF MicOK
    <3>2. CASE rtc[m].owner # p
      BY <1>4, <2>1, <2>2, <3>2
    <3>3. QED
      BY <3>1, <3>2
  <2>4. QED
    BY <2>1, <2>3
<1>14. ASSUME NEW p \in Client, NEW q \in Client, Rings(p, q) PROVE \A m \in 1 .. Len(rtc') : MicOK(m)'
  <2>1. rtc' = rtc /\ raced' = raced
    BY <1>14 DEF Rings
  <2>2. \A o \in Client : ui'[o].mgr = ui[o].mgr
    BY <1>14, RingShows
  <2>3. QED
    BY <1>2, <1>4, <2>1, <2>2
<1>15. ASSUME NEW p \in Client, NEW q \in Client, Answers(p, q) PROVE \A m \in 1 .. Len(rtc') : MicOK(m)'
  <2>1. OneManager(ui[p].mgr) /\ rtc'[ui[p].mgr].mic = rtc[ui[p].mgr].mic /\ raced' = raced
    BY <1>15 DEF Answers
  <2>2. Steady
    BY <1>15, <2>1 DEF Answers, OneManager, Steady
  <2>3. QED
    BY <1>5, <1>6, <2>1, <2>2
<1>16. ASSUME NEW p \in Client, NEW q \in Client, Hears(p, q) PROVE \A m \in 1 .. Len(rtc') : MicOK(m)'
  <2>1. /\ UNCHANGED <<ui, raced>>
        /\ \/ rtc' = rtc
           \/ OneManager(ui[p].mgr) /\ rtc'[ui[p].mgr].mic = rtc[ui[p].mgr].mic
    BY <1>16 DEF Hears
  <2>2. Steady
    BY <2>1, Basics, SameOverlays DEF OneManager, Steady
  <2>3. QED
    BY <1>5, <1>6, <2>1, <2>2
<1>17. ASSUME NEW n \in 1 .. Len(rtc), GathersOne(n) PROVE \A m \in 1 .. Len(rtc') : MicOK(m)'
  <2>1. OneManager(n) /\ rtc'[n].mic = rtc[n].mic /\ UNCHANGED <<ui, raced>>
    BY <1>17 DEF GathersOne
  <2>2. Steady
    BY <2>1, Basics, SameOverlays DEF OneManager, Steady
  <2>3. QED
    BY <1>5, <1>6, <2>1, <2>2
<1>18. QED
  BY <1>7, <1>8, <1>9, <1>10, <1>11, <1>12, <1>13, <1>14, <1>15, <1>16, <1>17 DEF Effect, AtSetup, AtSignal

\* Only the candidate that p reads is new to what it heard.
LEMMA HeardGrows ==
  ASSUME CallsTyped, Effect
  PROVE  \A p \in Client :
           \/ heard'[p] = heard[p]
           \/ \E q \in Client : /\ wire[q][p] # <<>> /\ wire' = Rest(p, q) /\ wire[q][p][1].type = "candidate"
                                /\ heard'[p] = heard[p] \cup {wire[q][p][1].mgr}
<1>1. ASSUME NEW p \in Client, NEW q \in Client, Hears(p, q)
      PROVE  \A o \in Client :
               \/ heard'[o] = heard[o]
               \/ \E r \in Client : /\ wire[r][o] # <<>> /\ wire' = Rest(o, r) /\ wire[r][o][1].type = "candidate"
                                    /\ heard'[o] = heard[o] \cup {wire[r][o][1].mgr}
  <2>1. heard' = [heard EXCEPT ![p] = @ \cup {wire[q][p][1].mgr}] /\ heard \in [Client -> SUBSET (1 .. Len(rtc))]
    BY <1>1, Basics DEF Hears
  <2>2. wire[q][p] # <<>> /\ wire' = Rest(p, q) /\ wire[q][p][1].type = "candidate"
    BY <1>1 DEF Hears
  <2>3. QED
    BY <2>1, <2>2
<1>2. ASSUME NEW p \in Client, NEW t \in tasks[p], AtSetup(p, t) PROVE heard' = heard
  BY <1>2 DEF AtSetup, Begins, Grants, Negotiates, NegotiatesLate
<1>3. ASSUME NEW p \in Client, NEW q \in Client, Rings(p, q) \/ Answers(p, q) PROVE heard' = heard
  BY <1>3 DEF Rings, Answers
<1>4. ASSUME NEW m \in 1 .. Len(rtc), GathersOne(m) PROVE heard' = heard
  BY <1>4 DEF GathersOne
<1>5. ASSUME Unmoved \/ \E p \in Client : Cut(p) \/ \E t : Clicks(p, t) PROVE heard' = heard
  BY <1>5 DEF Unmoved, Cut, Clicks
<1>6. QED
  BY <1>1, <1>2, <1>3, <1>4, <1>5 DEF Effect, AtSignal

\* What is heard was gathered.
LEMMA HeardIsGatheredStep == ASSUME CallsTyped, WireInOrder, HeardIsGathered, Effect PROVE HeardIsGathered'
<1>1. \A m \in 1 .. Len(rtc) : rtc[m].gathered => rtc'[m].gathered
  BY EffectGrows DEF Grows
<1>2. ASSUME NEW p \in Client, NEW c \in heard'[p] PROVE rtc'[c].gathered
  <2>1. CASE c \in heard[p]
    BY <1>1, <2>1, Basics DEF HeardIsGathered
  <2>2. CASE c \notin heard[p]
    <3>1. PICK q \in Client : /\ wire[q][p] # <<>> /\ wire[q][p][1].type = "candidate"
                              /\ heard'[p] = heard[p] \cup {wire[q][p][1].mgr}
      BY <1>2, <2>2, HeardGrows
    <3>2. QED
      BY <1>1, <1>2, <2>2, <3>1, NextInLine
  <2>3. QED
    BY <2>1, <2>2
<1>3. QED
  BY <1>2 DEF HeardIsGathered

\* Nothing of what was heard early is lost to o while its setups and its offer are the same.
LEMMA EarlyStays ==
  ASSUME CallsTyped, NEW o \in Client, EarlyIsKept(o), SameCall(ui'[o], ui[o]), raced[o] => raced'[o],
         heard'[o] = heard[o], early[o] \subseteq early'[o],
         \A u \in tasks'[o] : u.step \in SettingUp => u \in tasks[o],
         \A u \in tasks[o] : u.step \in SettingUp => rtc'[u.mgr].pending = rtc[u.mgr].pending
  PROVE  EarlyIsKept(o)'
BY DEF EarlyIsKept, SameCall

\* The managers of the setups of o are nobody else's.
LEMMA OwnManagers ==
  ASSUME CallsTyped, HoldsOwn, NEW o \in Client, NEW u \in tasks[o], u.step \in SettingUp
  PROVE  /\ u.mgr \in 1 .. Len(rtc)
         /\ \A p \in Client : u.mgr = ui[p].mgr => p = o
         /\ \A p \in Client : \A t \in tasks[p] : t.step # "recover" /\ u.mgr = t.mgr => p = o
<1>1. \A p \in Client : \A t \in tasks[p] : t.step # "recover" => t.mgr \in 1 .. Len(rtc) /\ rtc[t.mgr].owner = p
  BY Basics
<1>2. u.mgr \in 1 .. Len(rtc) /\ rtc[u.mgr].owner = o /\ u.mgr # 0
  BY <1>1, Basics DEF SettingUp
<1>3. QED
  BY <1>1, <1>2 DEF HoldsOwn

\* The early candidates of the offer shown stay where the setup will find them.
LEMMA EarlyAreKeptStep ==
  ASSUME CallsTyped, HoldsOwn, SetupsAreFresh, SetupsAreShown, WireInOrder, EarlyAreKept, Effect
  PROVE  EarlyAreKept'
<1>1. SUFFICES \A o \in Client : EarlyIsKept(o)'
  BY DEF EarlyAreKept
<1>2. \A o \in Client : EarlyIsKept(o) /\ SameCall(ui[o], ui[o])
  BY SameOverlays DEF EarlyAreKept
<1>3. ASSUME Unmoved PROVE \A o \in Client : EarlyIsKept(o)'
  BY <1>2, <1>3, EarlyStays, OwnManagers DEF Unmoved, FewerSetups, SameLink
<1>4. ASSUME NEW p \in Client, Cut(p) PROVE \A o \in Client : EarlyIsKept(o)'
  <2>1. /\ FewerSetups /\ raced' = [raced EXCEPT ![p] = @ \/ tasks'[p] # {}] /\ heard' = heard
        /\ early' = [early EXCEPT ![p] = {}]
        /\ \A m \in 1 .. Len(rtc) : m # ui[p].mgr => rtc'[m].pending = rtc[m].pending
    BY <1>4 DEF Cut, SameLink
  <2>2. EarlyIsKept(p)'
    <3>1. ui'[p].state = "idle" /\ (~raced'[p] => tasks'[p] = {})
      BY <1>4, <2>1, CutShows, Basics
    <3>2. QED
      BY <3>1 DEF EarlyIsKept
  <2>3. ASSUME NEW o \in Client \ {p} PROVE EarlyIsKept(o)'
    <3>1. SameCall(ui'[o], ui[o]) /\ raced'[o] = raced[o] /\ early'[o] = early[o]
      BY <1>2, <1>4, <2>1, CutShows, Basics
    <3>2. \A u \in tasks[o] : u.step \in SettingUp => rtc'[u.mgr].pending = rtc[u.mgr].pending
      BY <2>1, OwnManagers
    <3>3. QED
      BY <1>2, <2>1, <3>1, <3>2, EarlyStays DEF FewerSetups
  <2>4. QED
    BY <2>2, <2>3
<1>5. ASSUME NEW p \in Client, NEW t, Clicks(p, t) PROVE \A o \in Client : EarlyIsKept(o)'
  <2>1. \A o \in Client : \A u \in tasks'[o] : u.step \in SettingUp => u \in tasks[o]
    BY <1>5, Clicked DEF SettingUp
  <2>2. UNCHANGED <<ui, early, rtc, heard, raced>>
    BY <1>5 DEF Clicks
  <2>3. QED
    BY <1>2, <2>1, <2>2, EarlyStays
<1>6. ASSUME NEW p \in Client, NEW t \in tasks[p], Begins(p, t) PROVE \A o \in Client : EarlyIsKept(o)'
  <2>1. PICK h : GoesOn(p, t, h) /\ h.mgr = Len(rtc) + 1
    BY <1>6, BeginsSetup
  <2>2. /\ raced' = [raced EXCEPT ![p] = @ \/ ui[p].mgr # 0 \/ tasks[p] # {t}] /\ UNCHANGED <<early, heard>>
        /\ \A m \in 1 .. Len(rtc) : rtc'[m] = rtc[m] /\ t.step = "recover"
    BY <1>6, Basics DEF Begins
  <2>3. /\ \A o \in Client \ {p} : tasks'[o] = tasks[o]
        /\ tasks'[p] = (tasks[p] \ {t}) \cup {h} /\ h.kind = t.kind /\ h.peer = t.peer /\ h.sdp = t.sdp
    BY <2>1, GoneOn
  <2>4. EarlyIsKept(p)'
    <3>1. ASSUME ~raced'[p], t.kind = "accept", t.sdp \in heard[p] PROVE <<t.peer, t.sdp>> \in early[p]
      <4>1. ~raced[p]
        BY <2>2, <3>1, Basics
      <4>2. ui[p].state = "incoming" /\ ui[p].peer = t.peer /\ ui[p].sdp = t.sdp
        BY <1>6, <3>1, <4>1 DEF Begins, SetupsAreShown, SetupIsShown
      <4>3. QED
        BY <1>2, <3>1, <4>1, <4>2 DEF EarlyIsKept
    <3>2. ~raced'[p] => tasks'[p] = {h}
      BY <2>2, <2>3, Basics
    <3>3. ui'[p].state # "incoming"
      BY <1>6, BeginShows
    <3>4. QED
      BY <2>2, <2>3, <3>1, <3>2, <3>3 DEF EarlyIsKept
  <2>5. ASSUME NEW o \in Client \ {p} PROVE EarlyIsKept(o)'
    <3>1. SameCall(ui'[o], ui[o]) /\ raced'[o] = raced[o]
      BY <1>2, <1>6, <2>2, BeginShows, Basics
    <3>2. \A u \in tasks[o] : u.step \in SettingUp => rtc'[u.mgr].pending = rtc[u.mgr].pending
      BY <2>2, OwnManagers
    <3>3. QED
      BY <1>2, <2>2, <2>3, <3>1, <3>2, EarlyStays
  <2>6. QED
    BY <2>4, <2>5
<1>7. ASSUME NEW p \in Client, NEW t \in tasks[p], Grants(p, t) PROVE \A o \in Client : EarlyIsKept(o)'
  <2>1. PICK h : GoesOn(p, t, h) /\ h.mgr = t.mgr
    BY <1>7, GrantsSetup
  <2>2. UNCHANGED <<ui, early, heard, raced>> /\ t.step \in SettingUp
    BY <1>7 DEF Grants, SettingUp
  <2>3. /\ \A o \in Client \ {p} : tasks'[o] = tasks[o]
        /\ tasks'[p] = (tasks[p] \ {t}) \cup {h} /\ h.kind = t.kind /\ h.peer = t.peer /\ h.sdp = t.sdp
    BY <2>1, GoneOn
  <2>4. \A m \in 1 .. Len(rtc) : rtc'[m].pending = rtc[m].pending
    BY <1>7 DEF Grants, OneManager, SameLink
  <2>5. \A o \in Client : \A u \in tasks[o] : u.step \in SettingUp => rtc'[u.mgr].pending = rtc[u.mgr].pending
    BY <2>4, OwnManagers
  <2>6. EarlyIsKept(p)'
    BY <1>2, <2>1, <2>2, <2>3, <2>5 DEF EarlyIsKept
  <2>7. ASSUME NEW o \in Client \ {p} PROVE EarlyIsKept(o)'
    BY <1>2, <2>2, <2>3, <2>5, EarlyStays
  <2>8. QED
    BY <2>6, <2>7
<1>8. ASSUME NEW p \in Client, NEW t \in tasks[p], Negotiates(p, t) PROVE \A o \in Client : EarlyIsKept(o)'
  <2>1. PICK h : GoesOn(p, t, h) /\ h.step = "attach"
    BY <1>8, NegotiatesSetup
  <2>2. /\ UNCHANGED <<ui, heard, raced>> /\ \A o \in Client \ {p} : early'[o] = early[o]
        /\ t.step # "recover" /\ \A m \in 1 .. Len(rtc) : m # t.mgr => rtc'[m] = rtc[m]
    BY <1>8 DEF Negotiates, OneManager
  <2>3. /\ \A o \in Client \ {p} : tasks'[o] = tasks[o]
        /\ tasks'[p] = (tasks[p] \ {t}) \cup {h}
    BY <2>1, GoneOn
  <2>4. EarlyIsKept(p)'
    <3>1. ~raced[p] => tasks'[p] = {h} /\ ui[p].state # "incoming"
      BY <2>2, <2>3, ShownSetup
    <3>2. QED
      BY <2>1, <2>2, <3>1 DEF EarlyIsKept, SettingUp
  <2>5. ASSUME NEW o \in Client \ {p} PROVE EarlyIsKept(o)'
    <3>1. \A u \in tasks[o] : u.step \in SettingUp => rtc'[u.mgr].pending = rtc[u.mgr].pending
      BY <2>2, OwnManagers
    <3>2. QED
      BY <1>2, <2>2, <2>3, <3>1, EarlyStays
  <2>6. QED
    BY <2>4, <2>5
<1>9. ASSUME NEW p \in Client, NEW t \in tasks[p], NegotiatesLate(p, t) PROVE \A o \in Client : EarlyIsKept(o)'
  <2>1. /\ UNCHANGED <<ui, early, heard, raced>> /\ t.step # "recover"
        /\ \A m \in 1 .. Len(rtc) : m \notin {t.mgr, ui[p].mgr} => rtc'[m] = rtc[m]
        /\ \A o \in Client \ {p} : tasks'[o] = tasks[o]
    BY <1>9, Basics DEF NegotiatesLate
  <2>2. EarlyIsKept(p)'
    BY <1>9, <2>1, LateIsRaced DEF EarlyIsKept
  <2>3. ASSUME NEW o \in Client \ {p} PROVE EarlyIsKept(o)'
    <3>1. \A u \in tasks[o] : u.step \in SettingUp => rtc'[u.mgr].pending = rtc[u.mgr].pending
      BY <2>1, OwnManagers
    <3>2. QED
      BY <1>2, <2>1, <3>1, EarlyStays
  <2>4. QED
    BY <2>2, <2>3
<1>10. ASSUME NEW p \in Client, NEW q \in Client, Rings(p, q) PROVE \A o \in Client : EarlyIsKept(o)'
  <2>1. UNCHANGED <<early, rtc, tasks, heard, raced>> /\ wire[q][p] # <<>> /\ wire[q][p][1].type = "offer"
    BY <1>10 DEF Rings
  <2>2. ui'[p].sdp \notin heard[p]
    BY <1>10, <2>1, RingShows, NextInLine
  <2>3. EarlyIsKept(p)'
    BY <1>2, <2>1, <2>2 DEF EarlyIsKept
  <2>4. ASSUME NEW o \in Client \ {p} PROVE EarlyIsKept(o)'
    BY <1>2, <1>10, <2>1, RingShows, EarlyStays
  <2>5. QED
    BY <2>3, <2>4
<1>11. ASSUME NEW p \in Client, NEW q \in Client, Answers(p, q) PROVE \A o \in Client : EarlyIsKept(o)'
  <2>1. /\ UNCHANGED <<early, tasks, heard, raced>> /\ \A o \in Client : SameCall(ui'[o], ui[o])
        /\ rtc[ui[p].mgr].sdp /\ \A m \in 1 .. Len(rtc) : m # ui[p].mgr => rtc'[m] = rtc[m]
    BY <1>11 DEF Answers, OneManager
  <2>2. \A o \in Client : \A u \in tasks[o] : u.step \in SettingUp => rtc'[u.mgr].pending = rtc[u.mgr].pending
    BY <2>1, OwnManagers DEF SetupsAreFresh, Fresh
  <2>3. QED
    BY <1>2, <2>1, <2>2, EarlyStays
<1>12. ASSUME NEW p \in Client, NEW q \in Client, Hears(p, q) PROVE \A o \in Client : EarlyIsKept(o)'
  <2> DEFINE c == wire[q][p][1].mgr
             n == ui[p].mgr
  <2>1. /\ UNCHANGED <<ui, tasks, raced>> /\ ui[p].peer = q /\ heard' = [heard EXCEPT ![p] = @ \cup {c}]
        /\ IF n = 0 THEN early' = [early EXCEPT ![p] = @ \cup {<<q, c>>}] /\ rtc' = rtc
           ELSE /\ early' = early /\ \A m \in 1 .. Len(rtc) : m # n => rtc'[m] = rtc[m]
                /\ rtc[n].pending \subseteq rtc'[n].pending
                /\ (rtc[n].remote = 0 => c \in rtc'[n].pending)
    BY <1>12 DEF Hears, OneManager
  <2> HIDE DEF c, n
  <2>2. /\ heard'[p] = heard[p] \cup {c} /\ \A o \in Client \ {p} : heard'[o] = heard[o] /\ early'[o] = early[o]
        /\ early[p] \subseteq early'[p] /\ (n = 0 => <<q, c>> \in early'[p])
    BY <2>1, Basics
  <2>3. \A m \in 1 .. Len(rtc) : rtc[m].pending \subseteq rtc'[m].pending /\ (m # n => rtc'[m].pending = rtc[m].pending)
    BY <2>1
  <2>4. ASSUME NEW u \in tasks[p], u.step \in SettingUp, ~raced[p]
        PROVE  u.mgr \in 1 .. Len(rtc) /\ c \in rtc'[u.mgr].pending
    <3>1. u.mgr = n /\ n \in 1 .. Len(rtc)
      BY <2>4, ShownSetup DEF SettingUp, n
    <3>2. rtc[n].remote = 0
      BY <2>4, <3>1 DEF SetupsAreFresh, Fresh
    <3>3. QED
      BY <2>1, <3>1, <3>2
  <2>5. EarlyIsKept(p)'
    <3>1. ASSUME ~raced[p], ui[p].state = "incoming", ui[p].sdp \in heard'[p] PROVE <<ui[p].peer, ui[p].sdp>> \in early'[p]
      <4>1. n = 0
        BY <3>1, Basics DEF n
      <4>2. QED
        BY <1>2, <2>1, <2>2, <3>1, <4>1 DEF EarlyIsKept
    <3>2. ASSUME ~raced[p], NEW u \in tasks[p], u.step \in SettingUp, u.kind = "accept", u.sdp \in heard'[p]
          PROVE  <<u.peer, u.sdp>> \in early'[p] \/ u.sdp \in rtc'[u.mgr].pending
      <4>1. u.mgr \in 1 .. Len(rtc) /\ rtc[u.mgr].pending \subseteq rtc'[u.mgr].pending /\ c \in rtc'[u.mgr].pending
        BY <2>3, <2>4, <3>2
      <4>2. CASE u.sdp = c
        BY <4>1, <4>2
      <4>3. CASE u.sdp \in heard[p]
        <5>1. <<u.peer, u.sdp>> \in early[p] \/ u.sdp \in rtc[u.mgr].pending
          BY <1>2, <3>2, <4>3 DEF EarlyIsKept
        <5>2. QED
          BY <2>2, <4>1, <5>1
      <4>4. QED
        BY <2>2, <3>2, <4>2, <4>3
    <3>3. QED
      BY <2>1, <3>1, <3>2 DEF EarlyIsKept
  <2>6. ASSUME NEW o \in Client \ {p} PROVE EarlyIsKept(o)'
    <3>1. \A u \in tasks[o] : u.step \in SettingUp => rtc'[u.mgr].pending = rtc[u.mgr].pending
      BY <2>3, OwnManagers DEF n
    <3>2. QED
      BY <1>2, <2>1, <2>2, <3>1, EarlyStays
  <2>7. QED
    BY <2>5, <2>6
<1>13. ASSUME NEW n \in 1 .. Len(rtc), GathersOne(n) PROVE \A o \in Client : EarlyIsKept(o)'
  <2>1. UNCHANGED <<ui, early, tasks, heard, raced>> /\ \A m \in 1 .. Len(rtc) : rtc'[m].pending = rtc[m].pending
    BY <1>13 DEF GathersOne, OneManager, SameLink
  <2>2. \A o \in Client : \A u \in tasks[o] : u.step \in SettingUp => rtc'[u.mgr].pending = rtc[u.mgr].pending
    BY <2>1, OwnManagers
  <2>3. QED
    BY <1>2, <2>1, <2>2, EarlyStays
<1>14. QED
  BY <1>3, <1>4, <1>5, <1>6, <1>7, <1>8, <1>9, <1>10, <1>11, <1>12, <1>13 DEF Effect, AtSetup, AtSignal

\* CandidatesKept of one overlay.
UsedBy(o) ==
  LET m == ui[o].mgr IN
  m # 0 /\ rtc[m].pc /\ rtc[m].remote \in heard[o] /\ ~raced[o] => rtc[m].remote \in rtc[m].added

\* A candidate that is used stays used as long as its connection stays as it is.
LEMMA UsedStays ==
  ASSUME NEW o \in Client, UsedBy(o), ui'[o].mgr = ui[o].mgr, heard'[o] = heard[o], raced[o] => raced'[o],
         ui[o].mgr # 0 => SameLink(rtc'[ui[o].mgr], rtc[ui[o].mgr])
  PROVE  UsedBy(o)'
BY DEF UsedBy, SameLink

\* Every candidate heard is added to the connection it is for.
LEMMA CandidatesKeptStep ==
  ASSUME CallsTyped, HoldsOwn, SetupsAreFresh, SetupsAreShown, WireInOrder, EarlyAreKept, CandidatesKept, Effect
  PROVE  CandidatesKept'
<1>1. SUFFICES \A o \in Client : UsedBy(o)'
  BY DEF CandidatesKept, UsedBy
<1>2. \A o \in Client : UsedBy(o)
  BY DEF CandidatesKept, UsedBy
<1>3. \A m \in 1 .. Len(rtc) : SameLink(rtc[m], rtc[m])
  BY SameManagers
<1>4. \A o \in Client : ui[o].mgr \in 0 .. Len(rtc) /\ \A p \in Client : ui[o].mgr # 0 /\ ui[o].mgr = ui[p].mgr => o = p
  BY Basics DEF HoldsOwn
<1>5. ASSUME ui' = ui, heard' = heard, raced' = raced, \A m \in 1 .. Len(rtc) : SameLink(rtc'[m], rtc[m])
      PROVE  \A o \in Client : UsedBy(o)'
  BY <1>2, <1>4, <1>5, UsedStays
<1>6. ASSUME Unmoved PROVE \A o \in Client : UsedBy(o)'
  BY <1>2, <1>4, <1>6, UsedStays DEF Unmoved, SameCall
<1>7. ASSUME NEW p \in Client, Cut(p) PROVE \A o \in Client : UsedBy(o)'
  <2>1. /\ heard' = heard /\ raced' = [raced EXCEPT ![p] = @ \/ tasks'[p] # {}]
        /\ \A m \in 1 .. Len(rtc) : m # ui[p].mgr => SameLink(rtc'[m], rtc[m])
    BY <1>7 DEF Cut
  <2>2. UsedBy(p)'
    BY <1>7, CutShows DEF UsedBy
  <2>3. ASSUME NEW o \in Client \ {p} PROVE UsedBy(o)'
    <3>1. ui'[o] = ui[o] /\ raced'[o] = raced[o] /\ (ui[o].mgr # 0 => SameLink(rtc'[ui[o].mgr], rtc[ui[o].mgr]))
      BY <1>4, <1>7, <2>1, CutShows, Basics
    <3>2. QED
      BY <1>2, <2>1, <3>1, UsedStays
  <2>4. QED
    BY <2>2, <2>3
<1>8. ASSUME NEW p \in Client, NEW t, Clicks(p, t) PROVE \A o \in Client : UsedBy(o)'
  BY <1>3, <1>5, <1>8 DEF Clicks
<1>9. ASSUME NEW p \in Client, NEW t \in tasks[p], Begins(p, t) PROVE \A o \in Client : UsedBy(o)'
  <2>1. /\ heard' = heard /\ raced' = [raced EXCEPT ![p] = @ \/ ui[p].mgr # 0 \/ tasks[p] # {t}]
        /\ \A m \in 1 .. Len(rtc) : rtc'[m] = rtc[m] /\ rtc'[Len(rtc) + 1].remote = 0
    BY <1>9 DEF Begins, Fresh
  <2>2. UsedBy(p)'
    <3>1. rtc'[Len(rtc) + 1].remote = 0
      BY <1>9 DEF Begins, Fresh
    <3>2. QED
      BY <1>9, <2>1, <3>1, BeginShows, Basics DEF UsedBy
  <2>3. ASSUME NEW o \in Client \ {p} PROVE UsedBy(o)'
    <3>1. ui'[o] = ui[o] /\ raced'[o] = raced[o] /\ (ui[o].mgr # 0 => SameLink(rtc'[ui[o].mgr], rtc[ui[o].mgr]))
      BY <1>3, <1>4, <1>9, <2>1, BeginShows, Basics
    <3>2. QED
      BY <1>2, <2>1, <3>1, UsedStays
  <2>4. QED
    BY <2>2, <2>3
<1>10. ASSUME NEW p \in Client, NEW t \in tasks[p], Grants(p, t) PROVE \A o \in Client : UsedBy(o)'
  <2>1. \A m \in 1 .. Len(rtc) : SameLink(rtc'[m], rtc[m])
    BY <1>3, <1>10 DEF Grants, OneManager
  <2>2. QED
    BY <1>5, <1>10, <2>1 DEF Grants
<1>11. ASSUME NEW p \in Client, NEW t \in tasks[p], Negotiates(p, t) PROVE \A o \in Client : UsedBy(o)'
  <2> DEFINE n == t.mgr
             came == {c[2] : c \in {d \in early[p] : d[1] = t.peer}}
  <2>1. /\ UNCHANGED <<ui, heard, raced>> /\ t.step = "negotiate" /\ \A m \in 1 .. Len(rtc) : m # n => rtc'[m] = rtc[m]
        /\ IF t.kind = "start" THEN rtc'[n].remote = rtc[n].remote
           ELSE rtc'[n].remote = t.sdp /\ rtc[n].added \cup rtc[n].pending \cup came \subseteq rtc'[n].added
    BY <1>11 DEF Negotiates, OneManager
  <2>2. n \in 1 .. Len(rtc) /\ rtc[n].owner = p /\ rtc[n].remote = 0 /\ t.step \in SettingUp
    BY <2>1, Basics DEF SetupsAreFresh, SettingUp, Fresh
  <2>3. <<t.peer, t.sdp>> \in early[p] => t.sdp \in came
    OBVIOUS
  <2> HIDE DEF came
  <2>4. ASSUME ~raced[p] PROVE ui[p].mgr = n
    BY <2>1, <2>4, ShownSetup
  <2>5. ASSUME ~raced[p], t.kind = "accept", t.sdp \in heard[p] PROVE t.sdp \in rtc'[n].added
    <3>1. <<t.peer, t.sdp>> \in early[p] \/ t.sdp \in rtc[n].pending
      BY <2>2, <2>5 DEF EarlyAreKept, EarlyIsKept
    <3>2. QED
      BY <2>1, <2>3, <2>5, <3>1
  <2>6. 0 \notin heard[p] /\ t.kind \in {"start", "accept"}
    BY Basics
  <2> HIDE DEF n
  <2>7. UsedBy(p)'
    BY <2>1, <2>2, <2>4, <2>5, <2>6 DEF UsedBy
  <2>8. ASSUME NEW o \in Client \ {p} PROVE UsedBy(o)'
    <3>1. ui[o].mgr # 0 => ui[o].mgr \in 1 .. Len(rtc) /\ ui[o].mgr # n
      BY <2>2, Basics DEF HoldsOwn
    <3>2. QED
      BY <1>2, <1>3, <2>1, <3>1, UsedStays
  <2>9. QED
    BY <2>7, <2>8
<1>12. ASSUME NEW p \in Client, NEW t \in tasks[p], NegotiatesLate(p, t) PROVE \A o \in Client : UsedBy(o)'
  <2>1. /\ UNCHANGED <<ui, heard, raced>>
        /\ \A m \in 1 .. Len(rtc) : m \notin {t.mgr, ui[p].mgr} => rtc'[m] = rtc[m]
    BY <1>12 DEF NegotiatesLate
  <2>2. raced[p] /\ t.mgr \in 1 .. Len(rtc) /\ rtc[t.mgr].owner = p
    BY <1>12, LateIsRaced
  <2>3. UsedBy(p)'
    BY <2>1, <2>2 DEF UsedBy
  <2>4. ASSUME NEW o \in Client \ {p} PROVE UsedBy(o)'
    <3>1. ui[o].mgr # 0 => ui[o].mgr \in 1 .. Len(rtc) /\ ui[o].mgr \notin {t.mgr, ui[p].mgr}
      BY <1>4, <2>2, Basics DEF HoldsOwn
    <3>2. QED
      BY <1>2, <1>3, <2>1, <3>1, UsedStays
  <2>5. QED
    BY <2>3, <2>4
<1>13. ASSUME NEW p \in Client, NEW q \in Client, Rings(p, q) PROVE \A o \in Client : UsedBy(o)'
  <2>1. UNCHANGED <<rtc, heard, raced>>
    BY <1>13 DEF Rings
  <2>3. \A o \in Client : ui'[o].mgr = ui[o].mgr
    BY <1>13, RingShows
  <2>2. QED
    BY <1>2, <1>3, <1>4, <2>1, <2>3, UsedStays
<1>14. ASSUME NEW p \in Client, NEW q \in Client, Answers(p, q) PROVE \A o \in Client : UsedBy(o)'
  <2> DEFINE n == ui[p].mgr
  <2>1. /\ UNCHANGED <<heard, raced>> /\ \A o \in Client : ui'[o].mgr = ui[o].mgr
        /\ \A m \in 1 .. Len(rtc) : m # n => rtc'[m] = rtc[m]
        /\ rtc'[n].remote = wire[q][p][1].mgr /\ wire[q][p] # <<>> /\ wire[q][p][1].type = "answer"
    BY <1>14 DEF Answers, OneManager, SameCall
  <2>2. rtc'[n].remote \notin heard[p]
    BY <2>1, NextInLine
  <2>3. UsedBy(p)'
    BY <2>1, <2>2 DEF UsedBy
  <2>4. ASSUME NEW o \in Client \ {p} PROVE UsedBy(o)'
    <3>1. ui[o].mgr # 0 => ui[o].mgr \in 1 .. Len(rtc) /\ ui[o].mgr # n
      BY <1>4
    <3> HIDE DEF n
    <3>2. QED
      BY <1>2, <1>3, <2>1, <3>1, UsedStays
  <2>5. QED
    BY <2>3, <2>4
<1>15. ASSUME NEW p \in Client, NEW q \in Client, Hears(p, q) PROVE \A o \in Client : UsedBy(o)'
  <2> DEFINE c == wire[q][p][1].mgr
             n == ui[p].mgr
  <2>1. /\ UNCHANGED <<ui, raced>> /\ heard' = [heard EXCEPT ![p] = @ \cup {c}]
        /\ IF n = 0 THEN rtc' = rtc
           ELSE /\ \A m \in 1 .. Len(rtc) : m # n => rtc'[m] = rtc[m]
                /\ rtc'[n].pc = rtc[n].pc /\ rtc'[n].remote = rtc[n].remote /\ rtc[n].added \subseteq rtc'[n].added
                /\ (rtc[n].pc /\ rtc[n].remote # 0 => c \in rtc'[n].added)
    BY <1>15 DEF Hears, OneManager
  <2> HIDE DEF c
  <2>2. heard'[p] = heard[p] \cup {c} /\ \A o \in Client \ {p} : heard'[o] = heard[o]
    BY <2>1, Basics
  <2>3. c # 0
    BY <1>15, NextInLine DEF Hears, c
  <2>4. UsedBy(p)'
    <3>1. CASE n = 0
      BY <2>1, <3>1 DEF UsedBy
    <3>2. CASE n # 0
      <4>1. rtc[n].remote \in heard'[p] => rtc[n].remote \in heard[p] \/ rtc[n].remote = c
        BY <2>2
      <4>2. rtc[n].pc /\ rtc[n].remote \in heard'[p] /\ ~raced[p] => rtc[n].remote \in rtc'[n].added
        BY <1>2, <2>1, <2>3, <3>2, <4>1 DEF UsedBy
      <4>3. QED
        BY <2>1, <3>2, <4>2 DEF UsedBy
    <3>3. QED
      BY <3>1, <3>2
  <2>5. ASSUME NEW o \in Client \ {p} PROVE UsedBy(o)'
    <3>1. ui[o].mgr # 0 => ui[o].mgr \in 1 .. Len(rtc) /\ ui[o].mgr # n
      BY <1>4
    <3> HIDE DEF n
    <3>2. QED
      BY <1>2, <1>3, <2>1, <2>2, <3>1, UsedStays
  <2>6. QED
    BY <2>4, <2>5
<1>16. ASSUME NEW n \in 1 .. Len(rtc), GathersOne(n) PROVE \A o \in Client : UsedBy(o)'
  <2>1. \A m \in 1 .. Len(rtc) : SameLink(rtc'[m], rtc[m])
    BY <1>3, <1>16 DEF GathersOne, OneManager
  <2>2. QED
    BY <1>5, <1>16, <2>1 DEF GathersOne
<1>17. QED
  BY <1>6, <1>7, <1>8, <1>9, <1>10, <1>11, <1>12, <1>13, <1>14, <1>15, <1>16 DEF Effect, AtSetup, AtSignal
-----------------------------------------------------------------------------
(* The signals under way stay in order.                                    *)

\* What is left of a queue in order is in order.
LEMMA ShorterInLine ==
  ASSUME NEW r, NEW w \in Seq(Signal), NEW v, NEW q, NEW h, Shorter(w, v), InLine(r, w, q, h)
  PROVE  v \in Seq(Signal) /\ InLine(r, v, q, h)
<1>1. CASE v = w
  BY <1>1
<1>2. CASE v = <<>>
  BY <1>2 DEF InLine
<1>3. CASE w # <<>> /\ v = Tail(w)
  <2>1. v \in Seq(Signal) /\ Len(v) = Len(w) - 1 /\ \A i \in 1 .. Len(v) : v[i] = w[i + 1] /\ i + 1 \in 1 .. Len(w)
    BY <1>3
  <2>2. ASSUME NEW i \in 1 .. Len(v)
        PROVE  /\ v[i].type \in {"offer", "answer", "candidate"} => v[i].mgr \in 1 .. Len(r) /\ r[v[i].mgr].owner = q
               /\ v[i].type = "candidate" => r[v[i].mgr].gathered
               /\ v[i].type \in {"offer", "answer"} => v[i].mgr \notin h
    <3>1. v[i] = w[i + 1] /\ i + 1 \in 1 .. Len(w)
      BY <2>1
    <3>2. QED
      BY <3>1 DEF InLine
  <2>3. ASSUME NEW i \in 1 .. Len(v), v[i].type \in {"offer", "answer"}, NEW j \in 1 .. i, v[j].type = "candidate"
        PROVE  v[j].mgr # v[i].mgr
    <3>1. v[i] = w[i + 1] /\ i + 1 \in 1 .. Len(w) /\ j + 1 \in 1 .. i + 1 /\ v[j] = w[j + 1]
      BY <2>1
    <3>2. QED
      BY <2>3, <3>1 DEF InLine
  <2>4. QED
    BY <2>1, <2>2, <2>3 DEF InLine
<1>4. QED
  BY <1>1, <1>2, <1>3 DEF Shorter

\* The candidate that is read next is not one of a description further back.
LEMMA ReadInLine ==
  ASSUME NEW r, NEW w \in Seq(Signal), w # <<>>, w[1].type = "candidate", NEW q, NEW h, InLine(r, w, q, h)
  PROVE  InLine(r, Tail(w), q, h \cup {w[1].mgr})
<1> DEFINE v == Tail(w)
<1>1. v \in Seq(Signal) /\ Len(v) = Len(w) - 1 /\ \A i \in 1 .. Len(v) : v[i] = w[i + 1] /\ i + 1 \in 1 .. Len(w)
  OBVIOUS
<1>2. InLine(r, v, q, h)
  BY ShorterInLine DEF Shorter
<1>3. ASSUME NEW i \in 1 .. Len(v), v[i].type \in {"offer", "answer"} PROVE v[i].mgr # w[1].mgr
  <2>1. v[i] = w[i + 1] /\ i + 1 \in 1 .. Len(w) /\ 1 \in 1 .. i + 1
    BY <1>1
  <2>2. QED
    BY <1>3, <2>1 DEF InLine
<1> HIDE DEF v
<1>4. InLine(r, v, q, h \cup {w[1].mgr})
  BY <1>2, <1>3 DEF InLine
<1>5. QED
  BY <1>4 DEF v

\* A queue in order stays in order when the managers grow.
LEMMA GrownInLine ==
  ASSUME CallsTyped, Grows, NEW w \in Seq(Signal), NEW q, NEW h, InLine(rtc, w, q, h)
  PROVE  InLine(rtc', w, q, h)
<1>1. \A m \in 1 .. Len(rtc) : /\ m \in 1 .. Len(rtc') /\ rtc'[m].owner = rtc[m].owner
                               /\ rtc[m].gathered => rtc'[m].gathered
  BY Basics DEF Grows
<1>2. QED
  BY <1>1 DEF InLine

\* A description goes to the end of a queue that has no candidate of its manager.
LEMMA AppendInLine ==
  ASSUME NEW r, NEW v \in Seq(Signal), NEW q, NEW h, InLine(r, v, q, h), NEW s \in Signal,
         s.type \in {"offer", "answer", "candidate"} => s.mgr \in 1 .. Len(r) /\ r[s.mgr].owner = q,
         s.type = "candidate" => r[s.mgr].gathered,
         s.type \in {"offer", "answer"} =>
           s.mgr \notin h /\ \A j \in 1 .. Len(v) : v[j].type = "candidate" => v[j].mgr # s.mgr
  PROVE  InLine(r, Append(v, s), q, h)
<1> DEFINE w == Append(v, s)
<1>1. /\ Len(w) = Len(v) + 1 /\ w[Len(v) + 1] = s /\ \A i \in 1 .. Len(v) : w[i] = v[i]
      /\ Len(v) \in Nat
  OBVIOUS
<1> HIDE DEF w
<1>2. ASSUME NEW i \in 1 .. Len(w)
      PROVE  /\ w[i].type \in {"offer", "answer", "candidate"} => w[i].mgr \in 1 .. Len(r) /\ r[w[i].mgr].owner = q
             /\ w[i].type = "candidate" => r[w[i].mgr].gathered
             /\ w[i].type \in {"offer", "answer"} =>
                  w[i].mgr \notin h /\ \A j \in 1 .. i : w[j].type = "candidate" => w[j].mgr # w[i].mgr
  <2>1. CASE i \in 1 .. Len(v)
    <3>1. w[i] = v[i] /\ \A j \in 1 .. i : w[j] = v[j]
      BY <1>1, <2>1
    <3>2. QED
      BY <2>1, <3>1 DEF InLine
  <2>2. CASE i = Len(v) + 1
    <3>1. ASSUME NEW j \in 1 .. i, s.type \in {"offer", "answer"}, w[j].type = "candidate" PROVE w[j].mgr # s.mgr
      <4>1. CASE j = i
        BY <1>1, <2>2, <3>1, <4>1
      <4>2. CASE j # i
        <5>1. j \in 1 .. Len(v) /\ w[j] = v[j]
          BY <1>1, <2>2, <4>2
        <5>2. QED
          BY <3>1, <5>1
      <4>3. QED
        BY <4>1, <4>2
    <3>2. w[i] = s
      BY <1>1, <2>2
    <3>3. QED
      BY <3>1, <3>2
  <2>3. QED
    BY <1>1, <2>1, <2>2
<1>3. InLine(r, w, q, h)
  BY <1>2 DEF InLine
<1>4. QED
  BY <1>3 DEF w

\* Every queue stays in order.
LEMMA WireInOrderStep ==
  ASSUME CallsTyped, WireInOrder, HeardIsGathered, Effect, WireStep
  PROVE  WireTyped' /\ WireInOrder'
<1>1. Grows /\ WireTyped'
  BY EffectGrows DEF WireStep, WireTyped
<1>2. SUFFICES ASSUME NEW b \in Client, NEW a \in Client PROVE InLine(rtc', wire'[a][b], a, heard'[b])
  BY <1>1 DEF WireInOrder
<1> DEFINE w == wire[a][b]
<1>3. w \in Seq(Signal) /\ InLine(rtc, w, a, heard[b])
  BY DEF CallsTyped, WireTyped, WireInOrder
<1>4. CASE heard'[b] = heard[b]
  <2>1. PICK v : /\ Shorter(w, v)
                 /\ wire'[a][b] = v \/ \E s : Sent(a, s) /\ wire'[a][b] = Append(v, s)
    BY DEF WireStep, QueueStep
  <2> HIDE DEF w
  <2>2. v \in Seq(Signal) /\ InLine(rtc, v, a, heard[b])
    BY <1>3, <2>1, ShorterInLine
  <2>3. InLine(rtc', v, a, heard[b])
    BY <1>1, <2>2, GrownInLine
  <2>4. ASSUME NEW s, Sent(a, s) PROVE InLine(rtc', Append(v, s), a, heard[b])
    <3>1. s.type \in {"offer", "answer"} =>
            s.mgr \notin heard[b] /\ \A j \in 1 .. Len(v) : v[j].type = "candidate" => v[j].mgr # s.mgr
      BY <2>2, <2>4 DEF Sent, Fresh, InLine, HeardIsGathered
    <3>2. /\ s \in Signal /\ (s.type = "candidate" => rtc'[s.mgr].gathered)
          /\ s.type \in {"offer", "answer", "candidate"} => s.mgr \in 1 .. Len(rtc') /\ rtc'[s.mgr].owner = a
      BY <1>1, <2>4, Basics DEF Sent, Grows
    <3>3. QED
      BY <2>2, <2>3, <3>1, <3>2, AppendInLine
  <2>5. QED
    BY <1>4, <2>1, <2>3, <2>4
<1>5. CASE heard'[b] # heard[b]
  <2>1. PICK q \in Client : /\ wire[q][b] # <<>> /\ wire' = Rest(b, q) /\ wire[q][b][1].type = "candidate"
                            /\ heard'[b] = heard[b] \cup {wire[q][b][1].mgr}
    BY <1>5, HeardGrows
  <2>2. CASE a = q
    <3>1. wire'[a][b] = Tail(w)
      BY <2>1, <2>2, TakenWire DEF CallsTyped
    <3>2. w # <<>> /\ w[1].type = "candidate" /\ heard'[b] = heard[b] \cup {w[1].mgr}
      BY <2>1, <2>2
    <3> HIDE DEF w
    <3>3. InLine(rtc, Tail(w), a, heard'[b]) /\ Tail(w) \in Seq(Signal)
      BY <1>3, <3>2, ReadInLine
    <3>4. QED
      BY <1>1, <3>1, <3>3, GrownInLine
  <2>3. CASE a # q
    <3>1. wire'[a][b] = w
      BY <2>1, <2>3 DEF Rest, CallsTyped, WireTyped
    <3>2. rtc[wire[q][b][1].mgr].owner = q
      BY <2>1, NextInLine
    <3> HIDE DEF w
    <3>3. ASSUME NEW i \in 1 .. Len(w), w[i].type \in {"offer", "answer"} PROVE w[i].mgr # wire[q][b][1].mgr
      BY <1>3, <2>3, <3>2, <3>3 DEF InLine
    <3>4. InLine(rtc, w, a, heard'[b])
      BY <1>3, <2>1, <3>3 DEF InLine
    <3>5. QED
      BY <1>1, <1>3, <3>1, <3>4, GrownInLine
  <2>4. QED
    BY <2>2, <2>3
<1>6. QED
  BY <1>4, <1>5

\* The sockets and the count of the clicks keep their types.
LEMMA ReadyStep == ASSUME CallsTyped, [CallsNext]_callVars PROVE ready' \in [Client -> BOOLEAN] /\ clicks' \in Nat
<1> USE DEF CallsTyped, HearingTyped
<1>1. ASSUME NEW p \in Client, NEW q \in Client, ClickCall(p, q) \/ OnSignal(p, q)
      PROVE  ready' \in [Client -> BOOLEAN] /\ clicks' \in Nat
  <2>1. CASE ClickCall(p, q)
    BY <2>1 DEF ClickCall
  <2>2. CASE OnSignal(p, q)
    <3>1. ready' = ready /\ clicks' = clicks
      BY <2>2 DEF OnSignal, OnOffer, OnAnswer, OnEnd, OnCandidate
    <3>2. QED
      BY <3>1
  <2>3. QED
    BY <1>1, <2>1, <2>2
<1>2. ASSUME NEW p \in Client, NEW t \in tasks[p], Recovered(p, t) \/ MicGranted(p, t) \/ Negotiated(p, t)
                                                   \/ Attached(p, t) \/ MicDenied(p, t)
      PROVE  ready' \in [Client -> BOOLEAN] /\ clicks' \in Nat
  BY <1>2 DEF Recovered, MicGranted, Negotiated, Attached, MicDenied, Fails
<1>3. ASSUME NEW p \in Client, ClickAccept(p) \/ HangUp(p) \/ RingTimeout(p) \/ ConnectTimeout(p)
      PROVE  ready' \in [Client -> BOOLEAN] /\ clicks' \in Nat
  <2>1. CASE ClickAccept(p)
    BY <2>1 DEF ClickAccept
  <2>2. CASE HangUp(p) \/ RingTimeout(p) \/ ConnectTimeout(p)
    BY <2>2 DEF HangUp, RingTimeout, ConnectTimeout
  <2>3. QED
    BY <1>3, <2>1, <2>2
<1>4. ASSUME NEW m \in DOMAIN rtc, Gathers(m) \/ Connects(m) \/ Breaks(m) PROVE ready' = ready /\ clicks' = clicks
  BY <1>4 DEF Gathers, Connects, Breaks
<1>5. ASSUME NEW p \in Client, SocketDrops(p) \/ SocketReturns(p)
      PROVE  ready' \in [Client -> BOOLEAN] /\ clicks' \in Nat
  <2>1. (ready' = [ready EXCEPT ![p] = FALSE] \/ ready' = [ready EXCEPT ![p] = TRUE]) /\ clicks' = clicks
    BY <1>5 DEF SocketDrops, SocketReturns
  <2>2. QED
    BY <2>1
<1>6. CASE UNCHANGED callVars
  BY <1>6 DEF callVars
<1>7. QED
  BY <1>1, <1>2, <1>3, <1>4, <1>5, <1>6 DEF CallsNext, Continue

-----------------------------------------------------------------------------
(* The theorems.                                                           *)

\* Nobody has called yet.
LEMMA CallsStart == CallsInit => CallsInv
<1> SUFFICES ASSUME CallsInit PROVE CallsInv
  OBVIOUS
<1>1. Len(rtc) = 0 /\ rtc = <<>> /\ \A p \in Client : heard[p] = {} /\ tasks[p] = {} /\ early[p] = {}
  BY DEF CallsInit
<1>2. \A p \in Client : /\ ui[p] = Idle(1) /\ Idle(1) \in Overlay /\ ui[p].state = "idle" /\ ui[p].mgr = 0
                        /\ ui[p].sdp = 0 /\ ui[p].peer = Nobody
  BY DEF CallsInit, Idle, Overlay
<1>3. OverlaysTyped
  BY <1>1, <1>2, CallsAssumption DEF OverlaysTyped, CallsInit
<1>4. SetupsTyped /\ ManagersTyped
  BY <1>1 DEF SetupsTyped, ManagersTyped, CallsInit
<1>5. WireTyped /\ WireInOrder
  <2>1. \A p, q \in Client : wire[p][q] = <<>> /\ wire[p][q] \in Seq(Signal) /\ Len(wire[p][q]) = 0
    BY DEF CallsInit
  <2>2. WireTyped
    BY <2>1 DEF CallsInit, WireTyped
  <2>3. QED
    BY <2>1, <2>2 DEF WireInOrder, InLine
<1>6. HearingTyped
  BY <1>1 DEF CallsInit, HearingTyped
<1>7. GensAgree /\ HoldsOwn /\ GatheredIsDescribed /\ MicIsHeld /\ SetupsAreFresh /\ SetupsAreShown
  BY <1>1, <1>2 DEF GensAgree, HoldsOwn, GatheredIsDescribed, MicIsHeld, SetupsAreFresh, SetupsAreShown, SetupIsShown
<1>8. HeardIsGathered /\ EarlyAreKept /\ CandidatesKept
  BY <1>1, <1>2 DEF HeardIsGathered, EarlyAreKept, EarlyIsKept, CandidatesKept
<1>9. QED
  BY <1>3, <1>4, <1>5, <1>6, <1>7, <1>8 DEF CallsInv, CallsTyped

\* Every step keeps the invariant.
LEMMA CallsStep == CallsInv /\ [CallsNext]_callVars => CallsInv'
<1> SUFFICES ASSUME CallsInv, [CallsNext]_callVars PROVE CallsInv'
  OBVIOUS
<1> USE DEF CallsInv
<1>1. Effect /\ WireStep
  BY StepEffect, StepWire
<1>2. WireTyped' /\ WireInOrder'
  BY <1>1, WireInOrderStep
<1>3. ManagersTyped'
  BY <1>1, EffectGrows DEF Grows, ManagersTyped
<1>4. HearingTyped'
  BY <1>1, HearingTypedStep, ReadyStep DEF HearingTyped
<1>5. CallsTyped'
  BY <1>1, <1>2, <1>3, <1>4, OverlaysTypedStep, SetupsTypedStep DEF CallsTyped
<1>6. GensAgree' /\ HoldsOwn' /\ SetupsAreFresh' /\ GatheredIsDescribed'
  BY <1>1, GensAgreeStep, SetupsAreFreshStep, GatheredIsDescribedStep
<1>7. SetupsAreShown' /\ MicIsHeld' /\ HeardIsGathered'
  BY <1>1, SetupsAreShownStep, MicIsHeldStep, HeardIsGatheredStep
<1>8. EarlyAreKept' /\ CandidatesKept'
  BY <1>1, EarlyAreKeptStep, CandidatesKeptStep
<1>9. QED
  BY <1>2, <1>5, <1>6, <1>7, <1>8

\* What the invariant says of the types the runs check.
LEMMA CallsGiveTypes == CallsInv => CallsTypeOK
<1> SUFFICES ASSUME CallsInv PROVE CallsTypeOK
  OBVIOUS
<1>1. ASSUME NEW m \in DOMAIN rtc PROVE rtc[m].owner \in Client /\ rtc[m].pc \in BOOLEAN
  <2>1. rtc[m] \in Rtc
    BY DEF CallsInv, CallsTyped, ManagersTyped
  <2>2. QED
    BY <2>1 DEF Rtc
<1>2. ASSUME NEW p \in Client
      PROVE  /\ ui[p].state \in {"idle", "incoming", "outgoing", "active"}
             /\ ui[p].peer \in Client \cup {Nobody}
             /\ ui[p].sdp \in 0 .. Len(rtc) /\ ui[p].mgr \in 0 .. Len(rtc)
             /\ {ui[p].ring, ui[p].conn} \subseteq Timer \cup {Nobody}
             /\ ui[p].state = "idle" => ui[p].peer = Nobody
  BY DEF CallsInv, CallsTyped, OverlaysTyped, Overlay
<1>3. ASSUME NEW p \in Client
      PROVE  /\ early[p] \subseteq Client \X DOMAIN rtc /\ heard[p] \subseteq DOMAIN rtc
             /\ \A q \in Client : wire[p][q] \in Seq(Signal)
  BY DEF CallsInv, CallsTyped, ManagersTyped, HearingTyped, WireTyped
<1>4. QED
  BY <1>1, <1>2, <1>3 DEF CallsTypeOK

\* An idle overlay holds no manager, and none that it does not hold has the microphone.
LEMMA CallsGiveMic == CallsInv => MicReleased
<1> SUFFICES ASSUME CallsInv PROVE MicReleased
  OBVIOUS
<1>1. DOMAIN rtc = 1 .. Len(rtc)
  BY DEF CallsInv, CallsTyped, ManagersTyped
<1>2. ASSUME NEW p \in Client, ui[p].state = "idle", ~raced[p], NEW m \in 1 .. Len(rtc), rtc[m].owner = p, rtc[m].mic
      PROVE  FALSE
  BY <1>2 DEF CallsInv, CallsTyped, OverlaysTyped, MicIsHeld
<1>3. \A m \in 1 .. Len(rtc) : rtc[m].mic \in BOOLEAN
  BY Basics DEF CallsInv
<1>4. QED
  BY <1>1, <1>2, <1>3 DEF MicReleased

\* The invariant holds in every state.
LEMMA CallsAlways == CallsSpec => []CallsInv
BY CallsStart, CallsStep, PTL DEF CallsSpec

\* The variables keep their types, and an overlay is idle when it shows no
\* peer, for any clients and however often they call.
THEOREM CallsTypeCorrect == CallsSpec => []CallsTypeOK
BY CallsAlways, CallsGiveTypes, PTL

\* CandidatesKept: the bufferings of Chat.tsx and of the WebRTC manager lose no
\* candidate that came during a call, however many clients call each other and
\* however often, as long as no two setups overlapped.
THEOREM CandidatesStayKept == CallsSpec => []CandidatesKept
<1>1. CallsInv => CandidatesKept
  BY DEF CallsInv
<1>2. QED
  BY <1>1, CallsAlways, PTL

\* MicReleased: no ended call keeps the microphone, unless setups overlapped.
THEOREM MicStaysReleased == CallsSpec => []MicReleased
BY CallsAlways, CallsGiveMic, PTL
=============================================================================
