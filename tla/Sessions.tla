------------------------------ MODULE Sessions ------------------------------
(***************************************************************************)
(* The secure session of two users as socket.ts keeps it: one row per peer *)
(* (db.sessions), made by X3DH on the first encryption with a one-time     *)
(* prekey asked from the server, replaced when an envelope carries X3DH    *)
(* parameters the row cannot open, deleted when an envelope cannot be      *)
(* opened at all, and healed by the session_reset / session_repair         *)
(* exchange.  A session is a number, a ciphertext is the number of the     *)
(* session it was made in; what happens inside a session is module         *)
(* Ratchet.  The awaits of the local tables run as one step; the await of  *)
(* the prekey bundle, a round trip of up to five seconds, is split: that   *)
(* is where other calls and other envelopes come in.  The acknowledgement  *)
(* and retry of an outbox row is module DirectDelivery: here a row that is *)
(* sent is acknowledged in the same step.                                  *)
(***************************************************************************)
EXTENDS Naturals, SequencesExt

CONSTANTS User,        \* the two users
          PreKey,      \* numbers of the one-time prekeys of a user, 0 is none
          Plan         \* bounds: sets of [texts, edits, cuts], how many direct messages
                       \* and edits are written and how many links drop in a run

ASSUME SessionsAssumption == /\ \E a, b \in User : a # b /\ User = {a, b}
                             /\ PreKey \subseteq Nat \ {0}
                             /\ Plan \subseteq [texts : Nat, edits : Nat, cuts : Nat]

VARIABLES live,     \* live[u]: u has an authenticated socket
          row,      \* row[u]: the session row u keeps for the peer, 0 if none
          secrets,  \* secrets[u]: prekeys whose private half u keeps (db.prekeys)
          shelf,    \* shelf[u]: prekeys of u the server can still hand out
          asks,     \* asks[u]: calls of getPreKeyBundle whose timer runs
          ear,      \* ear[u]: the ask pendingPreKeyResolvers holds, 0 if none
          bundles,  \* bundles[u]: prekeys on their way to u
          outbox,   \* outbox[u]: the set of rows of outgoingDirectMessages
          mail,     \* mail[u]: envelopes for u, at the server or in the socket
          hush,     \* hush[u]: u sent a reset notice within the cooldown
          texts,    \* texts[i]: [by, status] of the i-th direct message
          shown,    \* shown[u]: the messages u has opened and stored
          left,     \* what is left of the plan
          hurried,  \* an ask was made while the timer of another one ran
          clashed,  \* both users began a session at the same time
          severed   \* "link": a link dropped; "reset": one did while a reset waited

sessionVars == <<live, row, secrets, shelf, asks, ear, bundles, outbox, mail, hush,
                 texts, shown, left, hurried, clashed, severed>>

Peer(u) == CHOOSE v \in User : v # u
Envelope == [kind : {"message", "edit", "repair", "reset"}, text : Nat,
             session : Nat, first : BOOLEAN, key : PreKey \cup {0}, kept : BOOLEAN]
Text == [by : User, status : {"composed", "pending", "sent"}]
Ask == [id : 1..4, for : {"send", "repair"}, text : Nat, kept : BOOLEAN, over : BOOLEAN]

SessionsTypeOK ==
    /\ live \in [User -> BOOLEAN] /\ hush \in [User -> BOOLEAN]
    /\ row \in [User -> Nat]
    /\ secrets \in [User -> SUBSET PreKey] /\ shelf \in [User -> SUBSET PreKey]
    /\ asks \in [User -> Seq(Ask)] /\ bundles \in [User -> Seq(PreKey \cup {0})]
    /\ outbox \in [User -> SUBSET Envelope] /\ mail \in [User -> Seq(Envelope)]
    /\ ear \in [User -> 0..4]
    /\ \A u \in User : ear[u] # 0 => \E i \in DOMAIN asks[u] : asks[u][i].id = ear[u] /\ ~asks[u][i].over
    /\ texts \in Seq(Text) /\ shown \in [User -> SUBSET DOMAIN texts]
    /\ \A u \in User : \A i \in shown[u] : texts[i].by # u
    /\ left \in [texts : Nat, edits : Nat, cuts : Nat]
    /\ hurried \in BOOLEAN /\ clashed \in BOOLEAN /\ severed \subseteq {"link", "reset"}

SessionsInit ==
    /\ live = [u \in User |-> TRUE] /\ row = [u \in User |-> 0]
    /\ secrets = [u \in User |-> PreKey] /\ shelf = [u \in User |-> PreKey]
    /\ asks = [u \in User |-> <<>>] /\ ear = [u \in User |-> 0] /\ bundles = [u \in User |-> <<>>]
    /\ outbox = [u \in User |-> {}] /\ mail = [u \in User |-> <<>>]
    /\ hush = [u \in User |-> FALSE]
    /\ texts = <<>> /\ shown = [u \in User |-> {}] /\ left \in Plan
    /\ hurried = FALSE /\ clashed = FALSE /\ severed = {}

----------------------------------------------------------------------------
(* Numbers and envelopes.                                                  *)

\* A session number nothing refers to any more is free again.
Referred == {row[u] : u \in User}
            \cup {e.session : e \in UNION {outbox[u] \cup Range(mail[u]) : u \in User}}
FreshSession ==
    LET free == 1 .. (Cardinality(Referred) + 1) \ Referred
    IN CHOOSE s \in free : \A t \in free : s <= t

Sealed(kind, text, session, first, key) ==
    [kind |-> kind, text |-> text, session |-> session, first |-> first, key |-> key, kept |-> FALSE]

\* sendSessionRepairEnvelope.
Repair(s, key) == <<Sealed("repair", 0, s, TRUE, key)>>

\* routeToLocal: into the recipient's socket, or into the offline table.
Posted(u, es) ==
    mail[u] \o [i \in DOMAIN es |-> [es[i] EXCEPT !.kept = ~live[u]]]

\* An X3DH envelope of v is on its way, or v is about to make one.
Beginning(v) == \/ \E i \in DOMAIN mail[Peer(v)] : mail[Peer(v)][i].first
                \/ \E e \in outbox[v] : e.first
                \/ \E i \in DOMAIN asks[v] : ~asks[v][i].over

----------------------------------------------------------------------------
(* encryptInSession: with a row at hand it encrypts, without one it asks   *)
(* for a bundle and goes on in Finish.                                     *)

\* Mutant: ConsumePreKey leaves the key in the table.
AskKeepsKey(u, for, text, kept) ==
    LET id == CHOOSE k \in 1..4 : \A i \in DOMAIN asks[u] : asks[u][i].id # k
        p == Peer(u)
        k == IF shelf[p] = {} THEN 0 ELSE CHOOSE x \in shelf[p] : \A y \in shelf[p] : x <= y
    IN /\ Len(asks[u]) < 4
       /\ asks' = [asks EXCEPT ![u] = Append(@, [id |-> id, for |-> for, text |-> text,
                                                 kept |-> kept, over |-> FALSE])]
       /\ ear' = [ear EXCEPT ![u] = id]
       /\ hurried' = (hurried \/ asks[u] # <<>>)
       /\ clashed' = (clashed \/ Beginning(p))
       /\ bundles' = [bundles EXCEPT ![u] = Append(@, k)]
       /\ UNCHANGED shelf

\* getPreKeyBundle: the newest caller takes the only place in the map of
\* resolvers; the server takes a prekey off its shelf and answers.
AskBundle(u, for, text, kept) ==
    LET id == CHOOSE k \in 1..4 : \A i \in DOMAIN asks[u] : asks[u][i].id # k
        p == Peer(u)
        k == IF shelf[p] = {} THEN 0 ELSE CHOOSE x \in shelf[p] : \A y \in shelf[p] : x <= y
    IN /\ Len(asks[u]) < 4
       /\ asks' = [asks EXCEPT ![u] = Append(@, [id |-> id, for |-> for, text |-> text,
                                                 kept |-> kept, over |-> FALSE])]
       /\ ear' = [ear EXCEPT ![u] = id]
       /\ hurried' = (hurried \/ asks[u] # <<>>)
       /\ clashed' = (clashed \/ Beginning(p))
       /\ bundles' = [bundles EXCEPT ![u] = Append(@, k)]
       /\ shelf' = [shelf EXCEPT ![p] = @ \ {k}]

\* enqueueOutgoingDirectMessage: put by message id.
Enqueued(rows, news) == {r \in rows : \A e \in news : e.text # r.text} \cup news

\* Mutant: a reset sends the repair and forgets the messages it dropped.
FinishForgets(u, ask, key, up, postAfter) ==
    LET s == FreshSession IN
    /\ row' = [row EXCEPT ![u] = s]
    /\ IF ask.for = "send"
       THEN /\ outbox' = [outbox EXCEPT ![u] = Enqueued(@, {Sealed("message", ask.text, s, TRUE, key)})]
            /\ texts' = [texts EXCEPT ![ask.text].status = "pending"]
            /\ mail' = postAfter
       ELSE /\ UNCHANGED <<texts, outbox>>
            /\ mail' = IF up THEN [postAfter EXCEPT ![Peer(u)] =
                                     Posted(Peer(u), Repair(s, key))]
                             ELSE postAfter

\* What the caller does once its bundle, or nothing, has come.  The session
\* row is written without looking whether one has come about in the
\* meantime.  A repair goes out on the socket or throws; after it the
\* messages still pending are encrypted anew.
Finish(u, ask, key, up, postAfter) ==
    LET s == FreshSession
        again == {i \in DOMAIN texts : texts[i].by = u /\ texts[i].status = "pending"}
        resent == {Sealed("message", i, s, FALSE, 0) : i \in again}
    IN /\ row' = [row EXCEPT ![u] = s]
       /\ IF ask.for = "send"
          THEN /\ outbox' = [outbox EXCEPT ![u] = Enqueued(@, {Sealed("message", ask.text, s, TRUE, key)})]
               /\ texts' = [texts EXCEPT ![ask.text].status = "pending"]
               /\ mail' = postAfter
          ELSE /\ UNCHANGED texts
               /\ IF up
                  THEN /\ mail' = [postAfter EXCEPT ![Peer(u)] = Posted(Peer(u), Repair(s, key))]
                       /\ outbox' = [outbox EXCEPT ![u] = Enqueued(@, resent)]
                  ELSE /\ mail' = postAfter /\ UNCHANGED outbox

Over(u, id) == [i \in DOMAIN asks[u] |-> IF asks[u][i].id = id THEN [asks[u][i] EXCEPT !.over = TRUE]
                                                               ELSE asks[u][i]]
AskOf(u, id) == CHOOSE a \in {asks[u][i] : i \in DOMAIN asks[u]} : a.id = id

\* The prekey_bundle branch of onmessage: whoever holds the place is answered.
BundleArrives(u) == \E i \in DOMAIN bundles[u] :
    /\ live[u]
    /\ bundles' = [bundles EXCEPT ![u] = RemoveAt(@, i)]
    /\ IF ear[u] = 0
       THEN UNCHANGED <<asks, ear, row, outbox, texts, mail>>
       ELSE /\ asks' = [asks EXCEPT ![u] = Over(u, ear[u])]
            /\ ear' = [ear EXCEPT ![u] = 0]
            /\ Finish(u, AskOf(u, ear[u]), bundles[u][i], TRUE, mail)
    /\ UNCHANGED <<live, secrets, shelf, hush, shown, left, hurried, clashed, severed>>

\* Mutant: the timer resolves its caller and leaves the resolver in the map.
TimeoutLeavesEar(u) ==
    /\ asks[u] # <<>>
    /\ LET a == Head(asks[u]) IN
       /\ asks' = [asks EXCEPT ![u] = Tail(@)]
       /\ IF ear[u] # 0 /\ ~a.over
          THEN Finish(u, a, 0, live[u], mail)
          ELSE UNCHANGED <<row, outbox, texts, mail>>
    /\ UNCHANGED <<live, secrets, shelf, ear, bundles, hush, shown, left, hurried, clashed, severed>>

\* The five-second timer of the oldest ask.  Whatever resolver is in the map
\* is taken out, but it is the timer's own caller that is resolved.
BundleTimeout(u) ==
    /\ asks[u] # <<>>
    /\ LET a == Head(asks[u]) IN
       /\ asks' = [asks EXCEPT ![u] = Tail(@)]
       /\ ear' = [ear EXCEPT ![u] = 0]
       /\ IF ear[u] # 0 /\ ~a.over
          THEN Finish(u, a, 0, live[u], mail)
          ELSE UNCHANGED <<row, outbox, texts, mail>>
    /\ UNCHANGED <<live, secrets, shelf, bundles, hush, shown, left, hurried, clashed, severed>>

----------------------------------------------------------------------------
(* Sending.                                                                *)

\* send(): offline only with a session.
SendText(u) ==
    /\ left.texts > 0
    /\ left' = [left EXCEPT !.texts = @ - 1]
    /\ live[u] \/ row[u] # 0
    /\ LET i == Len(texts) + 1 IN
       IF row[u] # 0
       THEN /\ texts' = Append(texts, [by |-> u, status |-> "pending"])
            /\ outbox' = [outbox EXCEPT ![u] = Enqueued(@, {Sealed("message", i, row[u], FALSE, 0)})]
            /\ UNCHANGED <<asks, ear, hurried, clashed, bundles, shelf>>
       ELSE /\ texts' = Append(texts, [by |-> u, status |-> "composed"])
            /\ AskBundle(u, "send", i, FALSE)
            /\ UNCHANGED outbox
    /\ UNCHANGED <<live, row, secrets, mail, hush, shown, severed>>

\* flushOutgoingDirectMessages, ordered by createdAt, and the server's
\* acknowledgement of the row.
FlushText(u) ==
    /\ live[u] /\ outbox[u] # {}
    /\ LET e == CHOOSE r \in outbox[u] : \A o \in outbox[u] : r.text <= o.text IN
       /\ mail' = [mail EXCEPT ![Peer(u)] = Posted(Peer(u), <<e>>)]
       /\ texts' = [texts EXCEPT ![e.text].status = "sent"]
       /\ outbox' = [outbox EXCEPT ![u] = @ \ {e}]
    /\ UNCHANGED <<live, row, secrets, shelf, asks, ear, bundles, hush, shown, left,
                   hurried, clashed, severed>>

\* sendEdit: never begins a session and never waits in the outbox.
SendEdit(u) ==
    /\ live[u] /\ row[u] # 0 /\ left.edits > 0
    /\ left' = [left EXCEPT !.edits = @ - 1]
    /\ mail' = [mail EXCEPT ![Peer(u)] = Posted(Peer(u), <<Sealed("edit", 0, row[u], FALSE, 0)>>)]
    /\ UNCHANGED <<live, row, secrets, shelf, asks, ear, bundles, outbox, hush, texts, shown,
                   hurried, clashed, severed>>

----------------------------------------------------------------------------
(* Receiving.                                                              *)

\* x3dhRespond reaches the sender's secret: the prekey is still here, or none was used.
Answerable(u, e) == e.first /\ (e.key = 0 \/ e.key \in secrets[u])

\* sendSessionResetNotice, once per cooldown.
Noticed(u) == IF live[u] /\ ~hush[u]
              THEN Posted(Peer(u), <<Sealed("reset", 0, 0, FALSE, 0)>>)
              ELSE mail[Peer(u)]

\* decryptInSession on a row: what is left of the row, of the prekeys, and
\* whether there is a plaintext.
Decrypt(u, current, e) ==
    IF current # 0 /\ current = e.session
    THEN [row |-> current, secrets |-> secrets[u], ok |-> TRUE]
    ELSE IF Answerable(u, e)
         THEN [row |-> e.session, secrets |-> secrets[u] \ {e.key}, ok |-> TRUE]
         ELSE [row |-> 0, secrets |-> secrets[u], ok |-> FALSE]

Applied(u, d) ==
    /\ row' = [row EXCEPT ![u] = d.row]
    /\ secrets' = [secrets EXCEPT ![u] = d.secrets]
    /\ hush' = [hush EXCEPT ![u] = @ \/ (~d.ok /\ live[u])]
    /\ mail' = [mail EXCEPT ![u] = Tail(@), ![Peer(u)] = IF d.ok THEN @ ELSE Noticed(u)]

\* The message branch: a message already stored is only acknowledged.
OnText(u, e) ==
    /\ e.kind = "message"
    /\ IF e.text \in shown[u]
       THEN /\ mail' = [mail EXCEPT ![u] = Tail(@)]
            /\ UNCHANGED <<row, secrets, hush, shown>>
       ELSE LET d == Decrypt(u, row[u], e) IN
            /\ Applied(u, d)
            /\ shown' = IF d.ok THEN [shown EXCEPT ![u] = @ \cup {e.text}] ELSE shown
    /\ UNCHANGED <<outbox, asks, ear, hurried, clashed, bundles, shelf>>

\* The edit branch passes no X3DH parameters on.
OnEdit(u, e) ==
    /\ e.kind = "edit"
    /\ Applied(u, Decrypt(u, row[u], [e EXCEPT !.first = FALSE]))
    /\ UNCHANGED <<shown, outbox, asks, ear, hurried, clashed, bundles, shelf>>

\* The session_repair branch: the row goes first.
OnRepair(u, e) ==
    /\ e.kind = "repair"
    /\ Applied(u, Decrypt(u, 0, e))
    /\ UNCHANGED <<shown, outbox, asks, ear, hurried, clashed, bundles, shelf>>

\* The session_reset branch, handlePeerSessionReset: the row and the queued
\* rows of the peer are deleted, then the repair envelope is encrypted.
OnReset(u, e) ==
    /\ e.kind = "reset"
    /\ row' = [row EXCEPT ![u] = 0]
    /\ outbox' = [outbox EXCEPT ![u] = {}]
    /\ AskBundle(u, "repair", 0, e.kept)
    /\ mail' = [mail EXCEPT ![u] = Tail(@)]
    /\ UNCHANGED <<secrets, hush, shown>>

Receive(u) ==
    /\ live[u] /\ mail[u] # <<>>
    /\ LET e == Head(mail[u]) IN OnText(u, e) \/ OnEdit(u, e) \/ OnRepair(u, e) \/ OnReset(u, e)
    /\ UNCHANGED <<live, texts, left, severed>>

----------------------------------------------------------------------------
(* The link.                                                               *)

\* What a lost socket leaves: the rows of the offline table.  The goroutine that
\* hands them out is taken to be done before anything new is routed to the user,
\* so that they are in front.
Stored(es) == SubSeq(es, 1, CHOOSE n \in 0 .. Len(es) : \A i \in DOMAIN es : es[i].kept <=> i <= n)

\* Mutant: onclose clears the map of resolvers without answering anyone.
DropsSilently(u) ==
    /\ live[u] /\ left.cuts > 0
    /\ left' = [left EXCEPT !.cuts = @ - 1]
    /\ live' = [live EXCEPT ![u] = FALSE]
    /\ bundles' = [bundles EXCEPT ![u] = <<>>]
    /\ ear' = [ear EXCEPT ![u] = 0]
    /\ mail' = [mail EXCEPT ![u] = Stored(@)]
    /\ severed' = severed \cup {"link"}
    /\ UNCHANGED <<asks, row, outbox, texts, secrets, shelf, hush, shown, hurried, clashed>>

\* onclose: what was in the socket is gone, the registered caller is answered
\* with null; a reset from the offline table that is not acknowledged yet
\* will be delivered again.
LinkDrops(u) ==
    /\ live[u] /\ left.cuts > 0
    /\ left' = [left EXCEPT !.cuts = @ - 1]
    /\ live' = [live EXCEPT ![u] = FALSE]
    /\ bundles' = [bundles EXCEPT ![u] = <<>>]
    /\ severed' = severed \cup (IF \E i \in DOMAIN asks[u] : asks[u][i].for = "repair" /\ ~asks[u][i].over
                             THEN {"link", "reset"} ELSE {"link"})
    /\ LET unacked == {i \in DOMAIN asks[u] : /\ asks[u][i].for = "repair" /\ asks[u][i].kept
                                             /\ ~asks[u][i].over}
           back == [i \in 1 .. Cardinality(unacked) |-> [Sealed("reset", 0, 0, FALSE, 0) EXCEPT !.kept = TRUE]]
           kept == [mail EXCEPT ![u] = back \o Stored(@)]
       IN IF ear[u] # 0
          THEN /\ asks' = [asks EXCEPT ![u] = Over(u, ear[u])]
               /\ ear' = [ear EXCEPT ![u] = 0]
               /\ Finish(u, AskOf(u, ear[u]), 0, FALSE, kept)
          ELSE /\ mail' = kept
               /\ UNCHANGED <<asks, ear, row, outbox, texts>>
    /\ UNCHANGED <<secrets, shelf, hush, shown, hurried, clashed>>

\* auth_success, with ensurePreKeys: when fewer than half are left the set is
\* filled up again and the new public halves are uploaded.
LinkUp(u) ==
    /\ ~live[u]
    /\ live' = [live EXCEPT ![u] = TRUE]
    /\ LET low == 2 * Cardinality(secrets[u]) < Cardinality(PreKey)
           new == IF low THEN PreKey \ secrets[u] ELSE {}
       IN /\ secrets' = [secrets EXCEPT ![u] = @ \cup new]
          /\ shelf' = [shelf EXCEPT ![u] = @ \cup new]
    /\ UNCHANGED <<row, asks, ear, bundles, outbox, mail, hush, texts, shown, left,
                   hurried, clashed, severed>>

CooldownEnds(u) ==
    /\ hush[u]
    /\ hush' = [hush EXCEPT ![u] = FALSE]
    /\ UNCHANGED <<live, row, secrets, shelf, asks, ear, bundles, outbox, mail, texts, shown, left,
                   hurried, clashed, severed>>

SessionsProgress == \E u \in User : BundleArrives(u) \/ BundleTimeout(u) \/ FlushText(u) \/ Receive(u)
                                    \/ LinkUp(u) \/ CooldownEnds(u)
SessionsNext == SessionsProgress \/ \E u \in User : SendText(u) \/ SendEdit(u) \/ LinkDrops(u)
SessionsSpec == SessionsInit /\ [][SessionsNext]_sessionVars

\* Timers run out, the server answers and the socket delivers: no step of the
\* environment is needed for any of it.
SessionsFairness == WF_sessionVars(SessionsProgress)

----------------------------------------------------------------------------
(* Properties.                                                             *)

Quiet == \A u \in User : asks[u] = <<>> /\ outbox[u] = {} /\ mail[u] = <<>>

\* "Messages stay on this device and retry automatically": a pending message
\* has its outbox row, or the reset that took the row away is still at work
\* or will be delivered again.
PendingIsCarried ==
    \A i \in DOMAIN texts : texts[i].status = "pending" =>
        LET u == texts[i].by IN
        \/ \E e \in outbox[u] : e.text = i
        \/ \E j \in DOMAIN asks[u] : asks[u][j].for = "repair" /\ ~asks[u][j].over
        \/ \E j \in DOMAIN mail[u] : mail[u][j].kind = "reset"

\* The same, as long as no link drops inside a reset and no two asks overlap.
PendingSurvivesReset == "reset" \in severed \/ hurried \/ PendingIsCarried

\* When nothing is on its way, two users who never began a session at the
\* same time, and lost no envelope, either share a session or one of them
\* has none and will begin a new one.
RowsAgree ==
    Quiet /\ ~clashed /\ ~hurried /\ severed = {} => Cardinality({row[u] : u \in User} \ {0}) < 2

\* The private half of a prekey outlives every envelope made with it: an
\* envelope that begins a session can always be answered when it comes.
FirstOpens ==
    \A u \in User : \A i \in DOMAIN mail[u] : mail[u][i].first => Answerable(u, mail[u][i])

\* The two ends of a session stay in step: what one side keeps, the other
\* side has or can still make.
SessionsAgree == RowsAgree /\ FirstOpens

\* Every caller of getPreKeyBundle has been answered, by the server or by its
\* timer, unless two calls for the same peer overlapped.
CallersAnswered == hurried \/ \A i \in DOMAIN texts : texts[i].status # "composed"

\* Resets do not feed each other for ever, and nobody waits for ever for a
\* bundle: the exchange dies out with every text at least pending.
RepairEnds == <>[](Quiet /\ CallersAnswered)
=============================================================================
