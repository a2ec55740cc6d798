--------------------------- MODULE SessionsProofs ---------------------------
(***************************************************************************)
(* Sessions: whatever the number of texts, edits, prekeys and lost links,  *)
(* an envelope that begins a session can be answered, a reset strands no   *)
(* pending message, and the rows of the two ends agree when nothing is     *)
(* under way, but for the reasons the properties name.                     *)
(*                                                                         *)
(* A sequence is looked at through its domain only: the lemmas AppendIs,   *)
(* TailIs, RemoveIs and StoredIs say what each change does to it.  The     *)
(* answer to a call for a bundle comes in three ways, from the server, the *)
(* timer and the lost link; all are Resolves, and each part of the         *)
(* invariant has one lemma about that.                                     *)
(***************************************************************************)
EXTENDS MCLink, CallsProofs, FiniteSetTheorems, WellFoundedInduction

-----------------------------------------------------------------------------
(* What holds of every state.                                              *)

Live(u, i) == i \in DOMAIN asks[u] /\ ~asks[u][i].over

\* The calls of getPreKeyBundle are told apart, and those that send are for a
\* text of the caller that is not sealed before they are answered.
AskingFits(u) ==
  /\ \A i, j \in DOMAIN asks[u] : asks[u][i].id = asks[u][j].id => i = j
  /\ \A i \in DOMAIN asks[u] : asks[u][i].for = "send" =>
       /\ asks[u][i].text \in DOMAIN texts /\ texts[asks[u][i].text].by = u
       /\ ~asks[u][i].over => texts[asks[u][i].text].status = "composed"
  /\ \A i, j \in DOMAIN asks[u] :
       /\ Live(u, i) /\ Live(u, j) /\ asks[u][i].for = "send" /\ asks[u][j].for = "send"
       /\ asks[u][i].text = asks[u][j].text
       => i = j

\* Each text is in one place at a time.
RowsFit(u) ==
  /\ \A e \in outbox[u] : /\ e.kind = "message" /\ e.text \in DOMAIN texts
                          /\ texts[e.text].by = u /\ texts[e.text].status = "pending"
  /\ \A e, f \in outbox[u] : e.text = f.text => e = f

MailFits(u) ==
  /\ \A i \in DOMAIN mail[u] : mail[u][i].kind = "message" =>
       /\ mail[u][i].text \in DOMAIN texts \ shown[u]
       /\ texts[mail[u][i].text].by = Peer(u) /\ texts[mail[u][i].text].status = "sent"
  /\ \A i, j \in DOMAIN mail[u] :
       /\ mail[u][i].kind = "message" /\ mail[u][j].kind = "message" /\ mail[u][i].text = mail[u][j].text
       => i = j
  /\ \A i \in DOMAIN mail[u] : mail[u][i].first => mail[u][i].kind \in {"message", "repair"}
  /\ \A i \in DOMAIN mail[u] : mail[u][i].kind = "repair" => mail[u][i].first

ShownFits(u) == \A i \in shown[u] : texts[i].by = Peer(u) /\ texts[i].status = "sent"

\* The envelopes from the offline table come first.
StoredFirst(u) ==
  /\ \E n \in 0 .. Len(mail[u]) : \A i \in DOMAIN mail[u] : mail[u][i].kept <=> i <= n
  /\ ~live[u] => \A i \in DOMAIN mail[u] : mail[u][i].kept

Fitting == \A u \in User : AskingFits(u) /\ RowsFit(u) /\ MailFits(u) /\ ShownFits(u) /\ StoredFirst(u)

\* A prekey is on the shelf, or in one place on its way to its owner, and its
\* private half is kept meanwhile.
InMail(q, k) == \E i \in DOMAIN q : q[i].first /\ q[i].key = k
InOutbox(o, k) == \E e \in o : e.first /\ e.key = k
InBundles(b, k) == \E i \in DOMAIN b : b[i] = k

MailApart(q) == \A i, j \in DOMAIN q : /\ q[i].first /\ q[j].first /\ q[i].key = q[j].key /\ q[i].key # 0
                                       => i = j
OutboxApart(o) == \A e, f \in o : e.first /\ f.first /\ e.key = f.key /\ e.key # 0 => e = f
BundlesApart(b) == \A i, j \in DOMAIN b : b[i] = b[j] /\ b[i] # 0 => i = j

Held(sh, se, q, o, b) ==
  /\ sh \subseteq se
  /\ \A k \in PreKey : InMail(q, k) \/ InOutbox(o, k) \/ InBundles(b, k) => k \in se \ sh
  /\ \A k \in PreKey : /\ ~(InMail(q, k) /\ InOutbox(o, k)) /\ ~(InMail(q, k) /\ InBundles(b, k))
                       /\ ~(InOutbox(o, k) /\ InBundles(b, k))
  /\ MailApart(q) /\ OutboxApart(o) /\ BundlesApart(b)

KeysHeld(u) == Held(shelf[Peer(u)], secrets[Peer(u)], mail[Peer(u)], outbox[u], bundles[u])
KeysAreHeld == \A u \in User : KeysHeld(u)

\* Resets.
OneAsk(u) ==
  /\ Len(asks[u]) <= 1
  /\ \A i \in DOMAIN asks[u] : ~asks[u][i].over => ear[u] = asks[u][i].id /\ live[u]
AskAlone == hurried \/ \A u \in User : OneAsk(u)

Pending(u) == {i \in DOMAIN texts : texts[i].by = u /\ texts[i].status = "pending"}
Queued(u) == {e.text : e \in outbox[u]}
Resetting(u) == \E j \in DOMAIN asks[u] : asks[u][j].for = "repair" /\ ~asks[u][j].over
Carried(u) == Resetting(u) \/ Pending(u) \subseteq Queued(u)

PendingStays == "reset" \in severed \/ hurried \/ \A u \in User : Carried(u)

\* Rows.  A session that a user began is on its way in the outbox or in the
\* mail; the last one of them is the one the user keeps.
Clean == ~clashed /\ ~hurried /\ severed = {}

HasFirst(q) == \E i \in DOMAIN q : q[i].first
LastFirst(q, s) ==
  \A i \in DOMAIN q : q[i].first /\ (\A j \in DOMAIN q : q[j].first => j <= i) => q[i].session = s
HasFirstRow(o) == \E e \in o : e.first
LastFirstRow(o, s) ==
  \A e \in o : e.first /\ (\A f \in o : f.first => f.text <= e.text) => e.session = s

Began(u) == HasFirstRow(outbox[u]) \/ HasFirst(mail[Peer(u)])
Waiting(u) == \E i \in DOMAIN asks[u] : ~asks[u][i].over

WaitsAlone(u) ==
  \A i \in DOMAIN asks[u] : ~asks[u][i].over =>
    /\ row[u] = 0
    /\ \A e \in outbox[u] : asks[u][i].for = "send" /\ e.text < asks[u][i].text

LastBegun(u) ==
  row[u] # 0 =>
    /\ LastFirstRow(outbox[u], row[u])
    /\ HasFirstRow(outbox[u]) \/ LastFirst(mail[Peer(u)], row[u])

RowKept(u) == live[u] /\ WaitsAlone(u) /\ LastBegun(u)
OneBegins(u) == ~((Began(u) \/ Waiting(u)) /\ (Began(Peer(u)) \/ Waiting(Peer(u))))
RowsOf(u) == row[u] # 0 /\ row[Peer(u)] # 0 /\ row[u] # row[Peer(u)] => Began(u) \/ Began(Peer(u))

RowsMeet == Clean => \A u \in User : RowKept(u) /\ OneBegins(u) /\ RowsOf(u)
-----------------------------------------------------------------------------
(* The two users, envelopes and queues.                                    *)

LEMMA PeerOf ==
  ASSUME NEW u \in User
  PROVE  /\ Peer(u) \in User /\ Peer(u) # u /\ Peer(Peer(u)) = u
         /\ \A v \in User : v = u \/ v = Peer(u)
<1>1. PICK a, b \in User : a # b /\ User = {a, b}
  BY SessionsAssumption
<1>2. \E v \in User : v # u
  BY <1>1
<1>3. Peer(u) \in User /\ Peer(u) # u
  BY <1>2 DEF Peer
<1>4. \A v \in User : v = u \/ v = Peer(u)
  BY <1>1, <1>3
<1>5. \E v \in User : v # Peer(u)
  BY <1>3
<1>6. Peer(Peer(u)) \in User /\ Peer(Peer(u)) # Peer(u)
  BY <1>5 DEF Peer
<1> QED BY <1>3, <1>4, <1>6

LEMMA LeastExists ==
  ASSUME NEW S \in SUBSET Nat, S # {}
  PROVE  \E s \in S : \A t \in S : s <= t
<1> S \subseteq Nat
  OBVIOUS
<1>1. PICK s \in S : \A t \in S : <<t, s>> \notin OpToRel(<, Nat)
  BY WFMin, NatLessThanWellFounded, Zenon
<1>2. \A t \in S : t < s => <<t, s>> \in OpToRel(<, Nat)
  BY Zenon DEF OpToRel
<1>3. \A t \in S : ~(t < s)
  BY <1>1, <1>2
<1> QED BY <1>3

LEMMA EnvelopeFields ==
  ASSUME NEW e \in Envelope
  PROVE  /\ e.kind \in {"message", "edit", "repair", "reset"} /\ e.text \in Nat /\ e.session \in Nat
         /\ e.first \in BOOLEAN /\ e.key \in PreKey \cup {0} /\ e.kept \in BOOLEAN
  BY DEF Envelope

LEMMA KeptOf ==
  ASSUME NEW e \in Envelope, NEW b \in BOOLEAN
  PROVE  LET f == [e EXCEPT !.kept = b] IN
         /\ f \in Envelope /\ f.kind = e.kind /\ f.text = e.text /\ f.session = e.session
         /\ f.first = e.first /\ f.key = e.key /\ f.kept = b
  BY DEF Envelope

LEMMA SealedIs ==
  ASSUME NEW kind \in {"message", "edit", "repair", "reset"}, NEW i \in Nat, NEW s \in Nat,
         NEW first \in BOOLEAN, NEW k \in PreKey \cup {0}
  PROVE  LET e == Sealed(kind, i, s, first, k) IN
         /\ e \in Envelope /\ e.kind = kind /\ e.text = i /\ e.session = s
         /\ e.first = first /\ e.key = k /\ e.kept = FALSE
  BY DEF Sealed, Envelope

\* What is posted comes last.
LEMMA PostedIs ==
  ASSUME SessionsTypeOK, NEW p \in User, NEW e \in Envelope
  PROVE  /\ Posted(p, <<e>>) = Append(mail[p], [e EXCEPT !.kept = ~live[p]])
         /\ [e EXCEPT !.kept = ~live[p]] \in Envelope /\ live[p] \in BOOLEAN /\ mail[p] \in Seq(Envelope)
<1>1. live[p] \in BOOLEAN /\ mail[p] \in Seq(Envelope)
  BY DEF SessionsTypeOK
<1>2. [e EXCEPT !.kept = ~live[p]] \in Envelope
  BY <1>1, KeptOf
<1>3. [i \in DOMAIN <<e>> |-> [<<e>>[i] EXCEPT !.kept = ~live[p]]] = <<[e EXCEPT !.kept = ~live[p]]>>
  OBVIOUS
<1> DEFINE f == [e EXCEPT !.kept = ~live[p]]
<1> HIDE DEF f
<1>4. f \in Envelope
  BY <1>2 DEF f
<1>5. mail[p] \o <<f>> = Append(mail[p], f)
  BY <1>1, <1>4
<1> QED BY <1>1, <1>2, <1>3, <1>5 DEF Posted, f

LEMMA AppendIs ==
  ASSUME NEW S, NEW q \in Seq(S), NEW x \in S
  PROVE  /\ Append(q, x) \in Seq(S) /\ Len(Append(q, x)) = Len(q) + 1 /\ Len(q) \in Nat
         /\ DOMAIN q = 1 .. Len(q) /\ DOMAIN Append(q, x) = 1 .. (Len(q) + 1)
         /\ \A i \in 1 .. Len(q) : Append(q, x)[i] = q[i]
         /\ Append(q, x)[Len(q) + 1] = x
  OBVIOUS

LEMMA TailIs ==
  ASSUME NEW S, NEW q \in Seq(S), q # <<>>
  PROVE  /\ Tail(q) \in Seq(S) /\ Head(q) = q[1] /\ Head(q) \in S /\ 1 \in DOMAIN q
         /\ Len(q) \in Nat /\ Len(Tail(q)) = Len(q) - 1
         /\ DOMAIN q = 1 .. Len(q) /\ DOMAIN Tail(q) = 1 .. (Len(q) - 1)
         /\ \A i \in DOMAIN Tail(q) : i + 1 \in DOMAIN q /\ Tail(q)[i] = q[i + 1]
  OBVIOUS

LEMMA RemoveIs ==
  ASSUME NEW S, NEW q \in Seq(S), NEW i \in DOMAIN q
  PROVE  LET r == RemoveAt(q, i) IN
         /\ r \in Seq(S) /\ Len(q) \in Nat /\ Len(r) = Len(q) - 1
         /\ \A j \in DOMAIN r : r[j] = IF j < i THEN q[j] ELSE q[j + 1]
         /\ DOMAIN q = 1 .. Len(q) /\ DOMAIN r = 1 .. (Len(q) - 1)
<1>1. /\ SubSeq(q, 1, i - 1) \in Seq(S) /\ Len(SubSeq(q, 1, i - 1)) = i - 1
      /\ SubSeq(q, i + 1, Len(q)) \in Seq(S) /\ Len(SubSeq(q, i + 1, Len(q))) = Len(q) - i
      /\ \A j \in 1 .. (i - 1) : SubSeq(q, 1, i - 1)[j] = q[j]
      /\ \A j \in 1 .. (Len(q) - i) : SubSeq(q, i + 1, Len(q))[j] = q[i + j]
  OBVIOUS
<1> DEFINE a == SubSeq(q, 1, i - 1)
           b == SubSeq(q, i + 1, Len(q))
<1> HIDE DEF a, b
<1>2. /\ a \o b \in Seq(S) /\ Len(a \o b) = Len(q) - 1
      /\ \A j \in 1 .. (Len(q) - 1) : (a \o b)[j] = IF j < i THEN q[j] ELSE q[j + 1]
  <2>1. a \in Seq(S) /\ b \in Seq(S) /\ i \in 1 .. Len(q) /\ Len(q) \in Nat
    BY <1>1 DEF a, b
  <2>2. Len(a) = i - 1 /\ Len(b) = Len(q) - i
    BY <1>1 DEF a, b
  <2>3. a \o b \in Seq(S) /\ Len(a \o b) = Len(q) - 1
    BY <2>1, <2>2
  <2>4. ASSUME NEW j \in 1 .. (Len(q) - 1) PROVE (a \o b)[j] = IF j < i THEN q[j] ELSE q[j + 1]
    <3>1. CASE j < i
      BY <1>1, <2>1, <2>2, <3>1 DEF a
    <3>2. CASE ~(j < i)
      <4>1. (a \o b)[j] = b[j - (i - 1)] /\ j - (i - 1) \in 1 .. (Len(q) - i)
        BY <2>1, <2>2, <3>2
      <4>2. b[j - (i - 1)] = q[i + (j - (i - 1))]
        BY <1>1, <4>1 DEF b
      <4>3. i + (j - (i - 1)) = j + 1
        BY <2>1
      <4> QED BY <3>2, <4>1, <4>2, <4>3
    <3> QED BY <3>1, <3>2
  <2> QED BY <2>3, <2>4
<1>3. RemoveAt(q, i) = a \o b
  BY DEF RemoveAt, a, b
<1> DEFINE r == a \o b
<1>4. DOMAIN r = 1 .. (Len(q) - 1) /\ DOMAIN q = 1 .. Len(q) /\ Len(q) \in Nat
  BY <1>2
<1> HIDE DEF r
<1> QED BY <1>2, <1>3, <1>4 DEF r

-----------------------------------------------------------------------------
(* New sessions.                                                           *)

\* The outbox is finite, as its texts are.
LEMMA OutboxIsFinite ==
  ASSUME SessionsTypeOK, NEW u \in User, RowsFit(u)
  PROVE  IsFiniteSet(outbox[u])
<1> DEFINE f == [e \in outbox[u] |-> e.text]
<1>1. texts \in Seq(Text) /\ DOMAIN texts = 1 .. Len(texts) /\ Len(texts) \in Nat
  BY DEF SessionsTypeOK
<1>2. f \in [outbox[u] -> DOMAIN texts] /\ \A e, g \in outbox[u] : f[e] = f[g] => e = g
  BY DEF RowsFit
<1>3. f \in Injection(outbox[u], DOMAIN texts)
  BY <1>2 DEF Injection, IsInjective
<1>4. IsFiniteSet(DOMAIN texts)
  BY <1>1, FS_Interval
<1> HIDE DEF f
<1> QED BY <1>3, <1>4, FS_Injection

\* So are the numbers that something refers to: one of as many and one more is
\* free.
LEMMA ReferredIsFinite ==
  ASSUME SessionsTypeOK, \A u \in User : RowsFit(u)
  PROVE  IsFiniteSet(Referred)
<1>1. PICK a, b \in User : User = {a, b}
  BY SessionsAssumption
<1>2. IsFiniteSet({row[u] : u \in User})
  <2>1. {row[u] : u \in User} = {row[a]} \cup {row[b]}
    BY <1>1
  <2>2. IsFiniteSet({row[a]}) /\ IsFiniteSet({row[b]})
    BY FS_Singleton
  <2>3. IsFiniteSet({row[a]} \cup {row[b]})
    BY <2>2, FS_Union
  <2> QED BY <2>1, <2>3
<1> DEFINE E(u) == outbox[u] \cup Range(mail[u])
           T == {e.session : e \in UNION {E(u) : u \in User}}
<1>3. ASSUME NEW u \in User PROVE IsFiniteSet(E(u))
  <2>1. mail[u] \in Seq(Envelope) /\ DOMAIN mail[u] = 1 .. Len(mail[u]) /\ Len(mail[u]) \in Nat
    BY DEF SessionsTypeOK
  <2>2. IsFiniteSet(DOMAIN mail[u])
    BY <2>1, FS_Interval
  <2>3. mail[u] \in Surjection(DOMAIN mail[u], Range(mail[u]))
    BY <2>1 DEF Surjection, Range
  <2>4. IsFiniteSet(Range(mail[u]))
    BY <2>2, <2>3, FS_Surjection
  <2> QED BY <2>4, OutboxIsFinite, FS_Union
<1>4. UNION {E(u) : u \in User} = E(a) \cup E(b)
  <2> HIDE DEF E
  <2> QED BY <1>1
<1>5. IsFiniteSet(E(a) \cup E(b))
  <2>1. IsFiniteSet(E(a)) /\ IsFiniteSet(E(b))
    BY <1>3
  <2> HIDE DEF E
  <2> QED BY <2>1, FS_Union
<1>6. IsFiniteSet(T)
  <2> DEFINE D == UNION {E(u) : u \in User}
             f == [e \in D |-> e.session]
  <2>1. f \in Surjection(D, T)
    BY DEF Surjection
  <2>2. IsFiniteSet(D)
    BY <1>4, <1>5
  <2> HIDE DEF f, D
  <2> QED BY <2>1, <2>2, FS_Surjection
<1> DEFINE R == {row[u] : u \in User}
<1>7. Referred = R \cup T
  BY DEF Referred
<1> HIDE DEF R, T
<1> QED BY <1>2, <1>6, <1>7, FS_Union DEF R

LEMMA FreshIsNumber ==
  ASSUME SessionsTypeOK, \A u \in User : RowsFit(u)
  PROVE  FreshSession \in Nat \ {0} /\ FreshSession \notin Referred
<1> DEFINE n == Cardinality(Referred)
           free == 1 .. (n + 1) \ Referred
<1>1. IsFiniteSet(Referred) /\ n \in Nat
  BY ReferredIsFinite, FS_CardinalityType
<1>2. free # {}
  <2> SUFFICES ASSUME 1 .. (n + 1) \subseteq Referred PROVE FALSE
    OBVIOUS
  <2>1. Cardinality(1 .. (n + 1)) <= n
    BY <1>1, FS_Subset
  <2> HIDE DEF n
  <2>2. Cardinality(1 .. (n + 1)) = n + 1
    <3>1. 1 \in Int /\ n + 1 \in Int /\ ~(1 > n + 1) /\ (n + 1) - 1 + 1 = n + 1
      BY <1>1
    <3> QED BY <3>1, FS_Interval
  <2> QED BY <1>1, <2>1, <2>2
<1> HIDE DEF n
<1>3. free \in SUBSET Nat
  BY <1>1
<1>4. \E s \in free : \A t \in free : s <= t
  <2> HIDE DEF free
  <2> QED BY <1>2, <1>3, LeastExists
<1>5. FreshSession \in free
  BY <1>4 DEF FreshSession, n
<1> QED BY <1>1, <1>5

-----------------------------------------------------------------------------
(* Asking for a bundle, and what its caller does.                          *)

\* What a call of getPreKeyBundle does.
Asks(u, for, text, kept, id, k) ==
  /\ asks' = [asks EXCEPT ![u] = Append(@, [id |-> id, for |-> for, text |-> text,
                                            kept |-> kept, over |-> FALSE])]
  /\ ear' = [ear EXCEPT ![u] = id]
  /\ hurried' = (hurried \/ asks[u] # <<>>)
  /\ clashed' = (clashed \/ Beginning(Peer(u)))
  /\ bundles' = [bundles EXCEPT ![u] = Append(@, k)]
  /\ shelf' = [shelf EXCEPT ![Peer(u)] = @ \ {k}]

LEMMA AskIs ==
  ASSUME SessionsTypeOK, NEW u \in User, NEW for, NEW text, NEW kept, AskBundle(u, for, text, kept)
  PROVE  \E id \in 1 .. 4, k \in PreKey \cup {0} :
           /\ \A i \in DOMAIN asks[u] : asks[u][i].id # id
           /\ k # 0 => k \in shelf[Peer(u)]
           /\ Asks(u, for, text, kept, id, k)
<1> DEFINE id == CHOOSE k \in 1 .. 4 : \A i \in DOMAIN asks[u] : asks[u][i].id # k
           p == Peer(u)
           k == IF shelf[p] = {} THEN 0 ELSE CHOOSE x \in shelf[p] : \A y \in shelf[p] : x <= y
<1>1. \E j \in 1 .. 4 : \A i \in DOMAIN asks[u] : asks[u][i].id # j
  <2> SUFFICES ASSUME \A j \in 1 .. 4 : \E i \in DOMAIN asks[u] : asks[u][i].id = j PROVE FALSE
    OBVIOUS
  <2>1. DOMAIN asks[u] \subseteq 1 .. 3
    <3>1. asks[u] \in Seq(Ask) /\ Len(asks[u]) < 4
      BY DEF SessionsTypeOK, AskBundle
    <3> QED BY <3>1
  <2>2. PICK i1 \in 1 .. 3 : asks[u][i1].id = 1
    BY <2>1
  <2>3. PICK i2 \in 1 .. 3 : asks[u][i2].id = 2
    BY <2>1
  <2>4. PICK i3 \in 1 .. 3 : asks[u][i3].id = 3
    BY <2>1
  <2>5. PICK i4 \in 1 .. 3 : asks[u][i4].id = 4
    BY <2>1
  <2>6. i1 # i2 /\ i1 # i3 /\ i1 # i4 /\ i2 # i3 /\ i2 # i4 /\ i3 # i4
    BY <2>2, <2>3, <2>4, <2>5
  <2> QED BY <2>6
<1>2. id \in 1 .. 4 /\ \A i \in DOMAIN asks[u] : asks[u][i].id # id
  BY <1>1
<1>3. p \in User /\ shelf[p] \in SUBSET Nat /\ shelf[p] \subseteq PreKey
  BY PeerOf, SessionsAssumption DEF SessionsTypeOK
<1>4. k \in PreKey \cup {0} /\ (k # 0 => k \in shelf[p])
  BY <1>3, LeastExists
<1>5. Asks(u, for, text, kept, id, k)
  BY DEF AskBundle, Asks
<1> HIDE DEF id, k
<1> QED BY <1>2, <1>4, <1>5

LEMMA AskFields ==
  ASSUME NEW a \in Ask
  PROVE  /\ a.id \in 1 .. 4 /\ a.for \in {"send", "repair"} /\ a.text \in Nat
         /\ a.kept \in BOOLEAN /\ a.over \in BOOLEAN
  BY DEF Ask

\* The caller that the socket answers.
LEMMA HeardAsk ==
  ASSUME SessionsTypeOK, NEW u \in User, AskingFits(u), ear[u] # 0
  PROVE  \E i \in DOMAIN asks[u] : /\ AskOf(u, ear[u]) = asks[u][i] /\ asks[u][i] \in Ask
                                   /\ asks[u][i].id = ear[u] /\ ~asks[u][i].over
<1>1. PICK i \in DOMAIN asks[u] : asks[u][i].id = ear[u] /\ ~asks[u][i].over
  BY DEF SessionsTypeOK
<1>2. asks[u] \in Seq(Ask) /\ asks[u][i] \in Ask
  BY DEF SessionsTypeOK
<1>3. \A a \in {asks[u][j] : j \in DOMAIN asks[u]} : a.id = ear[u] => a = asks[u][i]
  BY <1>1 DEF AskingFits
<1>4. AskOf(u, ear[u]) = asks[u][i]
  BY <1>1, <1>3 DEF AskOf
<1> QED BY <1>1, <1>2, <1>4

LEMMA OverIs ==
  ASSUME SessionsTypeOK, NEW u \in User, NEW id
  PROVE  /\ Over(u, id) \in Seq(Ask) /\ DOMAIN Over(u, id) = DOMAIN asks[u] /\ asks[u] \in Seq(Ask)
         /\ \A i \in DOMAIN asks[u] :
              /\ Over(u, id)[i].id = asks[u][i].id /\ Over(u, id)[i].for = asks[u][i].for
              /\ Over(u, id)[i].text = asks[u][i].text /\ Over(u, id)[i].kept = asks[u][i].kept
              /\ Over(u, id)[i].over = (asks[u][i].over \/ asks[u][i].id = id)
<1>1. asks[u] \in Seq(Ask) /\ DOMAIN asks[u] = 1 .. Len(asks[u]) /\ Len(asks[u]) \in Nat
  BY DEF SessionsTypeOK
<1>2. ASSUME NEW i \in DOMAIN asks[u]
      PROVE  /\ Over(u, id)[i] \in Ask
             /\ Over(u, id)[i].id = asks[u][i].id /\ Over(u, id)[i].for = asks[u][i].for
             /\ Over(u, id)[i].text = asks[u][i].text /\ Over(u, id)[i].kept = asks[u][i].kept
             /\ Over(u, id)[i].over = (asks[u][i].over \/ asks[u][i].id = id)
  <2>1. asks[u][i] \in Ask
    BY <1>1
  <2>2. Over(u, id)[i] = IF asks[u][i].id = id THEN [asks[u][i] EXCEPT !.over = TRUE] ELSE asks[u][i]
    BY DEF Over
  <2>3. CASE asks[u][i].id = id
    BY <2>1, <2>2, <2>3 DEF Ask
  <2>4. CASE asks[u][i].id # id
    BY <2>1, <2>2, <2>4 DEF Ask
  <2> QED BY <2>3, <2>4
<1>3. DOMAIN Over(u, id) = DOMAIN asks[u]
  BY DEF Over
<1>4. Over(u, id) \in Seq(Ask)
  <2> DEFINE F(i) == IF asks[u][i].id = id THEN [asks[u][i] EXCEPT !.over = TRUE] ELSE asks[u][i]
  <2>1. \A i \in 1 .. Len(asks[u]) : F(i) \in Ask
    BY <1>1, <1>2 DEF Over
  <2>2. Over(u, id) = [i \in 1 .. Len(asks[u]) |-> F(i)]
    BY <1>1 DEF Over
  <2> HIDE DEF F
  <2> QED BY <1>1, <2>1, <2>2
<1> QED BY <1>1, <1>2, <1>3, <1>4

\* A text is sealed in a new session; or the messages still pending are, after
\* a repair; or the repair throws.
Starts(u, i, s, k, post) ==
  /\ outbox' = [outbox EXCEPT ![u] = Enqueued(@, {Sealed("message", i, s, TRUE, k)})]
  /\ texts' = [texts EXCEPT ![i].status = "pending"]
  /\ mail' = post

Again(u, s) == {Sealed("message", i, s, FALSE, 0) : i \in Pending(u)}

Repairs(u, s, k, post) ==
  /\ outbox' = [outbox EXCEPT ![u] = Enqueued(@, Again(u, s))]
  /\ texts' = texts
  /\ mail' = [post EXCEPT ![Peer(u)] =
                Append(mail[Peer(u)], [Sealed("repair", 0, s, TRUE, k) EXCEPT !.kept = ~live[Peer(u)]])]

Throws(post) == outbox' = outbox /\ texts' = texts /\ mail' = post

Finishes(u, ask, s, k, up, post) ==
  /\ row' = [row EXCEPT ![u] = s]
  /\ \/ ask.for = "send" /\ Starts(u, ask.text, s, k, post)
     \/ ask.for = "repair" /\ up /\ Repairs(u, s, k, post)
     \/ ask.for = "repair" /\ ~up /\ Throws(post)

LEMMA FinishIs ==
  ASSUME SessionsTypeOK, \A v \in User : RowsFit(v), NEW u \in User, NEW ask \in Ask,
         NEW k \in PreKey \cup {0}, NEW up \in BOOLEAN, NEW post, Finish(u, ask, k, up, post)
  PROVE  \E s \in Nat \ {0} : Finishes(u, ask, s, k, up, post)
<1> DEFINE s == FreshSession
<1>1. s \in Nat \ {0} /\ ask.for \in {"send", "repair"}
  BY FreshIsNumber, AskFields
<1>2. Repair(s, k) = <<Sealed("repair", 0, s, TRUE, k)>>
  BY DEF Repair
<1>3. Posted(Peer(u), Repair(s, k))
        = Append(mail[Peer(u)], [Sealed("repair", 0, s, TRUE, k) EXCEPT !.kept = ~live[Peer(u)]])
  <2> DEFINE e == Sealed("repair", 0, s, TRUE, k)
  <2>1. "repair" \in {"message", "edit", "repair", "reset"} /\ 0 \in Nat /\ s \in Nat /\ TRUE \in BOOLEAN
    BY <1>1
  <2>2. e \in Envelope
    BY <2>1, SealedIs
  <2> HIDE DEF e
  <2>3. Posted(Peer(u), <<e>>) = Append(mail[Peer(u)], [e EXCEPT !.kept = ~live[Peer(u)]])
    BY <2>2, PeerOf, PostedIs
  <2> QED BY <1>2, <2>3 DEF e
<1>4. Finishes(u, ask, s, k, up, post)
  <2> HIDE DEF s
  <2>1. /\ row' = [row EXCEPT ![u] = s]
        /\ IF ask.for = "send"
           THEN /\ outbox' = [outbox EXCEPT ![u] = Enqueued(@, {Sealed("message", ask.text, s, TRUE, k)})]
                /\ texts' = [texts EXCEPT ![ask.text].status = "pending"]
                /\ mail' = post
           ELSE /\ UNCHANGED texts
                /\ IF up
                   THEN /\ mail' = [post EXCEPT ![Peer(u)] = Posted(Peer(u), Repair(s, k))]
                        /\ outbox' = [outbox EXCEPT ![u] = Enqueued(@, Again(u, s))]
                   ELSE /\ mail' = post /\ UNCHANGED outbox
    BY DEF Finish, s, Again, Pending
  <2> QED BY <1>1, <1>3, <2>1 DEF Finishes, Starts, Repairs, Throws
<1> QED BY <1>1, <1>4

\* What is enqueued replaces what there was of the same text.
LEMMA EnqueuedIs ==
  ASSUME NEW rows, NEW news, NEW e
  PROVE  e \in Enqueued(rows, news) <=> e \in news \/ (e \in rows /\ \A f \in news : f.text # e.text)
  BY DEF Enqueued

LEMMA AgainIs ==
  ASSUME SessionsTypeOK, NEW u \in User, NEW s \in Nat
  PROVE  /\ Again(u, s) \subseteq Envelope /\ Pending(u) \subseteq DOMAIN texts
         /\ \A e \in Again(u, s) : /\ e.kind = "message" /\ e.text \in Pending(u) /\ e.session = s
                                   /\ ~e.first /\ e.key = 0 /\ ~e.kept
         /\ \A e, f \in Again(u, s) : e.text = f.text => e = f
         /\ \A i \in Pending(u) : \E e \in Again(u, s) : e.text = i
<1>1. Pending(u) \subseteq DOMAIN texts /\ Pending(u) \subseteq Nat
  BY DEF Pending, SessionsTypeOK
<1>2. ASSUME NEW i \in Pending(u)
      PROVE  LET e == Sealed("message", i, s, FALSE, 0) IN
             /\ e \in Envelope /\ e.kind = "message" /\ e.text = i /\ e.session = s
             /\ ~e.first /\ e.key = 0 /\ ~e.kept
  <2>1. /\ "message" \in {"message", "edit", "repair", "reset"} /\ i \in Nat /\ FALSE \in BOOLEAN
        /\ 0 \in PreKey \cup {0}
    BY <1>1
  <2> QED BY <2>1 DEF Sealed, Envelope
<1> DEFINE E(i) == Sealed("message", i, s, FALSE, 0)
<1>3. Again(u, s) = {E(i) : i \in Pending(u)}
  BY DEF Again
<1>4. \A i \in Pending(u) : /\ E(i) \in Envelope /\ E(i).kind = "message" /\ E(i).text = i /\ E(i).session = s
                            /\ ~E(i).first /\ E(i).key = 0 /\ ~E(i).kept
  BY <1>2
<1> HIDE DEF E
<1> QED BY <1>1, <1>3, <1>4

-----------------------------------------------------------------------------
(* Types of what these write.                                              *)

\* What has been sent stays sent, and the texts of others stay as they are.
TextsFollow(u) ==
  /\ texts' \in Seq(Text) /\ DOMAIN texts \subseteq DOMAIN texts'
  /\ \A i \in DOMAIN texts : /\ texts'[i].by = texts[i].by
                             /\ texts[i].status = "sent" => texts'[i].status = "sent"
                             /\ texts[i].by # u => texts'[i] = texts[i]

LEMMA TextsStay ==
  ASSUME SessionsTypeOK, NEW u, texts' = texts PROVE TextsFollow(u)
  BY DEF TextsFollow, SessionsTypeOK

\* A change of the status of one text.
LEMMA StatusIs ==
  ASSUME SessionsTypeOK, NEW i \in DOMAIN texts, NEW st \in {"pending", "sent"},
         texts' = [texts EXCEPT ![i].status = st]
  PROVE  /\ texts' \in Seq(Text) /\ DOMAIN texts' = DOMAIN texts
         /\ texts'[i].status = st /\ texts'[i].by = texts[i].by
         /\ \A j \in DOMAIN texts : j # i => texts'[j] = texts[j]
<1>1. texts \in Seq(Text) /\ texts[i] \in Text
  BY DEF SessionsTypeOK
<1>2. [texts[i] EXCEPT !.status = st] \in Text
  BY <1>1 DEF Text
<1>3. texts' = [texts EXCEPT ![i] = [texts[i] EXCEPT !.status = st]]
  OBVIOUS
<1>4. texts'[i] = [texts[i] EXCEPT !.status = st]
  BY <1>1
<1>5. texts'[i].status = st /\ texts'[i].by = texts[i].by
  BY <1>1, <1>4 DEF Text
<1>6. DOMAIN texts' = DOMAIN texts /\ \A j \in DOMAIN texts : j # i => texts'[j] = texts[j]
  OBVIOUS
<1>7. texts' \in Seq(Text)
  <2> DEFINE t == [texts[i] EXCEPT !.status = st]
  <2> HIDE DEF t
  <2>1. t \in Text /\ texts' = [texts EXCEPT ![i] = t]
    BY <1>2, <1>3 DEF t
  <2> QED BY <1>1, <2>1
<1> QED BY <1>5, <1>6, <1>7

LEMMA FinishTypes ==
  ASSUME SessionsTypeOK, \A v \in User : RowsFit(v), NEW u \in User, NEW ask \in Ask,
         ask.for = "send" => ask.text \in DOMAIN texts /\ texts[ask.text].by = u
                             /\ texts[ask.text].status = "composed",
         NEW k \in PreKey \cup {0}, NEW s \in Nat, NEW up, NEW post \in [User -> Seq(Envelope)],
         Finishes(u, ask, s, k, up, post)
  PROVE  /\ row' \in [User -> Nat] /\ outbox' \in [User -> SUBSET Envelope]
         /\ mail' \in [User -> Seq(Envelope)]
         /\ TextsFollow(u) /\ DOMAIN texts' = DOMAIN texts
         /\ \A v \in User : v # u => outbox'[v] = outbox[v]
<1>1. row' \in [User -> Nat]
  BY DEF Finishes, SessionsTypeOK
<1>2. CASE ask.for = "send" /\ Starts(u, ask.text, s, k, post)
  <2>1. ask.text \in Nat
    BY AskFields
  <2>2. Sealed("message", ask.text, s, TRUE, k) \in Envelope
    BY <2>1, SealedIs
  <2>3. outbox' \in [User -> SUBSET Envelope] /\ \A v \in User : v # u => outbox'[v] = outbox[v]
    BY <1>2, <2>2 DEF Starts, SessionsTypeOK, Enqueued
  <2>4. /\ texts' \in Seq(Text) /\ DOMAIN texts' = DOMAIN texts
        /\ texts'[ask.text].by = texts[ask.text].by
        /\ \A j \in DOMAIN texts : j # ask.text => texts'[j] = texts[j]
    BY <1>2, StatusIs DEF Starts
  <2>5. TextsFollow(u)
    BY <1>2, <2>4 DEF TextsFollow
  <2> QED BY <1>1, <1>2, <2>3, <2>4, <2>5 DEF Starts
<1>3. CASE ask.for = "repair" /\ Repairs(u, s, k, post)
  <2>1. outbox' \in [User -> SUBSET Envelope] /\ \A v \in User : v # u => outbox'[v] = outbox[v]
    BY <1>3, AgainIs DEF Repairs, SessionsTypeOK, Enqueued
  <2> DEFINE e == [Sealed("repair", 0, s, TRUE, k) EXCEPT !.kept = ~live[Peer(u)]]
  <2>2. e \in Envelope
    BY PeerOf, SealedIs, PostedIs
  <2> HIDE DEF e
  <2>3. mail[Peer(u)] \in Seq(Envelope) /\ mail' = [post EXCEPT ![Peer(u)] = Append(mail[Peer(u)], e)]
    BY <1>3, PeerOf DEF Repairs, SessionsTypeOK, e
  <2>4. mail' \in [User -> Seq(Envelope)]
    <3>1. Append(mail[Peer(u)], e) \in Seq(Envelope)
      BY <2>2, <2>3, AppendIs
    <3> QED BY <2>3, <3>1
  <2> QED BY <1>1, <1>3, <2>1, <2>4, TextsStay DEF Repairs
<1>4. CASE ask.for = "repair" /\ Throws(post)
  BY <1>1, <1>4, TextsStay DEF Throws, SessionsTypeOK
<1> QED BY <1>2, <1>3, <1>4 DEF Finishes

LEMMA AskTypes ==
  ASSUME SessionsTypeOK, NEW u \in User, NEW for \in {"send", "repair"}, NEW text \in Nat, NEW kept \in BOOLEAN,
         AskBundle(u, for, text, kept)
  PROVE  /\ asks' \in [User -> Seq(Ask)] /\ ear' \in [User -> 0 .. 4]
         /\ bundles' \in [User -> Seq(PreKey \cup {0})] /\ shelf' \in [User -> SUBSET PreKey]
         /\ hurried' \in BOOLEAN /\ clashed' \in BOOLEAN
         /\ \A v \in User : ear'[v] # 0 =>
              \E i \in DOMAIN asks'[v] : asks'[v][i].id = ear'[v] /\ ~asks'[v][i].over
<1>1. PICK id \in 1 .. 4, k \in PreKey \cup {0} : Asks(u, for, text, kept, id, k)
  BY AskIs
<1> DEFINE a == [id |-> id, for |-> for, text |-> text, kept |-> kept, over |-> FALSE]
<1>2. a \in Ask /\ a.id = id /\ ~a.over
  BY DEF Ask
<1> HIDE DEF a
<1>3. asks' = [asks EXCEPT ![u] = Append(@, a)] /\ ear' = [ear EXCEPT ![u] = id]
  BY <1>1 DEF a, Asks
<1>4. asks' \in [User -> Seq(Ask)]
  BY <1>2, <1>3 DEF SessionsTypeOK
<1>5. \A v \in User : ear'[v] # 0 => \E i \in DOMAIN asks'[v] : asks'[v][i].id = ear'[v] /\ ~asks'[v][i].over
  <2> SUFFICES ASSUME NEW v \in User, ear'[v] # 0
               PROVE  \E i \in DOMAIN asks'[v] : asks'[v][i].id = ear'[v] /\ ~asks'[v][i].over
    OBVIOUS
  <2>1. CASE v = u
    <3>1. asks'[u] = Append(asks[u], a) /\ ear'[u] = id /\ asks[u] \in Seq(Ask)
      BY <1>3 DEF SessionsTypeOK
    <3>2. Len(asks[u]) + 1 \in DOMAIN asks'[u] /\ asks'[u][Len(asks[u]) + 1] = a
      BY <1>2, <3>1, AppendIs
    <3> QED BY <1>2, <2>1, <3>1, <3>2
  <2>2. CASE v # u
    <3>1. asks'[v] = asks[v] /\ ear'[v] = ear[v]
      BY <1>3, <2>2 DEF SessionsTypeOK
    <3> QED BY <3>1 DEF SessionsTypeOK
  <2> QED BY <2>1, <2>2
<1>6. ear' \in [User -> 0 .. 4] /\ shelf' \in [User -> SUBSET PreKey]
  <2>1. ear \in [User -> 0 .. 4] /\ id \in 0 .. 4 /\ ear' = [ear EXCEPT ![u] = id]
    BY <1>3 DEF SessionsTypeOK
  <2>2. /\ shelf \in [User -> SUBSET PreKey] /\ Peer(u) \in User
        /\ shelf' = [shelf EXCEPT ![Peer(u)] = shelf[Peer(u)] \ {k}]
    BY <1>1, PeerOf DEF SessionsTypeOK, Asks
  <2>3. shelf[Peer(u)] \ {k} \in SUBSET PreKey
    BY <2>2
  <2> QED BY <2>1, <2>2, <2>3
<1>7. bundles' \in [User -> Seq(PreKey \cup {0})]
  <2>1. bundles \in [User -> Seq(PreKey \cup {0})] /\ bundles' = [bundles EXCEPT ![u] = Append(@, k)]
    BY <1>1 DEF SessionsTypeOK, Asks
  <2>2. Append(bundles[u], k) \in Seq(PreKey \cup {0})
    BY <2>1, AppendIs
  <2> QED BY <2>1, <2>2
<1>8. hurried' \in BOOLEAN /\ clashed' \in BOOLEAN
  <2>1. hurried \in BOOLEAN /\ clashed \in BOOLEAN
    BY DEF SessionsTypeOK
  <2> QED BY <1>1, <2>1 DEF Beginning, Asks
<1> QED BY <1>4, <1>5, <1>6, <1>7, <1>8

-----------------------------------------------------------------------------
(* What a step leaves of what fits.                                        *)

LEMMA OtherFits ==
  ASSUME SessionsTypeOK, NEW u \in User, NEW v \in User, v # u, TextsFollow(u),
         AskingFits(v), RowsFit(v), asks'[v] = asks[v], outbox'[v] = outbox[v]
  PROVE  AskingFits(v)' /\ RowsFit(v)'
  BY DEF TextsFollow, AskingFits, RowsFit, Live

LEMMA SameFits ==
  ASSUME SessionsTypeOK, NEW v \in User, texts' = texts,
         AskingFits(v), RowsFit(v), asks'[v] = asks[v], outbox'[v] = outbox[v]
  PROVE  AskingFits(v)' /\ RowsFit(v)'
  BY DEF AskingFits, RowsFit, Live

LEMMA ShownStillFits ==
  ASSUME SessionsTypeOK, NEW u \in User, NEW v \in User, ShownFits(v), TextsFollow(u), shown'[v] = shown[v]
  PROVE  ShownFits(v)'
  BY DEF SessionsTypeOK, TextsFollow, ShownFits

LEMMA MailStays ==
  ASSUME SessionsTypeOK, NEW u \in User, NEW v \in User, TextsFollow(u), MailFits(v),
         mail'[v] = mail[v], shown'[v] = shown[v]
  PROVE  MailFits(v)'
  BY DEF TextsFollow, MailFits

\* Something comes that carries no text.
LEMMA MailGrows ==
  ASSUME SessionsTypeOK, NEW u \in User, NEW v \in User, TextsFollow(u), MailFits(v),
         NEW e \in Envelope, e.kind # "message", e.first <=> e.kind = "repair",
         mail'[v] = Append(mail[v], e), shown'[v] = shown[v]
  PROVE  MailFits(v)'
<1>1. mail[v] \in Seq(Envelope)
  BY DEF SessionsTypeOK
<1> DEFINE q == mail[v]
           r == mail'[v]
<1>2. /\ Len(q) \in Nat /\ DOMAIN q = 1 .. Len(q) /\ DOMAIN r = 1 .. (Len(q) + 1)
      /\ \A i \in 1 .. Len(q) : r[i] = q[i]
      /\ r[Len(q) + 1] = e
  BY <1>1, AppendIs
<1>3. \A i \in DOMAIN r : r[i].kind = "message" => i \in DOMAIN q /\ r[i] = q[i]
  BY <1>2
<1> HIDE DEF q, r
<1>4. \A i \in DOMAIN r : r[i].kind = "message" =>
        /\ r[i].text \in DOMAIN texts' \ shown'[v]
        /\ texts'[r[i].text].by = Peer(v) /\ texts'[r[i].text].status = "sent"
  BY <1>3 DEF MailFits, TextsFollow, q
<1>5. \A i, j \in DOMAIN r : r[i].kind = "message" /\ r[j].kind = "message" /\ r[i].text = r[j].text => i = j
  BY <1>3 DEF MailFits, q
<1>6. \A i \in DOMAIN r : /\ r[i].first => r[i].kind \in {"message", "repair"}
                          /\ r[i].kind = "repair" => r[i].first
  BY <1>2 DEF MailFits, q
<1> QED BY <1>4, <1>5, <1>6 DEF MailFits, r

\* A text comes that was not sent before.
LEMMA MailGetsText ==
  ASSUME SessionsTypeOK, NEW u \in User, NEW v \in User, TextsFollow(u), MailFits(v), ShownFits(v),
         NEW e \in Envelope, e.kind = "message", e.text \in DOMAIN texts,
         texts[e.text].by = Peer(v), texts[e.text].status # "sent", texts'[e.text].status = "sent",
         mail'[v] = Append(mail[v], e), shown'[v] = shown[v]
  PROVE  MailFits(v)'
<1>1. mail[v] \in Seq(Envelope)
  BY DEF SessionsTypeOK
<1> DEFINE q == mail[v]
           r == mail'[v]
<1>2. /\ Len(q) \in Nat /\ DOMAIN q = 1 .. Len(q) /\ DOMAIN r = 1 .. (Len(q) + 1)
      /\ \A i \in 1 .. Len(q) : r[i] = q[i]
      /\ r[Len(q) + 1] = e
  BY <1>1, AppendIs
<1> HIDE DEF q, r
<1>3. \A i \in DOMAIN r : (i \in DOMAIN q /\ r[i] = q[i]) \/ (i = Len(q) + 1 /\ r[i] = e)
  BY <1>2
<1>4. /\ \A i \in DOMAIN q : q[i].kind = "message" =>
           /\ q[i].text \in DOMAIN texts \ shown[v]
           /\ texts[q[i].text].by = Peer(v) /\ texts[q[i].text].status = "sent"
      /\ \A i, j \in DOMAIN q : q[i].kind = "message" /\ q[j].kind = "message" /\ q[i].text = q[j].text => i = j
      /\ \A i \in DOMAIN q : /\ q[i].first => q[i].kind \in {"message", "repair"}
                             /\ q[i].kind = "repair" => q[i].first
  BY DEF MailFits, q
<1>5. e.text \notin shown[v]
  BY DEF ShownFits
<1>6. \A i \in DOMAIN r : r[i].kind = "message" =>
        /\ r[i].text \in DOMAIN texts' \ shown'[v]
        /\ texts'[r[i].text].by = Peer(v) /\ texts'[r[i].text].status = "sent"
  BY <1>3, <1>4, <1>5 DEF TextsFollow
<1>7. \A i, j \in DOMAIN r : r[i].kind = "message" /\ r[j].kind = "message" /\ r[i].text = r[j].text => i = j
  BY <1>3, <1>4
<1>8. \A i \in DOMAIN r : /\ r[i].first => r[i].kind \in {"message", "repair"}
                          /\ r[i].kind = "repair" => r[i].first
  BY <1>3, <1>4
<1> QED BY <1>6, <1>7, <1>8 DEF MailFits, r

\* The first one is taken out; its text may be shown from now on.
LEMMA MailShrinks ==
  ASSUME SessionsTypeOK, NEW v \in User, texts' = texts, MailFits(v), mail[v] # <<>>,
         mail'[v] = Tail(mail[v]),
         \A i \in shown'[v] : i \in shown[v] \/ (Head(mail[v]).kind = "message" /\ i = Head(mail[v]).text)
  PROVE  MailFits(v)'
<1>1. mail[v] \in Seq(Envelope)
  BY DEF SessionsTypeOK
<1> DEFINE q == mail[v]
           r == mail'[v]
<1>2. /\ 1 \in DOMAIN q /\ Head(q) = q[1]
      /\ \A i \in DOMAIN r : i \in Nat \ {0} /\ i + 1 \in DOMAIN q /\ r[i] = q[i + 1]
  BY <1>1, TailIs
<1>3. /\ \A i \in DOMAIN q : q[i].kind = "message" =>
           /\ q[i].text \in DOMAIN texts \ shown[v]
           /\ texts[q[i].text].by = Peer(v) /\ texts[q[i].text].status = "sent"
      /\ \A i, j \in DOMAIN q : q[i].kind = "message" /\ q[j].kind = "message" /\ q[i].text = q[j].text => i = j
      /\ \A i \in DOMAIN q : /\ q[i].first => q[i].kind \in {"message", "repair"}
                             /\ q[i].kind = "repair" => q[i].first
  BY DEF MailFits
<1>4. \A i \in shown'[v] : i \in shown[v] \/ (q[1].kind = "message" /\ i = q[1].text)
  BY <1>2
<1> HIDE DEF q, r
<1>5. \A i \in DOMAIN r : r[i].kind = "message" =>
        /\ r[i].text \in DOMAIN texts' \ shown'[v]
        /\ texts'[r[i].text].by = Peer(v) /\ texts'[r[i].text].status = "sent"
  BY <1>2, <1>3, <1>4
<1>6. \A i, j \in DOMAIN r : r[i].kind = "message" /\ r[j].kind = "message" /\ r[i].text = r[j].text => i = j
  BY <1>2, <1>3
<1>7. \A i \in DOMAIN r : /\ r[i].first => r[i].kind \in {"message", "repair"}
                          /\ r[i].kind = "repair" => r[i].first
  BY <1>2, <1>3
<1> QED BY <1>5, <1>6, <1>7 DEF MailFits, r

LEMMA OrderStays ==
  ASSUME NEW v \in User, StoredFirst(v), mail'[v] = mail[v], live'[v] = live[v]
  PROVE  StoredFirst(v)'
  BY DEF StoredFirst

LEMMA OrderGrows ==
  ASSUME SessionsTypeOK, NEW v \in User, StoredFirst(v), NEW e \in Envelope, e.kept <=> ~live[v],
         mail'[v] = Append(mail[v], e), live'[v] = live[v]
  PROVE  StoredFirst(v)'
<1>1. mail[v] \in Seq(Envelope) /\ live[v] \in BOOLEAN
  BY DEF SessionsTypeOK
<1> DEFINE q == mail[v]
           r == mail'[v]
<1>2. /\ Len(q) \in Nat /\ DOMAIN q = 1 .. Len(q) /\ DOMAIN r = 1 .. (Len(q) + 1) /\ Len(r) = Len(q) + 1
      /\ \A i \in 1 .. Len(q) : r[i] = q[i]
      /\ r[Len(q) + 1] = e
  BY <1>1, AppendIs
<1>3. PICK n \in 0 .. Len(q) : \A i \in DOMAIN q : q[i].kept <=> i <= n
  BY DEF StoredFirst
<1>4. CASE live[v]
  <2>1. \A i \in DOMAIN r : r[i].kept <=> i <= n
    BY <1>2, <1>3, <1>4
  <2>2. n \in 0 .. Len(r)
    BY <1>2
  <2> HIDE DEF r
  <2>3. \E k \in 0 .. Len(r) : \A i \in DOMAIN r : r[i].kept <=> i <= k
    BY <2>1, <2>2
  <2> QED BY <1>4, <2>3 DEF StoredFirst, r
<1>5. CASE ~live[v]
  <2>1. \A i \in DOMAIN q : q[i].kept
    BY <1>5 DEF StoredFirst
  <2>2. \A i \in DOMAIN r : r[i].kept
    BY <1>2, <1>5, <2>1
  <2>3. \A i \in DOMAIN r : r[i].kept <=> i <= Len(r)
    BY <1>2, <2>2
  <2>4. Len(r) \in 0 .. Len(r)
    BY <1>2
  <2> HIDE DEF r
  <2>5. \E k \in 0 .. Len(r) : \A i \in DOMAIN r : r[i].kept <=> i <= k
    BY <2>3, <2>4
  <2> QED BY <2>2, <2>5 DEF StoredFirst, r
<1> QED BY <1>1, <1>4, <1>5

LEMMA OrderShrinks ==
  ASSUME SessionsTypeOK, NEW v \in User, StoredFirst(v), mail[v] # <<>>, mail'[v] = Tail(mail[v]),
         live'[v] = live[v]
  PROVE  StoredFirst(v)'
<1>1. mail[v] \in Seq(Envelope)
  BY DEF SessionsTypeOK
<1> DEFINE q == mail[v]
           r == mail'[v]
<1>2. /\ Len(q) \in Nat /\ Len(q) > 0 /\ Len(r) = Len(q) - 1 /\ DOMAIN r = 1 .. (Len(q) - 1)
      /\ \A i \in DOMAIN r : i + 1 \in DOMAIN q /\ r[i] = q[i + 1]
  BY <1>1, TailIs
<1>3. PICK n \in 0 .. Len(q) : \A i \in DOMAIN q : q[i].kept <=> i <= n
  BY DEF StoredFirst
<1>4. \E k \in 0 .. Len(r) : \A i \in DOMAIN r : r[i].kept <=> i <= k
  <2> DEFINE k == IF n = 0 THEN 0 ELSE n - 1
  <2>1. k \in 0 .. Len(r) /\ \A i \in DOMAIN r : i <= k <=> i + 1 <= n
    BY <1>2, <1>3
  <2>2. \A i \in DOMAIN r : r[i].kept <=> i <= k
    BY <1>2, <1>3, <2>1
  <2> QED BY <2>1, <2>2
<1>5. ~live'[v] => \A i \in DOMAIN r : r[i].kept
  BY <1>2 DEF StoredFirst
<1> QED BY <1>4, <1>5 DEF StoredFirst

\* What a lost socket leaves.
LEMMA StoredIs ==
  ASSUME SessionsTypeOK, NEW v \in User, StoredFirst(v)
  PROVE  \E n \in 0 .. Len(mail[v]) :
           /\ Len(mail[v]) \in Nat
           /\ Stored(mail[v]) \in Seq(Envelope) /\ Len(Stored(mail[v])) = n
           /\ \A i \in 1 .. n : i \in DOMAIN mail[v] /\ Stored(mail[v])[i] = mail[v][i] /\ mail[v][i].kept
<1> DEFINE q == mail[v]
           n == CHOOSE n \in 0 .. Len(q) : \A i \in DOMAIN q : q[i].kept <=> i <= n
<1>1. q \in Seq(Envelope) /\ Len(q) \in Nat /\ DOMAIN q = 1 .. Len(q)
  BY DEF SessionsTypeOK
<1>2. n \in 0 .. Len(q) /\ \A i \in DOMAIN q : q[i].kept <=> i <= n
  BY DEF StoredFirst
<1>3. Stored(q) = SubSeq(q, 1, n)
  BY DEF Stored
<1> HIDE DEF n, q
<1>4. SubSeq(q, 1, n) \in Seq(Envelope) /\ Len(SubSeq(q, 1, n)) = n /\ \A i \in 1 .. n : SubSeq(q, 1, n)[i] = q[i]
  BY <1>1, <1>2
<1> QED BY <1>1, <1>2, <1>3, <1>4 DEF q

-----------------------------------------------------------------------------
(* A caller that is answered.                                              *)

LEMMA AskKnown ==
  ASSUME SessionsTypeOK, NEW u \in User, AskingFits(u), NEW i \in DOMAIN asks[u], ~asks[u][i].over
  PROVE  /\ asks[u][i] \in Ask
         /\ asks[u][i].for = "send" => /\ asks[u][i].text \in DOMAIN texts /\ texts[asks[u][i].text].by = u
                                       /\ texts[asks[u][i].text].status = "composed"
<1>1. asks[u] \in Seq(Ask)
  BY DEF SessionsTypeOK
<1> QED BY <1>1 DEF AskingFits

\* What the answer seals fits, and the texts of the other callers are as they were.
LEMMA FinishFits ==
  ASSUME SessionsTypeOK, NEW u \in User, AskingFits(u), RowsFit(u),
         NEW i \in DOMAIN asks[u], ~asks[u][i].over,
         NEW k \in PreKey \cup {0}, NEW s \in Nat, NEW up, NEW post,
         Finishes(u, asks[u][i], s, k, up, post)
  PROVE  /\ RowsFit(u)'
         /\ \A j \in DOMAIN asks[u] : asks[u][j].for = "send" =>
              /\ asks[u][j].text \in DOMAIN texts' /\ texts'[asks[u][j].text].by = u
              /\ ~asks[u][j].over /\ j # i => texts'[asks[u][j].text].status = "composed"
<1> DEFINE a == asks[u][i]
<1>1. /\ a \in Ask
      /\ a.for = "send" => /\ a.text \in DOMAIN texts /\ texts[a.text].by = u
                           /\ texts[a.text].status = "composed"
  BY AskKnown
<1>2. /\ \A j \in DOMAIN asks[u] : asks[u][j].for = "send" =>
           /\ asks[u][j].text \in DOMAIN texts /\ texts[asks[u][j].text].by = u
           /\ ~asks[u][j].over => texts[asks[u][j].text].status = "composed"
      /\ \A j \in DOMAIN asks[u] :
           asks[u][j].for = "send" /\ ~asks[u][j].over /\ j # i /\ a.for = "send" => asks[u][j].text # a.text
  BY DEF AskingFits, Live
<1>3. /\ outbox \in [User -> SUBSET Envelope]
      /\ \A e \in outbox[u] : /\ e.kind = "message" /\ e.text \in DOMAIN texts
                              /\ texts[e.text].by = u /\ texts[e.text].status = "pending"
      /\ \A e, f \in outbox[u] : e.text = f.text => e = f
  BY DEF RowsFit, SessionsTypeOK
<1>4. CASE a.for = "send" /\ Starts(u, a.text, s, k, post)
  <2> DEFINE m == Sealed("message", a.text, s, TRUE, k)
  <2>1. /\ texts' \in Seq(Text) /\ DOMAIN texts' = DOMAIN texts
        /\ texts'[a.text].status = "pending" /\ texts'[a.text].by = texts[a.text].by
        /\ \A j \in DOMAIN texts : j # a.text => texts'[j] = texts[j]
    BY <1>1, <1>4, StatusIs DEF Starts
  <2>2. m.kind = "message" /\ m.text = a.text
    BY DEF Sealed
  <2>3. outbox'[u] = Enqueued(outbox[u], {m})
    BY <1>3, <1>4 DEF Starts
  <2> HIDE DEF m, a
  <2>4. \A e \in outbox'[u] : e = m \/ (e \in outbox[u] /\ e.text # a.text)
    BY <2>2, <2>3 DEF Enqueued
  <2>5. RowsFit(u)'
    <3>1. \A e \in outbox'[u] : /\ e.kind = "message" /\ e.text \in DOMAIN texts'
                                /\ texts'[e.text].by = u /\ texts'[e.text].status = "pending"
      BY <1>1, <1>3, <1>4, <2>1, <2>2, <2>4
    <3>2. \A e, f \in outbox'[u] : e.text = f.text => e = f
      BY <1>3, <2>2, <2>4
    <3> QED BY <3>1, <3>2 DEF RowsFit
  <2>6. ASSUME NEW j \in DOMAIN asks[u], asks[u][j].for = "send"
        PROVE  /\ asks[u][j].text \in DOMAIN texts' /\ texts'[asks[u][j].text].by = u
               /\ ~asks[u][j].over /\ j # i => texts'[asks[u][j].text].status = "composed"
    BY <1>1, <1>2, <1>4, <2>1, <2>6
  <2> QED BY <2>5, <2>6
<1>5. CASE a.for = "repair" /\ Repairs(u, s, k, post)
  <2>1. texts' = texts /\ outbox'[u] = Enqueued(outbox[u], Again(u, s))
    BY <1>3, <1>5 DEF Repairs
  <2>2. /\ \A e \in Again(u, s) : e.kind = "message" /\ e.text \in Pending(u)
        /\ \A e, f \in Again(u, s) : e.text = f.text => e = f
    BY AgainIs
  <2>3. \A e \in outbox'[u] : e \in Again(u, s) \/ (e \in outbox[u] /\ \A f \in Again(u, s) : f.text # e.text)
    BY <2>1 DEF Enqueued
  <2>4. RowsFit(u)'
    <3>1. \A e \in outbox'[u] : /\ e.kind = "message" /\ e.text \in DOMAIN texts'
                                /\ texts'[e.text].by = u /\ texts'[e.text].status = "pending"
      BY <1>3, <2>1, <2>2, <2>3 DEF Pending
    <3>2. \A e, f \in outbox'[u] : e.text = f.text => e = f
      BY <1>3, <2>2, <2>3
    <3> QED BY <3>1, <3>2 DEF RowsFit
  <2> QED BY <1>2, <2>1, <2>4
<1>6. CASE a.for = "repair" /\ Throws(post)
  <2>1. texts' = texts /\ outbox' = outbox
    BY <1>6 DEF Throws
  <2> QED BY <1>2, <1>3, <2>1 DEF RowsFit
<1> QED BY <1>4, <1>5, <1>6 DEF Finishes

\* Answered, it is over, or gone with its timer.
LEMMA AnsweredFits ==
  ASSUME SessionsTypeOK, NEW u \in User, AskingFits(u), NEW i \in DOMAIN asks[u],
         \A j \in DOMAIN asks[u] : asks[u][j].for = "send" =>
           /\ asks[u][j].text \in DOMAIN texts' /\ texts'[asks[u][j].text].by = u
           /\ ~asks[u][j].over /\ j # i => texts'[asks[u][j].text].status = "composed",
         asks'[u] = Over(u, asks[u][i].id) \/ (i = 1 /\ asks'[u] = Tail(asks[u]))
  PROVE  AskingFits(u)'
<1>1. asks[u] \in Seq(Ask) /\ DOMAIN asks[u] = 1 .. Len(asks[u]) /\ Len(asks[u]) \in Nat
  BY DEF SessionsTypeOK
<1>2. /\ \A j, l \in DOMAIN asks[u] : asks[u][j].id = asks[u][l].id => j = l
      /\ \A j, l \in DOMAIN asks[u] :
           /\ ~asks[u][j].over /\ ~asks[u][l].over /\ asks[u][j].for = "send" /\ asks[u][l].for = "send"
           /\ asks[u][j].text = asks[u][l].text
           => j = l
  BY DEF AskingFits, Live
<1>3. CASE asks'[u] = Over(u, asks[u][i].id)
  <2> DEFINE o == Over(u, asks[u][i].id)
  <2>1. /\ DOMAIN o = DOMAIN asks[u]
        /\ \A j \in DOMAIN asks[u] :
              /\ o[j].id = asks[u][j].id /\ o[j].for = asks[u][j].for /\ o[j].text = asks[u][j].text
              /\ o[j].over = (asks[u][j].over \/ asks[u][j].id = asks[u][i].id)
    BY OverIs
  <2> HIDE DEF o
  <2>2. /\ \A j, l \in DOMAIN o : o[j].id = o[l].id => j = l
        /\ \A j \in DOMAIN o : o[j].for = "send" =>
             /\ o[j].text \in DOMAIN texts' /\ texts'[o[j].text].by = u
             /\ ~o[j].over => texts'[o[j].text].status = "composed"
        /\ \A j, l \in DOMAIN o :
             /\ ~o[j].over /\ ~o[l].over /\ o[j].for = "send" /\ o[l].for = "send" /\ o[j].text = o[l].text
             => j = l
    <3>1. \A j, l \in DOMAIN o : o[j].id = o[l].id => j = l
      BY <1>2, <2>1
    <3>2. ASSUME NEW j \in DOMAIN o, o[j].for = "send"
          PROVE  /\ o[j].text \in DOMAIN texts' /\ texts'[o[j].text].by = u
                 /\ ~o[j].over => texts'[o[j].text].status = "composed"
      <4>1. asks[u][j].for = "send" /\ o[j].text = asks[u][j].text
        BY <2>1, <3>2
      <4>2. ~o[j].over => ~asks[u][j].over /\ j # i
        BY <2>1, <3>2
      <4> QED BY <2>1, <4>1, <4>2
    <3>3. ASSUME NEW j \in DOMAIN o, NEW l \in DOMAIN o, ~o[j].over, ~o[l].over, o[j].for = "send",
                 o[l].for = "send", o[j].text = o[l].text
          PROVE  j = l
      <4>1. ~asks[u][j].over /\ ~asks[u][l].over
        BY <2>1, <3>3
      <4> QED BY <1>2, <2>1, <3>3, <4>1
    <3> QED BY <3>1, <3>2, <3>3
  <2>3. asks'[u] = o
    BY <1>3 DEF o
  <2> QED BY <2>2, <2>3 DEF AskingFits, Live
<1>4. CASE i = 1 /\ asks'[u] = Tail(asks[u])
  <2> DEFINE o == Tail(asks[u])
  <2>1. \A j \in DOMAIN o : j \in Nat \ {0} /\ j + 1 \in DOMAIN asks[u] /\ o[j] = asks[u][j + 1]
    BY <1>1, <1>4, TailIs
  <2> HIDE DEF o
  <2>2. /\ \A j, l \in DOMAIN o : o[j].id = o[l].id => j = l
        /\ \A j \in DOMAIN o : o[j].for = "send" =>
             /\ o[j].text \in DOMAIN texts' /\ texts'[o[j].text].by = u
             /\ ~o[j].over => texts'[o[j].text].status = "composed"
        /\ \A j, l \in DOMAIN o :
             /\ ~o[j].over /\ ~o[l].over /\ o[j].for = "send" /\ o[l].for = "send" /\ o[j].text = o[l].text
             => j = l
    <3>1. \A j, l \in DOMAIN o : o[j].id = o[l].id => j = l
      BY <1>2, <2>1
    <3>2. ASSUME NEW j \in DOMAIN o, o[j].for = "send"
          PROVE  /\ o[j].text \in DOMAIN texts' /\ texts'[o[j].text].by = u
                 /\ ~o[j].over => texts'[o[j].text].status = "composed"
      <4>1. j + 1 \in DOMAIN asks[u] /\ o[j] = asks[u][j + 1] /\ j + 1 # 1
        BY <2>1
      <4> QED BY <1>4, <3>2, <4>1
    <3>3. ASSUME NEW j \in DOMAIN o, NEW l \in DOMAIN o, ~o[j].over, ~o[l].over, o[j].for = "send",
                 o[l].for = "send", o[j].text = o[l].text
          PROVE  j = l
      <4>1. j + 1 = l + 1
        BY <1>2, <2>1, <3>3
      <4> QED BY <2>1, <4>1
    <3> QED BY <3>1, <3>2, <3>3
  <2>3. asks'[u] = o
    BY <1>4 DEF o
  <2> QED BY <2>2, <2>3 DEF AskingFits, Live
<1> QED BY <1>3, <1>4

\* A repair is posted to the peer, or nothing is.
MailTells(u, s, k, post) ==
  /\ \A v \in User : v # Peer(u) => mail'[v] = post[v]
  /\ \/ mail'[Peer(u)] = post[Peer(u)]
     \/ \E e \in Envelope : /\ e.kind = "repair" /\ e.first /\ e.key = k /\ e.session = s
                            /\ e.kept <=> ~live[Peer(u)]
                            /\ mail'[Peer(u)] = Append(mail[Peer(u)], e)

LEMMA FinishMail ==
  ASSUME SessionsTypeOK, NEW u \in User, NEW ask \in Ask, NEW k \in PreKey \cup {0}, NEW s \in Nat, NEW up,
         NEW post \in [User -> Seq(Envelope)], Finishes(u, ask, s, k, up, post)
  PROVE  MailTells(u, s, k, post)
<1>1. CASE mail' = post
  BY <1>1 DEF MailTells
<1>2. CASE Repairs(u, s, k, post)
  <2> DEFINE r == Sealed("repair", 0, s, TRUE, k)
             e == [r EXCEPT !.kept = ~live[Peer(u)]]
  <2>1. /\ r \in Envelope /\ r.kind = "repair" /\ r.first /\ r.key = k /\ r.session = s
    BY DEF Sealed, Envelope
  <2> HIDE DEF r
  <2>2. e \in Envelope
    BY <2>1, PeerOf, PostedIs
  <2>3. e.kind = "repair" /\ e.first /\ e.key = k /\ e.session = s /\ (e.kept <=> ~live[Peer(u)])
    BY <2>1 DEF Envelope
  <2>4. mail' = [post EXCEPT ![Peer(u)] = Append(mail[Peer(u)], e)]
    BY <1>2 DEF Repairs, r
  <2> HIDE DEF e
  <2>5. Peer(u) \in User
    BY PeerOf
  <2>6. mail'[Peer(u)] = Append(mail[Peer(u)], e) /\ \A v \in User : v # Peer(u) => mail'[v] = post[v]
    BY <2>4, <2>5
  <2> QED BY <2>2, <2>3, <2>6 DEF MailTells
<1> QED BY <1>1, <1>2 DEF Finishes, Starts, Throws

-----------------------------------------------------------------------------
(* Types, and what fits, step by step.                                     *)

EarsHeld == \A u \in User : ear[u] # 0 =>
              \E i \in DOMAIN asks[u] : asks[u][i].id = ear[u] /\ ~asks[u][i].over
ShownKnown == /\ shown \in [User -> SUBSET DOMAIN texts]
              /\ \A u \in User : \A i \in shown[u] : texts[i].by # u

LEMMA ShownKnownStays ==
  ASSUME SessionsTypeOK, NEW u, TextsFollow(u), shown' = shown
  PROVE  ShownKnown'
<1>1. shown' \in [User -> SUBSET DOMAIN texts']
  BY DEF SessionsTypeOK, TextsFollow
<1>2. ASSUME NEW v \in User, NEW i \in shown[v] PROVE texts'[i].by # v
  <2>1. i \in DOMAIN texts /\ texts[i].by # v
    BY DEF SessionsTypeOK
  <2> QED BY <2>1 DEF TextsFollow
<1> QED BY <1>1, <1>2 DEF ShownKnown

LEMMA EarsStay ==
  ASSUME SessionsTypeOK, asks' = asks, ear' = ear PROVE EarsHeld'
  BY DEF SessionsTypeOK, EarsHeld

\* The place of u is empty afterwards.
LEMMA EarsClear ==
  ASSUME SessionsTypeOK, NEW u \in User, NEW q \in Seq(Ask), asks' = [asks EXCEPT ![u] = q],
         ear' = [ear EXCEPT ![u] = 0]
  PROVE  asks' \in [User -> Seq(Ask)] /\ ear' \in [User -> 0 .. 4] /\ EarsHeld'
<1>1. asks \in [User -> Seq(Ask)] /\ ear \in [User -> 0 .. 4]
  BY DEF SessionsTypeOK
<1>2. ASSUME NEW v \in User, ear'[v] # 0
      PROVE  \E i \in DOMAIN asks'[v] : asks'[v][i].id = ear'[v] /\ ~asks'[v][i].over
  <2>1. v # u /\ asks'[v] = asks[v] /\ ear'[v] = ear[v]
    BY <1>1, <1>2
  <2> QED BY <1>2, <2>1 DEF SessionsTypeOK
<1> QED BY <1>1, <1>2 DEF EarsHeld

\* The caller that is answered does what Finish does and is not asked again.
Resolves(u, i, k, s, up, post) ==
  /\ i \in DOMAIN asks[u] /\ ~asks[u][i].over
  /\ Finishes(u, asks[u][i], s, k, up, post)
  /\ \/ asks' = [asks EXCEPT ![u] = Over(u, asks[u][i].id)]
     \/ i = 1 /\ asks' = [asks EXCEPT ![u] = Tail(asks[u])]
  /\ ear' = [ear EXCEPT ![u] = 0]
  /\ shown' = shown

LEMMA ResolvesFit ==
  ASSUME SessionsTypeOK, Fitting, NEW u \in User, NEW i, NEW k \in PreKey \cup {0}, NEW s \in Nat, NEW up,
         NEW post \in [User -> Seq(Envelope)], Resolves(u, i, k, s, up, post)
  PROVE  /\ row' \in [User -> Nat] /\ outbox' \in [User -> SUBSET Envelope]
         /\ mail' \in [User -> Seq(Envelope)] /\ TextsFollow(u)
         /\ asks' \in [User -> Seq(Ask)] /\ ear' \in [User -> 0 .. 4] /\ EarsHeld' /\ ShownKnown'
         /\ \A v \in User : AskingFits(v)' /\ RowsFit(v)' /\ ShownFits(v)'
<1>1. i \in DOMAIN asks[u] /\ ~asks[u][i].over /\ Finishes(u, asks[u][i], s, k, up, post)
  BY DEF Resolves
<1>2. AskingFits(u) /\ \A v \in User : RowsFit(v)
  BY DEF Fitting
<1>3. /\ asks[u][i] \in Ask
      /\ asks[u][i].for = "send" => /\ asks[u][i].text \in DOMAIN texts /\ texts[asks[u][i].text].by = u
                                    /\ texts[asks[u][i].text].status = "composed"
  BY <1>1, <1>2, AskKnown
<1>4. /\ row' \in [User -> Nat] /\ outbox' \in [User -> SUBSET Envelope]
      /\ mail' \in [User -> Seq(Envelope)] /\ TextsFollow(u)
      /\ \A v \in User : v # u => outbox'[v] = outbox[v]
  BY <1>1, <1>2, <1>3, FinishTypes
<1>5. /\ RowsFit(u)'
      /\ \A j \in DOMAIN asks[u] : asks[u][j].for = "send" =>
           /\ asks[u][j].text \in DOMAIN texts' /\ texts'[asks[u][j].text].by = u
           /\ ~asks[u][j].over /\ j # i => texts'[asks[u][j].text].status = "composed"
  BY <1>1, <1>2, FinishFits
<1>6. asks \in [User -> Seq(Ask)] /\ Len(asks[u]) \in Nat /\ DOMAIN asks[u] = 1 .. Len(asks[u])
  BY DEF SessionsTypeOK
<1>7. PICK q \in Seq(Ask) : /\ asks' = [asks EXCEPT ![u] = q]
                            /\ q = Over(u, asks[u][i].id) \/ (i = 1 /\ q = Tail(asks[u]))
  <2>1. Over(u, asks[u][i].id) \in Seq(Ask)
    BY OverIs
  <2>2. i = 1 => Tail(asks[u]) \in Seq(Ask)
    BY <1>1, <1>6
  <2> QED BY <2>1, <2>2 DEF Resolves
<1>8. asks' \in [User -> Seq(Ask)] /\ ear' \in [User -> 0 .. 4] /\ EarsHeld'
  BY <1>7, EarsClear DEF Resolves
<1>9. asks'[u] = q /\ \A v \in User : v # u => asks'[v] = asks[v]
  BY <1>6, <1>7
<1>10. AskingFits(u)'
  BY <1>1, <1>2, <1>5, <1>7, <1>9, AnsweredFits
<1>11. ASSUME NEW v \in User PROVE AskingFits(v)' /\ RowsFit(v)'
  <2>1. CASE v = u
    BY <1>5, <1>10, <2>1
  <2>2. CASE v # u
    <3>1. AskingFits(v) /\ RowsFit(v) /\ asks'[v] = asks[v] /\ outbox'[v] = outbox[v]
      BY <1>4, <1>9, <2>2 DEF Fitting
    <3> QED BY <1>4, <2>2, <3>1, OtherFits
  <2> QED BY <2>1, <2>2
<1>12. ASSUME NEW v \in User PROVE ShownFits(v)'
  <2>1. ShownFits(v) /\ shown'[v] = shown[v]
    BY DEF Fitting, Resolves
  <2> QED BY <1>4, <2>1, ShownStillFits
<1>13. ShownKnown'
  BY <1>4, ShownKnownStays DEF Resolves
<1> QED BY <1>4, <1>8, <1>11, <1>12, <1>13

\* Its repair fits in the mail of the peer.
LEMMA ResolvesMailFits ==
  ASSUME SessionsTypeOK, Fitting, NEW u \in User, NEW i, NEW k \in PreKey \cup {0}, NEW s \in Nat, NEW up,
         Resolves(u, i, k, s, up, mail), live' = live
  PROVE  \A v \in User : MailFits(v)' /\ StoredFirst(v)'
<1>1. Finishes(u, asks[u][i], s, k, up, mail)
  BY DEF Resolves
<1>2. mail \in [User -> Seq(Envelope)]
  BY DEF SessionsTypeOK
<1>3. TextsFollow(u)
  BY <1>2, ResolvesFit
<1>4. MailTells(u, s, k, mail)
  <2>1. asks[u][i] \in Ask
    BY AskKnown DEF Resolves, Fitting
  <2> QED BY <1>1, <1>2, <2>1, FinishMail
<1> SUFFICES ASSUME NEW v \in User PROVE MailFits(v)' /\ StoredFirst(v)'
  OBVIOUS
<1>5. MailFits(v) /\ StoredFirst(v) /\ shown'[v] = shown[v] /\ live'[v] = live[v]
  BY DEF Fitting, Resolves
<1>6. CASE mail'[v] = mail[v]
  BY <1>3, <1>5, <1>6, MailStays, OrderStays
<1>7. CASE v = Peer(u) /\ mail'[v] # mail[v]
  <2>1. PICK e \in Envelope : /\ e.kind = "repair" /\ e.first /\ (e.kept <=> ~live[v])
                              /\ mail'[v] = Append(mail[v], e)
    BY <1>4, <1>7 DEF MailTells
  <2>2. MailFits(v)'
    BY <1>3, <1>5, <2>1, MailGrows
  <2>3. StoredFirst(v)'
    BY <1>5, <2>1, OrderGrows
  <2> QED BY <2>2, <2>3
<1> QED BY <1>4, <1>6, <1>7 DEF MailTells

\* What the steps do that answer a caller.
LEMMA ArrivesIs ==
  ASSUME SessionsTypeOK, Fitting, NEW u \in User, BundleArrives(u)
  PROVE  \E n \in DOMAIN bundles[u] :
           /\ bundles[u][n] \in PreKey \cup {0} /\ bundles' = [bundles EXCEPT ![u] = RemoveAt(@, n)]
           /\ live[u]
           /\ \/ /\ ear[u] = 0
                 /\ UNCHANGED <<asks, ear, row, outbox, texts, mail>>
              \/ \E i \in DOMAIN asks[u], s \in Nat \ {0} :
                   Resolves(u, i, bundles[u][n], s, TRUE, mail) /\ asks[u][i].id = ear[u]
                   /\ asks' = [asks EXCEPT ![u] = Over(u, ear[u])]
           /\ UNCHANGED <<live, secrets, shelf, hush, shown, left, hurried, clashed, severed>>
<1>1. PICK n \in DOMAIN bundles[u] :
        /\ live[u]
        /\ bundles' = [bundles EXCEPT ![u] = RemoveAt(@, n)]
        /\ IF ear[u] = 0
           THEN UNCHANGED <<asks, ear, row, outbox, texts, mail>>
           ELSE /\ asks' = [asks EXCEPT ![u] = Over(u, ear[u])]
                /\ ear' = [ear EXCEPT ![u] = 0]
                /\ Finish(u, AskOf(u, ear[u]), bundles[u][n], TRUE, mail)
        /\ UNCHANGED <<live, secrets, shelf, hush, shown, left, hurried, clashed, severed>>
  BY DEF BundleArrives
<1>2. bundles[u][n] \in PreKey \cup {0}
  BY DEF SessionsTypeOK
<1>3. CASE ear[u] = 0
  BY <1>1, <1>2, <1>3
<1>4. CASE ear[u] # 0
  <2>1. AskingFits(u) /\ \A v \in User : RowsFit(v)
    BY DEF Fitting
  <2>2. PICK i \in DOMAIN asks[u] : /\ AskOf(u, ear[u]) = asks[u][i] /\ asks[u][i] \in Ask
                                    /\ asks[u][i].id = ear[u] /\ ~asks[u][i].over
    BY <1>4, <2>1, HeardAsk
  <2>3. Finish(u, asks[u][i], bundles[u][n], TRUE, mail)
    BY <1>1, <1>4, <2>2
  <2>4. PICK s \in Nat \ {0} : Finishes(u, asks[u][i], s, bundles[u][n], TRUE, mail)
    BY <1>2, <2>1, <2>2, <2>3, FinishIs
  <2>5. Resolves(u, i, bundles[u][n], s, TRUE, mail) /\ asks' = [asks EXCEPT ![u] = Over(u, ear[u])]
    BY <1>1, <1>4, <2>2, <2>4 DEF Resolves
  <2> QED BY <1>1, <1>2, <2>2, <2>5
<1> QED BY <1>3, <1>4

LEMMA TimeoutIs ==
  ASSUME SessionsTypeOK, Fitting, NEW u \in User, BundleTimeout(u)
  PROVE  /\ asks[u] # <<>> /\ asks' = [asks EXCEPT ![u] = Tail(asks[u])] /\ ear' = [ear EXCEPT ![u] = 0]
         /\ \/ /\ ear[u] = 0 \/ asks[u][1].over
               /\ UNCHANGED <<row, outbox, texts, mail>>
            \/ \E s \in Nat \ {0} : Resolves(u, 1, 0, s, live[u], mail)
         /\ UNCHANGED <<live, secrets, shelf, bundles, hush, shown, left, hurried, clashed, severed>>
<1>1. asks[u] \in Seq(Ask) /\ asks[u] # <<>>
  BY DEF SessionsTypeOK, BundleTimeout
<1>2. Head(asks[u]) = asks[u][1] /\ 1 \in DOMAIN asks[u] /\ asks[u][1] \in Ask
  BY <1>1
<1>3. /\ asks' = [asks EXCEPT ![u] = Tail(asks[u])] /\ ear' = [ear EXCEPT ![u] = 0]
      /\ IF ear[u] # 0 /\ ~asks[u][1].over
         THEN Finish(u, asks[u][1], 0, live[u], mail)
         ELSE UNCHANGED <<row, outbox, texts, mail>>
      /\ UNCHANGED <<live, secrets, shelf, bundles, hush, shown, left, hurried, clashed, severed>>
  BY <1>2 DEF BundleTimeout
<1>4. CASE ear[u] # 0 /\ ~asks[u][1].over
  <2>1. AskingFits(u) /\ \A v \in User : RowsFit(v)
    BY DEF Fitting
  <2>2. live[u] \in BOOLEAN /\ 0 \in PreKey \cup {0}
    BY DEF SessionsTypeOK
  <2>3. PICK s \in Nat \ {0} : Finishes(u, asks[u][1], s, 0, live[u], mail)
    BY <1>2, <1>3, <1>4, <2>1, <2>2, FinishIs
  <2>4. Resolves(u, 1, 0, s, live[u], mail)
    BY <1>2, <1>3, <1>4, <2>3 DEF Resolves
  <2> QED BY <1>1, <1>3, <2>4
<1> QED BY <1>1, <1>3, <1>4

LEMMA ArrivesFits ==
  ASSUME SessionsTypeOK, Fitting, NEW u \in User, BundleArrives(u)
  PROVE  SessionsTypeOK' /\ Fitting'
<1>1. PICK n \in DOMAIN bundles[u] :
        /\ bundles[u][n] \in PreKey \cup {0} /\ bundles' = [bundles EXCEPT ![u] = RemoveAt(@, n)]
        /\ \/ /\ ear[u] = 0
              /\ UNCHANGED <<asks, ear, row, outbox, texts, mail>>
           \/ \E i \in DOMAIN asks[u], s \in Nat \ {0} :
                Resolves(u, i, bundles[u][n], s, TRUE, mail)
        /\ UNCHANGED <<live, secrets, shelf, hush, shown, left, hurried, clashed, severed>>
  BY ArrivesIs
<1>2. bundles' \in [User -> Seq(PreKey \cup {0})]
  <2>1. bundles \in [User -> Seq(PreKey \cup {0})]
    BY DEF SessionsTypeOK
  <2>2. RemoveAt(bundles[u], n) \in Seq(PreKey \cup {0})
    BY <2>1, RemoveIs
  <2> QED BY <1>1, <2>1, <2>2
<1>3. CASE UNCHANGED <<asks, ear, row, outbox, texts, mail>>
  <2>1. SessionsTypeOK'
    BY <1>1, <1>2, <1>3 DEF SessionsTypeOK
  <2>2. Fitting'
    BY <1>1, <1>3 DEF Fitting, AskingFits, RowsFit, MailFits, ShownFits, StoredFirst, Live
  <2> QED BY <2>1, <2>2
<1>4. CASE \E i \in DOMAIN asks[u], s \in Nat \ {0} : Resolves(u, i, bundles[u][n], s, TRUE, mail)
  <2>1. PICK i \in DOMAIN asks[u], s \in Nat \ {0} : Resolves(u, i, bundles[u][n], s, TRUE, mail)
    BY <1>4
  <2>2. mail \in [User -> Seq(Envelope)]
    BY DEF SessionsTypeOK
  <2>3. /\ row' \in [User -> Nat] /\ outbox' \in [User -> SUBSET Envelope]
        /\ mail' \in [User -> Seq(Envelope)] /\ TextsFollow(u)
        /\ asks' \in [User -> Seq(Ask)] /\ ear' \in [User -> 0 .. 4] /\ EarsHeld' /\ ShownKnown'
        /\ \A v \in User : AskingFits(v)' /\ RowsFit(v)' /\ ShownFits(v)'
    BY <1>1, <2>1, <2>2, ResolvesFit
  <2>4. \A v \in User : MailFits(v)' /\ StoredFirst(v)'
    BY <1>1, <2>1, ResolvesMailFits
  <2>5. SessionsTypeOK'
    BY <1>1, <1>2, <2>3 DEF SessionsTypeOK, TextsFollow, EarsHeld, ShownKnown
  <2> QED BY <2>3, <2>4, <2>5 DEF Fitting
<1> QED BY <1>1, <1>3, <1>4

LEMMA TimeoutFits ==
  ASSUME SessionsTypeOK, Fitting, NEW u \in User, BundleTimeout(u)
  PROVE  SessionsTypeOK' /\ Fitting'
<1>1. /\ asks[u] # <<>> /\ asks' = [asks EXCEPT ![u] = Tail(asks[u])] /\ ear' = [ear EXCEPT ![u] = 0]
      /\ \/ UNCHANGED <<row, outbox, texts, mail>>
         \/ \E s \in Nat \ {0} : Resolves(u, 1, 0, s, live[u], mail)
      /\ UNCHANGED <<live, secrets, shelf, bundles, hush, shown, left, hurried, clashed, severed>>
  BY TimeoutIs
<1>2. CASE UNCHANGED <<row, outbox, texts, mail>>
  <2>1. asks \in [User -> Seq(Ask)] /\ Tail(asks[u]) \in Seq(Ask)
    BY <1>1 DEF SessionsTypeOK
  <2>2. asks' \in [User -> Seq(Ask)] /\ ear' \in [User -> 0 .. 4] /\ EarsHeld'
    BY <1>1, <2>1, EarsClear
  <2>3. SessionsTypeOK'
    BY <1>1, <1>2, <2>2 DEF SessionsTypeOK, EarsHeld
  <2>4. ASSUME NEW v \in User PROVE AskingFits(v)'
    <3>1. AskingFits(v)
      BY DEF Fitting
    <3>2. CASE v # u
      <4>1. asks'[v] = asks[v]
        BY <1>1, <2>1, <3>2
      <4> QED BY <1>2, <3>1, <4>1 DEF AskingFits, Live
    <3>3. CASE v = u
      <4> DEFINE o == Tail(asks[u])
      <4>1. asks'[u] = o /\ \A j \in DOMAIN o : j \in Nat /\ j + 1 \in DOMAIN asks[u] /\ o[j] = asks[u][j + 1]
        <5>1. \A j \in DOMAIN o : j + 1 \in DOMAIN asks[u] /\ o[j] = asks[u][j + 1]
          BY <1>1, <2>1, TailIs
        <5>2. DOMAIN o \subseteq Nat
          BY <2>1
        <5> QED BY <1>1, <2>1, <5>1, <5>2
      <4> HIDE DEF o
      <4>2. \A i, j \in DOMAIN o : o[i].id = o[j].id => i = j
        BY <3>1, <3>3, <4>1 DEF AskingFits
      <4>3. \A i \in DOMAIN o : o[i].for = "send" =>
              /\ o[i].text \in DOMAIN texts /\ texts[o[i].text].by = u
              /\ ~o[i].over => texts[o[i].text].status = "composed"
        BY <3>1, <3>3, <4>1 DEF AskingFits
      <4>4. \A i, j \in DOMAIN o : /\ ~o[i].over /\ ~o[j].over /\ o[i].for = "send" /\ o[j].for = "send"
                                   /\ o[i].text = o[j].text
                                   => i = j
        BY <3>1, <3>3, <4>1 DEF AskingFits, Live
      <4> QED BY <1>2, <3>3, <4>1, <4>2, <4>3, <4>4 DEF AskingFits, Live
    <3> QED BY <3>2, <3>3
  <2>5. \A v \in User : RowsFit(v)' /\ MailFits(v)' /\ ShownFits(v)' /\ StoredFirst(v)'
    BY <1>1, <1>2 DEF Fitting, RowsFit, MailFits, ShownFits, StoredFirst
  <2> QED BY <2>3, <2>4, <2>5 DEF Fitting
<1>3. CASE \E s \in Nat \ {0} : Resolves(u, 1, 0, s, live[u], mail)
  <2>1. PICK s \in Nat : Resolves(u, 1, 0, s, live[u], mail)
    BY <1>3
  <2>2. mail \in [User -> Seq(Envelope)] /\ 0 \in PreKey \cup {0}
    BY DEF SessionsTypeOK
  <2>3. /\ row' \in [User -> Nat] /\ outbox' \in [User -> SUBSET Envelope]
        /\ mail' \in [User -> Seq(Envelope)] /\ TextsFollow(u)
        /\ asks' \in [User -> Seq(Ask)] /\ ear' \in [User -> 0 .. 4] /\ EarsHeld' /\ ShownKnown'
        /\ \A v \in User : AskingFits(v)' /\ RowsFit(v)' /\ ShownFits(v)'
    BY <2>1, <2>2, ResolvesFit
  <2>4. \A v \in User : MailFits(v)' /\ StoredFirst(v)'
    BY <1>1, <2>1, <2>2, ResolvesMailFits
  <2>5. SessionsTypeOK'
    BY <1>1, <2>3 DEF SessionsTypeOK, TextsFollow, EarsHeld, ShownKnown
  <2> QED BY <2>3, <2>4, <2>5 DEF Fitting
<1> QED BY <1>1, <1>2, <1>3

\* What is posted differs from what was sealed in the mark of the table.
Posts(p, e, f) ==
  /\ f \in Envelope /\ f.kind = e.kind /\ f.text = e.text /\ f.session = e.session
  /\ f.first <=> e.first
  /\ f.key = e.key
  /\ f.kept <=> ~live[p]

LEMMA PostsIs ==
  ASSUME SessionsTypeOK, NEW p \in User, NEW e \in Envelope
  PROVE  \E f : Posts(p, e, f) /\ Posted(p, <<e>>) = Append(mail[p], f)
<1> DEFINE f == [e EXCEPT !.kept = ~live[p]]
<1>1. f \in Envelope /\ Posted(p, <<e>>) = Append(mail[p], f)
  BY PostedIs
<1>2. f.kind = e.kind /\ f.text = e.text /\ f.session = e.session /\ (f.first <=> e.first) /\ f.key = e.key
      /\ (f.kept <=> ~live[p])
  BY DEF Envelope
<1> HIDE DEF f
<1>3. Posts(p, e, f)
  BY <1>1, <1>2 DEF Posts
<1> QED BY <1>1, <1>3

\* A text that is written.
Adds(u, st) ==
  /\ TextsFollow(u) /\ Len(texts) \in Nat /\ Len(texts) + 1 \in DOMAIN texts' \ DOMAIN texts
  /\ DOMAIN texts' = DOMAIN texts \cup {Len(texts) + 1}
  /\ texts'[Len(texts) + 1].by = u /\ texts'[Len(texts) + 1].status = st
  /\ \A i \in DOMAIN texts : texts'[i] = texts[i]

LEMMA TextAdded ==
  ASSUME SessionsTypeOK, NEW u \in User, NEW st \in {"composed", "pending"},
         texts' = Append(texts, [by |-> u, status |-> st])
  PROVE  Adds(u, st)
<1> DEFINE t == [by |-> u, status |-> st]
<1>1. texts \in Seq(Text) /\ t \in Text /\ t.by = u /\ t.status = st
  BY DEF SessionsTypeOK, Text
<1> HIDE DEF t
<1>2. texts' = Append(texts, t)
  BY DEF t
<1>3. /\ texts' \in Seq(Text) /\ Len(texts) \in Nat /\ DOMAIN texts = 1 .. Len(texts)
      /\ DOMAIN texts' = 1 .. (Len(texts) + 1)
      /\ \A i \in 1 .. Len(texts) : texts'[i] = texts[i]
      /\ texts'[Len(texts) + 1] = t
  BY <1>1, <1>2, AppendIs
<1>4. Len(texts) + 1 \in DOMAIN texts' \ DOMAIN texts /\ DOMAIN texts' = DOMAIN texts \cup {Len(texts) + 1}
  BY <1>3
<1>5. TextsFollow(u)
  BY <1>3, <1>4 DEF TextsFollow
<1> QED BY <1>1, <1>3, <1>4, <1>5 DEF Adds

\* A new call fits.
LEMMA AskFits ==
  ASSUME SessionsTypeOK, NEW u \in User, AskingFits(u), NEW for \in {"send", "repair"}, NEW i \in Nat, NEW kept \in BOOLEAN,
         AskBundle(u, for, i, kept), DOMAIN texts \subseteq DOMAIN texts',
         \A j \in DOMAIN texts : texts'[j] = texts[j],
         for = "send" => /\ i \in DOMAIN texts' \ DOMAIN texts /\ texts'[i].by = u
                         /\ texts'[i].status = "composed"
  PROVE  AskingFits(u)'
<1>1. PICK id \in 1 .. 4, k \in PreKey \cup {0} : /\ \A j \in DOMAIN asks[u] : asks[u][j].id # id
                                                  /\ Asks(u, for, i, kept, id, k)
  BY AskIs
<1> DEFINE a == [id |-> id, for |-> for, text |-> i, kept |-> kept, over |-> FALSE]
           q == asks[u]
<1>2. a \in Ask /\ a.id = id /\ ~a.over /\ a.for = for /\ a.text = i
  BY DEF Ask
<1> HIDE DEF a
<1>3. asks'[u] = Append(q, a) /\ q \in Seq(Ask)
  BY <1>1 DEF a, Asks, SessionsTypeOK
<1> DEFINE r == asks'[u]
<1>4. /\ Len(q) \in Nat /\ DOMAIN q = 1 .. Len(q) /\ DOMAIN r = 1 .. (Len(q) + 1)
      /\ \A j \in 1 .. Len(q) : r[j] = q[j]
      /\ r[Len(q) + 1] = a
  BY <1>2, <1>3, AppendIs
<1> HIDE DEF r, q
<1>5. \A j \in DOMAIN r : (j \in DOMAIN q /\ r[j] = q[j]) \/ (j = Len(q) + 1 /\ r[j] = a)
  BY <1>4
<1>6. /\ \A j, l \in DOMAIN q : q[j].id = q[l].id => j = l
      /\ \A j \in DOMAIN q : q[j].for = "send" =>
           /\ q[j].text \in DOMAIN texts /\ texts[q[j].text].by = u
           /\ ~q[j].over => texts[q[j].text].status = "composed"
      /\ \A j, l \in DOMAIN q : /\ ~q[j].over /\ ~q[l].over /\ q[j].for = "send" /\ q[l].for = "send"
                                /\ q[j].text = q[l].text
                                => j = l
  BY DEF AskingFits, Live, q
<1>7. \A j \in DOMAIN q : q[j].id # id
  BY <1>1 DEF q
<1>8. \A j, l \in DOMAIN r : r[j].id = r[l].id => j = l
  BY <1>2, <1>5, <1>6, <1>7
<1>9. \A j \in DOMAIN r : r[j].for = "send" =>
        /\ r[j].text \in DOMAIN texts' /\ texts'[r[j].text].by = u
        /\ ~r[j].over => texts'[r[j].text].status = "composed"
  BY <1>2, <1>5, <1>6
<1>10. \A j, l \in DOMAIN r : /\ ~r[j].over /\ ~r[l].over /\ r[j].for = "send" /\ r[l].for = "send"
                              /\ r[j].text = r[l].text
                              => j = l
  BY <1>2, <1>5, <1>6
<1> QED BY <1>8, <1>9, <1>10 DEF AskingFits, Live, r

\* After the link has dropped: the resets that are delivered again, then what
\* the table kept.
Resets(b) == b \in Seq(Envelope) /\ \A i \in DOMAIN b : b[i].kind = "reset" /\ ~b[i].first /\ b[i].kept

LEMMA RestoredFits ==
  ASSUME SessionsTypeOK, NEW u \in User, TextsFollow(u), MailFits(u), StoredFirst(u), NEW b, Resets(b),
         mail'[u] = b \o Stored(mail[u]), shown'[u] = shown[u]
  PROVE  MailFits(u)' /\ StoredFirst(u)' /\ mail'[u] \in Seq(Envelope)
<1> DEFINE q == mail[u]
           r == mail'[u]
           c == Stored(q)
<1>1. PICK n \in 0 .. Len(q) :
        /\ Len(q) \in Nat /\ c \in Seq(Envelope) /\ Len(c) = n
        /\ \A i \in 1 .. n : i \in DOMAIN q /\ c[i] = q[i] /\ q[i].kept
  BY StoredIs
<1>2. /\ b \in Seq(Envelope) /\ Len(b) \in Nat /\ DOMAIN b = 1 .. Len(b)
      /\ \A i \in DOMAIN b : b[i].kind = "reset" /\ ~b[i].first /\ b[i].kept
  BY DEF Resets
<1> HIDE DEF c
<1>3. /\ r \in Seq(Envelope) /\ Len(r) = Len(b) + n /\ DOMAIN r = 1 .. (Len(b) + n)
      /\ \A i \in 1 .. Len(b) : r[i] = b[i]
      /\ \A i \in 1 .. n : r[Len(b) + i] = c[i]
  BY <1>1, <1>2 DEF c
<1> HIDE DEF r, q
<1>4. \A i \in DOMAIN r : \/ i \in DOMAIN b /\ r[i] = b[i]
                          \/ i - Len(b) \in DOMAIN q /\ r[i] = q[i - Len(b)] /\ r[i].kept
  <2> SUFFICES ASSUME NEW i \in DOMAIN r, ~(i \in DOMAIN b)
               PROVE  i - Len(b) \in DOMAIN q /\ r[i] = q[i - Len(b)] /\ r[i].kept
    BY <1>2, <1>3
  <2>1. i - Len(b) \in 1 .. n /\ Len(b) + (i - Len(b)) = i
    BY <1>1, <1>2, <1>3
  <2> QED BY <1>1, <1>3, <2>1
<1>5. /\ \A i \in DOMAIN q : q[i].kind = "message" =>
           /\ q[i].text \in DOMAIN texts \ shown[u]
           /\ texts[q[i].text].by = Peer(u) /\ texts[q[i].text].status = "sent"
      /\ \A i, j \in DOMAIN q : q[i].kind = "message" /\ q[j].kind = "message" /\ q[i].text = q[j].text => i = j
      /\ \A i \in DOMAIN q : /\ q[i].first => q[i].kind \in {"message", "repair"}
                             /\ q[i].kind = "repair" => q[i].first
  BY DEF MailFits, q
<1>6. \A i \in DOMAIN r : r[i].kind = "message" => i - Len(b) \in DOMAIN q /\ r[i] = q[i - Len(b)]
  BY <1>2, <1>4
<1>7. \A i \in DOMAIN r : r[i].kind = "message" =>
        /\ r[i].text \in DOMAIN texts' \ shown'[u]
        /\ texts'[r[i].text].by = Peer(u) /\ texts'[r[i].text].status = "sent"
  BY <1>5, <1>6 DEF TextsFollow
<1>8. \A i, j \in DOMAIN r : r[i].kind = "message" /\ r[j].kind = "message" /\ r[i].text = r[j].text => i = j
  <2> SUFFICES ASSUME NEW i \in DOMAIN r, NEW j \in DOMAIN r,
                      r[i].kind = "message", r[j].kind = "message", r[i].text = r[j].text
               PROVE  i = j
    OBVIOUS
  <2>1. i - Len(b) = j - Len(b)
    BY <1>5, <1>6
  <2> QED BY <1>2, <1>3, <2>1
<1>9. \A i \in DOMAIN r : /\ r[i].first => r[i].kind \in {"message", "repair"}
                          /\ r[i].kind = "repair" => r[i].first
  BY <1>2, <1>4, <1>5
<1>10. \A i \in DOMAIN r : r[i].kept
  BY <1>2, <1>4
<1>11. MailFits(u)'
  BY <1>7, <1>8, <1>9 DEF MailFits, r
<1>12. StoredFirst(u)'
  <2>1. Len(r) \in 0 .. Len(r) /\ \A i \in DOMAIN r : r[i].kept <=> i <= Len(r)
    BY <1>1, <1>2, <1>3, <1>10
  <2>2. \E m \in 0 .. Len(r) : \A i \in DOMAIN r : r[i].kept <=> i <= m
    BY <2>1
  <2> QED BY <1>10, <2>2 DEF StoredFirst, r
<1> QED BY <1>3, <1>11, <1>12 DEF r

\* What the drop of a link does.
Drops(u, b) ==
  /\ live[u] /\ live' = [live EXCEPT ![u] = FALSE] /\ bundles' = [bundles EXCEPT ![u] = <<>>]
  /\ left' \in [texts : Nat, edits : Nat, cuts : Nat]
  /\ severed' \subseteq {"link", "reset"} /\ severed \cup {"link"} \subseteq severed'
  /\ (\E i \in DOMAIN asks[u] : asks[u][i].for = "repair" /\ ~asks[u][i].over) => "reset" \in severed'
  /\ Resets(b)
  /\ UNCHANGED <<secrets, shelf, hush, shown, hurried, clashed>>

LEMMA DropsIs ==
  ASSUME SessionsTypeOK, Fitting, NEW u \in User, LinkDrops(u)
  PROVE  \E b : LET kept == [mail EXCEPT ![u] = b \o Stored(mail[u])] IN
           /\ Drops(u, b)
           /\ mail' = kept
           /\ \/ UNCHANGED <<asks, ear, row, outbox, texts>>
              \/ \E i \in DOMAIN asks[u], s \in Nat \ {0} : Resolves(u, i, 0, s, FALSE, kept)
<1> DEFINE R == [Sealed("reset", 0, 0, FALSE, 0) EXCEPT !.kept = TRUE]
           unacked == {i \in DOMAIN asks[u] : /\ asks[u][i].for = "repair" /\ asks[u][i].kept
                                              /\ ~asks[u][i].over}
           b == [i \in 1 .. Cardinality(unacked) |-> R]
           kept == [mail EXCEPT ![u] = b \o Stored(mail[u])]
<1>1. R \in Envelope /\ R.kind = "reset" /\ ~R.first /\ R.kept
  BY DEF Sealed, Envelope
<1>2. Cardinality(unacked) \in Nat
  <2>1. asks[u] \in Seq(Ask) /\ DOMAIN asks[u] = 1 .. Len(asks[u]) /\ Len(asks[u]) \in Nat
    BY DEF SessionsTypeOK
  <2>2. IsFiniteSet(DOMAIN asks[u])
    BY <2>1, FS_Interval
  <2>3. IsFiniteSet(unacked)
    <3>1. unacked \subseteq DOMAIN asks[u]
      OBVIOUS
    <3> HIDE DEF unacked
    <3> QED BY <2>2, <3>1, FS_Subset
  <2> HIDE DEF unacked
  <2> QED BY <2>3, FS_CardinalityType
<1>3. Resets(b)
  <2> HIDE DEF R, unacked
  <2>1. b \in Seq(Envelope) /\ DOMAIN b = 1 .. Cardinality(unacked)
    BY <1>1, <1>2
  <2> QED BY <1>1, <2>1 DEF Resets
<1>4. Drops(u, b)
  <2>1. left \in [texts : Nat, edits : Nat, cuts : Nat] /\ severed \subseteq {"link", "reset"}
    BY DEF SessionsTypeOK
  <2>2. left.cuts > 0 /\ left' = [left EXCEPT !.cuts = left.cuts - 1]
    BY DEF LinkDrops
  <2>3. left' \in [texts : Nat, edits : Nat, cuts : Nat]
    BY <2>1, <2>2
  <2>4. /\ severed' = severed \cup (IF \E i \in DOMAIN asks[u] : asks[u][i].for = "repair" /\ ~asks[u][i].over
                                   THEN {"link", "reset"} ELSE {"link"})
        /\ live[u] /\ live' = [live EXCEPT ![u] = FALSE] /\ bundles' = [bundles EXCEPT ![u] = <<>>]
        /\ UNCHANGED <<secrets, shelf, hush, shown, hurried, clashed>>
    BY DEF LinkDrops
  <2> HIDE DEF b
  <2> QED BY <1>3, <2>1, <2>3, <2>4 DEF Drops
<1>5. IF ear[u] # 0
      THEN /\ asks' = [asks EXCEPT ![u] = Over(u, ear[u])]
           /\ ear' = [ear EXCEPT ![u] = 0]
           /\ Finish(u, AskOf(u, ear[u]), 0, FALSE, kept)
      ELSE /\ mail' = kept
           /\ UNCHANGED <<asks, ear, row, outbox, texts>>
  BY DEF LinkDrops
<1>6. shown' = shown
  BY <1>4 DEF Drops
<1> HIDE DEF kept, b
<1>7. CASE ear[u] = 0
  BY <1>4, <1>5, <1>7 DEF kept
<1>8. CASE ear[u] # 0
  <2>1. AskingFits(u) /\ \A v \in User : RowsFit(v)
    BY DEF Fitting
  <2>2. PICK i \in DOMAIN asks[u] : /\ AskOf(u, ear[u]) = asks[u][i] /\ asks[u][i] \in Ask
                                    /\ asks[u][i].id = ear[u] /\ ~asks[u][i].over
    BY <1>8, <2>1, HeardAsk
  <2>3. Finish(u, asks[u][i], 0, FALSE, kept) /\ 0 \in PreKey \cup {0}
    BY <1>5, <1>8, <2>2
  <2>4. PICK s \in Nat \ {0} : Finishes(u, asks[u][i], s, 0, FALSE, kept)
    BY <2>1, <2>2, <2>3, FinishIs
  <2>5. Resolves(u, i, 0, s, FALSE, kept)
    BY <1>5, <1>6, <1>8, <2>2, <2>4 DEF Resolves
  <2>6. mail' = kept
    BY <2>4 DEF Finishes, Starts, Throws
  <2> QED BY <1>4, <2>2, <2>5, <2>6 DEF kept
<1> QED BY <1>7, <1>8

LEMMA DropsFits ==
  ASSUME SessionsTypeOK, Fitting, NEW u \in User, LinkDrops(u)
  PROVE  SessionsTypeOK' /\ Fitting'
<1>1. PICK b : LET kept == [mail EXCEPT ![u] = b \o Stored(mail[u])] IN
           /\ Drops(u, b)
           /\ mail' = kept
           /\ \/ UNCHANGED <<asks, ear, row, outbox, texts>>
              \/ \E i \in DOMAIN asks[u], s \in Nat \ {0} : Resolves(u, i, 0, s, FALSE, kept)
  BY DropsIs
<1> DEFINE kept == [mail EXCEPT ![u] = b \o Stored(mail[u])]
<1>2. Drops(u, b) /\ mail' = kept /\ mail \in [User -> Seq(Envelope)] /\ StoredFirst(u)
  BY <1>1 DEF SessionsTypeOK, Fitting
<1>3. kept \in [User -> Seq(Envelope)]
  <2>1. Stored(mail[u]) \in Seq(Envelope) /\ b \in Seq(Envelope)
    BY <1>2, StoredIs DEF Drops, Resets
  <2>2. b \o Stored(mail[u]) \in Seq(Envelope)
    BY <2>1
  <2> QED BY <1>2, <2>2
<1>4. mail'[u] = b \o Stored(mail[u]) /\ \A v \in User : v # u => mail'[v] = mail[v]
  BY <1>2
<1>5. /\ row' \in [User -> Nat] /\ outbox' \in [User -> SUBSET Envelope]
      /\ TextsFollow(u)
      /\ asks' \in [User -> Seq(Ask)] /\ ear' \in [User -> 0 .. 4] /\ EarsHeld' /\ ShownKnown'
      /\ \A v \in User : AskingFits(v)' /\ RowsFit(v)' /\ ShownFits(v)'
  <2>1. CASE UNCHANGED <<asks, ear, row, outbox, texts>>
    <3>1. TextsFollow(u) /\ EarsHeld' /\ ShownKnown'
      BY <1>2, <2>1, TextsStay, EarsStay, ShownKnownStays DEF Drops
    <3>2. \A v \in User : AskingFits(v)' /\ RowsFit(v)' /\ ShownFits(v)'
      BY <1>2, <2>1 DEF Fitting, AskingFits, RowsFit, ShownFits, Live, Drops
    <3> QED BY <2>1, <3>1, <3>2 DEF SessionsTypeOK
  <2>2. CASE \E i \in DOMAIN asks[u], s \in Nat \ {0} : Resolves(u, i, 0, s, FALSE, kept)
    <3>1. PICK i \in DOMAIN asks[u], s \in Nat \ {0} : Resolves(u, i, 0, s, FALSE, kept)
      BY <2>2
    <3>2. 0 \in PreKey \cup {0}
      OBVIOUS
    <3> HIDE DEF kept
    <3> QED BY <1>3, <3>1, <3>2, ResolvesFit
  <2> QED BY <1>1, <2>1, <2>2
<1>6. SessionsTypeOK'
  <2> HIDE DEF kept
  <2>1. live' \in [User -> BOOLEAN] /\ bundles' \in [User -> Seq(PreKey \cup {0})]
    <3>1. <<>> \in Seq(PreKey \cup {0})
      OBVIOUS
    <3> QED BY <1>2, <3>1 DEF Drops, SessionsTypeOK
  <2> QED BY <1>2, <1>3, <1>5, <2>1 DEF SessionsTypeOK, TextsFollow, EarsHeld, ShownKnown, Drops
<1>7. ASSUME NEW v \in User PROVE MailFits(v)' /\ StoredFirst(v)'
  <2>1. MailFits(v) /\ StoredFirst(v) /\ shown'[v] = shown[v] /\ Resets(b)
    BY <1>2 DEF Fitting, Drops
  <2>2. CASE v = u
    BY <1>4, <1>5, <2>1, <2>2, RestoredFits
  <2>3. CASE v # u
    <3>1. live'[v] = live[v]
      BY <1>2, <2>3 DEF Drops, SessionsTypeOK
    <3> QED BY <1>4, <1>5, <2>1, <2>3, <3>1, MailStays, OrderStays
  <2> QED BY <2>2, <2>3
<1> QED BY <1>5, <1>6, <1>7 DEF Fitting

LEMMA SendTextFits ==
  ASSUME SessionsTypeOK, Fitting, NEW u \in User, SendText(u)
  PROVE  SessionsTypeOK' /\ Fitting'
<1>1. /\ UNCHANGED <<live, row, secrets, mail, hush, shown, severed>>
      /\ left.texts > 0 /\ left' = [left EXCEPT !.texts = left.texts - 1]
  BY DEF SendText
<1>2. left' \in [texts : Nat, edits : Nat, cuts : Nat]
  <2>1. left \in [texts : Nat, edits : Nat, cuts : Nat]
    BY DEF SessionsTypeOK
  <2> QED BY <1>1, <2>1
<1>3. AskingFits(u) /\ RowsFit(u)
  BY DEF Fitting
<1>4. CASE row[u] # 0
  <2> DEFINE i == Len(texts) + 1
             e == Sealed("message", i, row[u], FALSE, 0)
  <2>1. /\ texts' = Append(texts, [by |-> u, status |-> "pending"])
        /\ outbox' = [outbox EXCEPT ![u] = Enqueued(@, {e})]
        /\ UNCHANGED <<asks, ear, hurried, clashed, bundles, shelf>>
    BY <1>4 DEF SendText
  <2>2. /\ TextsFollow(u) /\ i \in Nat /\ i \in DOMAIN texts' \ DOMAIN texts
        /\ texts'[i].by = u /\ texts'[i].status = "pending"
        /\ \A j \in DOMAIN texts : texts'[j] = texts[j]
    <3>1. Adds(u, "pending")
      BY <2>1, TextAdded
    <3> QED BY <3>1 DEF Adds
  <2>3. e \in Envelope /\ e.kind = "message" /\ e.text = i
    <3>1. row[u] \in Nat
      BY DEF SessionsTypeOK
    <3> HIDE DEF i
    <3> QED BY <2>2, <3>1 DEF Sealed, Envelope
  <2> HIDE DEF e, i
  <2>4. /\ outbox \in [User -> SUBSET Envelope] /\ outbox'[u] = Enqueued(outbox[u], {e})
        /\ \A v \in User : v # u => outbox'[v] = outbox[v]
    BY <2>1 DEF SessionsTypeOK
  <2>5. outbox' \in [User -> SUBSET Envelope]
    BY <2>1, <2>3, <2>4 DEF Enqueued
  <2>6. RowsFit(u)'
    <3>1. \A f \in outbox'[u] : f = e \/ (f \in outbox[u] /\ f.text # i)
      BY <2>3, <2>4 DEF Enqueued
    <3>2. \A f \in outbox'[u] : /\ f.kind = "message" /\ f.text \in DOMAIN texts'
                                /\ texts'[f.text].by = u /\ texts'[f.text].status = "pending"
      BY <1>3, <2>2, <2>3, <3>1 DEF RowsFit, TextsFollow
    <3>3. \A f, g \in outbox'[u] : f.text = g.text => f = g
      BY <1>3, <2>3, <3>1 DEF RowsFit
    <3> QED BY <3>2, <3>3 DEF RowsFit
  <2>7. AskingFits(u)'
    BY <1>3, <2>1, <2>2 DEF AskingFits, Live, TextsFollow
  <2>8. ASSUME NEW v \in User PROVE AskingFits(v)' /\ RowsFit(v)'
    <3>1. CASE v = u
      BY <2>6, <2>7, <3>1
    <3>2. CASE v # u
      <4>1. AskingFits(v) /\ RowsFit(v) /\ asks'[v] = asks[v] /\ outbox'[v] = outbox[v]
        BY <2>1, <2>4, <3>2 DEF Fitting
      <4> QED BY <2>2, <3>2, <4>1, OtherFits
    <3> QED BY <3>1, <3>2
  <2>9. ASSUME NEW v \in User PROVE MailFits(v)' /\ ShownFits(v)' /\ StoredFirst(v)'
    <3>1. /\ MailFits(v) /\ ShownFits(v) /\ StoredFirst(v) /\ mail'[v] = mail[v] /\ shown'[v] = shown[v]
          /\ live'[v] = live[v]
      BY <1>1 DEF Fitting
    <3> QED BY <2>2, <3>1, MailStays, ShownStillFits, OrderStays
  <2>10. EarsHeld' /\ ShownKnown'
    BY <1>1, <2>1, <2>2, EarsStay, ShownKnownStays
  <2>11. SessionsTypeOK'
    BY <1>1, <1>2, <2>1, <2>2, <2>5, <2>10 DEF SessionsTypeOK, TextsFollow, EarsHeld, ShownKnown
  <2> QED BY <2>8, <2>9, <2>11 DEF Fitting
<1>5. CASE row[u] = 0
  <2> DEFINE i == Len(texts) + 1
  <2>1. /\ texts' = Append(texts, [by |-> u, status |-> "composed"])
        /\ AskBundle(u, "send", i, FALSE)
        /\ outbox' = outbox
    BY <1>5 DEF SendText
  <2>2. /\ TextsFollow(u) /\ i \in Nat /\ i \in DOMAIN texts' \ DOMAIN texts
        /\ texts'[i].by = u /\ texts'[i].status = "composed"
        /\ DOMAIN texts \subseteq DOMAIN texts'
        /\ \A j \in DOMAIN texts : texts'[j] = texts[j]
    <3>1. Adds(u, "composed")
      BY <2>1, TextAdded
    <3> QED BY <3>1 DEF Adds
  <2> HIDE DEF i
  <2>3. /\ asks' \in [User -> Seq(Ask)] /\ ear' \in [User -> 0 .. 4]
        /\ bundles' \in [User -> Seq(PreKey \cup {0})] /\ shelf' \in [User -> SUBSET PreKey]
        /\ hurried' \in BOOLEAN /\ clashed' \in BOOLEAN /\ EarsHeld'
    BY <2>1, <2>2, AskTypes DEF EarsHeld
  <2>4. AskingFits(u)'
    <3>1. "send" \in {"send", "repair"} /\ FALSE \in BOOLEAN
      OBVIOUS
    <3> QED BY <1>3, <2>1, <2>2, <3>1, AskFits
  <2>5. \A v \in User : v # u => asks'[v] = asks[v]
    BY <2>1 DEF AskBundle, SessionsTypeOK
  <2>6. RowsFit(u)'
    BY <1>3, <2>1, <2>2 DEF RowsFit, TextsFollow
  <2>7. ASSUME NEW v \in User PROVE AskingFits(v)' /\ RowsFit(v)'
    <3>1. CASE v = u
      BY <2>4, <2>6, <3>1
    <3>2. CASE v # u
      <4>1. AskingFits(v) /\ RowsFit(v) /\ asks'[v] = asks[v] /\ outbox'[v] = outbox[v]
        BY <2>1, <2>5, <3>2 DEF Fitting
      <4> QED BY <2>2, <3>2, <4>1, OtherFits
    <3> QED BY <3>1, <3>2
  <2>8. ASSUME NEW v \in User PROVE MailFits(v)' /\ ShownFits(v)' /\ StoredFirst(v)'
    <3>1. /\ MailFits(v) /\ ShownFits(v) /\ StoredFirst(v) /\ mail'[v] = mail[v] /\ shown'[v] = shown[v]
          /\ live'[v] = live[v]
      BY <1>1 DEF Fitting
    <3> QED BY <2>2, <3>1, MailStays, ShownStillFits, OrderStays
  <2>9. ShownKnown'
    BY <1>1, <2>2, ShownKnownStays
  <2>10. SessionsTypeOK'
    BY <1>1, <1>2, <2>1, <2>2, <2>3, <2>9 DEF SessionsTypeOK, TextsFollow, EarsHeld, ShownKnown
  <2> QED BY <2>7, <2>8, <2>10 DEF Fitting
<1> QED BY <1>4, <1>5

\* The row with the smallest text goes out.
Flushes(u, e, f) ==
  /\ e \in outbox[u] /\ \A o \in outbox[u] : e.text <= o.text
  /\ Posts(Peer(u), e, f)
  /\ live[u]
  /\ mail' = [mail EXCEPT ![Peer(u)] = Append(mail[Peer(u)], f)]
  /\ texts' = [texts EXCEPT ![e.text].status = "sent"]
  /\ outbox' = [outbox EXCEPT ![u] = outbox[u] \ {e}]
  /\ UNCHANGED <<live, row, secrets, shelf, asks, ear, bundles, hush, shown, left, hurried, clashed, severed>>

LEMMA FlushIs ==
  ASSUME SessionsTypeOK, Fitting, NEW u \in User, FlushText(u)
  PROVE  \E e, f : Flushes(u, e, f)
<1> DEFINE e == CHOOSE r \in outbox[u] : \A o \in outbox[u] : r.text <= o.text
           S == {r.text : r \in outbox[u]}
<1>1. outbox[u] # {} /\ outbox[u] \subseteq Envelope /\ \A r \in outbox[u] : r.text \in Nat
  BY EnvelopeFields DEF FlushText, SessionsTypeOK
<1>2. S # {} /\ S \in SUBSET Nat
  BY <1>1
<1>3. \E s \in S : \A t \in S : s <= t
  <2> HIDE DEF S
  <2> QED BY <1>2, LeastExists
<1>4. \E r \in outbox[u] : \A o \in outbox[u] : r.text <= o.text
  BY <1>3
<1>5. e \in outbox[u] /\ \A o \in outbox[u] : e.text <= o.text
  BY <1>4
<1>6. /\ live[u]
      /\ mail' = [mail EXCEPT ![Peer(u)] = Posted(Peer(u), <<e>>)]
      /\ texts' = [texts EXCEPT ![e.text].status = "sent"]
      /\ outbox' = [outbox EXCEPT ![u] = outbox[u] \ {e}]
      /\ UNCHANGED <<live, row, secrets, shelf, asks, ear, bundles, hush, shown, left, hurried, clashed, severed>>
  BY DEF FlushText
<1> HIDE DEF e
<1>7. e \in Envelope /\ Peer(u) \in User
  BY <1>1, <1>5, PeerOf
<1>8. PICK f : Posts(Peer(u), e, f) /\ Posted(Peer(u), <<e>>) = Append(mail[Peer(u)], f)
  BY <1>7, PostsIs
<1>9. Flushes(u, e, f)
  BY <1>5, <1>6, <1>8 DEF Flushes
<1> QED BY <1>9

LEMMA FlushFits ==
  ASSUME SessionsTypeOK, Fitting, NEW u \in User, FlushText(u)
  PROVE  SessionsTypeOK' /\ Fitting'
<1>1. PICK e, f : Flushes(u, e, f)
  BY FlushIs
<1>2. /\ e \in outbox[u] /\ e.kind = "message" /\ e.text \in DOMAIN texts
      /\ texts[e.text].by = u /\ texts[e.text].status = "pending"
      /\ \A g \in outbox[u] : g.text = e.text => g = e
  BY <1>1 DEF Flushes, Fitting, RowsFit
<1>3. f \in Envelope /\ f.kind = "message" /\ f.text = e.text /\ (f.kept <=> ~live[Peer(u)])
  BY <1>1, <1>2 DEF Flushes, Posts
<1>4. /\ texts' \in Seq(Text) /\ DOMAIN texts' = DOMAIN texts
      /\ texts'[e.text].status = "sent" /\ texts'[e.text].by = u
      /\ \A j \in DOMAIN texts : j # e.text => texts'[j] = texts[j]
  <2>1. texts' = [texts EXCEPT ![e.text].status = "sent"]
    BY <1>1 DEF Flushes
  <2> QED BY <1>2, <2>1, StatusIs
<1>5. TextsFollow(u)
  BY <1>2, <1>4 DEF TextsFollow
<1>6. UNCHANGED <<live, row, secrets, shelf, asks, ear, bundles, hush, shown, left, hurried, clashed, severed>>
  BY <1>1 DEF Flushes
<1>7. /\ outbox' \in [User -> SUBSET Envelope] /\ outbox'[u] = outbox[u] \ {e}
      /\ \A v \in User : v # u => outbox'[v] = outbox[v]
  BY <1>1 DEF SessionsTypeOK, Flushes
<1>8. /\ mail[Peer(u)] \in Seq(Envelope) /\ mail'[Peer(u)] = Append(mail[Peer(u)], f)
      /\ \A v \in User : v # Peer(u) => mail'[v] = mail[v]
  BY <1>1, PeerOf DEF SessionsTypeOK, Flushes
<1>9. mail' \in [User -> Seq(Envelope)]
  <2>1. Append(mail[Peer(u)], f) \in Seq(Envelope)
    BY <1>3, <1>8, AppendIs
  <2> QED BY <1>1, <2>1 DEF SessionsTypeOK, Flushes
<1>10. EarsHeld' /\ ShownKnown'
  BY <1>5, <1>6, EarsStay, ShownKnownStays
<1>11. SessionsTypeOK'
  BY <1>4, <1>6, <1>7, <1>9, <1>10 DEF SessionsTypeOK, EarsHeld, ShownKnown
<1>12. AskingFits(u)' /\ RowsFit(u)'
  <2>1. AskingFits(u) /\ RowsFit(u)
    BY DEF Fitting
  <2>2. AskingFits(u)'
    BY <1>2, <1>4, <1>6, <2>1 DEF AskingFits, Live
  <2>3. RowsFit(u)'
    BY <1>2, <1>4, <1>7, <2>1 DEF RowsFit
  <2> QED BY <2>2, <2>3
<1>13. ASSUME NEW v \in User PROVE AskingFits(v)' /\ RowsFit(v)'
  <2>1. CASE v # u
    <3>1. AskingFits(v) /\ RowsFit(v) /\ asks'[v] = asks[v] /\ outbox'[v] = outbox[v]
      BY <1>6, <1>7, <2>1 DEF Fitting
    <3> QED BY <1>5, <2>1, <3>1, OtherFits
  <2> QED BY <1>12, <2>1
<1>14. ASSUME NEW v \in User PROVE MailFits(v)' /\ ShownFits(v)' /\ StoredFirst(v)'
  <2>1. MailFits(v) /\ ShownFits(v) /\ StoredFirst(v) /\ shown'[v] = shown[v] /\ live'[v] = live[v]
    BY <1>6 DEF Fitting
  <2>2. ShownFits(v)'
    BY <1>5, <2>1, ShownStillFits
  <2>3. CASE v # Peer(u)
    BY <1>5, <1>8, <2>1, <2>2, <2>3, MailStays, OrderStays
  <2>4. CASE v = Peer(u)
    <3>1. /\ mail'[v] = Append(mail[v], f) /\ (f.kept <=> ~live[v]) /\ f.text \in DOMAIN texts
          /\ texts[f.text].by = Peer(v) /\ texts[f.text].status # "sent" /\ texts'[f.text].status = "sent"
      BY <1>2, <1>3, <1>4, <1>8, <2>4, PeerOf
    <3>2. MailFits(v)'
      BY <1>3, <1>5, <2>1, <3>1, MailGetsText
    <3>3. StoredFirst(v)'
      BY <1>3, <2>1, <3>1, OrderGrows
    <3> QED BY <2>2, <3>2, <3>3
  <2> QED BY <2>3, <2>4
<1> QED BY <1>11, <1>13, <1>14 DEF Fitting

\* An envelope without a text is posted to the peer.
LEMMA PostFits ==
  ASSUME SessionsTypeOK, NEW v \in User, MailFits(v), StoredFirst(v), texts' = texts,
         NEW e, NEW f, Posts(v, e, f), e.kind # "message", e.first <=> e.kind = "repair",
         mail'[v] = Append(mail[v], f), shown'[v] = shown[v], live'[v] = live[v]
  PROVE  MailFits(v)' /\ StoredFirst(v)' /\ mail'[v] \in Seq(Envelope)
<1>1. f \in Envelope /\ f.kind # "message" /\ (f.first <=> f.kind = "repair") /\ (f.kept <=> ~live[v])
  BY DEF Posts
<1>2. mail[v] \in Seq(Envelope) /\ TextsFollow(v)
  BY TextsStay DEF SessionsTypeOK
<1>3. MailFits(v)' /\ StoredFirst(v)'
  BY <1>1, <1>2, MailGrows, OrderGrows
<1>4. mail'[v] \in Seq(Envelope)
  BY <1>1, <1>2, AppendIs
<1> QED BY <1>3, <1>4

LEMMA SendEditIs ==
  ASSUME SessionsTypeOK, NEW u \in User, SendEdit(u)
  PROVE  \E e \in Envelope : \E f :
           /\ e = Sealed("edit", 0, row[u], FALSE, 0) /\ e.kind = "edit" /\ ~e.first /\ e.session = row[u]
           /\ Posts(Peer(u), e, f)
           /\ mail' = [mail EXCEPT ![Peer(u)] = Append(mail[Peer(u)], f)]
           /\ live[u] /\ row[u] # 0
           /\ left' \in [texts : Nat, edits : Nat, cuts : Nat]
           /\ UNCHANGED <<live, row, secrets, shelf, asks, ear, bundles, outbox, hush, texts, shown,
                          hurried, clashed, severed>>
<1> DEFINE e == Sealed("edit", 0, row[u], FALSE, 0)
<1>1. e \in Envelope /\ e.kind = "edit" /\ ~e.first /\ e.session = row[u]
  BY DEF SessionsTypeOK, Sealed, Envelope
<1>2. /\ live[u] /\ row[u] # 0 /\ left.edits > 0 /\ left' = [left EXCEPT !.edits = left.edits - 1]
      /\ mail' = [mail EXCEPT ![Peer(u)] = Posted(Peer(u), <<e>>)]
      /\ UNCHANGED <<live, row, secrets, shelf, asks, ear, bundles, outbox, hush, texts, shown,
                     hurried, clashed, severed>>
  BY DEF SendEdit
<1>3. left' \in [texts : Nat, edits : Nat, cuts : Nat]
  <2>1. left \in [texts : Nat, edits : Nat, cuts : Nat]
    BY DEF SessionsTypeOK
  <2> HIDE DEF e
  <2> QED BY <1>2, <2>1
<1>4. e = Sealed("edit", 0, row[u], FALSE, 0)
  OBVIOUS
<1> HIDE DEF e
<1>5. PICK f : Posts(Peer(u), e, f) /\ Posted(Peer(u), <<e>>) = Append(mail[Peer(u)], f)
  BY <1>1, PeerOf, PostsIs
<1> QED BY <1>1, <1>2, <1>3, <1>4, <1>5

LEMMA SendEditFits ==
  ASSUME SessionsTypeOK, Fitting, NEW u \in User, SendEdit(u)
  PROVE  SessionsTypeOK' /\ Fitting'
<1>0. PICK e \in Envelope : \E f :
           /\ e.kind = "edit" /\ ~e.first
           /\ Posts(Peer(u), e, f)
           /\ mail' = [mail EXCEPT ![Peer(u)] = Append(mail[Peer(u)], f)]
           /\ left' \in [texts : Nat, edits : Nat, cuts : Nat]
           /\ UNCHANGED <<live, row, secrets, shelf, asks, ear, bundles, outbox, hush, texts, shown,
                          hurried, clashed, severed>>
  BY SendEditIs
<1>1. PICK f :
           /\ e.kind = "edit" /\ ~e.first
           /\ Posts(Peer(u), e, f)
           /\ mail' = [mail EXCEPT ![Peer(u)] = Append(mail[Peer(u)], f)]
           /\ left' \in [texts : Nat, edits : Nat, cuts : Nat]
           /\ UNCHANGED <<live, row, secrets, shelf, asks, ear, bundles, outbox, hush, texts, shown,
                          hurried, clashed, severed>>
  BY <1>0
<1>2. mail \in [User -> Seq(Envelope)] /\ Peer(u) \in User
  BY PeerOf DEF SessionsTypeOK
<1>3. mail'[Peer(u)] = Append(mail[Peer(u)], f) /\ \A v \in User : v # Peer(u) => mail'[v] = mail[v]
  BY <1>1, <1>2
<1>4. MailFits(Peer(u))' /\ StoredFirst(Peer(u))' /\ mail'[Peer(u)] \in Seq(Envelope)
  <2>1. MailFits(Peer(u)) /\ StoredFirst(Peer(u))
    BY <1>2 DEF Fitting
  <2> QED BY <1>1, <1>2, <1>3, <2>1, PostFits
<1>5. mail' \in [User -> Seq(Envelope)]
  BY <1>1, <1>2, <1>3, <1>4
<1>6. SessionsTypeOK'
  BY <1>1, <1>5 DEF SessionsTypeOK
<1>7. ASSUME NEW v \in User
      PROVE  AskingFits(v)' /\ RowsFit(v)' /\ MailFits(v)' /\ ShownFits(v)' /\ StoredFirst(v)'
  <2>1. AskingFits(v)' /\ RowsFit(v)' /\ ShownFits(v)'
    BY <1>1 DEF Fitting, AskingFits, RowsFit, ShownFits, Live
  <2>2. CASE v = Peer(u)
    BY <1>4, <2>1, <2>2
  <2>3. CASE v # Peer(u)
    BY <1>1, <1>3, <2>1, <2>3 DEF Fitting, MailFits, StoredFirst
  <2> QED BY <2>2, <2>3
<1> QED BY <1>6, <1>7 DEF Fitting

LEMMA LinkUpFits ==
  ASSUME SessionsTypeOK, Fitting, NEW u \in User, LinkUp(u)
  PROVE  SessionsTypeOK' /\ Fitting'
<1>1. /\ ~live[u] /\ live' = [live EXCEPT ![u] = TRUE]
      /\ UNCHANGED <<row, asks, ear, bundles, outbox, mail, hush, texts, shown, left, hurried, clashed, severed>>
  BY DEF LinkUp
<1>2. secrets' \in [User -> SUBSET PreKey] /\ shelf' \in [User -> SUBSET PreKey]
  <2> DEFINE new == IF 2 * Cardinality(secrets[u]) < Cardinality(PreKey) THEN PreKey \ secrets[u] ELSE {}
  <2>1. secrets' = [secrets EXCEPT ![u] = @ \cup new] /\ shelf' = [shelf EXCEPT ![u] = @ \cup new]
    BY DEF LinkUp
  <2>2. new \subseteq PreKey
    OBVIOUS
  <2> HIDE DEF new
  <2> QED BY <2>1, <2>2 DEF SessionsTypeOK
<1>3. SessionsTypeOK'
  BY <1>1, <1>2 DEF SessionsTypeOK
<1>4. ASSUME NEW v \in User
      PROVE  AskingFits(v)' /\ RowsFit(v)' /\ MailFits(v)' /\ ShownFits(v)' /\ StoredFirst(v)'
  <2>1. AskingFits(v)' /\ RowsFit(v)' /\ MailFits(v)' /\ ShownFits(v)'
    BY <1>1 DEF Fitting, AskingFits, RowsFit, MailFits, ShownFits, Live
  <2>2. ~live'[v] => ~live[v]
    BY <1>1 DEF SessionsTypeOK
  <2> QED BY <1>1, <2>1, <2>2 DEF Fitting, StoredFirst
<1> QED BY <1>3, <1>4 DEF Fitting

LEMMA CooldownFits ==
  ASSUME SessionsTypeOK, Fitting, NEW u \in User, CooldownEnds(u)
  PROVE  SessionsTypeOK' /\ Fitting'
<1>1. /\ hush' = [hush EXCEPT ![u] = FALSE]
      /\ UNCHANGED <<live, row, secrets, shelf, asks, ear, bundles, outbox, mail, texts, shown, left,
                     hurried, clashed, severed>>
  BY DEF CooldownEnds
<1>2. SessionsTypeOK'
  BY <1>1 DEF SessionsTypeOK
<1> QED BY <1>1, <1>2 DEF Fitting, AskingFits, RowsFit, MailFits, ShownFits, StoredFirst, Live

-----------------------------------------------------------------------------
(* What is received.                                                       *)

Outcome == [row : Nat, secrets : SUBSET PreKey, ok : BOOLEAN]

\* The three ways in which Decrypt ends.
Opens(u, current, e, d) ==
  /\ d \in Outcome
  /\ \/ current # 0 /\ current = e.session /\ d.row = current /\ d.secrets = secrets[u] /\ d.ok
     \/ Answerable(u, e) /\ d.row = e.session /\ d.secrets = secrets[u] \ {e.key} /\ d.ok
     \/ /\ ~(current # 0 /\ current = e.session) /\ ~Answerable(u, e)
        /\ d.row = 0 /\ d.secrets = secrets[u] /\ ~d.ok

LEMMA DecryptIs ==
  ASSUME SessionsTypeOK, NEW u \in User, NEW current \in Nat, NEW e \in Envelope
  PROVE  Opens(u, current, e, Decrypt(u, current, e))
<1>1. e.session \in Nat /\ secrets[u] \in SUBSET PreKey
  BY EnvelopeFields DEF SessionsTypeOK
<1> QED BY <1>1 DEF Decrypt, Opens, Outcome

\* What the three kinds have in common: an envelope is taken from the mail, and
\* a notice goes back if it did not open.
Takes(u, d) ==
  /\ row' = [row EXCEPT ![u] = d.row]
  /\ secrets' = [secrets EXCEPT ![u] = d.secrets]
  /\ hush' \in [User -> BOOLEAN]
  /\ mail' \in [User -> Seq(Envelope)]
  /\ mail'[u] = Tail(mail[u])
  /\ \/ mail'[Peer(u)] = mail[Peer(u)]
     \/ /\ ~d.ok /\ live[u]
        /\ \E f : /\ Posts(Peer(u), Sealed("reset", 0, 0, FALSE, 0), f)
                  /\ mail'[Peer(u)] = Append(mail[Peer(u)], f)

LEMMA TakesIs ==
  ASSUME SessionsTypeOK, NEW u \in User, NEW d \in Outcome, mail[u] # <<>>, Applied(u, d)
  PROVE  Takes(u, d)
<1> DEFINE e == Sealed("reset", 0, 0, FALSE, 0)
<1>1. e \in Envelope
  BY DEF Sealed, Envelope
<1>2. Peer(u) \in User /\ Peer(u) # u /\ \A v \in User : v = u \/ v = Peer(u)
  BY PeerOf
<1>3. /\ mail \in [User -> Seq(Envelope)] /\ hush \in [User -> BOOLEAN] /\ live \in [User -> BOOLEAN]
      /\ d.ok \in BOOLEAN
  BY DEF SessionsTypeOK, Outcome
<1> HIDE DEF e
<1>4. PICK f : Posts(Peer(u), e, f) /\ Posted(Peer(u), <<e>>) = Append(mail[Peer(u)], f)
  BY <1>1, <1>2, PostsIs
<1>5. /\ row' = [row EXCEPT ![u] = d.row]
      /\ secrets' = [secrets EXCEPT ![u] = d.secrets]
      /\ hush' = [hush EXCEPT ![u] = hush[u] \/ (~d.ok /\ live[u])]
      /\ mail' = [mail EXCEPT ![u] = Tail(mail[u]),
                              ![Peer(u)] = IF d.ok THEN mail[Peer(u)] ELSE Noticed(u)]
  BY <1>2, <1>3 DEF Applied
<1>6. (Noticed(u) = Append(mail[Peer(u)], f) /\ live[u]) \/ Noticed(u) = mail[Peer(u)]
  BY <1>4 DEF Noticed, e
<1>7. f \in Envelope /\ Append(mail[Peer(u)], f) \in Seq(Envelope) /\ Tail(mail[u]) \in Seq(Envelope)
  BY <1>2, <1>3, <1>4, AppendIs, TailIs DEF Posts
<1>8. mail'[u] = Tail(mail[u]) /\ mail'[Peer(u)] = (IF d.ok THEN mail[Peer(u)] ELSE Noticed(u))
  BY <1>2, <1>3, <1>5
<1>9. \/ mail'[Peer(u)] = mail[Peer(u)]
      \/ /\ ~d.ok /\ live[u] /\ mail'[Peer(u)] = Append(mail[Peer(u)], f)
  BY <1>6, <1>8
<1>10. mail' \in [User -> Seq(Envelope)]
  <2>1. mail'[Peer(u)] \in Seq(Envelope) /\ mail'[u] \in Seq(Envelope)
    BY <1>2, <1>3, <1>7, <1>8, <1>9
  <2>2. DOMAIN mail' = User /\ mail' = [v \in User |-> mail'[v]]
    BY <1>3, <1>5
  <2>3. \A v \in User : mail'[v] \in Seq(Envelope)
    BY <1>2, <2>1
  <2> QED BY <2>2, <2>3
<1>11. hush' \in [User -> BOOLEAN]
  BY <1>3, <1>5
<1> QED BY <1>4, <1>5, <1>8, <1>9, <1>10, <1>11 DEF Takes, e

\* An envelope that is read, and a reset.
Reads(u, e, d) ==
  /\ e.kind # "reset" /\ Takes(u, d) /\ d \in Outcome
  /\ \/ /\ e.kind # "repair" /\ row[u] # 0 /\ row[u] = e.session
        /\ d.row = row[u] /\ d.secrets = secrets[u] /\ d.ok
     \/ e.kind # "edit" /\ Answerable(u, e) /\ d.row = e.session /\ d.secrets = secrets[u] \ {e.key} /\ d.ok
     \/ /\ e.kind = "edit" \/ ~Answerable(u, e)
        /\ e.kind = "repair" \/ row[u] = 0 \/ row[u] # e.session
        /\ d.row = 0 /\ d.secrets = secrets[u] /\ ~d.ok
  /\ shown' = IF e.kind = "message" /\ d.ok THEN [shown EXCEPT ![u] = @ \cup {e.text}] ELSE shown
  /\ UNCHANGED <<live, texts, left, severed, outbox, asks, ear, hurried, clashed, bundles, shelf>>

Rebuilds(u, e) ==
  /\ e.kind = "reset"
  /\ row' = [row EXCEPT ![u] = 0]
  /\ outbox' = [outbox EXCEPT ![u] = {}]
  /\ AskBundle(u, "repair", 0, e.kept)
  /\ mail' = [mail EXCEPT ![u] = Tail(mail[u])]
  /\ UNCHANGED <<live, texts, left, severed, secrets, hush, shown>>

LEMMA ReceiveIs ==
  ASSUME SessionsTypeOK, Fitting, NEW u \in User, Receive(u)
  PROVE  /\ live[u] /\ mail[u] # <<>> /\ mail[u] \in Seq(Envelope) /\ mail[u][1] \in Envelope
         /\ Rebuilds(u, mail[u][1]) \/ \E d : Reads(u, mail[u][1], d)
<1> DEFINE e == mail[u][1]
<1>1. live[u] /\ mail[u] # <<>> /\ mail[u] \in Seq(Envelope)
  BY DEF Receive, SessionsTypeOK
<1>2. Head(mail[u]) = e /\ e \in Envelope /\ 1 \in DOMAIN mail[u]
  BY <1>1
<1>3. /\ OnText(u, e) \/ OnEdit(u, e) \/ OnRepair(u, e) \/ OnReset(u, e)
      /\ UNCHANGED <<live, texts, left, severed>>
  BY <1>2 DEF Receive
<1>4. row[u] \in Nat /\ 0 \in Nat
  BY DEF SessionsTypeOK
<1>5. e.kind = "message" => e.text \notin shown[u]
  BY <1>2 DEF Fitting, MailFits
<1> HIDE DEF e
<1>6. CASE OnText(u, e)
  <2> DEFINE d == Decrypt(u, row[u], e)
  <2>1. Opens(u, row[u], e, d)
    BY <1>2, <1>4, DecryptIs
  <2>2. /\ e.kind = "message" /\ Applied(u, d)
        /\ shown' = IF d.ok THEN [shown EXCEPT ![u] = @ \cup {e.text}] ELSE shown
        /\ UNCHANGED <<outbox, asks, ear, hurried, clashed, bundles, shelf>>
    BY <1>5, <1>6 DEF OnText
  <2> HIDE DEF d
  <2>3. Takes(u, d) /\ d \in Outcome
    BY <1>1, <2>1, <2>2, TakesIs DEF Opens
  <2>4. Reads(u, e, d)
    BY <1>3, <2>1, <2>2, <2>3 DEF Opens, Reads
  <2> QED BY <1>1, <1>2, <2>4 DEF e
<1>7. CASE OnEdit(u, e)
  <2> DEFINE g == [e EXCEPT !.first = FALSE]
             d == Decrypt(u, row[u], g)
  <2>1. g \in Envelope /\ ~g.first /\ g.session = e.session
    BY <1>2 DEF Envelope
  <2>2. /\ e.kind = "edit" /\ Applied(u, d)
        /\ UNCHANGED <<shown, outbox, asks, ear, hurried, clashed, bundles, shelf>>
    BY <1>7 DEF OnEdit
  <2>3. Opens(u, row[u], g, d)
    <3> HIDE DEF g
    <3> QED BY <1>4, <2>1, DecryptIs
  <2> HIDE DEF d, g
  <2>4. Takes(u, d) /\ d \in Outcome
    BY <1>1, <2>2, <2>3, TakesIs DEF Opens
  <2>5. ~Answerable(u, g)
    BY <2>1 DEF Answerable
  <2>6. Reads(u, e, d)
    BY <1>3, <2>1, <2>2, <2>3, <2>4, <2>5 DEF Opens, Reads
  <2> QED BY <1>1, <1>2, <2>6 DEF e
<1>8. CASE OnRepair(u, e)
  <2> DEFINE d == Decrypt(u, 0, e)
  <2>1. Opens(u, 0, e, d)
    BY <1>2, <1>4, DecryptIs
  <2>2. /\ e.kind = "repair" /\ Applied(u, d)
        /\ UNCHANGED <<shown, outbox, asks, ear, hurried, clashed, bundles, shelf>>
    BY <1>8 DEF OnRepair
  <2> HIDE DEF d
  <2>3. Takes(u, d) /\ d \in Outcome
    BY <1>1, <2>1, <2>2, TakesIs DEF Opens
  <2>4. Reads(u, e, d)
    BY <1>3, <2>1, <2>2, <2>3 DEF Opens, Reads
  <2> QED BY <1>1, <1>2, <2>4 DEF e
<1>9. CASE OnReset(u, e)
  <2>1. Rebuilds(u, e)
    BY <1>3, <1>9 DEF OnReset, Rebuilds
  <2> QED BY <1>1, <1>2, <2>1 DEF e
<1> QED BY <1>3, <1>6, <1>7, <1>8, <1>9

LEMMA ReadsFits ==
  ASSUME SessionsTypeOK, Fitting, NEW u \in User, mail[u] # <<>>, mail[u] \in Seq(Envelope), NEW d,
         Reads(u, mail[u][1], d)
  PROVE  SessionsTypeOK' /\ Fitting'
<1> DEFINE e == mail[u][1]
<1>1. e \in Envelope /\ 1 \in DOMAIN mail[u] /\ Head(mail[u]) = e
  BY TailIs
<1>2. /\ d \in Outcome /\ Takes(u, d)
      /\ shown' = IF e.kind = "message" /\ d.ok THEN [shown EXCEPT ![u] = @ \cup {e.text}] ELSE shown
      /\ UNCHANGED <<live, texts, left, severed, outbox, asks, ear, hurried, clashed, bundles, shelf>>
  BY DEF Reads
<1>3. e.kind = "message" => /\ e.text \in DOMAIN texts
                            /\ texts[e.text].by = Peer(u) /\ texts[e.text].status = "sent"
  BY <1>1 DEF Fitting, MailFits
<1> HIDE DEF e
<1>4. Peer(u) \in User /\ Peer(u) # u /\ \A v \in User : v = u \/ v = Peer(u)
  BY PeerOf
<1>5. shown \in [User -> SUBSET DOMAIN texts] /\ \A v \in User : \A i \in shown[v] : texts[i].by # v
  BY DEF SessionsTypeOK
<1>6. /\ shown' \in [User -> SUBSET DOMAIN texts] /\ shown'[Peer(u)] = shown[Peer(u)]
      /\ \A i \in shown'[u] : i \in shown[u] \/ (e.kind = "message" /\ i = e.text)
  BY <1>2, <1>3, <1>4, <1>5
<1>7. ShownKnown'
  BY <1>2, <1>3, <1>4, <1>5, <1>6 DEF ShownKnown
<1>8. /\ row' \in [User -> Nat] /\ secrets' \in [User -> SUBSET PreKey] /\ hush' \in [User -> BOOLEAN]
      /\ mail' \in [User -> Seq(Envelope)]
  <2>1. d.row \in Nat /\ d.secrets \in SUBSET PreKey
    BY <1>2 DEF Outcome
  <2> QED BY <1>2, <2>1 DEF Takes, SessionsTypeOK
<1>9. SessionsTypeOK'
  BY <1>2, <1>7, <1>8 DEF SessionsTypeOK, ShownKnown
<1>10. ASSUME NEW v \in User PROVE AskingFits(v)' /\ RowsFit(v)'
  BY <1>2, SameFits DEF Fitting
<1>11. ASSUME NEW v \in User PROVE ShownFits(v)'
  <2>1. CASE v = u
    <3>1. \A i \in shown[u] : texts[i].by = Peer(u) /\ texts[i].status = "sent"
      BY DEF Fitting, ShownFits
    <3> QED BY <1>2, <1>3, <1>6, <2>1, <3>1 DEF ShownFits
  <2>2. CASE v = Peer(u)
    BY <1>2, <1>6, <2>2 DEF Fitting, ShownFits
  <2> QED BY <1>4, <2>1, <2>2
<1>12. MailFits(u)' /\ StoredFirst(u)'
  <2>1. MailFits(u) /\ StoredFirst(u) /\ mail'[u] = Tail(mail[u]) /\ live'[u] = live[u] /\ texts' = texts
    BY <1>2 DEF Fitting, Takes
  <2>2. \A i \in shown'[u] : i \in shown[u] \/ (Head(mail[u]).kind = "message" /\ i = Head(mail[u]).text)
    BY <1>1, <1>6
  <2> QED BY <2>1, <2>2, MailShrinks, OrderShrinks
<1>13. MailFits(Peer(u))' /\ StoredFirst(Peer(u))'
  <2>1. /\ MailFits(Peer(u)) /\ StoredFirst(Peer(u)) /\ live'[Peer(u)] = live[Peer(u)] /\ texts' = texts
        /\ shown'[Peer(u)] = shown[Peer(u)]
    BY <1>2, <1>4, <1>6 DEF Fitting
  <2>2. CASE mail'[Peer(u)] = mail[Peer(u)]
    BY <1>4, <2>1, <2>2, TextsStay, MailStays, OrderStays
  <2>3. CASE mail'[Peer(u)] # mail[Peer(u)]
    <3> DEFINE g == Sealed("reset", 0, 0, FALSE, 0)
    <3>1. g.kind # "message" /\ (g.first <=> g.kind = "repair")
      BY DEF Sealed
    <3>2. PICK f : Posts(Peer(u), g, f) /\ mail'[Peer(u)] = Append(mail[Peer(u)], f)
      BY <1>2, <2>3 DEF Takes
    <3> HIDE DEF g
    <3> QED BY <1>4, <2>1, <3>1, <3>2, PostFits
  <2> QED BY <2>2, <2>3
<1> QED BY <1>4, <1>9, <1>10, <1>11, <1>12, <1>13 DEF Fitting

LEMMA RebuildsFits ==
  ASSUME SessionsTypeOK, Fitting, NEW u \in User, mail[u] # <<>>, mail[u] \in Seq(Envelope),
         Rebuilds(u, mail[u][1])
  PROVE  SessionsTypeOK' /\ Fitting'
<1> DEFINE e == mail[u][1]
<1>1. e \in Envelope /\ e.kept \in BOOLEAN /\ Tail(mail[u]) \in Seq(Envelope)
  BY TailIs, EnvelopeFields
<1>2. /\ row' = [row EXCEPT ![u] = 0]
      /\ outbox' = [outbox EXCEPT ![u] = {}]
      /\ AskBundle(u, "repair", 0, e.kept)
      /\ mail' = [mail EXCEPT ![u] = Tail(mail[u])]
      /\ UNCHANGED <<live, texts, left, severed, secrets, hush, shown>>
  BY DEF Rebuilds
<1> HIDE DEF e
<1>3. /\ asks' \in [User -> Seq(Ask)] /\ ear' \in [User -> 0 .. 4]
      /\ bundles' \in [User -> Seq(PreKey \cup {0})] /\ shelf' \in [User -> SUBSET PreKey]
      /\ hurried' \in BOOLEAN /\ clashed' \in BOOLEAN /\ EarsHeld'
  BY <1>1, <1>2, AskTypes DEF EarsHeld
<1>4. /\ row' \in [User -> Nat] /\ outbox' \in [User -> SUBSET Envelope] /\ mail' \in [User -> Seq(Envelope)]
  BY <1>1, <1>2 DEF SessionsTypeOK
<1>5. SessionsTypeOK'
  BY <1>2, <1>3, <1>4 DEF SessionsTypeOK, EarsHeld
<1>6. TextsFollow(u)
  BY <1>2, TextsStay
<1>7. AskingFits(u)'
  <2>1. AskingFits(u) /\ "repair" \in {"send", "repair"} /\ "repair" # "send" /\ 0 \in Nat
    BY DEF Fitting
  <2> QED BY <1>1, <1>2, <2>1, AskFits
<1>8. \A v \in User : v # u => asks'[v] = asks[v] /\ outbox'[v] = outbox[v] /\ mail'[v] = mail[v]
  BY <1>2 DEF AskBundle, SessionsTypeOK
<1>9. outbox'[u] = {} /\ mail'[u] = Tail(mail[u])
  BY <1>2 DEF SessionsTypeOK
<1>10. ASSUME NEW v \in User
       PROVE  AskingFits(v)' /\ RowsFit(v)' /\ MailFits(v)' /\ ShownFits(v)' /\ StoredFirst(v)'
  <2>1. /\ AskingFits(v) /\ RowsFit(v) /\ MailFits(v) /\ ShownFits(v) /\ StoredFirst(v)
        /\ shown'[v] = shown[v] /\ live'[v] = live[v] /\ texts' = texts
    BY <1>2 DEF Fitting
  <2>2. ShownFits(v)'
    BY <1>6, <2>1, ShownStillFits
  <2>3. CASE v = u
    <3>1. RowsFit(v)'
      BY <1>9, <2>3 DEF RowsFit
    <3>2. MailFits(v)' /\ StoredFirst(v)'
      BY <1>9, <2>1, <2>3, MailShrinks, OrderShrinks
    <3> QED BY <1>7, <2>2, <2>3, <3>1, <3>2
  <2>4. CASE v # u
    BY <1>6, <1>8, <2>1, <2>2, <2>4, OtherFits, MailStays, OrderStays
  <2> QED BY <2>3, <2>4
<1> QED BY <1>5, <1>10 DEF Fitting

-----------------------------------------------------------------------------
(* The theorem about types.                                                *)

LEMMA InitFits == ASSUME SessionsInit PROVE SessionsTypeOK /\ Fitting
<1> USE DEF SessionsInit
<1>1. SessionsTypeOK
  <2>1. left \in [texts : Nat, edits : Nat, cuts : Nat]
    <3>1. Plan \subseteq [texts : Nat, edits : Nat, cuts : Nat] /\ left \in Plan
      BY SessionsAssumption
    <3> DEFINE R == [texts : Nat, edits : Nat, cuts : Nat]
    <3> HIDE DEF R
    <3>2. Plan \subseteq R /\ left \in Plan
      BY <3>1 DEF R
    <3>3. left \in R
      BY <3>2
    <3> QED BY <3>3 DEF R
  <2>2. /\ <<>> \in Seq(Ask) /\ <<>> \in Seq(Envelope) /\ <<>> \in Seq(Text) /\ <<>> \in Seq(PreKey \cup {0})
        /\ DOMAIN texts = {}
    OBVIOUS
  <2>3. /\ live \in [User -> BOOLEAN] /\ hush \in [User -> BOOLEAN] /\ row \in [User -> Nat]
        /\ secrets \in [User -> SUBSET PreKey] /\ shelf \in [User -> SUBSET PreKey]
    OBVIOUS
  <2>4. /\ asks \in [User -> Seq(Ask)] /\ bundles \in [User -> Seq(PreKey \cup {0})]
        /\ mail \in [User -> Seq(Envelope)] /\ texts \in Seq(Text)
    BY <2>2
  <2>5. /\ outbox \in [User -> SUBSET Envelope] /\ ear \in [User -> 0 .. 4] /\ \A u \in User : ear[u] = 0
        /\ hurried \in BOOLEAN /\ clashed \in BOOLEAN /\ severed \subseteq {"link", "reset"}
    <3>1. hurried \in BOOLEAN /\ clashed \in BOOLEAN
      OBVIOUS
    <3>2. severed \subseteq {"link", "reset"}
      OBVIOUS
    <3>3. outbox \in [User -> SUBSET Envelope]
      OBVIOUS
    <3>4. ear \in [User -> 0 .. 4] /\ \A u \in User : ear[u] = 0
      OBVIOUS
    <3> QED BY ONLY <3>1, <3>2, <3>3, <3>4
  <2>6. /\ shown \in [User -> SUBSET DOMAIN texts] /\ \A u \in User : shown[u] = {}
    OBVIOUS
  <2> QED BY ONLY <2>1, <2>3, <2>4, <2>5, <2>6 DEF SessionsTypeOK
<1>2. \A u \in User : /\ DOMAIN asks[u] = {} /\ DOMAIN mail[u] = {} /\ outbox[u] = {} /\ shown[u] = {}
                      /\ Len(mail[u]) = 0 /\ live[u]
  OBVIOUS
<1>3. Fitting
  <2> SUFFICES ASSUME NEW u \in User
               PROVE  AskingFits(u) /\ RowsFit(u) /\ MailFits(u) /\ ShownFits(u) /\ StoredFirst(u)
    BY DEF Fitting
  <2>1. DOMAIN asks[u] = {} /\ DOMAIN mail[u] = {} /\ outbox[u] = {} /\ shown[u] = {} /\ 0 \in 0 .. Len(mail[u]) /\ live[u]
    BY <1>2
  <2>2. AskingFits(u) /\ RowsFit(u) /\ MailFits(u) /\ ShownFits(u)
    BY <2>1 DEF AskingFits, RowsFit, MailFits, ShownFits
  <2>3. StoredFirst(u)
    BY <2>1 DEF StoredFirst
  <2> QED BY <2>2, <2>3
<1> QED BY <1>1, <1>3

LEMMA NextFits ==
  ASSUME SessionsTypeOK, Fitting, [SessionsNext]_sessionVars
  PROVE  SessionsTypeOK' /\ Fitting'
<1>1. CASE UNCHANGED sessionVars
  BY <1>1 DEF sessionVars, SessionsTypeOK, Fitting, AskingFits, RowsFit, MailFits, ShownFits, StoredFirst, Live
<1>2. CASE SessionsNext
  <2>1. PICK u \in User : \/ BundleArrives(u) \/ BundleTimeout(u) \/ FlushText(u) \/ Receive(u)
                          \/ LinkUp(u) \/ CooldownEnds(u) \/ SendText(u) \/ SendEdit(u) \/ LinkDrops(u)
    BY <1>2 DEF SessionsNext, SessionsProgress
  <2>2. CASE Receive(u)
    BY <2>2, ReceiveIs, ReadsFits, RebuildsFits
  <2> QED BY <2>1, <2>2, ArrivesFits, TimeoutFits, FlushFits, LinkUpFits, CooldownFits, SendTextFits,
             SendEditFits, DropsFits
<1> QED BY <1>1, <1>2

\* The sessions, the mail, the outboxes and the calls for bundles always have
\* their types, and every text is where its status says.
THEOREM SessionsTypeCorrect == SessionsSpec => [](SessionsTypeOK /\ Fitting)
<1>1. SessionsInit => SessionsTypeOK /\ Fitting
  BY InitFits
<1>2. SessionsTypeOK /\ Fitting /\ [SessionsNext]_sessionVars => (SessionsTypeOK /\ Fitting)'
  BY NextFits
<1> QED BY <1>1, <1>2, PTL DEF SessionsSpec

-----------------------------------------------------------------------------
(* Prekeys.                                                                *)

LEMMA MailKeysGrow ==
  ASSUME NEW q \in Seq(Envelope), NEW f \in Envelope
  PROVE  /\ \A k : InMail(Append(q, f), k) <=> InMail(q, k) \/ (f.first /\ f.key = k)
         /\ MailApart(q) /\ (f.first /\ f.key # 0 => ~InMail(q, f.key)) => MailApart(Append(q, f))
<1> DEFINE r == Append(q, f)
<1>1. /\ Len(q) \in Nat /\ DOMAIN q = 1 .. Len(q) /\ DOMAIN r = 1 .. (Len(q) + 1)
      /\ \A i \in 1 .. Len(q) : r[i] = q[i]
      /\ r[Len(q) + 1] = f
  BY AppendIs
<1> HIDE DEF r
<1>2. \A i \in DOMAIN r : (i \in DOMAIN q /\ r[i] = q[i]) \/ (i = Len(q) + 1 /\ r[i] = f)
  BY <1>1
<1>3. \A i \in DOMAIN q : i \in DOMAIN r /\ r[i] = q[i]
  BY <1>1
<1>4. Len(q) + 1 \in DOMAIN r /\ r[Len(q) + 1] = f
  BY <1>1
<1>5. \A k : InMail(r, k) <=> InMail(q, k) \/ (f.first /\ f.key = k)
  BY <1>2, <1>3, <1>4 DEF InMail
<1>6. MailApart(q) /\ (f.first /\ f.key # 0 => ~InMail(q, f.key)) => MailApart(r)
  BY <1>2 DEF InMail, MailApart
<1> QED BY <1>5, <1>6 DEF r

LEMMA MailKeysShrink ==
  ASSUME NEW q \in Seq(Envelope), q # <<>>
  PROVE  /\ \A k : InMail(Tail(q), k) => InMail(q, k)
         /\ MailApart(q) => MailApart(Tail(q))
         /\ MailApart(q) /\ q[1].first /\ q[1].key # 0 => ~InMail(Tail(q), q[1].key)
         /\ q[1].first => InMail(q, q[1].key)
<1> DEFINE r == Tail(q)
<1>1. 1 \in DOMAIN q /\ \A i \in DOMAIN r : i \in Nat \ {0} /\ i + 1 \in DOMAIN q /\ r[i] = q[i + 1]
  BY TailIs
<1> HIDE DEF r
<1>2. \A k : InMail(r, k) => InMail(q, k)
  BY <1>1 DEF InMail
<1>3. MailApart(q) => MailApart(r)
  BY <1>1 DEF MailApart
<1>4. MailApart(q) /\ q[1].first /\ q[1].key # 0 => ~InMail(r, q[1].key)
  BY <1>1 DEF MailApart, InMail
<1>5. q[1].first => InMail(q, q[1].key)
  BY <1>1 DEF InMail
<1> QED BY <1>2, <1>3, <1>4, <1>5 DEF r

LEMMA ConcatIs ==
  ASSUME NEW S, NEW a \in Seq(S), NEW b \in Seq(S)
  PROVE  /\ a \o b \in Seq(S) /\ Len(a \o b) = Len(a) + Len(b) /\ DOMAIN (a \o b) = 1 .. (Len(a) + Len(b))
         /\ Len(a) \in Nat /\ Len(b) \in Nat
         /\ \A i \in 1 .. Len(a) : (a \o b)[i] = a[i]
         /\ \A i \in 1 .. Len(b) : (a \o b)[Len(a) + i] = b[i]
  OBVIOUS

LEMMA MailKeysRestored ==
  ASSUME SessionsTypeOK, NEW u \in User, StoredFirst(u), NEW b, Resets(b)
  PROVE  /\ \A k : InMail(b \o Stored(mail[u]), k) => InMail(mail[u], k)
         /\ MailApart(mail[u]) => MailApart(b \o Stored(mail[u]))
<1> DEFINE q == mail[u]
           c == Stored(q)
           r == b \o c
<1>1. PICK n \in 0 .. Len(q) :
        /\ Len(q) \in Nat /\ c \in Seq(Envelope) /\ Len(c) = n
        /\ \A i \in 1 .. n : i \in DOMAIN q /\ c[i] = q[i] /\ q[i].kept
  BY StoredIs
<1>2. /\ b \in Seq(Envelope) /\ Len(b) \in Nat /\ DOMAIN b = 1 .. Len(b)
      /\ \A i \in DOMAIN b : ~b[i].first
  BY DEF Resets
<1> HIDE DEF c
<1>3. /\ Len(r) = Len(b) + n /\ DOMAIN r = 1 .. (Len(b) + n)
      /\ \A i \in 1 .. Len(b) : r[i] = b[i]
      /\ \A i \in 1 .. n : r[Len(b) + i] = c[i]
  <2>1. /\ Len(b \o c) = Len(b) + Len(c) /\ DOMAIN (b \o c) = 1 .. (Len(b) + Len(c))
        /\ \A i \in 1 .. Len(b) : (b \o c)[i] = b[i]
        /\ \A i \in 1 .. Len(c) : (b \o c)[Len(b) + i] = c[i]
    <3>1. b \in Seq(Envelope) /\ c \in Seq(Envelope)
      BY <1>1, <1>2
    <3> QED BY <3>1, ConcatIs
  <2> QED BY <1>1, <2>1
<1> HIDE DEF r, q
<1>4. \A i \in DOMAIN r : r[i].first => i - Len(b) \in DOMAIN q /\ r[i] = q[i - Len(b)]
  <2> SUFFICES ASSUME NEW i \in DOMAIN r, r[i].first
               PROVE  i - Len(b) \in DOMAIN q /\ r[i] = q[i - Len(b)]
    OBVIOUS
  <2>1. i \notin DOMAIN b
    BY <1>2, <1>3
  <2> DEFINE m == i - Len(b)
  <2>2. m \in 1 .. n /\ Len(b) + m = i
    BY <1>1, <1>2, <1>3, <2>1
  <2> HIDE DEF m
  <2>3. r[Len(b) + m] = c[m]
    BY <1>3, <2>2
  <2>4. m \in DOMAIN q /\ c[m] = q[m]
    BY <1>1, <2>2
  <2>5. m \in DOMAIN q /\ r[i] = q[m]
    BY <2>2, <2>3, <2>4
  <2> QED BY <2>5 DEF m
<1>5. \A k : InMail(r, k) => InMail(q, k)
  BY <1>4 DEF InMail
<1>6. ASSUME MailApart(q), NEW i \in DOMAIN r, NEW j \in DOMAIN r,
             r[i].first, r[j].first, r[i].key = r[j].key, r[i].key # 0
      PROVE  i = j
  <2>1. i - Len(b) = j - Len(b)
    BY <1>4, <1>6 DEF MailApart
  <2> QED BY <1>2, <1>3, <2>1
<1>7. MailApart(q) => MailApart(r)
  BY <1>6 DEF MailApart
<1> QED BY <1>5, <1>7 DEF r, q, c

LEMMA BundlesGrow ==
  ASSUME NEW q \in Seq(PreKey \cup {0}), NEW x \in PreKey \cup {0}
  PROVE  /\ \A k : InBundles(Append(q, x), k) <=> InBundles(q, k) \/ x = k
         /\ BundlesApart(q) /\ (x # 0 => ~InBundles(q, x)) => BundlesApart(Append(q, x))
<1> DEFINE r == Append(q, x)
<1>1. /\ Len(q) \in Nat /\ DOMAIN q = 1 .. Len(q) /\ DOMAIN r = 1 .. (Len(q) + 1)
      /\ \A i \in 1 .. Len(q) : r[i] = q[i]
      /\ r[Len(q) + 1] = x
  BY AppendIs
<1> HIDE DEF r
<1>2. \A i \in DOMAIN r : (i \in DOMAIN q /\ r[i] = q[i]) \/ (i = Len(q) + 1 /\ r[i] = x)
  BY <1>1
<1>3. \A i \in DOMAIN q : i \in DOMAIN r /\ r[i] = q[i]
  BY <1>1
<1>4. Len(q) + 1 \in DOMAIN r /\ r[Len(q) + 1] = x
  BY <1>1
<1>5. \A k : InBundles(r, k) <=> InBundles(q, k) \/ x = k
  BY <1>2, <1>3, <1>4 DEF InBundles
<1>6. BundlesApart(q) /\ (x # 0 => ~InBundles(q, x)) => BundlesApart(r)
  BY <1>2 DEF InBundles, BundlesApart
<1> QED BY <1>5, <1>6 DEF r

LEMMA BundlesShrink ==
  ASSUME NEW q \in Seq(PreKey \cup {0}), NEW n \in DOMAIN q
  PROVE  LET r == RemoveAt(q, n) IN
         /\ \A k : InBundles(r, k) => InBundles(q, k)
         /\ BundlesApart(q) => BundlesApart(r)
         /\ BundlesApart(q) /\ q[n] # 0 => ~InBundles(r, q[n])
         /\ InBundles(q, q[n])
<1> DEFINE r == RemoveAt(q, n)
           h(j) == IF j < n THEN j ELSE j + 1
<1>1. /\ Len(q) \in Nat /\ DOMAIN q = 1 .. Len(q) /\ DOMAIN r = 1 .. (Len(q) - 1)
      /\ \A j \in DOMAIN r : r[j] = IF j < n THEN q[j] ELSE q[j + 1]
  BY RemoveIs
<1> HIDE DEF r
<1>2. \A j \in DOMAIN r : j \in Nat /\ h(j) \in DOMAIN q /\ h(j) # n /\ r[j] = q[h(j)]
  BY <1>1
<1>3. \A i, j \in DOMAIN r : h(i) = h(j) => i = j
  BY <1>1
<1> HIDE DEF h
<1>4. \A k : InBundles(r, k) => InBundles(q, k)
  BY <1>2 DEF InBundles
<1>5. BundlesApart(q) => BundlesApart(r)
  BY <1>2, <1>3 DEF BundlesApart
<1>6. BundlesApart(q) /\ q[n] # 0 => ~InBundles(r, q[n])
  BY <1>2 DEF BundlesApart, InBundles
<1>7. InBundles(q, q[n])
  BY DEF InBundles
<1> QED BY <1>4, <1>5, <1>6, <1>7 DEF r

\* What is put into an outbox brings one key at most.
LEMMA OutboxKeys ==
  ASSUME NEW o, NEW m
  PROVE  /\ \A k : InOutbox(Enqueued(o, {m}), k) => InOutbox(o, k) \/ (m.first /\ m.key = k)
         /\ OutboxApart(o) /\ (m.first /\ m.key # 0 => ~InOutbox(o, m.key)) => OutboxApart(Enqueued(o, {m}))
<1> DEFINE p == Enqueued(o, {m})
<1>1. \A e \in p : e \in o \/ e = m
  BY DEF Enqueued
<1> HIDE DEF p
<1>2. \A k : InOutbox(p, k) => InOutbox(o, k) \/ (m.first /\ m.key = k)
  BY <1>1 DEF InOutbox
<1>3. OutboxApart(o) /\ (m.first /\ m.key # 0 => ~InOutbox(o, m.key)) => OutboxApart(p)
  BY <1>1 DEF InOutbox, OutboxApart
<1> QED BY <1>2, <1>3 DEF p

LEMMA OutboxKeysFewer ==
  ASSUME NEW o, NEW p, \A e \in p : e.first => e \in o
  PROVE  (\A k : InOutbox(p, k) => InOutbox(o, k)) /\ (OutboxApart(o) => OutboxApart(p))
  BY DEF InOutbox, OutboxApart

\* The places of one pair of users: a key moves, or none does.
LEMMA HeldIs ==
  ASSUME SessionsTypeOK, KeysAreHeld, NEW u \in User
  PROVE  /\ Held(shelf[Peer(u)], secrets[Peer(u)], mail[Peer(u)], outbox[u], bundles[u])
         /\ Held(shelf[u], secrets[u], mail[u], outbox[Peer(u)], bundles[Peer(u)])
         /\ mail[u] \in Seq(Envelope) /\ mail[Peer(u)] \in Seq(Envelope)
         /\ bundles[u] \in Seq(PreKey \cup {0}) /\ 0 \notin PreKey
         /\ Peer(u) \in User /\ Peer(u) # u
<1>1. Peer(u) \in User /\ Peer(u) # u /\ Peer(Peer(u)) = u
  BY PeerOf
<1>2. KeysHeld(u) /\ KeysHeld(Peer(u))
  BY <1>1 DEF KeysAreHeld
<1>3. mail[u] \in Seq(Envelope) /\ mail[Peer(u)] \in Seq(Envelope) /\ bundles[u] \in Seq(PreKey \cup {0})
  BY <1>1 DEF SessionsTypeOK
<1> QED BY <1>1, <1>2, <1>3, SessionsAssumption DEF KeysHeld

LEMMA HeldSo ==
  ASSUME NEW u \in User,
         Held(shelf'[Peer(u)], secrets'[Peer(u)], mail'[Peer(u)], outbox'[u], bundles'[u]),
         Held(shelf'[u], secrets'[u], mail'[u], outbox'[Peer(u)], bundles'[Peer(u)])
  PROVE  KeysAreHeld'
<1>1. /\ Peer(u) \in User /\ Peer(u) # u /\ Peer(Peer(u)) = u
      /\ \A v \in User : v = u \/ v = Peer(u)
  BY PeerOf
<1>2. KeysHeld(u)' /\ KeysHeld(Peer(u))'
  BY <1>1 DEF KeysHeld
<1> QED BY <1>1, <1>2 DEF KeysAreHeld

\* Fewer places hold keys.
LEMMA HeldFewer ==
  ASSUME NEW sh, NEW se, NEW q, NEW o, NEW b, NEW q2, NEW o2, NEW b2, Held(sh, se, q, o, b),
         \A k : InMail(q2, k) => InMail(q, k), \A k : InOutbox(o2, k) => InOutbox(o, k),
         \A k : InBundles(b2, k) => InBundles(b, k), MailApart(q2), OutboxApart(o2), BundlesApart(b2)
  PROVE  Held(sh, se, q2, o2, b2)
  BY DEF Held

\* A caller is answered: the key goes from its bundle into the outbox or into
\* the mail of its owner.
KeyMoves(u, k) ==
  /\ OutboxApart(outbox'[u]) /\ MailApart(mail'[Peer(u)])
  /\ \/ /\ \A x : InOutbox(outbox'[u], x) => InOutbox(outbox[u], x) \/ x = k
        /\ mail'[Peer(u)] = mail[Peer(u)]
     \/ /\ \A x : InMail(mail'[Peer(u)], x) => InMail(mail[Peer(u)], x) \/ x = k
        /\ \A x : InOutbox(outbox'[u], x) => InOutbox(outbox[u], x)
  /\ outbox'[Peer(u)] = outbox[Peer(u)]

LEMMA ResolvesKeys ==
  ASSUME SessionsTypeOK, Fitting, NEW u \in User, NEW i, NEW k \in PreKey \cup {0}, NEW s \in Nat, NEW up,
         NEW post \in [User -> Seq(Envelope)], Resolves(u, i, k, s, up, post), post[Peer(u)] = mail[Peer(u)],
         OutboxApart(outbox[u]), MailApart(mail[Peer(u)]),
         k # 0 => ~InOutbox(outbox[u], k) /\ ~InMail(mail[Peer(u)], k)
  PROVE  KeyMoves(u, k) /\ mail'[u] = post[u]
<1> DEFINE a == asks[u][i]
<1>1. Finishes(u, a, s, k, up, post) /\ i \in DOMAIN asks[u]
  BY DEF Resolves
<1>2. a \in Ask
  BY <1>1 DEF SessionsTypeOK
<1>3. Peer(u) \in User /\ Peer(u) # u
  BY PeerOf
<1>4. outbox \in [User -> SUBSET Envelope] /\ mail[Peer(u)] \in Seq(Envelope)
  BY <1>3 DEF SessionsTypeOK
<1> HIDE DEF a
<1>5. MailTells(u, s, k, post)
  BY <1>1, <1>2, FinishMail
<1>6. mail'[u] = post[u]
  BY <1>3, <1>5 DEF MailTells
<1>7. CASE Starts(u, a.text, s, k, post)
  <2> DEFINE m == Sealed("message", a.text, s, TRUE, k)
  <2>1. m.first /\ m.key = k
    BY DEF Sealed
  <2>2. outbox'[u] = Enqueued(outbox[u], {m}) /\ outbox'[Peer(u)] = outbox[Peer(u)]
    BY <1>3, <1>4, <1>7 DEF Starts
  <2>3. mail'[Peer(u)] = mail[Peer(u)]
    BY <1>7 DEF Starts
  <2> HIDE DEF m
  <2>4. /\ \A x : InOutbox(outbox'[u], x) => InOutbox(outbox[u], x) \/ x = k
        /\ OutboxApart(outbox'[u])
    BY <2>1, <2>2, OutboxKeys
  <2> QED BY <1>6, <2>2, <2>3, <2>4 DEF KeyMoves
<1>8. CASE Repairs(u, s, k, post)
  <2>1. outbox'[u] = Enqueued(outbox[u], Again(u, s)) /\ outbox'[Peer(u)] = outbox[Peer(u)]
    BY <1>3, <1>4, <1>8 DEF Repairs
  <2>2. \A e \in outbox'[u] : e.first => e \in outbox[u]
    BY <2>1, AgainIs DEF Enqueued
  <2>3. OutboxApart(outbox'[u]) /\ \A x : InOutbox(outbox'[u], x) => InOutbox(outbox[u], x)
    BY <2>2, OutboxKeysFewer
  <2>4. CASE mail'[Peer(u)] = mail[Peer(u)]
    BY <1>6, <2>1, <2>3, <2>4 DEF KeyMoves
  <2>5. CASE mail'[Peer(u)] # mail[Peer(u)]
    <3>1. PICK e \in Envelope : e.key = k /\ e.first /\ mail'[Peer(u)] = Append(mail[Peer(u)], e)
      BY <1>5, <2>5 DEF MailTells
    <3>2. MailApart(mail'[Peer(u)]) /\ \A x : InMail(mail'[Peer(u)], x) => InMail(mail[Peer(u)], x) \/ x = k
      BY <1>4, <3>1, MailKeysGrow
    <3> QED BY <1>6, <2>1, <2>3, <3>2 DEF KeyMoves
  <2> QED BY <2>4, <2>5
<1>9. CASE Throws(post)
  BY <1>6, <1>9 DEF Throws, KeyMoves
<1> QED BY <1>1, <1>7, <1>8, <1>9 DEF Finishes

LEMMA ArrivesKeys ==
  ASSUME SessionsTypeOK, Fitting, KeysAreHeld, NEW u \in User, BundleArrives(u) PROVE KeysAreHeld'
<1> DEFINE p == Peer(u)
<1>1. PICK n \in DOMAIN bundles[u] :
        /\ bundles[u][n] \in PreKey \cup {0} /\ bundles' = [bundles EXCEPT ![u] = RemoveAt(@, n)]
        /\ \/ UNCHANGED <<asks, ear, row, outbox, texts, mail>>
           \/ \E i \in DOMAIN asks[u], s \in Nat \ {0} : Resolves(u, i, bundles[u][n], s, TRUE, mail)
        /\ UNCHANGED <<live, secrets, shelf, hush, shown, left, hurried, clashed, severed>>
  BY ArrivesIs
<1>2. /\ Held(shelf[p], secrets[p], mail[p], outbox[u], bundles[u])
      /\ Held(shelf[u], secrets[u], mail[u], outbox[p], bundles[p])
      /\ bundles[u] \in Seq(PreKey \cup {0}) /\ p \in User /\ p # u /\ 0 \notin PreKey
  BY HeldIs
<1> DEFINE k == bundles[u][n]
           r == RemoveAt(bundles[u], n)
<1>3. /\ \A x : InBundles(r, x) => InBundles(bundles[u], x)
      /\ BundlesApart(r) /\ (k # 0 => ~InBundles(r, k)) /\ InBundles(bundles[u], k)
  BY <1>2, BundlesShrink DEF Held
<1>4. bundles'[u] = r /\ bundles'[p] = bundles[p] /\ shelf' = shelf /\ secrets' = secrets /\ k \in PreKey \cup {0}
  BY <1>1, <1>2 DEF SessionsTypeOK
<1>5. ASSUME UNCHANGED <<asks, ear, row, outbox, texts, mail>> PROVE KeysAreHeld'
  <2>1. Held(shelf[p], secrets[p], mail[p], outbox[u], r)
    BY <1>2, <1>3 DEF Held
  <2> QED BY <1>2, <1>4, <1>5, <2>1, HeldSo
<1>6. ASSUME NEW i \in DOMAIN asks[u], NEW s \in Nat \ {0}, Resolves(u, i, k, s, TRUE, mail) PROVE KeysAreHeld'
  <2>1. mail \in [User -> Seq(Envelope)] /\ s \in Nat
    BY DEF SessionsTypeOK
  <2>2. /\ OutboxApart(outbox[u]) /\ MailApart(mail[p])
        /\ k # 0 => ~InOutbox(outbox[u], k) /\ ~InMail(mail[p], k)
    BY <1>2, <1>3, <1>4 DEF Held
  <2> HIDE DEF k, r
  <2>3. KeyMoves(u, k) /\ mail'[u] = mail[u]
    BY <1>4, <1>6, <2>1, <2>2, ResolvesKeys
  <2>4. Held(shelf[p], secrets[p], mail'[p], outbox'[u], r)
    BY <1>2, <1>3, <2>3 DEF Held, KeyMoves
  <2> QED BY <1>2, <1>4, <2>3, <2>4, HeldSo DEF KeyMoves
<1> QED BY <1>1, <1>5, <1>6

LEMMA TimeoutKeys ==
  ASSUME SessionsTypeOK, Fitting, KeysAreHeld, NEW u \in User, BundleTimeout(u) PROVE KeysAreHeld'
<1> DEFINE p == Peer(u)
<1>1. /\ \/ UNCHANGED <<row, outbox, texts, mail>>
         \/ \E s \in Nat \ {0} : Resolves(u, 1, 0, s, live[u], mail)
      /\ UNCHANGED <<live, secrets, shelf, bundles, hush, shown, left, hurried, clashed, severed>>
  BY TimeoutIs
<1>2. /\ Held(shelf[p], secrets[p], mail[p], outbox[u], bundles[u])
      /\ Held(shelf[u], secrets[u], mail[u], outbox[p], bundles[p])
      /\ p \in User /\ p # u /\ 0 \notin PreKey
  BY HeldIs
<1>3. CASE UNCHANGED <<row, outbox, texts, mail>>
  BY <1>1, <1>2, <1>3, HeldSo
<1>4. ASSUME NEW s \in Nat \ {0}, Resolves(u, 1, 0, s, live[u], mail) PROVE KeysAreHeld'
  <2>1. mail \in [User -> Seq(Envelope)] /\ s \in Nat /\ 0 \in PreKey \cup {0}
    BY DEF SessionsTypeOK
  <2>2. OutboxApart(outbox[u]) /\ MailApart(mail[p])
    BY <1>2 DEF Held
  <2>3. KeyMoves(u, 0) /\ mail'[u] = mail[u]
    BY <1>4, <2>1, <2>2, ResolvesKeys
  <2>4. Held(shelf[p], secrets[p], mail'[p], outbox'[u], bundles[u])
    BY <1>2, <2>3 DEF Held, KeyMoves
  <2> QED BY <1>1, <1>2, <2>3, <2>4, HeldSo DEF KeyMoves
<1> QED BY <1>1, <1>3, <1>4

LEMMA DropsKeys ==
  ASSUME SessionsTypeOK, Fitting, KeysAreHeld, NEW u \in User, LinkDrops(u) PROVE KeysAreHeld'
<1> DEFINE p == Peer(u)
<1>1. PICK b : LET kept == [mail EXCEPT ![u] = b \o Stored(mail[u])] IN
           /\ Drops(u, b)
           /\ mail' = kept
           /\ \/ UNCHANGED <<asks, ear, row, outbox, texts>>
              \/ \E i \in DOMAIN asks[u], s \in Nat \ {0} : Resolves(u, i, 0, s, FALSE, kept)
  BY DropsIs
<1> DEFINE kept == [mail EXCEPT ![u] = b \o Stored(mail[u])]
<1>2. /\ Held(shelf[p], secrets[p], mail[p], outbox[u], bundles[u])
      /\ Held(shelf[u], secrets[u], mail[u], outbox[p], bundles[p])
      /\ p \in User /\ p # u /\ 0 \notin PreKey
  BY HeldIs
<1>3. mail \in [User -> Seq(Envelope)] /\ Resets(b) /\ StoredFirst(u)
  BY <1>1 DEF SessionsTypeOK, Drops, Fitting
<1>4. /\ bundles'[u] = <<>> /\ bundles'[p] = bundles[p] /\ shelf' = shelf /\ secrets' = secrets
  BY <1>1, <1>2 DEF SessionsTypeOK, Drops
<1>5. /\ (\A x : InMail(mail'[u], x) => InMail(mail[u], x)) /\ MailApart(mail'[u])
      /\ mail'[p] = mail[p]
  <2>1. mail'[u] = b \o Stored(mail[u]) /\ mail'[p] = mail[p]
    BY <1>1, <1>2, <1>3
  <2> QED BY <1>2, <1>3, <2>1, MailKeysRestored DEF Held
<1>6. /\ OutboxApart(outbox'[u]) /\ outbox'[p] = outbox[p]
      /\ \A x : InOutbox(outbox'[u], x) => InOutbox(outbox[u], x) \/ x = 0
  <2>1. CASE UNCHANGED <<asks, ear, row, outbox, texts>>
    BY <1>2, <2>1 DEF Held
  <2>2. ASSUME NEW i \in DOMAIN asks[u], NEW s \in Nat \ {0}, Resolves(u, i, 0, s, FALSE, kept)
        PROVE  /\ OutboxApart(outbox'[u]) /\ outbox'[p] = outbox[p]
               /\ \A x : InOutbox(outbox'[u], x) => InOutbox(outbox[u], x) \/ x = 0
    <3>1. kept \in [User -> Seq(Envelope)]
      <4>1. Stored(mail[u]) \in Seq(Envelope) /\ b \in Seq(Envelope)
        BY <1>3, StoredIs DEF Resets
      <4>2. b \o Stored(mail[u]) \in Seq(Envelope)
        BY <4>1
      <4> QED BY <1>3, <4>2
    <3>2. kept[p] = mail[p] /\ OutboxApart(outbox[u]) /\ MailApart(mail[p]) /\ s \in Nat /\ 0 \in PreKey \cup {0}
      BY <1>2, <1>3 DEF Held
    <3> HIDE DEF kept
    <3>3. KeyMoves(u, 0)
      BY <2>2, <3>1, <3>2, ResolvesKeys
    <3> QED BY <3>3 DEF KeyMoves
  <2> QED BY <1>1, <2>1, <2>2
<1> HIDE DEF p, kept
<1>7. \A x : ~InBundles(<<>>, x)
  BY DEF InBundles
<1>8. BundlesApart(<<>>)
  BY DEF BundlesApart
<1>9. Held(shelf[p], secrets[p], mail[p], outbox'[u], <<>>)
  BY <1>2, <1>6, <1>7, <1>8 DEF Held
<1>10. Held(shelf[u], secrets[u], mail'[u], outbox[p], bundles[p])
  BY <1>2, <1>5 DEF Held
<1> QED BY <1>4, <1>5, <1>6, <1>9, <1>10, HeldSo DEF p

LEMMA AskKeys ==
  ASSUME SessionsTypeOK, KeysAreHeld, NEW u \in User, NEW for, NEW text, NEW kept, AskBundle(u, for, text, kept)
  PROVE  /\ Held(shelf'[Peer(u)], secrets[Peer(u)], mail[Peer(u)], outbox[u], bundles'[u])
         /\ shelf'[u] = shelf[u] /\ bundles'[Peer(u)] = bundles[Peer(u)]
<1> DEFINE p == Peer(u)
<1>1. PICK id \in 1 .. 4, k \in PreKey \cup {0} :
        (k # 0 => k \in shelf[p]) /\ Asks(u, for, text, kept, id, k)
  BY AskIs
<1>2. /\ Held(shelf[p], secrets[p], mail[p], outbox[u], bundles[u])
      /\ bundles[u] \in Seq(PreKey \cup {0}) /\ p \in User /\ p # u /\ 0 \notin PreKey
  BY HeldIs
<1>3. bundles' = [bundles EXCEPT ![u] = Append(bundles[u], k)] /\ shelf' = [shelf EXCEPT ![p] = shelf[p] \ {k}]
  BY <1>1 DEF Asks
<1>4. /\ bundles'[u] = Append(bundles[u], k) /\ bundles'[p] = bundles[p]
      /\ shelf'[p] = shelf[p] \ {k} /\ shelf'[u] = shelf[u]
  BY <1>2, <1>3 DEF SessionsTypeOK
<1>5. k # 0 => k \in secrets[p] /\ ~InMail(mail[p], k) /\ ~InOutbox(outbox[u], k) /\ ~InBundles(bundles[u], k)
  <2>1. k # 0 => k \in PreKey
    OBVIOUS
  <2> QED BY <1>1, <1>2, <2>1 DEF Held
<1>6. /\ \A x : InBundles(bundles'[u], x) <=> InBundles(bundles[u], x) \/ k = x
      /\ BundlesApart(bundles'[u])
  <2>1. BundlesApart(bundles[u])
    BY <1>2 DEF Held
  <2> QED BY <1>2, <1>4, <1>5, <2>1, BundlesGrow
<1>7. Held(shelf'[p], secrets[p], mail[p], outbox[u], bundles'[u])
  <2>1. k # 0 => \A x \in PreKey : x = k => x \notin shelf'[p] /\ x \in secrets[p]
    BY <1>4, <1>5
  <2>2. shelf'[p] \subseteq shelf[p]
    BY <1>4
  <2> HIDE DEF p
  <2> QED BY <1>2, <1>5, <1>6, <2>1, <2>2 DEF Held
<1> QED BY <1>4, <1>7

LEMMA SendTextKeys ==
  ASSUME SessionsTypeOK, Fitting, KeysAreHeld, NEW u \in User, SendText(u) PROVE KeysAreHeld'
<1> DEFINE p == Peer(u)
<1>1. UNCHANGED <<secrets, mail>> /\ p \in User /\ p # u
  BY PeerOf DEF SendText
<1>2. /\ Held(shelf[p], secrets[p], mail[p], outbox[u], bundles[u])
      /\ Held(shelf[u], secrets[u], mail[u], outbox[p], bundles[p])
  BY HeldIs
<1>3. CASE row[u] # 0
  <2> DEFINE e == Sealed("message", Len(texts) + 1, row[u], FALSE, 0)
  <2>1. outbox' = [outbox EXCEPT ![u] = Enqueued(@, {e})] /\ UNCHANGED <<bundles, shelf>>
    BY <1>3 DEF SendText
  <2>2. ~e.first
    BY DEF Sealed
  <2> HIDE DEF e
  <2>3. outbox'[u] = Enqueued(outbox[u], {e}) /\ outbox'[p] = outbox[p]
    BY <1>1, <2>1 DEF SessionsTypeOK
  <2>4. \A f \in outbox'[u] : f.first => f \in outbox[u]
    BY <2>2, <2>3 DEF Enqueued
  <2>5. (\A k : InOutbox(outbox'[u], k) => InOutbox(outbox[u], k)) /\ OutboxApart(outbox'[u])
    BY <1>2, <2>4, OutboxKeysFewer DEF Held
  <2>6. Held(shelf[p], secrets[p], mail[p], outbox'[u], bundles[u])
    BY <1>2, <2>5 DEF Held
  <2> QED BY <1>1, <1>2, <2>1, <2>3, <2>6, HeldSo
<1>4. CASE row[u] = 0
  <2>1. AskBundle(u, "send", Len(texts) + 1, FALSE) /\ outbox' = outbox
    BY <1>4 DEF SendText
  <2>2. Held(shelf'[p], secrets[p], mail[p], outbox[u], bundles'[u]) /\ shelf'[u] = shelf[u] /\ bundles'[p] = bundles[p]
    BY <2>1, AskKeys
  <2> QED BY <1>1, <1>2, <2>1, <2>2, HeldSo
<1> QED BY <1>3, <1>4

LEMMA FlushKeys ==
  ASSUME SessionsTypeOK, Fitting, KeysAreHeld, NEW u \in User, FlushText(u) PROVE KeysAreHeld'
<1> DEFINE p == Peer(u)
<1>1. PICK e, f : Flushes(u, e, f)
  BY FlushIs
<1>2. /\ Held(shelf[p], secrets[p], mail[p], outbox[u], bundles[u])
      /\ Held(shelf[u], secrets[u], mail[u], outbox[p], bundles[p])
      /\ p \in User /\ p # u /\ mail[p] \in Seq(Envelope)
  BY HeldIs
<1>3. /\ e \in outbox[u] /\ f \in Envelope /\ f.key = e.key /\ (f.first <=> e.first)
      /\ mail' = [mail EXCEPT ![p] = Append(mail[p], f)]
      /\ outbox' = [outbox EXCEPT ![u] = outbox[u] \ {e}]
      /\ UNCHANGED <<secrets, shelf, bundles>>
  BY <1>1 DEF Flushes, Posts
<1>4. /\ mail'[p] = Append(mail[p], f) /\ mail'[u] = mail[u]
      /\ outbox'[u] = outbox[u] \ {e} /\ outbox'[p] = outbox[p]
  BY <1>2, <1>3 DEF SessionsTypeOK
<1>5. /\ \A k : InOutbox(outbox'[u], k) => InOutbox(outbox[u], k)
      /\ OutboxApart(outbox'[u])
  <2>1. \A g \in outbox'[u] : g.first => g \in outbox[u]
    BY <1>4
  <2> QED BY <1>2, <2>1, OutboxKeysFewer DEF Held
<1>6. f.first => InOutbox(outbox[u], f.key) /\ (f.key # 0 => ~InOutbox(outbox'[u], f.key))
  BY <1>2, <1>3, <1>4 DEF Held, InOutbox, OutboxApart
<1>7. f.first /\ f.key # 0 => f.key \in PreKey /\ ~InMail(mail[p], f.key)
  <2>1. f.key \in PreKey \cup {0}
    BY <1>3, EnvelopeFields
  <2> QED BY <1>2, <1>6, <2>1 DEF Held
<1>8. /\ \A k : InMail(mail'[p], k) <=> InMail(mail[p], k) \/ (f.first /\ f.key = k)
      /\ MailApart(mail'[p])
  <2>1. MailApart(mail[p])
    BY <1>2 DEF Held
  <2> QED BY <1>2, <1>3, <1>4, <1>7, <2>1, MailKeysGrow
<1> HIDE DEF p
<1>9. \A k \in PreKey : f.first /\ f.key = k => InOutbox(outbox[u], k) /\ ~InOutbox(outbox'[u], k)
  <2>1. 0 \notin PreKey
    BY SessionsAssumption
  <2> QED BY <1>6, <2>1
<1>10. Held(shelf[p], secrets[p], mail'[p], outbox'[u], bundles[u])
  BY <1>2, <1>5, <1>8, <1>9 DEF Held
<1> QED BY <1>2, <1>3, <1>4, <1>10, HeldSo DEF p

\* Something that begins no session is posted to v.
LEMMA PostKeys ==
  ASSUME SessionsTypeOK, NEW v \in User, NEW e, ~e.first, NEW f, Posts(v, e, f), NEW sh, NEW se, NEW o, NEW b,
         Held(sh, se, mail[v], o, b)
  PROVE  Held(sh, se, Append(mail[v], f), o, b)
<1>1. f \in Envelope /\ ~f.first /\ mail[v] \in Seq(Envelope)
  BY DEF Posts, SessionsTypeOK
<1>2. /\ \A k : InMail(Append(mail[v], f), k) <=> InMail(mail[v], k)
      /\ MailApart(mail[v]) => MailApart(Append(mail[v], f))
  BY <1>1, MailKeysGrow
<1> QED BY <1>2 DEF Held

LEMMA SendEditKeys ==
  ASSUME SessionsTypeOK, Fitting, KeysAreHeld, NEW u \in User, SendEdit(u) PROVE KeysAreHeld'
<1> DEFINE p == Peer(u)
<1>1. PICK e \in Envelope : \E f :
           /\ ~e.first /\ Posts(p, e, f)
           /\ mail' = [mail EXCEPT ![p] = Append(mail[p], f)]
           /\ UNCHANGED <<secrets, shelf, bundles, outbox>>
  BY SendEditIs
<1>2. PICK f : /\ ~e.first /\ Posts(p, e, f)
               /\ mail' = [mail EXCEPT ![p] = Append(mail[p], f)]
               /\ UNCHANGED <<secrets, shelf, bundles, outbox>>
  BY <1>1
<1>3. /\ Held(shelf[p], secrets[p], mail[p], outbox[u], bundles[u])
      /\ Held(shelf[u], secrets[u], mail[u], outbox[p], bundles[p])
      /\ p \in User /\ p # u
  BY HeldIs
<1>4. mail'[p] = Append(mail[p], f) /\ mail'[u] = mail[u]
  BY <1>2, <1>3 DEF SessionsTypeOK
<1>5. Held(shelf[p], secrets[p], mail'[p], outbox[u], bundles[u])
  BY <1>2, <1>3, <1>4, PostKeys
<1> QED BY <1>2, <1>3, <1>4, <1>5, HeldSo

\* What is read is taken out; its key is spent and is nowhere else.
LEMMA ReadsKeys ==
  ASSUME SessionsTypeOK, Fitting, KeysAreHeld, NEW u \in User, mail[u] # <<>>, NEW d, Reads(u, mail[u][1], d)
  PROVE  KeysAreHeld'
<1> DEFINE p == Peer(u)
           e == mail[u][1]
<1>1. /\ Held(shelf[p], secrets[p], mail[p], outbox[u], bundles[u])
      /\ Held(shelf[u], secrets[u], mail[u], outbox[p], bundles[p])
      /\ p \in User /\ p # u /\ mail[u] \in Seq(Envelope) /\ 0 \notin PreKey
  BY HeldIs
<1>2. Takes(u, d) /\ UNCHANGED <<outbox, bundles, shelf>>
  BY DEF Reads
<1>3. /\ d.secrets = secrets[u] \/ (d.secrets = secrets[u] \ {e.key} /\ Answerable(u, e))
      /\ secrets' = [secrets EXCEPT ![u] = d.secrets]
  BY <1>2 DEF Reads, Takes
<1>4. secrets'[u] = d.secrets /\ secrets'[p] = secrets[p]
  BY <1>1, <1>3 DEF SessionsTypeOK
<1>5. /\ \A k : InMail(Tail(mail[u]), k) => InMail(mail[u], k)
      /\ MailApart(Tail(mail[u]))
      /\ e.first => InMail(mail[u], e.key) /\ (e.key # 0 => ~InMail(Tail(mail[u]), e.key))
  <2>1. MailApart(mail[u])
    BY <1>1 DEF Held
  <2> QED BY <1>1, <2>1, MailKeysShrink
<1>6. \A k \in PreKey : k \notin secrets'[u] /\ k \in secrets[u] =>
        e.first /\ k = e.key /\ k # 0
  BY <1>1, <1>3, <1>4 DEF Answerable
<1> HIDE DEF e
<1>7. Held(shelf[u], secrets'[u], Tail(mail[u]), outbox[p], bundles[p])
  <2>1. \A k \in PreKey : k \notin secrets'[u] /\ k \in secrets[u] =>
          /\ InMail(mail[u], k) /\ ~InMail(Tail(mail[u]), k)
          /\ ~InOutbox(outbox[p], k) /\ ~InBundles(bundles[p], k) /\ k \notin shelf[u]
    BY <1>1, <1>5, <1>6 DEF Held
  <2>2. shelf[u] \subseteq PreKey
    BY DEF SessionsTypeOK
  <2>3. shelf[u] \subseteq secrets'[u]
    BY <1>1, <2>1, <2>2 DEF Held
  <2> HIDE DEF p
  <2> QED BY <1>1, <1>5, <2>1, <2>3 DEF Held
<1>8. mail'[u] = Tail(mail[u])
  BY <1>2 DEF Takes
<1>9. Held(shelf[p], secrets[p], mail'[p], outbox[u], bundles[u])
  <2>1. CASE mail'[p] = mail[p]
    BY <1>1, <2>1
  <2>2. CASE mail'[p] # mail[p]
    <3> DEFINE g == Sealed("reset", 0, 0, FALSE, 0)
    <3>1. ~g.first
      BY DEF Sealed
    <3>2. PICK f : Posts(p, g, f) /\ mail'[p] = Append(mail[p], f)
      BY <1>2, <2>2 DEF Takes
    <3> HIDE DEF g
    <3> QED BY <1>1, <3>1, <3>2, PostKeys
  <2> QED BY <2>1, <2>2
<1> QED BY <1>1, <1>2, <1>4, <1>7, <1>8, <1>9, HeldSo

LEMMA RebuildsKeys ==
  ASSUME SessionsTypeOK, Fitting, KeysAreHeld, NEW u \in User, mail[u] # <<>>, Rebuilds(u, mail[u][1])
  PROVE  KeysAreHeld'
<1> DEFINE p == Peer(u)
<1>1. /\ Held(shelf[u], secrets[u], mail[u], outbox[p], bundles[p])
      /\ p \in User /\ p # u /\ mail[u] \in Seq(Envelope)
  BY HeldIs
<1>2. /\ outbox' = [outbox EXCEPT ![u] = {}]
      /\ AskBundle(u, "repair", 0, mail[u][1].kept)
      /\ mail' = [mail EXCEPT ![u] = Tail(mail[u])]
      /\ UNCHANGED secrets
  BY DEF Rebuilds
<1>3. Held(shelf'[p], secrets[p], mail[p], outbox[u], bundles'[u]) /\ shelf'[u] = shelf[u] /\ bundles'[p] = bundles[p]
  BY <1>2, AskKeys
<1>4. outbox'[u] = {} /\ outbox'[p] = outbox[p] /\ mail'[u] = Tail(mail[u]) /\ mail'[p] = mail[p]
  BY <1>1, <1>2 DEF SessionsTypeOK
<1>5. (\A k : ~InOutbox({}, k)) /\ OutboxApart({})
  BY DEF InOutbox, OutboxApart
<1>6. Held(shelf'[p], secrets[p], mail[p], {}, bundles'[u])
  BY <1>3, <1>5 DEF Held
<1>7. /\ \A k : InMail(Tail(mail[u]), k) => InMail(mail[u], k)
      /\ MailApart(Tail(mail[u]))
  BY <1>1, MailKeysShrink DEF Held
<1>8. Held(shelf[u], secrets[u], Tail(mail[u]), outbox[p], bundles[p])
  BY <1>1, <1>7 DEF Held
<1> QED BY <1>2, <1>3, <1>4, <1>6, <1>8, HeldSo

LEMMA LinkUpKeys ==
  ASSUME SessionsTypeOK, KeysAreHeld, NEW u \in User, LinkUp(u) PROVE KeysAreHeld'
<1> DEFINE p == Peer(u)
           new == IF 2 * Cardinality(secrets[u]) < Cardinality(PreKey) THEN PreKey \ secrets[u] ELSE {}
<1>1. /\ Held(shelf[p], secrets[p], mail[p], outbox[u], bundles[u])
      /\ Held(shelf[u], secrets[u], mail[u], outbox[p], bundles[p])
      /\ p \in User /\ p # u
  BY HeldIs
<1>2. /\ secrets' = [secrets EXCEPT ![u] = @ \cup new] /\ shelf' = [shelf EXCEPT ![u] = @ \cup new]
      /\ UNCHANGED <<mail, outbox, bundles>>
  BY DEF LinkUp
<1>3. new \cap secrets[u] = {}
  OBVIOUS
<1> HIDE DEF new
<1>4. /\ secrets'[u] = secrets[u] \cup new /\ shelf'[u] = shelf[u] \cup new
      /\ secrets'[p] = secrets[p] /\ shelf'[p] = shelf[p]
  BY <1>1, <1>2 DEF SessionsTypeOK
<1>5. Held(shelf[u] \cup new, secrets[u] \cup new, mail[u], outbox[p], bundles[p])
  <2> HIDE DEF p
  <2> QED BY <1>1, <1>3 DEF Held
<1> QED BY <1>1, <1>2, <1>4, <1>5, HeldSo

LEMMA InitKeys == ASSUME SessionsInit PROVE KeysAreHeld
<1> SUFFICES ASSUME NEW u \in User PROVE KeysHeld(u)
  BY DEF KeysAreHeld
<1>1. Peer(u) \in User
  BY PeerOf
<1>2. /\ shelf[Peer(u)] = PreKey /\ secrets[Peer(u)] = PreKey /\ mail[Peer(u)] = <<>> /\ outbox[u] = {}
      /\ bundles[u] = <<>>
  BY <1>1 DEF SessionsInit
<1>3. (\A k : ~InMail(<<>>, k) /\ ~InOutbox({}, k) /\ ~InBundles(<<>>, k))
      /\ MailApart(<<>>) /\ OutboxApart({}) /\ BundlesApart(<<>>)
  BY DEF InMail, InOutbox, InBundles, MailApart, OutboxApart, BundlesApart
<1>4. Held(PreKey, PreKey, <<>>, {}, <<>>)
  BY <1>3 DEF Held
<1> QED BY <1>2, <1>4 DEF KeysHeld

LEMMA NextKeys ==
  ASSUME SessionsTypeOK, Fitting, KeysAreHeld, [SessionsNext]_sessionVars
  PROVE  KeysAreHeld'
<1>1. CASE UNCHANGED <<shelf, secrets, mail, outbox, bundles>>
  BY <1>1 DEF KeysAreHeld, KeysHeld
<1>2. CASE UNCHANGED sessionVars
  BY <1>1, <1>2 DEF sessionVars
<1>3. CASE SessionsNext
  <2>1. PICK u \in User : \/ BundleArrives(u) \/ BundleTimeout(u) \/ FlushText(u) \/ Receive(u)
                          \/ LinkUp(u) \/ CooldownEnds(u) \/ SendText(u) \/ SendEdit(u) \/ LinkDrops(u)
    BY <1>3 DEF SessionsNext, SessionsProgress
  <2>2. CASE Receive(u)
    BY <2>2, ReceiveIs, ReadsKeys, RebuildsKeys
  <2>3. CASE CooldownEnds(u)
    BY <1>1, <2>3 DEF CooldownEnds
  <2> QED BY <2>1, <2>2, <2>3, ArrivesKeys, TimeoutKeys, FlushKeys, LinkUpKeys, SendTextKeys, SendEditKeys, DropsKeys
<1> QED BY <1>2, <1>3

\* An envelope that begins a session can be answered when it comes.
LEMMA HeldOpens == ASSUME SessionsTypeOK, KeysAreHeld PROVE FirstOpens
<1> SUFFICES ASSUME NEW u \in User, NEW i \in DOMAIN mail[u], mail[u][i].first PROVE Answerable(u, mail[u][i])
  BY DEF FirstOpens
<1>1. Held(shelf[u], secrets[u], mail[u], outbox[Peer(u)], bundles[Peer(u)])
  BY HeldIs
<1>2. mail[u][i].key \in PreKey \cup {0}
  BY EnvelopeFields DEF SessionsTypeOK
<1>3. InMail(mail[u], mail[u][i].key)
  BY DEF InMail
<1>4. mail[u][i].key # 0 => mail[u][i].key \in secrets[u]
  BY <1>1, <1>2, <1>3 DEF Held
<1> QED BY <1>4 DEF Answerable

LEMMA KeysCorrect == SessionsSpec => [](SessionsTypeOK /\ Fitting /\ KeysAreHeld)
<1>1. SessionsInit => SessionsTypeOK /\ Fitting /\ KeysAreHeld
  BY InitFits, InitKeys
<1>2. SessionsTypeOK /\ Fitting /\ KeysAreHeld /\ [SessionsNext]_sessionVars => (SessionsTypeOK /\ Fitting /\ KeysAreHeld)'
  BY NextFits, NextKeys
<1> QED BY <1>1, <1>2, PTL DEF SessionsSpec

-----------------------------------------------------------------------------
(* Calls and the texts that are pending.                                   *)

LEMMA OneAskStays ==
  ASSUME NEW v \in User, OneAsk(v), asks'[v] = asks[v], ear'[v] = ear[v], live[v] => live'[v]
  PROVE  OneAsk(v)'
  BY DEF OneAsk

\* A new call is the only one, or hurried becomes true.
LEMMA AskAloneGrows ==
  ASSUME SessionsTypeOK, AskAlone, NEW u \in User, NEW for \in {"send", "repair"}, NEW text \in Nat,
         NEW kept \in BOOLEAN, AskBundle(u, for, text, kept), live[u], live' = live
  PROVE  /\ AskAlone'
         /\ asks[u] # <<>> => hurried'
         /\ hurried => hurried'
         /\ \A v \in User : v # u => asks'[v] = asks[v]
         /\ \E a \in Ask : /\ asks'[u] = Append(asks[u], a)
                           /\ a.for = for /\ a.text = text /\ ~a.over
<1>1. PICK id \in 1 .. 4, k \in PreKey \cup {0} : Asks(u, for, text, kept, id, k)
  BY AskIs
<1> DEFINE a == [id |-> id, for |-> for, text |-> text, kept |-> kept, over |-> FALSE]
<1>2. a \in Ask /\ a.id = id /\ ~a.over /\ a.for = for /\ a.text = text
  BY DEF Ask
<1> HIDE DEF a
<1>3. /\ asks' = [asks EXCEPT ![u] = Append(@, a)] /\ ear' = [ear EXCEPT ![u] = id]
      /\ hurried' = (hurried \/ asks[u] # <<>>)
  BY <1>1 DEF a, Asks
<1>4. /\ asks'[u] = Append(asks[u], a) /\ ear'[u] = id /\ asks[u] \in Seq(Ask)
      /\ \A v \in User : v # u => asks'[v] = asks[v] /\ ear'[v] = ear[v]
  BY <1>3 DEF SessionsTypeOK
<1>5. AskAlone'
  <2> SUFFICES ASSUME ~hurried', NEW v \in User PROVE OneAsk(v)'
    BY DEF AskAlone
  <2>1. OneAsk(v) /\ asks[u] = <<>>
    BY <1>3 DEF AskAlone
  <2>2. CASE v # u
    BY <1>4, <2>1, <2>2, OneAskStays
  <2>3. CASE v = u
    <3>1. Len(asks'[u]) = 1 /\ DOMAIN asks'[u] = {1} /\ asks'[u][1] = a
      BY <1>2, <1>4, <2>1
    <3> QED BY <1>2, <1>4, <2>3, <3>1 DEF OneAsk
  <2> QED BY <2>2, <2>3
<1> QED BY <1>2, <1>3, <1>4, <1>5

\* The only caller is answered: nobody waits any more.
LEMMA AnsweredAlone ==
  ASSUME SessionsTypeOK, NEW u \in User, OneAsk(u), NEW q,
         q = Over(u, ear[u]) \/ (asks[u] # <<>> /\ q = Tail(asks[u]))
  PROVE  Len(q) <= 1 /\ Len(q) \in Nat /\ \A i \in DOMAIN q : q[i].over
<1>1. asks[u] \in Seq(Ask) /\ Len(asks[u]) \in Nat /\ Len(asks[u]) <= 1
  BY DEF SessionsTypeOK, OneAsk
<1>2. CASE q = Over(u, ear[u])
  <2>1. /\ q \in Seq(Ask) /\ DOMAIN q = DOMAIN asks[u]
        /\ \A i \in DOMAIN asks[u] : q[i].over = (asks[u][i].over \/ asks[u][i].id = ear[u])
    BY <1>2, OverIs
  <2>2. Len(q) = Len(asks[u])
    BY <1>1, <2>1
  <2>3. \A i \in DOMAIN asks[u] : asks[u][i] \in Ask /\ asks[u][i].over \in BOOLEAN
    BY <1>1, AskFields
  <2>4. ASSUME NEW i \in DOMAIN q PROVE q[i].over
    <3>1. i \in DOMAIN asks[u] /\ (asks[u][i].over \/ asks[u][i].id = ear[u])
      BY <2>1 DEF OneAsk
    <3>2. q[i].over = (asks[u][i].over \/ asks[u][i].id = ear[u])
      BY <2>1, <3>1
    <3> QED BY <3>1, <3>2
  <2> QED BY <1>1, <2>2, <2>4
<1>3. CASE asks[u] # <<>> /\ q = Tail(asks[u])
  <2>1. q \in Seq(Ask) /\ DOMAIN q = 1 .. Len(q) /\ Len(q) \in Nat
    BY <1>1, <1>3
  <2>2. Len(q) = 0
    <3> DEFINE n == Len(asks[u])
    <3>1. n # 0 /\ Len(q) = n - 1
      BY <1>1, <1>3
    <3>2. n \in Nat /\ n <= 1
      BY <1>1
    <3> HIDE DEF n
    <3> QED BY <3>1, <3>2
  <2>3. DOMAIN q = {}
    BY <2>1, <2>2
  <2> QED BY <2>2, <2>3
<1> QED BY <1>2, <1>3

LEMMA AnsweredOne ==
  ASSUME NEW u \in User, Len(asks'[u]) <= 1, \A i \in DOMAIN asks'[u] : asks'[u][i].over
  PROVE  OneAsk(u)' /\ ~Resetting(u)'
  BY DEF OneAsk, Resetting

LEMMA NextAlone ==
  ASSUME SessionsTypeOK, Fitting, AskAlone, [SessionsNext]_sessionVars
  PROVE  AskAlone'
<1>1. CASE UNCHANGED <<asks, ear, live, hurried>>
  BY <1>1 DEF AskAlone, OneAsk
<1>2. CASE UNCHANGED sessionVars
  BY <1>1, <1>2 DEF sessionVars
<1>3. ASSUME NEW u \in User, BundleArrives(u) \/ BundleTimeout(u) \/ LinkDrops(u) PROVE AskAlone'
  <2>1. /\ hurried' = hurried
        /\ \A v \in User : v # u => live'[v] = live[v]
        /\ \/ UNCHANGED <<asks, ear>> /\ (live' = live \/ ear[u] = 0)
           \/ \E q : /\ asks' = [asks EXCEPT ![u] = q] /\ ear' = [ear EXCEPT ![u] = 0]
                     /\ q = Over(u, ear[u]) \/ (asks[u] # <<>> /\ q = Tail(asks[u]))
    <3>1. CASE BundleArrives(u)
      BY <3>1 DEF BundleArrives
    <3>2. CASE BundleTimeout(u)
      BY <3>2 DEF BundleTimeout
    <3>3. CASE LinkDrops(u)
      <4>1. live' = [live EXCEPT ![u] = FALSE] /\ hurried' = hurried
        BY <3>3 DEF LinkDrops
      <4>2. \/ asks' = [asks EXCEPT ![u] = Over(u, ear[u])] /\ ear' = [ear EXCEPT ![u] = 0]
            \/ ear[u] = 0 /\ UNCHANGED <<asks, ear>>
        BY <3>3 DEF LinkDrops
      <4>3. \A v \in User : v # u => live'[v] = live[v]
        BY <4>1 DEF SessionsTypeOK
      <4> QED BY <4>1, <4>2, <4>3
    <3> QED BY <1>3, <3>1, <3>2, <3>3
  <2> SUFFICES ASSUME ~hurried', NEW v \in User PROVE OneAsk(v)'
    BY DEF AskAlone
  <2>2. OneAsk(v) /\ OneAsk(u)
    BY <2>1 DEF AskAlone
  <2>3. CASE UNCHANGED <<asks, ear>> /\ (live' = live \/ ear[u] = 0)
    <3>1. CASE live' = live
      BY <2>2, <2>3, <3>1 DEF OneAsk
    <3>2. CASE ear[u] = 0
      <4>1. \A i \in DOMAIN asks[u] : asks[u][i].id # 0
        <5>1. asks[u] \in Seq(Ask) /\ \A i \in DOMAIN asks[u] : asks[u][i] \in Ask
          BY DEF SessionsTypeOK
        <5> QED BY <5>1, AskFields
      <4>2. \A i \in DOMAIN asks[u] : asks[u][i].over
        BY <2>2, <3>2, <4>1 DEF OneAsk
      <4> QED BY <2>1, <2>2, <2>3, <4>2 DEF OneAsk
    <3> QED BY <2>3, <3>1, <3>2
  <2>4. ASSUME NEW q, asks' = [asks EXCEPT ![u] = q], ear' = [ear EXCEPT ![u] = 0],
               q = Over(u, ear[u]) \/ (asks[u] # <<>> /\ q = Tail(asks[u]))
        PROVE  OneAsk(v)'
    <3>1. asks'[u] = q /\ (v # u => asks'[v] = asks[v] /\ ear'[v] = ear[v])
      BY <2>4 DEF SessionsTypeOK
    <3>2. Len(q) <= 1 /\ \A i \in DOMAIN q : q[i].over
      BY <2>2, <2>4, AnsweredAlone
    <3> QED BY <2>1, <2>2, <3>1, <3>2 DEF OneAsk
  <2> QED BY <2>1, <2>3, <2>4
<1>4. ASSUME NEW u \in User, SendText(u) PROVE AskAlone'
  <2>1. live' = live
    BY <1>4 DEF SendText
  <2>2. CASE row[u] # 0
    BY <1>1, <1>4, <2>2 DEF SendText
  <2>3. CASE row[u] = 0
    <3>1. AskBundle(u, "send", Len(texts) + 1, FALSE) /\ live[u]
      BY <1>4, <2>3 DEF SendText
    <3>2. Len(texts) + 1 \in Nat
      BY DEF SessionsTypeOK
    <3> QED BY <2>1, <3>1, <3>2, AskAloneGrows
  <2> QED BY <2>2, <2>3
<1>5. ASSUME NEW u \in User, Receive(u) PROVE AskAlone'
  <2>1. /\ live[u] /\ mail[u][1] \in Envelope
        /\ Rebuilds(u, mail[u][1]) \/ \E d : Reads(u, mail[u][1], d)
    BY <1>5, ReceiveIs
  <2>2. CASE Rebuilds(u, mail[u][1])
    <3>1. AskBundle(u, "repair", 0, mail[u][1].kept) /\ live' = live /\ mail[u][1].kept \in BOOLEAN
      BY <2>1, <2>2, EnvelopeFields DEF Rebuilds
    <3> QED BY <2>1, <3>1, AskAloneGrows
  <2>3. CASE \E d : Reads(u, mail[u][1], d)
    BY <1>1, <2>3 DEF Reads
  <2> QED BY <2>1, <2>2, <2>3
<1>6. ASSUME NEW u \in User, LinkUp(u) PROVE AskAlone'
  <2>1. /\ UNCHANGED <<asks, ear, hurried>> /\ \A v \in User : live[v] => live'[v]
    BY <1>6 DEF LinkUp, SessionsTypeOK
  <2> QED BY <2>1, OneAskStays DEF AskAlone
<1>7. ASSUME NEW u \in User, FlushText(u) \/ CooldownEnds(u) \/ SendEdit(u) PROVE AskAlone'
  BY <1>1, <1>7 DEF FlushText, CooldownEnds, SendEdit
<1> QED BY <1>2, <1>3, <1>4, <1>5, <1>6, <1>7 DEF SessionsNext, SessionsProgress

LEMMA RowsGrow ==
  ASSUME NEW u, NEW news, outbox'[u] = Enqueued(outbox[u], news)
  PROVE  Queued(u) \cup {e.text : e \in news} \subseteq Queued(u)'
<1>1. \A e \in outbox[u] : e \in outbox'[u] \/ \E f \in news : f.text = e.text /\ f \in outbox'[u]
  BY DEF Enqueued
<1>2. \A e \in news : e \in outbox'[u]
  BY DEF Enqueued
<1> QED BY <1>1, <1>2 DEF Queued

\* The answer of the only caller leaves every pending message its row.
LEMMA ResolvesCarries ==
  ASSUME SessionsTypeOK, Fitting, NEW u \in User, OneAsk(u), \A v \in User : Carried(v),
         NEW i, NEW k \in PreKey \cup {0}, NEW s \in Nat, NEW up,
         NEW post \in [User -> Seq(Envelope)], Resolves(u, i, k, s, up, post),
         up \/ asks[u][i].for # "repair"
  PROVE  \A v \in User : Carried(v)'
<1> DEFINE a == asks[u][i]
<1>1. i \in DOMAIN asks[u] /\ ~a.over /\ Finishes(u, a, s, k, up, post)
  BY DEF Resolves
<1>2. /\ a \in Ask
      /\ a.for = "send" => /\ a.text \in DOMAIN texts /\ texts[a.text].by = u
                           /\ texts[a.text].status = "composed"
  BY <1>1, AskKnown DEF Fitting
<1>3. asks[u] \in Seq(Ask) /\ DOMAIN asks[u] = {i}
  <2>1. asks[u] \in Seq(Ask) /\ Len(asks[u]) <= 1 /\ Len(asks[u]) \in Nat /\ DOMAIN asks[u] = 1 .. Len(asks[u])
    BY DEF SessionsTypeOK, OneAsk
  <2>2. DOMAIN asks[u] = {i}
    BY <1>1, <2>1
  <2> QED BY <2>1, <2>2
<1>4. asks \in [User -> Seq(Ask)] /\ outbox \in [User -> SUBSET Envelope]
  BY DEF SessionsTypeOK
<1>5. \A v \in User : v # u => asks'[v] = asks[v]
  BY <1>4 DEF Resolves
<1> HIDE DEF a
<1>6. /\ TextsFollow(u) /\ DOMAIN texts' = DOMAIN texts
      /\ \A v \in User : v # u => outbox'[v] = outbox[v]
  BY <1>1, <1>2, FinishTypes DEF Fitting
<1>7. ASSUME NEW v \in User, v # u PROVE Carried(v)'
  <2>1. Carried(v) /\ asks'[v] = asks[v] /\ outbox'[v] = outbox[v]
    BY <1>5, <1>6, <1>7
  <2>2. \A j \in DOMAIN texts' : texts'[j].by = v => j \in DOMAIN texts /\ texts'[j] = texts[j]
    BY <1>6, <1>7 DEF TextsFollow
  <2> QED BY <2>1, <2>2 DEF Carried, Queued, Pending, Resetting
<1>8. CASE a.for = "send" /\ Starts(u, a.text, s, k, post)
  <2> DEFINE m == Sealed("message", a.text, s, TRUE, k)
  <2>1. m.text = a.text
    BY DEF Sealed
  <2>2. outbox'[u] = Enqueued(outbox[u], {m}) /\ texts' = [texts EXCEPT ![a.text].status = "pending"]
    BY <1>4, <1>8 DEF Starts
  <2> HIDE DEF m
  <2>3. Queued(u) \subseteq Queued(u)' /\ a.text \in Queued(u)'
    <3>1. Queued(u) \cup {e.text : e \in {m}} \subseteq Queued(u)'
      BY <2>2, RowsGrow
    <3> QED BY <2>1, <3>1
  <2>4. ~Resetting(u)
    BY <1>3, <1>8 DEF Resetting, a
  <2>5. \A j \in DOMAIN texts' : j # a.text => texts'[j] = texts[j]
    BY <1>2, <1>8, <2>2, StatusIs
  <2>6. Carried(u)'
    BY <1>6, <2>3, <2>4, <2>5 DEF Carried, Pending
  <2> QED BY <1>7, <2>6
<1>9. CASE a.for = "repair" /\ Repairs(u, s, k, post)
  <2>1. outbox'[u] = Enqueued(outbox[u], Again(u, s)) /\ texts' = texts
    BY <1>4, <1>9 DEF Repairs
  <2>2. Pending(u) \subseteq Queued(u)'
    <3>1. {e.text : e \in Again(u, s)} \subseteq Queued(u)'
      BY <2>1, RowsGrow
    <3>2. \A j \in Pending(u) : \E e \in Again(u, s) : e.text = j
      BY AgainIs
    <3> QED BY <3>1, <3>2
  <2>3. Carried(u)'
    BY <2>1, <2>2 DEF Carried, Pending
  <2> QED BY <1>7, <2>3
<1> QED BY <1>1, <1>2, <1>8, <1>9 DEF Finishes, a

LEMMA SameCarried ==
  ASSUME \A v \in User : Carried(v), UNCHANGED <<texts, outbox, asks>>
  PROVE  \A v \in User : Carried(v)'
  BY DEF Carried, Queued, Pending, Resetting

\* Who waits for a bundle has a link, so that a repair does not throw.
LEMMA LiveAsk ==
  ASSUME SessionsTypeOK, NEW u \in User, OneAsk(u), ear[u] = 0 \/ (asks[u] # <<>> /\ asks[u][1].over)
  PROVE  \A i \in DOMAIN asks[u] : asks[u][i].over
<1>1. asks[u] \in Seq(Ask) /\ Len(asks[u]) <= 1 /\ Len(asks[u]) \in Nat /\ DOMAIN asks[u] = 1 .. Len(asks[u])
  BY DEF SessionsTypeOK, OneAsk
<1>2. \A i \in DOMAIN asks[u] : asks[u][i].id # 0
  BY <1>1, AskFields
<1>3. \A i \in DOMAIN asks[u] : i = 1
  BY <1>1
<1> QED BY <1>2, <1>3 DEF OneAsk

LEMMA NextCarries ==
  ASSUME SessionsTypeOK, Fitting, AskAlone, PendingStays, [SessionsNext]_sessionVars
  PROVE  PendingStays'
<1> SUFFICES ASSUME "reset" \notin severed', ~hurried' PROVE \A v \in User : Carried(v)'
  BY DEF PendingStays
<1>1. ASSUME "reset" \notin severed, ~hurried
      PROVE  (\A v \in User : Carried(v)) /\ \A v \in User : OneAsk(v)
  BY <1>1 DEF PendingStays, AskAlone
<1>2. CASE UNCHANGED sessionVars
  BY <1>1, <1>2, SameCarried DEF sessionVars
<1>3. ASSUME NEW u \in User, BundleArrives(u) PROVE \A v \in User : Carried(v)'
  <2>1. UNCHANGED <<hurried, severed>>
    BY <1>3 DEF BundleArrives
  <2>2. PICK n \in DOMAIN bundles[u] :
           /\ bundles[u][n] \in PreKey \cup {0}
           /\ \/ UNCHANGED <<asks, outbox, texts>>
              \/ \E i \in DOMAIN asks[u], s \in Nat \ {0} : Resolves(u, i, bundles[u][n], s, TRUE, mail)
    BY <1>3, ArrivesIs
  <2>3. mail \in [User -> Seq(Envelope)]
    BY DEF SessionsTypeOK
  <2> QED BY <1>1, <2>1, <2>2, <2>3, SameCarried, ResolvesCarries
<1>4. ASSUME NEW u \in User, BundleTimeout(u) PROVE \A v \in User : Carried(v)'
  <2>1. /\ asks[u] # <<>> /\ asks' = [asks EXCEPT ![u] = Tail(asks[u])]
        /\ \/ /\ ear[u] = 0 \/ asks[u][1].over
              /\ UNCHANGED <<row, outbox, texts, mail>>
           \/ \E s \in Nat \ {0} : Resolves(u, 1, 0, s, live[u], mail)
        /\ UNCHANGED <<hurried, severed>>
    BY <1>4, TimeoutIs
  <2>2. (\A v \in User : Carried(v)) /\ OneAsk(u)
    BY <1>1, <2>1
  <2>3. CASE (ear[u] = 0 \/ asks[u][1].over) /\ UNCHANGED <<row, outbox, texts, mail>>
    <3>1. ~Resetting(u)
      BY <2>1, <2>2, <2>3, LiveAsk DEF Resetting
    <3>2. \A v \in User : v # u => asks'[v] = asks[v]
      BY <2>1 DEF SessionsTypeOK
    <3> QED BY <2>2, <2>3, <3>1, <3>2 DEF Carried, Queued, Pending, Resetting
  <2>4. ASSUME NEW s \in Nat \ {0}, Resolves(u, 1, 0, s, live[u], mail) PROVE \A v \in User : Carried(v)'
    <3>1. live[u]
      BY <2>2, <2>4 DEF OneAsk, Resolves
    <3>2. mail \in [User -> Seq(Envelope)] /\ 0 \in PreKey \cup {0} /\ s \in Nat
      BY DEF SessionsTypeOK
    <3> QED BY <2>2, <2>4, <3>1, <3>2, ResolvesCarries
  <2> QED BY <2>1, <2>3, <2>4
<1>5. ASSUME NEW u \in User, LinkDrops(u) PROVE \A v \in User : Carried(v)'
  <2>1. PICK b : LET kept == [mail EXCEPT ![u] = b \o Stored(mail[u])] IN
           /\ Drops(u, b)
           /\ mail' = kept
           /\ \/ UNCHANGED <<asks, ear, row, outbox, texts>>
              \/ \E i \in DOMAIN asks[u], s \in Nat \ {0} : Resolves(u, i, 0, s, FALSE, kept)
    BY <1>5, DropsIs
  <2> DEFINE kept == [mail EXCEPT ![u] = b \o Stored(mail[u])]
  <2>2. /\ hurried' = hurried /\ "reset" \notin severed /\ Resets(b)
        /\ \A i \in DOMAIN asks[u] : asks[u][i].for = "repair" => asks[u][i].over
    BY <2>1 DEF Drops
  <2>3. (\A v \in User : Carried(v)) /\ OneAsk(u)
    BY <1>1, <2>2
  <2>4. kept \in [User -> Seq(Envelope)]
    <3>1. Stored(mail[u]) \in Seq(Envelope) /\ b \in Seq(Envelope)
      BY <2>2, StoredIs DEF Resets, Fitting
    <3>2. b \o Stored(mail[u]) \in Seq(Envelope)
      BY <3>1
    <3> QED BY <3>2 DEF SessionsTypeOK
  <2>5. CASE UNCHANGED <<asks, ear, row, outbox, texts>>
    BY <2>3, <2>5, SameCarried
  <2>6. ASSUME NEW i \in DOMAIN asks[u], NEW s \in Nat \ {0}, Resolves(u, i, 0, s, FALSE, kept)
        PROVE  \A v \in User : Carried(v)'
    <3>1. asks[u][i].for # "repair" /\ 0 \in PreKey \cup {0} /\ s \in Nat
      BY <2>2, <2>6 DEF Resolves
    <3> HIDE DEF kept
    <3> QED BY <2>3, <2>4, <2>6, <3>1, ResolvesCarries
  <2> QED BY <2>1, <2>5, <2>6
<1>6. ASSUME NEW u \in User, SendText(u) PROVE \A v \in User : Carried(v)'
  <2>0. severed' = severed
    BY <1>6 DEF SendText
  <2>1. CASE row[u] # 0
    <3> DEFINE e == Sealed("message", Len(texts) + 1, row[u], FALSE, 0)
    <3>1. /\ outbox' = [outbox EXCEPT ![u] = Enqueued(@, {e})] /\ UNCHANGED <<asks, hurried>>
          /\ texts' = Append(texts, [by |-> u, status |-> "pending"])
      BY <1>6, <2>1 DEF SendText
    <3>2. e.text = Len(texts) + 1
      BY DEF Sealed
    <3>3. Adds(u, "pending")
      BY <3>1, TextAdded
    <3> HIDE DEF e
    <3>4. outbox'[u] = Enqueued(outbox[u], {e}) /\ \A v \in User : v # u => outbox'[v] = outbox[v]
      BY <3>1 DEF SessionsTypeOK
    <3>5. Queued(u) \subseteq Queued(u)' /\ e.text \in Queued(u)'
      <4>1. Queued(u) \cup {g.text : g \in {e}} \subseteq Queued(u)'
        BY <3>4, RowsGrow
      <4> QED BY <4>1
    <3> SUFFICES ASSUME NEW v \in User PROVE Carried(v)'
      OBVIOUS
    <3>6. Carried(v)
      BY <1>1, <2>0, <3>1
    <3>7. CASE v = u
      <4>1. \A j \in DOMAIN texts' : j # e.text => j \in DOMAIN texts /\ texts'[j] = texts[j]
        BY <3>2, <3>3 DEF Adds
      <4>2. Resetting(u) => Resetting(u)'
        BY <3>1 DEF Resetting
      <4> QED BY <3>5, <3>6, <3>7, <4>1, <4>2 DEF Carried, Pending
    <3>8. CASE v # u
      <4>1. \A j \in DOMAIN texts' : texts'[j].by = v => j \in DOMAIN texts /\ texts'[j] = texts[j]
        BY <3>3, <3>8 DEF Adds
      <4> QED BY <3>1, <3>4, <3>6, <3>8, <4>1 DEF Carried, Queued, Pending, Resetting
    <3> QED BY <3>7, <3>8
  <2>2. CASE row[u] = 0
    <3>1. /\ AskBundle(u, "send", Len(texts) + 1, FALSE) /\ outbox' = outbox
          /\ texts' = Append(texts, [by |-> u, status |-> "composed"])
          /\ live[u] /\ live' = live
      BY <1>6, <2>2 DEF SendText
    <3>2. Adds(u, "composed") /\ Len(texts) + 1 \in Nat
      <4>1. Adds(u, "composed")
        BY <3>1, TextAdded
      <4> QED BY <4>1 DEF Adds
    <3>3. asks[u] = <<>> /\ ~hurried /\ \A v \in User : v # u => asks'[v] = asks[v]
      BY <3>1, <3>2, AskAloneGrows
    <3> SUFFICES ASSUME NEW v \in User PROVE Carried(v)'
      OBVIOUS
    <3>4. Carried(v)
      BY <1>1, <2>0, <3>3
    <3>5. \A j \in DOMAIN texts' : texts'[j].status = "pending" => j \in DOMAIN texts /\ texts'[j] = texts[j]
      BY <3>2 DEF Adds
    <3>6. ~Resetting(u)
      BY <3>3 DEF Resetting
    <3> QED BY <3>1, <3>3, <3>4, <3>5, <3>6 DEF Carried, Queued, Pending, Resetting
  <2> QED BY <2>1, <2>2
<1>7. ASSUME NEW u \in User, FlushText(u) PROVE \A v \in User : Carried(v)'
  <2>1. PICK e, f : Flushes(u, e, f)
    BY <1>7, FlushIs
  <2>2. /\ e \in outbox[u] /\ UNCHANGED <<asks, hurried, severed>>
        /\ texts' = [texts EXCEPT ![e.text].status = "sent"]
        /\ outbox' = [outbox EXCEPT ![u] = outbox[u] \ {e}]
    BY <2>1 DEF Flushes
  <2>3. e.text \in DOMAIN texts /\ \A g \in outbox[u] : g.text = e.text => g = e
    BY <2>2 DEF Fitting, RowsFit
  <2>4. /\ DOMAIN texts' = DOMAIN texts /\ texts'[e.text].status = "sent"
        /\ \A j \in DOMAIN texts : j # e.text => texts'[j] = texts[j]
    BY <2>2, <2>3, StatusIs
  <2>5. outbox'[u] = outbox[u] \ {e} /\ \A v \in User : v # u => outbox'[v] = outbox[v]
    BY <2>2 DEF SessionsTypeOK
  <2> SUFFICES ASSUME NEW v \in User PROVE Carried(v)'
    OBVIOUS
  <2>6. Carried(v)
    BY <1>1, <2>2
  <2>7. Queued(v) \ {e.text} \subseteq Queued(v)'
    BY <2>5 DEF Queued
  <2>8. Resetting(v) => Resetting(v)'
    BY <2>2 DEF Resetting
  <2> QED BY <2>4, <2>6, <2>7, <2>8 DEF Carried, Pending
<1>8. ASSUME NEW u \in User, Receive(u) PROVE \A v \in User : Carried(v)'
  <2>1. /\ live[u] /\ mail[u][1] \in Envelope
        /\ Rebuilds(u, mail[u][1]) \/ \E d : Reads(u, mail[u][1], d)
    BY <1>8, ReceiveIs
  <2>2. CASE Rebuilds(u, mail[u][1])
    <3>1. /\ AskBundle(u, "repair", 0, mail[u][1].kept) /\ live' = live /\ mail[u][1].kept \in BOOLEAN
          /\ outbox' = [outbox EXCEPT ![u] = {}] /\ UNCHANGED <<texts, severed>>
      BY <2>1, <2>2, EnvelopeFields DEF Rebuilds
    <3>2. /\ ~hurried /\ \A v \in User : v # u => asks'[v] = asks[v]
          /\ \E a \in Ask : asks'[u] = Append(asks[u], a) /\ a.for = "repair" /\ ~a.over
      BY <2>1, <3>1, AskAloneGrows
    <3>3. Resetting(u)'
      <4>1. PICK a \in Ask : asks'[u] = Append(asks[u], a) /\ a.for = "repair" /\ ~a.over
        BY <3>2
      <4>2. asks[u] \in Seq(Ask)
        BY DEF SessionsTypeOK
      <4>3. Len(asks[u]) + 1 \in DOMAIN asks'[u] /\ asks'[u][Len(asks[u]) + 1] = a
        BY <4>1, <4>2, AppendIs
      <4> QED BY <4>1, <4>3 DEF Resetting
    <3>4. \A v \in User : v # u => Carried(v) /\ outbox'[v] = outbox[v]
      BY <1>1, <3>1, <3>2 DEF SessionsTypeOK
    <3> QED BY <3>1, <3>2, <3>3, <3>4 DEF Carried, Queued, Pending, Resetting
  <2>3. CASE \E d : Reads(u, mail[u][1], d)
    BY <1>1, <2>3, SameCarried DEF Reads
  <2> QED BY <2>1, <2>2, <2>3
<1>9. ASSUME NEW u \in User, LinkUp(u) \/ CooldownEnds(u) \/ SendEdit(u) PROVE \A v \in User : Carried(v)'
  BY <1>1, <1>9, SameCarried DEF LinkUp, CooldownEnds, SendEdit
<1> QED BY <1>2, <1>3, <1>4, <1>5, <1>6, <1>7, <1>8, <1>9 DEF SessionsNext, SessionsProgress

LEMMA InitCarries == ASSUME SessionsInit PROVE AskAlone /\ PendingStays
<1>1. /\ \A u \in User : asks[u] = <<>> /\ Len(asks[u]) = 0 /\ DOMAIN asks[u] = {}
      /\ texts = <<>> /\ DOMAIN texts = {}
  BY DEF SessionsInit
<1>2. AskAlone
  BY <1>1 DEF AskAlone, OneAsk
<1>3. PendingStays
  BY <1>1 DEF PendingStays, Carried, Pending
<1> QED BY <1>2, <1>3

LEMMA StaysSurvives == ASSUME SessionsTypeOK, PendingStays PROVE PendingSurvivesReset
<1> SUFFICES ASSUME "reset" \notin severed, ~hurried, NEW i \in DOMAIN texts, texts[i].status = "pending"
             PROVE  \/ \E e \in outbox[texts[i].by] : e.text = i
                    \/ \E j \in DOMAIN asks[texts[i].by] : /\ asks[texts[i].by][j].for = "repair"
                                                           /\ ~asks[texts[i].by][j].over
  BY DEF PendingSurvivesReset, PendingIsCarried
<1>1. texts \in Seq(Text)
  BY DEF SessionsTypeOK
<1>2. texts[i] \in Text
  BY <1>1
<1>3. texts[i].by \in User
  BY <1>2 DEF Text
<1> QED BY <1>3 DEF PendingStays, Carried, Pending, Queued, Resetting

\* A message that is pending keeps its row in the outbox, or the reset that
\* took the row away is still at work, as long as no link drops inside a reset
\* and no two calls of getPreKeyBundle overlap.
THEOREM PendingIsKept == SessionsSpec => []PendingSurvivesReset
<1> DEFINE I == SessionsTypeOK /\ Fitting /\ AskAlone /\ PendingStays
<1>1. SessionsInit => I
  BY InitFits, InitCarries
<1>2. I /\ [SessionsNext]_sessionVars => I'
  BY NextFits, NextAlone, NextCarries
<1>3. I => PendingSurvivesReset
  BY StaysSurvives
<1> QED BY <1>1, <1>2, <1>3, PTL DEF SessionsSpec

-----------------------------------------------------------------------------
(* The two rows.                                                           *)

LEMMA FirstAppended ==
  ASSUME NEW q \in Seq(Envelope), NEW f \in Envelope, NEW s
  PROVE  /\ HasFirst(Append(q, f)) <=> HasFirst(q) \/ f.first
         /\ ~f.first /\ LastFirst(q, s) => LastFirst(Append(q, f), s)
         /\ f.first /\ f.session = s => LastFirst(Append(q, f), s)
<1> DEFINE r == Append(q, f)
<1>1. /\ Len(q) \in Nat /\ DOMAIN q = 1 .. Len(q) /\ DOMAIN r = 1 .. (Len(q) + 1)
      /\ \A i \in 1 .. Len(q) : r[i] = q[i]
      /\ r[Len(q) + 1] = f
  BY AppendIs
<1> HIDE DEF r
<1>2. \A i \in DOMAIN r : (i \in DOMAIN q /\ r[i] = q[i]) \/ (i = Len(q) + 1 /\ r[i] = f)
  BY <1>1
<1>3. \A i \in DOMAIN q : i \in DOMAIN r /\ r[i] = q[i] /\ i < Len(q) + 1
  BY <1>1
<1>4. Len(q) + 1 \in DOMAIN r /\ r[Len(q) + 1] = f
  BY <1>1
<1>5. HasFirst(r) <=> HasFirst(q) \/ f.first
  BY <1>2, <1>3, <1>4 DEF HasFirst
<1>6. ~f.first /\ LastFirst(q, s) => LastFirst(r, s)
  BY <1>2, <1>3 DEF LastFirst
<1>7. ASSUME f.first, f.session = s PROVE LastFirst(r, s)
  <2> SUFFICES ASSUME NEW i \in DOMAIN r, \A j \in DOMAIN r : r[j].first => j <= i
               PROVE  r[i].session = s
    BY DEF LastFirst
  <2>1. Len(q) + 1 <= i /\ i <= Len(q) + 1 /\ i \in Nat
    BY <1>1, <1>4, <1>7
  <2>2. i = Len(q) + 1
    BY <1>1, <2>1
  <2> QED BY <1>4, <1>7, <2>2
<1> QED BY <1>5, <1>6, <1>7 DEF r

LEMMA FirstTaken ==
  ASSUME NEW q \in Seq(Envelope), q # <<>>, NEW s
  PROVE  /\ HasFirst(q) <=> HasFirst(Tail(q)) \/ q[1].first
         /\ LastFirst(q, s) => LastFirst(Tail(q), s)
         /\ LastFirst(q, s) /\ q[1].first /\ ~HasFirst(Tail(q)) => q[1].session = s
<1> DEFINE r == Tail(q)
<1>1. /\ 1 \in DOMAIN q /\ Len(q) \in Nat /\ DOMAIN q = 1 .. Len(q) /\ DOMAIN r = 1 .. (Len(q) - 1)
      /\ \A i \in DOMAIN r : i + 1 \in DOMAIN q /\ r[i] = q[i + 1]
  BY TailIs
<1> HIDE DEF r
<1>2. \A j \in DOMAIN q : j = 1 \/ (j - 1 \in DOMAIN r /\ r[j - 1] = q[j])
  <2> SUFFICES ASSUME NEW j \in DOMAIN q, j # 1 PROVE j - 1 \in DOMAIN r /\ r[j - 1] = q[j]
    OBVIOUS
  <2>1. j - 1 \in DOMAIN r /\ (j - 1) + 1 = j
    BY <1>1
  <2> QED BY <1>1, <2>1
<1>3. HasFirst(q) <=> HasFirst(r) \/ q[1].first
  BY <1>1, <1>2 DEF HasFirst
<1>4. ASSUME LastFirst(q, s) PROVE LastFirst(r, s)
  <2> SUFFICES ASSUME NEW i \in DOMAIN r, r[i].first, \A j \in DOMAIN r : r[j].first => j <= i
               PROVE  r[i].session = s
    BY DEF LastFirst
  <2>1. i + 1 \in DOMAIN q /\ q[i + 1] = r[i] /\ i \in Nat
    BY <1>1
  <2>2. ASSUME NEW j \in DOMAIN q, q[j].first PROVE j <= i + 1
    <3>1. CASE j = 1
      BY <2>1, <3>1
    <3>2. CASE j # 1
      <4>1. j - 1 <= i /\ j \in Nat
        BY <1>1, <1>2, <2>2, <3>2
      <4> QED BY <2>1, <4>1
    <3> QED BY <3>1, <3>2
  <2> QED BY <1>4, <2>1, <2>2 DEF LastFirst
<1>5. ASSUME LastFirst(q, s), q[1].first, ~HasFirst(r) PROVE q[1].session = s
  <2>1. \A j \in DOMAIN q : q[j].first => j <= 1
    BY <1>2, <1>5 DEF HasFirst
  <2> QED BY <1>1, <1>5, <2>1 DEF LastFirst
<1> QED BY <1>3, <1>4, <1>5 DEF r

\* What is put into an outbox.
LEMMA FirstRowQueued ==
  ASSUME NEW o \in SUBSET Envelope, NEW m \in Envelope, \A e \in o : e.text < m.text, NEW s
  PROVE  /\ HasFirstRow(Enqueued(o, {m})) <=> HasFirstRow(o) \/ m.first
         /\ ~m.first /\ LastFirstRow(o, s) => LastFirstRow(Enqueued(o, {m}), s)
         /\ m.first /\ m.session = s => LastFirstRow(Enqueued(o, {m}), s)
<1> DEFINE p == Enqueued(o, {m})
<1>1. m.text \in Nat /\ \A e \in o : e.text \in Nat /\ e.text < m.text
  BY EnvelopeFields
<1>2. p = o \cup {m}
  BY <1>1 DEF Enqueued
<1> HIDE DEF p
<1>3. HasFirstRow(p) <=> HasFirstRow(o) \/ m.first
  BY <1>2 DEF HasFirstRow
<1>4. ~m.first /\ LastFirstRow(o, s) => LastFirstRow(p, s)
  BY <1>2 DEF LastFirstRow
<1>5. m.first /\ m.session = s => LastFirstRow(p, s)
  BY <1>1, <1>2 DEF LastFirstRow
<1> QED BY <1>3, <1>4, <1>5 DEF p

\* The row with the smallest text goes.
LEMMA FirstRowSent ==
  ASSUME NEW o \in SUBSET Envelope, NEW e \in o, \A f \in o : e.text <= f.text,
         \A f, g \in o : f.text = g.text => f = g, NEW s
  PROVE  /\ HasFirstRow(o) <=> HasFirstRow(o \ {e}) \/ e.first
         /\ LastFirstRow(o, s) => LastFirstRow(o \ {e}, s)
         /\ LastFirstRow(o, s) /\ e.first /\ ~HasFirstRow(o \ {e}) => e.session = s
<1>1. \A f \in o : f.text \in Nat /\ (f # e => e.text < f.text)
  <2>1. \A f \in o : f.text \in Nat
    BY EnvelopeFields
  <2> QED BY <2>1
<1>2. HasFirstRow(o) <=> HasFirstRow(o \ {e}) \/ e.first
  BY DEF HasFirstRow
<1>3. LastFirstRow(o, s) => LastFirstRow(o \ {e}, s)
  BY <1>1 DEF LastFirstRow
<1>4. LastFirstRow(o, s) /\ e.first /\ ~HasFirstRow(o \ {e}) => e.session = s
  BY <1>1 DEF LastFirstRow, HasFirstRow
<1> QED BY <1>2, <1>3, <1>4

LEMMA BeginningIs == ASSUME NEW u \in User PROVE Beginning(u) <=> Began(u) \/ Waiting(u)
  BY DEF Beginning, Began, Waiting, HasFirst, HasFirstRow

\* The invariant, seen from one user.
LEMMA MeetIs ==
  ASSUME SessionsTypeOK, RowsMeet, Clean, NEW u \in User
  PROVE  /\ live[u] /\ live[Peer(u)]
         /\ WaitsAlone(u) /\ LastBegun(u) /\ WaitsAlone(Peer(u)) /\ LastBegun(Peer(u))
         /\ OneBegins(u) /\ RowsOf(u)
         /\ Peer(u) \in User /\ Peer(u) # u /\ Peer(Peer(u)) = u
         /\ mail[u] \in Seq(Envelope) /\ mail[Peer(u)] \in Seq(Envelope)
         /\ outbox[u] \in SUBSET Envelope /\ row[u] \in Nat /\ row[Peer(u)] \in Nat /\ asks[u] \in Seq(Ask)
<1>1. Peer(u) \in User /\ Peer(u) # u /\ Peer(Peer(u)) = u
  BY PeerOf
<1>2. RowKept(u) /\ RowKept(Peer(u)) /\ OneBegins(u) /\ RowsOf(u)
  BY <1>1 DEF RowsMeet
<1> QED BY <1>1, <1>2 DEF RowKept, SessionsTypeOK

LEMMA MeetSo ==
  ASSUME NEW u \in User, live' = live, live[u], live[Peer(u)], WaitsAlone(u)', LastBegun(u)',
         WaitsAlone(Peer(u))', LastBegun(Peer(u))', OneBegins(u)', RowsOf(u)'
  PROVE  RowsMeet'
<1>1. /\ Peer(u) \in User /\ Peer(Peer(u)) = u
      /\ \A v \in User : v = u \/ v = Peer(u)
  BY PeerOf
<1>2. RowKept(u)' /\ RowKept(Peer(u))'
  BY DEF RowKept
<1>3. OneBegins(Peer(u))' /\ RowsOf(Peer(u))'
  BY <1>1 DEF OneBegins, RowsOf
<1> QED BY <1>1, <1>2, <1>3 DEF RowsMeet

\* The rest of what is known of the peer of u.
LEMMA PeerWaits ==
  ASSUME NEW v \in User, WaitsAlone(v), asks'[v] = asks[v], row'[v] = row[v], outbox'[v] = outbox[v]
  PROVE  WaitsAlone(v)' /\ (Waiting(v)' <=> Waiting(v))
  BY DEF WaitsAlone, Waiting

\* Nobody waits on the side of u.
LEMMA NoneWaits ==
  ASSUME NEW u \in User, \A i \in DOMAIN asks'[u] : asks'[u][i].over
  PROVE  WaitsAlone(u)' /\ ~Waiting(u)'
  BY DEF WaitsAlone, Waiting

LEMMA BegunStays ==
  ASSUME NEW v \in User, row'[v] = row[v], outbox'[v] = outbox[v], mail'[Peer(v)] = mail[Peer(v)]
  PROVE  (LastBegun(v) => LastBegun(v)') /\ (Began(v)' <=> Began(v))
  BY DEF LastBegun, Began

LEMMA NoFirsts ==
  ASSUME NEW o, NEW q, NEW s
  PROVE  (~HasFirstRow(o) => LastFirstRow(o, s)) /\ (~HasFirst(q) => LastFirst(q, s))
  BY DEF HasFirstRow, LastFirstRow, HasFirst, LastFirst

\* Who begins a session is alone in that.
LEMMA AskMeets ==
  ASSUME SessionsTypeOK, NEW u \in User, NEW for, NEW text, NEW kept, AskBundle(u, for, text, kept), Clean'
  PROVE  /\ asks[u] = <<>> /\ ~Began(Peer(u)) /\ ~Waiting(Peer(u))
         /\ asks'[Peer(u)] = asks[Peer(u)]
         /\ \A i \in DOMAIN asks'[u] : asks'[u][i].for = for /\ asks'[u][i].text = text
<1>1. PICK id \in 1 .. 4, k \in PreKey \cup {0} : Asks(u, for, text, kept, id, k)
  BY AskIs
<1> DEFINE a == [id |-> id, for |-> for, text |-> text, kept |-> kept, over |-> FALSE]
<1>2. /\ asks' = [asks EXCEPT ![u] = Append(@, a)]
      /\ hurried' = (hurried \/ asks[u] # <<>>) /\ clashed' = (clashed \/ Beginning(Peer(u)))
  BY <1>1 DEF Asks
<1>3. asks[u] = <<>> /\ ~Beginning(Peer(u))
  BY <1>2 DEF Clean
<1>4. Peer(u) \in User /\ Peer(u) # u
  BY PeerOf
<1>5. ~Began(Peer(u)) /\ ~Waiting(Peer(u))
  BY <1>3, <1>4, BeginningIs
<1>6. a.for = for /\ a.text = text
  OBVIOUS
<1> HIDE DEF a
<1>7. asks'[u] = <<a>> /\ asks'[Peer(u)] = asks[Peer(u)]
  BY <1>2, <1>3, <1>4 DEF SessionsTypeOK
<1>8. \A i \in DOMAIN asks'[u] : asks'[u][i] = a
  BY <1>7
<1> QED BY <1>3, <1>5, <1>6, <1>7, <1>8

LEMMA SendTextMeets ==
  ASSUME SessionsTypeOK, Fitting, RowsMeet, Clean, NEW u \in User, SendText(u), Clean' PROVE RowsMeet'
<1> DEFINE p == Peer(u)
<1>1. UNCHANGED <<live, row, mail>>
  BY DEF SendText
<1>2. /\ live[u] /\ live[p] /\ WaitsAlone(u) /\ LastBegun(u) /\ WaitsAlone(p) /\ LastBegun(p)
      /\ OneBegins(u) /\ RowsOf(u) /\ p \in User /\ p # u /\ Peer(p) = u
      /\ outbox[u] \in SUBSET Envelope /\ row[u] \in Nat /\ asks[u] \in Seq(Ask)
  BY MeetIs
<1>3. Len(texts) \in Nat /\ \A e \in outbox[u] : e.text < Len(texts) + 1
  <2>1. DOMAIN texts = 1 .. Len(texts) /\ Len(texts) \in Nat
    BY DEF SessionsTypeOK
  <2>2. \A e \in outbox[u] : e.text \in DOMAIN texts
    BY DEF Fitting, RowsFit
  <2> QED BY <2>1, <2>2
<1>4. CASE row[u] # 0
  <2> DEFINE e == Sealed("message", Len(texts) + 1, row[u], FALSE, 0)
  <2>1. outbox' = [outbox EXCEPT ![u] = Enqueued(@, {e})] /\ asks' = asks
    BY <1>4 DEF SendText
  <2>2. e \in Envelope /\ ~e.first /\ e.text = Len(texts) + 1
    BY <1>2, <1>3 DEF Sealed, Envelope
  <2> HIDE DEF e
  <2>3. outbox'[u] = Enqueued(outbox[u], {e}) /\ outbox'[p] = outbox[p]
    BY <1>2, <2>1 DEF SessionsTypeOK
  <2>4. /\ HasFirstRow(outbox'[u]) <=> HasFirstRow(outbox[u])
        /\ LastFirstRow(outbox[u], row[u]) => LastFirstRow(outbox'[u], row[u])
    <3> DEFINE o == outbox[u]
    <3>1. o \in SUBSET Envelope /\ \A g \in o : g.text < e.text
      BY <1>2, <1>3, <2>2
    <3>2. outbox'[u] = Enqueued(o, {e}) /\ ~e.first /\ e \in Envelope
      BY <2>2, <2>3
    <3> HIDE DEF o
    <3>3. /\ HasFirstRow(Enqueued(o, {e})) <=> HasFirstRow(o) \/ e.first
          /\ ~e.first /\ LastFirstRow(o, row[u]) => LastFirstRow(Enqueued(o, {e}), row[u])
      BY <3>1, <3>2, FirstRowQueued
    <3> QED BY <3>2, <3>3 DEF o
  <2>5. LastBegun(u)' /\ (Began(u)' <=> Began(u))
    BY <1>1, <1>2, <2>4 DEF LastBegun, Began
  <2>6. LastBegun(p)' /\ (Began(p)' <=> Began(p))
    BY <1>1, <1>2, <2>3, BegunStays
  <2>7. \A i \in DOMAIN asks[u] : asks[u][i].over
    BY <1>2, <1>4 DEF WaitsAlone
  <2>8. WaitsAlone(u)' /\ ~Waiting(u)'
    BY <2>1, <2>7, NoneWaits
  <2>9. WaitsAlone(p)' /\ (Waiting(p)' <=> Waiting(p))
    BY <1>1, <1>2, <2>1, <2>3, PeerWaits
  <2>10. OneBegins(u)' /\ RowsOf(u)'
    BY <1>1, <1>2, <2>5, <2>6, <2>8, <2>9 DEF OneBegins, RowsOf
  <2> QED BY <1>1, <1>2, <2>5, <2>6, <2>8, <2>9, <2>10, MeetSo
<1>5. CASE row[u] = 0
  <2>1. AskBundle(u, "send", Len(texts) + 1, FALSE) /\ outbox' = outbox
    BY <1>5 DEF SendText
  <2>2. /\ ~Began(p) /\ ~Waiting(p) /\ asks'[p] = asks[p]
        /\ \A i \in DOMAIN asks'[u] : asks'[u][i].for = "send" /\ asks'[u][i].text = Len(texts) + 1
    BY <2>1, AskMeets
  <2>3. WaitsAlone(u)'
    BY <1>1, <1>3, <1>5, <2>1, <2>2 DEF WaitsAlone
  <2>4. LastBegun(u)' /\ (Began(u)' <=> Began(u)) /\ LastBegun(p)' /\ (Began(p)' <=> Began(p))
    BY <1>1, <1>2, <2>1, BegunStays
  <2>5. WaitsAlone(p)' /\ (Waiting(p)' <=> Waiting(p))
    BY <1>1, <1>2, <2>1, <2>2, PeerWaits
  <2>6. OneBegins(u)' /\ RowsOf(u)'
    BY <1>1, <1>2, <2>2, <2>4, <2>5 DEF OneBegins, RowsOf
  <2> QED BY <1>1, <1>2, <2>3, <2>4, <2>5, <2>6, MeetSo
<1> QED BY <1>4, <1>5

LEMMA FlushMeets ==
  ASSUME SessionsTypeOK, Fitting, RowsMeet, Clean, NEW u \in User, FlushText(u) PROVE RowsMeet'
<1> DEFINE p == Peer(u)
<1>1. PICK e, f : Flushes(u, e, f)
  BY FlushIs
<1>2. /\ live[u] /\ live[p] /\ WaitsAlone(u) /\ LastBegun(u) /\ WaitsAlone(p) /\ LastBegun(p)
      /\ OneBegins(u) /\ RowsOf(u) /\ p \in User /\ p # u /\ Peer(p) = u
      /\ mail[p] \in Seq(Envelope) /\ outbox[u] \in SUBSET Envelope
  BY MeetIs
<1>3. /\ e \in outbox[u] /\ \A o \in outbox[u] : e.text <= o.text
      /\ f \in Envelope /\ f.session = e.session /\ (f.first <=> e.first)
      /\ mail' = [mail EXCEPT ![p] = Append(mail[p], f)]
      /\ outbox' = [outbox EXCEPT ![u] = outbox[u] \ {e}]
      /\ UNCHANGED <<live, row, asks>>
  BY <1>1 DEF Flushes, Posts
<1>4. /\ mail'[p] = Append(mail[p], f) /\ mail'[u] = mail[u]
      /\ outbox'[u] = outbox[u] \ {e} /\ outbox'[p] = outbox[p]
  BY <1>2, <1>3 DEF SessionsTypeOK
<1>5. \A g, h \in outbox[u] : g.text = h.text => g = h
  BY DEF Fitting, RowsFit
<1> DEFINE s == row[u]
<1>6. /\ HasFirstRow(outbox[u]) <=> HasFirstRow(outbox'[u]) \/ e.first
      /\ LastFirstRow(outbox[u], s) => LastFirstRow(outbox'[u], s)
      /\ LastFirstRow(outbox[u], s) /\ e.first /\ ~HasFirstRow(outbox'[u]) => e.session = s
  <2> DEFINE o == outbox[u]
  <2>1. o \in SUBSET Envelope /\ e \in o /\ (\A g \in o : e.text <= g.text)
    BY <1>2, <1>3
  <2>2. \A g, h \in o : g.text = h.text => g = h
    BY <1>5
  <2>3. outbox'[u] = o \ {e}
    BY <1>4
  <2> HIDE DEF o
  <2>4. /\ HasFirstRow(o) <=> HasFirstRow(o \ {e}) \/ e.first
        /\ LastFirstRow(o, s) => LastFirstRow(o \ {e}, s)
        /\ LastFirstRow(o, s) /\ e.first /\ ~HasFirstRow(o \ {e}) => e.session = s
    BY <2>1, <2>2, FirstRowSent
  <2> QED BY <2>3, <2>4 DEF o
<1>7. /\ HasFirst(mail'[p]) <=> HasFirst(mail[p]) \/ f.first
      /\ ~f.first /\ LastFirst(mail[p], s) => LastFirst(mail'[p], s)
      /\ f.first /\ f.session = s => LastFirst(mail'[p], s)
  BY <1>2, <1>3, <1>4, FirstAppended
<1>8. LastBegun(u)' /\ (Began(u)' <=> Began(u))
  BY <1>2, <1>3, <1>6, <1>7 DEF LastBegun, Began
<1>9. LastBegun(p)' /\ (Began(p)' <=> Began(p))
  BY <1>2, <1>3, <1>4, BegunStays
<1>10. WaitsAlone(p)' /\ (Waiting(p)' <=> Waiting(p))
  BY <1>2, <1>3, <1>4, PeerWaits
<1>11. WaitsAlone(u)' /\ (Waiting(u)' <=> Waiting(u))
  BY <1>2, <1>3, <1>4 DEF WaitsAlone, Waiting
<1>12. OneBegins(u)' /\ RowsOf(u)'
  BY <1>2, <1>3, <1>8, <1>9, <1>10, <1>11 DEF OneBegins, RowsOf
<1> QED BY <1>2, <1>3, <1>8, <1>9, <1>10, <1>11, <1>12, MeetSo

LEMMA SendEditMeets ==
  ASSUME SessionsTypeOK, Fitting, RowsMeet, Clean, NEW u \in User, SendEdit(u) PROVE RowsMeet'
<1> DEFINE p == Peer(u)
<1>1. PICK e \in Envelope : \E f :
           /\ ~e.first /\ Posts(p, e, f)
           /\ mail' = [mail EXCEPT ![p] = Append(mail[p], f)]
           /\ UNCHANGED <<live, row, asks, outbox>>
  BY SendEditIs
<1>2. PICK f : /\ ~e.first /\ Posts(p, e, f)
               /\ mail' = [mail EXCEPT ![p] = Append(mail[p], f)]
               /\ UNCHANGED <<live, row, asks, outbox>>
  BY <1>1
<1>3. /\ live[u] /\ live[p] /\ WaitsAlone(u) /\ LastBegun(u) /\ WaitsAlone(p) /\ LastBegun(p)
      /\ OneBegins(u) /\ RowsOf(u) /\ p \in User /\ p # u /\ Peer(p) = u
      /\ mail[p] \in Seq(Envelope)
  BY MeetIs
<1>4. f \in Envelope /\ ~f.first
  BY <1>2 DEF Posts
<1>5. mail'[p] = Append(mail[p], f) /\ mail'[u] = mail[u]
  BY <1>2, <1>3 DEF SessionsTypeOK
<1> DEFINE s == row[u]
<1>6. (HasFirst(mail'[p]) <=> HasFirst(mail[p])) /\ (LastFirst(mail[p], s) => LastFirst(mail'[p], s))
  BY <1>3, <1>4, <1>5, FirstAppended
<1>7. LastBegun(u)' /\ (Began(u)' <=> Began(u))
  BY <1>2, <1>3, <1>6 DEF LastBegun, Began
<1>8. LastBegun(p)' /\ (Began(p)' <=> Began(p))
  BY <1>2, <1>3, <1>5, BegunStays
<1>9. WaitsAlone(p)' /\ (Waiting(p)' <=> Waiting(p)) /\ WaitsAlone(u)' /\ (Waiting(u)' <=> Waiting(u))
  BY <1>2, <1>3, PeerWaits
<1>10. OneBegins(u)' /\ RowsOf(u)'
  BY <1>2, <1>3, <1>7, <1>8, <1>9 DEF OneBegins, RowsOf
<1> QED BY <1>2, <1>3, <1>7, <1>8, <1>9, <1>10, MeetSo

LEMMA RebuildsMeets ==
  ASSUME SessionsTypeOK, Fitting, RowsMeet, Clean, NEW u \in User, mail[u] # <<>>, Rebuilds(u, mail[u][1]), Clean'
  PROVE  RowsMeet'
<1> DEFINE p == Peer(u)
<1>1. /\ row' = [row EXCEPT ![u] = 0] /\ outbox' = [outbox EXCEPT ![u] = {}]
      /\ AskBundle(u, "repair", 0, mail[u][1].kept)
      /\ mail' = [mail EXCEPT ![u] = Tail(mail[u])] /\ UNCHANGED live
  BY DEF Rebuilds
<1>2. /\ live[u] /\ live[p] /\ WaitsAlone(u) /\ LastBegun(u) /\ WaitsAlone(p) /\ LastBegun(p)
      /\ OneBegins(u) /\ RowsOf(u) /\ p \in User /\ p # u /\ Peer(p) = u
      /\ mail[u] \in Seq(Envelope)
  BY MeetIs
<1>3. /\ row'[u] = 0 /\ row'[p] = row[p] /\ outbox'[u] = {} /\ outbox'[p] = outbox[p]
      /\ mail'[u] = Tail(mail[u]) /\ mail'[p] = mail[p]
  BY <1>1, <1>2 DEF SessionsTypeOK
<1>4. ~Began(p) /\ ~Waiting(p) /\ asks'[p] = asks[p]
  BY <1>1, AskMeets
<1> DEFINE s == row[p]
<1>5. (HasFirst(mail'[u]) => HasFirst(mail[u])) /\ (LastFirst(mail[u], s) => LastFirst(mail'[u], s))
  BY <1>2, <1>3, FirstTaken
<1>6. LastBegun(p)' /\ ~Began(p)'
  BY <1>2, <1>3, <1>4, <1>5 DEF LastBegun, Began
<1>7. WaitsAlone(p)' /\ ~Waiting(p)'
  BY <1>2, <1>3, <1>4, PeerWaits
<1>8. WaitsAlone(u)' /\ LastBegun(u)'
  BY <1>3 DEF WaitsAlone, LastBegun
<1>9. OneBegins(u)' /\ RowsOf(u)'
  BY <1>3, <1>6, <1>7 DEF OneBegins, RowsOf
<1> QED BY <1>1, <1>2, <1>6, <1>7, <1>8, <1>9, MeetSo

LEMMA ReadsMeets ==
  ASSUME SessionsTypeOK, Fitting, RowsMeet, Clean, NEW u \in User, mail[u] # <<>>, NEW d, Reads(u, mail[u][1], d)
  PROVE  RowsMeet'
<1> DEFINE p == Peer(u)
           e == mail[u][1]
<1>1. Takes(u, d) /\ d \in Outcome /\ UNCHANGED <<live, outbox, asks>>
  BY DEF Reads
<1>2. d.row = 0 \/ (d.row = e.session /\ (d.row = row[u] \/ e.first))
  BY DEF Reads, Answerable
<1>3. /\ live[u] /\ live[p] /\ WaitsAlone(u) /\ LastBegun(u) /\ WaitsAlone(p) /\ LastBegun(p)
      /\ OneBegins(u) /\ RowsOf(u) /\ p \in User /\ p # u /\ Peer(p) = u
      /\ mail[u] \in Seq(Envelope) /\ mail[p] \in Seq(Envelope)
  BY MeetIs
<1>4. row'[u] = d.row /\ row'[p] = row[p] /\ mail'[u] = Tail(mail[u])
  BY <1>1, <1>3 DEF Takes, SessionsTypeOK
<1> HIDE DEF e
<1>5. /\ HasFirst(mail'[p]) <=> HasFirst(mail[p])
      /\ \A s : LastFirst(mail[p], s) => LastFirst(mail'[p], s)
  <2>1. CASE mail'[p] = mail[p]
    BY <2>1
  <2>2. CASE mail'[p] # mail[p]
    <3> DEFINE g == Sealed("reset", 0, 0, FALSE, 0)
    <3>1. ~g.first
      BY DEF Sealed
    <3>2. PICK f : Posts(p, g, f) /\ mail'[p] = Append(mail[p], f)
      BY <1>1, <2>2 DEF Takes
    <3> HIDE DEF g
    <3>3. f \in Envelope /\ ~f.first
      BY <3>1, <3>2 DEF Posts
    <3> QED BY <1>3, <3>2, <3>3, FirstAppended
  <2> QED BY <2>1, <2>2
<1>6. /\ HasFirst(mail[u]) <=> HasFirst(mail'[u]) \/ e.first
      /\ LastFirst(mail[u], row[p]) => LastFirst(mail'[u], row[p])
      /\ LastFirst(mail[u], row[p]) /\ e.first /\ ~HasFirst(mail'[u]) => e.session = row[p]
  BY <1>3, <1>4, FirstTaken DEF e
<1>7. Began(u)' <=> Began(u)
  BY <1>1, <1>5 DEF Began
<1>8. LastBegun(p)' /\ (Began(p) <=> Began(p)' \/ e.first)
  BY <1>1, <1>3, <1>4, <1>6 DEF LastBegun, Began
<1>9. e.first => ~Began(u) /\ ~Waiting(u)
  BY <1>3, <1>8 DEF OneBegins
<1>10. LastBegun(u)'
  <2>1. CASE d.row = 0
    BY <1>4, <2>1 DEF LastBegun
  <2>2. CASE d.row = row[u]
    BY <1>1, <1>3, <1>4, <1>5, <2>2 DEF LastBegun
  <2>3. CASE e.first
    <3>1. ~HasFirstRow(outbox'[u]) /\ ~HasFirst(mail'[p])
      BY <1>1, <1>5, <1>9, <2>3 DEF Began
    <3>2. LastFirstRow(outbox'[u], d.row) /\ LastFirst(mail'[p], d.row)
      BY <3>1, NoFirsts
    <3> QED BY <1>4, <3>2 DEF LastBegun
  <2> QED BY <1>2, <2>1, <2>2, <2>3
<1>11. WaitsAlone(u)' /\ (Waiting(u)' <=> Waiting(u))
  <2>1. Waiting(u) => row[u] = 0
    BY <1>3 DEF Waiting, WaitsAlone
  <2>2. Waiting(u) => row'[u] = 0
    BY <1>2, <1>4, <1>9, <2>1
  <2> QED BY <1>1, <1>3, <2>2 DEF WaitsAlone, Waiting
<1>12. WaitsAlone(p)' /\ (Waiting(p)' <=> Waiting(p))
  BY <1>1, <1>3, <1>4, PeerWaits
<1>13. OneBegins(u)'
  BY <1>3, <1>7, <1>8, <1>11, <1>12 DEF OneBegins
<1>14. RowsOf(u)'
  <2> SUFFICES ASSUME d.row # 0, row[p] # 0, d.row # row[p], ~Began(u), ~Began(p)' PROVE FALSE
    BY <1>4, <1>7 DEF RowsOf
  <2>1. CASE e.first
    <3>1. ~HasFirstRow(outbox[p]) /\ ~HasFirst(mail'[u])
      BY <1>1, <1>3 DEF Began
    <3>2. LastFirst(mail[u], row[p])
      BY <1>3, <3>1 DEF LastBegun
    <3> QED BY <1>2, <1>6, <2>1, <3>1, <3>2, <1>9, <1>3 DEF LastBegun
  <2>2. CASE ~e.first
    BY <1>2, <1>3, <1>8, <2>2 DEF RowsOf
  <2> QED BY <2>1, <2>2
<1> QED BY <1>1, <1>3, <1>8, <1>10, <1>11, <1>12, <1>13, <1>14, MeetSo

\* The answer of the only caller begins a session, and nobody else begins one.
LEMMA ResolvesMeets ==
  ASSUME SessionsTypeOK, Fitting, RowsMeet, Clean, NEW u \in User, OneAsk(u), NEW i, NEW k \in PreKey \cup {0},
         NEW s \in Nat \ {0}, NEW up, Resolves(u, i, k, s, up, mail), up, live' = live,
         \A j \in DOMAIN asks'[u] : asks'[u][j].over
  PROVE  RowsMeet'
<1> DEFINE p == Peer(u)
           a == asks[u][i]
<1>1. i \in DOMAIN asks[u] /\ ~a.over /\ Finishes(u, a, s, k, up, mail) /\ Waiting(u)
  BY DEF Resolves, Waiting
<1>2. /\ live[u] /\ live[p] /\ WaitsAlone(u) /\ LastBegun(u) /\ WaitsAlone(p) /\ LastBegun(p)
      /\ OneBegins(u) /\ RowsOf(u) /\ p \in User /\ p # u /\ Peer(p) = u
      /\ mail[p] \in Seq(Envelope) /\ outbox[u] \in SUBSET Envelope
  BY MeetIs
<1>3. a \in Ask /\ a.text \in Nat
  <2>1. a \in Ask
    BY <1>1, AskKnown DEF Fitting
  <2> QED BY <2>1, AskFields
<1>4. row[u] = 0 /\ \A e \in outbox[u] : a.for = "send" /\ e.text < a.text
  BY <1>1, <1>2 DEF WaitsAlone
<1>5. ~Began(p) /\ ~Waiting(p)
  BY <1>1, <1>2 DEF OneBegins
<1>6. row' = [row EXCEPT ![u] = s] /\ asks'[p] = asks[p]
  <2>1. row' = [row EXCEPT ![u] = s]
    BY <1>1 DEF Finishes
  <2>2. asks'[p] = asks[p]
    BY <1>2 DEF Resolves, SessionsTypeOK
  <2> QED BY <2>1, <2>2
<1>7. row'[u] = s /\ row'[p] = row[p] /\ s # 0
  BY <1>2, <1>6 DEF SessionsTypeOK
<1>8. WaitsAlone(u)' /\ ~Waiting(u)'
  BY NoneWaits
<1> HIDE DEF a
<1>9. /\ outbox'[p] = outbox[p] /\ mail'[u] = mail[u]
      /\ HasFirstRow(outbox'[u]) \/ HasFirst(mail'[p])
      /\ LastFirstRow(outbox'[u], s)
      /\ HasFirstRow(outbox'[u]) \/ LastFirst(mail'[p], s)
  <2>1. CASE Starts(u, a.text, s, k, mail) /\ a.for = "send"
    <3> DEFINE m == Sealed("message", a.text, s, TRUE, k)
               o == outbox[u]
    <3>1. m \in Envelope /\ m.first /\ m.session = s /\ m.text = a.text
      BY <1>3 DEF Sealed, Envelope
    <3>2. outbox' = [outbox EXCEPT ![u] = Enqueued(@, {m})] /\ mail' = mail
      BY <2>1 DEF Starts
    <3> HIDE DEF m
    <3>3. outbox'[u] = Enqueued(o, {m}) /\ outbox'[p] = outbox[p]
      BY <1>2, <3>2 DEF SessionsTypeOK
    <3>4. o \in SUBSET Envelope /\ \A g \in o : g.text < m.text
      BY <1>2, <1>4, <3>1
    <3> HIDE DEF o
    <3>5. HasFirstRow(Enqueued(o, {m})) /\ LastFirstRow(Enqueued(o, {m}), s)
      BY <3>1, <3>4, FirstRowQueued
    <3> QED BY <3>2, <3>3, <3>5
  <2>2. CASE Repairs(u, s, k, mail) /\ a.for = "repair"
    <3> DEFINE r == Sealed("repair", 0, s, TRUE, k)
               f == [r EXCEPT !.kept = ~live[p]]
    <3>1. r \in Envelope /\ r.first /\ r.session = s
      BY DEF Sealed, Envelope
    <3>2. /\ outbox' = [outbox EXCEPT ![u] = Enqueued(@, Again(u, s))]
          /\ mail' = [mail EXCEPT ![p] = Append(mail[p], f)]
      BY <2>2 DEF Repairs
    <3> HIDE DEF r
    <3>3. f \in Envelope /\ f.first /\ f.session = s
      BY <1>2, <3>1 DEF Envelope, SessionsTypeOK
    <3> HIDE DEF f
    <3>4. /\ outbox'[u] = Enqueued(outbox[u], Again(u, s)) /\ outbox'[p] = outbox[p]
          /\ mail'[p] = Append(mail[p], f) /\ mail'[u] = mail[u]
      BY <1>2, <3>2 DEF SessionsTypeOK
    <3>5. outbox[u] = {}
      BY <1>4, <2>2
    <3>6. \A e \in Again(u, s) : ~e.first
      BY AgainIs
    <3>7. ~HasFirstRow(outbox'[u])
      BY <3>4, <3>5, <3>6 DEF Enqueued, HasFirstRow
    <3>8. LastFirstRow(outbox'[u], s)
      BY <3>7, NoFirsts
    <3>9. HasFirst(mail'[p]) /\ LastFirst(mail'[p], s)
      BY <1>2, <3>3, <3>4, FirstAppended
    <3> QED BY <3>4, <3>8, <3>9
  <2> QED BY <1>1, <2>1, <2>2 DEF Finishes
<1>10. LastBegun(u)' /\ Began(u)'
  BY <1>7, <1>9 DEF LastBegun, Began
<1>11. LastBegun(p)' /\ ~Began(p)'
  BY <1>2, <1>5, <1>7, <1>9, BegunStays
<1>12. WaitsAlone(p)' /\ ~Waiting(p)'
  BY <1>2, <1>5, <1>6, <1>7, <1>9, PeerWaits
<1>13. OneBegins(u)' /\ RowsOf(u)'
  BY <1>10, <1>11, <1>12 DEF OneBegins, RowsOf
<1> QED BY <1>2, <1>8, <1>10, <1>11, <1>12, <1>13, MeetSo

\* A caller that nobody hears any more changes neither row.
LEMMA OverMeets ==
  ASSUME SessionsTypeOK, RowsMeet, Clean, NEW u \in User, UNCHANGED <<live, row, outbox, mail>>,
         asks'[Peer(u)] = asks[Peer(u)], \A j \in DOMAIN asks'[u] : asks'[u][j].over
  PROVE  RowsMeet'
<1> DEFINE p == Peer(u)
<1>1. /\ live[u] /\ live[p] /\ WaitsAlone(u) /\ LastBegun(u) /\ WaitsAlone(p) /\ LastBegun(p)
      /\ OneBegins(u) /\ RowsOf(u) /\ p \in User /\ p # u /\ Peer(p) = u
  BY MeetIs
<1>2. LastBegun(u)' /\ (Began(u)' <=> Began(u)) /\ LastBegun(p)' /\ (Began(p)' <=> Began(p))
  BY <1>1, BegunStays
<1>3. WaitsAlone(u)' /\ ~Waiting(u)'
  BY NoneWaits
<1>4. WaitsAlone(p)' /\ (Waiting(p)' <=> Waiting(p))
  BY <1>1, PeerWaits
<1>5. OneBegins(u)' /\ RowsOf(u)'
  BY <1>1, <1>2, <1>3, <1>4 DEF OneBegins, RowsOf
<1> QED BY <1>1, <1>2, <1>3, <1>4, <1>5, MeetSo

LEMMA ArrivesMeets ==
  ASSUME SessionsTypeOK, Fitting, RowsMeet, Clean, NEW u \in User, OneAsk(u), BundleArrives(u)
  PROVE  RowsMeet'
<1>1. PICK n \in DOMAIN bundles[u] :
           /\ bundles[u][n] \in PreKey \cup {0}
           /\ \/ /\ ear[u] = 0
                 /\ UNCHANGED <<asks, ear, row, outbox, texts, mail>>
              \/ \E i \in DOMAIN asks[u], s \in Nat \ {0} :
                   Resolves(u, i, bundles[u][n], s, TRUE, mail) /\ asks[u][i].id = ear[u]
                   /\ asks' = [asks EXCEPT ![u] = Over(u, ear[u])]
           /\ live' = live
  BY ArrivesIs
<1>2. CASE ear[u] = 0 /\ UNCHANGED <<asks, ear, row, outbox, texts, mail>>
  <2>1. \A i \in DOMAIN asks[u] : asks[u][i].over
    BY <1>2, LiveAsk
  <2> QED BY <1>1, <1>2, <2>1, OverMeets
<1>3. ASSUME NEW i \in DOMAIN asks[u], NEW s \in Nat \ {0}, Resolves(u, i, bundles[u][n], s, TRUE, mail),
             asks' = [asks EXCEPT ![u] = Over(u, ear[u])]
      PROVE  RowsMeet'
  <2>1. asks'[u] = Over(u, ear[u])
    BY <1>3 DEF SessionsTypeOK
  <2>2. \A j \in DOMAIN asks'[u] : asks'[u][j].over
    BY <2>1, AnsweredAlone
  <2> DEFINE k == bundles[u][n]
  <2>3. k \in PreKey \cup {0} /\ Resolves(u, i, k, s, TRUE, mail)
    BY <1>1, <1>3
  <2> HIDE DEF k
  <2> QED BY <1>1, <2>2, <2>3, ResolvesMeets
<1> QED BY <1>1, <1>2, <1>3

LEMMA TimeoutMeets ==
  ASSUME SessionsTypeOK, Fitting, RowsMeet, Clean, NEW u \in User, OneAsk(u), BundleTimeout(u)
  PROVE  RowsMeet'
<1>1. /\ asks[u] # <<>> /\ asks' = [asks EXCEPT ![u] = Tail(asks[u])]
      /\ \/ UNCHANGED <<row, outbox, texts, mail>>
         \/ \E s \in Nat \ {0} : Resolves(u, 1, 0, s, live[u], mail)
      /\ live' = live
  BY TimeoutIs
<1>2. asks'[u] = Tail(asks[u]) /\ asks'[Peer(u)] = asks[Peer(u)]
  BY <1>1, PeerOf DEF SessionsTypeOK
<1>3. \A j \in DOMAIN asks'[u] : asks'[u][j].over
  BY <1>1, <1>2, AnsweredAlone
<1>4. CASE UNCHANGED <<row, outbox, texts, mail>>
  BY <1>1, <1>2, <1>3, <1>4, OverMeets
<1>5. ASSUME NEW s \in Nat \ {0}, Resolves(u, 1, 0, s, live[u], mail) PROVE RowsMeet'
  <2>1. live[u] /\ 0 \in PreKey \cup {0}
    BY MeetIs
  <2> QED BY <1>1, <1>3, <1>5, <2>1, ResolvesMeets
<1> QED BY <1>1, <1>4, <1>5

LEMMA NextMeets ==
  ASSUME SessionsTypeOK, Fitting, AskAlone, RowsMeet, [SessionsNext]_sessionVars
  PROVE  RowsMeet'
<1> SUFFICES ASSUME Clean' PROVE RowsMeet'
  BY DEF RowsMeet
<1>1. CASE UNCHANGED <<live, row, outbox, mail, asks, clashed, hurried, severed>>
  BY <1>1 DEF RowsMeet, Clean, RowKept, OneBegins, RowsOf, WaitsAlone, LastBegun, Began, Waiting
<1>2. CASE UNCHANGED sessionVars
  BY <1>1, <1>2 DEF sessionVars
<1>3. CASE SessionsNext
  <2>1. PICK u \in User : \/ BundleArrives(u) \/ BundleTimeout(u) \/ FlushText(u) \/ Receive(u)
                          \/ LinkUp(u) \/ CooldownEnds(u) \/ SendText(u) \/ SendEdit(u) \/ LinkDrops(u)
    BY <1>3 DEF SessionsNext, SessionsProgress
  <2>2. CASE BundleArrives(u)
    <3>1. Clean
      BY <2>2 DEF BundleArrives, Clean
    <3> QED BY <2>2, <3>1, ArrivesMeets DEF AskAlone, Clean
  <2>3. CASE BundleTimeout(u)
    <3>1. Clean
      BY <2>3 DEF BundleTimeout, Clean
    <3> QED BY <2>3, <3>1, TimeoutMeets DEF AskAlone, Clean
  <2>4. CASE FlushText(u)
    <3>1. Clean
      BY <2>4 DEF FlushText, Clean
    <3> QED BY <2>4, <3>1, FlushMeets
  <2>5. CASE Receive(u)
    <3>1. /\ mail[u] # <<>>
          /\ Rebuilds(u, mail[u][1]) \/ \E d : Reads(u, mail[u][1], d)
      BY <2>5, ReceiveIs
    <3>2. CASE Rebuilds(u, mail[u][1])
      <4>1. AskBundle(u, "repair", 0, mail[u][1].kept) /\ severed' = severed
        BY <3>2 DEF Rebuilds
      <4>2. PICK id \in 1 .. 4, k \in PreKey \cup {0} : Asks(u, "repair", 0, mail[u][1].kept, id, k)
        BY <4>1, AskIs
      <4>3. Clean
        BY <4>1, <4>2 DEF Asks, Clean
      <4> QED BY <3>1, <3>2, <4>3, RebuildsMeets
    <3>3. ASSUME NEW d, Reads(u, mail[u][1], d) PROVE RowsMeet'
      <4>1. Clean
        BY <3>3 DEF Reads, Clean
      <4> QED BY <3>1, <3>3, <4>1, ReadsMeets
    <3> QED BY <3>1, <3>2, <3>3
  <2>6. CASE LinkUp(u)
    <3>1. Clean /\ ~live[u]
      BY <2>6 DEF LinkUp, Clean
    <3> QED BY <3>1, MeetIs
  <2>7. CASE CooldownEnds(u)
    BY <1>1, <2>7 DEF CooldownEnds
  <2>8. CASE SendText(u)
    <3>1. Clean
      <4>1. CASE row[u] # 0
        BY <2>8, <4>1 DEF SendText, Clean
      <4>2. CASE row[u] = 0
        <5>1. AskBundle(u, "send", Len(texts) + 1, FALSE) /\ severed' = severed
          BY <2>8, <4>2 DEF SendText
        <5>2. PICK id \in 1 .. 4, k \in PreKey \cup {0} : Asks(u, "send", Len(texts) + 1, FALSE, id, k)
          BY <5>1, AskIs
        <5> QED BY <5>1, <5>2 DEF Asks, Clean
      <4> QED BY <4>1, <4>2
    <3> QED BY <2>8, <3>1, SendTextMeets
  <2>9. CASE SendEdit(u)
    <3>1. Clean
      BY <2>9 DEF SendEdit, Clean
    <3> QED BY <2>9, <3>1, SendEditMeets
  <2>10. CASE LinkDrops(u)
    <3>1. "link" \in severed'
      BY <2>10 DEF LinkDrops
    <3> QED BY <3>1 DEF Clean
  <2> QED BY <2>1, <2>2, <2>3, <2>4, <2>5, <2>6, <2>7, <2>8, <2>9, <2>10
<1> QED BY <1>2, <1>3

LEMMA InitMeets == ASSUME SessionsInit PROVE RowsMeet
<1> SUFFICES ASSUME NEW u \in User PROVE RowKept(u) /\ OneBegins(u) /\ RowsOf(u)
  BY DEF RowsMeet
<1>1. Peer(u) \in User
  BY PeerOf
<1>2. \A v \in User : /\ live[v] /\ row[v] = 0 /\ outbox[v] = {} /\ mail[v] = <<>> /\ asks[v] = <<>>
                      /\ DOMAIN asks[v] = {} /\ DOMAIN mail[v] = {}
  BY DEF SessionsInit
<1>3. ~Began(u) /\ ~Waiting(u) /\ WaitsAlone(u) /\ LastBegun(u)
  BY <1>1, <1>2 DEF Began, Waiting, WaitsAlone, LastBegun, HasFirst, HasFirstRow
<1> QED BY <1>1, <1>2, <1>3 DEF RowKept, OneBegins, RowsOf

\* When nothing is on its way nobody has begun a session, so that the two rows
\* name the same one or one of them is missing.
LEMMA MeetAgrees == ASSUME SessionsTypeOK, RowsMeet PROVE RowsAgree
<1> SUFFICES ASSUME Quiet, Clean PROVE Cardinality({row[u] : u \in User} \ {0}) < 2
  BY DEF RowsAgree, Clean
<1>1. PICK a, b \in User : a # b /\ User = {a, b}
  BY SessionsAssumption
<1>2. Peer(a) = b
  BY <1>1, PeerOf
<1>3. ~Began(a) /\ ~Began(b)
  <2>1. \A u \in User : outbox[u] = {} /\ mail[u] = <<>> /\ DOMAIN mail[u] = {}
    BY DEF Quiet
  <2>2. \A u \in User : Peer(u) \in User
    BY PeerOf
  <2> QED BY <1>1, <2>1, <2>2 DEF Began, HasFirst, HasFirstRow
<1>4. row[a] = 0 \/ row[b] = 0 \/ row[a] = row[b]
  BY <1>1, <1>2, <1>3 DEF RowsMeet, RowsOf
<1> DEFINE R == {row[u] : u \in User} \ {0}
<1>5. R = {} \/ \E x : R = {x}
  <2>1. R = {row[a], row[b]} \ {0}
    BY <1>1
  <2> HIDE DEF R
  <2> QED BY <1>4, <2>1
<1> HIDE DEF R
<1>6. Cardinality(R) = 0 \/ Cardinality(R) = 1
  BY <1>5, FS_EmptySet, FS_Singleton
<1> QED BY <1>6 DEF R

\* Two users who never began a session at the same time, and lost no envelope,
\* share a session when nothing is on its way, or one of them has none; and an
\* envelope that begins a session can be answered when it comes.
THEOREM SessionsStayAgreed == SessionsSpec => []SessionsAgree
<1> DEFINE I == SessionsTypeOK /\ Fitting /\ KeysAreHeld /\ AskAlone /\ RowsMeet
<1>1. SessionsInit => I
  BY InitFits, InitKeys, InitCarries, InitMeets
<1>2. I /\ [SessionsNext]_sessionVars => I'
  BY NextFits, NextKeys, NextAlone, NextMeets
<1>3. I => SessionsAgree
  BY HeldOpens, MeetAgrees DEF SessionsAgree
<1> QED BY <1>1, <1>2, <1>3, PTL DEF SessionsSpec

-----------------------------------------------------------------------------
(* The two together.                                                       *)

\* A behaviour of the run of MCLink is one of Calls and one of Sessions: what
\* is proved of either holds in the run, and so do the types of both.
THEOREM LinkIsBoth == LinkSpec => CallsSpec /\ SessionsSpec
<1>1. LinkInit => CallsInit /\ SessionsInit
  BY DEF LinkInit
<1>2. [LinkNext]_linkVars => [CallsNext]_callVars /\ [SessionsNext]_sessionVars
  BY DEF LinkNext, linkVars
<1> QED BY <1>1, <1>2, PTL DEF LinkSpec, CallsSpec, SessionsSpec

\* The overlays, the connections and the sessions always have their types.
THEOREM LinkTypesCorrect == LinkSpec => []TypesOK
<1>1. CallsTypeOK /\ SessionsTypeOK => TypesOK
  BY DEF TypesOK
<1>2. LinkSpec => CallsSpec /\ SessionsSpec
  BY LinkIsBoth
<1>3. CallsSpec => []CallsTypeOK
  BY CallsTypeCorrect
<1>4. SessionsSpec => [](SessionsTypeOK /\ Fitting)
  BY SessionsTypeCorrect
<1> QED BY <1>1, <1>2, <1>3, <1>4, PTL
=============================================================================
