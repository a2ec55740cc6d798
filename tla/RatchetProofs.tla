--------------------------- MODULE RatchetProofs ---------------------------
(***************************************************************************)
(* Ratchet: type correctness; that no message key is used twice; that      *)
(* handlers which overlap make no message unreadable; and, one handler at  *)
(* a time, that a message opens within MaxSkip of those before it, and     *)
(* opens once.  All for every number of messages, key steps and handlers.  *)
(***************************************************************************)
EXTENDS Ratchet, FiniteSetTheorems, TLAPS

\* Each party has a peer.
LEMMA PeerIsParty == ASSUME NEW p \in Party PROVE Peer(p) \in Party
  BY RatchetAssumption DEF Peer

\* What box.keyPair gives next is a key pair.
LEMMA FreshIsPair == ASSUME TypeOK, NEW p \in Party PROVE Fresh(p) \in KeyPair
  BY DEF TypeOK, Fresh, KeyPair

\* kdfRoot yields a chain.
LEMMA KdfRootType ==
  ASSUME NEW root \in Chain, NEW k1 \in KeyPair, NEW k2 \in KeyPair
  PROVE  KdfRoot(root, k1, k2) \in Chain
  BY DEF KdfRoot, Chain

\* Skipping keys of a chain leaves a session.
LEMMA SkipKeysType ==
  ASSUME NEW s \in Session, s.recvChain # None, NEW until \in Nat
  PROVE  SkipKeys(s, until) \in Session
<1>1. CASE until < s.recvN
  BY <1>1 DEF SkipKeys
<1>2. CASE ~(until < s.recvN)
  <2> DEFINE new == {[key |-> s.recvKey, n |-> i, chain |-> s.recvChain] :
                       i \in s.recvN .. (until - 1)}
  <2>1. s.recvKey \in KeyPair /\ s.recvChain \in Chain /\ s.recvN \in Nat
    BY DEF Session, SessionRecord
  <2>2. new \subseteq [key : KeyPair, n : Nat, chain : Chain]
    BY <2>1
  <2>3. s.skipped \cup new \subseteq [key : KeyPair, n : Nat, chain : Chain]
    BY <2>2 DEF Session, SessionRecord
  <2>4. [s EXCEPT !.recvN = until, !.skipped = @ \cup new] \in Session
    BY <2>3 DEF Session, SessionRecord
  <2> QED BY <1>2, <2>4 DEF SkipKeys
<1> QED BY <1>1, <1>2

\* The Diffie-Hellman step leaves a session.
LEMMA TurnType ==
  ASSUME NEW s \in Session, NEW m \in Message, NEW k \in KeyPair
  PROVE  Turn(s, m, k) \in Session
<1> DEFINE old == IF s.recvChain = None THEN s ELSE SkipKeys(s, m.pn)
           recv == KdfRoot(s.root, s.sendKey, m.key)
           send == KdfRoot(recv, k, m.key)
<1>1. old \in Session
  BY SkipKeysType DEF Message
<1>2. recv \in Chain /\ send \in Chain
  BY KdfRootType DEF Session, SessionRecord, Message
<1>3. m.key \in KeyPair /\ s.sendN \in Nat
  BY DEF Session, SessionRecord, Message
<1>4. Turn(s, m, k) =
        [root |-> send, sendChain |-> send, sendKey |-> k, sendN |-> 0, pn |-> s.sendN,
         recvChain |-> recv, recvKey |-> m.key, recvN |-> 0, skipped |-> old.skipped]
  BY DEF Turn
<1> HIDE DEF old, recv, send
<1>5. Turn(s, m, k) \in SessionRecord /\ Turn(s, m, k).recvKey = m.key
  BY <1>1, <1>2, <1>3, <1>4 DEF Session, SessionRecord
<1> QED BY <1>3, <1>5 DEF Session

\* What decrypt leaves is a session.
LEMMA DecryptType ==
  ASSUME NEW s \in Session, NEW m \in Message, NEW k \in KeyPair
  PROVE  Decrypt(s, m, k) \in Session \cup {None}
<1> DEFINE fresh == m.key # s.recvKey
           turned == IF fresh THEN Turn(s, m, k) ELSE s
           draft == SkipKeys(turned, m.n)
<1>1. turned \in Session
  BY TurnType
<1>2. DropSkipped(s, m) \in Session
  BY DEF DropSkipped, Session, SessionRecord
<1>3. ASSUME CanSkip(turned, m.n)
      PROVE  [draft EXCEPT !.recvN = @ + 1] \in Session
  <2>1. draft \in Session
    BY <1>1, <1>3, SkipKeysType DEF CanSkip, Message
  <2> HIDE DEF draft
  <2> QED BY <2>1 DEF Session, SessionRecord
<1> HIDE DEF turned, draft
<1> QED BY <1>2, <1>3 DEF Decrypt, fresh, turned, draft

\* decryptInSession leaves a session, or nothing.
LEMMA OpenType ==
  ASSUME NEW s \in Session \cup {None}, NEW m \in Message, NEW k \in KeyPair
  PROVE  Open(s, m, k) \in Session \cup {None}
<1>1. Respond(m, k) \in Session
  BY DEF Respond, Session, SessionRecord, Chain, Message
<1> QED BY <1>1, DecryptType DEF Open

\* ensureSendChain leaves a session with a chain to send on.
LEMMA EnsureSendChainType ==
  ASSUME NEW s \in Session, NEW k \in KeyPair
  PROVE  /\ EnsureSendChain(s, k) \in Session
         /\ EnsureSendChain(s, k).sendChain \in Chain
<1>1. CASE s.sendChain # None
  BY <1>1 DEF EnsureSendChain, Session, SessionRecord
<1>2. CASE s.sendChain = None
  <2> DEFINE chain == KdfRoot(s.root, k, s.recvKey)
  <2>1. s.recvKey \in KeyPair
    BY <1>2 DEF Session
  <2>2. chain \in Chain
    BY <2>1, KdfRootType DEF Session, SessionRecord
  <2> HIDE DEF chain
  <2> DEFINE t == [s EXCEPT !.root = chain, !.sendChain = chain, !.sendKey = k,
                            !.pn = s.sendN, !.sendN = 0]
  <2>3. t \in SessionRecord /\ t.recvKey = s.recvKey /\ t.sendChain = chain
    BY <2>2 DEF Session, SessionRecord
  <2>4. t \in Session
    BY <2>1, <2>3 DEF Session
  <2>5. EnsureSendChain(s, k) = t
    BY <1>2 DEF EnsureSendChain, chain
  <2> QED BY <2>2, <2>3, <2>4, <2>5
<1> QED BY <1>1, <1>2

-----------------------------------------------------------------------------
\* Ratchet: every variable keeps its type, so that rows, handlers' copies and
\* messages are always what the operators above expect.
THEOREM TypeCorrect == Spec => []TypeOK
<1>1. Init => TypeOK
  <2> SUFFICES ASSUME Init PROVE TypeOK
    OBVIOUS
  <2>1. ASSUME NEW p \in Party PROVE Initiate(<<p, 1>>) \in Session
    <3>1. <<>> \in Chain /\ <<>> # None
      <4>1. <<>> \in Seq(SUBSET KeyPair)
        OBVIOUS
      <4>2. None \notin Seq(SUBSET KeyPair)
        BY RatchetAssumption, Zenon DEF Chain
      <4> QED BY <4>1, <4>2, Zenon DEF Chain
    <3>2. <<p, 1>> \in KeyPair
      BY DEF KeyPair
    <3> QED BY <3>1, <3>2 DEF Initiate, Session, SessionRecord
  <2>2. row \in [Party -> Session \cup {None}]
    BY <2>1 DEF Init
  <2>3. raced \in BOOLEAN
    BY DEF Init
  <2> QED BY <2>2, <2>3 DEF Init, TypeOK
<1>2. TypeOK /\ [Next]_vars => TypeOK'
  <2> SUFFICES ASSUME TypeOK, [Next]_vars PROVE TypeOK'
    OBVIOUS
  <2>1. ASSUME NEW p \in Party, Encrypt(p) PROVE TypeOK'
    <3> DEFINE s == EnsureSendChain(row[p], Fresh(p))
               m == [key |-> s.sendKey, n |-> s.sendN, pn |-> s.pn, chain |-> s.sendChain,
                     x3dh |-> p = Initiator /\ sealed[p] = <<>>]
    <3>1. row[p] \in Session
      BY <2>1 DEF Encrypt, TypeOK
    <3>2. s \in Session /\ s.sendChain \in Chain
      BY <3>1, FreshIsPair, EnsureSendChainType
    <3>3. m \in Message
      BY <3>2 DEF Message, Session, SessionRecord
    <3>4. [s EXCEPT !.sendN = @ + 1] \in Session
      BY <3>2 DEF Session, SessionRecord
    <3>5. /\ sealed' = [sealed EXCEPT ![p] = Append(@, m)]
          /\ row' = [row EXCEPT ![p] = [s EXCEPT !.sendN = @ + 1]]
          /\ made' = [made EXCEPT ![p] = @ + 1]
          /\ raced' \in BOOLEAN
          /\ UNCHANGED <<opened, opening, width>>
      BY <2>1 DEF Encrypt
    <3> HIDE DEF s, m
    <3>6. row' \in [Party -> Session \cup {None}]
      BY <3>4, <3>5 DEF TypeOK
    <3>7. sealed' \in [Party -> Seq(Message)]
      BY <3>3, <3>5 DEF TypeOK
    <3>8. \A q \in Party : DOMAIN sealed[q] \subseteq DOMAIN sealed'[q]
      BY <3>3, <3>5 DEF TypeOK
    <3>9. \A q \in Party : \A h \in opening'[q] : h.i \in DOMAIN sealed'[Peer(q)]
      BY <3>5, <3>8, PeerIsParty DEF TypeOK
    <3> QED BY <3>5, <3>6, <3>7, <3>9 DEF TypeOK
  <2>2. ASSUME NEW p \in Party, NEW i \in DOMAIN sealed[Peer(p)], OpenStart(p, i)
        PROVE  TypeOK'
    <3>1. /\ UNCHANGED <<row, made, sealed, opened, width, raced>>
          /\ opening' = [opening EXCEPT ![p] = @ \cup {[i |-> i, s |-> row[p]]}]
      BY <2>2 DEF OpenStart
    <3>2. i \in Nat /\ row[p] \in Session \cup {None}
      BY PeerIsParty DEF TypeOK
    <3>3. opening' \in [Party -> SUBSET [i : Nat, s : Session \cup {None}]]
      BY <3>1, <3>2 DEF TypeOK
    <3>4. \A q \in Party : \A h \in opening'[q] :
            h \in opening[q] \/ (q = p /\ h = [i |-> i, s |-> row[p]])
      BY <3>1 DEF TypeOK
    <3>5. \A q \in Party : \A h \in opening'[q] : h.i \in DOMAIN sealed'[Peer(q)]
      BY <3>1, <3>4 DEF TypeOK
    <3> QED BY <3>1, <3>3, <3>5 DEF TypeOK
  <2>3. ASSUME NEW p \in Party, NEW h \in opening[p], OpenEnd(p, h) PROVE TypeOK'
    <3> DEFINE m == sealed[Peer(p)][h.i]
    <3>1. m \in Message /\ h.i \in Nat /\ h.s \in Session \cup {None}
      BY PeerIsParty DEF TypeOK
    <3>2. Open(h.s, m, Fresh(p)) \in Session \cup {None}
      BY <3>1, FreshIsPair, OpenType
    <3>3. /\ row' = [row EXCEPT ![p] = Open(h.s, m, Fresh(p))]
          /\ made' = [made EXCEPT ![p] = @ + 1]
          /\ opened' = [opened EXCEPT ![p] = @ \cup {h.i}]
          /\ opening' = [opening EXCEPT ![p] = @ \ {h}]
          /\ UNCHANGED <<sealed, width, raced>>
      BY <2>3 DEF OpenEnd
    <3> HIDE DEF m
    <3>4. row' \in [Party -> Session \cup {None}]
      BY <3>2, <3>3 DEF TypeOK
    <3>5. /\ opening' \in [Party -> SUBSET [i : Nat, s : Session \cup {None}]]
          /\ \A q \in Party : opening'[q] \subseteq opening[q]
      BY <3>3 DEF TypeOK
    <3> QED BY <3>1, <3>3, <3>4, <3>5 DEF TypeOK
  <2>4. CASE UNCHANGED vars
    BY <2>4 DEF vars, TypeOK
  <2> QED BY <2>1, <2>2, <2>3, <2>4 DEF Next
<1> QED BY <1>1, <1>2, PTL DEF Spec

-----------------------------------------------------------------------------
(* No message key is used twice.                                           *)

\* The key pairs p has generated.
MadeBy(p) == {<<p, j>> : j \in 1 .. made[p]}

\* s is a row its owner may come to encrypt with, given the pairs the owner
\* has generated and the messages it has sealed: its pair is one of them, and
\* with that pair only positions before the next one have been used.
Usable(pairs, messages, s) ==
  /\ s.sendKey \in pairs
  /\ \A i \in DOMAIN messages :
       messages[i].key = s.sendKey => messages[i].n < s.sendN

\* The rows in the table and in the hands of handlers are usable, and what
\* has been sealed was sealed with pairs already generated.
KeysInOrder ==
  /\ \A p \in Party : row[p] # None => Usable(MadeBy(p), sealed[p], row[p])
  /\ \A p \in Party : \A h \in opening[p] : h.s # None => Usable(MadeBy(p), sealed[p], h.s)
  /\ \A p \in Party : \A i \in DOMAIN sealed[p] : sealed[p][i].key \in MadeBy(p)
  /\ KeyUsedOnce

\* The next pair is none of those already generated.
LEMMA FreshIsNew ==
  ASSUME TypeOK, NEW p \in Party
  PROVE  Fresh(p) \notin MadeBy(p)
  BY DEF TypeOK, Fresh, MadeBy

\* Decrypting keeps the sending half of the session, or starts a new pair.
LEMMA OpenKeepsOrTurns ==
  ASSUME NEW s \in Session \cup {None}, NEW m \in Message, NEW k \in KeyPair,
         Open(s, m, k) # None
  PROVE  \/ Open(s, m, k).sendKey = k
         \/ s # None /\ Open(s, m, k).sendKey = s.sendKey /\ Open(s, m, k).sendN = s.sendN
<1>1. ASSUME NEW t \in Session, Decrypt(t, m, k) # None
      PROVE  \/ Decrypt(t, m, k).sendKey = k
             \/ /\ Decrypt(t, m, k).sendKey = t.sendKey
                /\ Decrypt(t, m, k).sendN = t.sendN
  <2> DEFINE turned == IF m.key # t.recvKey THEN Turn(t, m, k) ELSE t
             draft == SkipKeys(turned, m.n)
  <2>1. turned.sendKey = k \/ (turned.sendKey = t.sendKey /\ turned.sendN = t.sendN)
    <3>1. Turn(t, m, k).sendKey = k
      BY DEF Turn
    <3>2. CASE m.key # t.recvKey
      <4>1. turned = Turn(t, m, k)
        BY <3>2
      <4> QED BY <3>1, <4>1
    <3>3. CASE m.key = t.recvKey
      <4>1. turned = t
        BY <3>3
      <4> QED BY <4>1
    <3> QED BY <3>2, <3>3
  <2>2. turned \in Session
    BY TurnType
  <2> HIDE DEF turned
  <2>3. draft.sendKey = turned.sendKey /\ draft.sendN = turned.sendN
    BY <2>2 DEF SkipKeys, Session, SessionRecord
  <2>4. ASSUME CanSkip(turned, m.n) PROVE draft \in Session
    BY <2>2, <2>4, SkipKeysType DEF CanSkip, Message
  <2> HIDE DEF draft
  <2>5. ASSUME draft \in Session
        PROVE  /\ [draft EXCEPT !.recvN = @ + 1].sendKey = draft.sendKey
               /\ [draft EXCEPT !.recvN = @ + 1].sendN = draft.sendN
    BY <2>5 DEF Session, SessionRecord
  <2>6. DropSkipped(t, m).sendKey = t.sendKey /\ DropSkipped(t, m).sendN = t.sendN
    BY DEF DropSkipped, Session, SessionRecord
  <2>7. \/ Decrypt(t, m, k) = DropSkipped(t, m)
        \/ CanSkip(turned, m.n) /\ Decrypt(t, m, k) = [draft EXCEPT !.recvN = @ + 1]
    BY <1>1 DEF Decrypt, turned, draft
  <2> QED BY <2>1, <2>3, <2>4, <2>5, <2>6, <2>7
<1>2. CASE s # None
  BY <1>1, <1>2 DEF Open
<1>3. CASE s = None
  <2>1. Respond(m, k) \in Session /\ Respond(m, k).sendKey = k
    BY DEF Respond, Session, SessionRecord, Chain, Message
  <2>2. Open(s, m, k) = Decrypt(Respond(m, k), m, k)
    BY <1>3 DEF Open
  <2> QED BY <1>1, <2>1, <2>2
<1> QED BY <1>2, <1>3

\* A pair generated next makes a usable row, as nothing was sealed with it.
LEMMA FreshIsUsable ==
  ASSUME TypeOK, KeysInOrder, NEW p \in Party, NEW s \in Session, s.sendKey = Fresh(p),
         made' = [made EXCEPT ![p] = @ + 1], UNCHANGED sealed
  PROVE  Usable(MadeBy(p)', sealed'[p], s)
<1>1. Fresh(p) \in MadeBy(p)'
  BY DEF TypeOK, Fresh, MadeBy
<1>2. \A i \in DOMAIN sealed[p] : sealed[p][i].key # Fresh(p)
  BY FreshIsNew DEF KeysInOrder
<1> QED BY <1>1, <1>2 DEF Usable

\* Usable rows stay usable as pairs are generated.
LEMMA UsableStays ==
  ASSUME TypeOK, NEW p \in Party, NEW q \in Party, NEW s, Usable(MadeBy(q), sealed[q], s),
         made' = [made EXCEPT ![p] = @ + 1], UNCHANGED sealed
  PROVE  Usable(MadeBy(q)', sealed'[q], s)
<1>1. MadeBy(q) \subseteq MadeBy(q)'
  BY DEF TypeOK, MadeBy
<1> QED BY <1>1 DEF Usable

\* encryptInSession keeps the keys in order: it seals with the next position
\* of a usable row, or with the first of a new pair.
LEMMA EncryptKeepsOrder ==
  ASSUME TypeOK, KeysInOrder, ~raced, NEW p \in Party, Encrypt(p), opening[p] = {}
  PROVE  KeysInOrder'
<1> DEFINE s == EnsureSendChain(row[p], Fresh(p))
           m == [key |-> s.sendKey, n |-> s.sendN, pn |-> s.pn, chain |-> s.sendChain,
                 x3dh |-> p = Initiator /\ sealed[p] = <<>>]
           r == [s EXCEPT !.sendN = @ + 1]
<1>1. row[p] \in Session
  BY DEF Encrypt, TypeOK
<1>2. s \in Session
  BY <1>1, FreshIsPair, EnsureSendChainType
<1>3. \/ s = row[p]
      \/ s.sendKey = Fresh(p) /\ s.sendN = 0
  BY <1>1 DEF EnsureSendChain, Session, SessionRecord
<1>4. /\ sealed' = [sealed EXCEPT ![p] = Append(@, m)]
      /\ row' = [row EXCEPT ![p] = r]
      /\ made' = [made EXCEPT ![p] = @ + 1]
      /\ opening[p] = {} /\ opening' = opening /\ row[p] # None
  BY DEF Encrypt
<1>5. m.key = s.sendKey /\ m.n = s.sendN /\ s.sendN \in Nat
  BY <1>2 DEF Session, SessionRecord
<1>6. r.sendKey = s.sendKey /\ r.sendN = s.sendN + 1
  BY <1>2 DEF Session, SessionRecord
<1>7. \A i \in DOMAIN sealed[p] : sealed[p][i].key = s.sendKey => sealed[p][i].n < s.sendN
  BY <1>3, <1>4, FreshIsNew DEF KeysInOrder, Usable
<1>8. s.sendKey \in MadeBy(p)'
  <2>1. MadeBy(p) \subseteq MadeBy(p)' /\ Fresh(p) \in MadeBy(p)'
    BY <1>4 DEF TypeOK, MadeBy, Fresh
  <2> QED BY <1>3, <1>4, <2>1 DEF KeysInOrder, Usable
<1> HIDE DEF s, m, r
<1>9. /\ Len(sealed[p]) \in Nat
      /\ DOMAIN sealed'[p] = DOMAIN sealed[p] \cup {Len(sealed[p]) + 1}
      /\ Len(sealed[p]) + 1 \notin DOMAIN sealed[p]
      /\ sealed'[p][Len(sealed[p]) + 1] = m
      /\ \A i \in DOMAIN sealed[p] : sealed'[p][i] = sealed[p][i]
  BY <1>4 DEF TypeOK
<1>10. \A q \in Party \ {p} : sealed'[q] = sealed[q] /\ MadeBy(q)' = MadeBy(q)
  BY <1>4 DEF TypeOK, MadeBy
<1>11. \A i \in DOMAIN sealed[p] : sealed[p][i].n \in Nat
  <2>1. sealed[p] \in Seq(Message)
    BY DEF TypeOK
  <2>2. \A i \in DOMAIN sealed[p] : sealed[p][i] \in Message
    BY <2>1
  <2> QED BY <2>2 DEF Message
<1>12. \A q \in Party : row'[q] # None => Usable(MadeBy(q)', sealed'[q], row'[q])
  <2>1. Usable(MadeBy(p)', sealed'[p], r)
    BY <1>5, <1>6, <1>7, <1>8, <1>9, <1>11 DEF Usable
  <2>2. \A q \in Party \ {p} : \A x : Usable(MadeBy(q), sealed[q], x) => Usable(MadeBy(q)', sealed'[q], x)
    BY <1>10 DEF Usable
  <2> QED BY <1>4, <2>1, <2>2 DEF KeysInOrder, TypeOK
<1>13. \A q \in Party : \A h \in opening'[q] : h.s # None => Usable(MadeBy(q)', sealed'[q], h.s)
  <2>1. \A q \in Party \ {p} : \A x : Usable(MadeBy(q), sealed[q], x) => Usable(MadeBy(q)', sealed'[q], x)
    BY <1>10 DEF Usable
  <2> QED BY <1>4, <2>1 DEF KeysInOrder
<1>14. \A q \in Party : \A i \in DOMAIN sealed'[q] : sealed'[q][i].key \in MadeBy(q)'
  <2>1. MadeBy(p) \subseteq MadeBy(p)'
    BY <1>4 DEF TypeOK, MadeBy
  <2> QED BY <1>5, <1>8, <1>9, <1>10, <2>1 DEF KeysInOrder
<1>15. KeyUsedOnce'
  <2> SUFFICES ASSUME NEW q \in Party, NEW i \in DOMAIN sealed'[q],
                      NEW j \in DOMAIN sealed'[q], i # j
               PROVE  \/ sealed'[q][i].key # sealed'[q][j].key
                      \/ sealed'[q][i].n # sealed'[q][j].n
    BY DEF KeyUsedOnce
  <2>1. CASE q = p
    <3>1. CASE i \in DOMAIN sealed[p] /\ j \in DOMAIN sealed[p]
      BY <1>9, <2>1, <3>1 DEF KeysInOrder, KeyUsedOnce
    <3>2. \A k \in DOMAIN sealed[p] : sealed[p][k].key # m.key \/ sealed[p][k].n # m.n
      BY <1>5, <1>7, <1>11
    <3> QED BY <1>9, <2>1, <3>1, <3>2
  <2>2. CASE q # p
    BY <1>10, <2>2 DEF KeysInOrder, KeyUsedOnce
  <2> QED BY <2>1, <2>2
<1> QED BY <1>12, <1>13, <1>14, <1>15 DEF KeysInOrder

\* So does writing back a row that was read before: what it would encrypt
\* with is still unused, since nobody encrypts between read and write.
LEMMA OpenEndKeepsOrder ==
  ASSUME TypeOK, KeysInOrder, ~raced, NEW p \in Party, NEW h \in opening[p], OpenEnd(p, h)
  PROVE  KeysInOrder'
<1> DEFINE m == sealed[Peer(p)][h.i]
           r == Open(h.s, m, Fresh(p))
<1>1. m \in Message /\ h.s \in Session \cup {None}
  BY PeerIsParty DEF TypeOK
<1>2. r \in Session \cup {None}
  BY <1>1, FreshIsPair, OpenType
<1>3. /\ row' = [row EXCEPT ![p] = r]
      /\ made' = [made EXCEPT ![p] = @ + 1]
      /\ opening' = [opening EXCEPT ![p] = @ \ {h}]
      /\ UNCHANGED sealed
  BY DEF OpenEnd
<1>4. r # None => \/ r.sendKey = Fresh(p)
                  \/ h.s # None /\ r.sendKey = h.s.sendKey /\ r.sendN = h.s.sendN
  BY <1>1, FreshIsPair, OpenKeepsOrTurns
<1> HIDE DEF m, r
<1>5. \A q \in Party : \A x : Usable(MadeBy(q), sealed[q], x) => Usable(MadeBy(q)', sealed'[q], x)
  BY <1>3, UsableStays
<1>6. r # None => Usable(MadeBy(p)', sealed'[p], r)
  <2>1. CASE r # None /\ r.sendKey = Fresh(p)
    BY <1>2, <1>3, <2>1, FreshIsUsable
  <2>2. CASE h.s # None /\ r.sendKey = h.s.sendKey /\ r.sendN = h.s.sendN
    <3>1. Usable(MadeBy(p)', sealed'[p], h.s)
      BY <1>5, <2>2 DEF KeysInOrder
    <3> QED BY <2>2, <3>1 DEF Usable
  <2> QED BY <1>4, <2>1, <2>2
<1>7. \A q \in Party : row'[q] # None => Usable(MadeBy(q)', sealed'[q], row'[q])
  BY <1>3, <1>5, <1>6 DEF KeysInOrder, TypeOK
<1>8. \A q \in Party : \A g \in opening'[q] : g.s # None => Usable(MadeBy(q)', sealed'[q], g.s)
  <2>1. \A q \in Party : opening'[q] \subseteq opening[q]
    BY <1>3 DEF TypeOK
  <2> QED BY <1>5, <2>1 DEF KeysInOrder
<1>9. \A q \in Party : MadeBy(q) \subseteq MadeBy(q)'
  BY <1>3 DEF TypeOK, MadeBy
<1>10. \A q \in Party : \A i \in DOMAIN sealed'[q] : sealed'[q][i].key \in MadeBy(q)'
  BY <1>3, <1>9 DEF KeysInOrder
<1>11. KeyUsedOnce'
  BY <1>3 DEF KeysInOrder, KeyUsedOnce
<1> QED BY <1>7, <1>8, <1>10, <1>11 DEF KeysInOrder

\* The keys are in order in every reachable state, up to the first send that
\* races.
InOrderUnlessRaced == raced \/ KeysInOrder

LEMMA KeysStayInOrder == Spec => []InOrderUnlessRaced
<1>1. Init => InOrderUnlessRaced
  <2> SUFFICES ASSUME Init PROVE KeysInOrder
    BY DEF InOrderUnlessRaced
  <2>1. \A p \in Party : row[p] # None => row[p] = Initiate(<<p, 1>>)
    BY DEF Init
  <2>2. \A p \in Party : Usable(MadeBy(p), sealed[p], Initiate(<<p, 1>>))
    BY DEF Init, Usable, MadeBy, Initiate
  <2>3. \A p \in Party : sealed[p] = <<>> /\ opening[p] = {}
    BY DEF Init
  <2>4. KeyUsedOnce
    BY <2>3 DEF KeyUsedOnce
  <2>5. \A p \in Party : row[p] # None => Usable(MadeBy(p), sealed[p], row[p])
    BY <2>1, <2>2
  <2>6. \A p \in Party : \A h \in opening[p] : h.s # None => Usable(MadeBy(p), sealed[p], h.s)
    BY <2>3
  <2>7. \A p \in Party : \A i \in DOMAIN sealed[p] : sealed[p][i].key \in MadeBy(p)
    BY <2>3
  <2> QED BY <2>4, <2>5, <2>6, <2>7 DEF KeysInOrder
<1>2. TypeOK /\ InOrderUnlessRaced /\ [Next]_vars => InOrderUnlessRaced'
  <2> SUFFICES ASSUME TypeOK, InOrderUnlessRaced, [Next]_vars PROVE InOrderUnlessRaced'
    OBVIOUS
  <2>1. ASSUME ~raced, KeysInOrder, NEW p \in Party,
               NEW i \in DOMAIN sealed[Peer(p)], OpenStart(p, i)
        PROVE  KeysInOrder'
    <3>1. /\ UNCHANGED <<row, made, sealed>>
          /\ opening' = [opening EXCEPT ![p] = @ \cup {[i |-> i, s |-> row[p]]}]
      BY <2>1 DEF OpenStart
    <3>2. \A q \in Party : \A x : Usable(MadeBy(q), sealed[q], x) => Usable(MadeBy(q)', sealed'[q], x)
      BY <3>1 DEF Usable, MadeBy
    <3>3. \A q \in Party : \A h \in opening'[q] :
            h \in opening[q] \/ (q = p /\ h = [i |-> i, s |-> row[p]])
      BY <3>1 DEF TypeOK
    <3>4. \A q \in Party : \A h \in opening'[q] : h.s # None => Usable(MadeBy(q)', sealed'[q], h.s)
      BY <2>1, <3>2, <3>3 DEF KeysInOrder
    <3>5. KeyUsedOnce' /\ \A q \in Party : MadeBy(q)' = MadeBy(q)
      BY <2>1, <3>1 DEF KeysInOrder, KeyUsedOnce, MadeBy
    <3> QED BY <2>1, <3>1, <3>2, <3>4, <3>5 DEF KeysInOrder
  <2>2. ASSUME NEW p \in Party, Encrypt(p), opening[p] # {} PROVE raced'
    BY <2>2 DEF Encrypt
  <2>3. ASSUME KeysInOrder, UNCHANGED vars PROVE KeysInOrder'
    <3>1. UNCHANGED <<row, made, sealed, opening, raced>>
      BY <2>3 DEF vars
    <3>2. \A q \in Party : MadeBy(q)' = MadeBy(q)
      BY <3>1 DEF MadeBy
    <3>3. KeyUsedOnce'
      BY <2>3, <3>1 DEF KeysInOrder, KeyUsedOnce
    <3> QED BY <2>3, <3>1, <3>2, <3>3 DEF KeysInOrder
  <2>4. CASE UNCHANGED vars
    BY <2>3, <2>4 DEF vars, InOrderUnlessRaced
  <2>5. CASE Next
    <3>1. ~raced /\ KeysInOrder
      BY <2>5 DEF Next, InOrderUnlessRaced
    <3> QED BY <2>1, <2>2, <2>5, <3>1, EncryptKeepsOrder, OpenEndKeepsOrder
            DEF Next, InOrderUnlessRaced
  <2> QED BY <2>4, <2>5
<1> QED BY <1>1, <1>2, TypeCorrect, PTL DEF Spec

\* Ratchet: no message key encrypts two messages (RatchetManager.encrypt), for
\* every number of messages, key steps and handlers that overlap.
THEOREM KeysAreUsedOnce == Spec => []KeyUsedOnce
<1>1. InOrderUnlessRaced => KeyUsedOnce
  BY DEF InOrderUnlessRaced, KeysInOrder, KeyUsedOnce
<1> QED BY <1>1, KeysStayInOrder, PTL

-----------------------------------------------------------------------------
(* What decrypt makes of a row.                                            *)

\* The three ways in which m opens with the row s: with a skipped key, with
\* the receiving chain of the row, or after a Diffie-Hellman step.
CanTake(s, m) == \E e \in s.skipped : e.key = m.key /\ e.n = m.n /\ e.chain = m.chain

CanRead(s, m) ==
  /\ SkippedKey(s, m) = {} /\ m.key = s.recvKey
  /\ s.recvChain # None /\ s.recvChain = m.chain
  /\ s.recvN <= m.n /\ m.n <= s.recvN + MaxSkip

CanTurn(s, m) ==
  /\ SkippedKey(s, m) = {} /\ m.key # s.recvKey
  /\ s.recvChain = None \/ m.pn <= s.recvN + MaxSkip
  /\ m.n <= MaxSkip
  /\ m.chain = KdfRoot(s.root, s.sendKey, m.key)

\* The two rows have the same sending half, or the same receiving chain.
SameSending(s, r) ==
  r.root = s.root /\ r.sendChain = s.sendChain /\ r.sendKey = s.sendKey /\ r.sendN = s.sendN /\ r.pn = s.pn

SameReceiving(s, r) ==
  r.recvChain = s.recvChain /\ r.recvKey = s.recvKey /\ r.recvN = s.recvN

\* The rows that these three ways leave.
Takes(s, m, r) ==
  /\ SameSending(s, r) /\ SameReceiving(s, r)
  /\ r.skipped = s.skipped \ SkippedKey(s, m)

Between(key, chain, from, until) ==
  {[key |-> key, n |-> i, chain |-> chain] : i \in from .. (until - 1)}

Reads(s, m, r) ==
  /\ SameSending(s, r)
  /\ r.recvChain = s.recvChain /\ r.recvKey = s.recvKey /\ r.recvN = m.n + 1
  /\ r.skipped = s.skipped \cup Between(s.recvKey, s.recvChain, s.recvN, m.n)

TurnsTo(s, m, k, r) ==
  /\ r.root = KdfRoot(m.chain, k, m.key) /\ r.sendChain = r.root /\ r.sendKey = k
  /\ r.sendN = 0 /\ r.pn = s.sendN
  /\ r.recvChain = m.chain /\ r.recvKey = m.key /\ r.recvN = m.n + 1
  /\ r.skipped = (s.skipped \cup (IF s.recvChain = None THEN {}
                                  ELSE Between(s.recvKey, s.recvChain, s.recvN, m.pn)))
                   \cup Between(m.key, m.chain, 0, m.n)

\* The fields of a session.
LEMMA SessionFields ==
  ASSUME NEW s \in Session
  PROVE  /\ s.root \in Chain /\ s.sendChain \in Chain \cup {None} /\ s.sendKey \in KeyPair
         /\ s.sendN \in Nat /\ s.pn \in Nat /\ s.recvN \in Nat
         /\ s.recvChain \in Chain \cup {None} /\ s.recvKey \in KeyPair \cup {None}
         /\ s.skipped \subseteq [key : KeyPair, n : Nat, chain : Chain]
         /\ (s.recvChain # None \/ s.sendChain = None) => s.recvKey \in KeyPair
         /\ s # None
  BY RatchetAssumption DEF Session, SessionRecord

\* The fields of a message.
LEMMA MessageFields ==
  ASSUME NEW m \in Message
  PROVE  m.key \in KeyPair /\ m.n \in Nat /\ m.pn \in Nat /\ m.chain \in Chain
  BY DEF Message

\* None is neither a chain nor a key nor a session.
LEMMA NoneIsNothing == None \notin Chain /\ None \notin KeyPair /\ None \notin Session
  BY RatchetAssumption DEF Session

\* What skipping keys up to a position leaves.
LEMMA SkipKeysIs ==
  ASSUME NEW s \in Session, NEW until \in Nat
  PROVE  LET r == SkipKeys(s, until) IN
         /\ SameSending(s, r) /\ r.recvChain = s.recvChain /\ r.recvKey = s.recvKey
         /\ r.recvN = IF until < s.recvN THEN s.recvN ELSE until
         /\ r.skipped = s.skipped \cup Between(s.recvKey, s.recvChain, s.recvN, until)
<1>1. CASE until < s.recvN
  <2>1. SkipKeys(s, until) = s
    BY <1>1 DEF SkipKeys
  <2>2. Between(s.recvKey, s.recvChain, s.recvN, until) = {}
    BY <1>1, SessionFields DEF Between
  <2> QED BY <1>1, <2>1, <2>2 DEF SameSending
<1>2. CASE ~(until < s.recvN)
  <2>1. SkipKeys(s, until) = [s EXCEPT !.recvN = until,
          !.skipped = @ \cup Between(s.recvKey, s.recvChain, s.recvN, until)]
    BY <1>2 DEF SkipKeys, Between
  <2> QED BY <1>2, <2>1 DEF SameSending, Session, SessionRecord
<1> QED BY <1>1, <1>2

\* r is what decrypt makes of m with the row s.
Outcome(s, m, k, r) ==
  /\ r # None <=> CanTake(s, m) \/ CanRead(s, m) \/ CanTurn(s, m)
  /\ r # None => \/ CanTake(s, m) /\ Takes(s, m, r)
                 \/ CanRead(s, m) /\ Reads(s, m, r)
                 \/ CanTurn(s, m) /\ TurnsTo(s, m, k, r)

\* What decrypt does, in one of the three ways or not at all.
LEMMA DecryptIs ==
  ASSUME NEW s \in Session, NEW m \in Message, NEW k \in KeyPair
  PROVE  Outcome(s, m, k, Decrypt(s, m, k))
<1> DEFINE r == Decrypt(s, m, k)
           turned == IF m.key # s.recvKey THEN Turn(s, m, k) ELSE s
           draft == SkipKeys(turned, m.n)
           read == [draft EXCEPT !.recvN = @ + 1]
<1> SUFFICES Outcome(s, m, k, r)
  OBVIOUS
<1>1. r \in Session \cup {None}
  BY DecryptType
<1>2. CASE SkippedKey(s, m) # {}
  <2>1. r = IF \E e \in SkippedKey(s, m) : e.chain = m.chain THEN DropSkipped(s, m) ELSE None
    BY <1>2 DEF Decrypt
  <2>2. CanTake(s, m) <=> \E e \in SkippedKey(s, m) : e.chain = m.chain
    BY DEF CanTake, SkippedKey
  <2>3. Takes(s, m, DropSkipped(s, m)) /\ DropSkipped(s, m) # None
    <3>1. DropSkipped(s, m) \in Session
      BY DEF DropSkipped, Session, SessionRecord
    <3>2. Takes(s, m, DropSkipped(s, m))
      BY DEF DropSkipped, Session, SessionRecord, Takes, SameSending, SameReceiving
    <3> QED BY <3>1, <3>2, NoneIsNothing
  <2>4. ~CanRead(s, m) /\ ~CanTurn(s, m)
    BY <1>2 DEF CanRead, CanTurn
  <2> HIDE DEF r
  <2> QED BY <2>1, <2>2, <2>3, <2>4 DEF Outcome
<1>3. CASE SkippedKey(s, m) = {}
  <2> USE <1>3
  <2>1. ~CanTake(s, m)
    BY DEF CanTake, SkippedKey
  <2>2. turned \in Session /\ m.n \in Nat /\ m.pn \in Nat
    BY TurnType, MessageFields
  <2>3. ASSUME CanSkip(turned, m.n) PROVE read \in Session /\ read.recvN = draft.recvN + 1
                 /\ SameSending(draft, read) /\ read.recvChain = draft.recvChain
                 /\ read.recvKey = draft.recvKey /\ read.skipped = draft.skipped
    <3>1. draft \in Session
      BY <2>2, <2>3, SkipKeysType DEF CanSkip
    <3> HIDE DEF draft
    <3> QED BY <3>1 DEF SameSending, Session, SessionRecord
  <2>4. LET t == turned IN
        /\ SameSending(t, draft) /\ draft.recvChain = t.recvChain /\ draft.recvKey = t.recvKey
        /\ draft.recvN = IF m.n < t.recvN THEN t.recvN ELSE m.n
        /\ draft.skipped = t.skipped \cup Between(t.recvKey, t.recvChain, t.recvN, m.n)
    BY <2>2, SkipKeysIs
  <2>5. r = IF m.key # s.recvKey /\ s.recvChain # None /\ ~CanSkip(s, m.pn) THEN None
            ELSE IF CanSkip(turned, m.n) /\ draft.recvChain = m.chain /\ draft.recvN = m.n
            THEN read ELSE None
    BY DEF Decrypt
  <2>6. CASE m.key = s.recvKey
    <3>1. turned = s
      BY <2>6
    <3> HIDE DEF turned, draft, read
    <3>2. ~CanTurn(s, m) /\ s.recvN \in Nat /\ MaxSkip \in Nat
      BY <2>6, SessionFields, RatchetAssumption DEF CanTurn
    <3>3. CanRead(s, m) <=> CanSkip(turned, m.n) /\ draft.recvChain = m.chain /\ draft.recvN = m.n
      BY <2>2, <2>4, <2>6, <3>1, <3>2 DEF CanRead, CanSkip
    <3>4. CASE CanRead(s, m)
      <4>1. r = read /\ read \in Session
        BY <2>3, <2>5, <2>6, <3>3, <3>4
      <4>2. Reads(s, m, read)
        BY <2>3, <2>4, <3>1, <3>3, <3>4 DEF Reads, SameSending
      <4> HIDE DEF r
      <4> QED BY <3>4, <4>1, <4>2, NoneIsNothing DEF Outcome
    <3>5. CASE ~CanRead(s, m)
      <4>1. r = None
        BY <2>5, <2>6, <3>3, <3>5
      <4> QED BY <2>1, <3>2, <3>5, <4>1 DEF Outcome
    <3> QED BY <3>4, <3>5
  <2>7. CASE m.key # s.recvKey
    <3> DEFINE recv == KdfRoot(s.root, s.sendKey, m.key)
               send == KdfRoot(recv, k, m.key)
               kept == s.skipped \cup (IF s.recvChain = None THEN {}
                                       ELSE Between(s.recvKey, s.recvChain, s.recvN, m.pn))
    <3>1. /\ turned.root = send /\ turned.sendChain = send /\ turned.sendKey = k
          /\ turned.sendN = 0 /\ turned.pn = s.sendN /\ turned.recvChain = recv
          /\ turned.recvKey = m.key /\ turned.recvN = 0 /\ turned.skipped = kept
      <4>1. turned = Turn(s, m, k)
        BY <2>7
      <4>2. (IF s.recvChain = None THEN s ELSE SkipKeys(s, m.pn)).skipped = kept
        <5>1. SkipKeys(s, m.pn).skipped = s.skipped \cup Between(s.recvKey, s.recvChain, s.recvN, m.pn)
          BY <2>2, SkipKeysIs
        <5>2. CASE s.recvChain = None
          BY <5>2
        <5>3. CASE s.recvChain # None
          BY <5>1, <5>3
        <5> QED BY <5>2, <5>3
      <4> QED BY <4>1, <4>2 DEF Turn
    <3>2. recv \in Chain
      BY KdfRootType, SessionFields, MessageFields
    <3>3. ~CanRead(s, m) /\ s.recvN \in Nat /\ MaxSkip \in Nat
      BY <2>7, SessionFields, RatchetAssumption DEF CanRead
    <3> HIDE DEF turned, draft, read, recv, send, kept
    <3>4. CanTurn(s, m) <=>
            /\ s.recvChain = None \/ CanSkip(s, m.pn)
            /\ CanSkip(turned, m.n) /\ draft.recvChain = m.chain /\ draft.recvN = m.n
      <4>1. CanSkip(turned, m.n) <=> m.n <= MaxSkip
        BY <2>2, <3>1, <3>2, <3>3, NoneIsNothing DEF CanSkip
      <4>2. draft.recvN = m.n /\ draft.recvChain = recv
        BY <2>2, <2>4, <3>1
      <4>3. s.recvChain # None => (CanSkip(s, m.pn) <=> m.pn <= s.recvN + MaxSkip)
        BY <2>2, <3>3 DEF CanSkip
      <4> QED BY <2>7, <4>1, <4>2, <4>3 DEF CanTurn, recv
    <3>5. CASE CanTurn(s, m)
      <4>1. r = read /\ read \in Session
        BY <2>3, <2>5, <3>4, <3>5
      <4>2. recv = m.chain /\ draft.recvN = m.n
        BY <2>4, <3>1, <3>4, <3>5
      <4>3. TurnsTo(s, m, k, read)
        BY <2>3, <2>4, <3>1, <3>4, <3>5, <4>2 DEF TurnsTo, SameSending, send, kept
      <4> HIDE DEF r
      <4> QED BY <3>5, <4>1, <4>3, NoneIsNothing DEF Outcome
    <3>6. CASE ~CanTurn(s, m)
      <4>1. r = None
        BY <2>5, <2>7, <3>4, <3>6
      <4> QED BY <2>1, <3>3, <3>6, <4>1 DEF Outcome
    <3> QED BY <3>5, <3>6
  <2> QED BY <2>6, <2>7
<1> QED BY <1>2, <1>3

-----------------------------------------------------------------------------
(* How a row fits the messages of both ends.                               *)

\* Of the messages of one end: those of one pair share the chain, a chain of
\* some length has one pair, and the keys are distinct.
SameKeySameChain(ms) ==
  \A i, j \in DOMAIN ms :
    /\ ms[i].key = ms[j].key => ms[i].chain = ms[j].chain /\ ms[i].pn = ms[j].pn
    /\ Len(ms[i].chain) = Len(ms[j].chain) => ms[i].key = ms[j].key

KeysDiffer(ms) ==
  \A i, j \in DOMAIN ms : i # j => ms[i].key # ms[j].key \/ ms[i].n # ms[j].n

\* The sending half of a row, and what its owner has sealed.
Sends(s, mine) ==
  /\ s.sendChain = None => s.root = <<>> /\ s.recvChain = <<>> /\ mine = <<>> /\ s.sendN = 0
  /\ s.sendChain # None =>
       /\ s.root = s.sendChain
       /\ \A i \in DOMAIN mine :
            /\ mine[i].key = s.sendKey =>
                 mine[i].chain = s.sendChain /\ mine[i].pn = s.pn /\ mine[i].n < s.sendN
            /\ mine[i].key # s.sendKey => Len(mine[i].chain) < Len(s.sendChain)
       /\ s.recvChain # None => Len(s.root) = Len(s.recvChain) + 1
  /\ s.recvChain = None => s.recvKey = None /\ s.root = <<>> /\ s.pn = 0
  /\ s.sendN # 0 =>
       mine # <<>> /\ mine[Len(mine)].key = s.sendKey /\ mine[Len(mine)].n = s.sendN - 1

\* A row that has turned and not sent since: its chain continues the peer's,
\* and pn counts the chain before.
Turned(s, mine) ==
  s.sendChain # None /\ s.recvChain # None /\ s.sendN = 0 =>
    /\ s.sendChain = KdfRoot(s.recvChain, s.sendKey, s.recvKey)
    /\ s.pn # 0 => /\ mine # <<>> /\ Len(mine[Len(mine)].chain) = Len(s.sendChain) - 2
                   /\ mine[Len(mine)].n = s.pn - 1
    /\ \A i \in DOMAIN mine : Len(mine[i].chain) = Len(s.sendChain) - 2 => mine[i].n < s.pn

\* The receiving half comes from messages of the peer.
Heard(s, theirs) ==
  /\ s.recvChain # None =>
       \E i \in DOMAIN theirs : theirs[i].key = s.recvKey /\ theirs[i].chain = s.recvChain
  /\ s.recvN # 0 =>
       \E i \in DOMAIN theirs : theirs[i].key = s.recvKey /\ theirs[i].n = s.recvN - 1
  /\ \A e \in s.skipped :
       /\ \E i \in DOMAIN theirs : theirs[i].key = e.key /\ theirs[i].chain = e.chain
       /\ s.recvChain # None /\ Len(e.chain) <= Len(s.recvChain)
       /\ e.key = s.recvKey => e.n < s.recvN

\* A message of a chain that the row has reached, or of the next one.
Behind(s, m) == s.recvChain # None /\ Len(m.chain) <= Len(s.recvChain)

Ahead(s, m, theirs) ==
  /\ m.chain = KdfRoot(s.root, s.sendKey, m.key)
  /\ s.recvChain # None =>
       \A i \in DOMAIN theirs : theirs[i].key = s.recvKey => theirs[i].n < m.pn

\* Its key is among the skipped ones, or the receiving chain comes to it.
Kept(s, m) == [key |-> m.key, n |-> m.n, chain |-> m.chain] \in s.skipped
Comes(s, m) == m.key = s.recvKey /\ m.n >= s.recvN

\* Every message of the peer can be reached, and those in left still open.
Receives(s, theirs, left) ==
  /\ \A i \in DOMAIN theirs : Behind(s, theirs[i]) \/ Ahead(s, theirs[i], theirs)
  /\ \A i \in left : Behind(s, theirs[i]) => Kept(s, theirs[i]) \/ Comes(s, theirs[i])

Fits(s, mine, theirs, left) ==
  Sends(s, mine) /\ Turned(s, mine) /\ Heard(s, theirs) /\ Receives(s, theirs, left)

\* Chains and their lengths.
LEMMA ChainFacts ==
  ASSUME NEW c \in Chain, NEW a, NEW b
  PROVE  /\ Len(c) \in Nat /\ Len(KdfRoot(c, a, b)) = Len(c) + 1
         /\ KdfRoot(c, a, b) = KdfRoot(c, b, a)
         /\ Len(c) = 0 <=> c = <<>>
<1>1. {a, b} = {b, a}
  OBVIOUS
<1>2. KdfRoot(c, a, b) = KdfRoot(c, b, a)
  BY <1>1 DEF KdfRoot
<1>3. c \in Seq(SUBSET KeyPair)
  BY DEF Chain
<1>4. Len(Append(c, {a, b})) = Len(c) + 1
  <2>1. c \in Seq(SUBSET KeyPair \cup {{a, b}})
    BY <1>3
  <2> QED BY <2>1
<1> QED BY <1>2, <1>3, <1>4 DEF KdfRoot

\* The messages of a sequence are messages.
LEMMA MessagesOf ==
  ASSUME NEW ms \in Seq(Message), NEW i \in DOMAIN ms
  PROVE  /\ ms[i] \in Message /\ i \in Nat \ {0} /\ i <= Len(ms) /\ Len(ms[i].chain) \in Nat
         /\ ms[i].key \in KeyPair /\ ms[i].n \in Nat /\ ms[i].pn \in Nat /\ ms[i].chain \in Chain
<1>1. ms[i] \in Message /\ i \in Nat \ {0} /\ i <= Len(ms)
  OBVIOUS
<1> QED BY <1>1, ChainFacts, MessageFields

\* The messages with the pair of the receiving chain are those of that chain.
LEMMA ReceivingChain ==
  ASSUME NEW s \in Session, NEW theirs \in Seq(Message), SameKeySameChain(theirs),
         Heard(s, theirs), s.recvChain # None, NEW i \in DOMAIN theirs
  PROVE  /\ theirs[i].key = s.recvKey => theirs[i].chain = s.recvChain
         /\ Len(theirs[i].chain) = Len(s.recvChain) => theirs[i].key = s.recvKey
  BY DEF Heard, SameKeySameChain

\* The chain of a message ahead is longer than the receiving chain.
LEMMA AheadIsLonger ==
  ASSUME NEW s \in Session, NEW mine, Sends(s, mine), NEW theirs \in Seq(Message),
         SameKeySameChain(theirs), Heard(s, theirs),
         NEW i \in DOMAIN theirs, Ahead(s, theirs[i], theirs)
  PROVE  /\ Len(theirs[i].chain) = Len(s.root) + 1 /\ Len(s.root) \in Nat
         /\ s.recvChain # None =>
              Len(s.recvChain) \in Nat /\ Len(s.recvChain) < Len(theirs[i].chain)
         /\ ~Behind(s, theirs[i]) /\ theirs[i].key # s.recvKey
<1> DEFINE m == theirs[i]
<1>1. s.root \in Chain /\ (s.recvChain # None => s.recvChain \in Chain)
  BY SessionFields
<1>2. Len(m.chain) = Len(s.root) + 1 /\ Len(s.root) \in Nat
  BY <1>1, ChainFacts DEF Ahead
<1>3. s.recvChain # None => Len(s.recvChain) \in Nat /\ Len(s.recvChain) <= Len(s.root)
  BY <1>1, ChainFacts DEF Sends
<1>4. CASE s.recvChain = None
  <2>1. m.key # None
    BY MessagesOf, NoneIsNothing
  <2> QED BY <1>2, <1>4, <2>1 DEF Behind, Sends
<1>5. CASE s.recvChain # None
  <2>1. ~Behind(s, m)
    BY <1>2, <1>3, <1>5 DEF Behind
  <2>2. m.key # s.recvKey
    BY <1>2, <1>3, <1>5, ReceivingChain
  <2> QED BY <1>2, <1>3, <1>5, <2>1, <2>2
<1> QED BY <1>4, <1>5

-----------------------------------------------------------------------------
\* A skipped key opens a message that was kept, and only one of its chain.
LEMMA SkippedOf ==
  ASSUME NEW s \in Session, NEW theirs \in Seq(Message), SameKeySameChain(theirs),
         Heard(s, theirs), NEW i \in DOMAIN theirs, NEW e \in SkippedKey(s, theirs[i])
  PROVE  /\ e = [key |-> theirs[i].key, n |-> theirs[i].n, chain |-> theirs[i].chain]
         /\ Kept(s, theirs[i]) /\ Behind(s, theirs[i])
         /\ theirs[i].key = s.recvKey => theirs[i].n < s.recvN
<1> DEFINE m == theirs[i]
<1>1. e \in s.skipped /\ e.key = m.key /\ e.n = m.n
  BY DEF SkippedKey
<1>2. e \in [key : KeyPair, n : Nat, chain : Chain]
  BY <1>1, SessionFields
<1>3. e.chain = m.chain
  BY <1>1 DEF Heard, SameKeySameChain
<1>4. e = [key |-> m.key, n |-> m.n, chain |-> m.chain]
  BY <1>1, <1>2, <1>3
<1>5. Behind(s, m) /\ (m.key = s.recvKey => m.n < s.recvN)
  BY <1>1, <1>3 DEF Heard, Behind
<1>6. Kept(s, m)
  BY <1>1, <1>4 DEF Kept
<1> QED BY <1>4, <1>5, <1>6

\* A kept message opens.
LEMMA KeptOpens ==
  ASSUME NEW s, NEW m, Kept(s, m)
  PROVE  CanTake(s, m)
<1> DEFINE e == [key |-> m.key, n |-> m.n, chain |-> m.chain]
<1>1. e \in s.skipped /\ e.key = m.key /\ e.n = m.n /\ e.chain = m.chain
  BY DEF Kept
<1> QED BY <1>1 DEF CanTake

\* A message whose turn comes opens, if no more than MaxSkip are missing.
LEMMA ComesOpens ==
  ASSUME NEW s \in Session, NEW theirs \in Seq(Message), SameKeySameChain(theirs),
         Heard(s, theirs), NEW i \in DOMAIN theirs, Behind(s, theirs[i]), Comes(s, theirs[i]),
         theirs[i].n <= s.recvN + MaxSkip
  PROVE  CanRead(s, theirs[i])
<1>1. theirs[i].n \in Nat /\ s.recvN \in Nat
  BY MessagesOf, SessionFields
<1>2. SkippedKey(s, theirs[i]) = {}
  BY <1>1, SkippedOf DEF Comes
<1> QED BY <1>1, <1>2, ReceivingChain DEF CanRead, Comes, Behind

\* So does a message ahead.
LEMMA AheadOpens ==
  ASSUME NEW s \in Session, NEW mine, Sends(s, mine), NEW theirs \in Seq(Message),
         SameKeySameChain(theirs), Heard(s, theirs),
         NEW i \in DOMAIN theirs, Ahead(s, theirs[i], theirs),
         s.recvChain = None \/ theirs[i].pn <= s.recvN + MaxSkip, theirs[i].n <= MaxSkip
  PROVE  CanTurn(s, theirs[i])
<1>1. ~Behind(s, theirs[i]) /\ theirs[i].key # s.recvKey
  BY AheadIsLonger
<1>2. SkippedKey(s, theirs[i]) = {}
  BY <1>1, SkippedOf
<1> QED BY <1>1, <1>2 DEF CanTurn, Ahead

\* A row that fits opens every message it has not yet opened, unless too many
\* are missing before it.
LEMMA FittingOpens ==
  ASSUME NEW s \in Session, NEW mine, NEW theirs \in Seq(Message), SameKeySameChain(theirs),
         NEW left \in SUBSET DOMAIN theirs, Fits(s, mine, theirs, left), NEW i \in left
  PROVE  CanTake(s, theirs[i]) \/ CanRead(s, theirs[i]) \/ CanTurn(s, theirs[i])
         \/ TooFar(s, theirs[i])
<1>1. theirs[i].n \in Nat /\ theirs[i].pn \in Nat /\ s.recvN \in Nat /\ MaxSkip \in Nat
  BY MessagesOf, SessionFields, RatchetAssumption
<1>2. Sends(s, mine) /\ Heard(s, theirs) /\ Receives(s, theirs, left)
  BY DEF Fits
<1>3. CASE Behind(s, theirs[i])
  <2>1. CASE Kept(s, theirs[i])
    BY <2>1, KeptOpens
  <2>2. CASE Comes(s, theirs[i])
    <3>1. CASE theirs[i].n <= s.recvN + MaxSkip
      BY <1>2, <1>3, <2>2, <3>1, ComesOpens
    <3>2. CASE ~(theirs[i].n <= s.recvN + MaxSkip)
      BY <1>1, <2>2, <3>2 DEF Comes, TooFar
    <3> QED BY <3>1, <3>2
  <2> QED BY <1>2, <1>3, <2>1, <2>2 DEF Receives
<1>4. CASE Ahead(s, theirs[i], theirs)
  <2>1. theirs[i].key # s.recvKey
    BY <1>2, <1>4, AheadIsLonger
  <2>2. CASE theirs[i].pn <= s.recvN + MaxSkip /\ theirs[i].n <= MaxSkip
    BY <1>2, <1>4, <2>2, AheadOpens
  <2>3. CASE ~(theirs[i].pn <= s.recvN + MaxSkip /\ theirs[i].n <= MaxSkip)
    BY <1>1, <2>1, <2>3 DEF TooFar
  <2> QED BY <2>2, <2>3
<1> QED BY <1>2, <1>3, <1>4 DEF Receives

\* A row keeps fitting when fewer messages are left.
LEMMA FewerLeft ==
  ASSUME NEW s, NEW mine, NEW theirs, NEW left, NEW less \in SUBSET left,
         Fits(s, mine, theirs, left)
  PROVE  Fits(s, mine, theirs, less)
  BY DEF Fits, Receives

\* What Behind and Ahead say depends on few fields.
LEMMA SameHalves ==
  ASSUME NEW s, NEW r, SameSending(s, r), r.recvChain = s.recvChain, r.recvKey = s.recvKey,
         NEW mine, NEW m, NEW theirs
  PROVE  /\ Sends(s, mine) <=> Sends(r, mine)
         /\ Turned(s, mine) <=> Turned(r, mine)
         /\ Behind(s, m) <=> Behind(r, m)
         /\ Ahead(s, m, theirs) <=> Ahead(r, m, theirs)
<1>1. Sends(s, mine) <=> Sends(r, mine)
  BY DEF SameSending, Sends
<1>2. Turned(s, mine) <=> Turned(r, mine)
  BY DEF SameSending, Turned
<1>3. (Behind(s, m) <=> Behind(r, m)) /\ (Ahead(s, m, theirs) <=> Ahead(r, m, theirs))
  BY DEF SameSending, Behind, Ahead
<1> QED BY <1>1, <1>2, <1>3

\* Another message has another skipped key.
LEMMA OtherKey ==
  ASSUME NEW theirs \in Seq(Message), KeysDiffer(theirs),
         NEW i \in DOMAIN theirs, NEW j \in DOMAIN theirs, i # j, NEW s, Kept(s, theirs[j])
  PROVE  [key |-> theirs[j].key, n |-> theirs[j].n, chain |-> theirs[j].chain]
           \in s.skipped \ SkippedKey(s, theirs[i])
<1> DEFINE e == [key |-> theirs[j].key, n |-> theirs[j].n, chain |-> theirs[j].chain]
<1>1. e.key = theirs[j].key /\ e.n = theirs[j].n
  OBVIOUS
<1>2. e \notin SkippedKey(s, theirs[i])
  BY <1>1 DEF KeysDiffer, SkippedKey
<1> QED BY <1>2 DEF Kept

\* Opening with a skipped key leaves a row that fits.
LEMMA TakeFits ==
  ASSUME NEW s \in Session, NEW r \in Session, NEW mine, NEW theirs \in Seq(Message),
         KeysDiffer(theirs), NEW left \in SUBSET DOMAIN theirs, Fits(s, mine, theirs, left),
         NEW i \in DOMAIN theirs, Takes(s, theirs[i], r)
  PROVE  Fits(r, mine, theirs, left \ {i})
<1>1. /\ SameSending(s, r) /\ SameReceiving(s, r)
      /\ r.skipped = s.skipped \ SkippedKey(s, theirs[i])
  BY DEF Takes
<1>2. Sends(r, mine) /\ Turned(r, mine)
  BY <1>1, SameHalves DEF Fits, SameReceiving
<1>3. Heard(r, theirs)
  BY <1>1 DEF Fits, Heard, SameReceiving
<1>4. \A j \in DOMAIN theirs : Behind(r, theirs[j]) \/ Ahead(r, theirs[j], theirs)
  BY <1>1, SameHalves DEF Fits, Receives, SameReceiving
<1>5. ASSUME NEW j \in left \ {i}, Behind(r, theirs[j])
      PROVE  Kept(r, theirs[j]) \/ Comes(r, theirs[j])
  <2>1. Behind(s, theirs[j])
    BY <1>1, <1>5, SameHalves DEF SameReceiving
  <2>2. CASE Comes(s, theirs[j])
    BY <1>1, <2>2 DEF Comes, SameReceiving
  <2>3. CASE Kept(s, theirs[j])
    BY <1>1, <2>3, OtherKey DEF Kept
  <2> QED BY <2>1, <2>2, <2>3 DEF Fits, Receives
<1> QED BY <1>2, <1>3, <1>4, <1>5 DEF Fits, Receives

\* What Between holds.
LEMMA InBetween ==
  ASSUME NEW key, NEW chain, NEW from \in Nat, NEW until \in Nat
  PROVE  /\ \A e \in Between(key, chain, from, until) :
              e.key = key /\ e.chain = chain /\ e.n \in Nat /\ from <= e.n /\ e.n < until
         /\ \A n \in Nat : from <= n /\ n < until =>
              [key |-> key, n |-> n, chain |-> chain] \in Between(key, chain, from, until)
<1>1. ASSUME NEW e \in Between(key, chain, from, until)
      PROVE  e.key = key /\ e.chain = chain /\ e.n \in Nat /\ from <= e.n /\ e.n < until
  <2>1. PICK n \in from .. (until - 1) : e = [key |-> key, n |-> n, chain |-> chain]
    BY DEF Between
  <2> QED BY <2>1
<1>2. ASSUME NEW n \in Nat, from <= n, n < until
      PROVE  [key |-> key, n |-> n, chain |-> chain] \in Between(key, chain, from, until)
  <2>1. n \in from .. (until - 1)
    BY <1>2
  <2> QED BY <2>1 DEF Between
<1> QED BY <1>1, <1>2

\* So does reading on in the receiving chain: what was passed is kept.
LEMMA ReadFits ==
  ASSUME NEW s \in Session, NEW r \in Session, NEW mine, NEW theirs \in Seq(Message),
         SameKeySameChain(theirs), KeysDiffer(theirs),
         NEW left \in SUBSET DOMAIN theirs, Fits(s, mine, theirs, left),
         NEW i \in DOMAIN theirs, CanRead(s, theirs[i]), Reads(s, theirs[i], r)
  PROVE  Fits(r, mine, theirs, left \ {i})
<1> DEFINE m == theirs[i]
           new == Between(s.recvKey, s.recvChain, s.recvN, m.n)
<1>1. /\ SameSending(s, r) /\ r.recvChain = s.recvChain /\ r.recvKey = s.recvKey
      /\ r.recvN = m.n + 1 /\ r.skipped = s.skipped \cup new
  BY DEF Reads
<1>2. /\ m.key = s.recvKey /\ s.recvChain # None /\ s.recvChain = m.chain
      /\ m.n \in Nat /\ s.recvN \in Nat /\ s.recvN <= m.n
  BY SessionFields, MessagesOf DEF CanRead
<1>3. /\ \A e \in new : e.key = s.recvKey /\ e.chain = s.recvChain /\ e.n \in Nat /\ e.n < m.n
      /\ \A n \in Nat : s.recvN <= n /\ n < m.n =>
           [key |-> s.recvKey, n |-> n, chain |-> s.recvChain] \in new
  BY <1>2, InBetween
<1> HIDE DEF m, new
<1>4. Sends(r, mine) /\ Turned(r, mine)
  BY <1>1, SameHalves DEF Fits
<1>5. Heard(r, theirs)
  <2>1. s.recvChain \in Chain /\ Len(s.recvChain) <= Len(s.recvChain)
    BY <1>2, SessionFields, ChainFacts
  <2>2. \A e \in new : /\ \E j \in DOMAIN theirs : theirs[j].key = e.key /\ theirs[j].chain = e.chain
                       /\ r.recvChain # None /\ Len(e.chain) <= Len(r.recvChain)
                       /\ e.key = r.recvKey => e.n < r.recvN
    BY <1>1, <1>2, <1>3, <2>1 DEF m
  <2>3. \A e \in s.skipped :
          /\ \E j \in DOMAIN theirs : theirs[j].key = e.key /\ theirs[j].chain = e.chain
          /\ r.recvChain # None /\ Len(e.chain) <= Len(r.recvChain)
          /\ e.key = r.recvKey => e.n < r.recvN
    <3>1. \A e \in s.skipped : e.n \in Nat
      BY SessionFields
    <3> QED BY <1>1, <1>2, <3>1 DEF Fits, Heard
  <2>4. \E j \in DOMAIN theirs : theirs[j].key = r.recvKey /\ theirs[j].n = r.recvN - 1
    BY <1>1, <1>2 DEF m
  <2>5. \E j \in DOMAIN theirs : theirs[j].key = r.recvKey /\ theirs[j].chain = r.recvChain
    BY <1>1, <1>2 DEF m
  <2> QED BY <1>1, <2>2, <2>3, <2>4, <2>5 DEF Heard
<1>6. \A j \in DOMAIN theirs : Behind(r, theirs[j]) \/ Ahead(r, theirs[j], theirs)
  BY <1>1, SameHalves DEF Fits, Receives
<1>7. ASSUME NEW j \in left \ {i}, Behind(r, theirs[j])
      PROVE  Kept(r, theirs[j]) \/ Comes(r, theirs[j])
  <2>1. Behind(s, theirs[j])
    BY <1>1, <1>7, SameHalves
  <2>2. CASE Comes(s, theirs[j])
    <3>1. theirs[j].n \in Nat /\ theirs[j].key = s.recvKey /\ theirs[j].n >= s.recvN
      BY <2>2, MessagesOf DEF Comes
    <3>2. theirs[j].chain = s.recvChain
      BY <1>2, <3>1, ReceivingChain DEF Fits
    <3>3. theirs[j].n # m.n
      BY <1>2, <3>1 DEF KeysDiffer, m
    <3>4. CASE theirs[j].n < m.n
      BY <1>1, <1>3, <3>1, <3>2, <3>4 DEF Kept
    <3>5. CASE theirs[j].n > m.n
      BY <1>1, <1>2, <3>1, <3>5 DEF Comes
    <3> QED BY <1>2, <3>1, <3>3, <3>4, <3>5
  <2>3. CASE Kept(s, theirs[j])
    BY <1>1, <2>3 DEF Kept
  <2> QED BY <2>1, <2>2, <2>3 DEF Fits, Receives
<1> QED BY <1>4, <1>5, <1>6, <1>7 DEF Fits, Receives

\* All messages that wait for the same step are of one chain.
LEMMA AheadTogether ==
  ASSUME NEW s \in Session, NEW mine, Sends(s, mine), NEW theirs \in Seq(Message),
         SameKeySameChain(theirs), Heard(s, theirs),
         NEW i \in DOMAIN theirs, Ahead(s, theirs[i], theirs),
         NEW j \in DOMAIN theirs, Ahead(s, theirs[j], theirs)
  PROVE  theirs[j].key = theirs[i].key /\ theirs[j].chain = theirs[i].chain
<1>1. Len(theirs[i].chain) = Len(s.root) + 1 /\ Len(theirs[j].chain) = Len(s.root) + 1
  BY AheadIsLonger
<1> QED BY <1>1 DEF SameKeySameChain

\* The sending half after a Diffie-Hellman step: a new pair, a new chain, and
\* the count of the old one in pn.
LEMMA TurnSends ==
  ASSUME NEW s \in Session, NEW r \in Session, NEW mine \in Seq(Message),
         Sends(s, mine), NEW m \in Message, Len(m.chain) = Len(s.root) + 1,
         NEW k \in KeyPair, \A j \in DOMAIN mine : mine[j].key # k,
         TurnsTo(s, m, k, r)
  PROVE  Sends(r, mine) /\ Turned(r, mine)
<1>1. /\ r.root = KdfRoot(m.chain, k, m.key) /\ r.sendChain = r.root /\ r.sendKey = k
      /\ r.sendN = 0 /\ r.pn = s.sendN /\ r.recvChain = m.chain /\ r.recvKey = m.key
  BY DEF TurnsTo
<1>2. /\ r.root \in Chain /\ m.chain \in Chain /\ s.root \in Chain
      /\ r.sendChain # None /\ r.recvChain # None /\ s.sendN \in Nat
  BY <1>1, SessionFields, MessageFields, NoneIsNothing
<1>3. /\ Len(r.root) = Len(m.chain) + 1 /\ Len(m.chain) \in Nat /\ Len(s.root) \in Nat
      /\ Len(r.root) - 2 = Len(s.root)
  BY <1>1, <1>2, ChainFacts
<1>4. s.sendChain # None => s.sendChain = s.root
  BY DEF Sends
<1>5. \A j \in DOMAIN mine :
        /\ Len(mine[j].chain) < Len(r.sendChain)
        /\ Len(mine[j].chain) = Len(r.sendChain) - 2 => mine[j].n < r.pn
  <2> TAKE j \in DOMAIN mine
  <2>1. s.sendChain # None /\ Len(mine[j].chain) \in Nat
    BY MessagesOf DEF Sends
  <2>2. CASE mine[j].key = s.sendKey
    BY <1>1, <1>3, <1>4, <2>1, <2>2 DEF Sends
  <2>3. CASE mine[j].key # s.sendKey
    <3>1. Len(mine[j].chain) < Len(s.sendChain)
      BY <2>1, <2>3 DEF Sends
    <3> QED BY <1>1, <1>3, <1>4, <2>1, <3>1
  <2> QED BY <2>2, <2>3
<1>6. Sends(r, mine)
  BY <1>1, <1>2, <1>3, <1>5 DEF Sends
<1>7. r.sendChain = KdfRoot(r.recvChain, r.sendKey, r.recvKey)
  BY <1>1
<1>8. ASSUME r.pn # 0
      PROVE  /\ mine # <<>> /\ Len(mine[Len(mine)].chain) = Len(r.sendChain) - 2
             /\ mine[Len(mine)].n = r.pn - 1
  <2>1. /\ mine # <<>> /\ mine[Len(mine)].key = s.sendKey /\ mine[Len(mine)].n = r.pn - 1
        /\ s.sendChain # None
    BY <1>1, <1>8 DEF Sends
  <2>2. Len(mine) \in DOMAIN mine
    BY <2>1
  <2>3. mine[Len(mine)].chain = s.sendChain
    BY <2>1, <2>2 DEF Sends
  <2> QED BY <1>1, <1>3, <1>4, <2>1, <2>3
<1>9. Turned(r, mine)
  BY <1>5, <1>7, <1>8 DEF Turned
<1> QED BY <1>6, <1>9

\* Opening after a Diffie-Hellman step leaves a row that fits: what is missing
\* of the old chain is kept, as pn counts its messages.
LEMMA TurnFits ==
  ASSUME NEW s \in Session, NEW r \in Session, NEW mine \in Seq(Message),
         NEW theirs \in Seq(Message), SameKeySameChain(theirs), KeysDiffer(theirs),
         NEW left \in SUBSET DOMAIN theirs, Fits(s, mine, theirs, left),
         NEW i \in DOMAIN theirs, CanTurn(s, theirs[i]),
         NEW k \in KeyPair, \A j \in DOMAIN mine : mine[j].key # k,
         TurnsTo(s, theirs[i], k, r)
  PROVE  Fits(r, mine, theirs, left \ {i})
<1> DEFINE m == theirs[i]
           rest == Between(s.recvKey, s.recvChain, s.recvN, m.pn)
           new == Between(m.key, m.chain, 0, m.n)
<1>1. /\ r.recvChain = m.chain /\ r.recvKey = m.key /\ r.recvN = m.n + 1
      /\ r.skipped = (s.skipped \cup (IF s.recvChain = None THEN {} ELSE rest)) \cup new
  BY DEF TurnsTo
<1>2. /\ m \in Message /\ m.key \in KeyPair /\ m.n \in Nat /\ m.pn \in Nat /\ m.chain \in Chain
      /\ Len(m.chain) \in Nat /\ s.recvN \in Nat /\ m.key # s.recvKey /\ m.chain # None
  BY SessionFields, MessagesOf, NoneIsNothing DEF CanTurn
<1>3. Sends(s, mine) /\ Heard(s, theirs) /\ Receives(s, theirs, left)
  BY DEF Fits
<1>4. /\ Len(m.chain) = Len(s.root) + 1
      /\ s.recvChain # None => Len(s.recvChain) \in Nat /\ Len(s.recvChain) < Len(m.chain)
  <2>1. s.root \in Chain /\ (s.recvChain # None => s.recvChain \in Chain)
    BY SessionFields
  <2>2. Len(m.chain) = Len(s.root) + 1 /\ Len(s.root) \in Nat
    BY <2>1, ChainFacts DEF CanTurn
  <2>3. s.recvChain # None => Len(s.recvChain) \in Nat /\ Len(s.recvChain) <= Len(s.root)
    BY <1>3, <2>1, ChainFacts DEF Sends
  <2> QED BY <2>2, <2>3
<1>5. Ahead(s, m, theirs)
  <2>1. ~Behind(s, m)
    BY <1>2, <1>4 DEF Behind
  <2> QED BY <1>3, <2>1 DEF Receives
<1>6. /\ \A e \in rest : e.key = s.recvKey /\ e.chain = s.recvChain /\ e.n \in Nat
      /\ \A n \in Nat : s.recvN <= n /\ n < m.pn =>
           [key |-> s.recvKey, n |-> n, chain |-> s.recvChain] \in rest
  BY <1>2, InBetween
<1>7. /\ \A e \in new : e.key = m.key /\ e.chain = m.chain /\ e.n \in Nat /\ e.n < m.n
      /\ \A n \in Nat : n < m.n => [key |-> m.key, n |-> n, chain |-> m.chain] \in new
  BY <1>2, InBetween
<1>8. Sends(r, mine) /\ Turned(r, mine)
  BY <1>2, <1>3, <1>4, TurnSends
<1> HIDE DEF m, rest, new
<1>9. Heard(r, theirs)
  <2> DEFINE Known(e) == /\ \E j \in DOMAIN theirs : theirs[j].key = e.key /\ theirs[j].chain = e.chain
                         /\ r.recvChain # None /\ Len(e.chain) <= Len(r.recvChain)
                         /\ e.key = r.recvKey => e.n < r.recvN
  <2>1. ASSUME NEW e \in new PROVE Known(e)
    BY <1>1, <1>2, <1>7 DEF m
  <2>2. ASSUME NEW e, s.recvChain # None, Len(e.chain) <= Len(s.recvChain), Len(e.chain) \in Nat,
               \E j \in DOMAIN theirs : theirs[j].key = e.key /\ theirs[j].chain = e.chain
        PROVE  Known(e)
    <3>1. Len(e.chain) < Len(m.chain)
      BY <1>2, <1>4, <2>2
    <3>2. e.key # m.key
      BY <2>2, <3>1 DEF SameKeySameChain, m
    <3>3. r.recvChain # None /\ Len(e.chain) <= Len(r.recvChain)
      BY <1>1, <1>2, <2>2, <3>1
    <3>4. e.key # r.recvKey
      BY <1>1, <3>2
    <3> QED BY <2>2, <3>3, <3>4
  <2>3. ASSUME NEW e \in s.skipped PROVE Known(e)
    <3>1. Len(e.chain) \in Nat
      BY SessionFields, ChainFacts
    <3> HIDE DEF Known
    <3> QED BY <1>3, <2>2, <3>1 DEF Heard
  <2>4. ASSUME NEW e \in rest, s.recvChain # None PROVE Known(e)
    <3>1. Len(e.chain) \in Nat /\ Len(e.chain) <= Len(s.recvChain)
      BY <1>4, <1>6, <2>4
    <3>2. \E j \in DOMAIN theirs : theirs[j].key = e.key /\ theirs[j].chain = e.chain
      BY <1>3, <1>6, <2>4 DEF Heard
    <3> HIDE DEF Known
    <3> QED BY <2>2, <2>4, <3>1, <3>2
  <2>5. \A e \in r.skipped : Known(e)
    <3> HIDE DEF Known
    <3> QED BY <1>1, <2>1, <2>3, <2>4
  <2>6. \E j \in DOMAIN theirs : theirs[j].key = r.recvKey /\ theirs[j].n = r.recvN - 1
    BY <1>1, <1>2 DEF m
  <2>7. \E j \in DOMAIN theirs : theirs[j].key = r.recvKey /\ theirs[j].chain = r.recvChain
    BY <1>1, <1>2 DEF m
  <2> QED BY <2>5, <2>6, <2>7 DEF Heard
<1>10. ASSUME NEW j \in DOMAIN theirs, Ahead(s, theirs[j], theirs)
       PROVE  theirs[j].key = m.key /\ theirs[j].chain = m.chain
  BY <1>3, <1>5, <1>10, AheadTogether DEF m
<1>11. \A j \in DOMAIN theirs : Behind(r, theirs[j])
  <2> TAKE j \in DOMAIN theirs
  <2>1. CASE Behind(s, theirs[j])
    <3>1. Len(theirs[j].chain) \in Nat
      BY MessagesOf
    <3> QED BY <1>1, <1>2, <1>4, <2>1, <3>1 DEF Behind
  <2>2. CASE Ahead(s, theirs[j], theirs)
    BY <1>1, <1>2, <1>10, <2>2 DEF Behind
  <2> QED BY <1>3, <2>1, <2>2 DEF Receives
<1>12. ASSUME NEW j \in left \ {i} PROVE Kept(r, theirs[j]) \/ Comes(r, theirs[j])
  <2>1. theirs[j].n \in Nat
    BY MessagesOf
  <2>2. CASE Ahead(s, theirs[j], theirs)
    <3>1. theirs[j].key = m.key /\ theirs[j].chain = m.chain
      BY <1>10, <2>2
    <3>2. theirs[j].n # m.n
      BY <3>1 DEF KeysDiffer, m
    <3>3. CASE theirs[j].n < m.n
      BY <1>1, <1>7, <2>1, <3>1, <3>3 DEF Kept
    <3>4. CASE theirs[j].n > m.n
      BY <1>1, <1>2, <2>1, <3>1, <3>4 DEF Comes
    <3> QED BY <1>2, <2>1, <3>2, <3>3, <3>4
  <2>3. CASE Behind(s, theirs[j]) /\ Kept(s, theirs[j])
    BY <1>1, <2>3 DEF Kept
  <2>4. CASE Behind(s, theirs[j]) /\ Comes(s, theirs[j])
    <3>1. theirs[j].key = s.recvKey /\ theirs[j].n >= s.recvN /\ s.recvChain # None
      BY <2>4 DEF Comes, Behind
    <3>2. theirs[j].chain = s.recvChain
      BY <1>3, <3>1, ReceivingChain
    <3>3. theirs[j].n < m.pn
      BY <1>5, <3>1 DEF Ahead
    <3> QED BY <1>1, <1>2, <1>6, <2>1, <3>1, <3>2, <3>3 DEF Kept
  <2> QED BY <1>3, <2>2, <2>3, <2>4 DEF Receives
<1> QED BY <1>8, <1>9, <1>11, <1>12 DEF Fits, Receives

\* The row that createX3DHSession makes fits, if nothing was sent yet and the
\* peer has not turned.
LEMMA RespondFits ==
  ASSUME NEW theirs \in Seq(Message), SameKeySameChain(theirs),
         \A j \in DOMAIN theirs : theirs[j].chain = <<>>,
         NEW left \in SUBSET DOMAIN theirs, NEW i \in DOMAIN theirs, NEW k \in KeyPair
  PROVE  Fits(Respond(theirs[i], k), <<>>, theirs, left)
<1> DEFINE r == Respond(theirs[i], k)
<1>1. /\ r.root = <<>> /\ r.sendChain = None /\ r.sendN = 0 /\ r.pn = 0 /\ r.recvChain = <<>>
      /\ r.recvKey = theirs[i].key /\ r.recvN = 0 /\ r.skipped = {}
  BY DEF Respond
<1> HIDE DEF r
<1>2. <<>> # None
  <2>1. <<>> \in Chain
    BY DEF Chain
  <2> QED BY <2>1, NoneIsNothing
<1>3. Sends(r, <<>>) /\ Turned(r, <<>>)
  BY <1>1, <1>2 DEF Sends, Turned
<1>4. Heard(r, theirs)
  BY <1>1 DEF Heard
<1>5. \A j \in DOMAIN theirs : Behind(r, theirs[j]) /\ Comes(r, theirs[j])
  <2> TAKE j \in DOMAIN theirs
  <2>1. theirs[j].key = theirs[i].key /\ theirs[j].n \in Nat
    BY MessagesOf DEF SameKeySameChain
  <2>2. Len(theirs[j].chain) <= Len(<<>>)
    BY MessagesOf
  <2> QED BY <1>1, <1>2, <2>1, <2>2 DEF Behind, Comes
<1>6. Receives(r, theirs, left)
  BY <1>5 DEF Receives
<1> QED BY <1>3, <1>4, <1>6 DEF Fits, r

\* The positions of a chain are sealed one after the other, and pn is the
\* position at which the chain before ended.
Gapless(ms) ==
  \A i \in DOMAIN ms :
    /\ \A k \in 0 .. ms[i].n : /\ i - k \in DOMAIN ms /\ ms[i - k].key = ms[i].key
                               /\ ms[i - k].n = ms[i].n - k
    /\ ms[i].pn # 0 => LET j == i - ms[i].n - 1 IN
         /\ j \in DOMAIN ms /\ ms[j].n = ms[i].pn - 1
         /\ Len(ms[j].chain) = Len(ms[i].chain) - 2

\* Decrypting leaves a row that fits.
LEMMA DecryptFits ==
  ASSUME NEW s \in Session, NEW mine \in Seq(Message), NEW theirs \in Seq(Message),
         SameKeySameChain(theirs), KeysDiffer(theirs),
         NEW left \in SUBSET DOMAIN theirs, Fits(s, mine, theirs, left),
         NEW i \in DOMAIN theirs,
         NEW k \in KeyPair, \A j \in DOMAIN mine : mine[j].key # k,
         Decrypt(s, theirs[i], k) # None
  PROVE  LET r == Decrypt(s, theirs[i], k) IN
         /\ r \in Session /\ Fits(r, mine, theirs, left \ {i})
         /\ s.recvChain # None => r.recvChain # None
<1> DEFINE r == Decrypt(s, theirs[i], k)
<1>1. theirs[i] \in Message
  BY MessagesOf
<1>2. r \in Session /\ Outcome(s, theirs[i], k, r)
  BY <1>1, DecryptType, DecryptIs
<1>3. r # None
  OBVIOUS
<1> HIDE DEF r
<1>4. CASE CanTake(s, theirs[i]) /\ Takes(s, theirs[i], r)
  <2>1. Fits(r, mine, theirs, left \ {i})
    BY <1>2, <1>4, TakeFits
  <2>2. r.recvChain = s.recvChain
    BY <1>4 DEF Takes, SameReceiving
  <2> QED BY <1>2, <2>1, <2>2 DEF r
<1>5. CASE CanRead(s, theirs[i]) /\ Reads(s, theirs[i], r)
  <2>1. Fits(r, mine, theirs, left \ {i})
    BY <1>2, <1>5, ReadFits
  <2>2. r.recvChain = s.recvChain
    BY <1>5 DEF Reads
  <2> QED BY <1>2, <2>1, <2>2 DEF r
<1>6. CASE CanTurn(s, theirs[i]) /\ TurnsTo(s, theirs[i], k, r)
  <2>1. Fits(r, mine, theirs, left \ {i})
    BY <1>2, <1>6, TurnFits
  <2>2. r.recvChain # None
    BY <1>6, MessagesOf, NoneIsNothing DEF TurnsTo
  <2> QED BY <1>2, <2>1, <2>2 DEF r
<1> QED BY <1>2, <1>3, <1>4, <1>5, <1>6 DEF Outcome

\* The lengths of one end's chains are all even or all odd.
Parity(ms, side) == \A i \in DOMAIN ms : Len(ms[i].chain) % 2 = side

\* ensureSendChain leaves a row that fits.
LEMMA EnsureFits ==
  ASSUME NEW s \in Session, NEW mine \in Seq(Message), NEW theirs \in Seq(Message),
         SameKeySameChain(theirs), NEW side, Parity(theirs, side),
         NEW left \in SUBSET DOMAIN theirs, Fits(s, mine, theirs, left), NEW k \in KeyPair
  PROVE  LET r == EnsureSendChain(s, k) IN
         /\ Fits(r, mine, theirs, left) /\ r.sendChain # None
         /\ SameReceiving(s, r) /\ r.skipped = s.skipped
<1> DEFINE r == EnsureSendChain(s, k)
<1>1. CASE s.sendChain # None
  <2>1. r = s
    BY <1>1 DEF EnsureSendChain
  <2> QED BY <1>1, <2>1 DEF SameReceiving
<1>2. CASE s.sendChain = None
  <2> DEFINE chain == KdfRoot(s.root, k, s.recvKey)
  <2>1. s.root = <<>> /\ s.recvChain = <<>> /\ mine = <<>> /\ s.sendN = 0
    BY <1>2 DEF Fits, Sends
  <2>2. s.recvChain \in Chain /\ s.recvChain # None /\ s.root = s.recvChain
    <3>1. <<>> \in Seq(SUBSET KeyPair)
      OBVIOUS
    <3>2. <<>> \in Chain
      BY <3>1 DEF Chain
    <3> QED BY <2>1, <3>2, NoneIsNothing
  <2>3. r = [s EXCEPT !.root = chain, !.sendChain = chain, !.sendKey = k,
                      !.pn = s.sendN, !.sendN = 0]
    BY <1>2 DEF EnsureSendChain
  <2>4. /\ r.root = chain /\ r.sendChain = chain /\ r.sendKey = k /\ r.pn = 0 /\ r.sendN = 0
        /\ SameReceiving(s, r) /\ r.skipped = s.skipped
    BY <2>1, <2>3 DEF SameReceiving, Session, SessionRecord
  <2>5. chain \in Chain /\ Len(chain) = Len(s.recvChain) + 1 /\ Len(s.recvChain) = 0
        /\ chain = KdfRoot(s.recvChain, k, s.recvKey) /\ chain # None
    <3>1. s.recvKey \in KeyPair
      BY <1>2, SessionFields
    <3>2. chain \in Chain
      BY <2>2, <3>1, KdfRootType
    <3>3. Len(chain) = Len(s.recvChain) + 1
      BY <2>2, ChainFacts
    <3>4. Len(s.recvChain) = 0
      BY <2>1
    <3> QED BY <2>2, <3>2, <3>3, <3>4, NoneIsNothing
  <2> HIDE DEF r, chain
  <2>6. Sends(r, mine)
    BY <2>1, <2>2, <2>4, <2>5 DEF Sends, SameReceiving
  <2>7. Turned(r, mine)
    BY <2>1, <2>4, <2>5 DEF Turned, SameReceiving
  <2>8. Heard(r, theirs)
    BY <2>4 DEF Fits, Heard, SameReceiving
  <2>9. \A j \in DOMAIN theirs : Behind(s, theirs[j])
    <3> SUFFICES ASSUME NEW j \in DOMAIN theirs, Ahead(s, theirs[j], theirs) PROVE FALSE
      BY DEF Fits, Receives
    <3>1. Len(theirs[j].chain) = 1
      <4>1. Len(theirs[j].chain) = Len(s.root) + 1
        BY AheadIsLonger DEF Fits
      <4> QED BY <2>2, <2>5, <4>1
    <3>2. PICK i \in DOMAIN theirs : theirs[i].chain = s.recvChain
      BY <2>2 DEF Fits, Heard
    <3>3. Len(theirs[i].chain) = 0
      BY <2>5, <3>2
    <3>4. 0 % 2 = side /\ 1 % 2 = side
      BY <3>1, <3>3 DEF Parity
    <3> QED BY <3>4
  <2>10. Receives(r, theirs, left)
    BY <2>4, <2>9 DEF Fits, Receives, Behind, Kept, Comes, SameReceiving
  <2>11. Fits(r, mine, theirs, left) /\ r.sendChain # None
    BY <2>4, <2>5, <2>6, <2>7, <2>8, <2>10 DEF Fits
  <2> QED BY <2>4, <2>11 DEF r
<1> QED BY <1>1, <1>2

\* What encrypt seals with the row s.
Seals(s, m) == m.key = s.sendKey /\ m.n = s.sendN /\ m.pn = s.pn /\ m.chain = s.sendChain

\* A sequence with one more message.
LEMMA OneMore ==
  ASSUME NEW ms \in Seq(Message), NEW m \in Message
  PROVE  LET new == Append(ms, m) IN
         /\ new \in Seq(Message) /\ Len(ms) \in Nat /\ Len(new) = Len(ms) + 1
         /\ DOMAIN new = DOMAIN ms \cup {Len(ms) + 1} /\ new # <<>>
         /\ new[Len(ms) + 1] = m /\ \A i \in DOMAIN ms : new[i] = ms[i]
         /\ DOMAIN ms = 1 .. Len(ms) /\ (ms # <<>> => Len(ms) \in DOMAIN ms)
  OBVIOUS

\* The messages keep their order and their chains when the next is sealed.
LEMMA SealOrder ==
  ASSUME NEW s \in Session, NEW mine \in Seq(Message), Sends(s, mine), Turned(s, mine),
         s.sendChain # None, SameKeySameChain(mine), Gapless(mine),
         NEW m \in Message, Seals(s, m)
  PROVE  SameKeySameChain(Append(mine, m)) /\ Gapless(Append(mine, m))
<1> DEFINE new == Append(mine, m)
           last == Len(mine) + 1
<1>1. /\ DOMAIN new = DOMAIN mine \cup {last} /\ Len(mine) \in Nat
      /\ new[last] = m /\ \A i \in DOMAIN mine : new[i] = mine[i]
      /\ DOMAIN mine = 1 .. Len(mine) /\ (mine # <<>> => Len(mine) \in DOMAIN mine)
  BY OneMore
<1>2. m.key = s.sendKey /\ m.n = s.sendN /\ m.pn = s.pn /\ m.chain = s.sendChain
      /\ s.sendN \in Nat /\ s.pn \in Nat /\ Len(s.sendChain) \in Nat
  BY SessionFields, ChainFacts DEF Seals
<1>3. ASSUME NEW i \in DOMAIN mine
      PROVE  /\ mine[i].key = m.key => mine[i].chain = m.chain /\ mine[i].pn = m.pn
             /\ Len(mine[i].chain) = Len(m.chain) => mine[i].key = m.key
  <2>1. Len(mine[i].chain) \in Nat
    BY MessagesOf
  <2> QED BY <1>2, <2>1 DEF Sends
<1> HIDE DEF new, last
<1>4. SameKeySameChain(new)
  BY <1>1, <1>3 DEF SameKeySameChain
<1>5. ASSUME NEW i \in DOMAIN mine
      PROVE  /\ \A k \in 0 .. new[i].n : /\ i - k \in DOMAIN new /\ new[i - k].key = new[i].key
                                         /\ new[i - k].n = new[i].n - k
             /\ new[i].pn # 0 => LET j == i - new[i].n - 1 IN
                  /\ j \in DOMAIN new /\ new[j].n = new[i].pn - 1
                  /\ Len(new[j].chain) = Len(new[i].chain) - 2
  BY <1>1 DEF Gapless
<1>6. CASE s.sendN = 0
  <2>1. \A k \in 0 .. m.n : last - k \in DOMAIN new /\ new[last - k].key = m.key
                            /\ new[last - k].n = m.n - k
    BY <1>1, <1>2, <1>6 DEF last
  <2>2. m.pn # 0 => LET j == last - m.n - 1 IN
          /\ j \in DOMAIN new /\ new[j].n = m.pn - 1 /\ Len(new[j].chain) = Len(m.chain) - 2
    <3>1. last - m.n - 1 = Len(mine)
      BY <1>1, <1>2, <1>6 DEF last
    <3>2. ASSUME m.pn # 0
          PROVE  /\ Len(mine) \in DOMAIN mine /\ mine[Len(mine)].n = m.pn - 1
                 /\ Len(mine[Len(mine)].chain) = Len(m.chain) - 2
      <4>1. s.recvChain # None
        BY <1>2, <3>2 DEF Sends
      <4> QED BY <1>1, <1>2, <1>6, <3>2, <4>1 DEF Turned
    <3> QED BY <1>1, <3>1, <3>2
  <2> QED BY <1>1, <1>4, <1>5, <2>1, <2>2 DEF Gapless, new
<1>7. CASE s.sendN # 0
  <2> DEFINE b == mine[Len(mine)]
  <2>1. mine # <<>> /\ b.key = m.key /\ b.n = m.n - 1 /\ Len(mine) \in DOMAIN mine
    BY <1>1, <1>2, <1>7 DEF Sends
  <2>2. b.chain = m.chain /\ b.pn = m.pn
    BY <1>3, <2>1
  <2>3. \A k \in 0 .. b.n : Len(mine) - k \in DOMAIN mine /\ mine[Len(mine) - k].key = b.key
                            /\ mine[Len(mine) - k].n = b.n - k
    BY <2>1 DEF Gapless
  <2>4. b.pn # 0 => LET j == Len(mine) - b.n - 1 IN
          /\ j \in DOMAIN mine /\ mine[j].n = b.pn - 1 /\ Len(mine[j].chain) = Len(b.chain) - 2
    BY <2>1 DEF Gapless
  <2> HIDE DEF b
  <2>5. ASSUME NEW k \in 0 .. m.n
        PROVE  last - k \in DOMAIN new /\ new[last - k].key = m.key /\ new[last - k].n = m.n - k
    <3>1. CASE k = 0
      BY <1>1, <1>2, <3>1 DEF last
    <3>2. CASE k # 0
      <4>1. k - 1 \in 0 .. b.n /\ Len(mine) - (k - 1) = last - k /\ b.n - (k - 1) = m.n - k
        BY <1>1, <1>2, <2>1, <3>2 DEF last
      <4>2. last - k \in DOMAIN mine /\ mine[last - k].key = b.key /\ mine[last - k].n = m.n - k
        BY <2>3, <4>1
      <4> QED BY <1>1, <2>1, <4>2
    <3> QED BY <3>1, <3>2
  <2>6. m.pn # 0 => LET j == last - m.n - 1 IN
          /\ j \in DOMAIN new /\ new[j].n = m.pn - 1 /\ Len(new[j].chain) = Len(m.chain) - 2
    <3>1. last - m.n - 1 = Len(mine) - b.n - 1
      BY <1>1, <1>2, <2>1 DEF last
    <3> QED BY <1>1, <2>2, <2>4, <3>1
  <2> QED BY <1>1, <1>4, <1>5, <2>5, <2>6 DEF Gapless, new
<1> QED BY <1>6, <1>7

\* Sealing leaves the sender a row that fits.
LEMMA SealFits ==
  ASSUME NEW s \in Session, NEW mine \in Seq(Message), NEW theirs, NEW left,
         Fits(s, mine, theirs, left), s.sendChain # None, NEW m \in Message, Seals(s, m)
  PROVE  Fits([s EXCEPT !.sendN = @ + 1], Append(mine, m), theirs, left)
<1> DEFINE r == [s EXCEPT !.sendN = @ + 1]
           new == Append(mine, m)
<1>1. /\ DOMAIN new = DOMAIN mine \cup {Len(mine) + 1} /\ new # <<>> /\ Len(new) = Len(mine) + 1
      /\ new[Len(mine) + 1] = m /\ \A i \in DOMAIN mine : new[i] = mine[i]
  BY OneMore
<1>2. m.key = s.sendKey /\ m.n = s.sendN /\ m.pn = s.pn /\ m.chain = s.sendChain
      /\ s.sendN \in Nat
  BY SessionFields DEF Seals
<1>3. /\ r.root = s.root /\ r.sendChain = s.sendChain /\ r.sendKey = s.sendKey
      /\ r.sendN = s.sendN + 1 /\ r.pn = s.pn /\ SameReceiving(s, r) /\ r.skipped = s.skipped
  BY DEF Session, SessionRecord, SameReceiving
<1>4. \A i \in DOMAIN mine : mine[i].n \in Nat
  BY MessagesOf
<1> HIDE DEF r, new
<1>5. Sends(r, new)
  BY <1>1, <1>2, <1>3, <1>4 DEF Fits, Sends, SameReceiving
<1>6. Turned(r, new)
  BY <1>2, <1>3 DEF Turned
<1>7. Heard(r, theirs)
  BY <1>3 DEF Fits, Heard, SameReceiving
<1>8. Receives(r, theirs, left)
  BY <1>3 DEF Fits, Receives, Behind, Ahead, Kept, Comes, SameReceiving
<1>9. Fits(r, new, theirs, left)
  BY <1>5, <1>6, <1>7, <1>8 DEF Fits
<1> QED BY <1>9 DEF r, new

\* A message of a chain already begun is read or reached as the others of it.
LEMMA SealedOnIsReached ==
  ASSUME NEW s \in Session, NEW u \in Session, NEW mine \in Seq(Message), NEW theirs,
         SameKeySameChain(mine), Sends(s, mine), s.sendChain # None,
         NEW left, Fits(u, theirs, mine, left), NEW m \in Message, Seals(s, m),
         NEW i \in DOMAIN mine, mine[i].key = s.sendKey
  PROVE  \/ Behind(u, m) /\ Comes(u, m)
         \/ Ahead(u, m, mine) /\ Len(m.chain) = Len(mine[i].chain) /\ Ahead(u, mine[i], mine)
<1>1. m.key = s.sendKey /\ m.n = s.sendN /\ m.pn = s.pn /\ m.chain = s.sendChain
      /\ s.sendN \in Nat /\ Len(s.sendChain) \in Nat
  BY SessionFields, ChainFacts DEF Seals
<1>2. mine[i].chain = m.chain /\ mine[i].pn = m.pn /\ mine[i].key = m.key
  BY <1>1 DEF Sends
<1>3. CASE Behind(u, mine[i])
  <2>1. u.recvChain # None /\ Len(m.chain) <= Len(u.recvChain) /\ Behind(u, m)
    BY <1>2, <1>3 DEF Behind
  <2>2. PICK j \in DOMAIN mine : mine[j].key = u.recvKey /\ mine[j].chain = u.recvChain
    BY <2>1 DEF Fits, Heard
  <2>3. Len(mine[j].chain) \in Nat
    BY MessagesOf
  <2>4. Len(mine[j].chain) <= Len(m.chain)
    BY <1>1, <2>3 DEF Sends
  <2>5. Len(mine[j].chain) = Len(mine[i].chain)
    BY <1>1, <1>2, <2>1, <2>2, <2>3, <2>4
  <2>6. m.key = u.recvKey
    BY <1>2, <2>2, <2>5 DEF SameKeySameChain
  <2>7. m.n >= u.recvN
    <3>1. u.recvN \in Nat
      BY SessionFields
    <3>2. CASE u.recvN = 0
      BY <1>1, <3>2
    <3>3. CASE u.recvN # 0
      <4>1. PICK l \in DOMAIN mine : mine[l].key = u.recvKey /\ mine[l].n = u.recvN - 1
        BY <3>3 DEF Fits, Heard
      <4>2. mine[l].n < s.sendN
        BY <1>1, <2>6, <4>1 DEF Sends
      <4> QED BY <1>1, <3>1, <4>1, <4>2
    <3> QED BY <3>2, <3>3
  <2> QED BY <2>1, <2>6, <2>7 DEF Comes
<1>4. CASE Ahead(u, mine[i], mine)
  BY <1>2, <1>4 DEF Ahead
<1> QED BY <1>3, <1>4 DEF Fits, Receives

\* The first message of a chain is ahead of every row of the peer: the chain
\* continues the one on which the peer last sent, which is still that of its rows.
LEMMA FirstSealedIsAhead ==
  ASSUME NEW s \in Session, NEW u \in Session,
         NEW mine \in Seq(Message), NEW theirs \in Seq(Message),
         SameKeySameChain(mine), SameKeySameChain(theirs),
         NEW a, NEW b, a # b, Parity(mine, a), Parity(theirs, b),
         NEW left, Fits(s, mine, theirs, left), s.sendChain # None,
         NEW left2, Fits(u, theirs, mine, left2), s.recvChain = None => u.recvChain # None,
         NEW m \in Message, Seals(s, m), \A i \in DOMAIN mine : mine[i].key # s.sendKey
  PROVE  Ahead(u, m, mine)
<1>1. m.key = s.sendKey /\ m.n = s.sendN /\ m.pn = s.pn /\ m.chain = s.sendChain
      /\ s.sendN \in Nat /\ Len(s.sendChain) \in Nat
  BY SessionFields, ChainFacts DEF Seals
<1>2. \A i \in DOMAIN mine : Len(mine[i].chain) \in Nat /\ Len(mine[i].chain) < Len(s.sendChain)
  BY MessagesOf DEF Fits, Sends
<1>3. s.sendN = 0
  <2>1. mine # <<>> => Len(mine) \in DOMAIN mine
    OBVIOUS
  <2> QED BY <2>1 DEF Fits, Sends
<1>4. s.recvChain # None
  <2> SUFFICES ASSUME s.recvChain = None PROVE FALSE
    OBVIOUS
  <2>1. s.sendChain = <<>>
    BY DEF Fits, Sends
  <2>2. PICK i \in DOMAIN mine : mine[i].chain = u.recvChain
    BY DEF Fits, Heard
  <2>3. Len(s.sendChain) = 0
    BY <2>1
  <2>4. Len(mine[i].chain) \in Nat /\ Len(mine[i].chain) < 0
    BY <1>2, <2>3
  <2> QED BY <2>4
<1>5. /\ s.sendChain = KdfRoot(s.recvChain, s.sendKey, s.recvKey)
      /\ \A i \in DOMAIN mine : Len(mine[i].chain) = Len(s.sendChain) - 2 => mine[i].n < s.pn
  BY <1>3, <1>4 DEF Fits, Turned
<1>6. /\ s.recvChain \in Chain /\ Len(s.recvChain) \in Nat
      /\ Len(s.sendChain) = Len(s.recvChain) + 1
  BY <1>4, <1>5, SessionFields, ChainFacts
<1>7. PICK j \in DOMAIN theirs : theirs[j].key = s.recvKey /\ theirs[j].chain = s.recvChain
  BY <1>4 DEF Fits, Heard
<1>8. u.sendChain # None /\ u.root = u.sendChain
  <2>1. theirs # <<>>
    BY <1>7
  <2> QED BY <2>1 DEF Fits, Sends
<1>9. u.recvChain # None => /\ u.recvChain \in Chain /\ Len(u.recvChain) \in Nat
                            /\ Len(u.root) = Len(u.recvChain) + 1
  BY <1>8, SessionFields, ChainFacts DEF Fits, Sends
<1>10. theirs[j].key = u.sendKey
  <2> SUFFICES ASSUME theirs[j].key # u.sendKey PROVE FALSE
    OBVIOUS
  <2>1. Len(s.recvChain) < Len(u.root)
    BY <1>7, <1>8 DEF Fits, Sends
  <2>2. u.recvChain # None
    <3> SUFFICES ASSUME u.recvChain = None PROVE FALSE
      OBVIOUS
    <3>1. Len(u.root) = 0
      BY DEF Fits, Sends
    <3> QED BY <1>6, <2>1, <3>1
  <2>3. PICK i \in DOMAIN mine : mine[i].chain = u.recvChain
    BY <2>2 DEF Fits, Heard
  <2>4. Len(u.recvChain) < Len(s.recvChain) + 1 /\ Len(s.recvChain) < Len(u.recvChain) + 1
    BY <1>2, <1>6, <1>9, <2>1, <2>2, <2>3
  <2>5. Len(u.recvChain) = Len(s.recvChain)
    BY <1>6, <1>9, <2>2, <2>4
  <2>6. Len(u.recvChain) % 2 = a /\ Len(s.recvChain) % 2 = b
    BY <1>7, <2>3 DEF Parity
  <2> QED BY <2>5, <2>6
<1>11. u.root = s.recvChain /\ u.sendKey = s.recvKey
  BY <1>7, <1>8, <1>10 DEF Fits, Sends
<1>12. m.chain = KdfRoot(u.root, u.sendKey, m.key)
  BY <1>1, <1>5, <1>6, <1>11, ChainFacts
<1>13. ASSUME u.recvChain # None, NEW i \in DOMAIN mine, mine[i].key = u.recvKey
       PROVE  mine[i].n < m.pn
  <2>1. mine[i].chain = u.recvChain
    BY <1>13, ReceivingChain DEF Fits
  <2>2. Len(mine[i].chain) = Len(s.sendChain) - 2
    BY <1>6, <1>9, <1>11, <1>13, <2>1
  <2> QED BY <1>1, <1>5, <2>2
<1> QED BY <1>12, <1>13 DEF Ahead

\* Sealing leaves the rows of the peer fitting: the new message reaches them.
LEMMA SealReaches ==
  ASSUME NEW s \in Session, NEW u \in Session,
         NEW mine \in Seq(Message), NEW theirs \in Seq(Message),
         SameKeySameChain(mine), SameKeySameChain(theirs),
         NEW a, NEW b, a # b, Parity(mine, a), Parity(theirs, b),
         NEW left, Fits(s, mine, theirs, left), s.sendChain # None,
         NEW left2 \in SUBSET DOMAIN mine, Fits(u, theirs, mine, left2),
         s.recvChain = None => u.recvChain # None,
         NEW m \in Message, Seals(s, m)
  PROVE  Fits(u, theirs, Append(mine, m), left2 \cup {Len(mine) + 1})
<1> DEFINE new == Append(mine, m)
           last == Len(mine) + 1
<1>1. /\ new \in Seq(Message) /\ DOMAIN new = DOMAIN mine \cup {last} /\ last \notin DOMAIN mine
      /\ new[last] = m /\ \A i \in DOMAIN mine : new[i] = mine[i]
  BY OneMore
<1>2. Sends(s, mine) /\ Sends(u, theirs) /\ Turned(u, theirs) /\ Heard(u, mine)
      /\ Receives(u, mine, left2)
  BY DEF Fits
<1>3. m.key = s.sendKey /\ m.chain = s.sendChain /\ Len(m.chain) \in Nat
  BY SessionFields, ChainFacts DEF Seals
<1>4. ASSUME NEW i \in DOMAIN mine, Ahead(u, mine[i], mine), u.recvChain # None
      PROVE  m.key # u.recvKey
  <2> SUFFICES ASSUME m.key = u.recvKey PROVE FALSE
    OBVIOUS
  <2>1. Len(u.recvChain) \in Nat /\ Len(u.recvChain) < Len(mine[i].chain) /\ Len(mine[i].chain) \in Nat
    BY <1>2, <1>4, AheadIsLonger, MessagesOf
  <2>2. Len(mine[i].chain) <= Len(s.sendChain)
    BY <1>3, <2>1 DEF Sends, Fits
  <2>3. PICK j \in DOMAIN mine : mine[j].key = u.recvKey /\ mine[j].chain = u.recvChain
    BY <1>4 DEF Fits, Heard
  <2>4. Len(mine[j].chain) = Len(s.sendChain)
    BY <1>2, <1>3, <2>3 DEF Sends
  <2> QED BY <1>3, <2>1, <2>2, <2>3, <2>4
<1>5. \/ Behind(u, m) /\ Comes(u, m)
      \/ Ahead(u, m, mine) /\ (u.recvChain # None => m.key # u.recvKey)
  <2>1. CASE \E i \in DOMAIN mine : mine[i].key = s.sendKey
    <3>1. PICK i \in DOMAIN mine : mine[i].key = s.sendKey
      BY <2>1
    <3>2. \/ Behind(u, m) /\ Comes(u, m)
          \/ Ahead(u, m, mine) /\ Ahead(u, mine[i], mine)
      BY <1>2, <3>1, SealedOnIsReached
    <3> QED BY <1>4, <3>2
  <2>2. CASE \A i \in DOMAIN mine : mine[i].key # s.sendKey
    <3>1. Ahead(u, m, mine)
      BY <2>2, FirstSealedIsAhead
    <3>2. u.recvChain # None => m.key # u.recvKey
      BY <1>3, <2>2 DEF Fits, Heard
    <3> QED BY <3>1, <3>2
  <2> QED BY <2>1, <2>2
<1> HIDE DEF new, last
<1>6. Heard(u, new)
  <2>1. ASSUME NEW i \in DOMAIN mine PROVE i \in DOMAIN new /\ new[i] = mine[i]
    BY <1>1
  <2>2. u.recvN # 0 => \E i \in DOMAIN new : new[i].key = u.recvKey /\ new[i].n = u.recvN - 1
    BY <1>2, <2>1 DEF Heard
  <2>3. u.recvChain # None =>
          \E i \in DOMAIN new : new[i].key = u.recvKey /\ new[i].chain = u.recvChain
    BY <1>2, <2>1 DEF Heard
  <2>4. \A e \in u.skipped :
          /\ \E i \in DOMAIN new : new[i].key = e.key /\ new[i].chain = e.chain
          /\ u.recvChain # None /\ Len(e.chain) <= Len(u.recvChain)
          /\ e.key = u.recvKey => e.n < u.recvN
    <3> TAKE e \in u.skipped
    <3>1. /\ \E i \in DOMAIN mine : mine[i].key = e.key /\ mine[i].chain = e.chain
          /\ u.recvChain # None /\ Len(e.chain) <= Len(u.recvChain)
          /\ e.key = u.recvKey => e.n < u.recvN
      BY <1>2 DEF Heard
    <3>2. PICK i \in DOMAIN mine : mine[i].key = e.key /\ mine[i].chain = e.chain
      BY <3>1
    <3>3. \E j \in DOMAIN new : new[j].key = e.key /\ new[j].chain = e.chain
      BY <2>1, <3>2
    <3> QED BY <3>1, <3>3
  <2> QED BY <2>2, <2>3, <2>4 DEF Heard
<1>7. \A i \in DOMAIN new : Behind(u, new[i]) \/ Ahead(u, new[i], new)
  <2>1. ASSUME NEW x, Ahead(u, x, mine), u.recvChain # None => m.key # u.recvKey
        PROVE  Ahead(u, x, new)
    BY <1>1, <2>1 DEF Ahead
  <2>2. ASSUME NEW i \in DOMAIN mine PROVE Behind(u, new[i]) \/ Ahead(u, new[i], new)
    BY <1>1, <1>2, <1>4, <2>1 DEF Receives
  <2>3. Behind(u, m) \/ Ahead(u, m, new)
    BY <1>5, <2>1
  <2> QED BY <1>1, <2>2, <2>3
<1>8. \A i \in left2 \cup {last} : Behind(u, new[i]) => Kept(u, new[i]) \/ Comes(u, new[i])
  <2>1. Behind(u, m) => Comes(u, m)
    <3> SUFFICES ASSUME Behind(u, m), Ahead(u, m, mine) PROVE FALSE
      BY <1>5
    <3>1. /\ Len(m.chain) = Len(u.root) + 1
          /\ u.recvChain # None => Len(u.recvChain) \in Nat /\ Len(u.recvChain) <= Len(u.root)
          /\ Len(u.root) \in Nat
      BY <1>2, SessionFields, ChainFacts DEF Sends, Ahead
    <3> QED BY <3>1 DEF Behind
  <2> QED BY <1>1, <1>2, <2>1 DEF Receives
<1>9. Fits(u, theirs, new, left2 \cup {last})
  BY <1>2, <1>6, <1>7, <1>8 DEF Fits, Receives
<1> QED BY <1>9 DEF new, last

\* The lengths of the sender's chains stay even, or odd.
LEMMA SealParity ==
  ASSUME NEW s \in Session, NEW mine \in Seq(Message), NEW theirs \in Seq(Message),
         NEW a, Parity(mine, a), NEW b, Parity(theirs, b),
         (a = 0 /\ b = 1) \/ (a = 1 /\ b = 0),
         NEW left, Fits(s, mine, theirs, left), s.sendChain # None,
         s.recvChain = None => a = 0, NEW m \in Message, Seals(s, m)
  PROVE  Parity(Append(mine, m), a)
<1>1. m.chain = s.sendChain /\ Len(m.chain) \in Nat /\ s.root = s.sendChain
  BY SessionFields, ChainFacts DEF Seals, Fits, Sends
<1>2. Len(m.chain) % 2 = a
  <2>1. CASE s.recvChain = None
    <3>1. Len(m.chain) = 0
      BY <1>1, <2>1 DEF Fits, Sends
    <3> QED BY <2>1, <3>1
  <2>2. CASE s.recvChain # None
    <3>1. s.recvChain \in Chain /\ Len(s.recvChain) \in Nat
      BY <2>2, SessionFields, ChainFacts
    <3>2. Len(m.chain) = Len(s.recvChain) + 1
      BY <1>1, <2>2 DEF Fits, Sends
    <3>3. Len(s.recvChain) % 2 = b
      BY <2>2 DEF Fits, Heard, Parity
    <3>4. \A x \in Nat : /\ x % 2 = 0 => (x + 1) % 2 = 1
                         /\ x % 2 = 1 => (x + 1) % 2 = 0
      OBVIOUS
    <3> QED BY <3>1, <3>2, <3>3, <3>4
  <2> QED BY <2>1, <2>2
<1>3. /\ DOMAIN Append(mine, m) = DOMAIN mine \cup {Len(mine) + 1}
      /\ Append(mine, m)[Len(mine) + 1] = m
      /\ \A i \in DOMAIN mine : Append(mine, m)[i] = mine[i]
  BY OneMore
<1> QED BY <1>2, <1>3 DEF Parity

-----------------------------------------------------------------------------
(* The two ends agree.                                                     *)

\* The initiator's first chain is the X3DH secret, and chains alternate.
Side(p) == IF p = Initiator THEN 0 ELSE 1

\* Beyond the first chain, p answers messages of the peer.
Answers(p) == \A i \in DOMAIN sealed[p] : sealed[p][i].chain # <<>> => sealed[Peer(p)] # <<>>

\* The row in the table, and those in the hands of handlers.
Copies(p) == {row[p]} \cup {h.s : h \in opening[p]}

\* A row that fits the messages, or the other end before it has one.
Good(p, s) ==
  /\ Fits(s, sealed[p], sealed[Peer(p)], Unopened(p))
  /\ p # Initiator => s.recvChain # None

Absent(p) == p # Initiator /\ sealed[p] = <<>>

InOrder(p) ==
  /\ SameKeySameChain(sealed[p]) /\ Gapless(sealed[p]) /\ Parity(sealed[p], Side(p))
  /\ Answers(p) /\ opened[p] \subseteq DOMAIN sealed[Peer(p)]

Ready(p) ==
  /\ \A s \in Copies(p) : IF s = None THEN Absent(p) ELSE Good(p, s)
  /\ \A h \in opening[p] : Opens(h.s, sealed[Peer(p)][h.i])

Agree == \A p \in Party : InOrder(p) /\ Ready(p)

\* The two ends.
LEMMA PeerFacts ==
  ASSUME NEW p \in Party
  PROVE  /\ Peer(p) \in Party /\ Peer(p) # p /\ Peer(Peer(p)) = p
         /\ \A q \in Party : q = p \/ q = Peer(p)
<1>1. PICK a, b \in Party : a # b /\ Party = {a, b}
  BY RatchetAssumption
<1>2. \A x \in Party : Peer(x) \in Party /\ Peer(x) # x
  BY <1>1 DEF Peer
<1> QED BY <1>1, <1>2

\* Whether a message opens does not depend on the pair generated meanwhile.
LEMMA OpensAnyway ==
  ASSUME NEW s \in Session \cup {None}, NEW m \in Message, NEW k \in KeyPair
  PROVE  Opens(s, m) <=> Open(s, m, k) # None
<1>1. m.key \in KeyPair
  BY MessageFields
<1>2. ASSUME NEW t \in Session, NEW j \in KeyPair
      PROVE  Decrypt(t, m, j) # None <=> CanTake(t, m) \/ CanRead(t, m) \/ CanTurn(t, m)
  BY DecryptIs DEF Outcome
<1>3. CASE s # None
  BY <1>1, <1>2, <1>3 DEF Opens, Open
<1>4. CASE s = None
  <2>1. ASSUME NEW j \in KeyPair
        PROVE  Decrypt(Respond(m, j), m, j) # None <=> m.chain = <<>> /\ m.n <= MaxSkip
    <3> DEFINE t == Respond(m, j)
    <3>1. /\ t.recvChain = <<>> /\ t.recvKey = m.key /\ t.recvN = 0 /\ t.skipped = {}
      BY DEF Respond
    <3>2. <<>> \in Seq(SUBSET KeyPair)
      OBVIOUS
    <3>3. t \in Session
      BY <1>1, <2>1, <3>2 DEF Respond, Session, SessionRecord, Chain
    <3> HIDE DEF t
    <3>4. ~CanTake(t, m) /\ ~CanTurn(t, m) /\ SkippedKey(t, m) = {}
      BY <3>1 DEF CanTake, CanTurn, SkippedKey
    <3>5. m.n \in Nat /\ MaxSkip \in Nat /\ <<>> # None
      BY <3>2, MessageFields, RatchetAssumption, NoneIsNothing DEF Chain
    <3>6. CanRead(t, m) <=> m.chain = <<>> /\ m.n <= MaxSkip
      BY <3>1, <3>4, <3>5 DEF CanRead
    <3>7. Decrypt(t, m, j) # None <=> m.chain = <<>> /\ m.n <= MaxSkip
      BY <1>2, <3>3, <3>4, <3>6
    <3> QED BY <3>7 DEF t
  <2> QED BY <1>1, <1>4, <2>1 DEF Opens, Open
<1> QED BY <1>3, <1>4

\* What the types say of one end.
LEMMA TypesOf ==
  ASSUME TypeOK, NEW p \in Party
  PROVE  /\ sealed[p] \in Seq(Message) /\ sealed[Peer(p)] \in Seq(Message)
         /\ Copies(p) \subseteq Session \cup {None}
         /\ Unopened(p) \in SUBSET DOMAIN sealed[Peer(p)]
         /\ \A h \in opening[p] : h.i \in DOMAIN sealed[Peer(p)] /\ h.s \in Copies(p)
         /\ row[p] \in Copies(p)
  BY PeerFacts DEF TypeOK, Copies, Unopened

\* Opening a message leaves a good row, whatever copy it was opened with.
LEMMA OpenIsGood ==
  ASSUME TypeOK, KeysInOrder, ~raced, Agree, NEW p \in Party, NEW h \in opening[p]
  PROVE  LET r == Open(h.s, sealed[Peer(p)][h.i], Fresh(p)) IN
         /\ r \in Session /\ Fits(r, sealed[p], sealed[Peer(p)], Unopened(p) \ {h.i})
         /\ p # Initiator => r.recvChain # None
<1> DEFINE m == sealed[Peer(p)][h.i]
           k == Fresh(p)
           q == Peer(p)
<1>1. /\ sealed[p] \in Seq(Message) /\ sealed[q] \in Seq(Message) /\ h.i \in DOMAIN sealed[q]
      /\ h.s \in Session \cup {None} /\ h.s \in Copies(p) /\ Unopened(p) \in SUBSET DOMAIN sealed[q]
      /\ q \in Party /\ Peer(q) = p
  BY TypesOf, PeerFacts
<1>2. m \in Message /\ k \in KeyPair
  BY <1>1, FreshIsPair, MessagesOf
<1>3. SameKeySameChain(sealed[q]) /\ KeysDiffer(sealed[q])
  BY <1>1 DEF Agree, InOrder, KeysInOrder, KeyUsedOnce, KeysDiffer
<1>4. \A j \in DOMAIN sealed[p] : sealed[p][j].key # k
  BY FreshIsNew DEF KeysInOrder
<1>5. Open(h.s, m, k) # None
  BY <1>1, <1>2, OpensAnyway DEF Agree, Ready
<1>6. ASSUME NEW s \in Session, Fits(s, sealed[p], sealed[q], Unopened(p)),
             p # Initiator => s.recvChain # None, Open(h.s, m, k) = Decrypt(s, m, k)
      PROVE  /\ Open(h.s, m, k) \in Session
             /\ Fits(Open(h.s, m, k), sealed[p], sealed[q], Unopened(p) \ {h.i})
             /\ p # Initiator => Open(h.s, m, k).recvChain # None
  <2>1. Decrypt(s, m, k) # None
    BY <1>5, <1>6
  <2> HIDE DEF k
  <2>2. LET r == Decrypt(s, m, k) IN
        /\ r \in Session /\ Fits(r, sealed[p], sealed[q], Unopened(p) \ {h.i})
        /\ s.recvChain # None => r.recvChain # None
    BY <1>1, <1>2, <1>3, <1>4, <1>6, <2>1, DecryptFits
  <2> HIDE DEF m
  <2> QED BY <1>6, <2>2
<1> HIDE DEF m, k
<1>7. CASE h.s # None
  <2>1. Open(h.s, m, k) = Decrypt(h.s, m, k)
    BY <1>7 DEF Open
  <2>2. h.s \in Session /\ Good(p, h.s)
    BY <1>1, <1>7 DEF Agree, Ready
  <2> QED BY <1>6, <2>1, <2>2 DEF Good, m, k
<1>8. CASE h.s = None
  <2>1. Open(h.s, m, k) = Decrypt(Respond(m, k), m, k)
    BY <1>5, <1>8 DEF Open
  <2>2. p # Initiator /\ sealed[p] = <<>>
    BY <1>1, <1>8 DEF Agree, Ready, Absent
  <2>3. \A j \in DOMAIN sealed[q] : sealed[q][j].chain = <<>>
    BY <1>1, <2>2 DEF Agree, InOrder, Answers
  <2>4. Fits(Respond(m, k), <<>>, sealed[q], Unopened(p))
    BY <1>1, <1>2, <1>3, <2>3, RespondFits DEF m
  <2>5. Respond(m, k) \in Session /\ Respond(m, k).recvChain # None
    <3>1. <<>> \in Seq(SUBSET KeyPair)
      OBVIOUS
    <3>2. m.key \in KeyPair /\ <<>> # None
      BY <1>2, <3>1, MessageFields, NoneIsNothing DEF Chain
    <3> QED BY <1>2, <3>1, <3>2 DEF Respond, Session, SessionRecord, Chain
  <2> QED BY <1>6, <2>1, <2>2, <2>4, <2>5 DEF m, k
<1> QED BY <1>7, <1>8

LEMMA InitAgrees == Init => Agree
<1> SUFFICES ASSUME Init, NEW p \in Party PROVE InOrder(p) /\ Ready(p)
  BY DEF Agree
<1>1. \A q \in Party : sealed[q] = <<>> /\ opened[q] = {} /\ opening[q] = {}
  BY DEF Init
<1>2. Peer(p) \in Party
  BY PeerFacts
<1>3. InOrder(p)
  <2>1. DOMAIN sealed[p] = {}
    BY <1>1
  <2>2. SameKeySameChain(sealed[p]) /\ Gapless(sealed[p]) /\ Parity(sealed[p], Side(p))
    BY <2>1 DEF SameKeySameChain, Gapless, Parity
  <2> QED BY <1>1, <2>1, <2>2 DEF InOrder, Answers
<1>4. \A s \in Copies(p) : s = row[p]
  BY <1>1 DEF Copies
<1>5. CASE p = Initiator
  <2> DEFINE s == row[p]
  <2>1. s = Initiate(<<p, 1>>)
    BY <1>5 DEF Init
  <2>2. /\ s.root = <<>> /\ s.sendChain = <<>> /\ s.sendN = 0 /\ s.pn = 0
        /\ s.recvChain = None /\ s.recvKey = None /\ s.recvN = 0 /\ s.skipped = {}
    BY <2>1 DEF Initiate
  <2> HIDE DEF s
  <2>3. <<>> \in Seq(SUBSET KeyPair)
    OBVIOUS
  <2>4. <<>> # None
    BY <2>3, NoneIsNothing DEF Chain
  <2>5. Fits(s, <<>>, <<>>, Unopened(p))
    <3>1. Sends(s, <<>>) /\ Turned(s, <<>>) /\ Heard(s, <<>>)
      BY <2>2, <2>4 DEF Sends, Turned, Heard
    <3>2. Receives(s, <<>>, Unopened(p))
      BY <1>1, <1>2 DEF Receives, Unopened
    <3> QED BY <3>1, <3>2 DEF Fits
  <2>6. Good(p, row[p])
    BY <1>1, <1>2, <1>5, <2>5 DEF Good, s
  <2>7. row[p] # None
    <3>1. p \in Party /\ <<p, 1>> \in KeyPair
      BY DEF KeyPair
    <3>2. Initiate(<<p, 1>>) \in SessionRecord
      BY <2>3, <3>1 DEF Initiate, SessionRecord, Chain
    <3> QED BY <2>1, <3>2, RatchetAssumption DEF s
  <2> QED BY <1>1, <1>3, <1>4, <2>6, <2>7 DEF Ready
<1>6. CASE p # Initiator
  <2>1. row[p] = None /\ Absent(p)
    BY <1>1, <1>6 DEF Init, Absent
  <2> QED BY <1>1, <1>3, <1>4, <2>1 DEF Ready
<1> QED BY <1>5, <1>6

\* A handler reads the row: one more copy of it.
LEMMA OpenStartAgrees ==
  ASSUME TypeOK, Agree, NEW p \in Party, NEW i \in DOMAIN sealed[Peer(p)], OpenStart(p, i)
  PROVE  Agree'
<1> SUFFICES ASSUME NEW q \in Party PROVE InOrder(q)' /\ Ready(q)'
  BY DEF Agree
<1>1. /\ UNCHANGED <<row, sealed, opened>> /\ Opens(row[p], sealed[Peer(p)][i])
      /\ opening' = [opening EXCEPT ![p] = @ \cup {[i |-> i, s |-> row[p]]}]
  BY DEF OpenStart
<1>2. InOrder(q)'
  BY <1>1 DEF Agree, InOrder, Answers
<1>3. \A h \in opening'[q] : h \in opening[q] \/ (q = p /\ h = [i |-> i, s |-> row[p]])
  BY <1>1 DEF TypeOK
<1>4. \A s \in Copies(q)' : s \in Copies(q)
  BY <1>1, <1>3 DEF Copies
<1>5. \A s \in Copies(q)' : IF s = None THEN Absent(q)' ELSE Good(q, s)'
  BY <1>1, <1>4 DEF Agree, Ready, Absent, Good, Unopened
<1>6. \A h \in opening'[q] : Opens(h.s, sealed'[Peer(q)][h.i])
  BY <1>1, <1>3 DEF Agree, Ready
<1> QED BY <1>2, <1>5, <1>6 DEF Ready

\* A handler writes back what it made of its copy.
LEMMA OpenEndAgrees ==
  ASSUME TypeOK, KeysInOrder, ~raced, Agree, NEW p \in Party, NEW h \in opening[p], OpenEnd(p, h)
  PROVE  Agree'
<1> SUFFICES ASSUME NEW q \in Party PROVE InOrder(q)' /\ Ready(q)'
  BY DEF Agree
<1> DEFINE r == Open(h.s, sealed[Peer(p)][h.i], Fresh(p))
<1>1. /\ row' = [row EXCEPT ![p] = r]
      /\ opened' = [opened EXCEPT ![p] = @ \cup {h.i}]
      /\ opening' = [opening EXCEPT ![p] = @ \ {h}]
      /\ UNCHANGED sealed
  BY DEF OpenEnd
<1>2. /\ r \in Session /\ Fits(r, sealed[p], sealed[Peer(p)], Unopened(p) \ {h.i})
      /\ p # Initiator => r.recvChain # None
  BY OpenIsGood
<1> HIDE DEF r
<1>3. InOrder(q)'
  BY <1>1, TypesOf DEF Agree, InOrder, Answers, TypeOK
<1>4. opening'[q] \subseteq opening[q] /\ Unopened(q)' \subseteq Unopened(q)
      /\ Unopened(p)' = Unopened(p) \ {h.i}
  BY <1>1 DEF Unopened, TypeOK
<1>5. ASSUME NEW s \in Copies(q)' PROVE s \in Copies(q) \/ (q = p /\ s = r)
  <2>1. s = row'[q] \/ \E g \in opening'[q] : s = g.s
    BY DEF Copies
  <2>2. row'[q] = row[q] \/ (q = p /\ row'[q] = r)
    BY <1>1 DEF TypeOK
  <2> QED BY <1>4, <2>1, <2>2 DEF Copies
<1>6. ASSUME NEW s \in Copies(q)' PROVE IF s = None THEN Absent(q)' ELSE Good(q, s)'
  <2>1. CASE s \in Copies(q)
    <3>1. CASE s = None
      BY <1>1, <2>1, <3>1 DEF Agree, Ready, Absent
    <3>2. CASE s # None
      <4>1. Good(q, s)
        BY <2>1, <3>2 DEF Agree, Ready
      <4>2. Fits(s, sealed[q], sealed[Peer(q)], Unopened(q)')
        BY <1>4, <4>1, FewerLeft DEF Good
      <4> QED BY <1>1, <3>2, <4>1, <4>2 DEF Good
    <3> QED BY <3>1, <3>2
  <2>2. CASE q = p /\ s = r
    <3>1. s # None
      BY <1>2, <2>2, NoneIsNothing
    <3> QED BY <1>1, <1>2, <1>4, <2>2, <3>1 DEF Good
  <2> QED BY <1>5, <1>6, <2>1, <2>2
<1>7. \A g \in opening'[q] : Opens(g.s, sealed'[Peer(q)][g.i])
  BY <1>1, <1>4 DEF Agree, Ready
<1> QED BY <1>3, <1>6, <1>7 DEF Ready

\* One end starts with a chain of even length, the other with an odd one.
LEMMA SidesDiffer ==
  ASSUME NEW p \in Party
  PROVE  (Side(p) = 0 /\ Side(Peer(p)) = 1) \/ (Side(p) = 1 /\ Side(Peer(p)) = 0)
<1>1. Initiator = p \/ Initiator = Peer(p)
  BY PeerFacts, RatchetAssumption
<1> QED BY <1>1, PeerFacts DEF Side

\* A message is sealed: it fits the row it was sealed with, and reaches the
\* peer's rows.
LEMMA EncryptAgrees ==
  ASSUME TypeOK, Agree, NEW p \in Party, Encrypt(p), opening[p] = {}
  PROVE  Agree'
<1> DEFINE q == Peer(p)
           k == Fresh(p)
           s == EnsureSendChain(row[p], k)
           m == [key |-> s.sendKey, n |-> s.sendN, pn |-> s.pn, chain |-> s.sendChain,
                 x3dh |-> p = Initiator /\ sealed[p] = <<>>]
           r == [s EXCEPT !.sendN = @ + 1]
           new == Append(sealed[p], m)
           last == Len(sealed[p]) + 1
<1>1. /\ sealed' = [sealed EXCEPT ![p] = new] /\ row' = [row EXCEPT ![p] = r]
      /\ opening' = opening /\ opened' = opened /\ row[p] # None
  BY DEF Encrypt
<1>2. /\ sealed[p] \in Seq(Message) /\ sealed[q] \in Seq(Message) /\ row[p] \in Session
      /\ Unopened(p) \in SUBSET DOMAIN sealed[q] /\ Unopened(q) \in SUBSET DOMAIN sealed[p]
      /\ q \in Party /\ q # p /\ Peer(p) = q /\ Peer(q) = p /\ k \in KeyPair
      /\ \A x \in Party : x = p \/ x = q
  BY <1>1, TypesOf, PeerFacts, FreshIsPair DEF TypeOK
<1>3. InOrder(p) /\ InOrder(q) /\ Good(p, row[p])
  BY <1>1, <1>2 DEF Agree, Ready, Copies
<1>4. /\ s \in Session /\ s.sendChain \in Chain /\ s.sendChain # None
      /\ Fits(s, sealed[p], sealed[q], Unopened(p)) /\ SameReceiving(row[p], s)
  <2>1. s \in Session /\ s.sendChain \in Chain
    BY <1>2, EnsureSendChainType
  <2> HIDE DEF k
  <2>2. Fits(row[p], sealed[p], sealed[q], Unopened(p))
    BY <1>3 DEF Good
  <2>3. SameKeySameChain(sealed[q]) /\ Parity(sealed[q], Side(q))
    BY <1>3 DEF InOrder
  <2>4. LET t == EnsureSendChain(row[p], k) IN
        /\ Fits(t, sealed[p], sealed[q], Unopened(p)) /\ t.sendChain # None
        /\ SameReceiving(row[p], t) /\ t.skipped = row[p].skipped
    BY <1>2, <2>2, <2>3, EnsureFits
  <2> QED BY <2>1, <2>4
<1>5. p # Initiator => s.recvChain # None
  BY <1>3, <1>4 DEF Good, SameReceiving
<1>6. m \in Message /\ Seals(s, m)
  <2> HIDE DEF s
  <2>1. s.sendKey \in KeyPair /\ s.sendN \in Nat /\ s.pn \in Nat
    BY <1>4, SessionFields
  <2> QED BY <1>4, <2>1 DEF Message, Seals
<1>7. r \in Session /\ r.recvChain = s.recvChain /\ r # None
  <2> HIDE DEF s
  <2>1. r \in Session /\ r.recvChain = s.recvChain
    BY <1>4 DEF Session, SessionRecord
  <2> QED BY <2>1, NoneIsNothing
<1>8. Fits(r, new, sealed[q], Unopened(p))
  <2> HIDE DEF s, m, q
  <2> QED BY <1>2, <1>4, <1>6, SealFits
<1> HIDE DEF k, s, m
<1>9. SameKeySameChain(new) /\ Gapless(new)
  BY <1>2, <1>3, <1>4, <1>6, SealOrder DEF InOrder, Fits
<1>10. Parity(new, Side(p))
  <2>1. s.recvChain = None => Side(p) = 0
    BY <1>5 DEF Side
  <2>2. (Side(p) = 0 /\ Side(q) = 1) \/ (Side(p) = 1 /\ Side(q) = 0)
    BY SidesDiffer
  <2>3. Parity(sealed[p], Side(p)) /\ Parity(sealed[q], Side(q))
    BY <1>3 DEF InOrder
  <2> HIDE DEF q
  <2> QED BY <1>2, <1>4, <1>6, <2>1, <2>2, <2>3, SealParity
<1>11. ASSUME NEW u \in Copies(q), u # None
       PROVE  /\ Fits(u, sealed[q], new, Unopened(q) \cup {last})
              /\ q # Initiator => u.recvChain # None
  <2>1. u \in Session /\ Good(q, u)
    BY <1>2, <1>11, TypesOf DEF Agree, Ready
  <2>2. Fits(u, sealed[q], sealed[p], Unopened(q)) /\ (q # Initiator => u.recvChain # None)
    BY <1>2, <2>1 DEF Good
  <2>3. s.recvChain = None => u.recvChain # None
    BY <1>2, <1>5, <2>2
  <2>4. Side(p) # Side(q)
    BY SidesDiffer
  <2>5. /\ SameKeySameChain(sealed[p]) /\ SameKeySameChain(sealed[q])
        /\ Parity(sealed[p], Side(p)) /\ Parity(sealed[q], Side(q))
    BY <1>3 DEF InOrder
  <2> HIDE DEF q
  <2>6. Fits(u, sealed[q], new, Unopened(q) \cup {last})
    BY <1>2, <1>4, <1>6, <2>1, <2>2, <2>3, <2>4, <2>5, SealReaches
  <2> QED BY <2>2, <2>6
<1>12. /\ DOMAIN new = DOMAIN sealed[p] \cup {last} /\ new # <<>>
       /\ \A i \in DOMAIN sealed[p] : new[i] = sealed[p][i]
       /\ new[last] = m /\ m.chain = s.sendChain
  BY <1>2, <1>6, OneMore DEF Seals
<1>13. m.chain # <<>> => sealed[q] # <<>>
  <2> SUFFICES ASSUME m.chain # <<>> PROVE sealed[q] # <<>>
    OBVIOUS
  <2>1. s.recvChain # None
    BY <1>4, <1>12 DEF Fits, Sends
  <2>2. \E i \in DOMAIN sealed[q] : TRUE
    BY <1>4, <2>1 DEF Fits, Heard
  <2> QED BY <2>2
<1> HIDE DEF r, new, last, q
<1>14. sealed'[p] = new /\ sealed'[q] = sealed[q] /\ row'[p] = r /\ row'[q] = row[q]
  BY <1>1, <1>2 DEF TypeOK
<1>15. InOrder(p)'
  <2>1. Answers(p)'
    <3>1. ASSUME NEW i \in DOMAIN new, new[i].chain # <<>> PROVE sealed[q] # <<>>
      <4>1. CASE i \in DOMAIN sealed[p]
        BY <1>2, <1>3, <1>12, <3>1, <4>1 DEF InOrder, Answers
      <4>2. CASE i = last
        BY <1>12, <1>13, <3>1, <4>2
      <4> QED BY <1>12, <4>1, <4>2
    <3> QED BY <1>2, <1>14, <3>1 DEF Answers
  <2>2. opened'[p] \subseteq DOMAIN sealed'[Peer(p)]
    BY <1>1, <1>2, <1>3, <1>14 DEF InOrder
  <2> QED BY <1>9, <1>10, <1>14, <2>1, <2>2 DEF InOrder
<1>16. InOrder(q)'
  <2>1. Answers(q)'
    BY <1>2, <1>12, <1>14 DEF Answers
  <2> QED BY <1>1, <1>2, <1>3, <1>12, <1>14, <2>1 DEF InOrder
<1>17. Ready(p)'
  <2>1. \A x \in Copies(p)' : x = r
    BY <1>1, <1>14 DEF Copies
  <2>2. Unopened(p)' = Unopened(p)
    BY <1>1, <1>14 DEF Unopened, q
  <2>3. ASSUME NEW x, x = r PROVE Good(p, x)'
    BY <1>2, <1>5, <1>7, <1>8, <1>14, <2>2, <2>3 DEF Good
  <2> QED BY <1>1, <1>7, <2>1, <2>3 DEF Ready
<1>18. Ready(q)'
  <2>1. \A x \in Copies(q)' : x \in Copies(q)
    BY <1>1, <1>14 DEF Copies
  <2>2. Unopened(q)' \subseteq Unopened(q) \cup {last}
    BY <1>1, <1>2, <1>12, <1>14 DEF Unopened
  <2>3. ASSUME NEW u \in Copies(q)' PROVE IF u = None THEN Absent(q)' ELSE Good(q, u)'
    <3>1. u \in Copies(q)
      BY <2>1
    <3>2. CASE u = None
      BY <1>2, <1>14, <3>1, <3>2 DEF Agree, Ready, Absent
    <3>3. CASE u # None
      <4>1. Fits(u, sealed[q], new, Unopened(q)')
        BY <1>11, <2>2, <3>1, <3>3, FewerLeft
      <4> QED BY <1>2, <1>11, <1>14, <3>1, <3>3, <4>1 DEF Good
    <3> QED BY <3>2, <3>3
  <2>4. \A h \in opening'[q] : Opens(h.s, sealed'[Peer(q)][h.i])
    <3>1. ASSUME NEW h \in opening[q] PROVE Opens(h.s, new[h.i])
      <4>1. h.i \in DOMAIN sealed[p] /\ Opens(h.s, sealed[p][h.i])
        BY <1>2 DEF Agree, Ready, TypeOK
      <4> QED BY <1>12, <4>1
    <3> QED BY <1>1, <1>2, <1>14, <3>1
  <2> QED BY <2>3, <2>4 DEF Ready
<1> QED BY <1>2, <1>15, <1>16, <1>17, <1>18 DEF Agree

\* The two ends agree in every reachable state, up to the first send that
\* races.
AgreeUnlessRaced == raced \/ Agree

LEMMA EndsAgree == Spec => []AgreeUnlessRaced
<1>1. Init => AgreeUnlessRaced
  BY InitAgrees DEF AgreeUnlessRaced
<1>2. TypeOK /\ InOrderUnlessRaced /\ AgreeUnlessRaced /\ [Next]_vars => AgreeUnlessRaced'
  <2> SUFFICES ASSUME TypeOK, InOrderUnlessRaced, AgreeUnlessRaced, [Next]_vars
               PROVE  AgreeUnlessRaced'
    OBVIOUS
  <2>1. ASSUME NEW p \in Party, Encrypt(p), Agree PROVE raced' \/ Agree'
    <3>1. CASE opening[p] = {}
      BY <2>1, <3>1, EncryptAgrees
    <3>2. CASE opening[p] # {}
      BY <2>1, <3>2 DEF Encrypt
    <3> QED BY <3>1, <3>2
  <2>2. CASE Next
    <3>1. ~raced /\ KeysInOrder /\ Agree
      BY <2>2 DEF Next, InOrderUnlessRaced, AgreeUnlessRaced
    <3> QED BY <2>1, <2>2, <3>1, OpenStartAgrees, OpenEndAgrees DEF Next, AgreeUnlessRaced
  <2>3. CASE UNCHANGED vars
    <3>1. UNCHANGED <<row, sealed, opened, opening, raced>>
      BY <2>3 DEF vars
    <3>2. ASSUME NEW p \in Party, InOrder(p) PROVE InOrder(p)'
      BY <3>1, <3>2 DEF InOrder, Answers
    <3>3. ASSUME NEW p \in Party, Ready(p) PROVE Ready(p)'
      <4>1. \A s \in Copies(p)' : s \in Copies(p)
        BY <3>1 DEF Copies
      <4> QED BY <3>1, <3>3, <4>1 DEF Ready, Absent, Good, Unopened
    <3> QED BY <3>1, <3>2, <3>3 DEF AgreeUnlessRaced, Agree
  <2> QED BY <2>2, <2>3
<1> QED BY <1>1, <1>2, TypeCorrect, KeysStayInOrder, PTL DEF Spec

\* Ratchet: no message becomes unreadable because another was opened at the
\* same time (decryptAndPersist without a lock), for every number of messages
\* and of handlers that overlap.
THEOREM OverlapLosesNothing == Spec => []OverlapIsHarmless
<1>1. TypeOK /\ AgreeUnlessRaced => OverlapIsHarmless
  <2> SUFFICES ASSUME TypeOK, Agree, NEW p \in Party, NEW i \in Unopened(p), row[p] # None
               PROVE  Opens(row[p], sealed[Peer(p)][i]) \/ TooFar(row[p], sealed[Peer(p)][i])
    BY DEF AgreeUnlessRaced, OverlapIsHarmless
  <2> DEFINE m == sealed[Peer(p)][i]
  <2>1. /\ sealed[Peer(p)] \in Seq(Message) /\ row[p] \in Session
        /\ Unopened(p) \in SUBSET DOMAIN sealed[Peer(p)] /\ row[p] \in Copies(p)
    BY TypesOf
  <2>2. Fits(row[p], sealed[p], sealed[Peer(p)], Unopened(p))
    BY <2>1 DEF Agree, Ready, Good
  <2>3. SameKeySameChain(sealed[Peer(p)])
    BY PeerFacts DEF Agree, InOrder
  <2>4. CanTake(row[p], m) \/ CanRead(row[p], m) \/ CanTurn(row[p], m) \/ TooFar(row[p], m)
    BY <2>1, <2>2, <2>3, FittingOpens
  <2>5. m \in Message /\ m.key \in KeyPair
    BY <2>1, MessagesOf
  <2> HIDE DEF m
  <2>6. Opens(row[p], m) <=> CanTake(row[p], m) \/ CanRead(row[p], m) \/ CanTurn(row[p], m)
    BY <2>1, <2>5, DecryptIs DEF Outcome, Opens, Open
  <2> QED BY <2>4, <2>6 DEF m
<1> QED BY <1>1, TypeCorrect, EndsAgree, PTL

-----------------------------------------------------------------------------
(* One handler at a time.                                                  *)

\* The row has done with m: its key is gone, and cannot be derived again.
Gone(s, m) ==
  /\ SkippedKey(s, m) = {} /\ Behind(s, m)
  /\ m.key = s.recvKey => m.n < s.recvN

\* What is done with does not open.
LEMMA GoneIsShut ==
  ASSUME NEW s \in Session, NEW mine, Sends(s, mine), NEW m \in Message, Gone(s, m)
  PROVE  ~CanTake(s, m) /\ ~CanRead(s, m) /\ ~CanTurn(s, m)
<1>1. m.n \in Nat /\ s.recvN \in Nat /\ Len(m.chain) \in Nat
  BY MessageFields, SessionFields, ChainFacts
<1>2. ~CanTake(s, m)
  BY DEF CanTake, Gone, SkippedKey
<1>3. ~CanRead(s, m)
  BY <1>1 DEF CanRead, Gone
<1>4. ~CanTurn(s, m)
  <2> SUFFICES ASSUME CanTurn(s, m) PROVE FALSE
    OBVIOUS
  <2>1. s.root \in Chain /\ s.recvChain # None /\ s.recvChain \in Chain
    BY SessionFields DEF Gone, Behind
  <2>2. Len(m.chain) = Len(s.root) + 1 /\ Len(s.root) \in Nat /\ Len(s.recvChain) \in Nat
    BY <2>1, ChainFacts DEF CanTurn
  <2>3. Len(s.recvChain) <= Len(s.root)
    BY <2>1, <2>2 DEF Sends
  <2> QED BY <2>2, <2>3 DEF Gone, Behind
<1> QED BY <1>2, <1>3, <1>4

\* Decrypting is done with the message, and stays done with those before.
LEMMA DecryptIsDone ==
  ASSUME NEW s \in Session, NEW mine, NEW theirs \in Seq(Message), SameKeySameChain(theirs),
         NEW left, Fits(s, mine, theirs, left), NEW i \in DOMAIN theirs, NEW k \in KeyPair,
         Decrypt(s, theirs[i], k) # None,
         NEW j \in DOMAIN theirs, j = i \/ Gone(s, theirs[j])
  PROVE  Gone(Decrypt(s, theirs[i], k), theirs[j])
<1> DEFINE r == Decrypt(s, theirs[i], k)
           m == theirs[i]
           o == theirs[j]
<1> SUFFICES Gone(r, o)
  OBVIOUS
<1>1. /\ m \in Message /\ m.n \in Nat /\ m.pn \in Nat /\ Len(m.chain) \in Nat /\ s.recvN \in Nat
      /\ o.n \in Nat /\ Len(o.chain) \in Nat
  BY MessagesOf, SessionFields
<1>2. Outcome(s, m, k, r) /\ r # None
  BY <1>1, DecryptIs
<1>3. Sends(s, mine) /\ Heard(s, theirs)
  BY DEF Fits
<1>4. o = m \/ Gone(s, o)
  OBVIOUS
<1> HIDE DEF r
<1>5. CASE CanTake(s, m) /\ Takes(s, m, r)
  <2>1. /\ r.recvChain = s.recvChain /\ r.recvKey = s.recvKey /\ r.recvN = s.recvN
        /\ r.skipped = s.skipped \ SkippedKey(s, m)
    BY <1>5 DEF Takes, SameReceiving
  <2>2. CASE Gone(s, o)
    BY <2>1, <2>2 DEF Gone, Behind, SkippedKey
  <2>3. CASE o = m
    <3>1. SkippedKey(s, m) # {}
      BY <1>5 DEF CanTake, SkippedKey
    <3>2. Behind(s, m) /\ (m.key = s.recvKey => m.n < s.recvN)
      BY <1>3, <3>1, SkippedOf
    <3>3. SkippedKey(r, m) = {}
      BY <2>1 DEF SkippedKey
    <3> QED BY <2>1, <2>3, <3>2, <3>3 DEF Gone, Behind
  <2> QED BY <1>4, <2>2, <2>3
<1>6. CASE CanRead(s, m) /\ Reads(s, m, r)
  <2> DEFINE new == Between(s.recvKey, s.recvChain, s.recvN, m.n)
  <2>1. /\ r.recvChain = s.recvChain /\ r.recvKey = s.recvKey /\ r.recvN = m.n + 1
        /\ r.skipped = s.skipped \cup new
    BY <1>6 DEF Reads
  <2>2. /\ SkippedKey(s, m) = {} /\ m.key = s.recvKey /\ s.recvChain # None
        /\ s.recvChain = m.chain /\ s.recvN <= m.n
    BY <1>6 DEF CanRead
  <2>3. \A e \in new : e.key = s.recvKey /\ e.n \in Nat /\ s.recvN <= e.n /\ e.n < m.n
    BY <1>1, InBetween
  <2> HIDE DEF new, m, o
  <2>4. CASE Gone(s, o)
    <3>1. SkippedKey(s, o) = {} /\ Behind(s, o) /\ (o.key = s.recvKey => o.n < s.recvN)
      BY <2>4 DEF Gone
    <3>2. SkippedKey(r, o) = {}
      BY <1>1, <2>1, <2>3, <3>1 DEF SkippedKey
    <3>3. o.key = r.recvKey => o.n < r.recvN
      BY <1>1, <2>1, <2>2, <3>1
    <3> QED BY <2>1, <3>1, <3>2, <3>3 DEF Gone, Behind
  <2>5. CASE o = m
    <3>1. SkippedKey(r, m) = {}
      BY <1>1, <2>1, <2>2, <2>3 DEF SkippedKey
    <3>2. Behind(r, m) /\ m.n < r.recvN
      BY <1>1, <2>1, <2>2 DEF Behind
    <3> QED BY <2>5, <3>1, <3>2 DEF Gone
  <2> QED BY <1>4, <2>4, <2>5
<1>7. CASE CanTurn(s, m) /\ TurnsTo(s, m, k, r)
  <2> DEFINE rest == IF s.recvChain = None THEN {}
                     ELSE Between(s.recvKey, s.recvChain, s.recvN, m.pn)
             new == Between(m.key, m.chain, 0, m.n)
  <2>1. /\ r.recvChain = m.chain /\ r.recvKey = m.key /\ r.recvN = m.n + 1
        /\ r.skipped = (s.skipped \cup rest) \cup new
    BY <1>7 DEF TurnsTo
  <2>2. SkippedKey(s, m) = {} /\ m.key # s.recvKey /\ m.chain # None
    BY <1>1, <1>7, MessageFields, NoneIsNothing DEF CanTurn
  <2>3. \A e \in new : e.key = m.key /\ e.n \in Nat /\ e.n < m.n
    BY <1>1, InBetween
  <2>4. \A e \in rest : e.key = s.recvKey /\ e.n \in Nat /\ s.recvN <= e.n
    BY <1>1, InBetween
  <2>5. s.recvChain # None => Len(s.recvChain) \in Nat /\ Len(s.recvChain) < Len(m.chain)
    <3>1. s.root \in Chain /\ (s.recvChain # None => s.recvChain \in Chain)
      BY SessionFields
    <3>2. Len(m.chain) = Len(s.root) + 1 /\ Len(s.root) \in Nat
      BY <1>7, <3>1, ChainFacts DEF CanTurn
    <3>3. s.recvChain # None => Len(s.recvChain) \in Nat /\ Len(s.recvChain) <= Len(s.root)
      BY <1>3, <3>1, ChainFacts DEF Sends
    <3> QED BY <3>2, <3>3
  <2>6. CASE Gone(s, o)
    <3>1. /\ SkippedKey(s, o) = {} /\ s.recvChain # None /\ Len(o.chain) <= Len(s.recvChain)
          /\ o.key = s.recvKey => o.n < s.recvN
      BY <2>6 DEF Gone, Behind
    <3>2. o.key # m.key
      <4>1. Len(o.chain) # Len(m.chain)
        BY <1>1, <2>5, <3>1
      <4> QED BY <4>1 DEF SameKeySameChain
    <3> HIDE DEF new, rest, m, o
    <3>3. SkippedKey(r, o) = {}
      BY <1>1, <2>1, <2>3, <2>4, <3>1, <3>2 DEF SkippedKey
    <3>4. Behind(r, o) /\ o.key # r.recvKey
      BY <1>1, <2>1, <2>2, <2>5, <3>1, <3>2 DEF Behind
    <3> QED BY <3>3, <3>4 DEF Gone
  <2>7. CASE o = m
    <3> HIDE DEF new, rest, m, o
    <3>1. SkippedKey(r, m) = {}
      BY <1>1, <2>1, <2>2, <2>3, <2>4 DEF SkippedKey
    <3>2. Behind(r, m) /\ m.n < r.recvN
      BY <1>1, <2>1, <2>2 DEF Behind
    <3> QED BY <2>7, <3>1, <3>2 DEF Gone
  <2> QED BY <1>4, <2>6, <2>7
<1> QED BY <1>2, <1>5, <1>6, <1>7 DEF Outcome

\* With one handler at a time nothing races, the handler's copy is the row,
\* and the row has done with what was opened.
DoneAt(p) ==
  /\ \A h \in opening[p] : opening[p] = {h} /\ h.s = row[p]
  /\ opened[p] # {} => row[p] # None
  /\ \A i \in opened[p] : Gone(row[p], sealed[Peer(p)][i])

DoneIfAlone == width = 1 => ~raced /\ \A p \in Party : DoneAt(p)

\* A handler that starts alone finds no other.
LEMMA NoOther ==
  ASSUME NEW p \in Party, DoneAt(p), Cardinality(opening[p]) < 1
  PROVE  opening[p] = {}
<1> SUFFICES ASSUME NEW h \in opening[p] PROVE FALSE
  OBVIOUS
<1>1. opening[p] = {h}
  BY DEF DoneAt
<1>2. Cardinality({h}) = 1
  BY FS_Singleton
<1> QED BY <1>1, <1>2

\* Sealing leaves the receiving half as it is.
LEMMA EncryptStaysDone ==
  ASSUME TypeOK, Agree, width = 1, ~raced, \A x \in Party : DoneAt(x),
         NEW p \in Party, Encrypt(p)
  PROVE  ~raced' /\ \A x \in Party : DoneAt(x)'
<1> DEFINE s == EnsureSendChain(row[p], Fresh(p))
           r == [s EXCEPT !.sendN = @ + 1]
<1>1. opening[p] = {}
  BY NoOther DEF Encrypt
<1>2. /\ row[p] # None /\ row' = [row EXCEPT ![p] = r] /\ raced' = (raced \/ opening[p] # {})
      /\ opened' = opened /\ opening' = opening
      /\ \E m : sealed' = [sealed EXCEPT ![p] = Append(sealed[p], m)]
  BY DEF Encrypt
<1>3. row[p] \in Session /\ s \in Session
  BY <1>2, FreshIsPair, EnsureSendChainType DEF TypeOK
<1>4. SameReceiving(row[p], s) /\ s.skipped = row[p].skipped
  BY <1>3 DEF EnsureSendChain, SameReceiving, Session, SessionRecord
<1> HIDE DEF s
<1>5. /\ r.recvChain = row[p].recvChain /\ r.recvKey = row[p].recvKey
      /\ r.recvN = row[p].recvN /\ r.skipped = row[p].skipped /\ r # None
  <2>1. /\ r.recvChain = s.recvChain /\ r.recvKey = s.recvKey
        /\ r.recvN = s.recvN /\ r.skipped = s.skipped /\ r \in Session
    BY <1>3 DEF Session, SessionRecord
  <2> HIDE DEF r
  <2> QED BY <1>4, <2>1, NoneIsNothing DEF SameReceiving
<1> HIDE DEF r
<1>6. ASSUME NEW x \in Party PROVE DoneAt(x)'
  <2>1. row'[x] = row[x] \/ (x = p /\ row'[x] = r)
    BY <1>2 DEF TypeOK
  <2>2. ASSUME NEW i \in opened[x]
        PROVE  sealed'[Peer(x)][i] = sealed[Peer(x)][i]
    <3>1. i \in DOMAIN sealed[Peer(x)] /\ Peer(x) \in Party
      BY PeerFacts DEF Agree, InOrder
    <3>2. PICK m : sealed' = [sealed EXCEPT ![p] = Append(sealed[p], m)]
      BY <1>2
    <3>3. sealed[p] \in Seq(Message) /\ i \in DOMAIN sealed[p] => Append(sealed[p], m)[i] = sealed[p][i]
      OBVIOUS
    <3> QED BY <3>1, <3>2, <3>3 DEF TypeOK
  <2>3. ASSUME NEW m, Gone(row[x], m) PROVE Gone(row'[x], m)
    BY <1>5, <2>1, <2>3 DEF Gone, Behind, SkippedKey
  <2>4. \A i \in opened'[x] : Gone(row'[x], sealed'[Peer(x)][i])
    BY <1>2, <2>2, <2>3 DEF DoneAt
  <2>5. \A h \in opening'[x] : opening'[x] = {h} /\ h.s = row'[x]
    BY <1>1, <1>2, <2>1 DEF DoneAt
  <2>6. opened'[x] # {} => row'[x] # None
    BY <1>2, <1>5, <2>1 DEF DoneAt
  <2> QED BY <2>4, <2>5, <2>6 DEF DoneAt
<1> QED BY <1>1, <1>2, <1>6

\* Opening a message is done with it, and stays done with those before.
LEMMA OpenEndIsDone ==
  ASSUME TypeOK, KeysInOrder, ~raced, Agree, width = 1, \A x \in Party : DoneAt(x),
         NEW p \in Party, NEW h \in opening[p], OpenEnd(p, h)
  PROVE  ~raced' /\ \A x \in Party : DoneAt(x)'
<1> DEFINE q == Peer(p)
           m == sealed[q][h.i]
           k == Fresh(p)
           r == Open(h.s, m, k)
<1>1. /\ row' = [row EXCEPT ![p] = r] /\ opened' = [opened EXCEPT ![p] = @ \cup {h.i}]
      /\ opening' = [opening EXCEPT ![p] = @ \ {h}] /\ sealed' = sealed /\ raced' = raced
  BY DEF OpenEnd
<1>2. /\ sealed[p] \in Seq(Message) /\ sealed[q] \in Seq(Message) /\ h.i \in DOMAIN sealed[q]
      /\ h.s \in Session \cup {None} /\ h.s \in Copies(p) /\ Unopened(p) \in SUBSET DOMAIN sealed[q]
      /\ q \in Party /\ Peer(q) = p
  BY TypesOf, PeerFacts
<1>3. m \in Message /\ k \in KeyPair
  BY <1>2, FreshIsPair, MessagesOf
<1>4. r \in Session /\ r # None
  BY OpenIsGood, NoneIsNothing
<1>5. SameKeySameChain(sealed[q]) /\ opened[p] \subseteq DOMAIN sealed[q]
  BY <1>2 DEF Agree, InOrder
<1>6. opening[p] = {h} /\ h.s = row[p]
  BY DEF DoneAt
<1>7. \A j \in opened[p] \cup {h.i} : Gone(r, sealed[q][j])
  <2>1. CASE h.s # None
    <3>1. r = Decrypt(h.s, m, k) /\ h.s \in Session
      BY <1>2, <2>1 DEF Open
    <3>2. Fits(h.s, sealed[p], sealed[q], Unopened(p))
      BY <1>2, <2>1 DEF Agree, Ready, Good
    <3>3. ASSUME NEW j \in opened[p] \cup {h.i}
          PROVE  j \in DOMAIN sealed[q] /\ (j = h.i \/ Gone(h.s, sealed[q][j]))
      BY <1>2, <1>5, <1>6 DEF DoneAt
    <3>4. Decrypt(h.s, m, k) # None
      BY <1>4, <3>1
    <3> HIDE DEF k, r
    <3>5. \A j \in opened[p] \cup {h.i} : Gone(Decrypt(h.s, m, k), sealed[q][j])
      BY <1>2, <1>3, <1>5, <3>1, <3>2, <3>3, <3>4, DecryptIsDone
    <3> QED BY <3>1, <3>5
  <2>2. CASE h.s = None
    <3>1. r = Decrypt(Respond(m, k), m, k)
      BY <1>4, <2>2 DEF Open
    <3>2. sealed[p] = <<>> /\ opened[p] = {}
      BY <1>2, <1>6, <2>2 DEF Agree, Ready, Absent, DoneAt
    <3>3. \A j \in DOMAIN sealed[q] : sealed[q][j].chain = <<>>
      BY <1>2, <3>2 DEF Agree, InOrder, Answers
    <3>4. Fits(Respond(m, k), <<>>, sealed[q], Unopened(p))
      BY <1>2, <1>3, <1>5, <3>3, RespondFits
    <3>5. Respond(m, k) \in Session
      <4>1. <<>> \in Seq(SUBSET KeyPair)
        OBVIOUS
      <4>2. m.key \in KeyPair
        BY <1>3, MessageFields
      <4> HIDE DEF m, k
      <4> QED BY <1>3, <4>1, <4>2 DEF Respond, Session, SessionRecord, Chain
    <3>6. Decrypt(Respond(m, k), m, k) # None
      BY <1>4, <3>1
    <3> HIDE DEF k, r
    <3>7. Gone(Decrypt(Respond(m, k), m, k), m)
      BY <1>2, <1>3, <1>5, <3>4, <3>5, <3>6, DecryptIsDone
    <3> QED BY <3>1, <3>2, <3>7
  <2> QED BY <2>1, <2>2
<1> HIDE DEF r, m, k
<1>8. ASSUME NEW x \in Party PROVE DoneAt(x)'
  <2>1. CASE x = p
    <3>1. row'[p] = r /\ opened'[p] = opened[p] \cup {h.i} /\ opening'[p] = {}
      BY <1>1, <1>6 DEF TypeOK
    <3>2. \A j \in opened'[p] : Gone(row'[p], sealed'[Peer(p)][j])
      BY <1>1, <1>7, <3>1
    <3>3. \A g \in opening'[p] : opening'[p] = {g} /\ g.s = row'[p]
      BY <3>1
    <3>4. row'[p] # None
      BY <1>4, <3>1
    <3> QED BY <2>1, <3>2, <3>3, <3>4 DEF DoneAt
  <2>2. CASE x # p
    <3>1. row'[x] = row[x] /\ opened'[x] = opened[x] /\ opening'[x] = opening[x]
      BY <1>1, <2>2 DEF TypeOK
    <3> QED BY <1>1, <3>1 DEF DoneAt
  <2> QED BY <2>1, <2>2
<1> QED BY <1>1, <1>8

LEMMA StaysDone == Spec => []DoneIfAlone
<1>1. Init => DoneIfAlone
  BY DEF Init, DoneIfAlone, DoneAt
<1>2. TypeOK /\ InOrderUnlessRaced /\ AgreeUnlessRaced /\ DoneIfAlone /\ [Next]_vars
        => DoneIfAlone'
  <2> SUFFICES ASSUME TypeOK, InOrderUnlessRaced, AgreeUnlessRaced, DoneIfAlone, [Next]_vars,
                      width' = 1
               PROVE  ~raced' /\ \A x \in Party : DoneAt(x)'
    BY DEF DoneIfAlone
  <2>1. width = 1
    BY DEF Next, vars, Encrypt, OpenStart, OpenEnd
  <2>2. ~raced /\ KeysInOrder /\ Agree /\ \A x \in Party : DoneAt(x)
    BY <2>1 DEF InOrderUnlessRaced, AgreeUnlessRaced, DoneIfAlone
  <2>3. ASSUME NEW p \in Party, NEW i \in DOMAIN sealed[Peer(p)], OpenStart(p, i)
        PROVE  ~raced' /\ \A x \in Party : DoneAt(x)'
    <3>1. opening[p] = {}
      BY <2>1, <2>2, <2>3, NoOther DEF OpenStart
    <3>2. /\ UNCHANGED <<row, sealed, opened, raced>>
          /\ opening' = [opening EXCEPT ![p] = @ \cup {[i |-> i, s |-> row[p]]}]
      BY <2>3 DEF OpenStart
    <3>3. ASSUME NEW x \in Party PROVE DoneAt(x)'
      <4>1. \A h \in opening'[x] : opening'[x] = {h} /\ h.s = row[x]
        <5>1. CASE x = p
          <6>1. opening'[x] = {[i |-> i, s |-> row[p]]} \/ opening'[x] = {}
            BY <3>1, <3>2, <5>1
          <6> QED BY <5>1, <6>1
        <5>2. CASE x # p
          <6>1. opening'[x] = opening[x]
            BY <3>2, <5>2
          <6> QED BY <2>2, <6>1 DEF DoneAt
        <5> QED BY <5>1, <5>2
      <4> QED BY <2>2, <3>2, <4>1 DEF DoneAt
    <3> QED BY <2>2, <3>2, <3>3
  <2>4. CASE UNCHANGED vars
    BY <2>2, <2>4 DEF vars, DoneAt
  <2> QED BY <2>1, <2>2, <2>3, <2>4, EncryptStaysDone, OpenEndIsDone DEF Next
<1> QED BY <1>1, <1>2, TypeCorrect, KeysStayInOrder, EndsAgree, PTL DEF Spec

\* Ratchet: a message that was opened does not open again (skippedKeys.delete
\* and recvChainIndex in RatchetManager.decrypt), for every order of delivery.
THEOREM OpenedStaysShut == Spec => []OpensOnce
<1>1. TypeOK /\ AgreeUnlessRaced /\ DoneIfAlone => OpensOnce
  <2> SUFFICES ASSUME TypeOK, AgreeUnlessRaced, DoneIfAlone, width = 1,
                      NEW p \in Party, NEW i \in opened[p]
               PROVE  ~Opens(row[p], sealed[Peer(p)][i])
    BY DEF OpensOnce
  <2> DEFINE m == sealed[Peer(p)][i]
  <2>1. Agree /\ DoneAt(p)
    BY DEF AgreeUnlessRaced, DoneIfAlone
  <2>2. row[p] \in Session /\ row[p] # None /\ Gone(row[p], m)
    BY <2>1 DEF DoneAt, TypeOK
  <2>3. i \in DOMAIN sealed[Peer(p)] /\ sealed[Peer(p)] \in Seq(Message)
    BY <2>1, TypesOf DEF Agree, InOrder
  <2>4. m \in Message /\ m.key \in KeyPair
    BY <2>3, MessagesOf
  <2>5. Sends(row[p], sealed[p])
    BY <2>1, <2>2 DEF Agree, Ready, Copies, Good, Fits
  <2> HIDE DEF m
  <2>6. ~CanTake(row[p], m) /\ ~CanRead(row[p], m) /\ ~CanTurn(row[p], m)
    BY <2>2, <2>4, <2>5, GoneIsShut
  <2>7. Opens(row[p], m) <=> CanTake(row[p], m) \/ CanRead(row[p], m) \/ CanTurn(row[p], m)
    BY <2>2, <2>4, DecryptIs DEF Outcome, Opens, Open
  <2> QED BY <2>6, <2>7 DEF m
<1> QED BY <1>1, TypeCorrect, EndsAgree, StaysDone, PTL

\* An interval of unopened messages before i is counted among those missing.
LEMMA CountsMissing ==
  ASSUME TypeOK, NEW p \in Party, NEW i \in DOMAIN sealed[Peer(p)],
         NEW a \in Int, NEW b \in Int, a <= b, b < i, \A x \in a .. b : x \in Unopened(p)
  PROVE  /\ Cardinality({j \in Unopened(p) : j < i}) \in Nat
         /\ b - a + 1 <= Cardinality({j \in Unopened(p) : j < i})
<1> DEFINE missing == {j \in Unopened(p) : j < i}
<1>1. sealed[Peer(p)] \in Seq(Message) /\ i \in Nat /\ Len(sealed[Peer(p)]) \in Nat
      /\ Unopened(p) \subseteq 1 .. Len(sealed[Peer(p)])
  BY TypesOf
<1>2. a .. b \subseteq missing
  BY <1>1
<1>3. IsFiniteSet(1 .. Len(sealed[Peer(p)]))
  <2>1. 1 \in Int /\ Len(sealed[Peer(p)]) \in Int
    BY <1>1
  <2> QED BY <2>1, FS_Interval
<1>4. missing \subseteq 1 .. Len(sealed[Peer(p)])
  BY <1>1
<1>5. IsFiniteSet(missing)
  BY <1>3, <1>4, FS_Subset
<1>6. Cardinality(a .. b) = b - a + 1
  BY FS_Interval
<1> HIDE DEF missing
<1>7. Cardinality(a .. b) <= Cardinality(missing) /\ Cardinality(missing) \in Nat
  BY <1>2, <1>5, FS_Subset, FS_CardinalityType
<1> QED BY <1>6, <1>7 DEF missing

\* Ratchet: a message opens in whatever order the others came, as long as no
\* more than MAX_SKIP of those sent before it are missing (skipMessageKeys).
THEOREM WithinSkipOpens == Spec => []OpensWithinSkip
<1>1. TypeOK /\ AgreeUnlessRaced /\ DoneIfAlone => OpensWithinSkip
  <2> SUFFICES ASSUME TypeOK, AgreeUnlessRaced, DoneIfAlone, width = 1,
                      NEW p \in Party, NEW i \in Unopened(p), row[p] # None,
                      Cardinality({j \in Unopened(p) : j < i}) <= MaxSkip
               PROVE  Opens(row[p], sealed[Peer(p)][i])
    BY DEF OpensWithinSkip
  <2> DEFINE s == row[p]
             theirs == sealed[Peer(p)]
             m == theirs[i]
             missing == Cardinality({j \in Unopened(p) : j < i})
  <2>1. Agree /\ DoneAt(p)
    BY DEF AgreeUnlessRaced, DoneIfAlone
  <2>2. /\ theirs \in Seq(Message) /\ s \in Session /\ i \in DOMAIN theirs
        /\ Unopened(p) \in SUBSET DOMAIN theirs /\ s \in Copies(p)
        /\ Unopened(p) = DOMAIN theirs \ opened[p]
    BY TypesOf DEF Unopened
  <2>3. Sends(s, sealed[p]) /\ Heard(s, theirs) /\ Receives(s, theirs, Unopened(p))
    BY <2>1, <2>2 DEF Agree, Ready, Good, Fits
  <2>4. SameKeySameChain(theirs) /\ Gapless(theirs)
    BY <2>1, PeerFacts DEF Agree, InOrder
  <2>5. \A x \in DOMAIN theirs : ~Gone(s, theirs[x]) => x \in Unopened(p)
    BY <2>1, <2>2 DEF DoneAt
  <2>6. missing <= MaxSkip /\ MaxSkip \in Nat
    BY RatchetAssumption
  <2>7. /\ m \in Message /\ m.n \in Nat /\ m.pn \in Nat /\ m.key \in KeyPair
        /\ i \in Nat \ {0} /\ s.recvN \in Nat
    BY <2>2, MessagesOf, SessionFields
  <2>8. \A a, b \in Int : a <= b /\ b < i /\ (\A x \in a .. b : x \in Unopened(p))
                            => missing \in Nat /\ b - a + 1 <= missing
    BY <2>2, CountsMissing
  <2> HIDE DEF s, theirs, m, missing
  <2>9. ASSUME Behind(s, m) PROVE CanTake(s, m) \/ CanRead(s, m)
    <3>1. CASE Kept(s, m)
      BY <3>1, KeptOpens
    <3>2. CASE Comes(s, m)
      <4>1. m.n <= s.recvN + MaxSkip
        <5> SUFFICES ASSUME m.n > s.recvN + MaxSkip PROVE FALSE
          BY <2>6, <2>7
        <5> DEFINE a == i - (m.n - s.recvN)
                   b == i - 1
        <5>1. a \in Int /\ b \in Int /\ a <= b /\ b < i /\ b - a + 1 = m.n - s.recvN
          BY <2>6, <2>7
        <5>2. ASSUME NEW x \in a .. b PROVE x \in Unopened(p)
          <6> DEFINE k == i - x
          <6>1. k \in 0 .. m.n /\ i - k = x /\ m.n - k >= s.recvN /\ m.n - k \in Nat
            BY <2>6, <2>7
          <6>2. x \in DOMAIN theirs /\ theirs[x].key = m.key /\ theirs[x].n = m.n - k
            BY <2>2, <2>4, <6>1 DEF Gapless, m
          <6>3. ~Gone(s, theirs[x])
            BY <2>7, <3>2, <6>1, <6>2 DEF Gone, Comes
          <6> QED BY <2>5, <6>2, <6>3
        <5> HIDE DEF a, b
        <5>3. missing \in Nat /\ b - a + 1 <= missing
          BY <2>8, <5>1, <5>2
        <5> QED BY <2>6, <2>7, <5>1, <5>3
      <4> QED BY <2>2, <2>3, <2>4, <2>9, <3>2, <4>1, ComesOpens DEF m
    <3> QED BY <2>2, <2>3, <2>9, <3>1, <3>2 DEF Receives, m
  <2>10. ASSUME Ahead(s, m, theirs) PROVE CanTurn(s, m)
    <3>1. /\ Len(m.chain) = Len(s.root) + 1 /\ Len(s.root) \in Nat
          /\ ~Behind(s, m)
      BY <2>2, <2>3, <2>4, <2>10, AheadIsLonger DEF m
    <3>2. m.n <= MaxSkip
      <4> SUFFICES ASSUME m.n > MaxSkip PROVE FALSE
        BY <2>6, <2>7
      <4> DEFINE a == i - m.n
                 b == i - 1
      <4>1. a \in Int /\ b \in Int /\ a <= b /\ b < i /\ b - a + 1 = m.n
        BY <2>6, <2>7
      <4>2. ASSUME NEW x \in a .. b PROVE x \in Unopened(p)
        <5> DEFINE k == i - x
        <5>1. k \in 0 .. m.n /\ i - k = x
          BY <2>6, <2>7
        <5>2. x \in DOMAIN theirs /\ theirs[x].key = m.key
          BY <2>2, <2>4, <5>1 DEF Gapless, m
        <5>3. theirs[x].chain = m.chain
          BY <2>2, <2>4, <5>2 DEF SameKeySameChain, m
        <5>4. ~Gone(s, theirs[x])
          BY <3>1, <5>3 DEF Gone, Behind
        <5> QED BY <2>5, <5>2, <5>4
      <4> HIDE DEF a, b
      <4>3. missing \in Nat /\ b - a + 1 <= missing
        BY <2>8, <4>1, <4>2
      <4> QED BY <2>6, <2>7, <4>1, <4>3
    <3>3. s.recvChain = None \/ m.pn <= s.recvN + MaxSkip
      <4> SUFFICES ASSUME s.recvChain # None, m.pn > s.recvN + MaxSkip PROVE FALSE
        BY <2>6, <2>7
      <4> DEFINE b == i - m.n - 1
                 a == b - (m.pn - 1 - s.recvN)
      <4>1. /\ b \in DOMAIN theirs /\ theirs[b].n = m.pn - 1
            /\ Len(theirs[b].chain) = Len(m.chain) - 2
        BY <2>2, <2>4, <2>6, <2>7 DEF Gapless, m
      <4>2. theirs[b].key = s.recvKey
        <5>1. Len(theirs[b].chain) = Len(s.root) - 1 /\ Len(theirs[b].chain) \in Nat
          BY <2>2, <3>1, <4>1, MessagesOf
        <5>2. Len(s.root) = Len(s.recvChain) + 1
          <6>1. CASE s.sendChain # None
            BY <2>3, <6>1 DEF Sends
          <6>2. CASE s.sendChain = None
            <7>1. Len(s.root) = 0
              BY <2>3, <6>2 DEF Sends
            <7> QED BY <5>1, <7>1
          <6> QED BY <6>1, <6>2
        <5>3. s.recvChain \in Chain /\ Len(s.recvChain) \in Nat
          BY <2>2, SessionFields, ChainFacts
        <5>4. Len(theirs[b].chain) = Len(s.recvChain)
          BY <5>1, <5>2, <5>3
        <5> QED BY <2>2, <2>3, <2>4, <4>1, <5>4, ReceivingChain
      <4>3. a \in Int /\ b \in Int /\ a <= b /\ b < i /\ b - a + 1 = m.pn - s.recvN
        BY <2>6, <2>7
      <4>4. ASSUME NEW x \in a .. b PROVE x \in Unopened(p)
        <5> DEFINE k == b - x
        <5>1. /\ k \in 0 .. (m.pn - 1) /\ b - k = x /\ m.pn - 1 - k >= s.recvN
              /\ m.pn - 1 - k \in Nat
          BY <2>6, <2>7, <4>3
        <5>2. x \in DOMAIN theirs /\ theirs[x].key = s.recvKey /\ theirs[x].n = m.pn - 1 - k
          <6> HIDE DEF a, b, k
          <6> QED BY <2>4, <4>1, <4>2, <5>1 DEF Gapless
        <5>3. ~Gone(s, theirs[x])
          BY <2>7, <5>1, <5>2 DEF Gone
        <5> QED BY <2>5, <5>2, <5>3
      <4> HIDE DEF a, b
      <4>5. missing \in Nat /\ b - a + 1 <= missing
        BY <2>8, <4>3, <4>4
      <4> QED BY <2>6, <2>7, <4>3, <4>5
    <3> QED BY <2>2, <2>3, <2>4, <2>10, <3>2, <3>3, AheadOpens DEF m
  <2>11. CanTake(s, m) \/ CanRead(s, m) \/ CanTurn(s, m)
    BY <2>2, <2>3, <2>9, <2>10 DEF Receives, m
  <2>12. s # None
    BY <2>2, NoneIsNothing
  <2>13. Opens(s, m) <=> CanTake(s, m) \/ CanRead(s, m) \/ CanTurn(s, m)
    BY <2>2, <2>7, <2>12, DecryptIs DEF Outcome, Opens, Open
  <2> QED BY <2>11, <2>13 DEF s, m, theirs
<1> QED BY <1>1, TypeCorrect, EndsAgree, StaysDone, PTL
=============================================================================
