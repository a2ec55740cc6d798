------------------------------ MODULE Ratchet ------------------------------
(***************************************************************************)
(* The double ratchet of a direct chat (ratchet.ts; ratchet.rs is its twin *)
(* in the Windows client) and the session row it lives in (socket.ts).     *)
(*                                                                         *)
(* Keys are symbolic.  A key pair is <<owner, serial>>, a Diffie-Hellman   *)
(* output the set of the two pairs it combines, a root or chain key the    *)
(* sequence of the outputs it was derived from, the X3DH secret the empty  *)
(* sequence, and a message key its chain together with a position in it.   *)
(*                                                                         *)
(* A handler reads the row, awaits the key derivations and writes the row. *)
(* Nothing in the browser keeps handlers apart: width is how many overlap. *)
(* A send is one step, which may fall between the read and the write of a  *)
(* message being opened; raced tells whether one ever did.  A message that *)
(* does not open is left out, as is a second X3DH: both end the session.   *)
(***************************************************************************)
EXTENDS Naturals, Sequences, FiniteSets

CONSTANTS
  Party,      \* the two ends of the chat
  Initiator,  \* the one who sends first, and makes the X3DH secret
  None,       \* no session, no chain, no key
  MaxSkip,    \* MAX_SKIP (50 in the code)
  MaxSeals,   \* bound: messages encrypted in a behaviour
  Widths      \* bound: how many handlers may overlap

Peer(p) == CHOOSE q \in Party : q # p

KeyPair == Party \X Nat
Chain == Seq(SUBSET KeyPair)

Message ==
  [key : KeyPair, n : Nat, pn : Nat, chain : Chain, x3dh : BOOLEAN]

SessionRecord ==
  [root : Chain, sendChain : Chain \cup {None}, sendKey : KeyPair,
   sendN : Nat, pn : Nat,
   recvChain : Chain \cup {None}, recvKey : KeyPair \cup {None}, recvN : Nat,
   skipped : SUBSET [key : KeyPair, n : Nat, chain : Chain]]

ASSUME RatchetAssumption ==
  /\ Initiator \in Party /\ \E a, b \in Party : a # b /\ Party = {a, b}
  /\ None \notin Chain \cup KeyPair \cup SessionRecord
  /\ MaxSkip \in Nat /\ MaxSeals \in Nat /\ Widths \subseteq Nat

\* A row of db.sessions: it has the peer's ratchet key if it can receive, or
\* has a chain to start.
Session ==
  {s \in SessionRecord : s.recvChain # None \/ s.sendChain = None => s.recvKey \in KeyPair}

VARIABLES
  row,      \* [Party -> Session or None] db.sessions
  made,     \* [Party -> Nat] key pairs generated so far
  sealed,   \* [Party -> Seq(Message)] what each has encrypted, in order
  opened,   \* [Party -> SUBSET Nat] which messages of the peer it has opened
  opening,  \* [Party -> SUBSET [i, s]] handlers between read and write
  width,    \* how many handlers may overlap
  raced     \* whether a send has run inside another handler

vars == <<row, made, sealed, opened, opening, width, raced>>

-----------------------------------------------------------------------------
(* RatchetManager.                                                         *)

\* kdfRoot on the Diffie-Hellman output of two pairs.
KdfRoot(root, k1, k2) == Append(root, {k1, k2})

\* Mutant: the first chain is left to ensureSendChain.
InitiateChainless(k) ==
  [root |-> <<>>, sendChain |-> None, sendKey |-> k, sendN |-> 0, pn |-> 0,
   recvChain |-> None, recvKey |-> None, recvN |-> 0, skipped |-> {}]

\* encryptInSession without a row: the X3DH secret is root and first chain.
Initiate(k) ==
  [root |-> <<>>, sendChain |-> <<>>, sendKey |-> k, sendN |-> 0, pn |-> 0,
   recvChain |-> None, recvKey |-> None, recvN |-> 0, skipped |-> {}]

\* createX3DHSession: the same secret, from the other side.
Respond(m, k) ==
  [root |-> <<>>, sendChain |-> None, sendKey |-> k, sendN |-> 0, pn |-> 0,
   recvChain |-> <<>>, recvKey |-> m.key, recvN |-> 0, skipped |-> {}]

\* ensureSendChain, with k the pair it may generate.
EnsureSendChain(s, k) ==
  IF s.sendChain # None THEN s
  ELSE LET chain == KdfRoot(s.root, k, s.recvKey) IN
       [s EXCEPT !.root = chain, !.sendChain = chain, !.sendKey = k,
                 !.pn = s.sendN, !.sendN = 0]

\* skipMessageKeys: whether the gap can be skipped, and what it leaves.
CanSkip(s, until) ==
  s.recvChain # None /\ (until < s.recvN \/ until - s.recvN <= MaxSkip)

SkipKeys(s, until) ==
  IF until < s.recvN THEN s
  ELSE [s EXCEPT !.recvN = until,
                 !.skipped = @ \cup {[key |-> s.recvKey, n |-> i, chain |-> s.recvChain] :
                                       i \in s.recvN .. (until - 1)}]

\* Mutant: the keys left over in the old chain are forgotten.
TurnForgets(s, m, k) ==
  LET recv == KdfRoot(s.root, s.sendKey, m.key)
      send == KdfRoot(recv, k, m.key) IN
  [root |-> send, sendChain |-> send, sendKey |-> k, sendN |-> 0, pn |-> s.sendN,
   recvChain |-> recv, recvKey |-> m.key, recvN |-> 0, skipped |-> s.skipped]

\* Mutant: sendChainIndex is reset before it is kept.
TurnLosesCount(s, m, k) ==
  LET old == IF s.recvChain = None THEN s ELSE SkipKeys(s, m.pn)
      recv == KdfRoot(s.root, s.sendKey, m.key)
      send == KdfRoot(recv, k, m.key) IN
  [root |-> send, sendChain |-> send, sendKey |-> k, sendN |-> 0, pn |-> 0,
   recvChain |-> recv, recvKey |-> m.key, recvN |-> 0, skipped |-> old.skipped]

\* The Diffie-Hellman step of decrypt, for a ratchet key not seen before: the
\* rest of the old chain is skipped, then both chains start anew.
Turn(s, m, k) ==
  LET old == IF s.recvChain = None THEN s ELSE SkipKeys(s, m.pn)
      recv == KdfRoot(s.root, s.sendKey, m.key)
      send == KdfRoot(recv, k, m.key) IN
  [root |-> send, sendChain |-> send, sendKey |-> k, sendN |-> 0, pn |-> s.sendN,
   recvChain |-> recv, recvKey |-> m.key, recvN |-> 0, skipped |-> old.skipped]

SkippedKey(s, m) == {e \in s.skipped : e.key = m.key /\ e.n = m.n}

\* Mutant: the key stays.
DropSkippedNot(s, m) == s

\* A skipped key is deleted with its first use.
DropSkipped(s, m) == [s EXCEPT !.skipped = @ \ SkippedKey(s, m)]

\* decrypt, with k the pair it may generate: the row it leaves, or None.
Decrypt(s, m, k) ==
  LET fresh == m.key # s.recvKey
      turned == IF fresh THEN Turn(s, m, k) ELSE s
      draft == SkipKeys(turned, m.n) IN
  CASE SkippedKey(s, m) # {} ->
         IF \E e \in SkippedKey(s, m) : e.chain = m.chain
         THEN DropSkipped(s, m) ELSE None
    [] SkippedKey(s, m) = {} /\ fresh /\ s.recvChain # None /\ ~CanSkip(s, m.pn) -> None
    [] OTHER ->
         IF CanSkip(turned, m.n) /\ draft.recvChain = m.chain /\ draft.recvN = m.n
         THEN [draft EXCEPT !.recvN = @ + 1] ELSE None

\* decryptInSession.
Open(s, m, k) ==
  IF s # None THEN Decrypt(s, m, k)
  ELSE IF m.x3dh THEN Decrypt(Respond(m, k), m, k)
  ELSE None

\* Whether m opens does not depend on the pair that decrypt generates.
Opens(s, m) == Open(s, m, m.key) # None

-----------------------------------------------------------------------------
\* The next pair box.keyPair() gives p.
Fresh(p) == <<p, made[p] + 1>>

Init ==
  /\ row = [p \in Party |-> IF p = Initiator THEN Initiate(<<p, 1>>) ELSE None]
  /\ made = [p \in Party |-> 1]
  /\ sealed = [p \in Party |-> <<>>]
  /\ opened = [p \in Party |-> {}]
  /\ opening = [p \in Party |-> {}]
  /\ width \in Widths
  /\ raced = FALSE

\* Mutant: sendChainIndex is left alone.
EncryptRepeats(p) ==
  /\ row[p] # None /\ Cardinality(opening[p]) < width
  /\ Len(sealed[p]) + Len(sealed[Peer(p)]) < MaxSeals
  /\ LET s == EnsureSendChain(row[p], Fresh(p)) IN
       /\ sealed' = [sealed EXCEPT ![p] = Append(@,
            [key |-> s.sendKey, n |-> s.sendN, pn |-> s.pn, chain |-> s.sendChain,
             x3dh |-> p = Initiator /\ sealed[p] = <<>>])]
       /\ row' = [row EXCEPT ![p] = s]
       /\ made' = [made EXCEPT ![p] = @ + 1]
  /\ raced' = (raced \/ opening[p] # {})
  /\ UNCHANGED <<opened, opening, width>>

\* encryptInSession with a row.  The first message of all carries the X3DH.
Encrypt(p) ==
  /\ row[p] # None /\ Cardinality(opening[p]) < width
  /\ Len(sealed[p]) + Len(sealed[Peer(p)]) < MaxSeals
  /\ LET s == EnsureSendChain(row[p], Fresh(p)) IN
       /\ sealed' = [sealed EXCEPT ![p] = Append(@,
            [key |-> s.sendKey, n |-> s.sendN, pn |-> s.pn, chain |-> s.sendChain,
             x3dh |-> p = Initiator /\ sealed[p] = <<>>])]
       /\ row' = [row EXCEPT ![p] = [s EXCEPT !.sendN = @ + 1]]
       /\ made' = [made EXCEPT ![p] = @ + 1]
  /\ raced' = (raced \/ opening[p] # {})
  /\ UNCHANGED <<opened, opening, width>>

\* A handler has found no messages row for message i of the peer, and reads
\* the session.  Messages arrive in any order, and more than once.
OpenStart(p, i) ==
  /\ i \in DOMAIN sealed[Peer(p)] \ opened[p]
  /\ Opens(row[p], sealed[Peer(p)][i])
  /\ Cardinality(opening[p]) < width
  /\ opening' = [opening EXCEPT ![p] = @ \cup {[i |-> i, s |-> row[p]]}]
  /\ UNCHANGED <<row, made, sealed, opened, width, raced>>

\* decryptAndPersist: it writes what it made of the row it had read.
OpenEnd(p, h) ==
  /\ h \in opening[p]
  /\ row' = [row EXCEPT ![p] = Open(h.s, sealed[Peer(p)][h.i], Fresh(p))]
  /\ made' = [made EXCEPT ![p] = @ + 1]
  /\ opened' = [opened EXCEPT ![p] = @ \cup {h.i}]
  /\ opening' = [opening EXCEPT ![p] = @ \ {h}]
  /\ UNCHANGED <<sealed, width, raced>>

\* Bound: a behaviour is followed up to the first send that races, as nothing
\* is claimed of what comes after it.
Next ==
  ~raced /\ \E p \in Party :
    \/ Encrypt(p)
    \/ \E i \in DOMAIN sealed[Peer(p)] : OpenStart(p, i)
    \/ \E h \in opening[p] : OpenEnd(p, h)

Spec == Init /\ [][Next]_vars

-----------------------------------------------------------------------------
(* Properties.                                                             *)

TypeOK ==
  /\ row \in [Party -> Session \cup {None}]
  /\ made \in [Party -> Nat]
  /\ sealed \in [Party -> Seq(Message)]
  /\ opened \in [Party -> SUBSET Nat]
  /\ opening \in [Party -> SUBSET [i : Nat, s : Session \cup {None}]]
  /\ \A p \in Party : \A h \in opening[p] : h.i \in DOMAIN sealed[Peer(p)]
  /\ width \in Widths /\ raced \in BOOLEAN

\* No message key encrypts two messages, whatever chains were started and
\* whatever rows were written over others, unless a send ran between the read
\* and the write of a message being opened, which undoes its count.
KeyUsedOnce ==
  ~raced => \A p \in Party : \A i, j \in DOMAIN sealed[p] :
    i # j => sealed[p][i].key # sealed[p][j].key \/ sealed[p][i].n # sealed[p][j].n

Unopened(p) == DOMAIN sealed[Peer(p)] \ opened[p]

\* Out-of-order delivery (ratchet.test.ts): a message opens whatever the order
\* in which the others came, as long as no more than MAX_SKIP of the messages
\* sent before it are still missing.
OpensWithinSkip ==
  width = 1 => \A p \in Party : \A i \in Unopened(p) :
    row[p] # None /\ Cardinality({j \in Unopened(p) : j < i}) <= MaxSkip
      => Opens(row[p], sealed[Peer(p)][i])

\* What skipMessageKeys would have to skip for m.
TooFar(s, m) ==
  \/ m.key = s.recvKey /\ m.n > s.recvN + MaxSkip
  \/ m.key # s.recvKey /\ (m.pn > s.recvN + MaxSkip \/ m.n > MaxSkip)

\* The same under overlapping handlers, whose rows overwrite each other: no
\* message becomes unreadable because another was opened at the same time.
OverlapIsHarmless ==
  ~raced => \A p \in Party : \A i \in Unopened(p) :
    row[p] # None =>
      Opens(row[p], sealed[Peer(p)][i]) \/ TooFar(row[p], sealed[Peer(p)][i])

\* A message that was opened does not open again: its key is gone from the row
\* and cannot be derived from it.
OpensOnce ==
  width = 1 => \A p \in Party : \A i \in opened[p] : ~Opens(row[p], sealed[Peer(p)][i])
=============================================================================
