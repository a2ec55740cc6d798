----------------------------- MODULE MeshGossip -----------------------------
(***************************************************************************)
(* The blind gossip of the Rust core (mesh.rs): MeshSimulator floods an    *)
(* envelope from node to node through one queue, each node remembers what  *)
(* it has seen in a MeshDedupeCache until that expires.                    *)
(*                                                                         *)
(* An envelope is its dedupe key (topic and msg_id), its expiry and its    *)
(* hop limit.  Publish holds the simulator until its queue is empty.       *)
(* Subscriptions only select what publish reports and are left out.        *)
(***************************************************************************)
EXTENDS Naturals, Sequences, FiniteSets

CONSTANTS
  Node,        \* names of nodes
  Key,         \* dedupe keys
  None,        \* nobody, and nothing published yet
  MaxHops,     \* MESH_MAX_HOP_LIMIT (8 in the code)
  MaxTime,     \* bound: the clock
  MaxPublish,  \* bound: envelopes published
  MaxChanges   \* bound: changes of nodes and links

ASSUME MeshAssumption ==
  /\ None \notin Node /\ IsFiniteSet(Node)
  /\ None \notin [key : Key, expires : Nat, hops : Nat, origin : Node, fresh : SUBSET Node]
  /\ {MaxHops, MaxTime, MaxPublish, MaxChanges} \subseteq Nat

Entry == [key : Key, expires : Nat]
Pair == {{a, b} : a, b \in Node}
Delivery == [from : Node \cup {None}, to : Node, hops : Nat]
Envelope == [key : Key, expires : Nat, hops : Nat, origin : Node, fresh : SUBSET Node]

VARIABLES
  nodes,    \* SUBSET Node: MeshSimulator.nodes
  links,    \* SUBSET Pair: MeshSimulator.links, both directions
  now,      \* now_ms
  cache,    \* [Node -> Seq(Entry)] MeshDedupeCache: seen in the order of order
  queue,    \* Seq(Delivery) of the publish under way
  trip,     \* the envelope of the last publish and who had not seen it, or None
  reached,  \* SUBSET (Node \X Nat): who accepted it, with how many hops left
  published, changes

vars == <<nodes, links, now, cache, queue, trip, reached, published, changes>>

-----------------------------------------------------------------------------
(* MeshDedupeCache.                                                        *)

\* How many entries at the front have expired.
Expired(c, t) ==
  CHOOSE k \in 0 .. Len(c) :
    /\ \A i \in 1 .. k : c[i].expires <= t
    /\ k < Len(c) => c[k + 1].expires > t

\* Mutant: the entry that ends the loop goes with the others.
PruneOneMore(c, t) == SubSeq(c, Expired(c, t) + 2, Len(c))

\* prune stops at the first entry that has not expired.
Prune(c, t) == SubSeq(c, Expired(c, t) + 1, Len(c))

Knows(c, key) == \E i \in DOMAIN c : c[i].key = key

Neighbours(n) == {m \in Node : {n, m} \in links}

\* Iterating over a HashSet yields its elements in some order.
Orders(S) ==
  {s \in [1 .. Cardinality(S) -> S] : \A x \in S : \E i \in DOMAIN s : s[i] = x}

-----------------------------------------------------------------------------
\* A simulator that has been set up: nodes joined and linked, nothing sent.
Init ==
  /\ nodes = Node
  /\ links \in SUBSET {p \in Pair : Cardinality(p) = 2}
  /\ now = 0
  /\ cache = [n \in Node |-> <<>>]
  /\ queue = <<>>
  /\ trip = None
  /\ reached = {}
  /\ published = 0 /\ changes = 0

\* publish: validate, then accept at the origin.
Publish(n, key, expires, hops) ==
  /\ queue = <<>> /\ published < MaxPublish
  /\ n \in nodes /\ expires > now /\ hops <= MaxHops
  /\ queue' = <<[from |-> None, to |-> n, hops |-> hops]>>
  /\ trip' = [key |-> key, expires |-> expires, hops |-> hops, origin |-> n,
              fresh |-> {m \in nodes : ~Knows(Prune(cache[m], now), key)}]
  /\ reached' = {}
  /\ published' = published + 1
  /\ UNCHANGED <<nodes, links, now, cache, changes>>

\* Mutant: what is forwarded goes to the front of the queue.
ForwardFirst(d, to) ==
  [i \in DOMAIN to |-> [from |-> d.to, to |-> to[i], hops |-> d.hops - 1]] \o Tail(queue)

\* What publish still has to do after d went on to the nodes in to.
Forward(d, to) ==
  Tail(queue) \o [i \in DOMAIN to |-> [from |-> d.to, to |-> to[i], hops |-> d.hops - 1]]

\* accept_at_node for an envelope the node has seen.  That the node exists and
\* the envelope is valid is checked again there, and holds (TypeOK, Publish).
AcceptDuplicate ==
  /\ queue # <<>>
  /\ LET d == Head(queue)
         c == Prune(cache[d.to], now) IN
       /\ Knows(c, trip.key)
       /\ cache' = [cache EXCEPT ![d.to] = c]
       /\ queue' = Tail(queue)
  /\ UNCHANGED <<nodes, links, now, trip, reached, published, changes>>

\* accept_at_node for one it has not: remember, deliver, forward to all
\* neighbours but the one it came from, while hops are left.
AcceptNew ==
  /\ queue # <<>>
  /\ LET d == Head(queue)
         c == Prune(cache[d.to], now) IN
       /\ ~Knows(c, trip.key)
       /\ cache' = [cache EXCEPT ![d.to] =
                      Append(c, [key |-> trip.key, expires |-> trip.expires])]
       /\ reached' = reached \cup {<<d.to, d.hops>>}
       /\ IF d.hops = 0
          THEN queue' = Tail(queue)
          ELSE \E to \in Orders(Neighbours(d.to) \ {d.from}) : queue' = Forward(d, to)
  /\ UNCHANGED <<nodes, links, now, trip, published, changes>>

\* set_now_ms prunes every node; nothing says that time goes forward.
SetNow(t) ==
  /\ queue = <<>>
  /\ now' = t
  /\ cache' = [n \in Node |-> Prune(cache[n], t)]
  /\ UNCHANGED <<nodes, links, queue, trip, reached, published, changes>>

Change == queue = <<>> /\ changes < MaxChanges /\ changes' = changes + 1

\* link_bidirectional; a node may be linked with itself.
Link(a, b) ==
  /\ Change
  /\ {a, b} \subseteq nodes
  /\ links' = links \cup {{a, b}}
  /\ UNCHANGED <<nodes, now, cache, queue, trip, reached, published>>

Unlink(a, b) ==
  /\ Change
  /\ {a, b} \subseteq nodes
  /\ links' = links \ {{a, b}}
  /\ UNCHANGED <<nodes, now, cache, queue, trip, reached, published>>

\* Mutant: the neighbours keep their links to it.
RemoveNodeOnly(n) ==
  /\ Change
  /\ n \in nodes
  /\ nodes' = nodes \ {n}
  /\ cache' = [cache EXCEPT ![n] = <<>>]
  /\ UNCHANGED <<links, now, queue, trip, reached, published>>

\* remove_node: with its links, its cache and its name.
RemoveNode(n) ==
  /\ Change
  /\ n \in nodes
  /\ nodes' = nodes \ {n}
  /\ links' = {p \in links : n \notin p}
  /\ cache' = [cache EXCEPT ![n] = <<>>]
  /\ UNCHANGED <<now, queue, trip, reached, published>>

\* add_node: or_default leaves a known node alone.
AddNode(n) ==
  /\ Change
  /\ nodes' = nodes \cup {n}
  /\ UNCHANGED <<links, now, cache, queue, trip, reached, published>>

Next ==
  \/ \E n \in Node, key \in Key, expires \in 1 .. MaxTime + 1, hops \in 0 .. MaxHops :
       Publish(n, key, expires, hops)
  \/ AcceptDuplicate
  \/ AcceptNew
  \/ \E t \in 0 .. MaxTime : SetNow(t)
  \/ \E a, b \in Node : Link(a, b) \/ Unlink(a, b)
  \/ \E n \in Node : RemoveNode(n) \/ AddNode(n)

Spec == Init /\ [][Next]_vars

-----------------------------------------------------------------------------
(* Properties.                                                             *)

TypeOK ==
  /\ nodes \subseteq Node
  /\ links \subseteq Pair /\ \A p \in links : p \subseteq nodes
  /\ now \in Nat
  /\ cache \in [Node -> Seq(Entry)]
  /\ queue \in Seq(Delivery)
  /\ trip \in Envelope \cup {None}
  /\ reached \subseteq Node \X Nat
  /\ published \in Nat /\ changes \in Nat
  /\ queue # <<>> => trip # None

\* Flooding is complete: when publish returns, whoever accepted with hops to
\* spare has all its linked neighbours that had not seen the envelope served,
\* with at most one hop less than itself.  Copies race along paths of
\* different lengths, and the dedupe cache keeps the first: that the first is
\* the one with most hops left is due to the order of the queue.
FloodIsClosed ==
  [][queue # <<>> /\ queue' = <<>> =>
      \A r \in reached' : r[2] > 0 =>
        \A m \in Neighbours(r[1]) \cap trip.fresh :
          \E s \in reached' : s[1] = m /\ s[2] >= r[2] - 1]_vars

\* The nodes within k hops of the origin, over nodes that had not seen it.
Ball(k) ==
  LET ball[i \in Nat] ==
        IF i = 0 THEN {trip.origin} \cap trip.fresh
        ELSE ball[i - 1] \cup {m \in trip.fresh : \E n \in ball[i - 1] : {n, m} \in links}
  IN  ball[k]

\* Hop limits mean distance: publish reaches exactly the nodes within the hop
\* limit, each once and along a shortest way (the multi-hop tests in mesh.rs).
FloodIsBreadthFirst ==
  [][queue # <<>> /\ queue' = <<>> =>
      reached' = {r \in Node \X (0 .. trip.hops) :
                    /\ r[1] \in Ball(trip.hops - r[2])
                    /\ r[2] < trip.hops => r[1] \notin Ball(trip.hops - r[2] - 1)}]_vars

\* dedupe_rejects_repeats_until_expiry: no step forgets what a node has seen
\* before it expires, unless the node leaves.
ForgetsOnlyExpired ==
  [][\A n \in nodes' : \A i \in DOMAIN cache[n] :
      cache[n][i].expires > now' =>
        \E j \in DOMAIN cache'[n] : cache'[n][j] = cache[n][i]]_vars
=============================================================================
