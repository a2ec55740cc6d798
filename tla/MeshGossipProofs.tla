-------------------------- MODULE MeshGossipProofs --------------------------
(***************************************************************************)
(* Proofs about MeshGossip: types, the dedupe cache, and that flooding is  *)
(* complete and goes by distance whatever the graph, the hop limit and the *)
(* order in which the neighbours of a node are visited.                    *)
(***************************************************************************)
EXTENDS MeshGossip, FiniteSetTheorems, SequenceTheorems, WellFoundedInduction, TLAPS

-----------------------------------------------------------------------------
(* The dedupe cache.                                                       *)

\* A set of numbers has a least one.
LEMMA HasLeast ==
  ASSUME NEW S, S \subseteq Nat, S # {}
  PROVE  \E k \in S : \A j \in S : ~(j < k)
<1>1. PICK k \in S : \A j \in S : <<j, k>> \notin OpToRel(<, Nat)
  BY WFMin, NatLessThanWellFounded, Zenon
<1>2. \A j \in S : j < k => <<j, k>> \in OpToRel(<, Nat)
  BY Zenon DEF OpToRel
<1> QED BY <1>1, <1>2, Zenon

\* The loop of prune stops somewhere.
LEMMA ExpiredIsPrefix ==
  ASSUME NEW c \in Seq(Entry), NEW t \in Nat
  PROVE  /\ Expired(c, t) \in 0 .. Len(c)
         /\ \A i \in 1 .. Expired(c, t) : c[i].expires <= t
         /\ Expired(c, t) < Len(c) => c[Expired(c, t) + 1].expires > t
<1> DEFINE Stop == {k \in 0 .. Len(c) : k < Len(c) => c[k + 1].expires > t}
<1>1. Stop \subseteq Nat /\ Stop # {}
  <2>1. Len(c) \in Stop
    OBVIOUS
  <2> QED BY <2>1
<1>2. \E k \in Stop : \A j \in Stop : ~(j < k)
  <2> HIDE DEF Stop
  <2> QED BY <1>1, HasLeast
<1>3. PICK k \in Stop : \A j \in Stop : ~(j < k)
  BY <1>2
<1>4. \A i \in 1 .. k : c[i].expires <= t
  <2> SUFFICES ASSUME NEW i \in 1 .. k PROVE c[i].expires <= t
    OBVIOUS
  <2>1. i - 1 \notin Stop /\ i - 1 \in 0 .. Len(c) /\ i - 1 < Len(c)
    <3>1. k \in 0 .. Len(c) /\ i - 1 < k
      BY <1>3
    <3>2. i - 1 \in Stop => ~(i - 1 < k)
      BY <1>3
    <3> QED BY <3>1, <3>2
  <2>2. ~(c[i].expires > t)
    BY <2>1
  <2>3. c[i] \in Entry
    BY <2>1
  <2> QED BY <2>2, <2>3 DEF Entry
<1> QED BY <1>4 DEF Expired

\* What prune leaves: entries of the cache, and all that have not expired.
LEMMA PruneKeepsLive ==
  ASSUME NEW c \in Seq(Entry), NEW t \in Nat
  PROVE  /\ Prune(c, t) \in Seq(Entry)
         /\ \A i \in DOMAIN c : c[i].expires > t =>
              \E j \in DOMAIN Prune(c, t) : Prune(c, t)[j] = c[i]
         /\ Prune(c, t) # <<>> => Prune(c, t)[1].expires > t
<1> DEFINE k == Expired(c, t)
<1>1. k \in 0 .. Len(c) /\ (\A i \in 1 .. k : c[i].expires <= t)
      /\ (k < Len(c) => c[k + 1].expires > t)
  BY ExpiredIsPrefix
<1> HIDE DEF k
<1>2. Prune(c, t) = SubSeq(c, k + 1, Len(c))
  BY DEF Prune, k
<1>3. /\ Prune(c, t) \in Seq(Entry)
      /\ Len(Prune(c, t)) = Len(c) - k
      /\ \A i \in 1 .. Len(c) - k : Prune(c, t)[i] = c[k + i]
  BY <1>1, <1>2
<1>4. ASSUME NEW i \in DOMAIN c, c[i].expires > t
      PROVE  \E j \in DOMAIN Prune(c, t) : Prune(c, t)[j] = c[i]
  <2>1. c[i].expires \in Nat
    <3>1. c[i] \in Entry
      OBVIOUS
    <3> QED BY <3>1 DEF Entry
  <2>2. i > k
    BY <1>1, <1>4, <2>1
  <2>3. i - k \in 1 .. Len(c) - k /\ Prune(c, t)[i - k] = c[i]
    BY <1>1, <1>3, <2>2
  <2> QED BY <1>3, <2>3
<1>5. ASSUME Prune(c, t) # <<>> PROVE Prune(c, t)[1].expires > t
  <2>1. Len(c) - k > 0
    BY <1>1, <1>3, <1>5
  <2> QED BY <1>1, <1>3, <2>1
<1> QED BY <1>3, <1>4, <1>5

\* A cache that starts with an entry that has not expired is left alone.
LEMMA PruneStops ==
  ASSUME NEW c \in Seq(Entry), NEW t \in Nat, c = <<>> \/ c[1].expires > t
  PROVE  Prune(c, t) = c
<1>1. Expired(c, t) = 0
  <2>1. CASE c = <<>>
    <3>1. Len(c) = 0
      BY <2>1
    <3>2. Expired(c, t) \in 0 .. Len(c)
      BY ExpiredIsPrefix
    <3> QED BY <3>1, <3>2
  <2>2. CASE c # <<>> /\ c[1].expires > t
    <3>1. c[1] \in Entry /\ Expired(c, t) \in Nat
      BY <2>2, ExpiredIsPrefix
    <3>2. Expired(c, t) >= 1 => c[1].expires <= t
      BY <3>1, ExpiredIsPrefix
    <3> QED BY <2>2, <3>1, <3>2 DEF Entry
  <2> QED BY <2>1, <2>2
<1> QED BY <1>1 DEF Prune

\* Pruning again at the same time changes nothing.
LEMMA PrunedTwice ==
  ASSUME NEW c \in Seq(Entry), NEW t \in Nat
  PROVE  Prune(Prune(c, t), t) = Prune(c, t)
<1>1. Prune(c, t) \in Seq(Entry) /\ (Prune(c, t) # <<>> => Prune(c, t)[1].expires > t)
  BY PruneKeepsLive
<1> HIDE DEF Prune
<1> QED BY <1>1, PruneStops

\* Nor does it after a live entry has been remembered.
LEMMA RememberedStays ==
  ASSUME NEW c \in Seq(Entry), NEW t \in Nat, NEW e \in Entry, e.expires > t
  PROVE  Prune(Append(Prune(c, t), e), t) = Append(Prune(c, t), e)
<1> DEFINE p == Prune(c, t)
<1>1. p \in Seq(Entry) /\ (p # <<>> => p[1].expires > t)
  BY PruneKeepsLive
<1> HIDE DEF p
<1>2. Append(p, e) \in Seq(Entry) /\ Append(p, e)[1].expires > t
  <2>1. CASE p = <<>>
    BY <2>1
  <2>2. CASE p # <<>>
    BY <1>1, <2>2
  <2> QED BY <2>1, <2>2
<1>3. Prune(Append(p, e), t) = Append(p, e)
  BY <1>2, PruneStops
<1> QED BY <1>3 DEF p

-----------------------------------------------------------------------------
(* Types.                                                                  *)

\* What forwarding adds to the queue.
LEMMA ForwardType ==
  ASSUME TypeOK, queue # <<>>, Head(queue).hops # 0,
         NEW to \in Orders(Neighbours(Head(queue).to) \ {Head(queue).from})
  PROVE  Forward(Head(queue), to) \in Seq(Delivery)
<1> DEFINE d == Head(queue)
           new == [i \in DOMAIN to |-> [from |-> d.to, to |-> to[i], hops |-> d.hops - 1]]
<1>1. d \in Delivery /\ Tail(queue) \in Seq(Delivery)
  BY DEF TypeOK
<1>2. d.to \in Node /\ d.hops - 1 \in Nat
  BY <1>1 DEF Delivery
<1>3. \A i \in DOMAIN to : to[i] \in Node
  BY DEF Orders, Neighbours
<1>4. DOMAIN to = 1 .. Cardinality(Neighbours(d.to) \ {d.from})
  BY DEF Orders
<1>5. Cardinality(Neighbours(d.to) \ {d.from}) \in Nat
  <2>1. IsFiniteSet(Neighbours(d.to) \ {d.from})
    BY MeshAssumption, FS_Subset DEF Neighbours
  <2> QED BY <2>1, FS_CardinalityType
<1>6. new \in Seq(Delivery)
  <2>1. \A i \in DOMAIN to : new[i] \in Delivery
    BY <1>2, <1>3 DEF Delivery
  <2>2. PICK n \in Nat : DOMAIN to = 1 .. n
    BY <1>4, <1>5
  <2>3. DOMAIN new = 1 .. n
    BY <2>2
  <2>4. new = [i \in 1 .. n |-> new[i]]
    BY <2>2
  <2> HIDE DEF new
  <2>5. new \in [1 .. n -> Delivery]
    BY <2>1, <2>2, <2>4
  <2> QED BY <2>2, <2>5
<1> QED BY <1>1, <1>6 DEF Forward

\* MeshGossip: type correctness; the links always join nodes of the simulator.
THEOREM TypeCorrect == Spec => []TypeOK
<1>1. Init => TypeOK
  <2> SUFFICES ASSUME Init PROVE TypeOK
    OBVIOUS
  <2>1. links \subseteq Pair /\ \A p \in links : p \subseteq nodes
    BY DEF Init, Pair
  <2> QED BY <2>1 DEF Init, TypeOK
<1>2. TypeOK /\ [Next]_vars => TypeOK'
  <2> SUFFICES ASSUME TypeOK, [Next]_vars PROVE TypeOK'
    OBVIOUS
  <2>0. \A n \in Node : Prune(cache[n], now) \in Seq(Entry)
    BY PruneKeepsLive DEF TypeOK
  <2>1. ASSUME NEW n \in Node, NEW key \in Key, NEW expires \in 1 .. MaxTime + 1,
               NEW hops \in 0 .. MaxHops, Publish(n, key, expires, hops)
        PROVE  TypeOK'
    <3>1. expires \in Nat /\ hops \in Nat
      BY MeshAssumption
    <3>2. [from |-> None, to |-> n, hops |-> hops] \in Delivery
      BY <3>1 DEF Delivery
    <3>3. queue' \in Seq(Delivery)
      BY <2>1, <3>2 DEF Publish
    <3>4. trip' \in Envelope /\ trip' # None
      BY <2>1, <3>1, MeshAssumption DEF Publish, Envelope, TypeOK
    <3> QED BY <2>1, <3>3, <3>4 DEF Publish, TypeOK
  <2>2. ASSUME AcceptDuplicate PROVE TypeOK'
    <3>1. Head(queue).to \in Node /\ Tail(queue) \in Seq(Delivery)
      <4>1. queue # <<>> /\ queue \in Seq(Delivery)
        BY <2>2 DEF AcceptDuplicate, TypeOK
      <4>2. Head(queue) \in Delivery /\ Tail(queue) \in Seq(Delivery)
        BY <4>1
      <4> QED BY <4>2 DEF Delivery
    <3>2. cache' \in [Node -> Seq(Entry)]
      BY <2>0, <2>2, <3>1 DEF AcceptDuplicate, TypeOK
    <3> QED BY <2>2, <3>1, <3>2 DEF AcceptDuplicate, TypeOK
  <2>3. ASSUME AcceptNew PROVE TypeOK'
    <3> DEFINE d == Head(queue)
    <3>1. d \in Delivery /\ d.to \in Node /\ d.hops \in Nat /\ Tail(queue) \in Seq(Delivery)
      <4>1. queue # <<>> /\ queue \in Seq(Delivery)
        BY <2>3 DEF AcceptNew, TypeOK
      <4>2. d \in Delivery /\ Tail(queue) \in Seq(Delivery)
        BY <4>1
      <4> QED BY <4>2 DEF Delivery
    <3>2. [key |-> trip.key, expires |-> trip.expires] \in Entry /\ trip # None
      BY <2>3 DEF AcceptNew, TypeOK, Envelope, Entry
    <3>3. cache' = [cache EXCEPT ![d.to] = Append(Prune(cache[d.to], now),
                      [key |-> trip.key, expires |-> trip.expires])]
      BY <2>3 DEF AcceptNew
    <3>4. cache' \in [Node -> Seq(Entry)]
      BY <2>0, <3>1, <3>2, <3>3 DEF TypeOK
    <3>5. queue' \in Seq(Delivery)
      BY <2>3, <3>1, ForwardType DEF AcceptNew
    <3>6. reached' \subseteq Node \X Nat
      BY <2>3, <3>1 DEF AcceptNew, TypeOK
    <3> QED BY <2>3, <3>2, <3>4, <3>5, <3>6 DEF AcceptNew, TypeOK
  <2>4. ASSUME NEW t \in 0 .. MaxTime, SetNow(t) PROVE TypeOK'
    <3>1. t \in Nat
      OBVIOUS
    <3>2. cache' \in [Node -> Seq(Entry)]
      BY <2>4, <3>1, PruneKeepsLive DEF SetNow, TypeOK
    <3> QED BY <2>4, <3>1, <3>2 DEF SetNow, TypeOK
  <2>5. ASSUME NEW a \in Node, NEW b \in Node, Link(a, b) \/ Unlink(a, b) PROVE TypeOK'
    <3>1. {a, b} \in Pair /\ {a, b} \subseteq nodes
      BY <2>5 DEF Link, Unlink, Pair
    <3>2. links' \subseteq Pair /\ \A p \in links' : p \subseteq nodes'
      <4>1. links' \subseteq links \cup {{a, b}} /\ nodes' = nodes
        BY <2>5 DEF Link, Unlink
      <4> QED BY <3>1, <4>1, Zenon DEF TypeOK
    <3> QED BY <2>5, <3>2 DEF Link, Unlink, Change, TypeOK
  <2>6. ASSUME NEW n \in Node, RemoveNode(n) PROVE TypeOK'
    <3>1. cache' \in [Node -> Seq(Entry)]
      BY <2>6 DEF RemoveNode, TypeOK
    <3>2. links' \subseteq Pair /\ \A p \in links' : p \subseteq nodes'
      BY <2>6 DEF RemoveNode, TypeOK
    <3> QED BY <2>6, <3>1, <3>2 DEF RemoveNode, Change, TypeOK
  <2>7. ASSUME NEW n \in Node, AddNode(n) PROVE TypeOK'
    BY <2>7 DEF AddNode, Change, TypeOK
  <2>8. CASE UNCHANGED vars
    BY <2>8 DEF vars, TypeOK
  <2> QED BY <2>1, <2>2, <2>3, <2>4, <2>5, <2>6, <2>7, <2>8 DEF Next
<1> QED BY <1>1, <1>2, PTL DEF Spec

-----------------------------------------------------------------------------
(* Flooding.                                                               *)

Has(n) == \E s \in reached : s[1] = n

\* Who knows the envelope: the nodes that knew it before, and the reached.
Remembering ==
  /\ trip.expires > now /\ trip.fresh \subseteq nodes
  /\ \A n \in nodes :
       Knows(Prune(cache[n], now), trip.key) <=> n \notin trip.fresh \/ Has(n)

\* The queue holds at most two generations, the older one in front.
Sorted ==
  \A i, j \in DOMAIN queue :
    i <= j => queue[j].hops <= queue[i].hops /\ queue[i].hops <= queue[j].hops + 1

\* Nothing that waits has more hops left than what was accepted.
Ahead == \A r \in reached : \A i \in DOMAIN queue : r[2] >= queue[i].hops

\* The neighbours of the reached have been served well enough, or will be.
Covered ==
  \A r \in reached : r[2] > 0 =>
    \A m \in Neighbours(r[1]) \cap trip.fresh :
      \/ \E s \in reached : s[1] = m /\ s[2] >= r[2] - 1
      \/ \E i \in DOMAIN queue : queue[i].to = m /\ queue[i].hops = r[2] - 1

\* The one node a copy is not sent to is where it came from, one hop before.
CameFrom ==
  \A i \in DOMAIN queue : queue[i].from # None =>
    \E s \in reached : s[1] = queue[i].from /\ s[2] = queue[i].hops + 1

Flood == Remembering /\ Sorted /\ Ahead /\ Covered /\ CameFrom

\* What holds while a publish is under way.
Flooding == queue # <<>> => Flood

\* One delivery leaves the front; what is added goes one link and one hop on.
Advance ==
  /\ \A i \in DOMAIN queue : i > 1 => i - 1 \in DOMAIN queue' /\ queue'[i - 1] = queue[i]
  /\ \A i \in DOMAIN queue' :
       \/ i + 1 \in DOMAIN queue /\ queue'[i] = queue[i + 1]
       \/ /\ i >= Len(queue) /\ queue[1].hops > 0
          /\ queue'[i].hops = queue[1].hops - 1 /\ queue'[i].from = queue[1].to

\* What is added comes from the front, along a link.
OnLinks ==
  \A i \in DOMAIN queue' :
    \/ i + 1 \in DOMAIN queue /\ queue'[i] = queue[i + 1]
    \/ queue'[i].from = queue[1].to /\ {queue'[i].from, queue'[i].to} \in links

LEMMA AdvanceTail ==
  ASSUME TypeOK, queue # <<>>, queue' = Tail(queue)
  PROVE  Advance /\ OnLinks
<1>1. queue \in Seq(Delivery)
  BY DEF TypeOK
<1> QED BY <1>1 DEF Advance, OnLinks

LEMMA AdvanceForward ==
  ASSUME TypeOK, queue # <<>>, Head(queue).hops # 0,
         NEW to \in Orders(Neighbours(Head(queue).to) \ {Head(queue).from}),
         queue' = Forward(Head(queue), to)
  PROVE  /\ Advance /\ OnLinks
         /\ \A m \in Neighbours(Head(queue).to) \ {Head(queue).from} :
              \E i \in DOMAIN queue' :
                queue'[i].to = m /\ queue'[i].hops = Head(queue).hops - 1
<1> DEFINE d == Head(queue)
           new == [i \in DOMAIN to |-> [from |-> d.to, to |-> to[i], hops |-> d.hops - 1]]
           S == Neighbours(d.to) \ {d.from}
<1>1. queue \in Seq(Delivery) /\ d = queue[1] /\ d \in Delivery /\ Len(queue) > 0
  BY DEF TypeOK
<1>2. d.hops \in Nat /\ d.hops > 0
  BY <1>1 DEF Delivery
<1>3. IsFiniteSet(S)
  BY MeshAssumption, FS_Subset DEF Neighbours
<1>4. PICK n \in Nat : DOMAIN to = 1 .. n
  BY <1>3, FS_CardinalityType DEF Orders
<1>5. new \in Seq(Delivery) /\ Len(new) = n
  <2>1. \A i \in 1 .. n : new[i] \in Delivery
    <3>1. \A i \in 1 .. n : to[i] \in Node
      BY <1>4 DEF Orders, Neighbours
    <3>2. d.to \in Node /\ d.hops - 1 \in Nat
      BY <1>1, <1>2 DEF Delivery
    <3> QED BY <1>4, <3>1, <3>2 DEF Delivery
  <2>2. new = [i \in 1 .. n |-> new[i]]
    BY <1>4
  <2> HIDE DEF new
  <2> QED BY <2>1, <2>2
<1>6. \A i \in 1 .. n : new[i].from = d.to /\ new[i].to = to[i] /\ new[i].hops = d.hops - 1
  BY <1>4
<1>7. queue' = Tail(queue) \o new
  BY DEF Forward
<1> HIDE DEF new
<1>8. /\ DOMAIN queue' = 1 .. Len(queue) - 1 + n
      /\ \A i \in 1 .. Len(queue) - 1 : queue'[i] = queue[i + 1]
      /\ \A i \in 1 .. n : queue'[Len(queue) - 1 + i] = new[i]
  <2> DEFINE rest == Tail(queue)
  <2>1. /\ rest \in Seq(Delivery) /\ Len(rest) = Len(queue) - 1
        /\ \A i \in 1 .. Len(rest) : rest[i] = queue[i + 1]
    BY <1>1
  <2> HIDE DEF rest
  <2>2. queue' = rest \o new
    BY <1>7 DEF rest
  <2>3. /\ DOMAIN queue' = 1 .. Len(rest) + Len(new)
        /\ \A i \in 1 .. Len(rest) : queue'[i] = rest[i]
        /\ \A i \in 1 .. Len(new) : queue'[Len(rest) + i] = new[i]
    <3>1. /\ queue' \in Seq(Delivery) /\ Len(queue') = Len(rest) + Len(new)
          /\ \A i \in 1 .. Len(rest) + Len(new) :
               queue'[i] = IF i <= Len(rest) THEN rest[i] ELSE new[i - Len(rest)]
      <4>1. /\ rest \o new \in Seq(Delivery) /\ Len(rest \o new) = Len(rest) + Len(new)
            /\ \A i \in 1 .. Len(rest) + Len(new) :
                 (rest \o new)[i] = IF i <= Len(rest) THEN rest[i] ELSE new[i - Len(rest)]
        BY <1>5, <2>1, ConcatProperties, Zenon
      <4> QED BY <2>2, <4>1, Zenon
    <3>2. DOMAIN queue' = 1 .. Len(rest) + Len(new)
      BY <3>1
    <3>3. Len(rest) \in Nat /\ Len(new) \in Nat
      BY <1>5, <2>1
    <3>4. ASSUME NEW i \in 1 .. Len(rest) PROVE queue'[i] = rest[i]
      BY <3>1, <3>3
    <3>5. ASSUME NEW i \in 1 .. Len(new) PROVE queue'[Len(rest) + i] = new[i]
      <4>1. Len(rest) + i \in 1 .. Len(rest) + Len(new) /\ ~(Len(rest) + i <= Len(rest))
            /\ Len(rest) + i - Len(rest) = i
        BY <3>3
      <4> QED BY <3>1, <4>1
    <3> QED BY <3>2, <3>4, <3>5
  <2>4. Len(rest) \in Nat
    BY <2>1
  <2> QED BY <1>5, <2>1, <2>3, <2>4
<1>9. Advance /\ OnLinks
  <2>1. \A i \in DOMAIN queue : i > 1 => i - 1 \in DOMAIN queue' /\ queue'[i - 1] = queue[i]
    <3> SUFFICES ASSUME NEW i \in DOMAIN queue, i > 1
                 PROVE  i - 1 \in DOMAIN queue' /\ queue'[i - 1] = queue[i]
      OBVIOUS
    <3>1. i \in Nat /\ i <= Len(queue) /\ Len(queue) \in Nat
      BY <1>1
    <3>2. i - 1 \in 1 .. Len(queue) - 1 + n /\ i - 1 \in 1 .. Len(queue) - 1 /\ i - 1 + 1 = i
      BY <3>1
    <3> QED BY <1>8, <3>2
  <2>2. ASSUME NEW i \in DOMAIN queue', ~(i + 1 \in DOMAIN queue /\ queue'[i] = queue[i + 1])
        PROVE  /\ i >= Len(queue) /\ queue[1].hops > 0
               /\ queue'[i].hops = queue[1].hops - 1 /\ queue'[i].from = queue[1].to
               /\ {queue'[i].from, queue'[i].to} \in links
    <3>1. i \in Len(queue) .. Len(queue) - 1 + n
      BY <1>1, <1>8, <2>2
    <3>2. PICK j \in 1 .. n : i = Len(queue) - 1 + j
      <4>1. Len(queue) \in Nat /\ i \in Nat
        BY <1>1, <3>1
      <4>2. i - Len(queue) + 1 \in 1 .. n /\ i = Len(queue) - 1 + (i - Len(queue) + 1)
        BY <1>1, <3>1, <4>1
      <4> QED BY <4>2
    <3>3. queue'[i] = new[j]
      BY <1>8, <3>2
    <3>4. to[j] \in Neighbours(d.to)
      BY <1>4 DEF Orders
    <3>5. {d.to, to[j]} \in links
      BY <3>4 DEF Neighbours
    <3>6. queue'[i].from = queue[1].to /\ queue'[i].to = to[j] /\ queue'[i].hops = queue[1].hops - 1
      BY <1>1, <1>6, <3>3
    <3>7. i >= Len(queue) /\ queue[1].hops > 0
      BY <1>1, <1>2, <3>1
    <3>8. {queue'[i].from, queue'[i].to} \in links
      BY <1>1, <3>5, <3>6
    <3> QED BY <3>6, <3>7, <3>8
  <2>3. Advance
    BY <2>1, <2>2 DEF Advance
  <2>4. OnLinks
    BY <2>2 DEF OnLinks
  <2> QED BY <2>3, <2>4
<1>10. ASSUME NEW m \in S
       PROVE  \E i \in DOMAIN queue' : queue'[i].to = m /\ queue'[i].hops = d.hops - 1
  <2>1. PICK j \in 1 .. n : to[j] = m
    BY <1>4, <1>10 DEF Orders
  <2>2. Len(queue) - 1 + j \in DOMAIN queue'
    BY <1>1, <1>8, <2>1
  <2> QED BY <1>6, <1>8, <2>1, <2>2
<1> QED BY <1>9, <1>10

LEMMA QueueShape ==
  ASSUME NEW q \in Seq(Delivery)
  PROVE  /\ \A i \in DOMAIN q : /\ i \in Nat /\ i >= 1 /\ i <= Len(q)
                               /\ q[i].hops \in Nat /\ q[i].to \in Node
         /\ q # <<>> => 1 \in DOMAIN q /\ Head(q) = q[1]
<1>1. \A i \in DOMAIN q : i \in Nat /\ i >= 1 /\ i <= Len(q) /\ q[i] \in Delivery
  OBVIOUS
<1>2. q # <<>> => 1 \in DOMAIN q /\ Head(q) = q[1]
  OBVIOUS
<1> QED BY <1>1, <1>2 DEF Delivery

\* The order of the queue survives, and with it who is ahead of whom.
LEMMA OrderKept ==
  ASSUME TypeOK, TypeOK', queue # <<>>, Sorted, Ahead, Advance,
         reached' \subseteq reached \cup {<<queue[1].to, queue[1].hops>>}
  PROVE  Sorted' /\ Ahead'
<1>1. /\ 1 \in DOMAIN queue /\ queue[1].hops \in Nat
      /\ \A i \in DOMAIN queue : i \in Nat /\ i >= 1 /\ i <= Len(queue) /\ queue[i].hops \in Nat
  <2>1. queue \in Seq(Delivery)
    BY DEF TypeOK
  <2> QED BY <2>1, QueueShape
<1>2. \A i \in DOMAIN queue' : i \in Nat /\ queue'[i].hops \in Nat
  <2>1. queue' \in Seq(Delivery)
    BY DEF TypeOK
  <2> QED BY <2>1, QueueShape
<1>3. \A i \in DOMAIN queue' :
        queue'[i].hops <= queue[1].hops /\ queue[1].hops <= queue'[i].hops + 1
  BY <1>1, <1>2 DEF Advance, Sorted
<1>4. Sorted'
  <2> SUFFICES ASSUME NEW i \in DOMAIN queue', NEW j \in DOMAIN queue', i <= j
               PROVE  queue'[j].hops <= queue'[i].hops /\ queue'[i].hops <= queue'[j].hops + 1
    BY DEF Sorted
  <2>1. CASE j + 1 \in DOMAIN queue /\ queue'[j] = queue[j + 1]
    <3>1. i + 1 \in DOMAIN queue /\ queue'[i] = queue[i + 1]
      BY <1>1, <1>2, <2>1 DEF Advance
    <3> QED BY <1>2, <2>1, <3>1 DEF Sorted
  <2>2. CASE queue'[j].hops = queue[1].hops - 1
    BY <1>1, <1>2, <1>3, <2>2
  <2> QED BY <2>1, <2>2 DEF Advance
<1>5. Ahead'
  <2> SUFFICES ASSUME NEW r \in reached', NEW i \in DOMAIN queue'
               PROVE  r[2] >= queue'[i].hops
    BY DEF Ahead
  <2>1. r[2] \in Nat /\ r[2] >= queue[1].hops
    BY <1>1 DEF Ahead, TypeOK
  <2> QED BY <1>1, <1>2, <1>3, <2>1
<1> QED BY <1>4, <1>5

\* What waited in the queue waits on, or was its head.
LEMMA WaitsOrHead ==
  ASSUME TypeOK, queue # <<>>, Advance,
         NEW i \in DOMAIN queue, i # 1
  PROVE  \E j \in DOMAIN queue' : queue'[j] = queue[i]
<1>1. i > 1
  BY DEF TypeOK
<1> QED BY <1>1 DEF Advance

LEMMA DuplicateFloods ==
  ASSUME TypeOK, TypeOK', Flood, AcceptDuplicate
  PROVE  Flood'
<1> DEFINE d == queue[1]
<1>0. /\ queue # <<>> /\ queue \in Seq(Delivery) /\ 1 \in DOMAIN queue /\ Head(queue) = d
      /\ d.to \in Node /\ d.hops \in Nat
  <2>1. queue # <<>> /\ queue \in Seq(Delivery)
    BY DEF AcceptDuplicate, TypeOK
  <2> QED BY <2>1, QueueShape
<1>1. /\ UNCHANGED <<nodes, links, now, trip, reached>> /\ queue' = Tail(queue)
      /\ cache' = [cache EXCEPT ![d.to] = Prune(cache[d.to], now)]
      /\ Knows(Prune(cache[d.to], now), trip.key)
  BY <1>0 DEF AcceptDuplicate
<1> HIDE DEF d
<1>2. Advance
  BY <1>0, <1>1, AdvanceTail
<1>3. Remembering'
  <2>1. \A n \in Node : cache[n] \in Seq(Entry)
    BY DEF TypeOK
  <2>2. \A n \in Node : Prune(cache'[n], now) = Prune(cache[n], now)
    <3>1. Prune(Prune(cache[d.to], now), now) = Prune(cache[d.to], now)
      BY <1>0, <2>1, PrunedTwice DEF TypeOK
    <3> QED BY <1>1, <3>1 DEF TypeOK
  <2>3. \A n \in nodes : Knows(Prune(cache'[n], now), trip.key) <=> n \notin trip.fresh \/ Has(n)
    BY <2>2 DEF Flood, Remembering, TypeOK
  <2> QED BY <1>1, <2>3 DEF Flood, Remembering, Has
<1>4. Sorted' /\ Ahead'
  BY <1>0, <1>1, <1>2, OrderKept DEF Flood
<1>5. Covered'
  <2> SUFFICES ASSUME NEW r \in reached, r[2] > 0, NEW m \in Neighbours(r[1]) \cap trip.fresh
               PROVE  \/ \E s \in reached : s[1] = m /\ s[2] >= r[2] - 1
                      \/ \E i \in DOMAIN queue' : queue'[i].to = m /\ queue'[i].hops = r[2] - 1
    BY <1>1 DEF Covered, Neighbours
  <2>1. CASE \E s \in reached : s[1] = m /\ s[2] >= r[2] - 1
    BY <2>1
  <2>2. CASE \E i \in DOMAIN queue : queue[i].to = m /\ queue[i].hops = r[2] - 1
    <3>1. PICK i \in DOMAIN queue : queue[i].to = m /\ queue[i].hops = r[2] - 1
      BY <2>2
    <3>2. CASE i = 1
      <4>1. m \in nodes /\ Knows(Prune(cache[m], now), trip.key)
        BY <1>1, <3>1, <3>2 DEF Flood, Remembering, d
      <4>2. PICK s \in reached : s[1] = m
        BY <4>1 DEF Flood, Remembering, Has
      <4>3. s[2] >= r[2] - 1
        BY <1>0, <3>1, <3>2 DEF Flood, Ahead
      <4> QED BY <4>2, <4>3
    <3>3. CASE i # 1
      BY <1>0, <1>2, <3>1, <3>3, WaitsOrHead
    <3> QED BY <3>2, <3>3
  <2> QED BY <2>1, <2>2 DEF Flood, Covered
<1>6. CameFrom'
  <2>1. \A i \in DOMAIN queue' : i + 1 \in DOMAIN queue /\ queue'[i] = queue[i + 1]
    BY <1>0, <1>1
  <2> QED BY <1>1, <2>1 DEF Flood, CameFrom
<1> QED BY <1>3, <1>4, <1>5, <1>6 DEF Flood

LEMMA NewFloods ==
  ASSUME TypeOK, TypeOK', Flood, AcceptNew
  PROVE  Flood'
<1> DEFINE d == queue[1]
           e == [key |-> trip.key, expires |-> trip.expires]
<1>0. /\ queue # <<>> /\ queue \in Seq(Delivery) /\ 1 \in DOMAIN queue /\ Head(queue) = d
      /\ d.to \in Node /\ d.hops \in Nat
  <2>1. queue # <<>> /\ queue \in Seq(Delivery)
    BY DEF AcceptNew, TypeOK
  <2> QED BY <2>1, QueueShape
<1>1. /\ UNCHANGED <<nodes, links, now, trip>>
      /\ cache' = [cache EXCEPT ![d.to] = Append(Prune(cache[d.to], now), e)]
      /\ reached' = reached \cup {<<d.to, d.hops>>}
      /\ IF d.hops = 0 THEN queue' = Tail(queue)
         ELSE \E to \in Orders(Neighbours(d.to) \ {d.from}) : queue' = Forward(d, to)
  BY <1>0 DEF AcceptNew
<1>2. Advance /\ (d.hops # 0 =>
        \A m \in Neighbours(d.to) \ {d.from} :
          \E i \in DOMAIN queue' : queue'[i].to = m /\ queue'[i].hops = d.hops - 1)
  <2> HIDE DEF d
  <2>1. CASE d.hops = 0
    BY <1>0, <1>1, <2>1, AdvanceTail
  <2>2. CASE d.hops # 0
    <3>1. PICK to \in Orders(Neighbours(d.to) \ {d.from}) : queue' = Forward(d, to)
      BY <1>1, <2>2
    <3>2. /\ Head(queue).hops # 0 /\ queue' = Forward(Head(queue), to)
          /\ to \in Orders(Neighbours(Head(queue).to) \ {Head(queue).from})
      BY <1>0, <2>2, <3>1
    <3>3. Advance /\ \A m \in Neighbours(Head(queue).to) \ {Head(queue).from} :
            \E i \in DOMAIN queue' :
              queue'[i].to = m /\ queue'[i].hops = Head(queue).hops - 1
      BY <1>0, <3>2, AdvanceForward
    <3> QED BY <1>0, <3>3
  <2> QED BY <2>1, <2>2
<1>3. Remembering'
  <2>1. e \in Entry /\ e.expires > now /\ now \in Nat
    BY <1>0 DEF Flood, Remembering, TypeOK, Envelope, Entry
  <2>2. \A n \in Node : cache[n] \in Seq(Entry)
    BY DEF TypeOK
  <2> HIDE DEF d, e
  <2>3. Prune(cache'[d.to], now) = Append(Prune(cache[d.to], now), e)
    <3>1. Prune(Append(Prune(cache[d.to], now), e), now) = Append(Prune(cache[d.to], now), e)
      BY <1>0, <2>1, <2>2, RememberedStays
    <3> QED BY <1>0, <1>1, <3>1 DEF TypeOK
  <2>4. Knows(Prune(cache'[d.to], now), trip.key)
    <3> DEFINE c == Prune(cache[d.to], now)
    <3>1. c \in Seq(Entry)
      BY <1>0, <2>1, <2>2, PruneKeepsLive
    <3> HIDE DEF c
    <3>2. Len(c) + 1 \in DOMAIN Append(c, e) /\ Append(c, e)[Len(c) + 1] = e
      BY <3>1, <2>1
    <3>3. e.key = trip.key
      BY DEF e
    <3> QED BY <2>3, <3>2, <3>3 DEF Knows, c
  <2>5. \A n \in Node \ {d.to} : cache'[n] = cache[n]
    BY <1>1 DEF TypeOK
  <2>6. \A n \in Node : Has(n)' <=> Has(n) \/ n = d.to
    <3>1. <<d.to, d.hops>>[1] = d.to
      OBVIOUS
    <3> QED BY <1>1, <3>1, Zenon DEF Has
  <2>7. \A n \in nodes : Knows(Prune(cache'[n], now), trip.key) <=> n \notin trip.fresh \/ Has(n)'
    BY <2>4, <2>5, <2>6 DEF Flood, Remembering, TypeOK
  <2> QED BY <1>1, <2>7 DEF Flood, Remembering
<1>4. Sorted' /\ Ahead'
  BY <1>0, <1>1, <1>2, OrderKept DEF Flood
<1>5. Covered'
  <2> SUFFICES ASSUME NEW r \in reached', r[2] > 0, NEW m \in Neighbours(r[1]) \cap trip.fresh
               PROVE  \/ \E s \in reached' : s[1] = m /\ s[2] >= r[2] - 1
                      \/ \E i \in DOMAIN queue' : queue'[i].to = m /\ queue'[i].hops = r[2] - 1
    BY <1>1 DEF Covered, Neighbours
  <2>1. CASE r \in reached /\ \E s \in reached : s[1] = m /\ s[2] >= r[2] - 1
    BY <1>1, <2>1
  <2>2. CASE r \in reached /\ \E i \in DOMAIN queue : queue[i].to = m /\ queue[i].hops = r[2] - 1
    <3>1. PICK i \in DOMAIN queue : queue[i].to = m /\ queue[i].hops = r[2] - 1
      BY <2>2
    <3>2. CASE i = 1
      <4>1. <<d.to, d.hops>> \in reached' /\ <<d.to, d.hops>>[1] = m
            /\ <<d.to, d.hops>>[2] = r[2] - 1
        BY <1>1, <3>1, <3>2
      <4>2. <<d.to, d.hops>>[2] >= r[2] - 1
        BY <1>0, <4>1
      <4> QED BY <4>1, <4>2
    <3>3. CASE i # 1
      BY <1>0, <1>2, <3>1, <3>3, WaitsOrHead
    <3> QED BY <3>2, <3>3
  <2>3. CASE r = <<d.to, d.hops>>
    <3>1. d.hops # 0 /\ m \in Neighbours(d.to) /\ r[2] = d.hops
      BY <1>0, <2>3
    <3>2. CASE m # d.from
      BY <1>2, <3>1, <3>2
    <3>3. CASE m = d.from
      <4>1. d.from # None
        BY <3>3, MeshAssumption DEF Neighbours
      <4>2. PICK s \in reached : s[1] = m /\ s[2] = d.hops + 1
        BY <1>0, <3>3, <4>1 DEF Flood, CameFrom
      <4>3. s[2] >= r[2] - 1
        BY <1>0, <3>1, <4>2
      <4> QED BY <1>1, <4>2, <4>3
    <3> QED BY <3>2, <3>3
  <2> QED BY <1>1, <2>1, <2>2, <2>3 DEF Flood, Covered
<1>6. CameFrom'
  <2> SUFFICES ASSUME NEW i \in DOMAIN queue', queue'[i].from # None
               PROVE  \E s \in reached' : s[1] = queue'[i].from /\ s[2] = queue'[i].hops + 1
    BY DEF CameFrom
  <2>1. CASE i + 1 \in DOMAIN queue /\ queue'[i] = queue[i + 1]
    BY <1>1, <2>1 DEF Flood, CameFrom
  <2>2. CASE queue'[i].hops = queue[1].hops - 1 /\ queue'[i].from = queue[1].to
    <3>1. <<d.to, d.hops>> \in reached' /\ <<d.to, d.hops>>[1] = queue'[i].from
          /\ <<d.to, d.hops>>[2] = d.hops
      BY <1>1, <2>2
    <3>2. d.hops = queue'[i].hops + 1
      BY <1>0, <2>2
    <3> QED BY <3>1, <3>2
  <2> QED BY <1>2, <2>1, <2>2 DEF Advance
<1> QED BY <1>3, <1>4, <1>5, <1>6 DEF Flood

\* A publish starts with its origin in the queue, and changes wait for its end.
LEMMA FloodingKept ==
  ASSUME TypeOK, TypeOK', Flooding, [Next]_vars
  PROVE  Flooding'
<1>1. ASSUME NEW n \in Node, NEW key \in Key, NEW expires \in 1 .. MaxTime + 1,
             NEW hops \in 0 .. MaxHops, Publish(n, key, expires, hops)
      PROVE  Flooding'
  <2>1. /\ trip'.expires = expires /\ expires > now /\ trip'.key = key
        /\ trip'.fresh = {m \in nodes : ~Knows(Prune(cache[m], now), key)}
        /\ queue' = <<[from |-> None, to |-> n, hops |-> hops]>> /\ reached' = {}
        /\ UNCHANGED <<nodes, links, now, cache>>
    BY <1>1 DEF Publish
  <2>2. Remembering'
    <3>1. trip'.expires > now' /\ trip'.fresh \subseteq nodes'
      BY <2>1
    <3>2. \A m \in nodes :
            Knows(Prune(cache[m], now), key) <=> m \notin trip'.fresh
      BY <2>1
    <3>3. \A m \in nodes' : Knows(Prune(cache'[m], now'), trip'.key) <=> m \notin trip'.fresh
      BY <2>1, <3>2
    <3>4. \A m : ~Has(m)'
      BY <2>1 DEF Has
    <3> QED BY <3>1, <3>3, <3>4 DEF Remembering
  <2>3. Ahead' /\ Covered'
    BY <2>1 DEF Ahead, Covered
  <2>4. Sorted' /\ CameFrom'
    <3>1. \A i \in DOMAIN queue' : i = 1 /\ queue'[i].from = None /\ queue'[i].hops = hops
      BY <2>1
    <3>2. hops \in Nat
      BY MeshAssumption
    <3> QED BY <3>1, <3>2 DEF Sorted, CameFrom
  <2> QED BY <2>2, <2>3, <2>4 DEF Flooding, Flood
<1>2. ASSUME AcceptDuplicate PROVE Flooding'
  BY <1>2, DuplicateFloods DEF AcceptDuplicate, Flooding
<1>3. ASSUME AcceptNew PROVE Flooding'
  BY <1>3, NewFloods DEF AcceptNew, Flooding
<1>4. ASSUME NEW t \in 0 .. MaxTime, SetNow(t) PROVE Flooding'
  BY <1>4 DEF SetNow, Flooding
<1>5. ASSUME NEW a \in Node, NEW b \in Node, Link(a, b) \/ Unlink(a, b) PROVE Flooding'
  BY <1>5 DEF Link, Unlink, Change, Flooding
<1>6. ASSUME NEW n \in Node, RemoveNode(n) \/ AddNode(n) PROVE Flooding'
  BY <1>6 DEF RemoveNode, AddNode, Change, Flooding
<1>7. CASE UNCHANGED vars
  <2>1. /\ queue' = queue /\ cache' = cache /\ nodes' = nodes /\ now' = now
        /\ trip' = trip /\ reached' = reached /\ links' = links
    BY <1>7 DEF vars
  <2>2. Remembering => Remembering'
    <3>1. \A n : Has(n)' <=> Has(n)
      BY <2>1 DEF Has
    <3> QED BY <2>1, <3>1 DEF Remembering
  <2>3. (Sorted => Sorted') /\ (Ahead => Ahead') /\ (CameFrom => CameFrom')
    BY <2>1 DEF Sorted, Ahead, CameFrom
  <2>4. Covered => Covered'
    BY <2>1 DEF Covered, Neighbours
  <2> QED BY <2>1, <2>2, <2>3, <2>4 DEF Flooding, Flood
<1> QED BY <1>1, <1>2, <1>3, <1>4, <1>5, <1>6, <1>7 DEF Next

\* MeshGossip: when publish returns, every neighbour of a node that accepted
\* the envelope with hops to spare has accepted it too, or knew it before,
\* whatever the graph, the caches and the order of the visits.
THEOREM FloodingIsComplete == Spec => FloodIsClosed
<1> DEFINE Closed == \A r \in reached' : r[2] > 0 =>
                       \A m \in Neighbours(r[1]) \cap trip.fresh :
                         \E s \in reached' : s[1] = m /\ s[2] >= r[2] - 1
<1>1. Init => Flooding
  BY DEF Init, Flooding
<1>2. TypeOK /\ TypeOK' /\ Flooding /\ [Next]_vars => Flooding'
  BY FloodingKept
<1>3. TypeOK /\ TypeOK' /\ Flooding /\ [Next]_vars =>
        [queue # <<>> /\ queue' = <<>> => Closed]_vars
  <2> SUFFICES ASSUME TypeOK, TypeOK', Flooding, [Next]_vars, queue # <<>>, queue' = <<>>
               PROVE  Closed
    OBVIOUS
  <2>1. AcceptDuplicate \/ AcceptNew
    BY DEF Next, Publish, SetNow, Link, Unlink, RemoveNode, AddNode, Change, vars
  <2>2. Covered' /\ links' = links /\ trip' = trip
    <3>1. Flood
      BY DEF Flooding
    <3>2. Flood'
      BY <2>1, <3>1, DuplicateFloods, NewFloods
    <3> QED BY <2>1, <3>2 DEF Flood, AcceptDuplicate, AcceptNew
  <2>3. DOMAIN queue' = {}
    OBVIOUS
  <2> QED BY <2>2, <2>3 DEF Covered, Neighbours
<1> QED BY <1>1, <1>2, <1>3, TypeCorrect, PTL DEF Spec, FloodIsClosed

-----------------------------------------------------------------------------
(* Distances: recursion over the hops.                                     *)

\* A set that has 0, and with a number its successor, up to n, has n: its
\* least counterexample would not be one.
LEMMA ReachesAll ==
  ASSUME NEW n \in Nat, NEW S, 0 \in S, \A i \in 0 .. n : i + 1 \in 0 .. n /\ i \in S => i + 1 \in S
  PROVE  n \in S
<1> DEFINE Missed == {i \in 0 .. n : i \notin S}
<1>1. SUFFICES ASSUME Missed # {} PROVE FALSE
  OBVIOUS
<1>2. Missed \subseteq Nat
  OBVIOUS
<1> HIDE DEF Missed
<1>3. PICK k \in Missed : \A j \in Missed : ~(j < k)
  BY <1>1, <1>2, HasLeast
<1>4. k \in 0 .. n /\ k \notin S /\ k # 0
  BY <1>3 DEF Missed
<1>5. k - 1 \in 0 .. n /\ k - 1 < k /\ (k - 1) + 1 = k
  BY <1>4
<1>6. k - 1 \in S
  BY <1>3, <1>5 DEF Missed
<1> QED BY <1>4, <1>5, <1>6

\* f starts at a and goes on by G, up to n.
Iterates(f, n, a, G) ==
  f[0] = a /\ \A i \in 0 .. n : i # 0 => f[i] = G[f[i - 1]]

LEMMA IterationExists ==
  ASSUME NEW V, NEW a \in V, NEW n \in Nat, NEW G \in [V -> V]
  PROVE  \E f \in [0 .. n -> V] : Iterates(f, n, a, G)
<1> DEFINE Good == {k \in 0 .. n : \E f \in [0 .. k -> V] : Iterates(f, k, a, G)}
<1>1. 0 \in Good
  <2>1. [i \in 0 .. 0 |-> a] \in [0 .. 0 -> V] /\ Iterates([i \in 0 .. 0 |-> a], 0, a, G)
    BY DEF Iterates
  <2> QED BY <2>1
<1>2. ASSUME NEW k \in 0 .. n, k + 1 \in 0 .. n, k \in Good PROVE k + 1 \in Good
  <2>1. PICK f \in [0 .. k -> V] : Iterates(f, k, a, G)
    BY <1>2
  <2> DEFINE g == [i \in 0 .. k + 1 |-> IF i = k + 1 THEN G[f[k]] ELSE f[i]]
  <2>2. f[k] \in V /\ G[f[k]] \in V
    BY <1>2
  <2>3. g \in [0 .. k + 1 -> V]
    BY <2>2
  <2>4. ASSUME NEW i \in 0 .. k + 1, i # 0
        PROVE  g[i] = G[g[i - 1]]
    <3>1. CASE i = k + 1
      BY <3>1
    <3>2. CASE i \in 0 .. k
      <4>1. f[i] = G[f[i - 1]]
        BY <2>1, <2>4, <3>2 DEF Iterates
      <4>2. i - 1 \in 0 .. k /\ g[i - 1] = f[i - 1]
        BY <2>4, <3>2
      <4> QED BY <3>2, <4>1, <4>2
    <3> QED BY <3>1, <3>2
  <2>5. g[0] = a
    BY <2>1 DEF Iterates
  <2>6. Iterates(g, k + 1, a, G)
    <3> HIDE DEF g
    <3> QED BY <2>4, <2>5 DEF Iterates
  <2> QED BY <1>2, <2>3, <2>6
<1> HIDE DEF Good
<1>3. n \in Good
  BY <1>1, <1>2, ReachesAll
<1> QED BY <1>3 DEF Good

LEMMA IterationUnique ==
  ASSUME NEW a, NEW G, NEW n \in Nat, NEW m \in Nat, n <= m, NEW f, NEW g,
         Iterates(f, n, a, G), Iterates(g, m, a, G)
  PROVE  f[n] = g[n]
<1> DEFINE Same == {i \in 0 .. n : f[i] = g[i]}
<1>1. 0 \in Same
  BY DEF Iterates
<1>2. ASSUME NEW i \in 0 .. n, i + 1 \in 0 .. n, i \in Same PROVE i + 1 \in Same
  <2>1. PICK j \in 1 .. n : j = i + 1 /\ j - 1 = i
    BY <1>2
  <2>2. j \in 0 .. n /\ j \in 0 .. m /\ j # 0
    BY <2>1
  <2>3. f[j] = G[f[j - 1]] /\ g[j] = G[g[j - 1]]
    BY <2>2 DEF Iterates
  <2> QED BY <1>2, <2>1, <2>3
<1> HIDE DEF Same
<1>3. n \in Same
  BY <1>1, <1>2, ReachesAll
<1> QED BY <1>3 DEF Same

LEMMA IterationForever ==
  ASSUME NEW V, NEW a \in V, NEW G \in [V -> V]
  PROVE  \E f \in [Nat -> V] : f[0] = a /\ \A i \in Nat : i # 0 => f[i] = G[f[i - 1]]
<1> DEFINE P(n, g) == g \in [0 .. n -> V] /\ Iterates(g, n, a, G)
           h == [n \in Nat |-> CHOOSE g : P(n, g)]
           f == [n \in Nat |-> h[n][n]]
<1>1. ASSUME NEW n \in Nat PROVE h[n] \in [0 .. n -> V] /\ Iterates(h[n], n, a, G)
  <2>1. \E g : P(n, g)
    BY IterationExists
  <2>2. P(n, CHOOSE g : P(n, g))
    BY <2>1, Zenon
  <2> QED BY <2>2
<1> HIDE DEF h
<1>2. f \in [Nat -> V]
  BY <1>1
<1>3. f[0] = a
  BY <1>1 DEF Iterates
<1>4. ASSUME NEW i \in Nat, i # 0 PROVE f[i] = G[f[i - 1]]
  <2>1. i - 1 \in Nat /\ i - 1 <= i /\ i \in 0 .. i
    BY <1>4
  <2>2. h[i][i] = G[h[i][i - 1]]
    BY <1>1, <1>4, <2>1 DEF Iterates
  <2>3. h[i - 1][i - 1] = h[i][i - 1]
    BY <1>1, <2>1, IterationUnique
  <2> QED BY <2>1, <2>2, <2>3
<1> HIDE DEF f
<1> QED BY <1>2, <1>3, <1>4

\* The ball of one more hop.
Wider(B) == B \cup {m \in trip.fresh : \E n \in B : {n, m} \in links}

LEMMA BallIs ==
  /\ Ball(0) = {trip.origin} \cap trip.fresh
  /\ \A k \in Nat : Ball(k) \subseteq trip.fresh /\ Ball(k + 1) = Wider(Ball(k))
<1> DEFINE V == SUBSET trip.fresh
           a == {trip.origin} \cap trip.fresh
           R(f) == f = [i \in Nat |-> IF i = 0 THEN {trip.origin} \cap trip.fresh
                         ELSE f[i - 1] \cup {m \in trip.fresh : \E n \in f[i - 1] : {n, m} \in links}]
           ball == CHOOSE f : R(f)
<1>1. \A k : Ball(k) = ball[k]
  BY DEF Ball
<1> DEFINE G == [B \in V |-> Wider(B)]
<1>2. G \in [V -> V] /\ a \in V /\ \A B \in V : G[B] = Wider(B)
  BY DEF Wider
<1>3. PICK f \in [Nat -> V] : f[0] = a /\ \A i \in Nat : i # 0 => f[i] = G[f[i - 1]]
  <2> HIDE DEF V, a, G
  <2> QED BY <1>2, IterationForever
<1>4. R(f)
  <2>1. \A i \in Nat : f[i] = IF i = 0 THEN a ELSE Wider(f[i - 1])
    <3> SUFFICES ASSUME NEW i \in Nat PROVE f[i] = IF i = 0 THEN a ELSE Wider(f[i - 1])
      OBVIOUS
    <3> HIDE DEF V, a, G
    <3>1. i # 0 => f[i - 1] \in V
      OBVIOUS
    <3> QED BY <1>2, <1>3, <3>1
  <2>2. f = [i \in Nat |-> IF i = 0 THEN a ELSE Wider(f[i - 1])]
    <3> HIDE DEF V, a, G
    <3> QED BY <2>1
  <2> QED BY <2>2 DEF Wider
<1>5. R(ball)
  BY <1>4
<1> HIDE DEF ball
<1>6. ASSUME NEW i \in Nat PROVE ball[i] = IF i = 0 THEN a ELSE Wider(ball[i - 1])
  <2> DEFINE e(g, j) == IF j = 0 THEN a ELSE Wider(g[j - 1])
  <2>1. ball = [j \in Nat |-> e(ball, j)]
    BY <1>5 DEF Wider
  <2> HIDE DEF e
  <2>2. ball[i] = e(ball, i)
    BY <2>1
  <2> QED BY <2>2 DEF e
<1>7. ball[0] = a /\ \A k \in Nat : ball[k + 1] = Wider(ball[k])
  <2>1. ball[0] = a
    BY <1>6
  <2>2. ASSUME NEW k \in Nat PROVE ball[k + 1] = Wider(ball[k])
    <3>1. PICK j \in Nat : j = k + 1 /\ j - 1 = k /\ j # 0
      OBVIOUS
    <3>2. ball[j] = Wider(ball[j - 1])
      BY <1>6, <3>1
    <3> QED BY <3>1, <3>2
  <2> QED BY <2>1, <2>2
<1>8. ASSUME NEW n \in Nat PROVE ball[n] \subseteq trip.fresh
  <2> DEFINE Fine == {i \in 0 .. n : ball[i] \subseteq trip.fresh}
  <2>1. 0 \in Fine
    BY <1>7
  <2>2. ASSUME NEW i \in 0 .. n, i + 1 \in 0 .. n, i \in Fine PROVE i + 1 \in Fine
    BY <1>7, <2>2 DEF Wider
  <2> HIDE DEF Fine
  <2>3. n \in Fine
    BY <2>1, <2>2, ReachesAll
  <2> QED BY <2>3 DEF Fine
<1> QED BY <1>1, <1>7, <1>8

\* More hops reach no fewer.
LEMMA BallGrows ==
  ASSUME NEW i \in Nat, NEW j \in Nat, i <= j
  PROVE  Ball(i) \subseteq Ball(j)
<1> DEFINE n == j - i
           Fine == {k \in 0 .. n : Ball(i) \subseteq Ball(i + k)}
<1>1. n \in Nat /\ i + n = j
  OBVIOUS
<1>2. 0 \in Fine
  BY <1>1
<1>3. ASSUME NEW k \in 0 .. n, k + 1 \in 0 .. n, k \in Fine PROVE k + 1 \in Fine
  <2>1. i + k \in Nat /\ (i + k) + 1 = i + (k + 1)
    BY <1>1
  <2>2. Ball((i + k) + 1) = Wider(Ball(i + k))
    BY <2>1, BallIs
  <2>3. Ball(i + k) \subseteq Ball(i + (k + 1))
    BY <2>1, <2>2 DEF Wider
  <2> QED BY <1>3, <2>3
<1> HIDE DEF Fine, n
<1>4. n \in Fine
  BY <1>1, <1>2, <1>3, ReachesAll
<1> QED BY <1>1, <1>4 DEF Fine

-----------------------------------------------------------------------------
(* Flooding by distance.                                                   *)

\* How far a node is from the origin: the balls of the envelope under way.
Balls == [k \in Nat |-> Ball(k)]

\* Whoever accepted has the hops left that its distance leaves.
Shortest ==
  \A r \in reached :
    /\ r[2] <= trip.hops /\ r[1] \in Balls[trip.hops - r[2]]
    /\ r[2] < trip.hops => r[1] \notin Balls[trip.hops - r[2] - 1]

\* A copy starts at the origin or has come along a link.
Traced ==
  \A i \in DOMAIN queue :
    IF queue[i].from = None THEN queue[i].to = trip.origin /\ queue[i].hops = trip.hops
                            ELSE {queue[i].from, queue[i].to} \in links

\* The origin accepts first, unless it knew the envelope.
Rooted ==
  /\ trip.origin \in nodes
  /\ trip.origin \in trip.fresh =>
       \/ <<trip.origin, trip.hops>> \in reached
       \/ \E i \in DOMAIN queue : queue[i].to = trip.origin /\ queue[i].hops = trip.hops

Breadth == Shortest /\ Traced /\ Rooted

\* What holds while a publish is under way.
Widening == queue # <<>> => Breadth

\* The balls, as a function.
LEMMA BallsAre ==
  /\ Balls[0] = {trip.origin} \cap trip.fresh
  /\ \A k \in Nat : Balls[k] = Ball(k) /\ Balls[k] \subseteq trip.fresh /\ Balls[k + 1] = Wider(Balls[k])
<1>1. \A k \in Nat : Balls[k] = Ball(k)
  BY DEF Balls
<1>2. Balls[0] = {trip.origin} \cap trip.fresh
  BY <1>1, BallIs
<1>3. ASSUME NEW k \in Nat PROVE Balls[k] \subseteq trip.fresh /\ Balls[k + 1] = Wider(Balls[k])
  <2>1. Balls[k] = Ball(k) /\ Balls[k + 1] = Ball(k + 1)
    BY <1>1
  <2> QED BY <2>1, BallIs
<1> QED BY <1>1, <1>2, <1>3

LEMMA BallsStay == ASSUME trip' = trip, links' = links PROVE Balls' = Balls
<1>1. \A k : Ball(k)' = Ball(k)
  BY DEF Ball
<1> QED BY <1>1 DEF Balls

\* What the envelope of a trip is.
LEMMA TripIs ==
  ASSUME TypeOK, queue # <<>>
  PROVE  trip \in Envelope /\ trip.hops \in Nat /\ trip.origin \in Node /\ trip.fresh \subseteq Node
BY DEF TypeOK, Envelope

\* Once nothing waits with as many hops left, all nodes within k hops have
\* accepted, with no more hops spent than k: from ball to ball the neighbours
\* have been served.
LEMMA LayersFill ==
  ASSUME NEW R, NEW q, R \subseteq Node \X Nat, trip.hops \in Nat, trip.fresh \subseteq Node,
         trip.origin \in trip.fresh =>
           \/ <<trip.origin, trip.hops>> \in R
           \/ \E i \in DOMAIN q : q[i].hops = trip.hops,
         \A r \in R : r[2] > 0 =>
           \A m \in Neighbours(r[1]) \cap trip.fresh :
             \/ \E s \in R : s[1] = m /\ s[2] >= r[2] - 1
             \/ \E i \in DOMAIN q : q[i].hops = r[2] - 1,
         NEW k \in 0 .. trip.hops,
         \A i \in DOMAIN q : q[i].hops \in Nat /\ q[i].hops < trip.hops - k
  PROVE  \A m \in Balls[k] : \E s \in R : s[1] = m /\ s[2] >= trip.hops - k
<1> DEFINE Done == {j \in 0 .. k : \A m \in Balls[j] : \E s \in R : s[1] = m /\ s[2] >= trip.hops - j}
<1>1. 0 \in Done
  <2> SUFFICES ASSUME NEW m \in Balls[0] PROVE \E s \in R : s[1] = m /\ s[2] >= trip.hops - 0
    OBVIOUS
  <2>1. m = trip.origin /\ trip.origin \in trip.fresh
    BY BallsAre
  <2>2. <<trip.origin, trip.hops>> \in R
    BY <2>1
  <2>3. <<trip.origin, trip.hops>>[1] = m /\ <<trip.origin, trip.hops>>[2] >= trip.hops - 0
    BY <2>1
  <2> QED BY <2>2, <2>3
<1>2. ASSUME NEW j \in 0 .. k, j + 1 \in 0 .. k, j \in Done PROVE j + 1 \in Done
  <2> SUFFICES ASSUME NEW m \in Balls[j + 1]
               PROVE  \E s \in R : s[1] = m /\ s[2] >= trip.hops - (j + 1)
    BY <1>2
  <2>1. Balls[j + 1] = Wider(Balls[j]) /\ Balls[j] \subseteq trip.fresh
    BY BallsAre
  <2>2. CASE m \in Balls[j]
    <3>1. PICK s \in R : s[1] = m /\ s[2] >= trip.hops - j
      BY <1>2, <2>2
    <3>2. s[2] \in Nat
      OBVIOUS
    <3>3. s[2] >= trip.hops - (j + 1)
      BY <3>1, <3>2
    <3> QED BY <3>1, <3>3
  <2>3. CASE m \notin Balls[j]
    <3>1. m \in trip.fresh /\ \E n \in Balls[j] : {n, m} \in links
      BY <2>1, <2>3 DEF Wider
    <3>2. PICK n \in Balls[j] : {n, m} \in links
      BY <3>1
    <3>3. PICK r \in R : r[1] = n /\ r[2] >= trip.hops - j
      BY <1>2
    <3>4. r[2] \in Nat /\ r[2] > 0
      BY <1>2, <3>3
    <3>5. m \in Neighbours(r[1]) \cap trip.fresh
      BY <3>1, <3>2, <3>3 DEF Neighbours
    <3>6. \A i \in DOMAIN q : q[i].hops # r[2] - 1
      <4>1. trip.hops - k <= r[2] - 1
        BY <1>2, <3>3, <3>4
      <4> QED BY <3>4, <4>1
    <3>7. PICK s \in R : s[1] = m /\ s[2] >= r[2] - 1
      BY <3>4, <3>5, <3>6
    <3>8. s[2] \in Nat
      OBVIOUS
    <3>9. s[2] >= trip.hops - (j + 1)
      BY <3>3, <3>4, <3>7, <3>8
    <3> QED BY <3>7, <3>9
  <2> QED BY <2>2, <2>3
<1> HIDE DEF Done
<1>3. k \in Done
  BY <1>1, <1>2, ReachesAll
<1> QED BY <1>3 DEF Done

\* A copy for a node that had not seen the envelope arrives within its distance.
LEMMA HeadIsNear ==
  ASSUME TypeOK, queue # <<>>, Flood, Breadth
  PROVE  /\ queue[1].to \in nodes
         /\ queue[1].to \in trip.fresh =>
              /\ queue[1].hops <= trip.hops
              /\ queue[1].to \in Balls[trip.hops - queue[1].hops]
<1> DEFINE d == queue[1]
<1>1. 1 \in DOMAIN queue /\ d.to \in Node /\ d.hops \in Nat /\ trip.hops \in Nat
  <2>1. queue \in Seq(Delivery)
    BY DEF TypeOK
  <2> QED BY <2>1, QueueShape, TripIs
<1> HIDE DEF d
<1>2. CASE d.from = None
  <2>1. d.to = trip.origin /\ d.hops = trip.hops /\ d.to \in nodes
    BY <1>1, <1>2 DEF Breadth, Traced, Rooted, d
  <2>2. trip.hops - d.hops = 0
    BY <1>1, <2>1
  <2>3. d.to \in trip.fresh => d.to \in Balls[0]
    BY <2>1, BallsAre
  <2> QED BY <1>1, <2>1, <2>2, <2>3 DEF d
<1>3. CASE d.from # None
  <2>1. {d.from, d.to} \in links /\ d.to \in nodes
    <3>1. {d.from, d.to} \in links
      BY <1>1, <1>3 DEF Breadth, Traced, d
    <3> QED BY <3>1 DEF TypeOK
  <2>2. PICK s \in reached : s[1] = d.from /\ s[2] = d.hops + 1
    BY <1>1, <1>3 DEF Flood, CameFrom, d
  <2>3. s[2] <= trip.hops /\ d.from \in Balls[trip.hops - s[2]]
    BY <2>2 DEF Breadth, Shortest
  <2>4. PICK k \in Nat : k = trip.hops - s[2] /\ k + 1 = trip.hops - d.hops
    BY <1>1, <2>2, <2>3
  <2>5. Balls[k + 1] = Wider(Balls[k]) /\ d.from \in Balls[k]
    BY <2>3, <2>4, BallsAre
  <2>6. d.to \in trip.fresh => d.to \in Balls[k + 1]
    BY <2>1, <2>5 DEF Wider
  <2>7. d.hops <= trip.hops
    BY <1>1, <2>2, <2>3
  <2> QED BY <2>1, <2>4, <2>6, <2>7 DEF d
<1> QED BY <1>2, <1>3

\* Were it nearer, it would have been served already.
LEMMA HeadIsNoNearer ==
  ASSUME TypeOK, queue # <<>>, Flood, Breadth, ~Has(queue[1].to), queue[1].hops < trip.hops
  PROVE  queue[1].to \notin Balls[trip.hops - queue[1].hops - 1]
<1> DEFINE d == queue[1]
           k == trip.hops - d.hops - 1
<1>1. /\ 1 \in DOMAIN queue /\ d.hops \in Nat
      /\ \A i \in DOMAIN queue : i \in Nat /\ i >= 1 /\ queue[i].hops \in Nat
  <2>1. queue \in Seq(Delivery)
    BY DEF TypeOK
  <2> QED BY <2>1, QueueShape
<1>2. trip.hops \in Nat /\ trip.fresh \subseteq Node /\ reached \subseteq Node \X Nat
  BY TripIs DEF TypeOK
<1>3. \A i \in DOMAIN queue : queue[i].hops <= d.hops
  BY <1>1 DEF Flood, Sorted
<1> HIDE DEF d
<1>4. k \in 0 .. trip.hops /\ trip.hops - k = d.hops + 1
  BY <1>1, <1>2 DEF d
<1> HIDE DEF k
<1>5. \A i \in DOMAIN queue : queue[i].hops \in Nat /\ queue[i].hops < trip.hops - k
  BY <1>1, <1>3, <1>4
<1>6. trip.origin \in trip.fresh =>
        \/ <<trip.origin, trip.hops>> \in reached
        \/ \E i \in DOMAIN queue : queue[i].hops = trip.hops
  BY DEF Breadth, Rooted
<1>7. \A r \in reached : r[2] > 0 =>
        \A m \in Neighbours(r[1]) \cap trip.fresh :
          \/ \E s \in reached : s[1] = m /\ s[2] >= r[2] - 1
          \/ \E i \in DOMAIN queue : queue[i].hops = r[2] - 1
  BY DEF Flood, Covered
<1>8. \A m \in Balls[k] : \E s \in reached : s[1] = m /\ s[2] >= trip.hops - k
  BY <1>2, <1>4, <1>5, <1>6, <1>7, LayersFill
<1> QED BY <1>8 DEF Has, d, k
\* What arrives where the envelope is known takes nothing away.
LEMMA DuplicateWidens ==
  ASSUME TypeOK, TypeOK', Flood, Breadth, AcceptDuplicate
  PROVE  Breadth'
<1> DEFINE d == queue[1]
<1>1. /\ queue # <<>> /\ queue \in Seq(Delivery) /\ Head(queue) = d
      /\ UNCHANGED <<nodes, links, trip, reached>> /\ queue' = Tail(queue)
      /\ Knows(Prune(cache[d.to], now), trip.key)
  <2>1. queue # <<>> /\ queue \in Seq(Delivery)
    BY DEF AcceptDuplicate, TypeOK
  <2>2. Head(queue) = d
    BY <2>1
  <2> QED BY <2>1, <2>2 DEF AcceptDuplicate
<1>2. Advance /\ \A i \in DOMAIN queue' : i + 1 \in DOMAIN queue /\ queue'[i] = queue[i + 1]
  BY <1>1, AdvanceTail
<1>3. Shortest'
  BY <1>1, BallsStay DEF Breadth, Shortest
<1>4. Traced'
  BY <1>1, <1>2 DEF Breadth, Traced
<1>5. Rooted'
  <2>1. CASE \E i \in DOMAIN queue : i # 1 /\ queue[i].to = trip.origin /\ queue[i].hops = trip.hops
    <3>1. PICK i \in DOMAIN queue : i # 1 /\ queue[i].to = trip.origin /\ queue[i].hops = trip.hops
      BY <2>1
    <3>2. \E j \in DOMAIN queue' : queue'[j] = queue[i]
      BY <1>1, <1>2, <3>1, WaitsOrHead
    <3> QED BY <1>1, <3>1, <3>2 DEF Breadth, Rooted
  <2>2. CASE d.to = trip.origin /\ d.hops = trip.hops /\ trip.origin \in trip.fresh
    <3>1. 1 \in DOMAIN queue /\ Has(trip.origin)
      <4>1. trip.origin \in nodes
        BY DEF Breadth, Rooted
      <4> QED BY <1>1, <2>2, <4>1 DEF Flood, Remembering
    <3>2. PICK s \in reached : s[1] = trip.origin
      BY <3>1 DEF Has
    <3>3. s = <<trip.origin, s[2]>> /\ s[2] \in Nat
      BY <3>2 DEF TypeOK
    <3>4. s[2] <= trip.hops /\ s[2] >= trip.hops
      BY <2>2, <3>1 DEF Breadth, Shortest, Flood, Ahead
    <3>5. s[2] = trip.hops
      BY <1>1, <3>3, <3>4, TripIs
    <3> QED BY <1>1, <3>3, <3>5 DEF Breadth, Rooted
  <2>3. CASE trip.origin \notin trip.fresh \/ <<trip.origin, trip.hops>> \in reached
    BY <1>1, <2>3 DEF Breadth, Rooted
  <2> QED BY <2>1, <2>2, <2>3 DEF Breadth, Rooted
<1> QED BY <1>3, <1>4, <1>5 DEF Breadth

\* What is accepted is accepted at its distance, and goes on along links.
LEMMA NewWidens ==
  ASSUME TypeOK, TypeOK', Flood, Breadth, AcceptNew
  PROVE  Breadth'
<1> DEFINE d == queue[1]
<1>1. /\ queue # <<>> /\ queue \in Seq(Delivery) /\ 1 \in DOMAIN queue /\ Head(queue) = d
      /\ d.to \in Node /\ d.hops \in Nat
  <2>1. queue # <<>> /\ queue \in Seq(Delivery)
    BY DEF AcceptNew, TypeOK
  <2> QED BY <2>1, QueueShape
<1>2. /\ UNCHANGED <<nodes, links, trip>> /\ reached' = reached \cup {<<d.to, d.hops>>}
      /\ ~Knows(Prune(cache[d.to], now), trip.key)
      /\ IF d.hops = 0 THEN queue' = Tail(queue)
         ELSE \E to \in Orders(Neighbours(d.to) \ {d.from}) : queue' = Forward(d, to)
  BY <1>1 DEF AcceptNew
<1>3. Advance /\ OnLinks
  <2> HIDE DEF d
  <2>1. CASE d.hops = 0
    BY <1>1, <1>2, <2>1, AdvanceTail
  <2>2. CASE d.hops # 0
    <3>1. PICK to \in Orders(Neighbours(d.to) \ {d.from}) : queue' = Forward(d, to)
      BY <1>2, <2>2
    <3>2. /\ Head(queue).hops # 0 /\ queue' = Forward(Head(queue), to)
          /\ to \in Orders(Neighbours(Head(queue).to) \ {Head(queue).from})
      BY <1>1, <2>2, <3>1
    <3> QED BY <1>1, <3>2, AdvanceForward
  <2> QED BY <2>1, <2>2
<1>4. Balls' = Balls
  BY <1>2, BallsStay
<1>5. /\ d.to \in trip.fresh /\ ~Has(d.to)
      /\ d.hops <= trip.hops /\ d.to \in Balls[trip.hops - d.hops]
  <2>1. d.to \in nodes
    BY <1>1, HeadIsNear
  <2>2. d.to \in trip.fresh /\ ~Has(d.to)
    BY <1>2, <2>1 DEF Flood, Remembering
  <2> QED BY <1>1, <2>2, HeadIsNear
<1>6. d.hops < trip.hops => d.to \notin Balls[trip.hops - d.hops - 1]
  BY <1>1, <1>5, HeadIsNoNearer
<1> HIDE DEF d
<1>7. Shortest'
  <2> SUFFICES ASSUME NEW r \in reached'
               PROVE  /\ r[2] <= trip.hops /\ r[1] \in Balls[trip.hops - r[2]]
                      /\ r[2] < trip.hops => r[1] \notin Balls[trip.hops - r[2] - 1]
    BY <1>2, <1>4 DEF Shortest
  <2>1. CASE r \in reached
    BY <2>1 DEF Breadth, Shortest
  <2>2. CASE r = <<d.to, d.hops>>
    <3>1. r[1] = d.to /\ r[2] = d.hops
      BY <2>2
    <3> QED BY <1>5, <1>6, <3>1
  <2> QED BY <1>2, <2>1, <2>2
<1>8. Traced'
  <2> SUFFICES ASSUME NEW i \in DOMAIN queue'
               PROVE  IF queue'[i].from = None
                      THEN queue'[i].to = trip.origin /\ queue'[i].hops = trip.hops
                      ELSE {queue'[i].from, queue'[i].to} \in links
    BY <1>2 DEF Traced
  <2>1. CASE i + 1 \in DOMAIN queue /\ queue'[i] = queue[i + 1]
    BY <2>1 DEF Breadth, Traced
  <2>2. CASE queue'[i].from = queue[1].to /\ {queue'[i].from, queue'[i].to} \in links
    <3>1. queue'[i].from # None
      BY <1>1, <2>2, MeshAssumption DEF d
    <3> QED BY <2>2, <3>1
  <2> QED BY <1>3, <2>1, <2>2 DEF OnLinks
<1>9. Rooted'
  <2>1. CASE \E i \in DOMAIN queue : i # 1 /\ queue[i].to = trip.origin /\ queue[i].hops = trip.hops
    <3>1. PICK i \in DOMAIN queue : i # 1 /\ queue[i].to = trip.origin /\ queue[i].hops = trip.hops
      BY <2>1
    <3>2. \E j \in DOMAIN queue' : queue'[j] = queue[i]
      BY <1>1, <1>3, <3>1, WaitsOrHead
    <3> QED BY <1>2, <3>1, <3>2 DEF Breadth, Rooted
  <2>2. CASE d.to = trip.origin /\ d.hops = trip.hops
    BY <1>2, <2>2 DEF Breadth, Rooted
  <2>3. CASE trip.origin \notin trip.fresh \/ <<trip.origin, trip.hops>> \in reached
    BY <1>2, <2>3 DEF Breadth, Rooted
  <2> QED BY <2>1, <2>2, <2>3 DEF Breadth, Rooted, d
<1> QED BY <1>7, <1>8, <1>9 DEF Breadth
\* A publish starts at its origin, and changes wait for its end.
LEMMA WideningKept ==
  ASSUME TypeOK, TypeOK', Flooding, Widening, [Next]_vars
  PROVE  Widening'
<1>1. ASSUME NEW n \in Node, NEW key \in Key, NEW expires \in 1 .. MaxTime + 1,
             NEW hops \in 0 .. MaxHops, Publish(n, key, expires, hops)
      PROVE  Widening'
  <2>1. /\ n \in nodes /\ nodes' = nodes /\ trip'.origin = n /\ trip'.hops = hops /\ reached' = {}
        /\ queue' = <<[from |-> None, to |-> n, hops |-> hops]>>
    BY <1>1 DEF Publish
  <2>2. /\ DOMAIN queue' = {1}
        /\ queue'[1].from = None /\ queue'[1].to = n /\ queue'[1].hops = hops
    BY <2>1
  <2>3. Shortest'
    BY <2>1 DEF Shortest
  <2>4. Traced' /\ Rooted'
    BY <2>1, <2>2 DEF Traced, Rooted
  <2> QED BY <2>3, <2>4 DEF Widening, Breadth
<1>2. ASSUME AcceptDuplicate PROVE Widening'
  <2>1. Flood /\ Breadth
    BY <1>2 DEF AcceptDuplicate, Flooding, Widening
  <2> QED BY <1>2, <2>1, DuplicateWidens DEF Widening
<1>3. ASSUME AcceptNew PROVE Widening'
  <2>1. Flood /\ Breadth
    BY <1>3 DEF AcceptNew, Flooding, Widening
  <2> QED BY <1>3, <2>1, NewWidens DEF Widening
<1>4. ASSUME NEW t \in 0 .. MaxTime, SetNow(t) PROVE Widening'
  BY <1>4 DEF SetNow, Widening
<1>5. ASSUME NEW a \in Node, NEW b \in Node, Link(a, b) \/ Unlink(a, b) PROVE Widening'
  BY <1>5 DEF Link, Unlink, Change, Widening
<1>6. ASSUME NEW n \in Node, RemoveNode(n) \/ AddNode(n) PROVE Widening'
  BY <1>6 DEF RemoveNode, AddNode, Change, Widening
<1>7. CASE UNCHANGED vars
  <2>1. /\ queue' = queue /\ nodes' = nodes /\ trip' = trip /\ reached' = reached
        /\ links' = links /\ Balls' = Balls
    BY <1>7, BallsStay DEF vars
  <2> QED BY <2>1 DEF Widening, Breadth, Shortest, Traced, Rooted
<1> QED BY <1>1, <1>2, <1>3, <1>4, <1>5, <1>6, <1>7 DEF Next

\* With an empty queue: who has accepted, and with how many hops left.
LEMMA AllAtTheirDistance ==
  ASSUME NEW R, R \subseteq Node \X Nat, trip.hops \in Nat, trip.fresh \subseteq Node,
         trip.origin \in trip.fresh => <<trip.origin, trip.hops>> \in R,
         \A r \in R : r[2] > 0 =>
           \A m \in Neighbours(r[1]) \cap trip.fresh : \E s \in R : s[1] = m /\ s[2] >= r[2] - 1,
         \A r \in R :
           /\ r[2] <= trip.hops /\ r[1] \in Balls[trip.hops - r[2]]
           /\ r[2] < trip.hops => r[1] \notin Balls[trip.hops - r[2] - 1]
  PROVE  R = {r \in Node \X (0 .. trip.hops) :
                /\ r[1] \in Ball(trip.hops - r[2])
                /\ r[2] < trip.hops => r[1] \notin Ball(trip.hops - r[2] - 1)}
<1> DEFINE AtDistance(r) == /\ r[1] \in Ball(trip.hops - r[2])
                            /\ r[2] < trip.hops => r[1] \notin Ball(trip.hops - r[2] - 1)
<1>1. ASSUME NEW r \in R PROVE r \in Node \X (0 .. trip.hops) /\ AtDistance(r)
  <2>1. r \in Node \X Nat /\ r[2] \in Nat /\ r[2] <= trip.hops
    OBVIOUS
  <2>2. trip.hops - r[2] \in Nat /\ (r[2] < trip.hops => trip.hops - r[2] - 1 \in Nat)
    BY <2>1
  <2>3. AtDistance(r)
    <3>1. Balls[trip.hops - r[2]] = Ball(trip.hops - r[2])
      BY <2>2, BallsAre
    <3>2. r[2] < trip.hops => Balls[trip.hops - r[2] - 1] = Ball(trip.hops - r[2] - 1)
      BY <2>2, BallsAre
    <3> QED BY <3>1, <3>2
  <2>4. r \in Node \X (0 .. trip.hops)
    BY <2>1
  <2> QED BY <2>3, <2>4
<1>2. ASSUME NEW r \in Node \X (0 .. trip.hops), AtDistance(r) PROVE r \in R
  <2>1. PICK k \in 0 .. trip.hops : k = trip.hops - r[2] /\ r[2] = trip.hops - k
    <3>1. r[2] \in 0 .. trip.hops
      OBVIOUS
    <3>2. trip.hops - r[2] \in 0 .. trip.hops /\ r[2] = trip.hops - (trip.hops - r[2])
      BY <3>1
    <3> QED BY <3>2
  <2>2. r[1] \in Balls[k]
    BY <1>2, <2>1, BallsAre
  <2>3. \A m \in Balls[k] : \E s \in R : s[1] = m /\ s[2] >= trip.hops - k
    <3> DEFINE q == <<>>
    <3>1. DOMAIN q = {}
      OBVIOUS
    <3> HIDE DEF q
    <3>2. /\ trip.origin \in trip.fresh =>
               \/ <<trip.origin, trip.hops>> \in R
               \/ \E i \in DOMAIN q : q[i].hops = trip.hops
          /\ \A r0 \in R : r0[2] > 0 =>
               \A m \in Neighbours(r0[1]) \cap trip.fresh :
                 \/ \E s \in R : s[1] = m /\ s[2] >= r0[2] - 1
                 \/ \E i \in DOMAIN q : q[i].hops = r0[2] - 1
      OBVIOUS
    <3>3. \A i \in DOMAIN q : q[i].hops \in Nat /\ q[i].hops < trip.hops - k
      BY <3>1
    <3> QED BY <3>2, <3>3, LayersFill
  <2>4. PICK s \in R : s[1] = r[1] /\ s[2] >= r[2]
    BY <2>1, <2>2, <2>3
  <2>5. s \in Node \X Nat /\ s[2] \in Nat /\ r[2] \in Nat /\ s[2] <= trip.hops
    OBVIOUS
  <2>6. s[2] = r[2]
    <3> SUFFICES ASSUME s[2] > r[2] PROVE FALSE
      BY <2>4, <2>5
    <3>1. /\ trip.hops - s[2] \in Nat /\ trip.hops - r[2] - 1 \in Nat
          /\ trip.hops - s[2] <= trip.hops - r[2] - 1 /\ r[2] < trip.hops
      BY <2>5
    <3>2. Ball(trip.hops - s[2]) \subseteq Ball(trip.hops - r[2] - 1)
      BY <3>1, BallGrows
    <3>3. s[1] \in Ball(trip.hops - s[2])
      BY <1>1
    <3> QED BY <1>2, <2>4, <3>1, <3>2, <3>3
  <2>7. s = r
    BY <2>4, <2>5, <2>6
  <2> QED BY <2>7
<1> HIDE DEF AtDistance
<1>3. R = {r \in Node \X (0 .. trip.hops) : AtDistance(r)}
  BY <1>1, <1>2
<1> QED BY <1>3 DEF AtDistance

\* MeshGossip: when publish returns, exactly the nodes within the hop limit
\* that had not seen the envelope have accepted it, each with the hops left
\* that its distance from the origin leaves, whatever the graph, the caches,
\* the hop limit and the order of the visits.
THEOREM FloodingIsBreadthFirst == Spec => FloodIsBreadthFirst
<1> DEFINE AtDistance == {r \in Node \X (0 .. trip.hops) :
                            /\ r[1] \in Ball(trip.hops - r[2])
                            /\ r[2] < trip.hops => r[1] \notin Ball(trip.hops - r[2] - 1)}
<1>1. Init => Flooding /\ Widening
  BY DEF Init, Flooding, Widening
<1>2. TypeOK /\ TypeOK' /\ Flooding /\ Widening /\ [Next]_vars => Flooding' /\ Widening'
  BY FloodingKept, WideningKept
<1>3. TypeOK /\ TypeOK' /\ Flooding /\ Widening /\ [Next]_vars =>
        [queue # <<>> /\ queue' = <<>> => reached' = AtDistance]_vars
  <2> SUFFICES ASSUME TypeOK, TypeOK', Flooding, Widening, [Next]_vars,
                      queue # <<>>, queue' = <<>>
               PROVE  reached' = AtDistance
    OBVIOUS
  <2>1. AcceptDuplicate \/ AcceptNew
    BY DEF Next, Publish, SetNow, Link, Unlink, RemoveNode, AddNode, Change, vars
  <2>2. Flood /\ Breadth
    BY DEF Flooding, Widening
  <2>3. Flood' /\ Breadth' /\ links' = links /\ trip' = trip
    BY <2>1, <2>2, DuplicateFloods, NewFloods, DuplicateWidens, NewWidens
       DEF AcceptDuplicate, AcceptNew
  <2>4. DOMAIN queue' = {} /\ Balls' = Balls
    BY <2>3, BallsStay
  <2>5. trip.hops \in Nat /\ trip.fresh \subseteq Node /\ reached' \subseteq Node \X Nat
    BY TripIs DEF TypeOK
  <2>6. trip.origin \in trip.fresh => <<trip.origin, trip.hops>> \in reached'
    BY <2>3, <2>4 DEF Breadth, Rooted
  <2>7. \A r \in reached' : r[2] > 0 =>
          \A m \in Neighbours(r[1]) \cap trip.fresh :
            \E s \in reached' : s[1] = m /\ s[2] >= r[2] - 1
    BY <2>3, <2>4 DEF Flood, Covered, Neighbours
  <2>8. \A r \in reached' :
          /\ r[2] <= trip.hops /\ r[1] \in Balls[trip.hops - r[2]]
          /\ r[2] < trip.hops => r[1] \notin Balls[trip.hops - r[2] - 1]
    BY <2>3, <2>4 DEF Breadth, Shortest
  <2> QED BY <2>5, <2>6, <2>7, <2>8, AllAtTheirDistance
<1> QED BY <1>1, <1>2, <1>3, TypeCorrect, PTL DEF Spec, FloodIsBreadthFirst

\* MeshGossip: no step forgets what a node has seen before it expires.
THEOREM NothingIsForgotten == Spec => ForgetsOnlyExpired
<1> DEFINE Kept == \A n \in nodes' : \A i \in DOMAIN cache[n] :
                     cache[n][i].expires > now' =>
                       \E j \in DOMAIN cache'[n] : cache'[n][j] = cache[n][i]
<1>1. TypeOK /\ [Next]_vars => [Kept]_vars
  <2> SUFFICES ASSUME TypeOK, [Next]_vars PROVE [Kept]_vars
    OBVIOUS
  <2>0. now \in Nat /\ \A n \in Node : cache[n] \in Seq(Entry)
    BY DEF TypeOK
  <2>1. ASSUME AcceptDuplicate \/ AcceptNew PROVE Kept
    <3> DEFINE d == Head(queue)
               p == Prune(cache[d.to], now)
    <3>1. /\ nodes' = nodes /\ now' = now /\ d.to \in Node
          /\ \E e : cache' = [cache EXCEPT ![d.to] = p] \/ cache' = [cache EXCEPT ![d.to] = Append(p, e)]
      <4>1. queue # <<>> /\ queue \in Seq(Delivery)
        BY <2>1 DEF AcceptDuplicate, AcceptNew, TypeOK
      <4>2. d.to \in Node
        BY <4>1, QueueShape
      <4> QED BY <2>1, <4>2 DEF AcceptDuplicate, AcceptNew
    <3> HIDE DEF d
    <3>2. /\ p \in Seq(Entry)
          /\ \A i \in DOMAIN cache[d.to] : cache[d.to][i].expires > now =>
               \E j \in DOMAIN p : p[j] = cache[d.to][i]
      BY <2>0, <3>1, PruneKeepsLive
    <3> HIDE DEF p
    <3>3. \A e : \A j \in DOMAIN p : j \in DOMAIN Append(p, e) /\ Append(p, e)[j] = p[j]
      BY <3>2
    <3>4. \A j \in DOMAIN p : j \in DOMAIN cache'[d.to] /\ cache'[d.to][j] = p[j]
      <4>1. cache'[d.to] = p \/ \E e : cache'[d.to] = Append(p, e)
        BY <3>1 DEF TypeOK
      <4> QED BY <3>3, <4>1
    <3>5. \A n \in Node \ {d.to} : cache'[n] = cache[n]
      BY <3>1 DEF TypeOK
    <3> SUFFICES ASSUME NEW n \in nodes, NEW i \in DOMAIN cache[n], cache[n][i].expires > now
                 PROVE  \E j \in DOMAIN cache'[n] : cache'[n][j] = cache[n][i]
      BY <3>1
    <3>6. CASE n = d.to
      <4>1. PICK j \in DOMAIN p : p[j] = cache[n][i]
        BY <3>2, <3>6
      <4> QED BY <3>4, <3>6, <4>1
    <3>7. CASE n # d.to
      BY <3>5, <3>7 DEF TypeOK
    <3> QED BY <3>6, <3>7
  <2>2. ASSUME NEW t \in 0 .. MaxTime, SetNow(t) PROVE Kept
    <3>1. t \in Nat /\ nodes' \subseteq Node
      BY <2>2 DEF SetNow, TypeOK
    <3>2. \A n \in Node : \A i \in DOMAIN cache[n] : cache[n][i].expires > t =>
            \E j \in DOMAIN Prune(cache[n], t) : Prune(cache[n], t)[j] = cache[n][i]
      BY <2>0, <3>1, PruneKeepsLive
    <3>3. now' = t /\ \A n \in Node : cache'[n] = Prune(cache[n], t)
      BY <2>2 DEF SetNow
    <3> QED BY <3>1, <3>2, <3>3
  <2>3. CASE UNCHANGED <<cache>>
    BY <2>3
  <2>4. ASSUME NEW n \in Node, RemoveNode(n) PROVE Kept
    <3>1. \A m \in nodes' : cache'[m] = cache[m]
      BY <2>4 DEF RemoveNode, TypeOK
    <3> QED BY <3>1
  <2> QED BY <2>1, <2>2, <2>3, <2>4 DEF Next, Publish, Link, Unlink, AddNode, vars
<1> QED BY <1>1, TypeCorrect, PTL DEF Spec, ForgetsOnlyExpired
=============================================================================
