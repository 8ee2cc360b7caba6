------------------------------ MODULE HashRing ------------------------------
(***************************************************************************)
(* The consistent hash ring of src/hashring/consistent.h: every node has   *)
(* replicas_ points on a circle, and a key belongs to the node of the      *)
(* first point at or after the key's own hash.                             *)
(*                                                                         *)
(* The hash function is whatever function the ring was made with: it is    *)
(* chosen at the start and stays.  Only the points it gives to the         *)
(* replicas of the nodes are recorded; a key may hash to any point.        *)
(***************************************************************************)
EXTENDS Naturals, FiniteSets, Functions, WellFoundedInduction, TLAPS

CONSTANTS Nodes,      \* the nodes that come and go
          replicas_,  \* points of a node
          Circle      \* the number of values of a size_t

RingAssumption == replicas_ \in Nat \ {0} /\ Circle \in Nat \ {0}

VARIABLES hash_,  \* the hash function on the names of the replicas
          ring_,  \* the map from points to nodes
          nodes   \* auxiliary: the nodes added and not removed since

vars == <<hash_, ring_, nodes>>

Replicas == 0 .. replicas_ - 1
Points == 0 .. Circle - 1     \* what the hash function returns
EmptyRing == <<>>
NoNode == "EmptyRingException"

-----------------------------------------------------------------------------
PointsOf(n) == {hash_[n, r] : r \in Replicas}

AddNode(n) ==
    /\ ring_' = [p \in DOMAIN ring_ \cup PointsOf(n) |->
                    IF p \in PointsOf(n) THEN n ELSE ring_[p]]
    /\ nodes' = nodes \cup {n}
    /\ UNCHANGED hash_

\* Mutant: the points stay, without a node.
RemoveNode_Clears(n) ==
    /\ ring_' = [p \in DOMAIN ring_ |-> IF p \in PointsOf(n) THEN NoNode ELSE ring_[p]]
    /\ nodes' = nodes \ {n}
    /\ UNCHANGED hash_
RemoveNode(n) ==
    /\ ring_' = Restrict(ring_, DOMAIN ring_ \ PointsOf(n))
    /\ nodes' = nodes \ {n}
    /\ UNCHANGED hash_

\* The point ring_.lower_bound finds from h, or ring_.begin() after the last.
First(S) == CHOOSE p \in S : \A q \in S : p <= q

NextPoint(ring, h) ==
    LET after == {p \in DOMAIN ring : p >= h}
    IN  First(IF after = {} THEN DOMAIN ring ELSE after)

GetNode(ring, h) ==
    IF DOMAIN ring = {} THEN NoNode ELSE ring[NextPoint(ring, h)]

-----------------------------------------------------------------------------
(***************************************************************************)
(* No two names have the same hash.  The code assumes it: a name is the    *)
(* node's with the replica's number appended, and where two share a point, *)
(* removing one takes the point from the other.                            *)
(***************************************************************************)
Init ==
    /\ hash_ \in Injection(Nodes \X Replicas, Points)
    /\ ring_ = EmptyRing
    /\ nodes = {}

Next == \E n \in Nodes : AddNode(n) \/ RemoveNode(n)

Spec == Init /\ [][Next]_vars

-----------------------------------------------------------------------------
TypeOK ==
    /\ hash_ \in [Nodes \X Replicas -> Points]
    /\ ring_ \in [DOMAIN ring_ -> Nodes] /\ DOMAIN ring_ \subseteq Points
    /\ nodes \subseteq Nodes

(***************************************************************************)
(* The ring depends only on which nodes are in it, not on the order in     *)
(* which they came and went: clients that build it on their own agree      *)
(* (consistent.h:81 and 93).                                               *)
(***************************************************************************)
RingOfNodes ==
    ring_ = [p \in UNION {PointsOf(n) : n \in nodes} |->
                CHOOSE n \in nodes : p \in PointsOf(n)]

(***************************************************************************)
(* A key moves only to a node that was added or away from one that was     *)
(* removed: no cache loses a key to a node that was there before           *)
(* (consistent.h:103).                                                     *)
(***************************************************************************)
KeysStay ==
    \A h \in Points : GetNode(ring_, h) \in nodes =>
         LET from == GetNode(ring_, h)  to == GetNode(ring_', h)
         IN  to # from => to \in nodes' \ nodes \/ from \in nodes \ nodes'

Ahead(h, p) == IF p >= h THEN p - h ELSE p + Circle - h

(***************************************************************************)
(* A key belongs to the node whose point is the fewest steps ahead on the  *)
(* circle: the definition of the ring, which GetNode computes with         *)
(* lower_bound and a wrap-around (consistent.h:109-117).                   *)
(***************************************************************************)
NearestOwns ==
    \A h \in Points : nodes # {} =>
      \E n \in nodes, p \in Points :
        /\ p \in PointsOf(n) /\ GetNode(ring_, h) = n
        /\ \A m \in nodes : \A q \in PointsOf(m) : Ahead(h, p) <= Ahead(h, q)

-----------------------------------------------------------------------------
(***************************************************************************)
(* Proofs, for every set of nodes, every number of replicas and every size  *)
(* of the circle.  The invariant says what the ring holds: the points of the *)
(* nodes that are in it, each with its node.  Then the point that           *)
(* lower_bound finds, with the wrap-around, is the one that is the fewest    *)
(* steps ahead of the key, and there is only one.                           *)
(***************************************************************************)

AllPoints(N) == UNION {PointsOf(n) : n \in N}

RingHolds ==
    /\ DOMAIN ring_ = AllPoints(nodes)
    /\ ring_ = [p \in DOMAIN ring_ |-> ring_[p]]
    /\ \A n \in nodes : \A p \in PointsOf(n) : ring_[p] = n

IInv ==
    /\ hash_ \in Injection(Nodes \X Replicas, Points)
    /\ nodes \subseteq Nodes
    /\ RingHolds

-----------------------------------------------------------------------------
\* A set of natural numbers has a smallest element.
NatLess == {p \in Nat \X Nat : p[1] < p[2]}

LEMMA Smallest ==
    ASSUME NEW S \in SUBSET Nat, S # {}
    PROVE  \E m \in S : \A q \in S : m <= q
<1>1. IsWellFoundedOn(NatLess, Nat)
  <2>1. IsWellFoundedOn(OpToRel(<, Nat), Nat)
    BY NatLessThanWellFounded
  <2>2. OpToRel(<, Nat) = NatLess
    BY DEF OpToRel, NatLess
  <2> QED
    BY <2>1, <2>2
<1>2. PICK m \in S : \A q \in S : ~(<<q, m>> \in NatLess)
  BY <1>1, WFMin
<1>3. ASSUME NEW q \in S, ~(m <= q) PROVE FALSE
  <2>1. q \in Nat /\ m \in Nat /\ q < m
    BY <1>3
  <2>2. <<q, m>> \in NatLess
    BY <2>1 DEF NatLess
  <2> QED
    BY <1>2, <2>2
<1> QED
  BY <1>3

LEMMA FirstIsSmallest ==
    ASSUME NEW S \in SUBSET Nat, S # {}
    PROVE  First(S) \in S /\ \A q \in S : First(S) <= q
<1>1. \E m \in S : \A q \in S : m <= q
  BY Smallest
<1> QED
  BY <1>1 DEF First

-----------------------------------------------------------------------------
\* Different points are not the same number of steps ahead.
LEMMA AheadDiffers ==
    ASSUME RingAssumption, NEW h \in Points, NEW p \in Points, NEW q \in Points,
           Ahead(h, p) <= Ahead(h, q), Ahead(h, q) <= Ahead(h, p)
    PROVE  p = q
<1>1. Circle \in Nat /\ h \in Nat /\ p \in Nat /\ q \in Nat /\ h < Circle /\ p < Circle /\ q < Circle
  BY DEF RingAssumption, Points
<1> QED
  BY <1>1 DEF Ahead

\* lower_bound, or begin() after the last point: the nearest point ahead.
LEMMA NextIsNearest ==
    ASSUME RingAssumption, NEW h \in Points, NEW ring,
           DOMAIN ring \subseteq Points, DOMAIN ring # {}
    PROVE  /\ NextPoint(ring, h) \in DOMAIN ring
           /\ \A q \in DOMAIN ring : Ahead(h, NextPoint(ring, h)) <= Ahead(h, q)
<1> DEFINE D == DOMAIN ring
           after == {p \in D : p >= h}
<1>1. Circle \in Nat /\ h \in 0 .. Circle - 1 /\ \A q \in D : q \in 0 .. Circle - 1
  BY DEF RingAssumption, Points
<1>2. D \in SUBSET Nat /\ after \in SUBSET Nat
  BY <1>1
<1>3. CASE after = {}
  <2>1. NextPoint(ring, h) = First(D)
    BY <1>3 DEF NextPoint
  <2>2. First(D) \in D /\ \A q \in D : First(D) <= q
    BY <1>2, FirstIsSmallest
  <2>3. \A q \in D : q < h
    BY <1>1, <1>3
  <2>4. ASSUME NEW q \in D PROVE Ahead(h, First(D)) <= Ahead(h, q)
    <3>1. First(D) < h /\ q < h /\ First(D) <= q /\ First(D) \in Nat /\ q \in Nat /\ h \in Nat
      BY <1>1, <1>2, <2>2, <2>3
    <3> QED
      BY <1>1, <3>1 DEF Ahead
  <2> QED
    BY <2>1, <2>2, <2>4
<1>4. CASE after # {}
  <2>1. NextPoint(ring, h) = First(after)
    BY <1>4 DEF NextPoint
  <2>2. First(after) \in after /\ \A q \in after : First(after) <= q
    BY <1>2, <1>4, FirstIsSmallest
  <2>3. ASSUME NEW q \in D PROVE Ahead(h, First(after)) <= Ahead(h, q)
    <3> DEFINE f == First(after)
    <3>1. f \in 0 .. Circle - 1 /\ f >= h /\ q \in 0 .. Circle - 1
      BY <1>1, <2>2
    <3>2. q >= h => f <= q
      BY <2>2
    <3> HIDE DEF f
    <3> QED
      BY <1>1, <3>1, <3>2 DEF Ahead, f
  <2> QED
    BY <2>1, <2>2, <2>3
<1> QED
  BY <1>3, <1>4

\* ... and the only one.
LEMMA NextIsUnique ==
    ASSUME RingAssumption, NEW h \in Points, NEW ring,
           DOMAIN ring \subseteq Points, NEW p \in DOMAIN ring,
           \A q \in DOMAIN ring : Ahead(h, p) <= Ahead(h, q)
    PROVE  NextPoint(ring, h) = p
<1>1. /\ NextPoint(ring, h) \in DOMAIN ring
      /\ Ahead(h, NextPoint(ring, h)) <= Ahead(h, p)
  BY NextIsNearest
<1>2. Ahead(h, p) <= Ahead(h, NextPoint(ring, h))
  BY <1>1
<1> QED
  BY <1>1, <1>2, AheadDiffers

-----------------------------------------------------------------------------
\* The points of two nodes differ.
LEMMA PointsDiffer ==
    ASSUME IInv, NEW n \in Nodes, NEW m \in Nodes, NEW p \in PointsOf(n), p \in PointsOf(m)
    PROVE  n = m
<1>1. PICK r \in Replicas : p = hash_[n, r]
  BY DEF PointsOf
<1>2. PICK q \in Replicas : p = hash_[m, q]
  BY DEF PointsOf
<1>3. <<n, r>> = <<m, q>>
  BY <1>1, <1>2 DEF IInv, Injection, IsInjective
<1> QED
  BY <1>3

LEMMA PointsArePoints ==
    ASSUME IInv, NEW n \in Nodes
    PROVE  PointsOf(n) \subseteq Points
BY DEF IInv, Injection, PointsOf

LEMMA RingIsTyped ==
    ASSUME IInv
    PROVE  /\ DOMAIN ring_ \subseteq Points
           /\ \A p \in DOMAIN ring_ : ring_[p] \in nodes /\ p \in PointsOf(ring_[p])
<1>1. ASSUME NEW p \in DOMAIN ring_ PROVE p \in Points /\ ring_[p] \in nodes /\ p \in PointsOf(ring_[p])
  <2>1. PICK n \in nodes : p \in PointsOf(n)
    BY DEF IInv, RingHolds, AllPoints
  <2>2. ring_[p] = n
    BY <2>1 DEF IInv, RingHolds
  <2>3. p \in Points
    BY <2>1, PointsArePoints DEF IInv
  <2> QED
    BY <2>1, <2>2, <2>3
<1> QED
  BY <1>1

LEMMA HasPoints ==
    ASSUME RingAssumption, NEW n
    PROVE  PointsOf(n) # {}
<1>1. 0 \in Replicas
  BY DEF RingAssumption, Replicas
<1> QED
  BY <1>1 DEF PointsOf

-----------------------------------------------------------------------------
LEMMA InitialRing == Init => IInv
BY DEF Init, IInv, RingHolds, AllPoints, EmptyRing

LEMMA AddKeeps == ASSUME IInv, NEW n \in Nodes, AddNode(n) PROVE IInv'
<1>1. /\ ring_' = [p \in DOMAIN ring_ \cup PointsOf(n) |-> IF p \in PointsOf(n) THEN n ELSE ring_[p]]
      /\ nodes' = nodes \cup {n} /\ hash_' = hash_
  BY DEF AddNode
<1>2. \A m : PointsOf(m)' = PointsOf(m)
  BY <1>1 DEF PointsOf
<1>3. AllPoints(nodes') = AllPoints(nodes) \cup PointsOf(n)
  BY <1>1 DEF AllPoints
<1>4. DOMAIN ring_' = AllPoints(nodes')
  BY <1>1, <1>3 DEF IInv, RingHolds
<1>5. ASSUME NEW m \in nodes', NEW p \in PointsOf(m) PROVE ring_'[p] = m
  <2>1. CASE p \in PointsOf(n)
    <3>1. m = n
      BY <1>1, <1>5, <2>1, PointsDiffer DEF IInv
    <3> QED
      BY <1>1, <2>1, <3>1
  <2>2. CASE p \notin PointsOf(n)
    <3>1. m \in nodes /\ p \in DOMAIN ring_ /\ ring_[p] = m
      BY <1>1, <1>5, <2>2 DEF IInv, RingHolds, AllPoints
    <3> QED
      BY <1>1, <2>2, <3>1
  <2> QED
    BY <2>1, <2>2
<1>6. RingHolds'
  <2>1. AllPoints(nodes') = AllPoints(nodes)'
    BY <1>2 DEF AllPoints
  <2> QED
    BY <1>1, <1>2, <1>4, <1>5, <2>1 DEF RingHolds
<1> QED
  BY <1>1, <1>6 DEF IInv

LEMMA RemoveKeeps == ASSUME IInv, NEW n \in Nodes, RemoveNode(n) PROVE IInv'
<1>1. /\ ring_' = [p \in DOMAIN ring_ \ PointsOf(n) |-> ring_[p]]
      /\ nodes' = nodes \ {n} /\ hash_' = hash_
  BY DEF RemoveNode, Restrict
<1>2. \A m : PointsOf(m)' = PointsOf(m)
  BY <1>1 DEF PointsOf
<1>3. \A m \in nodes' : \A p \in PointsOf(m) : p \notin PointsOf(n)
  BY <1>1, PointsDiffer DEF IInv
<1>4. DOMAIN ring_' = AllPoints(nodes')
  <2>1. DOMAIN ring_' = AllPoints(nodes) \ PointsOf(n)
    BY <1>1 DEF IInv, RingHolds
  <2> QED
    BY <1>1, <1>3, <2>1 DEF AllPoints
<1>5. ASSUME NEW m \in nodes', NEW p \in PointsOf(m) PROVE ring_'[p] = m
  <2>1. p \in DOMAIN ring_ /\ p \notin PointsOf(n) /\ ring_[p] = m
    BY <1>1, <1>3, <1>5 DEF IInv, RingHolds, AllPoints
  <2> QED
    BY <1>1, <2>1
<1>6. RingHolds'
  <2>1. AllPoints(nodes') = AllPoints(nodes)'
    BY <1>2 DEF AllPoints
  <2> QED
    BY <1>1, <1>2, <1>4, <1>5, <2>1 DEF RingHolds
<1> QED
  BY <1>1, <1>6 DEF IInv

(* The ring is at every moment what Add and Remove (consistent.h:81, 93) make of the set of nodes. *)
THEOREM RingInvariant == Spec => []IInv
<1>1. Init => IInv
  BY InitialRing
<1>2. IInv /\ [Next]_vars => IInv'
  <2> SUFFICES ASSUME IInv, [Next]_vars PROVE IInv'
    OBVIOUS
  <2>1. ASSUME NEW n \in Nodes, AddNode(n) PROVE IInv'
    BY <2>1, AddKeeps
  <2>2. ASSUME NEW n \in Nodes, RemoveNode(n) PROVE IInv'
    BY <2>2, RemoveKeeps
  <2>3. CASE UNCHANGED vars
    <3>1. hash_' = hash_ /\ ring_' = ring_ /\ nodes' = nodes
      BY <2>3 DEF vars
    <3>2. \A m : PointsOf(m)' = PointsOf(m)
      BY <3>1 DEF PointsOf
    <3>3. AllPoints(nodes)' = AllPoints(nodes)
      BY <3>1, <3>2 DEF AllPoints
    <3>4. RingHolds'
      BY <3>1, <3>2, <3>3 DEF IInv, RingHolds
    <3> QED
      BY <3>1, <3>4 DEF IInv
  <2> QED
    BY <2>1, <2>2, <2>3 DEF Next
<1> QED
  BY <1>1, <1>2, PTL DEF Spec

-----------------------------------------------------------------------------
\* The ring maps points of the circle to nodes.
THEOREM RingTypes == Spec => []TypeOK
<1>1. IInv => TypeOK
  <2> SUFFICES ASSUME IInv PROVE TypeOK
    OBVIOUS
  <2>1. DOMAIN ring_ \subseteq Points /\ \A p \in DOMAIN ring_ : ring_[p] \in Nodes
    BY RingIsTyped DEF IInv
  <2>2. ring_ \in [DOMAIN ring_ -> Nodes]
    BY <2>1 DEF IInv, RingHolds
  <2>3. hash_ \in [Nodes \X Replicas -> Points] /\ nodes \subseteq Nodes
    BY DEF IInv, Injection
  <2> QED
    BY <2>1, <2>2, <2>3 DEF TypeOK
<1> QED
  BY <1>1, RingInvariant, PTL

\* The ring is a function of the set of nodes, in whatever order they came and went
\* (Add and Remove, consistent.h:81 and 93).
THEOREM RingIsOfNodes == Spec => []RingOfNodes
<1>1. IInv => RingOfNodes
  <2> SUFFICES ASSUME IInv PROVE RingOfNodes
    OBVIOUS
  <2>1. ASSUME NEW p \in DOMAIN ring_ PROVE ring_[p] = CHOOSE n \in nodes : p \in PointsOf(n)
    <3>1. ring_[p] \in nodes /\ p \in PointsOf(ring_[p])
      BY RingIsTyped
    <3>2. \A n \in nodes : p \in PointsOf(n) => n = ring_[p]
      BY DEF IInv, RingHolds
    <3> QED
      BY <3>1, <3>2
  <2>2. ring_ = [p \in DOMAIN ring_ |-> CHOOSE n \in nodes : p \in PointsOf(n)]
    BY <2>1 DEF IInv, RingHolds
  <2> QED
    BY <2>2 DEF IInv, RingHolds, AllPoints, RingOfNodes
<1> QED
  BY <1>1, RingInvariant, PTL

\* Get finds the node whose point is the fewest steps ahead of the key on the circle
\* (consistent.h:109).
THEOREM GetFindsNearest == ASSUME RingAssumption PROVE Spec => []NearestOwns
<1>1. IInv => NearestOwns
  <2> SUFFICES ASSUME IInv, NEW h \in Points, nodes # {}
               PROVE  \E n \in nodes, p \in Points :
                         /\ p \in PointsOf(n) /\ GetNode(ring_, h) = n
                         /\ \A m \in nodes : \A q \in PointsOf(m) : Ahead(h, p) <= Ahead(h, q)
    BY DEF NearestOwns
  <2>1. DOMAIN ring_ # {}
    BY HasPoints DEF IInv, RingHolds, AllPoints
  <2> DEFINE p == NextPoint(ring_, h)
  <2>2. p \in DOMAIN ring_ /\ \A q \in DOMAIN ring_ : Ahead(h, p) <= Ahead(h, q)
    BY <2>1, RingIsTyped, NextIsNearest
  <2>3. p \in Points /\ ring_[p] \in nodes /\ p \in PointsOf(ring_[p])
    BY <2>2, RingIsTyped
  <2>4. GetNode(ring_, h) = ring_[p]
    BY <2>1 DEF GetNode
  <2>5. \A m \in nodes : \A q \in PointsOf(m) : q \in DOMAIN ring_
    BY DEF IInv, RingHolds, AllPoints
  <2> HIDE DEF p
  <2> QED
    BY <2>2, <2>3, <2>4, <2>5
<1> QED
  BY <1>1, RingInvariant, PTL

\* No key moves between two nodes that stay: it moves only to a node that Add has brought
\* or away from one that Remove has taken (consistent.h:103).
THEOREM KeysMoveOnlyIfTheyMust == ASSUME RingAssumption PROVE Spec => [][KeysStay]_vars
<1>1. ASSUME IInv, NEW n \in Nodes, AddNode(n) PROVE KeysStay
  <2> SUFFICES ASSUME NEW h \in Points, GetNode(ring_, h) \in nodes,
                      GetNode(ring_', h) # GetNode(ring_, h)
               PROVE  GetNode(ring_', h) \in nodes' \ nodes
    BY DEF KeysStay
  <2>1. /\ ring_' = [p \in DOMAIN ring_ \cup PointsOf(n) |-> IF p \in PointsOf(n) THEN n ELSE ring_[p]]
        /\ DOMAIN ring_' = DOMAIN ring_ \cup PointsOf(n) /\ nodes' = nodes \cup {n}
    BY <1>1 DEF AddNode
  <2>2. DOMAIN ring_ \subseteq Points /\ DOMAIN ring_' \subseteq Points
    BY <1>1, <2>1, RingIsTyped, PointsArePoints
  <2>3. DOMAIN ring_ # {}
    BY <1>1, HasPoints DEF IInv, RingHolds, AllPoints
  <2>4. PICK p : /\ p = NextPoint(ring_', h) /\ p \in DOMAIN ring_'
                 /\ \A q \in DOMAIN ring_' : Ahead(h, p) <= Ahead(h, q)
    BY <2>1, <2>2, <2>3, NextIsNearest
  <2>5. GetNode(ring_', h) = ring_'[p]
    BY <2>1, <2>3, <2>4 DEF GetNode
  <2>6. CASE p \in DOMAIN ring_
    <3>1. NextPoint(ring_, h) = p
      BY <2>1, <2>2, <2>4, <2>6, NextIsUnique
    <3>2. GetNode(ring_, h) = ring_[p]
      BY <2>3, <3>1 DEF GetNode
    <3>3. ring_'[p] # ring_[p]
      BY <2>5, <3>2
    <3>4. p \in PointsOf(n) /\ ring_'[p] = n
      BY <2>1, <2>6, <3>3
    <3>5. ring_[p] \in nodes /\ p \in PointsOf(ring_[p])
      BY <1>1, <2>6, RingIsTyped
    <3>6. ring_[p] = n
      BY <1>1, <3>4, <3>5, PointsDiffer DEF IInv
    <3> QED
      BY <3>3, <3>4, <3>6
  <2>7. CASE p \notin DOMAIN ring_
    <3>1. p \in PointsOf(n) /\ ring_'[p] = n
      BY <2>1, <2>4, <2>7
    <3>2. n \notin nodes
      BY <1>1, <2>7, <3>1 DEF IInv, RingHolds, AllPoints
    <3> QED
      BY <2>1, <2>5, <3>1, <3>2
  <2> QED
    BY <2>6, <2>7
<1>2. ASSUME IInv, NEW n \in Nodes, RemoveNode(n) PROVE KeysStay
  <2> SUFFICES ASSUME NEW h \in Points, GetNode(ring_, h) \in nodes,
                      GetNode(ring_', h) # GetNode(ring_, h)
               PROVE  GetNode(ring_, h) \in nodes \ nodes'
    BY DEF KeysStay
  <2>1. /\ ring_' = [p \in DOMAIN ring_ \ PointsOf(n) |-> ring_[p]]
        /\ DOMAIN ring_' = DOMAIN ring_ \ PointsOf(n) /\ nodes' = nodes \ {n}
    BY <1>2 DEF RemoveNode, Restrict
  <2>2. DOMAIN ring_ \subseteq Points /\ DOMAIN ring_' \subseteq Points
    BY <1>2, <2>1, RingIsTyped
  <2>3. DOMAIN ring_ # {}
    BY <1>2, HasPoints DEF IInv, RingHolds, AllPoints
  <2>4. PICK p : /\ p = NextPoint(ring_, h) /\ p \in DOMAIN ring_
                 /\ \A q \in DOMAIN ring_ : Ahead(h, p) <= Ahead(h, q)
    BY <2>2, <2>3, NextIsNearest
  <2>5. GetNode(ring_, h) = ring_[p] /\ ring_[p] \in nodes /\ p \in PointsOf(ring_[p])
    BY <1>2, <2>3, <2>4, RingIsTyped DEF GetNode
  <2>6. CASE p \in PointsOf(n)
    <3>1. ring_[p] = n
      BY <1>2, <2>5, <2>6, PointsDiffer DEF IInv
    <3> QED
      BY <2>1, <2>5, <3>1
  <2>7. CASE p \notin PointsOf(n)
    <3>1. p \in DOMAIN ring_'
      BY <2>1, <2>4, <2>7
    <3>2. NextPoint(ring_', h) = p
      BY <2>1, <2>2, <2>4, <3>1, NextIsUnique
    <3>3. GetNode(ring_', h) = ring_'[p]
      BY <3>1, <3>2 DEF GetNode
    <3>4. ring_'[p] = ring_[p]
      BY <2>1, <3>1
    <3> QED
      BY <2>5, <3>3, <3>4
  <2> QED
    BY <2>6, <2>7
<1>3. IInv /\ [Next]_vars => [KeysStay]_vars
  BY <1>1, <1>2 DEF Next
<1> QED
  BY <1>3, RingInvariant, PTL DEF Spec
=============================================================================
