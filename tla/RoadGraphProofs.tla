----------------------------- MODULE RoadGraphProofs -----------------------------
(***************************************************************************)
(* Proofs about RoadGraph, for any ways, tags, spacing, cells and places.   *)
(*                                                                          *)
(* nearest_node: nodes that are near are in near rings, and once a ring has *)
(* added nothing, no ring behind it has much to add.                        *)
(*                                                                          *)
(* The contraction: every edge that is kept is a trip along roads that have *)
(* been walked.  A trip passes no node twice, because of the roads at a     *)
(* node where none fork all or none have been walked; and nothing is left   *)
(* out, because what has not been walked is closed under neighbours, which  *)
(* makes it a ring, and each ring has been given a start.                   *)
(***************************************************************************)
EXTENDS RoadGraph, FiniteSetTheorems, SequenceTheorems, WellFoundedInduction, NaturalsInduction,
        TLAPS

----------------------------------------------------------------------------
(* Numbers and the plane.                                                   *)

Plane == Nat \X Nat

\* A nonempty set of naturals has a least member.
LEMMA LeastExists ==
  ASSUME NEW S \in SUBSET Nat, S # {}
  PROVE  \E x \in S : \A y \in S : x <= y
<1> DEFINE Less == {pair \in Nat \X Nat : pair[1] < pair[2]}
<1>1. IsWellFoundedOn(Less, Nat)
  BY NatLessThanWellFounded DEF OpToRel
<1>2. PICK x \in S : \A y \in S : <<y, x>> \notin Less
  <2> HIDE DEF Less
  <2> QED
    BY <1>1, WFMin
<1>3. \A y \in S : x <= y
  <2>1. SUFFICES ASSUME NEW y \in S, ~(x <= y) PROVE FALSE
    OBVIOUS
  <2>2. x \in Nat /\ y \in Nat
    BY <1>2, SMT
  <2>3. <<y, x>> \in Nat \X Nat /\ <<y, x>>[1] < <<y, x>>[2]
    BY <2>1, <2>2, SMT
  <2>4. <<y, x>> \in Less
    BY <2>3, Zenon
  <2> QED
    BY <1>2, <2>4, Zenon
<1> QED
  BY <1>2, <1>3

\* The greater number has the greater square.
LEMMA SquaresRise ==
  ASSUME NEW a \in Nat, NEW b \in Nat
  PROVE  /\ a * a \in Nat
         /\ a < b => a * a < b * b
         /\ a <= b => a * a <= b * b
         /\ a * a < b * b => a < b
  OBVIOUS

\* A coordinate lies in its cell.
LEMMA InItsCell ==
  ASSUME NEW x \in Nat, NEW c \in Nat \ {0}
  PROVE  x \div c \in Nat /\ c * (x \div c) <= x /\ x < c * (x \div c) + c
  OBVIOUS

\* Abs is a distance between numbers.
LEMMA AbsIsNat ==
  ASSUME NEW x \in Int
  PROVE  /\ Abs(x) \in Nat /\ x * x = Abs(x) * Abs(x)
         /\ Abs(x) = x \/ Abs(x) = -x
  BY DEF Abs

\* Products of differences are whole, and a square is not negative.
LEMMA Products ==
  ASSUME NEW c \in Nat, NEW a \in Nat, NEW b \in Nat, a <= b
  PROVE  c * a \in Nat /\ c * b \in Nat /\ c * a <= c * b
  OBVIOUS

\* Cells that are so far apart.
LEMMA CellsApart ==
  ASSUME NEW x \in Nat, NEW y \in Nat, NEW c \in Nat \ {0}, NEW k \in Nat
  PROVE  /\ Abs(y \div c - x \div c) <= k => Abs(x - y) < c * (k + 1)
         /\ Abs(y \div c - x \div c) >= k + 2 => Abs(x - y) > c * (k + 1)
<1>1. PICK a \in Nat : a = x \div c /\ c * a <= x /\ x < c * a + c
  BY InItsCell
<1>2. PICK b \in Nat : b = y \div c /\ c * b <= y /\ y < c * b + c
  BY InItsCell
<1>3. PICK u \in Nat : u = c * a
  BY SMT
<1>4. PICK v \in Nat : v = c * b
  BY SMT
<1>5. PICK w \in Nat : w = c * k
  BY SMT
<1>6. c * (k + 1) = w + c
  BY <1>5, SMT
<1>7. Abs(b - a) <= k => u - v <= w /\ v - u <= w
  <2>1. ASSUME Abs(b - a) <= k PROVE a <= b + k /\ b <= a + k
    BY <2>1 DEF Abs
  <2>2. a <= b + k => u <= v + w
    BY <1>3, <1>4, <1>5, SMT
  <2>3. b <= a + k => v <= u + w
    BY <1>3, <1>4, <1>5, SMT
  <2> QED
    BY <2>1, <2>2, <2>3
<1>8. Abs(b - a) >= k + 2 => u >= v + w + c + c \/ v >= u + w + c + c
  <2>1. ASSUME Abs(b - a) >= k + 2 PROVE a >= b + k + 2 \/ b >= a + k + 2
    BY <2>1 DEF Abs
  <2>2. a >= b + k + 2 => u >= v + w + c + c
    BY <1>3, <1>4, <1>5, SMT
  <2>3. b >= a + k + 2 => v >= u + w + c + c
    BY <1>3, <1>4, <1>5, SMT
  <2> QED
    BY <2>1, <2>2, <2>3
<1>9. u <= x /\ x < u + c /\ v <= y /\ y < v + c
  BY <1>1, <1>2, <1>3, <1>4
<1>10. Abs(b - a) <= k => Abs(x - y) < w + c
  BY <1>7, <1>9 DEF Abs
<1>11. Abs(b - a) >= k + 2 => Abs(x - y) > w + c
  BY <1>8, <1>9 DEF Abs
<1> QED
  BY <1>1, <1>2, <1>6, <1>10, <1>11

----------------------------------------------------------------------------
(* nearest_node: near nodes are in near rings.                              *)

\* The number of cells between two coordinates.
LEMMA CellGap ==
  ASSUME NEW x \in Nat, NEW y \in Nat, NEW c \in Nat \ {0}
  PROVE  Abs(x \div c - y \div c) \in Nat
<1>1. PICK a \in Nat : a = x \div c
  BY InItsCell
<1>2. PICK b \in Nat : b = y \div c
  BY InItsCell
<1>3. Abs(a - b) \in Nat
  BY AbsIsNat
<1> QED
  BY <1>1, <1>2, <1>3

\* Distances are naturals.
LEMMA DistanceIsNat ==
  ASSUME NEW p \in Plane, NEW q \in Plane
  PROVE  /\ Distance(p, q) \in Nat /\ Ring(p, q) \in Nat
         /\ Distance(p, q) =
              Abs(p[1] - q[1]) * Abs(p[1] - q[1]) + Abs(p[2] - q[2]) * Abs(p[2] - q[2])
<1>1. p[1] \in Nat /\ p[2] \in Nat /\ q[1] \in Nat /\ q[2] \in Nat
  BY DEF Plane
<1>2. PICK a \in Int : a = p[1] - q[1]
  BY <1>1
<1>3. PICK b \in Int : b = p[2] - q[2]
  BY <1>1
<1>4. Abs(a) \in Nat /\ a * a = Abs(a) * Abs(a) /\ Abs(b) \in Nat /\ b * b = Abs(b) * Abs(b)
  BY AbsIsNat
<1>5. Abs(a) * Abs(a) \in Nat /\ Abs(b) * Abs(b) \in Nat
  BY <1>4, SquaresRise
<1>6. Distance(p, q) = Abs(a) * Abs(a) + Abs(b) * Abs(b)
  BY <1>2, <1>3, <1>4 DEF Distance
<1>7. Ring(p, q) \in Nat
  <2>1. CellSize \in Nat \ {0}
    BY GraphAssumption
  <2>2. \A x, y \in Nat : Abs(x \div CellSize - y \div CellSize) \in Nat
    BY <2>1, CellGap
  <2>3. Abs(Cell(q)[1] - Cell(p)[1]) \in Nat /\ Abs(Cell(q)[2] - Cell(p)[2]) \in Nat
    BY <1>1, <2>2 DEF Cell
  <2> QED
    BY <2>3 DEF Ring
<1> QED
  BY <1>2, <1>3, <1>5, <1>6, <1>7

\* How far apart two points are whose cells are so many rings apart.
LEMMA RingsApart ==
  ASSUME NEW p \in Plane, NEW q \in Plane, NEW k \in Nat, NEW side \in Nat,
         side = CellSize * (k + 1)
  PROVE  /\ Ring(p, q) <= k => Distance(p, q) < 2 * (side * side)
         /\ Ring(p, q) >= k + 2 => Distance(p, q) > side * side
<1>1. p[1] \in Nat /\ p[2] \in Nat /\ q[1] \in Nat /\ q[2] \in Nat /\ CellSize \in Nat \ {0}
  BY GraphAssumption DEF Plane
<1>2. PICK a \in Nat : a = Abs(p[1] - q[1])
  BY <1>1, AbsIsNat
<1>3. PICK b \in Nat : b = Abs(p[2] - q[2])
  BY <1>1, AbsIsNat
<1>4. PICK dx \in Nat : dx = Abs(q[1] \div CellSize - p[1] \div CellSize)
  BY <1>1, CellGap
<1>5. PICK dy \in Nat : dy = Abs(q[2] \div CellSize - p[2] \div CellSize)
  BY <1>1, CellGap
<1>6. Ring(p, q) = IF dx < dy THEN dy ELSE dx
  BY <1>4, <1>5 DEF Ring, Cell
<1>7. (dx <= k => a < side) /\ (dx >= k + 2 => a > side)
  BY <1>1, <1>2, <1>4, CellsApart, Zenon
<1>8. (dy <= k => b < side) /\ (dy >= k + 2 => b > side)
  BY <1>1, <1>3, <1>5, CellsApart, Zenon
<1>9. Distance(p, q) = a * a + b * b
  BY <1>2, <1>3, DistanceIsNat
<1>10. /\ a * a \in Nat /\ b * b \in Nat /\ side * side \in Nat
       /\ a < side => a * a < side * side
       /\ b < side => b * b < side * side
       /\ side < a => side * side < a * a
       /\ side < b => side * side < b * b
  BY SquaresRise
<1>11. PICK A \in Nat : A = a * a
  BY <1>10
<1>12. PICK B \in Nat : B = b * b
  BY <1>10
<1>13. PICK S \in Nat : S = side * side
  BY <1>10
<1>14. Ring(p, q) <= k => A < S /\ B < S
  BY <1>6, <1>7, <1>8, <1>10, <1>11, <1>12, <1>13
<1>15. Ring(p, q) >= k + 2 => S < A \/ S < B
  BY <1>6, <1>7, <1>8, <1>10, <1>11, <1>12, <1>13
<1>16. A < S /\ B < S => A + B < 2 * S
  BY SMT
<1>17. S < A \/ S < B => A + B > S
  BY SMT
<1> QED
  BY <1>9, <1>11, <1>12, <1>13, <1>14, <1>15, <1>16, <1>17

Near(p, ring) == {Distance(p, n) : n \in {n \in Kept : Ring(p, n) <= ring}}
                   \cup {MaxSnap * MaxSnap}

\* What the search has is the least so far.
LEMMA BestIsLeast ==
  ASSUME NEW p \in Plane, Kept \subseteq Plane, NEW ring
  PROVE  /\ BestWithin(p, ring) \in Near(p, ring) /\ BestWithin(p, ring) \in Nat
         /\ \A d \in Near(p, ring) : BestWithin(p, ring) <= d
<1>1. MaxSnap * MaxSnap \in Nat
  BY SquaresRise, GraphAssumption
<1>2. \A n \in Kept : Distance(p, n) \in Nat
  BY DistanceIsNat
<1>3. Near(p, ring) \in SUBSET Nat /\ Near(p, ring) # {}
  BY <1>1, <1>2, Zenon DEF Near
<1>4. \E d \in Near(p, ring) : \A e \in Near(p, ring) : d <= e
  BY <1>3, LeastExists, Zenon
<1>5. BestWithin(p, ring) = CHOOSE d \in Near(p, ring) : \A e \in Near(p, ring) : d <= e
  BY DEF BestWithin, Near
<1> QED
  BY <1>3, <1>4, <1>5, Zenon

\* nearest_node, whatever the graph.
LEMMA NearestIsClose ==
  ASSUME NEW p \in Plane, Kept \subseteq Plane, NEW found \in Nearest(p), NEW n \in Kept,
         Distance(p, n) < MaxSnap * MaxSnap
  PROVE  found # None /\ Distance(p, found) <= 2 * Distance(p, n)
<1> DEFINE ends == {r \in 0..LastRing : r = LastRing \/ SearchEnds(p, r)}
<1>1. PICK limit \in Nat : limit = MaxSnap * MaxSnap
  BY SquaresRise, GraphAssumption
<1>2. PICK far \in Nat : far = Distance(p, n) /\ far < limit
  BY <1>1, DistanceIsNat
<1>3. PICK last : last = CHOOSE r \in ends : \A s \in ends : r <= s
  OBVIOUS
<1>4. LastRing \in Nat
  BY InItsCell, GraphAssumption DEF LastRing
<1>5. last \in ends
  <2>1. ends \in SUBSET Nat /\ LastRing \in ends
    BY <1>4
  <2>2. \E r \in ends : \A s \in ends : r <= s
    <3> HIDE DEF ends
    <3> QED
      BY <2>1, LeastExists, Zenon
  <2> QED
    BY <1>3, <2>2, Zenon
<1>6. last \in Nat /\ (last = LastRing \/ SearchEnds(p, last))
  BY <1>4, <1>5
<1>7. PICK best \in Nat : best = BestWithin(p, last)
  BY BestIsLeast
<1>8. Nearest(p) = IF best = limit THEN {None}
                   ELSE {m \in Kept : Ring(p, m) <= last /\ Distance(p, m) = best}
  BY <1>1, <1>3, <1>7 DEF Nearest
<1>9. ASSUME best # limit
      PROVE  found # None /\ Distance(p, found) = best
  <2>1. found \in Kept /\ Distance(p, found) = best
    BY <1>8, <1>9
  <2>2. found \in Plane /\ \A point \in Plane : point # None
    BY <2>1 DEF Plane, None
  <2> QED
    BY <2>1, <2>2
<1>10. Ring(p, n) \in Nat
  BY DistanceIsNat
<1>11. CASE Ring(p, n) <= last
  <2>1. far \in Near(p, last)
    BY <1>2, <1>11 DEF Near
  <2>2. best <= far
    BY <1>7, <2>1, BestIsLeast
  <2> QED
    BY <1>2, <1>9, <2>2
<1>12. CASE Ring(p, n) >= last + 1 /\ last = LastRing
  <2>1. PICK k \in Nat : k = MaxSnap \div CellSize
    BY InItsCell, GraphAssumption
  <2>2. PICK whole \in Nat : whole = CellSize * k
    BY <2>1, GraphAssumption, Products
  <2>3. MaxSnap < whole + CellSize /\ CellSize \in Nat /\ MaxSnap \in Nat
    BY <2>1, <2>2, InItsCell, GraphAssumption
  <2>4. PICK side \in Nat : side = CellSize * (k + 1)
    BY <2>1, GraphAssumption, Products
  <2>5. side = whole + CellSize
    BY <2>2, <2>3, <2>4, SMT
  <2>6. Ring(p, n) >= k + 2
    BY <1>12, <2>1 DEF LastRing
  <2>7. far > side * side
    BY <1>2, <2>4, <2>6, RingsApart
  <2>8. side * side \in Nat /\ limit <= side * side
    BY <1>1, <2>3, <2>5, SquaresRise
  <2> QED
    BY <1>1, <1>2, <2>7, <2>8
<1>13. CASE Ring(p, n) >= last + 1 /\ SearchEnds(p, last)
  <2>1. last > 0 /\ best < limit /\ best = BestWithin(p, last - 1)
    BY <1>1, <1>7, <1>13 DEF SearchEnds
  <2>2. PICK k \in Nat : k = last - 1
    BY <1>6, <2>1
  <2>3. best \in Near(p, k) /\ best # limit
    BY <2>1, <2>2, BestIsLeast
  <2>4. PICK b \in Kept : Ring(p, b) <= k /\ Distance(p, b) = best
    BY <1>1, <2>3 DEF Near
  <2>5. PICK side \in Nat : side = CellSize * (k + 1)
    BY <2>2, GraphAssumption, Products
  <2>6. best < 2 * (side * side)
    BY <2>4, <2>5, RingsApart
  <2>7. far > side * side
    <3>1. Ring(p, n) >= k + 2
      BY <1>6, <1>13, <2>2
    <3> QED
      BY <1>2, <2>5, <3>1, RingsApart
  <2>8. PICK S \in Nat : S = side * side
    BY SquaresRise
  <2>9. best <= 2 * far
    BY <2>6, <2>7, <2>8
  <2> QED
    BY <1>2, <1>9, <2>3, <2>9
<1> QED
  BY <1>6, <1>10, <1>11, <1>12, <1>13

----------------------------------------------------------------------------
(* The inductive invariant of nearest_node.                                 *)

OnPlane ==
  /\ \A s \in segments : Ends(s) \subseteq Plane
  /\ \A r \in roads : r.ends \subseteq Plane
  /\ pc = "walking" => chain.anchor \in Plane /\ chain.current \in Plane

GraphInv ==
  /\ OnPlane
  /\ unread \in Nat \ {0}
  /\ asked # None => pc = "ready" /\ asked \in Plane /\ snapped \in Nearest(asked)

\* The points of a way are on the plane.
LEMMA PointsOnPlane ==
  ASSUME NEW w \in DOMAIN Ways, NEW s \in Segments(w)
  PROVE  Ends(s) \subseteq Plane
<1>1. Ways[w] \in Seq(Plane)
  BY GraphAssumption, ElementOfSeq DEF Plane
<1>2. PICK i \in 1..(Len(Ways[w]) - 1) : s = <<w, i>>
  BY DEF Segments
<1>3. Len(Ways[w]) \in Nat
  BY <1>1, LenProperties
<1>4. i \in 1..Len(Ways[w]) /\ i + 1 \in 1..Len(Ways[w])
  BY <1>2, <1>3
<1>5. Ways[w][i] \in Plane /\ Ways[w][i + 1] \in Plane
  BY <1>1, <1>4, ElementOfSeq
<1>6. Ends(s) = {Ways[w][i], Ways[w][i + 1]}
  BY <1>2 DEF Ends
<1> QED
  BY <1>5, <1>6

\* So do the ends of what a node is joined by.
LEMMA NeighboursOnPlane ==
  ASSUME OnPlane, NEW n, NEW m \in Neighbours(n)
  PROVE  n \in Plane /\ m \in Plane
BY DEF OnPlane, Neighbours

\* It holds at the start.
LEMMA GraphInitInv ==
  ASSUME Init
  PROVE  GraphInv
BY DEF Init, GraphInv, OnPlane

\* Before the graph is finished nobody has asked.
LEMMA UnfinishedInv ==
  ASSUME GraphInv, pc # "ready", OnPlane', unread' \in Nat \ {0}, UNCHANGED answer
  PROVE  GraphInv'
BY DEF GraphInv, answer

\* ReadFeature preserves it.
LEMMA ReadFeatureInv ==
  ASSUME GraphInv, NEW tags, ReadFeature(tags)
  PROVE  GraphInv'
<1>1. /\ pc = "reading" /\ unread' = unread + 1 /\ unread \in Nat \ {0} /\ unread <= Len(Ways)
      /\ segments' \subseteq segments \cup Segments(unread)
      /\ UNCHANGED <<pc, roads, junctions, chain, answer>>
  BY DEF ReadFeature, GraphInv, contraction
<1>2. unread \in DOMAIN Ways
  BY <1>1, GraphAssumption
<1>3. \A s \in segments' : Ends(s) \subseteq Plane
  BY <1>1, <1>2, PointsOnPlane DEF GraphInv, OnPlane
<1>4. OnPlane'
  BY <1>1, <1>3 DEF GraphInv, OnPlane, Ends
<1> QED
  BY <1>1, <1>4, UnfinishedInv

\* FindJunctions preserves it.
LEMMA FindJunctionsInv ==
  ASSUME GraphInv, FindJunctions
  PROVE  GraphInv'
<1>1. /\ pc = "reading" /\ pc' = "chains" /\ UNCHANGED <<unread, segments, roads, answer>>
  BY DEF FindJunctions
<1>2. OnPlane'
  BY <1>1 DEF GraphInv, OnPlane, Ends
<1> QED
  BY <1>1, <1>2, UnfinishedInv DEF GraphInv

\* BeginChain preserves it.
LEMMA BeginChainInv ==
  ASSUME GraphInv, NEW n, NEW first, BeginChain(n, first)
  PROVE  GraphInv'
<1>1. /\ pc = "chains" /\ pc' = "walking" /\ UNCHANGED <<unread, segments, roads, answer>>
      /\ chain'.anchor = n /\ chain'.current = first /\ first \in Neighbours(n)
  BY DEF BeginChain, Unwalked
<1>2. n \in Plane /\ first \in Plane
  BY <1>1, NeighboursOnPlane DEF GraphInv
<1>3. OnPlane'
  BY <1>1, <1>2 DEF GraphInv, OnPlane, Ends
<1> QED
  BY <1>1, <1>3, UnfinishedInv DEF GraphInv

\* Walk preserves it.
LEMMA WalkInv ==
  ASSUME GraphInv, Walk
  PROVE  GraphInv'
<1>1. /\ pc = "walking" /\ pc' \in {"walking", "chains"} /\ UNCHANGED <<unread, segments, answer>>
  BY DEF Walk
<1>2. chain.anchor \in Plane /\ chain.current \in Plane
  BY <1>1 DEF GraphInv, OnPlane
<1>3. \A r \in roads' : r.ends \subseteq Plane
  <2>1. roads' \subseteq
          roads \cup {[ends |-> {chain.anchor, chain.current}, length |-> chain.length]}
    BY DEF Walk
  <2> QED
    BY <1>2, <2>1 DEF GraphInv, OnPlane
<1>4. pc' = "walking" => chain'.anchor \in Plane /\ chain'.current \in Plane
  <2> SUFFICES ASSUME pc' = "walking" PROVE chain'.anchor \in Plane /\ chain'.current \in Plane
    OBVIOUS
  <2>1. PICK next \in Neighbours(chain.current) :
          /\ chain'.current = next
          /\ chain'.anchor = IF MayCut THEN chain.current ELSE chain.anchor
    <3>1. PICK next \in Neighbours(chain.current) \ {chain.previous} :
            chain' = [anchor |-> IF MayCut THEN chain.current ELSE chain.anchor,
                      previous |-> chain.current, current |-> next,
                      length |-> Rest + Length({chain.current, next})]
      BY <1>1 DEF Walk
    <3> QED
      BY <3>1
  <2> QED
    BY <1>2, <2>1, NeighboursOnPlane DEF GraphInv
<1>5. OnPlane'
  BY <1>1, <1>3, <1>4 DEF GraphInv, OnPlane, Ends
<1> QED
  BY <1>1, <1>5, UnfinishedInv DEF GraphInv

\* Finish preserves it.
LEMMA FinishInv ==
  ASSUME GraphInv, Finish
  PROVE  GraphInv'
<1>1. /\ pc = "chains" /\ pc' = "ready" /\ UNCHANGED <<unread, segments, roads, answer>>
  BY DEF Finish
<1>2. OnPlane'
  BY <1>1 DEF GraphInv, OnPlane, Ends
<1> QED
  BY <1>1, <1>2, UnfinishedInv DEF GraphInv

\* Without a change of the graph the answer stays right.
LEMMA SameNearest ==
  ASSUME UNCHANGED roads, NEW p, asked' = p
  PROVE  Nearest(asked)' = Nearest(p)
<1>1. Kept' = Kept
  BY DEF Kept
<1>2. \A ring : BestWithin(asked, ring)' = BestWithin(p, ring)
  BY <1>1 DEF BestWithin, Distance, Ring, Cell, Abs
<1>3. \A ring : SearchEnds(asked, ring)' <=> SearchEnds(p, ring)
  BY <1>2 DEF SearchEnds
<1>4. \A q : Ring(asked, q)' = Ring(p, q) /\ Distance(asked, q)' = Distance(p, q)
  BY DEF Distance, Ring, Cell, Abs
<1> QED
  BY <1>1, <1>2, <1>3, <1>4, Zenon DEF Nearest, LastRing, None

\* Snap preserves it.
LEMMA SnapInv ==
  ASSUME GraphInv, NEW p \in Places, Snap(p)
  PROVE  GraphInv'
<1>1. /\ pc = "ready" /\ asked' = p /\ snapped' \in Nearest(p)
      /\ UNCHANGED <<unread, segments, pc, roads, chain>>
  BY DEF Snap, contraction
<1>2. OnPlane'
  BY <1>1 DEF GraphInv, OnPlane, Ends
<1>3. p \in Plane
  BY GraphAssumption DEF Plane
<1>4. snapped' \in Nearest(asked)'
  BY <1>1, SameNearest
<1> QED
  BY <1>1, <1>2, <1>3, <1>4 DEF GraphInv

\* So does a stuttering step.
LEMMA GraphStutter ==
  ASSUME GraphInv, UNCHANGED vars
  PROVE  GraphInv'
<1>1. UNCHANGED <<unread, segments, pc, roads, chain, asked, snapped>>
  BY DEF vars
<1>2. OnPlane'
  BY <1>1 DEF GraphInv, OnPlane, Ends
<1>3. Nearest(asked)' = Nearest(asked)
  BY <1>1, SameNearest
<1> QED
  BY <1>1, <1>2, <1>3 DEF GraphInv

\* nearest_node answers with what its rings hold, once the graph is finished.
THEOREM Invariant == Spec => []GraphInv
<1>1. GraphInv /\ [Next]_vars => GraphInv'
  <2> SUFFICES ASSUME GraphInv, [Next]_vars PROVE GraphInv'
    OBVIOUS
  <2> QED
    BY ReadFeatureInv, FindJunctionsInv, BeginChainInv, WalkInv, FinishInv, SnapInv, GraphStutter
    DEF Next
<1> QED
  BY <1>1, GraphInitInv, PTL DEF Spec

\* nearest_node: no node is found only if there is none in reach, and the one
\* found is at most the diagonal of a square farther than the nearest.
THEOREM CloseSnap == Spec => []SnapIsClose
<1>1. GraphInv => SnapIsClose
  <2>1. ASSUME OnPlane PROVE Kept \subseteq Plane
    BY <2>1 DEF OnPlane, Kept
  <2> QED
    BY <2>1, NearestIsClose DEF GraphInv, SnapIsClose
<1> QED
  BY <1>1, Invariant, PTL

----------------------------------------------------------------------------
(* The trips behind the roads: the inductive invariant of the contraction.  *)

\* The length of a piece is the distance along its axis, a natural.
LEMMA LengthIsNat ==
  ASSUME NEW a \in Plane, NEW b \in Plane
  PROVE  Length({a, b}) \in Nat
<1>1. PICK p \in {a, b} : p = CHOOSE one \in {a, b} : TRUE
  OBVIOUS
<1>2. \E q \in {a, b} : {a, b} = {p, q}
  BY <1>1
<1>3. PICK q \in {a, b} : q = CHOOSE other \in {a, b} : {a, b} = {p, other}
  BY <1>2, Zenon
<1>4. Length({a, b}) = Abs(p[1] - q[1]) + Abs(p[2] - q[2])
  BY <1>1, <1>3 DEF Length
<1>5. p[1] - q[1] \in Int /\ p[2] - q[2] \in Int
  BY DEF Plane
<1>6. Abs(p[1] - q[1]) \in Nat /\ Abs(p[2] - q[2]) \in Nat
  BY <1>5, AbsIsNat
<1> QED
  BY <1>4, <1>6

\* Neighbours are each other's, and different.
LEMMA NeighboursMutual ==
  ASSUME NEW a, NEW b \in Neighbours(a)
  PROVE  a \in Neighbours(b) /\ a # b /\ a \in Node /\ b \in Node
BY DEF Neighbours, Node

\* Where no roads fork there are two ways on at most.
LEMMA NoFork ==
  ASSUME IsFiniteSet(segments), NEW n, ~IsJunction(n),
         NEW a \in Neighbours(n), NEW b \in Neighbours(n), a # b
  PROVE  Neighbours(n) = {a, b}
<1> DEFINE Meeting == {s \in segments : n \in Ends(s)}
<1> SUFFICES ASSUME NEW c \in Neighbours(n), c # a, c # b PROVE FALSE
  OBVIOUS
<1>1. ASSUME NEW m \in Neighbours(n)
      PROVE  \E s \in Meeting : Ends(s) = {n, m}
  <2>1. PICK s \in Meeting : m \in Ends(s) \ {n}
    BY DEF Neighbours
  <2>2. Ends(s) = {n, m}
    BY <2>1 DEF Ends
  <2> QED
    BY <2>1, <2>2
<1>2. PICK s \in Meeting : Ends(s) = {n, a}
  BY <1>1
<1>3. PICK t \in Meeting : Ends(t) = {n, b}
  BY <1>1
<1>4. PICK u \in Meeting : Ends(u) = {n, c}
  BY <1>1
<1>5. s # t /\ s # u /\ t # u
  <2>1. a # n /\ b # n /\ c # n
    BY DEF Neighbours
  <2>2. a \in Ends(s) /\ b \in Ends(t) /\ c \in Ends(u) /\ a \notin Ends(t) /\ a \notin Ends(u)
        /\ b \notin Ends(u)
    BY <1>2, <1>3, <1>4, <2>1
  <2> QED
    BY <2>2
<1>6. IsFiniteSet(Meeting) /\ Cardinality(Meeting) = 2
  <2>1. IsFiniteSet(Meeting)
    BY FS_Subset
  <2> QED
    BY <2>1 DEF IsJunction, Degree
<1>7. IsFiniteSet({s, t, u}) /\ Cardinality({s, t, u}) = 3
  <2>1. IsFiniteSet({u}) /\ Cardinality({u}) = 1
    BY FS_Singleton
  <2>2. IsFiniteSet({u} \cup {t}) /\ Cardinality({u} \cup {t}) = 2
    <3>1. t \notin {u}
      BY <1>5
    <3>2. IsFiniteSet({u} \cup {t}) /\ Cardinality({u} \cup {t}) = Cardinality({u}) + 1
      BY <2>1, <3>1, FS_AddElement, Zenon
    <3> QED
      BY <2>1, <3>2
  <2>3. IsFiniteSet(({u} \cup {t}) \cup {s}) /\ Cardinality(({u} \cup {t}) \cup {s}) = 3
    <3>1. s \notin {u} \cup {t}
      BY <1>5
    <3>2. /\ IsFiniteSet(({u} \cup {t}) \cup {s})
          /\ Cardinality(({u} \cup {t}) \cup {s}) = Cardinality({u} \cup {t}) + 1
      BY <2>2, <3>1, FS_AddElement, Zenon
    <3> QED
      BY <2>2, <3>2
  <2>4. ({u} \cup {t}) \cup {s} = {s, t, u}
    OBVIOUS
  <2> QED
    BY <2>3, <2>4
<1>8. {s, t, u} \in SUBSET Meeting
  OBVIOUS
<1>9. Cardinality({s, t, u}) <= Cardinality(Meeting)
  BY <1>6, <1>8, FS_Subset, Zenon
<1> QED
  BY <1>6, <1>7, <1>9

----------------------------------------------------------------------------

\* A walk along roads: how many nodes it passes, which, and how far each is.
Trip == [size : Nat, at : [Nat -> Plane], from : [Nat -> Nat]]

\* It never turns back, and passes no node that stays on its way.
IsTrip(trip) ==
  /\ trip.size >= 2 /\ trip.from[1] = 0
  /\ \A i \in 1..(trip.size - 1) :
       /\ <<trip.at[i], trip.at[i + 1]>> \in walked
       /\ trip.from[i + 1] = trip.from[i] + Length({trip.at[i], trip.at[i + 1]})
  /\ \A i \in 2..(trip.size - 1) :
       /\ trip.at[i] \notin junctions /\ trip.at[i] \notin Kept
       /\ trip.at[i - 1] # trip.at[i + 1]
       /\ trip.from[i] < Spacing
  /\ \A i, j \in 1..trip.size : i < j /\ trip.at[i] = trip.at[j] => i = 1 /\ j = trip.size

RoadOf(trip) == [ends |-> {trip.at[1], trip.at[trip.size]}, length |-> trip.from[trip.size]]

\* It passes from the one to the other, or back.
Passes(trip, a, b) ==
  \E i \in 1..(trip.size - 1) : \/ trip.at[i] = a /\ trip.at[i + 1] = b
                                \/ trip.at[i] = b /\ trip.at[i + 1] = a

\* The trips behind the roads, and the one under way.
Done == {trip \in Trip : IsTrip(trip) /\ RoadOf(trip) \in roads}
Current ==
  {trip \in Trip : /\ IsTrip(trip)
                   /\ trip.at[1] = chain.anchor /\ trip.at[trip.size] = chain.current
                   /\ trip.at[trip.size - 1] = chain.previous
                   /\ trip.from[trip.size] = chain.length}

Walking == pc = "walking"
Touched(n) == \E m : <<n, m>> \in walked

Mirrored == \A a, b : <<a, b>> \in walked => b \in Neighbours(a) /\ <<b, a>> \in walked

\* Of the roads at a node that may go, all or none have been walked.
AllOrNone ==
  \A n : n \notin junctions /\ Touched(n) /\ ~(Walking /\ n = chain.current) => Unwalked(n) = {}

\* But for the node the walk has just reached.
Arriving ==
  Walking =>
    /\ <<chain.previous, chain.current>> \in walked
    /\ chain.current \notin junctions =>
         /\ chain.current \notin Kept
         /\ \A m : <<chain.current, m>> \in walked => m = chain.previous
    /\ Current # {}
    /\ chain.anchor \in junctions \/ chain.anchor \in Kept

StartsAreKnown ==
  pc # "reading" =>
    /\ \A n \in Node : IsJunction(n) => n \in junctions
    /\ \A r \in Rings : r \cap junctions # {}

RoadsAreTrips == \A r \in roads : \E trip \in Done : RoadOf(trip) = r

WalkedIsPassed ==
  \A a, b : <<a, b>> \in walked =>
    \/ \E trip \in Done : Passes(trip, a, b)
    \/ Walking /\ \E trip \in Current : Passes(trip, a, b)

ChainInv ==
  /\ IsFiniteSet(segments)
  /\ Mirrored /\ AllOrNone /\ Arriving /\ StartsAreKnown /\ RoadsAreTrips /\ WalkedIsPassed
  /\ pc = "reading" => walked = {} /\ roads = {}
  /\ pc = "ready" => \A n \in junctions : Unwalked(n) = {}

\* It holds at the start.
LEMMA ChainInitInv ==
  ASSUME Init
  PROVE  ChainInv
<1>1. IsFiniteSet(segments)
  BY FS_EmptySet DEF Init
<1>2. walked = {} /\ roads = {} /\ pc = "reading"
  BY DEF Init
<1> QED
  BY <1>1, <1>2 DEF ChainInv, Mirrored, AllOrNone, Arriving, StartsAreKnown, RoadsAreTrips,
     WalkedIsPassed, Walking, Touched

\* A trip stays one while no node on its way is kept.
LEMMA TripStays ==
  ASSUME NEW trip \in Trip, IsTrip(trip), walked \subseteq walked', junctions' = junctions,
         \A i \in 2..(trip.size - 1) : trip.at[i] \notin Kept'
  PROVE  IsTrip(trip)'
BY DEF IsTrip, Length, Abs

\* A step that keeps no road leaves the finished trips as they are.
LEMMA DoneStays ==
  ASSUME walked \subseteq walked', junctions' = junctions, roads' = roads
  PROVE  /\ Kept' = Kept /\ Done \subseteq Done'
<1>1. Kept' = Kept
  BY DEF Kept
<1>2. ASSUME NEW trip \in Done PROVE trip \in Done'
  <2>1. trip \in Trip /\ IsTrip(trip) /\ RoadOf(trip) \in roads
    BY DEF Done
  <2>2. IsTrip(trip)'
    BY <1>1, <2>1, TripStays DEF IsTrip
  <2> QED
    BY <2>1, <2>2 DEF Done, RoadOf, Trip, Plane
<1> QED
  BY <1>1, <1>2

----------------------------------------------------------------------------
(* A road begins.                                                           *)

IsStep(trip, a, b) ==
  /\ trip.size = 2 /\ trip.at[1] = a /\ trip.at[2] = b
  /\ trip.from[1] = 0 /\ trip.from[2] = Length({a, b})

\* There is a trip of one step.
LEMMA StepExists ==
  ASSUME NEW a \in Plane, NEW b \in Plane
  PROVE  \E trip \in Trip : IsStep(trip, a, b)
<1>1. PICK length \in Nat : length = Length({a, b})
  BY LengthIsNat
<1>2. PICK at \in [Nat -> Plane] : at = [i \in Nat |-> IF i = 1 THEN a ELSE b]
  OBVIOUS
<1>3. PICK from \in [Nat -> Nat] : from = [i \in Nat |-> IF i = 1 THEN 0 ELSE length]
  OBVIOUS
<1>4. PICK trip : trip = [size |-> 2, at |-> at, from |-> from]
  OBVIOUS
<1>5. trip \in Trip
  BY <1>4 DEF Trip
<1>6. at[1] = a /\ at[2] = b /\ from[1] = 0 /\ from[2] = length
  BY <1>2, <1>3
<1> QED
  BY <1>1, <1>4, <1>5, <1>6 DEF IsStep

IsLonger(longer, trip, next) ==
  /\ longer.size = trip.size + 1
  /\ \A i \in 1..trip.size : longer.at[i] = trip.at[i] /\ longer.from[i] = trip.from[i]
  /\ longer.at[trip.size + 1] = next
  /\ longer.from[trip.size + 1] = trip.from[trip.size] + Length({trip.at[trip.size], next})

\* Every trip can be taken one step further.
LEMMA LongerExists ==
  ASSUME NEW trip \in Trip, NEW next \in Plane
  PROVE  \E longer \in Trip : IsLonger(longer, trip, next)
<1>1. PICK k \in Nat : k = trip.size
  BY DEF Trip
<1>2. trip.at \in [Nat -> Plane] /\ trip.from \in [Nat -> Nat]
  BY DEF Trip
<1>3. PICK total \in Nat : total = trip.from[k] + Length({trip.at[k], next})
  <2>1. Length({trip.at[k], next}) \in Nat /\ trip.from[k] \in Nat
    BY <1>2, LengthIsNat
  <2> QED
    BY <2>1
<1>4. PICK at \in [Nat -> Plane] : at = [i \in Nat |-> IF i = k + 1 THEN next ELSE trip.at[i]]
  BY <1>2
<1>5. PICK from \in [Nat -> Nat] : from = [i \in Nat |-> IF i = k + 1 THEN total ELSE trip.from[i]]
  BY <1>2
<1>6. PICK longer : longer = [size |-> k + 1, at |-> at, from |-> from]
  OBVIOUS
<1>7. longer \in Trip
  BY <1>6 DEF Trip
<1>8. at[k + 1] = next /\ from[k + 1] = total
      /\ \A i \in 1..k : at[i] = trip.at[i] /\ from[i] = trip.from[i]
  BY <1>4, <1>5
<1> QED
  BY <1>1, <1>3, <1>6, <1>7, <1>8 DEF IsLonger

\* Whoever has been kept has been walked to.
LEMMA KeptIsTouched ==
  ASSUME Mirrored, RoadsAreTrips, NEW n \in Kept
  PROVE  Touched(n)
<1>1. PICK r \in roads : n \in r.ends
  BY DEF Kept
<1>2. PICK trip \in Done : RoadOf(trip) = r
  BY <1>1 DEF RoadsAreTrips
<1>3. trip.size \in Nat /\ trip.size >= 2
      /\ \A i \in 1..(trip.size - 1) : <<trip.at[i], trip.at[i + 1]>> \in walked
  BY DEF Done, IsTrip, Trip
<1>4. n = trip.at[1] \/ n = trip.at[trip.size]
  BY <1>1, <1>2 DEF RoadOf
<1>5. 1 \in 1..(trip.size - 1) /\ trip.size - 1 \in 1..(trip.size - 1)
      /\ trip.size - 1 + 1 = trip.size
  BY <1>3
<1>6. <<trip.at[1], trip.at[1 + 1]>> \in walked
      /\ <<trip.at[trip.size - 1], trip.at[trip.size]>> \in walked
  BY <1>3, <1>5
<1> QED
  BY <1>4, <1>6 DEF Mirrored, Touched

\* The nodes of a trip have all been walked to.
LEMMA TripIsTouched ==
  ASSUME Mirrored, NEW trip \in Trip, IsTrip(trip), NEW i \in 1..trip.size
  PROVE  Touched(trip.at[i])
<1>1. trip.size \in Nat /\ trip.size >= 2
      /\ \A j \in 1..(trip.size - 1) : <<trip.at[j], trip.at[j + 1]>> \in walked
  BY DEF IsTrip, Trip
<1>2. CASE i < trip.size
  <2>1. i \in 1..(trip.size - 1)
    BY <1>1, <1>2
  <2>2. <<trip.at[i], trip.at[i + 1]>> \in walked
    BY <1>1, <2>1
  <2> QED
    BY <2>2 DEF Touched
<1>3. CASE i = trip.size
  <2>1. trip.size - 1 \in 1..(trip.size - 1) /\ trip.size - 1 + 1 = trip.size
    BY <1>1
  <2>2. <<trip.at[trip.size - 1], trip.at[trip.size]>> \in walked
    BY <1>1, <2>1
  <2> QED
    BY <1>3, <2>2 DEF Mirrored, Touched
<1> QED
  BY <1>1, <1>2, <1>3

\* One more pair has been walked.
LEMMA MirroredStays ==
  ASSUME Mirrored, UNCHANGED segments, NEW a, NEW b \in Neighbours(a),
         walked' = walked \cup BothWays(a, b)
  PROVE  Mirrored'
<1>1. \A n : Neighbours(n)' = Neighbours(n)
  BY DEF Neighbours, Ends
<1>2. a \in Neighbours(b)
  BY NeighboursMutual
<1> QED
  BY <1>1, <1>2 DEF Mirrored, BothWays

\* The junctions stay what they are once they have been found.
LEMMA SameStarts ==
  ASSUME StartsAreKnown, pc # "reading", UNCHANGED <<segments, junctions>>
  PROVE  StartsAreKnown'
<1>1. Node' = Node /\ Rings' = Rings /\ \A n : IsJunction(n)' = IsJunction(n)
  BY DEF Node, Rings, IsJunction, Degree, Ends, Joined, Neighbours
<1> QED
  BY <1>1 DEF StartsAreKnown

\* BeginChain preserves the invariant.
LEMMA BeginChainChain ==
  ASSUME OnPlane, ChainInv, NEW n, NEW first, BeginChain(n, first)
  PROVE  ChainInv'
<1>1. /\ pc = "chains" /\ pc' = "walking" /\ n \in junctions
      /\ first \in Neighbours(n) /\ <<n, first>> \notin walked
      /\ chain' = [anchor |-> n, previous |-> n, current |-> first, length |-> Length({n, first})]
      /\ walked' = walked \cup BothWays(n, first)
      /\ UNCHANGED <<segments, junctions, roads>>
  BY DEF BeginChain, Unwalked
<1>2. /\ chain'.anchor = n /\ chain'.previous = n /\ chain'.current = first
      /\ chain'.length = Length({n, first})
  BY <1>1
<1>3. n \in Plane /\ first \in Plane /\ n # first /\ n \in Neighbours(first)
  BY <1>1, NeighboursOnPlane, NeighboursMutual
<1>4. <<first, n>> \notin walked
  BY <1>1 DEF ChainInv, Mirrored
<1>5. \A a, b : <<a, b>> \in walked' <=>
        <<a, b>> \in walked \/ (a = n /\ b = first) \/ (a = first /\ b = n)
  BY <1>1 DEF BothWays
<1>6. walked \subseteq walked' /\ \A m : Neighbours(m)' = Neighbours(m)
  BY <1>1 DEF Neighbours, Ends
<1>7. Kept' = Kept /\ Done \subseteq Done'
  BY <1>1, <1>6, DoneStays
<1>8. first \notin junctions => ~Touched(first)
  <2> SUFFICES ASSUME first \notin junctions, Touched(first) PROVE FALSE
    OBVIOUS
  <2>1. Unwalked(first) = {}
    BY <1>1 DEF ChainInv, AllOrNone, Walking
  <2> QED
    BY <1>3, <1>4, <2>1 DEF Unwalked
<1>9. Mirrored'
  BY <1>1, MirroredStays DEF ChainInv
<1>10. AllOrNone'
  <2> SUFFICES ASSUME NEW m, m \notin junctions, Touched(m)', m # first
               PROVE  Unwalked(m)' = {}
    BY <1>1, <1>2 DEF AllOrNone, Walking
  <2>1. m # n /\ Touched(m)
    BY <1>1, <1>5 DEF Touched
  <2>2. Unwalked(m) = {}
    BY <1>1, <2>1 DEF ChainInv, AllOrNone, Walking
  <2> QED
    BY <1>6, <2>2 DEF Unwalked
<1>11. PICK trip \in Trip : IsStep(trip, n, first)
  BY <1>3, StepExists
<1>12. IsTrip(trip)'
  <2>1. /\ trip.size = 2 /\ trip.at[1] = n /\ trip.at[2] = first
        /\ trip.from[1] = 0 /\ trip.from[2] = Length({n, first})
    BY <1>11 DEF IsStep
  <2>2. <<trip.at[1], trip.at[2]>> \in walked'
    BY <1>5, <2>1
  <2>3. /\ \A i \in 1..(trip.size - 1) : i = 1 /\ i + 1 = 2
        /\ \A i \in 2..(trip.size - 1) : FALSE
        /\ \A i, j \in 1..trip.size : i < j => i = 1 /\ j = 2
    BY <2>1
  <2>4. \A i \in 1..(trip.size - 1) :
          /\ <<trip.at[i], trip.at[i + 1]>> \in walked'
          /\ trip.from[i + 1] = trip.from[i] + Length({trip.at[i], trip.at[i + 1]})
    <3>1. Length({n, first}) \in Nat
      BY <1>3, LengthIsNat
    <3> QED
      BY <2>1, <2>2, <2>3, <3>1
  <2> QED
    BY <2>1, <2>3, <2>4 DEF IsTrip
<1>13. trip \in Current'
  <2>1. /\ trip.size = 2 /\ trip.at[1] = n /\ trip.at[2] = first /\ 2 - 1 = 1
        /\ trip.from[2] = Length({n, first})
    BY <1>11 DEF IsStep
  <2> QED
    BY <1>2, <1>12, <2>1 DEF Current
<1>14. Arriving'
  <2>1. first \notin junctions =>
          first \notin Kept' /\ \A m : <<first, m>> \in walked' => m = n
    <3>1. first \notin junctions => first \notin Kept
      BY <1>8, KeptIsTouched DEF ChainInv
    <3> QED
      BY <1>3, <1>5, <1>7, <1>8, <3>1 DEF Touched
  <2> QED
    BY <1>1, <1>2, <1>5, <1>13, <2>1 DEF Arriving
<1>15. RoadsAreTrips'
  BY <1>1, <1>7 DEF ChainInv, RoadsAreTrips, RoadOf
<1>16. WalkedIsPassed'
  <2> SUFFICES ASSUME NEW a, NEW b, <<a, b>> \in walked'
               PROVE  \/ \E some \in Done' : Passes(some, a, b)
                      \/ Walking' /\ \E some \in Current' : Passes(some, a, b)
    BY DEF WalkedIsPassed, Passes
  <2>1. CASE <<a, b>> \in walked
    BY <1>1, <1>7, <2>1 DEF ChainInv, WalkedIsPassed, Walking
  <2>2. CASE <<a, b>> \notin walked
    <3>1. (a = n /\ b = first) \/ (a = first /\ b = n)
      BY <1>5, <2>2
    <3>2. Passes(trip, a, b)
      BY <1>11, <3>1 DEF Passes, IsStep
    <3> QED
      BY <1>1, <1>13, <3>2 DEF Walking
  <2> QED
    BY <2>1, <2>2
<1>17. StartsAreKnown'
  BY <1>1, SameStarts DEF ChainInv
<1> QED
  BY <1>1, <1>9, <1>10, <1>14, <1>15, <1>16, <1>17 DEF ChainInv

----------------------------------------------------------------------------
(* A walk ends.                                                             *)

\* The trip there, with its numbers and its neighbours.
LEMMA TripFacts ==
  ASSUME NEW trip \in Trip, IsTrip(trip)
  PROVE  /\ trip.size \in Nat /\ trip.size >= 2
         /\ trip.at \in [Nat -> Plane] /\ trip.from \in [Nat -> Nat]
         /\ \A i \in 1..(trip.size - 1) : <<trip.at[i], trip.at[i + 1]>> \in walked
         /\ <<trip.at[trip.size - 1], trip.at[trip.size]>> \in walked
<1>1. trip.size \in Nat /\ trip.size >= 2
      /\ trip.at \in [Nat -> Plane] /\ trip.from \in [Nat -> Nat]
      /\ \A i \in 1..(trip.size - 1) : <<trip.at[i], trip.at[i + 1]>> \in walked
  BY DEF IsTrip, Trip
<1>2. trip.size - 1 \in 1..(trip.size - 1) /\ trip.size - 1 + 1 = trip.size
  BY <1>1
<1> QED
  BY <1>1, <1>2

\* A node in the middle of a trip has been walked to from two sides.
LEMMA MiddleHasTwoSides ==
  ASSUME Mirrored, NEW trip \in Trip, IsTrip(trip), NEW i \in 2..(trip.size - 1)
  PROVE  \E a, b : a # b /\ <<trip.at[i], a>> \in walked /\ <<trip.at[i], b>> \in walked
<1>0. trip.size \in Nat
  BY TripFacts
<1>1. i - 1 \in 1..(trip.size - 1) /\ i \in 1..(trip.size - 1) /\ i - 1 + 1 = i
  BY <1>0
<1>2. <<trip.at[i - 1], trip.at[i]>> \in walked /\ <<trip.at[i], trip.at[i + 1]>> \in walked
  BY <1>1, TripFacts
<1>3. trip.at[i - 1] # trip.at[i + 1]
  BY DEF IsTrip
<1> QED
  BY <1>2, <1>3 DEF Mirrored

\* Nor is a node on the way of a trip kept when the walk cuts.
LEMMA CutIsAside ==
  ASSUME ChainInv, Walking, NEW trip \in Trip, IsTrip(trip), NEW i \in 2..(trip.size - 1)
  PROVE  trip.at[i] # chain.current /\ trip.at[i] # chain.anchor
<1>1. trip.at[i] \notin junctions /\ trip.at[i] \notin Kept
  BY DEF IsTrip
<1>2. trip.at[i] # chain.anchor
  BY <1>1 DEF ChainInv, Arriving
<1>3. trip.at[i] # chain.current
  <2> SUFFICES ASSUME trip.at[i] = chain.current PROVE FALSE
    OBVIOUS
  <2>1. \A m : <<chain.current, m>> \in walked => m = chain.previous
    BY <1>1 DEF ChainInv, Arriving
  <2>2. PICK a, b : a # b /\ <<chain.current, a>> \in walked /\ <<chain.current, b>> \in walked
    BY MiddleHasTwoSides DEF ChainInv
  <2> QED
    BY <2>1, <2>2
<1> QED
  BY <1>2, <1>3

\* The road that the walk may keep.
KeptRoad == [ends |-> {chain.anchor, chain.current}, length |-> chain.length]

\* The trips stay trips when the road under way is kept, or is not.
LEMMA TripsStay ==
  ASSUME ChainInv, Walking, walked \subseteq walked', UNCHANGED junctions,
         roads \subseteq roads', roads' \subseteq roads \cup {KeptRoad},
         NEW trip \in Trip, IsTrip(trip)
  PROVE  IsTrip(trip)'
<1>1. Kept' \subseteq Kept \cup {chain.anchor, chain.current}
  BY DEF Kept, KeptRoad
<1>2. \A i \in 2..(trip.size - 1) : trip.at[i] \notin Kept'
  <2> SUFFICES ASSUME NEW i \in 2..(trip.size - 1) PROVE trip.at[i] \notin Kept'
    OBVIOUS
  <2>1. trip.at[i] \notin Kept
    BY DEF IsTrip
  <2> QED
    BY <1>1, <2>1, CutIsAside
<1> QED
  BY <1>2, TripStays

\* The finished trips stay, and the one under way joins them when its road is kept.
LEMMA DoneGrows ==
  ASSUME ChainInv, Walking, walked \subseteq walked', UNCHANGED junctions,
         roads \subseteq roads', roads' \subseteq roads \cup {KeptRoad}
  PROVE  /\ Done \subseteq Done'
         /\ KeptRoad \in roads' => Current \subseteq Done'
<1>1. ASSUME NEW trip \in Done PROVE trip \in Done'
  <2>1. trip \in Trip /\ IsTrip(trip) /\ RoadOf(trip) \in roads
    BY DEF Done
  <2>2. IsTrip(trip)'
    BY <2>1, TripsStay
  <2> QED
    BY <2>1, <2>2 DEF Done, RoadOf
<1>2. ASSUME KeptRoad \in roads', NEW trip \in Current PROVE trip \in Done'
  <2>1. trip \in Trip /\ IsTrip(trip) /\ RoadOf(trip) = KeptRoad
    BY DEF Current, RoadOf, KeptRoad
  <2>2. IsTrip(trip)'
    BY <2>1, TripsStay
  <2> QED
    BY <1>2, <2>1, <2>2 DEF Done, RoadOf
<1> QED
  BY <1>1, <1>2

\* The walk cannot end where it began without cutting there.
LEMMA EndIsElsewhere ==
  ASSUME ChainInv, Walking, chain.current \notin junctions
  PROVE  chain.current # chain.anchor
<1> SUFFICES ASSUME chain.current = chain.anchor PROVE FALSE
  OBVIOUS
<1>1. PICK trip \in Current : TRUE
  BY DEF ChainInv, Arriving
<1>2. /\ trip \in Trip /\ IsTrip(trip) /\ trip.at[1] = trip.at[trip.size]
      /\ trip.at[1] = chain.current /\ trip.at[trip.size - 1] = chain.previous
  BY <1>1 DEF Current
<1>3. trip.size \in Nat /\ trip.size >= 2 /\ 1 \in 1..(trip.size - 1)
      /\ <<trip.at[1], trip.at[2]>> \in walked
  <2>1. /\ trip.size \in Nat /\ trip.size >= 2
        /\ \A i \in 1..(trip.size - 1) : <<trip.at[i], trip.at[i + 1]>> \in walked
    BY <1>2, TripFacts, Zenon
  <2>2. 1 \in 1..(trip.size - 1) /\ 1 + 1 = 2
    BY <2>1
  <2> QED
    BY <2>1, <2>2
<1>4. trip.at[2] = trip.at[trip.size - 1]
  <2>1. <<chain.current, trip.at[2]>> \in walked
    BY <1>2, <1>3
  <2> QED
    BY <1>2, <2>1 DEF ChainInv, Arriving
<1>5. CASE trip.size = 2
  <2>1. trip.at[2] \in Neighbours(trip.at[1])
    BY <1>3 DEF ChainInv, Mirrored
  <2> QED
    BY <1>2, <1>5, <2>1, NeighboursMutual
<1>6. CASE trip.size = 3
  <2>1. 2 \in 2..(trip.size - 1) /\ 2 - 1 = 1 /\ 2 + 1 = 3
    BY <1>6
  <2>2. trip.at[2 - 1] # trip.at[2 + 1]
    BY <1>2, <2>1 DEF IsTrip
  <2> QED
    BY <1>2, <1>6, <2>1, <2>2
<1>7. CASE trip.size > 3
  <2>1. 2 \in 1..trip.size /\ trip.size - 1 \in 1..trip.size /\ 2 < trip.size - 1
    BY <1>3, <1>7
  <2> QED
    BY <1>2, <1>4, <2>1 DEF IsTrip
<1> QED
  BY <1>3, <1>5, <1>6, <1>7

----------------------------------------------------------------------------

\* The walk has come to an end.
LEMMA WalkEnds ==
  ASSUME ChainInv, Walk, pc' = "chains"
  PROVE  ChainInv'
<1>1. /\ Walking /\ UNCHANGED <<segments, junctions, walked>>
      /\ roads' = IF MayCut \/ (Neighbours(chain.current) \ {chain.previous} = {}
                                  /\ chain.current # chain.anchor)
                  THEN roads \cup {KeptRoad} ELSE roads
      /\ chain.current \in junctions \/ Neighbours(chain.current) \ {chain.previous} = {}
  BY DEF Walk, Walking, KeptRoad
<1>2. roads' = roads \cup {KeptRoad}
  BY <1>1, EndIsElsewhere DEF MayCut
<1>3. Done \subseteq Done' /\ Current \subseteq Done'
  BY <1>1, <1>2, DoneGrows
<1>4. ~Walking'
  BY DEF Walking
<1>5. \A m : Neighbours(m)' = Neighbours(m) /\ Unwalked(m)' = Unwalked(m)
  BY <1>1 DEF Neighbours, Ends, Unwalked
<1>6. Mirrored'
  BY <1>1, <1>5 DEF ChainInv, Mirrored
<1>7. AllOrNone'
  <2> SUFFICES ASSUME NEW n, n \notin junctions, Touched(n) PROVE Unwalked(n) = {}
    BY <1>1, <1>5 DEF AllOrNone, Touched
  <2>1. CASE n # chain.current
    BY <2>1 DEF ChainInv, AllOrNone
  <2>2. CASE n = chain.current
    <3>1. Neighbours(n) \subseteq {chain.previous} /\ <<n, chain.previous>> \in walked
      BY <1>1, <2>2 DEF ChainInv, Arriving, Mirrored
    <3> QED
      BY <3>1 DEF Unwalked
  <2> QED
    BY <2>1, <2>2
<1>8. RoadsAreTrips'
  <2> SUFFICES ASSUME NEW r \in roads' PROVE \E trip \in Done' : RoadOf(trip) = r
    BY DEF RoadsAreTrips, RoadOf
  <2>1. CASE r \in roads
    BY <1>3, <2>1 DEF ChainInv, RoadsAreTrips
  <2>2. CASE r = KeptRoad
    <3>1. PICK trip \in Current : TRUE
      BY <1>1 DEF ChainInv, Arriving
    <3>2. RoadOf(trip) = r
      BY <2>2, <3>1 DEF Current, RoadOf, KeptRoad
    <3> QED
      BY <1>3, <3>2
  <2> QED
    BY <1>2, <2>1, <2>2
<1>9. WalkedIsPassed'
  BY <1>1, <1>3 DEF ChainInv, WalkedIsPassed, Passes
<1>10. StartsAreKnown'
  BY <1>1, SameStarts DEF ChainInv, Walking
<1> QED
  BY <1>1, <1>4, <1>6, <1>7, <1>8, <1>9, <1>10 DEF ChainInv, Arriving

----------------------------------------------------------------------------
(* A walk goes on.                                                          *)

\* The walk goes on from here.
GoesOn(next) ==
  /\ Walking /\ Walking' /\ chain.current \notin junctions
  /\ next \in Neighbours(chain.current) /\ next # chain.previous
  /\ chain' = [anchor |-> IF MayCut THEN chain.current ELSE chain.anchor,
               previous |-> chain.current, current |-> next,
               length |-> Rest + Length({chain.current, next})]
  /\ walked' = walked \cup BothWays(chain.current, next)
  /\ roads' = IF MayCut THEN roads \cup {KeptRoad} ELSE roads
  /\ UNCHANGED <<segments, junctions>>

\* A turn of the walk that does not end it goes on.
LEMMA WalkGoesOn ==
  ASSUME Walk, pc' # "chains"
  PROVE  \E next : GoesOn(next)
<1>1. /\ Walking /\ UNCHANGED <<segments, junctions>>
      /\ roads' = IF MayCut \/ (Neighbours(chain.current) \ {chain.previous} = {}
                                  /\ chain.current # chain.anchor)
                  THEN roads \cup {KeptRoad} ELSE roads
      /\ chain.current \notin junctions /\ pc' = pc
  BY DEF Walk, Walking, KeptRoad
<1>2. PICK next \in Neighbours(chain.current) \ {chain.previous} :
        /\ chain' = [anchor |-> IF MayCut THEN chain.current ELSE chain.anchor,
                     previous |-> chain.current, current |-> next,
                     length |-> Rest + Length({chain.current, next})]
        /\ walked' = walked \cup BothWays(chain.current, next)
  BY DEF Walk
<1>3. Neighbours(chain.current) \ {chain.previous} # {}
  BY <1>2
<1>4. roads' = IF MayCut THEN roads \cup {KeptRoad} ELSE roads
  BY <1>1, <1>3
<1> QED
  BY <1>1, <1>2, <1>4 DEF GoesOn, Walking

\* Where it goes on to it has not been, unless roads meet there.
LEMMA NextIsNew ==
  ASSUME ChainInv, NEW next, GoesOn(next)
  PROVE  /\ <<chain.current, next>> \notin walked /\ <<next, chain.current>> \notin walked
         /\ next \notin junctions => ~Touched(next) /\ next \notin Kept
         /\ next # chain.current /\ chain.current \in Neighbours(next)
         /\ Neighbours(chain.current) = {chain.previous, next}
         /\ Touched(chain.current)
         /\ chain.current \notin Kept
<1>1. /\ Walking /\ chain.current \notin junctions
      /\ next \in Neighbours(chain.current) /\ next # chain.previous
  BY DEF GoesOn
<1>2. /\ <<chain.previous, chain.current>> \in walked /\ chain.current \notin Kept
      /\ \A m : <<chain.current, m>> \in walked => m = chain.previous
  BY <1>1 DEF ChainInv, Arriving
<1>3. <<chain.current, next>> \notin walked
  BY <1>1, <1>2
<1>4. <<next, chain.current>> \notin walked
  BY <1>3 DEF ChainInv, Mirrored
<1>5. next # chain.current /\ chain.current \in Neighbours(next) /\ chain.current \in Node
  BY <1>1, NeighboursMutual
<1>6. next \notin junctions => ~Touched(next)
  <2> SUFFICES ASSUME next \notin junctions, Touched(next) PROVE FALSE
    OBVIOUS
  <2>1. Unwalked(next) = {}
    BY <1>5 DEF ChainInv, AllOrNone
  <2> QED
    BY <1>4, <1>5, <2>1 DEF Unwalked
<1>7. next \notin junctions => next \notin Kept
  BY <1>6, KeptIsTouched DEF ChainInv
<1>8. chain.previous \in Neighbours(chain.current) /\ <<chain.current, chain.previous>> \in walked
  BY <1>2 DEF ChainInv, Mirrored
<1>9. Neighbours(chain.current) = {chain.previous, next}
  <2>1. ~IsJunction(chain.current)
    BY <1>1, <1>5 DEF ChainInv, StartsAreKnown, Walking
  <2> QED
    BY <1>1, <1>8, <2>1, NoFork DEF ChainInv
<1> QED
  BY <1>2, <1>3, <1>4, <1>5, <1>6, <1>7, <1>8, <1>9 DEF Touched

\* The trip under way, longer by a step.
LEMMA LongerIsTrip ==
  ASSUME OnPlane, ChainInv, NEW next, GoesOn(next), ~MayCut, NEW trip \in Current,
         NEW longer \in Trip, IsLonger(longer, trip, next)
  PROVE  longer \in Current'
<1>1. PICK k \in Nat : k = trip.size
  BY DEF Current, Trip
<1>2. /\ trip \in Trip /\ IsTrip(trip) /\ k >= 2
      /\ trip.at[1] = chain.anchor /\ trip.at[k] = chain.current
      /\ trip.at[k - 1] = chain.previous /\ trip.from[k] = chain.length
  BY <1>1 DEF Current, IsTrip
<1>3. /\ longer.size = k + 1
      /\ \A i \in 1..k : longer.at[i] = trip.at[i] /\ longer.from[i] = trip.from[i]
      /\ longer.at[k + 1] = next
      /\ longer.from[k + 1] = chain.length + Length({chain.current, next})
  BY <1>1, <1>2 DEF IsLonger
<1>4. /\ walked' = walked \cup BothWays(chain.current, next) /\ junctions' = junctions
      /\ roads' = roads /\ chain.current \notin junctions /\ next # chain.previous
      /\ chain'.anchor = chain.anchor /\ chain'.previous = chain.current
      /\ chain'.current = next /\ chain'.length = chain.length + Length({chain.current, next})
  BY DEF GoesOn, Rest
<1>5. Kept' = Kept
  BY <1>4 DEF Kept
<1>6. <<chain.current, next>> \in walked' /\ walked \subseteq walked'
  BY <1>4 DEF BothWays
<1>7. \A i \in 1..(k - 1) :
        /\ <<trip.at[i], trip.at[i + 1]>> \in walked
        /\ trip.from[i + 1] = trip.from[i] + Length({trip.at[i], trip.at[i + 1]})
  BY <1>1, <1>2 DEF IsTrip
<1>8. ASSUME NEW i \in 1..k
      PROVE  /\ <<longer.at[i], longer.at[i + 1]>> \in walked'
             /\ longer.from[i + 1] = longer.from[i] + Length({longer.at[i], longer.at[i + 1]})
  <2>1. CASE i = k
    <3>1. longer.at[i] = chain.current /\ longer.at[i + 1] = next /\ longer.from[i] = chain.length
          /\ longer.from[i + 1] = chain.length + Length({chain.current, next})
      BY <1>2, <1>3, <2>1
    <3> QED
      BY <1>6, <3>1
  <2>2. CASE i # k
    <3>1. i \in 1..(k - 1) /\ i + 1 \in 1..k
      BY <1>1, <2>2
    <3>2. longer.at[i] = trip.at[i] /\ longer.at[i + 1] = trip.at[i + 1]
          /\ longer.from[i] = trip.from[i] /\ longer.from[i + 1] = trip.from[i + 1]
      BY <1>3, <3>1
    <3> QED
      BY <1>6, <1>7, <3>1, <3>2
  <2> QED
    BY <2>1, <2>2
<1>9. \A i \in 2..(k - 1) : /\ trip.at[i] \notin junctions /\ trip.at[i] \notin Kept
                            /\ trip.at[i - 1] # trip.at[i + 1] /\ trip.from[i] < Spacing
  BY <1>1, <1>2 DEF IsTrip
<1>10. chain.length < Spacing
  <2>1. trip.from[k] \in Nat /\ Spacing \in Nat
    BY <1>1, <1>2, GraphAssumption DEF Trip
  <2>2. ~(chain.length >= Spacing) /\ chain.length \in Nat
    BY <1>2, <2>1 DEF MayCut
  <2> QED
    BY <2>1, <2>2
<1>11. ASSUME NEW i \in 2..k
       PROVE  /\ longer.at[i] \notin junctions' /\ longer.at[i] \notin Kept'
              /\ longer.at[i - 1] # longer.at[i + 1] /\ longer.from[i] < Spacing
  <2>1. CASE i = k
    <3>1. longer.at[i] = chain.current /\ longer.at[i - 1] = chain.previous
          /\ longer.at[i + 1] = next /\ longer.from[i] = chain.length
      <4>1. k \in 1..k /\ k - 1 \in 1..k
        BY <1>2
      <4> QED
        BY <1>2, <1>3, <2>1, <4>1
    <3>2. chain.current \notin Kept
      BY NextIsNew
    <3> QED
      BY <1>4, <1>5, <1>10, <3>1, <3>2
  <2>2. CASE i # k
    <3>1. i \in 2..(k - 1) /\ i \in 1..k /\ i - 1 \in 1..k /\ i + 1 \in 1..k
      BY <1>1, <2>2
    <3>2. longer.at[i] = trip.at[i] /\ longer.at[i - 1] = trip.at[i - 1]
          /\ longer.at[i + 1] = trip.at[i + 1] /\ longer.from[i] = trip.from[i]
      BY <1>3, <3>1
    <3> QED
      BY <1>4, <1>5, <1>9, <3>1, <3>2
  <2> QED
    BY <2>1, <2>2
<1>12. \A i, j \in 1..k : i < j /\ trip.at[i] = trip.at[j] => i = 1 /\ j = k
  BY <1>1, <1>2 DEF IsTrip
<1>13. chain.current # chain.anchor
  BY <1>4, EndIsElsewhere DEF GoesOn
<1>14. ASSUME NEW i \in 1..(k + 1), NEW j \in 1..(k + 1), i < j, longer.at[i] = longer.at[j]
       PROVE  i = 1 /\ j = k + 1
  <2>1. i \in 1..k /\ longer.at[i] = trip.at[i]
    BY <1>3, <1>14
  <2>2. CASE j # k + 1
    <3>1. j \in 1..k /\ longer.at[j] = trip.at[j]
      BY <1>3, <2>2
    <3>2. i = 1 /\ j = k
      BY <1>12, <1>14, <2>1, <3>1
    <3> QED
      BY <1>2, <1>13, <1>14, <2>1, <3>1, <3>2
  <2>3. CASE j = k + 1 /\ i # 1
    <3>1. trip.at[i] = next
      BY <1>3, <1>14, <2>1, <2>3
    <3>2. Touched(next)
      BY <1>1, <1>2, <2>1, <3>1, TripIsTouched DEF ChainInv
    <3>3. next \in junctions
      BY <3>2, NextIsNew
    <3>4. i \in 2..(k - 1) \/ i = k
      BY <2>1, <2>3
    <3> QED
      BY <1>2, <1>4, <1>9, <3>1, <3>3, <3>4
  <2> QED
    BY <2>2, <2>3
<1>15. IsTrip(longer)'
  <2>1. longer.size >= 2 /\ longer.size - 1 = k /\ longer.from[1] = 0
    <3>1. trip.from[1] = 0 /\ 1 \in 1..k
      BY <1>2 DEF IsTrip
    <3> QED
      BY <1>2, <1>3, <3>1
  <2> QED
    BY <1>3, <1>8, <1>11, <1>14, <2>1 DEF IsTrip
<1>16. /\ longer.at[1] = chain'.anchor /\ longer.at[longer.size] = chain'.current
       /\ longer.at[longer.size - 1] = chain'.previous /\ longer.from[longer.size] = chain'.length
  <2>1. 1 \in 1..k /\ k \in 1..k /\ longer.size - 1 = k
    BY <1>2, <1>3
  <2> QED
    BY <1>2, <1>3, <1>4, <2>1
<1> QED
  BY <1>15, <1>16 DEF Current

\* Behind a cut the trip under way is a step long.
LEMMA OneStepIsTrip ==
  ASSUME OnPlane, ChainInv, NEW next, GoesOn(next), MayCut, NEW trip \in Trip,
         IsStep(trip, chain.current, next)
  PROVE  trip \in Current'
<1>1. /\ walked' = walked \cup BothWays(chain.current, next)
      /\ chain'.anchor = chain.current /\ chain'.previous = chain.current
      /\ chain'.current = next /\ chain'.length = 0 + Length({chain.current, next})
  BY DEF GoesOn, Rest
<1>2. /\ trip.size = 2 /\ trip.at[1] = chain.current /\ trip.at[2] = next
      /\ trip.from[1] = 0 /\ trip.from[2] = Length({chain.current, next})
  BY DEF IsStep
<1>3. trip.from[2] \in Nat
  BY DEF Trip
<1>4. chain'.length = trip.from[2]
  BY <1>1, <1>2, <1>3
<1>5. <<trip.at[1], trip.at[2]>> \in walked'
  BY <1>1, <1>2 DEF BothWays
<1>6. /\ \A i \in 1..(trip.size - 1) : i = 1 /\ i + 1 = 2
      /\ \A i \in 2..(trip.size - 1) : FALSE
      /\ \A i, j \in 1..trip.size : i < j => i = 1 /\ j = 2
  BY <1>2
<1>7. \A i \in 1..(trip.size - 1) :
        /\ <<trip.at[i], trip.at[i + 1]>> \in walked'
        /\ trip.from[i + 1] = trip.from[i] + Length({trip.at[i], trip.at[i + 1]})
  BY <1>2, <1>3, <1>5, <1>6
<1>8. IsTrip(trip)'
  BY <1>2, <1>6, <1>7 DEF IsTrip
<1>9. 2 - 1 = 1
  OBVIOUS
<1> QED
  BY <1>1, <1>2, <1>4, <1>8, <1>9 DEF Current

\* A walk that goes on preserves the invariant.
LEMMA GoesOnChain ==
  ASSUME OnPlane, ChainInv, NEW next, GoesOn(next)
  PROVE  ChainInv'
<1>1. /\ Walking /\ Walking' /\ chain.current \notin junctions
      /\ next \in Neighbours(chain.current) /\ next # chain.previous
      /\ chain'.anchor = IF MayCut THEN chain.current ELSE chain.anchor
      /\ chain'.previous = chain.current /\ chain'.current = next
      /\ walked' = walked \cup BothWays(chain.current, next)
      /\ roads' = IF MayCut THEN roads \cup {KeptRoad} ELSE roads
      /\ UNCHANGED <<segments, junctions>>
  BY DEF GoesOn
<1>2. /\ <<chain.current, next>> \notin walked /\ <<next, chain.current>> \notin walked
      /\ next \notin junctions => ~Touched(next) /\ next \notin Kept
      /\ next # chain.current /\ chain.current \in Neighbours(next)
      /\ Neighbours(chain.current) = {chain.previous, next}
      /\ Touched(chain.current) /\ chain.current \notin Kept
  BY NextIsNew
<1>3. \A a, b : <<a, b>> \in walked' <=> \/ <<a, b>> \in walked
                                         \/ a = chain.current /\ b = next
                                         \/ a = next /\ b = chain.current
  BY <1>1 DEF BothWays
<1>4. walked \subseteq walked' /\ \A m : Neighbours(m)' = Neighbours(m)
  BY <1>1 DEF Neighbours, Ends
<1>5. Mirrored'
  BY <1>1, MirroredStays DEF ChainInv
<1>6. /\ roads \subseteq roads' /\ roads' \subseteq roads \cup {KeptRoad}
      /\ MayCut => KeptRoad \in roads'
  BY <1>1
<1>7. Done \subseteq Done' /\ (MayCut => Current \subseteq Done')
  BY <1>1, <1>4, <1>6, DoneGrows
<1>8. AllOrNone'
  <2> SUFFICES ASSUME NEW m, m \notin junctions, Touched(m)', m # next
               PROVE  Unwalked(m)' = {}
    BY <1>1 DEF AllOrNone
  <2>1. CASE m = chain.current
    <3>1. <<m, chain.previous>> \in walked
      BY <1>1, <2>1 DEF ChainInv, Arriving, Mirrored
    <3> QED
      BY <1>2, <1>3, <1>4, <2>1, <3>1 DEF Unwalked
  <2>2. CASE m # chain.current
    <3>1. Touched(m)
      BY <1>3, <2>2 DEF Touched
    <3>2. Unwalked(m) = {}
      BY <2>2, <3>1 DEF ChainInv, AllOrNone
    <3> QED
      BY <1>4, <3>2 DEF Unwalked
  <2> QED
    BY <2>1, <2>2
<1>9. /\ Kept \subseteq Kept' /\ Kept' \subseteq Kept \cup {chain.anchor, chain.current}
      /\ MayCut => chain.current \in Kept'
  BY <1>6 DEF Kept, KeptRoad
<1>10. chain.anchor \in junctions \/ chain.anchor \in Kept
  BY <1>1 DEF ChainInv, Arriving
<1>11. next \notin junctions =>
         next \notin Kept' /\ \A m : <<next, m>> \in walked' => m = chain.current
  BY <1>2, <1>3, <1>9, <1>10 DEF Touched
<1>12. next \in Plane /\ chain.current \in Plane
  BY <1>1, NeighboursOnPlane
<1>13. ASSUME MayCut
       PROVE  \E trip \in Current' : IsStep(trip, chain.current, next)
  BY <1>12, <1>13, StepExists, OneStepIsTrip
<1>14. ASSUME ~MayCut, NEW trip \in Current
       PROVE  \E longer \in Current' : IsLonger(longer, trip, next)
  <2>1. trip \in Trip
    BY DEF Current
  <2>2. PICK longer \in Trip : IsLonger(longer, trip, next)
    BY <1>12, <2>1, LongerExists
  <2>3. longer \in Current'
    BY <1>14, <2>2, LongerIsTrip
  <2> QED
    BY <2>2, <2>3
<1>15. Current # {}
  BY <1>1 DEF ChainInv, Arriving
<1>16. Arriving'
  <2>1. Current' # {}
    BY <1>13, <1>14, <1>15
  <2>2. chain'.anchor \in junctions' \/ chain'.anchor \in Kept'
    BY <1>1, <1>9, <1>10
  <2> QED
    BY <1>1, <1>3, <1>11, <2>1, <2>2 DEF Arriving
<1>17. RoadsAreTrips'
  <2> SUFFICES ASSUME NEW r \in roads' PROVE \E trip \in Done' : RoadOf(trip) = r
    BY DEF RoadsAreTrips, RoadOf
  <2>1. CASE r \in roads
    BY <1>7, <2>1 DEF ChainInv, RoadsAreTrips
  <2>2. CASE r \notin roads
    <3>1. r = KeptRoad /\ MayCut
      BY <1>1, <2>2
    <3>2. PICK trip \in Current : TRUE
      BY <1>15
    <3>3. RoadOf(trip) = r
      BY <3>1 DEF Current, RoadOf, KeptRoad
    <3> QED
      BY <1>7, <3>1, <3>2, <3>3
  <2> QED
    BY <2>1, <2>2
<1>18. WalkedIsPassed'
  <2> SUFFICES ASSUME NEW a, NEW b, <<a, b>> \in walked'
               PROVE  \/ \E some \in Done' : Passes(some, a, b)
                      \/ Walking' /\ \E some \in Current' : Passes(some, a, b)
    BY DEF WalkedIsPassed, Passes
  <2>1. ASSUME ~MayCut, NEW trip \in Current, Passes(trip, a, b)
        PROVE  \E some \in Current' : Passes(some, a, b)
    <3>1. PICK longer \in Current' : IsLonger(longer, trip, next)
      BY <1>14, <2>1
    <3>2. trip.size \in Nat
      BY DEF Current, Trip
    <3>3. PICK i \in 1..(trip.size - 1) : \/ trip.at[i] = a /\ trip.at[i + 1] = b
                                          \/ trip.at[i] = b /\ trip.at[i + 1] = a
      BY <2>1 DEF Passes
    <3>4. i \in 1..trip.size /\ i + 1 \in 1..trip.size /\ i \in 1..(trip.size + 1 - 1)
      BY <3>2
    <3>5. longer.at[i] = trip.at[i] /\ longer.at[i + 1] = trip.at[i + 1]
          /\ longer.size = trip.size + 1
      BY <3>1, <3>4 DEF IsLonger
    <3>6. i \in 1..(longer.size - 1)
      <4>1. longer.size - 1 = trip.size
        BY <3>2, <3>5
      <4> QED
        BY <3>4, <4>1
    <3>7. \/ longer.at[i] = a /\ longer.at[i + 1] = b
          \/ longer.at[i] = b /\ longer.at[i + 1] = a
      BY <3>3, <3>5
    <3>8. Passes(longer, a, b)
      BY <3>6, <3>7, Zenon DEF Passes
    <3> QED
      BY <3>8
  <2>2. CASE <<a, b>> \in walked
    <3>1. CASE \E trip \in Done : Passes(trip, a, b)
      BY <1>7, <3>1
    <3>2. CASE \E trip \in Current : Passes(trip, a, b)
      BY <1>1, <1>7, <2>1, <3>2
    <3> QED
      BY <2>2, <3>1, <3>2 DEF ChainInv, WalkedIsPassed
  <2>3. CASE <<a, b>> \notin walked
    <3>1. (a = chain.current /\ b = next) \/ (a = next /\ b = chain.current)
      BY <1>3, <2>3
    <3>2. CASE MayCut
      <4>1. PICK trip \in Current' : IsStep(trip, chain.current, next)
        BY <1>13, <3>2
      <4>2. trip.size = 2 /\ trip.at[1] = chain.current /\ trip.at[2] = next
        BY <4>1 DEF IsStep
      <4>3. 1 \in 1..(2 - 1) /\ 1 + 1 = 2
        OBVIOUS
      <4>4. Passes(trip, a, b)
        BY <3>1, <4>2, <4>3 DEF Passes
      <4> QED
        BY <1>1, <4>4
    <3>3. CASE ~MayCut
      <4>1. PICK trip \in Current : TRUE
        BY <1>15
      <4>2. PICK longer \in Current' : IsLonger(longer, trip, next)
        BY <1>14, <3>3
      <4>3. trip.size \in Nat /\ trip.size >= 2 /\ trip.at[trip.size] = chain.current
        BY DEF Current, Trip, IsTrip
      <4>4. trip.size \in 1..trip.size /\ trip.size \in 1..(trip.size + 1 - 1)
        BY <4>3
      <4>5. longer.at[trip.size] = chain.current /\ longer.at[trip.size + 1] = next
            /\ longer.size = trip.size + 1
        BY <4>2, <4>3, <4>4 DEF IsLonger
      <4>6. Passes(longer, a, b)
        BY <3>1, <4>4, <4>5 DEF Passes
      <4> QED
        BY <1>1, <4>6
    <3> QED
      BY <3>2, <3>3
  <2> QED
    BY <2>2, <2>3
<1>19. StartsAreKnown'
  BY <1>1, SameStarts DEF ChainInv, Walking
<1> QED
  BY <1>1, <1>5, <1>8, <1>16, <1>17, <1>18, <1>19 DEF ChainInv, Walking

----------------------------------------------------------------------------
(* The contraction as a whole.                                              *)

\* A way has finitely many pieces.
LEMMA SegmentsAreFinite ==
  ASSUME NEW w \in DOMAIN Ways
  PROVE  IsFiniteSet(Segments(w))
<1> DEFINE f == [s \in Segments(w) |-> s[2]]
<1>1. Ways[w] \in Seq(Plane)
  BY GraphAssumption, ElementOfSeq DEF Plane
<1>2. PICK n \in Int : n = Len(Ways[w]) - 1
  BY <1>1, LenProperties
<1>3. IsFiniteSet(1..n)
  BY <1>2, FS_Interval
<1>4. \A s \in Segments(w) : s = <<w, s[2]>> /\ s[2] \in 1..n
  BY <1>2 DEF Segments
<1>5. f \in [Segments(w) -> 1..n]
  BY <1>4
<1>6. \A s, t \in Segments(w) : f[s] = f[t] => s = t
  BY <1>4
<1>7. f \in Injection(Segments(w), 1..n)
  BY <1>5, <1>6 DEF Injection, IsInjective
<1> QED
  BY <1>3, <1>7, FS_Injection

\* ReadFeature preserves the invariant.
LEMMA ReadFeatureChain ==
  ASSUME GraphInv, ChainInv, NEW tags, ReadFeature(tags)
  PROVE  ChainInv'
<1>1. /\ pc = "reading" /\ pc' = "reading" /\ unread \in Nat \ {0} /\ unread <= Len(Ways)
      /\ segments' = segments \/ segments' = segments \cup Segments(unread)
      /\ UNCHANGED <<walked, roads>>
  BY DEF ReadFeature, GraphInv, contraction
<1>2. unread \in DOMAIN Ways
  BY <1>1, GraphAssumption
<1>3. IsFiniteSet(segments')
  BY <1>1, <1>2, SegmentsAreFinite, FS_Union DEF ChainInv
<1>4. walked' = {} /\ roads' = {}
  BY <1>1 DEF ChainInv
<1> QED
  BY <1>1, <1>3, <1>4 DEF ChainInv, Mirrored, AllOrNone, Arriving, StartsAreKnown, RoadsAreTrips,
     WalkedIsPassed, Walking, Touched

\* FindJunctions preserves it: every ring has a start.
LEMMA FindJunctionsChain ==
  ASSUME ChainInv, FindJunctions
  PROVE  ChainInv'
<1>1. PICK starts \in SUBSET UNION Rings :
        /\ \A r \in Rings : Cardinality(r \cap starts) = 1
        /\ junctions' = {n \in Node : IsJunction(n)} \cup starts
  BY DEF FindJunctions
<1>2. /\ pc = "reading" /\ pc' = "chains" /\ UNCHANGED <<segments, walked, roads>>
  BY DEF FindJunctions
<1>3. walked' = {} /\ roads' = {}
  BY <1>2 DEF ChainInv
<1>4. Node' = Node /\ Rings' = Rings /\ \A n : IsJunction(n)' = IsJunction(n)
  BY <1>2 DEF Node, Rings, IsJunction, Degree, Ends, Joined, Neighbours
<1>5. ASSUME NEW r \in Rings PROVE r \cap junctions' # {}
  BY <1>1, FS_EmptySet
<1>6. StartsAreKnown'
  BY <1>1, <1>4, <1>5 DEF StartsAreKnown
<1> QED
  BY <1>2, <1>3, <1>6 DEF ChainInv, Mirrored, AllOrNone, Arriving, RoadsAreTrips, WalkedIsPassed,
     Walking, Touched

\* Between two roads, and once there are no more.
LEMMA SameChain ==
  ASSUME ChainInv, UNCHANGED <<segments, junctions, walked, roads>>,
         (pc' = pc /\ UNCHANGED chain) \/ (pc # "reading" /\ ~Walking /\ ~Walking'),
         pc' = "reading" => pc = "reading",
         pc' = "ready" => \A n \in junctions : Unwalked(n) = {}
  PROVE  ChainInv'
<1>1. \A n : Neighbours(n)' = Neighbours(n) /\ Unwalked(n)' = Unwalked(n)
  BY DEF Neighbours, Unwalked, Ends
<1>2. Node' = Node /\ Rings' = Rings /\ \A n : IsJunction(n)' = IsJunction(n)
  BY DEF Node, Rings, IsJunction, Degree, Ends, Joined, Neighbours
<1>3. Kept' = Kept /\ Done' = Done
  <2>1. Kept' = Kept
    BY DEF Kept
  <2>2. \A trip : IsTrip(trip)' = IsTrip(trip)
    BY <2>1 DEF IsTrip, Length, Abs
  <2> QED
    BY <2>1, <2>2 DEF Done, RoadOf, Trip, Plane
<1>4. Walking' => Walking /\ UNCHANGED chain /\ Current' = Current
  <2>1. ASSUME UNCHANGED chain PROVE Current' = Current
    <3>1. \A trip : IsTrip(trip)' = IsTrip(trip)
      BY <1>3 DEF IsTrip, Length, Abs
    <3> QED
      BY <2>1, <3>1 DEF Current, Trip, Plane
  <2> QED
    BY <2>1 DEF Walking
<1>5. Walking => Walking' /\ UNCHANGED chain
  BY DEF Walking
<1>6. Mirrored' /\ RoadsAreTrips'
  BY <1>1, <1>3 DEF ChainInv, Mirrored, RoadsAreTrips, RoadOf
<1>7. AllOrNone'
  BY <1>1, <1>4, <1>5 DEF ChainInv, AllOrNone, Touched
<1>8. Arriving'
  BY <1>3, <1>4 DEF ChainInv, Arriving
<1>9. StartsAreKnown'
  BY <1>2 DEF ChainInv, StartsAreKnown
<1>10. WalkedIsPassed'
  BY <1>3, <1>4, <1>5 DEF ChainInv, WalkedIsPassed, Passes
<1>11. /\ pc' = "reading" => walked' = {} /\ roads' = {}
       /\ pc' = "ready" => \A n \in junctions' : Unwalked(n)' = {}
  BY <1>1 DEF ChainInv
<1> QED
  BY <1>6, <1>7, <1>8, <1>9, <1>10, <1>11 DEF ChainInv

\* Finish preserves it.
LEMMA FinishChain ==
  ASSUME ChainInv, Finish
  PROVE  ChainInv'
<1>1. /\ pc = "chains" /\ pc' = "ready" /\ \A n \in junctions : Unwalked(n) = {}
      /\ UNCHANGED <<segments, junctions, walked, roads>>
  BY DEF Finish
<1> QED
  BY <1>1, SameChain DEF Walking

\* So does whatever leaves the contraction alone.
LEMMA NothingWalked ==
  ASSUME ChainInv, UNCHANGED <<segments, pc, contraction>>
  PROVE  ChainInv'
<1>1. UNCHANGED <<segments, pc, junctions, chain, walked, roads>>
  BY DEF contraction
<1>2. /\ pc' = "reading" => pc = "reading"
      /\ pc' = "ready" => \A n \in junctions : Unwalked(n) = {}
  BY <1>1 DEF ChainInv
<1>3. /\ UNCHANGED <<segments, junctions, walked, roads>>
      /\ (pc' = pc /\ UNCHANGED chain) \/ (pc # "reading" /\ ~Walking /\ ~Walking')
  BY <1>1
<1> QED
  BY <1>2, <1>3, SameChain, Zenon

RoadInv == GraphInv /\ ChainInv

\* The contraction: whatever has been walked belongs to a trip of which a road
\* has been kept, or to the one under way; of a node whose roads do not fork
\* both sides have been walked or none; and the walk never comes back to a
\* node it has passed but at a junction.
THEOREM Contraction == Spec => []RoadInv
<1>1. Init => RoadInv
  BY GraphInitInv, ChainInitInv DEF RoadInv
<1>2. RoadInv /\ [Next]_vars => ChainInv'
  <2> SUFFICES ASSUME GraphInv, ChainInv, [Next]_vars PROVE ChainInv'
    BY DEF RoadInv
  <2> USE DEF GraphInv
  <2>1. ASSUME NEW tags \in Tagging, ReadFeature(tags) PROVE ChainInv'
    BY <2>1, ReadFeatureChain
  <2>2. CASE FindJunctions
    BY <2>2, FindJunctionsChain
  <2>3. ASSUME NEW n \in junctions, NEW first \in Unwalked(n), BeginChain(n, first)
        PROVE  ChainInv'
    BY <2>3, BeginChainChain
  <2>4. CASE Walk
    <3>1. CASE pc' = "chains"
      BY <2>4, <3>1, WalkEnds
    <3>2. CASE pc' # "chains"
      BY <2>4, <3>2, WalkGoesOn, GoesOnChain
    <3> QED
      BY <3>1, <3>2
  <2>5. CASE Finish
    BY <2>5, FinishChain
  <2>6. ASSUME NEW p \in Places, Snap(p) PROVE ChainInv'
    BY <2>6, NothingWalked DEF Snap
  <2>7. CASE UNCHANGED vars
    BY <2>7, NothingWalked DEF vars, contraction
  <2> QED
    BY <2>1, <2>2, <2>3, <2>4, <2>5, <2>6, <2>7 DEF Next
<1> QED
  BY <1>1, <1>2, Invariant, PTL DEF Spec, RoadInv

----------------------------------------------------------------------------
(* Induction over naturals, by the least one a set misses.                  *)

\* What holds of a number and of each after one it holds of holds of all.
LEMMA AllReached ==
  ASSUME NEW S, NEW a \in Nat, a \in S,
         \A n \in Nat : n >= a /\ n \in S => n + 1 \in S
  PROVE  \A n \in Nat : n >= a => n \in S
<1> DEFINE Missed == {n \in Nat : n >= a /\ n \notin S}
<1> SUFFICES ASSUME Missed # {} PROVE FALSE
  OBVIOUS
<1>1. PICK m \in Missed : \A n \in Missed : m <= n
  <2>1. Missed \in SUBSET Nat
    OBVIOUS
  <2> HIDE DEF Missed
  <2> QED
    BY <2>1, LeastExists
<1>2. m - 1 \in Nat /\ m - 1 >= a /\ m - 1 \notin Missed
  BY <1>1
<1> QED
  BY <1>1, <1>2

\* The functions on a..n that start at first and follow step.
Steps(V, first, a, n, step) ==
  {g \in [a..n -> V] : g[a] = first /\ \A i \in (a + 1)..n : g[i] = step[<<i, g[i - 1]>>]}

\* There is one.
LEMMA StepsExist ==
  ASSUME NEW V, NEW first \in V, NEW a \in Nat, NEW n \in Nat, n >= a,
         NEW step \in [((a + 1)..n) \X V -> V]
  PROVE  Steps(V, first, a, n, step) # {}
<1> DEFINE Fits(g, k) == \A i \in a..k : g[i] = IF i = a THEN first ELSE step[<<i, g[i - 1]>>]
           Good == {k \in Nat : k > n \/ \E g \in [a..k -> V] : Fits(g, k)}
<1>1. a \in Good
  <2>1. [i \in a..a |-> first] \in [a..a -> V] /\ Fits([i \in a..a |-> first], a)
    OBVIOUS
  <2> QED
    BY <2>1
<1>2. ASSUME NEW k \in Nat, k >= a, k \in Good
      PROVE  k + 1 \in Good
  <2>1. CASE k >= n
    BY <2>1
  <2>2. CASE k < n
    <3>1. PICK g \in [a..k -> V] : Fits(g, k)
      BY <1>2, <2>2
    <3>2. PICK v \in V : v = step[<<k + 1, g[k]>>]
      <4>1. <<k + 1, g[k]>> \in ((a + 1)..n) \X V
        BY <1>2, <2>2, <3>1
      <4> QED
        BY <4>1
    <3> DEFINE h == [i \in a..(k + 1) |-> IF i = k + 1 THEN v ELSE g[i]]
    <3>3. h \in [a..(k + 1) -> V]
      BY <1>2, <3>1, <3>2
    <3>4. ASSUME NEW i \in a..(k + 1)
          PROVE  h[i] = IF i = a THEN first ELSE step[<<i, h[i - 1]>>]
      <4>1. CASE i = k + 1
        <5>1. h[i - 1] = g[k] /\ i # a
          BY <1>2, <4>1
        <5> QED
          BY <3>2, <4>1, <5>1
      <4>2. CASE i # k + 1
        <5>1. i \in a..k /\ h[i] = g[i]
          BY <1>2, <4>2
        <5>2. i # a => h[i - 1] = g[i - 1]
          BY <1>2, <4>2
        <5>3. g[i] = IF i = a THEN first ELSE step[<<i, g[i - 1]>>]
          BY <3>1, <5>1
        <5> QED
          BY <5>1, <5>2, <5>3
      <4> QED
        BY <4>1, <4>2
    <3> HIDE DEF h
    <3> QED
      BY <3>3, <3>4
  <2> QED
    BY <1>2, <2>1, <2>2
<1> HIDE DEF Good
<1>3. n \in Good
  BY <1>1, <1>2, AllReached
<1>4. PICK g \in [a..n -> V] : Fits(g, n)
  BY <1>3 DEF Good
<1>5. g[a] = first /\ \A i \in (a + 1)..n : g[i] = step[<<i, g[i - 1]>>]
  <2>1. \A i \in a..n : g[i] = IF i = a THEN first ELSE step[<<i, g[i - 1]>>]
    BY <1>4, Zenon
  <2>2. a \in a..n
    OBVIOUS
  <2>3. \A i \in (a + 1)..n : i \in a..n /\ i # a
    OBVIOUS
  <2> HIDE DEF Fits
  <2>4. \A i \in (a + 1)..n : g[i] = step[<<i, g[i - 1]>>]
    BY <2>1, <2>3, Zenon
  <2> QED
    BY <2>1, <2>2, <2>4, Zenon
<1>6. g \in [a..n -> V]
  BY <1>4
<1> HIDE DEF Fits
<1> QED
  BY <1>5, <1>6, Zenon DEF Steps

\* Its values stay where the steps lead.
LEMMA StepsTyped ==
  ASSUME NEW V, NEW a \in Nat, NEW n \in Nat, NEW g, g[a] \in V,
         \A i \in (a + 1)..n : g[i - 1] \in V => g[i] \in V
  PROVE  \A i \in a..n : g[i] \in V
<1> DEFINE Good == {k \in Nat : k \in a..n => g[k] \in V}
<1>1. a \in Good
  OBVIOUS
<1>2. ASSUME NEW k \in Nat, k >= a, k \in Good
      PROVE  k + 1 \in Good
  <2> SUFFICES ASSUME k + 1 \in a..n PROVE g[k + 1] \in V
    OBVIOUS
  <2>1. g[k] \in V /\ k + 1 \in (a + 1)..n
    BY <1>2
  <2>2. g[(k + 1) - 1] \in V
    BY <2>1
  <2> QED
    BY <2>1, <2>2
<1> HIDE DEF Good
<1>3. \A k \in Nat : k >= a => k \in Good
  BY <1>1, <1>2, AllReached
<1>4. ASSUME NEW k \in a..n PROVE g[k] \in V
  <2>1. k \in Nat /\ k >= a
    OBVIOUS
  <2> QED
    BY <1>3, <2>1 DEF Good
<1> QED
  BY <1>4

\* A finite set of numbers has a greatest one.
LEMMA GreatestExists ==
  ASSUME NEW S \in SUBSET Nat, IsFiniteSet(S), S # {}
  PROVE  \E x \in S : \A y \in S : y <= x
<1>1. PICK n \in Nat : ExistsSurjection(1..n, S)
  BY FS_NatSurjection
<1>2. PICK f \in [1..n -> S] : \A y \in S : \E i \in 1..n : f[i] = y
  BY <1>1 DEF ExistsSurjection, Surjection
<1> DEFINE Good == {k \in Nat : \E b \in Nat : \A i \in 1..n : i <= k => f[i] <= b}
<1>3. 0 \in Good
  OBVIOUS
<1>4. ASSUME NEW k \in Nat, k >= 0, k \in Good PROVE k + 1 \in Good
  <2>1. PICK b \in Nat : \A i \in 1..n : i <= k => f[i] <= b
    BY <1>4
  <2>2. PICK c \in Nat : k + 1 \in 1..n => c = f[k + 1]
    BY <1>2
  <2>3. PICK d \in Nat : b <= d /\ c <= d
    <3>1. b + c \in Nat /\ b <= b + c /\ c <= b + c
      OBVIOUS
    <3> QED
      BY <3>1
  <2>4. ASSUME NEW i \in 1..n, i <= k + 1 PROVE f[i] <= d
    <3>1. i <= k \/ i = k + 1
      BY <2>4
    <3>2. f[i] \in Nat
      BY <1>2
    <3> QED
      BY <2>1, <2>2, <2>3, <3>1, <3>2
  <2> QED
    BY <2>4
<1> HIDE DEF Good
<1>5. n \in Good
  BY <1>3, <1>4, AllReached
<1>6. PICK b \in Nat : \A y \in S : y <= b
  BY <1>2, <1>5 DEF Good
<1> DEFINE Gaps == {g \in Nat : \E y \in S : g = b - y}
<1>7. Gaps \in SUBSET Nat /\ Gaps # {}
  <2>1. PICK y \in S : TRUE
    OBVIOUS
  <2>2. b - y \in Nat
    BY <1>6, <2>1
  <2> QED
    BY <2>1, <2>2
<1>8. PICK g \in Gaps : \A h \in Gaps : g <= h
  <2> HIDE DEF Gaps
  <2> QED
    BY <1>7, LeastExists
<1>9. PICK x \in S : g = b - x
  BY <1>8
<1>10. ASSUME NEW y \in S PROVE y <= x
  <2>1. b - y \in Gaps
    BY <1>6
  <2>2. b - x <= b - y
    BY <1>8, <1>9, <2>1
  <2> QED
    BY <2>2
<1> QED
  BY <1>10

----------------------------------------------------------------------------

\* A piece of road has two ends.
PiecesHaveLength == \A s \in segments : Cardinality(Ends(s)) = 2

\* No step adds a piece without length.
LEMMA PiecesStay ==
  ASSUME PiecesHaveLength, [Next]_vars
  PROVE  PiecesHaveLength'
<1>1. \/ UNCHANGED segments
      \/ segments' = segments \cup Segments(unread)
  BY DEF Next, vars, ReadFeature, FindJunctions, BeginChain, Walk, Finish, Snap
<1> QED
  BY <1>1 DEF PiecesHaveLength, Segments, Ends

\* There are finitely many nodes.
LEMMA NodesAreFinite ==
  ASSUME IsFiniteSet(segments)
  PROVE  IsFiniteSet(Node) /\ Cardinality(Node) \in Nat
<1> DEFINE EndSets == {Ends(s) : s \in segments}
           f == [s \in segments |-> Ends(s)]
<1>1. f \in Surjection(segments, EndSets)
  BY DEF Surjection
<1>2. IsFiniteSet(EndSets)
  <2> HIDE DEF f, EndSets
  <2> QED
    BY <1>1, FS_Surjection
<1>3. \A e \in EndSets : IsFiniteSet(e)
  <2> SUFFICES ASSUME NEW s \in segments PROVE IsFiniteSet(Ends(s))
    OBVIOUS
  <2>1. PICK a, b : a = Ways[s[1]][s[2]] /\ b = Ways[s[1]][s[2] + 1]
    OBVIOUS
  <2>2. IsFiniteSet({a} \cup {b})
    BY FS_Singleton, FS_Union
  <2>3. Ends(s) = {a} \cup {b}
    BY <2>1 DEF Ends
  <2> QED
    BY <2>2, <2>3
<1>4. IsFiniteSet(UNION EndSets)
  <2> HIDE DEF EndSets
  <2> QED
    BY <1>2, <1>3, FS_UNION
<1>5. Node = UNION EndSets
  BY DEF Node
<1> QED
  BY <1>4, <1>5, FS_CardinalityType

\* Every node is joined to another one.
LEMMA NodeHasNeighbour ==
  ASSUME PiecesHaveLength, NEW n \in Node
  PROVE  Neighbours(n) # {}
<1>1. PICK s \in segments : n \in Ends(s)
  BY DEF Node
<1>2. Ends(s) # {n}
  BY FS_Singleton DEF PiecesHaveLength
<1>3. Ends(s) \ {n} # {}
  BY <1>1, <1>2
<1> QED
  BY <1>1, <1>3 DEF Neighbours

----------------------------------------------------------------------------
(* Joined: its recursion, and what it holds.                                *)

\* A set of nodes and all that are joined to one of them.
Wider(S) == S \cup UNION {Neighbours(m) : m \in S}

\* The recursion of Joined has a solution, and takes its steps.
LEMMA JoinedSteps ==
  ASSUME NEW n \in Node, NEW N \in Nat, N = Cardinality(Node)
  PROVE  \E within \in [0..N -> SUBSET Node] :
           /\ within[0] = {n} /\ Joined(n) = within[N]
           /\ \A hops \in 1..N : within[hops] = Wider(within[hops - 1])
<1>1. PICK V : V = SUBSET Node
  OBVIOUS
<1>2. {n} \in V
  BY <1>1
<1>3. \A S \in V : Wider(S) \in V
  BY <1>1 DEF Wider, Neighbours, Node
<1>4. PICK step \in [((0 + 1)..N) \X V -> V] :
        \A i \in (0 + 1)..N : \A S \in V : step[<<i, S>>] = Wider(S)
  <2> DEFINE s == [x \in ((0 + 1)..N) \X V |-> Wider(x[2])]
  <2>1. s \in [((0 + 1)..N) \X V -> V]
    BY <1>3
  <2>2. \A i \in (0 + 1)..N : \A S \in V : s[<<i, S>>] = Wider(S)
    OBVIOUS
  <2> HIDE DEF s
  <2> QED
    BY <2>1, <2>2
<1>5. PICK g \in [0..N -> V] : /\ g[0] = {n}
                               /\ \A i \in (0 + 1)..N : g[i] = step[<<i, g[i - 1]>>]
  <2>1. 0 \in Nat /\ N \in Nat /\ N >= 0 /\ step \in [((0 + 1)..N) \X V -> V]
    OBVIOUS
  <2>2. Steps(V, {n}, 0, N, step) # {}
    BY <1>2, <2>1, StepsExist
  <2> QED
    BY <2>2, Zenon DEF Steps
<1> DEFINE Fits(at) == at = [hops \in 0..N |-> IF hops = 0 THEN {n} ELSE Wider(at[hops - 1])]
<1>6. Fits(g)
  <2>1. \A i \in 0..N : g[i] = IF i = 0 THEN {n} ELSE Wider(g[i - 1])
    <3> SUFFICES ASSUME NEW i \in 0..N PROVE g[i] = IF i = 0 THEN {n} ELSE Wider(g[i - 1])
      OBVIOUS
    <3>1. i # 0 => i \in (0 + 1)..N /\ i - 1 \in 0..N
      OBVIOUS
    <3> QED
      BY <1>4, <1>5, <3>1
  <2>2. g = [i \in 0..N |-> g[i]]
    BY <1>5
  <2> QED
    BY <2>1, <2>2
<1>7. PICK at : at = CHOOSE f : Fits(f)
  OBVIOUS
<1>8. Fits(at)
  <2> HIDE DEF Fits
  <2> QED
    BY <1>6, <1>7
<1>9. Joined(n) = at[N]
  BY <1>7 DEF Joined, Wider
<1>10. \A i \in 0..N : at[i] = IF i = 0 THEN {n} ELSE Wider(at[i - 1])
  <2>1. at = [hops \in 0..N |-> IF hops = 0 THEN {n} ELSE Wider(at[hops - 1])]
    BY <1>8
  <2> HIDE DEF Fits
  <2> QED
    BY <2>1
<1>11. at[0] = {n} /\ \A i \in (0 + 1)..N : at[i] = Wider(at[i - 1])
  <2>1. 0 \in 0..N /\ \A i \in (0 + 1)..N : i \in 0..N /\ i # 0
    OBVIOUS
  <2> QED
    BY <1>10, <2>1, Zenon
<1>12. \A i \in 0..N : at[i] \in V
  <2>1. \A i \in (0 + 1)..N : at[i - 1] \in V => at[i] \in V
    BY <1>3, <1>11
  <2>2. at[0] \in V
    BY <1>2, <1>11
  <2> QED
    BY <2>1, <2>2, StepsTyped
<1>13. at \in [0..N -> V]
  <2>1. at = [hops \in 0..N |-> IF hops = 0 THEN {n} ELSE Wider(at[hops - 1])]
    BY <1>8
  <2> HIDE DEF Fits
  <2> QED
    BY <1>12, <2>1
<1>14. \A hops \in 1..N : at[hops] = Wider(at[hops - 1])
  BY <1>11
<1> QED
  BY <1>1, <1>9, <1>11, <1>13, <1>14

\* What is joined to a node stays within what no road leads out of.
LEMMA JoinedStaysWithin ==
  ASSUME NEW n \in Node, Cardinality(Node) \in Nat, NEW S, n \in S,
         \A m \in S : Neighbours(m) \subseteq S
  PROVE  Joined(n) \subseteq S
<1>1. PICK N \in Nat : N = Cardinality(Node)
  OBVIOUS
<1>2. PICK within \in [0..N -> SUBSET Node] :
        /\ within[0] = {n} /\ Joined(n) = within[N]
        /\ \A hops \in 1..N : within[hops] = Wider(within[hops - 1])
  BY <1>1, JoinedSteps
<1>3. PICK V : V = SUBSET S
  OBVIOUS
<1>4. \A hops \in (0 + 1)..N : within[hops - 1] \in V => within[hops] \in V
  BY <1>2, <1>3 DEF Wider
<1>5. within[0] \in V
  BY <1>2, <1>3
<1>6. \A hops \in 0..N : within[hops] \in V
  BY <1>4, <1>5, StepsTyped
<1> QED
  BY <1>2, <1>3, <1>6

\* Its neighbours and theirs are joined to it.
LEMMA JoinedReaches ==
  ASSUME NEW n \in Node, NEW N \in Nat, N = Cardinality(Node), N >= 2
  PROVE  Wider(Wider({n})) \subseteq Joined(n)
<1>1. PICK within \in [0..N -> SUBSET Node] :
        /\ within[0] = {n} /\ Joined(n) = within[N]
        /\ \A hops \in 1..N : within[hops] = Wider(within[hops - 1])
  BY JoinedSteps
<1>2. within[2] = Wider(Wider({n}))
  <2>1. 1 \in 1..N /\ 2 \in 1..N /\ 1 - 1 = 0 /\ 2 - 1 = 1
    OBVIOUS
  <2> QED
    BY <1>1, <2>1
<1> DEFINE Good == {k \in Nat : k <= N => within[2] \subseteq within[k]}
<1>3. 2 \in Good
  OBVIOUS
<1>4. ASSUME NEW k \in Nat, k >= 2, k \in Good PROVE k + 1 \in Good
  <2> SUFFICES ASSUME k + 1 <= N PROVE within[2] \subseteq within[k + 1]
    OBVIOUS
  <2>1. k + 1 \in 1..N /\ k + 1 - 1 = k /\ k <= N
    BY <1>4
  <2>2. within[k + 1] = Wider(within[k])
    BY <1>1, <2>1
  <2> QED
    BY <1>4, <2>1, <2>2 DEF Wider
<1> HIDE DEF Good
<1>5. N \in Good
  BY <1>3, <1>4, AllReached
<1>6. within[2] \subseteq within[N]
  BY <1>5 DEF Good
<1> QED
  BY <1>1, <1>2, <1>6

----------------------------------------------------------------------------
(* When the graph is finished no road has been forgotten.                   *)

\* Where one road has been walked all have.
LEMMA RoadsAtTouched ==
  ASSUME ChainInv, pc = "ready", NEW n, Touched(n)
  PROVE  \A m \in Neighbours(n) : <<n, m>> \in walked /\ Touched(m)
<1>1. Unwalked(n) = {}
  BY DEF ChainInv, AllOrNone, Walking
<1> QED
  BY <1>1 DEF Unwalked, Touched, ChainInv, Mirrored

\* What has not been walked is two points joined twice, and nothing else.
LEMMA UntouchedAreTwins ==
  ASSUME ChainInv, PiecesHaveLength, pc = "ready", NEW n \in Node, ~Touched(n)
  PROVE  n \in Twins
<1> DEFINE U == {m \in Node : ~Touched(m)}
<1>1. \A m \in U : Neighbours(m) \subseteq U
  <2> SUFFICES ASSUME NEW m \in U, NEW k \in Neighbours(m) PROVE k \in U
    OBVIOUS
  <2>1. m \in Neighbours(k) /\ k \in Node
    BY NeighboursMutual
  <2> QED
    BY <2>1, RoadsAtTouched
<1>2. \A m \in U : m \notin junctions /\ ~IsJunction(m)
  <2> SUFFICES ASSUME NEW m \in U PROVE m \notin junctions /\ ~IsJunction(m)
    OBVIOUS
  <2>1. m \notin junctions
    BY NodeHasNeighbour DEF ChainInv, Unwalked, Touched
  <2> QED
    BY <2>1 DEF ChainInv, StartsAreKnown
<1> HIDE DEF U
<1>3. n \in U
  BY DEF U
<1>4. PICK N \in Nat : N = Cardinality(Node)
  BY NodesAreFinite DEF ChainInv
<1>5. IsFiniteSet(Node)
  BY NodesAreFinite DEF ChainInv
<1>6. Joined(n) \subseteq U
  BY <1>1, <1>3, <1>4, JoinedStaysWithin
<1>7. PICK a : a \in Neighbours(n)
  BY NodeHasNeighbour
<1>8. a # n /\ a \in Node /\ n \in Neighbours(a) /\ a \in U
  BY <1>1, <1>3, <1>7, NeighboursMutual
<1>9. IsFiniteSet({n} \cup {a}) /\ Cardinality({n} \cup {a}) = 2
  <2>1. IsFiniteSet({n}) /\ Cardinality({n}) = 1 /\ a \notin {n}
    BY <1>8, FS_Singleton
  <2>2. IsFiniteSet({n} \cup {a}) /\ Cardinality({n} \cup {a}) = Cardinality({n}) + 1
    BY <2>1, FS_AddElement, Zenon
  <2> QED
    BY <2>1, <2>2
<1>10. N >= 2
  <2>1. {n} \cup {a} \in SUBSET Node
    BY <1>8
  <2>2. Cardinality({n} \cup {a}) <= Cardinality(Node)
    BY <1>5, <2>1, FS_Subset, Zenon
  <2> QED
    BY <1>4, <1>9, <2>2
<1>11. Wider(Wider({n})) \subseteq Joined(n)
  BY <1>4, <1>10, JoinedReaches
<1>12. /\ Neighbours(n) \subseteq Joined(n) /\ n \in Joined(n)
       /\ \A m \in Neighbours(n) : Neighbours(m) \subseteq Joined(n)
  BY <1>11 DEF Wider
<1>13. IsFiniteSet(Joined(n)) /\ Cardinality(Joined(n)) \in Nat
  <2>1. Joined(n) \in SUBSET Node
    BY <1>6 DEF U
  <2>2. IsFiniteSet(Joined(n))
    BY <1>5, <2>1, FS_Subset, Zenon
  <2> QED
    BY <2>2, FS_CardinalityType
<1>14. Cardinality(Joined(n)) <= 2
  <2> SUFFICES ASSUME Cardinality(Joined(n)) > 2 PROVE FALSE
    BY <1>13
  <2>1. Joined(n) \in Rings
    BY <1>2, <1>6 DEF Rings
  <2>2. Joined(n) \cap junctions # {}
    BY <2>1 DEF ChainInv, StartsAreKnown
  <2> QED
    BY <1>2, <1>6, <2>2
<1>15. Joined(n) = {n} \cup {a}
  <2>1. {n} \cup {a} \in SUBSET Joined(n)
    BY <1>7, <1>12
  <2>2. /\ Cardinality({n} \cup {a}) <= Cardinality(Joined(n))
        /\ Cardinality(Joined(n)) = Cardinality({n} \cup {a}) => Joined(n) = {n} \cup {a}
    BY <1>13, <2>1, FS_Subset, Zenon
  <2> QED
    BY <1>9, <1>13, <1>14, <2>2
<1>16. Neighbours(n) = {a} /\ Neighbours(a) = {n}
  <2>1. n \notin Neighbours(n) /\ a \notin Neighbours(a)
    BY DEF Neighbours
  <2> QED
    BY <1>7, <1>8, <1>12, <1>15, <2>1
<1>17. Degree(n) = 2 /\ Degree(a) = 2 /\ Cardinality(Neighbours(n)) = 1
  BY <1>2, <1>3, <1>8, <1>16, FS_Singleton DEF IsJunction
<1> QED
  BY <1>16, <1>17 DEF Twins

----------------------------------------------------------------------------
(* Courses: the roads of the finished graph, from either end.               *)

\* A way between two nodes that stay: how many nodes it passes, which, and how
\* far each is from somewhere.
Course == [size : Nat, at : [Nat -> Plane], from : [Nat -> Int]]

IsCourse(way) ==
  /\ way.size >= 2
  /\ \A i \in 1..(way.size - 1) :
       /\ way.at[i + 1] \in Neighbours(way.at[i])
       /\ way.from[i + 1] = way.from[i] + Length({way.at[i], way.at[i + 1]})
  /\ \A i \in 2..(way.size - 1) :
       ~IsJunction(way.at[i]) /\ way.at[i] \notin Kept /\ way.at[i - 1] # way.at[i + 1]
  /\ \A i, j \in 1..way.size : i < j /\ way.at[i] = way.at[j] => i = 1 /\ j = way.size
  /\ way.at[1] \in Kept /\ way.at[way.size] \in Kept

\* Behind every kept road there is a course.
LEMMA TripIsCourse ==
  ASSUME ChainInv, pc = "ready", NEW trip \in Done
  PROVE  trip \in Course /\ IsCourse(trip)
<1>1. trip \in Trip /\ IsTrip(trip) /\ RoadOf(trip) \in roads
  BY DEF Done
<1>2. trip \in Course
  BY <1>1 DEF Trip, Course
<1>3. trip.at[1] \in Kept /\ trip.at[trip.size] \in Kept
  BY <1>1 DEF Kept, RoadOf
<1>4. \A i \in 1..(trip.size - 1) :
        /\ trip.at[i + 1] \in Neighbours(trip.at[i])
        /\ trip.from[i + 1] = trip.from[i] + Length({trip.at[i], trip.at[i + 1]})
  BY <1>1 DEF IsTrip, ChainInv, Mirrored
<1>5. ASSUME NEW i \in 2..(trip.size - 1)
      PROVE  ~IsJunction(trip.at[i]) /\ trip.at[i] \notin Kept /\ trip.at[i - 1] # trip.at[i + 1]
  <2>1. trip.at[i] \notin junctions /\ trip.at[i] \notin Kept /\ trip.at[i - 1] # trip.at[i + 1]
    BY <1>1 DEF IsTrip
  <2>2. i \in 1..(trip.size - 1)
    BY <1>1 DEF Trip
  <2>3. trip.at[i] \in Node
    BY <1>4, <2>2, NeighboursMutual
  <2> QED
    BY <2>1, <2>3 DEF ChainInv, StartsAreKnown
<1>6. trip.size >= 2
      /\ \A i, j \in 1..trip.size : i < j /\ trip.at[i] = trip.at[j] => i = 1 /\ j = trip.size
  BY <1>1 DEF IsTrip
<1> QED
  BY <1>2, <1>3, <1>4, <1>5, <1>6 DEF IsCourse

\* The same way from its other end.
IsBack(back, way) ==
  /\ back.size = way.size
  /\ \A i \in 1..way.size : /\ back.at[i] = way.at[way.size + 1 - i]
                            /\ back.from[i] = way.from[way.size] - way.from[way.size + 1 - i]

\* Every course can be gone back.
LEMMA BackExists ==
  ASSUME NEW way \in Course
  PROVE  \E back \in Course : IsBack(back, way)
<1>1. PICK k \in Nat : k = way.size
  BY DEF Course
<1>2. way.at \in [Nat -> Plane] /\ way.from \in [Nat -> Int]
  BY DEF Course
<1> DEFINE Flip(i) == IF i \in 1..k THEN k + 1 - i ELSE i
<1>3. \A i \in Nat : Flip(i) \in Nat
  BY <1>1
<1>4. \A i \in 1..k : Flip(i) = k + 1 - i /\ i \in Nat
  OBVIOUS
<1> HIDE DEF Flip
<1>5. PICK at \in [Nat -> Plane] : at = [i \in Nat |-> way.at[Flip(i)]]
  BY <1>2, <1>3
<1>6. PICK from \in [Nat -> Int] : from = [i \in Nat |-> way.from[k] - way.from[Flip(i)]]
  <2>1. PICK far \in Int : far = way.from[k]
    BY <1>1, <1>2
  <2>2. \A i \in Nat : far - way.from[Flip(i)] \in Int
    BY <1>2, <1>3
  <2>3. [i \in Nat |-> far - way.from[Flip(i)]] \in [Nat -> Int]
    BY <2>2
  <2> QED
    BY <2>1, <2>3
<1>7. PICK back : back = [size |-> k, at |-> at, from |-> from]
  OBVIOUS
<1>8. back \in Course
  BY <1>1, <1>7 DEF Course
<1>9. \A i \in 1..k : at[i] = way.at[k + 1 - i] /\ from[i] = way.from[k] - way.from[k + 1 - i]
  BY <1>4, <1>5, <1>6
<1> QED
  BY <1>1, <1>7, <1>8, <1>9 DEF IsBack

\* Its way back is a course.
LEMMA BackIsCourse ==
  ASSUME NEW way \in Course, IsCourse(way), NEW back \in Course, IsBack(back, way)
  PROVE  IsCourse(back)
<1>1. PICK k \in Nat : k = way.size
  BY DEF Course
<1>2. /\ back.size = k /\ k >= 2
      /\ \A i \in 1..k : back.at[i] = way.at[k + 1 - i]
                         /\ back.from[i] = way.from[k] - way.from[k + 1 - i]
  BY <1>1 DEF IsBack, IsCourse
<1>3. way.from \in [Nat -> Int]
  BY DEF Course
<1>4. ASSUME NEW i \in 1..(k - 1)
      PROVE  /\ back.at[i + 1] \in Neighbours(back.at[i])
             /\ back.from[i + 1] = back.from[i] + Length({back.at[i], back.at[i + 1]})
  <2>1. PICK j \in 1..(k - 1) : j = k - i
    OBVIOUS
  <2>2. i \in 1..k /\ i + 1 \in 1..k /\ k + 1 - i = j + 1 /\ k + 1 - (i + 1) = j
    BY <2>1
  <2>3. back.at[i] = way.at[j + 1] /\ back.at[i + 1] = way.at[j]
        /\ back.from[i] = way.from[k] - way.from[j + 1]
        /\ back.from[i + 1] = way.from[k] - way.from[j]
    BY <1>2, <2>2
  <2>4. /\ way.at[j + 1] \in Neighbours(way.at[j])
        /\ way.from[j + 1] = way.from[j] + Length({way.at[j], way.at[j + 1]})
    BY <1>1 DEF IsCourse
  <2>5. {way.at[j], way.at[j + 1]} = {back.at[i], back.at[i + 1]}
    BY <2>3
  <2>6. PICK piece : piece = Length({back.at[i], back.at[i + 1]})
    OBVIOUS
  <2>7. way.from[j + 1] = way.from[j] + piece
    BY <2>4, <2>5, <2>6
  <2>8. piece \in Nat
    <3>1. i \in Nat /\ i + 1 \in Nat
      OBVIOUS
    <3>2. back.at[i] \in Plane /\ back.at[i + 1] \in Plane
      BY <3>1 DEF Course
    <3> QED
      BY <2>6, <3>2, LengthIsNat
  <2>9. back.from[i + 1] = back.from[i] + piece
    <3>1. PICK a \in Int : a = way.from[j]
      BY <1>3
    <3>2. PICK c \in Int : c = way.from[k]
      BY <1>3
    <3>3. back.from[i] = c - (a + piece) /\ back.from[i + 1] = c - a
      BY <2>3, <2>7, <3>1, <3>2
    <3> QED
      BY <2>8, <3>3
  <2> QED
    BY <2>3, <2>4, <2>6, <2>9, NeighboursMutual
<1>5. ASSUME NEW i \in 2..(k - 1)
      PROVE  ~IsJunction(back.at[i]) /\ back.at[i] \notin Kept /\ back.at[i - 1] # back.at[i + 1]
  <2>1. PICK j \in 2..(k - 1) : j = k + 1 - i
    OBVIOUS
  <2>2. /\ i \in 1..k /\ i - 1 \in 1..k /\ i + 1 \in 1..k
        /\ k + 1 - (i - 1) = j + 1 /\ k + 1 - (i + 1) = j - 1
    BY <2>1
  <2>3. back.at[i] = way.at[j] /\ back.at[i - 1] = way.at[j + 1] /\ back.at[i + 1] = way.at[j - 1]
    BY <1>2, <2>1, <2>2
  <2>4. ~IsJunction(way.at[j]) /\ way.at[j] \notin Kept /\ way.at[j - 1] # way.at[j + 1]
    BY <1>1 DEF IsCourse
  <2> QED
    BY <2>3, <2>4
<1>6. ASSUME NEW i \in 1..k, NEW j \in 1..k, i < j, back.at[i] = back.at[j]
      PROVE  i = 1 /\ j = k
  <2>1. PICK p \in 1..k : p = k + 1 - i
    OBVIOUS
  <2>2. PICK q \in 1..k : q = k + 1 - j
    OBVIOUS
  <2>3. q < p /\ way.at[q] = way.at[p]
    BY <1>2, <1>6, <2>1, <2>2
  <2>4. q = 1 /\ p = k
    BY <1>1, <2>3 DEF IsCourse
  <2> QED
    BY <2>1, <2>2, <2>4
<1>7. back.at[1] \in Kept /\ back.at[k] \in Kept
  <2>1. 1 \in 1..k /\ k \in 1..k /\ k + 1 - 1 = k /\ k + 1 - k = 1
    BY <1>2
  <2>2. way.at[1] \in Kept /\ way.at[k] \in Kept
    BY <1>1 DEF IsCourse
  <2> QED
    BY <1>2, <2>1, <2>2
<1> QED
  BY <1>2, <1>4, <1>5, <1>6, <1>7 DEF IsCourse

\* It passes no node twice, so it has no more pieces than there are nodes.
LEMMA CourseIsShort ==
  ASSUME IsFiniteSet(Node), NEW way \in Course, IsCourse(way)
  PROVE  way.size - 1 <= Cardinality(Node)
<1>1. PICK k \in Nat : k = way.size
  BY DEF Course
<1>2. k >= 2
  BY <1>1 DEF IsCourse
<1> DEFINE f == [i \in 1..(k - 1) |-> way.at[i]]
<1>3. \A i \in 1..(k - 1) : way.at[i] \in Node
  BY <1>1, NeighboursMutual DEF IsCourse
<1>4. \A i, j \in 1..(k - 1) : way.at[i] = way.at[j] => i = j
  <2> SUFFICES ASSUME NEW i \in 1..(k - 1), NEW j \in 1..(k - 1), way.at[i] = way.at[j], i # j
               PROVE  FALSE
    OBVIOUS
  <2>1. i \in 1..k /\ j \in 1..k /\ (i < j \/ j < i) /\ i # k /\ j # k
    OBVIOUS
  <2>2. \A g, h \in 1..k : g < h /\ way.at[g] = way.at[h] => h = k
    BY <1>1 DEF IsCourse
  <2> QED
    BY <2>1, <2>2
<1>5. f \in Injection(1..(k - 1), Node)
  BY <1>3, <1>4 DEF Injection, IsInjective
<1> HIDE DEF f
<1>6. Cardinality(1..(k - 1)) <= Cardinality(Node)
  BY <1>5, FS_Injection
<1>7. Cardinality(1..(k - 1)) = k - 1
  BY <1>2, FS_Interval
<1> QED
  BY <1>1, <1>6, <1>7

----------------------------------------------------------------------------
(* Stretch: its recursion, and where it leads.                              *)

Spot == [previous : Plane, here : Plane, length : Nat]

\* One hop further along a stretch that leaves n.
Further(n, at) ==
  IF Onward(n, at) = {} THEN at
  ELSE LET next == CHOOSE m \in Onward(n, at) : TRUE
       IN [previous |-> at.here, here |-> next, length |-> at.length + Length({at.here, next})]

\* A hop leads to a spot.
LEMMA FurtherIsSpot ==
  ASSUME OnPlane, NEW n, NEW at \in Spot
  PROVE  Further(n, at) \in Spot
<1>1. CASE Onward(n, at) = {}
  BY <1>1 DEF Further
<1>2. CASE Onward(n, at) # {}
  <2>1. PICK next : next = CHOOSE m \in Onward(n, at) : TRUE
    OBVIOUS
  <2>2. next \in Neighbours(at.here)
    BY <1>2, <2>1 DEF Onward
  <2>3. next \in Plane /\ at.here \in Plane /\ at.length \in Nat
    BY <2>2, NeighboursOnPlane DEF Spot
  <2>4. PICK piece \in Nat : piece = Length({at.here, next})
    BY <2>3, LengthIsNat
  <2>5. Further(n, at) = [previous |-> at.here, here |-> next, length |-> at.length + piece]
    BY <1>2, <2>1, <2>4 DEF Further
  <2>6. at.length + piece \in Nat
    BY <2>3, <2>4
  <2> QED
    BY <2>3, <2>5, <2>6 DEF Spot
<1> QED
  BY <1>1, <1>2

\* The spots of a stretch, one for every hop.
Spots(n, first, N) ==
  {after \in [0..N -> Spot] :
     /\ after[0] = [previous |-> n, here |-> first, length |-> Length({n, first})]
     /\ Stretch(n, first) = after[N]
     /\ \A hops \in 1..N : after[hops] = Further(n, after[hops - 1])}

\* The recursion of Stretch has a solution, and takes its steps.
LEMMA StretchSteps ==
  ASSUME OnPlane, NEW n, NEW first \in Neighbours(n), NEW N \in Nat, N = Cardinality(Node)
  PROVE  Spots(n, first, N) # {}
<1>1. PICK begin : begin = [previous |-> n, here |-> first, length |-> Length({n, first})]
  OBVIOUS
<1>2. begin \in Spot
  <2>1. n \in Plane /\ first \in Plane
    BY NeighboursOnPlane
  <2>2. Length({n, first}) \in Nat
    BY <2>1, LengthIsNat
  <2> QED
    BY <1>1, <2>1, <2>2 DEF Spot
<1>3. \A at \in Spot : Further(n, at) \in Spot
  BY FurtherIsSpot
<1>4. PICK step \in [((0 + 1)..N) \X Spot -> Spot] :
        \A i \in (0 + 1)..N : \A at \in Spot : step[<<i, at>>] = Further(n, at)
  <2> DEFINE s == [x \in ((0 + 1)..N) \X Spot |-> Further(n, x[2])]
  <2>1. s \in [((0 + 1)..N) \X Spot -> Spot]
    BY <1>3
  <2>2. \A i \in (0 + 1)..N : \A at \in Spot : s[<<i, at>>] = Further(n, at)
    OBVIOUS
  <2> HIDE DEF s
  <2> QED
    BY <2>1, <2>2
<1>5. PICK g \in [0..N -> Spot] : /\ g[0] = begin
                                  /\ \A i \in (0 + 1)..N : g[i] = step[<<i, g[i - 1]>>]
  <2>1. 0 \in Nat /\ N \in Nat /\ N >= 0 /\ step \in [((0 + 1)..N) \X Spot -> Spot]
    OBVIOUS
  <2>2. Steps(Spot, begin, 0, N, step) # {}
    BY <1>2, <2>1, StepsExist
  <2> QED
    BY <2>2, Zenon DEF Steps
<1> DEFINE Fits(f) == f = [hops \in 0..N |-> IF hops = 0 THEN begin ELSE Further(n, f[hops - 1])]
<1>6. Fits(g)
  <2>1. \A i \in 0..N : g[i] = IF i = 0 THEN begin ELSE Further(n, g[i - 1])
    <3> SUFFICES ASSUME NEW i \in 0..N PROVE g[i] = IF i = 0 THEN begin ELSE Further(n, g[i - 1])
      OBVIOUS
    <3>1. i # 0 => i \in (0 + 1)..N /\ i - 1 \in 0..N
      OBVIOUS
    <3> QED
      BY <1>4, <1>5, <3>1
  <2>2. g = [i \in 0..N |-> g[i]]
    BY <1>5
  <2> QED
    BY <2>1, <2>2
<1>7. PICK after : after = CHOOSE f : Fits(f)
  OBVIOUS
<1>8. Fits(after)
  <2> HIDE DEF Fits
  <2> QED
    BY <1>6, <1>7
<1>9. Stretch(n, first) = after[N]
  BY <1>1, <1>7 DEF Stretch, Further
<1>10. \A i \in 0..N : after[i] = IF i = 0 THEN begin ELSE Further(n, after[i - 1])
  <2>1. after = [hops \in 0..N |-> IF hops = 0 THEN begin ELSE Further(n, after[hops - 1])]
    BY <1>8
  <2> HIDE DEF Fits
  <2> QED
    BY <2>1
<1>11. after[0] = begin /\ \A i \in (0 + 1)..N : after[i] = Further(n, after[i - 1])
  <2>1. 0 \in 0..N /\ \A i \in (0 + 1)..N : i \in 0..N /\ i # 0
    OBVIOUS
  <2> QED
    BY <1>10, <2>1, Zenon
<1>12. \A i \in 0..N : after[i] \in Spot
  <2>1. \A i \in (0 + 1)..N : after[i - 1] \in Spot => after[i] \in Spot
    BY <1>3, <1>11
  <2>2. after[0] \in Spot
    BY <1>2, <1>11
  <2> QED
    BY <2>1, <2>2, StepsTyped
<1>13. after \in [0..N -> Spot]
  <2>1. after = [hops \in 0..N |-> IF hops = 0 THEN begin ELSE Further(n, after[hops - 1])]
    BY <1>8
  <2> HIDE DEF Fits
  <2> QED
    BY <1>12, <2>1
<1>14. \A hops \in 1..N : after[hops] = Further(n, after[hops - 1])
  BY <1>11
<1> QED
  BY <1>1, <1>9, <1>11, <1>13, <1>14 DEF Spots

\* A spot is where the course passes its i-th node, begun at its b-th.
IsAt(spot, way, b, i) ==
  /\ spot.previous = way.at[i - 1] /\ spot.here = way.at[i]
  /\ spot.length = way.from[i] - way.from[b]

\* A hop along a course follows it.
LEMMA FurtherFollows ==
  ASSUME IsFiniteSet(segments), NEW way \in Course, IsCourse(way), NEW b \in 1..(way.size - 1),
         NEW i \in (b + 1)..(way.size - 1), NEW at \in Spot, IsAt(at, way, b, i)
  PROVE  IsAt(Further(way.at[b], at), way, b, i + 1)
<1>1. PICK k \in Nat : k = way.size
  BY DEF Course
<1>2. i \in 2..(k - 1) /\ i \in 1..(k - 1) /\ b \in 1..k /\ i \in 1..k /\ i - 1 \in 1..(k - 1)
      /\ i - 1 + 1 = i /\ i + 1 - 1 = i /\ b < i /\ i # k
  BY <1>1
<1>3. ~IsJunction(way.at[i]) /\ way.at[i] \notin Kept /\ way.at[i - 1] # way.at[i + 1]
  BY <1>1, <1>2 DEF IsCourse
<1>4. way.at[i] # way.at[b]
  <2>1. \A g, h \in 1..k : g < h /\ way.at[g] = way.at[h] => h = k
    BY <1>1 DEF IsCourse
  <2> QED
    BY <1>2, <2>1
<1>5. way.at[i + 1] \in Neighbours(way.at[i]) /\ way.at[i - 1] \in Neighbours(way.at[i])
  <2>1. \A j \in 1..(k - 1) : way.at[j + 1] \in Neighbours(way.at[j])
    BY <1>1 DEF IsCourse
  <2>2. way.at[i - 1 + 1] \in Neighbours(way.at[i - 1])
    BY <1>2, <2>1
  <2> QED
    BY <1>2, <2>1, <2>2, NeighboursMutual
<1>6. Neighbours(way.at[i]) = {way.at[i - 1], way.at[i + 1]}
  BY <1>3, <1>5, NoFork
<1>7. at.previous = way.at[i - 1] /\ at.here = way.at[i] /\ at.length = way.from[i] - way.from[b]
  BY DEF IsAt
<1>8. Onward(way.at[b], at) = {way.at[i + 1]}
  BY <1>3, <1>4, <1>6, <1>7 DEF Onward
<1>9. PICK next : next = CHOOSE m \in Onward(way.at[b], at) : TRUE
  OBVIOUS
<1>10. next = way.at[i + 1]
  BY <1>8, <1>9
<1>11. Further(way.at[b], at) =
         [previous |-> at.here, here |-> next, length |-> at.length + Length({at.here, next})]
  BY <1>8, <1>9 DEF Further
<1>12. PICK piece : piece = Length({way.at[i], way.at[i + 1]})
  OBVIOUS
<1>13. piece \in Nat
  <2>1. way.at[i] \in Plane /\ way.at[i + 1] \in Plane
    BY <1>2 DEF Course
  <2> QED
    BY <1>12, <2>1, LengthIsNat
<1>14. way.from[i + 1] = way.from[i] + piece
  BY <1>1, <1>2, <1>12 DEF IsCourse
<1>15. at.length + piece = way.from[i + 1] - way.from[b]
  <2>1. way.from[i] \in Int /\ way.from[b] \in Int
    BY <1>2 DEF Course
  <2> QED
    BY <1>7, <1>13, <1>14, <2>1
<1> QED
  BY <1>2, <1>7, <1>10, <1>11, <1>12, <1>15 DEF IsAt

\* From every node of a course the stretch leads to its end.
LEMMA StretchFollows ==
  ASSUME OnPlane, IsFiniteSet(segments), NEW way \in Course, IsCourse(way),
         NEW b \in 1..(way.size - 1)
  PROVE  /\ Stretch(way.at[b], way.at[b + 1]).here = way.at[way.size]
         /\ Stretch(way.at[b], way.at[b + 1]).length = way.from[way.size] - way.from[b]
<1>1. PICK k \in Nat : k = way.size
  BY DEF Course
<1>2. PICK N \in Nat : N = Cardinality(Node)
  BY NodesAreFinite
<1>3. k - 1 <= N /\ k >= 2 /\ b \in 1..(k - 1)
  BY <1>1, <1>2, NodesAreFinite, CourseIsShort DEF IsCourse
<1>4. PICK n : n = way.at[b]
  OBVIOUS
<1>5. way.at[b + 1] \in Neighbours(n)
        /\ way.from[b + 1] = way.from[b] + Length({n, way.at[b + 1]})
  BY <1>1, <1>3, <1>4 DEF IsCourse
<1>6. PICK after \in [0..N -> Spot] :
        /\ after[0] =
             [previous |-> n, here |-> way.at[b + 1], length |-> Length({n, way.at[b + 1]})]
        /\ Stretch(n, way.at[b + 1]) = after[N]
        /\ \A hops \in 1..N : after[hops] = Further(n, after[hops - 1])
  <2>1. PICK first \in Neighbours(n) : first = way.at[b + 1]
    BY <1>5
  <2>2. Spots(n, first, N) # {}
    BY <1>2, StretchSteps
  <2> QED
    BY <2>1, <2>2 DEF Spots
<1> DEFINE Good == {h \in Nat : h <= N =>
                      IsAt(after[h], way, b, IF b + 1 + h <= k THEN b + 1 + h ELSE k)}
<1>7. 0 \in Good
  <2>1. PICK piece : piece = Length({n, way.at[b + 1]})
    OBVIOUS
  <2>2. piece \in Nat /\ way.from[b] \in Int
    <3>1. n \in Plane /\ way.at[b + 1] \in Plane
      BY <1>5, NeighboursOnPlane
    <3>2. b \in Nat
      OBVIOUS
    <3> QED
      BY <2>1, <3>1, <3>2, LengthIsNat DEF Course
  <2>3. piece = way.from[b + 1] - way.from[b]
    BY <1>5, <2>1, <2>2
  <2>4. b + 1 - 1 = b /\ b + 1 + 0 = b + 1 /\ b + 1 + 0 <= k
    BY <1>3
  <2>5. IsAt(after[0], way, b, b + 1)
    BY <1>4, <1>6, <2>1, <2>3, <2>4 DEF IsAt
  <2> QED
    BY <2>4, <2>5
<1>8. ASSUME NEW h \in Nat, h >= 0, h \in Good PROVE h + 1 \in Good
  <2> SUFFICES ASSUME h + 1 <= N
               PROVE  IsAt(after[h + 1], way, b,
                           IF b + 1 + (h + 1) <= k THEN b + 1 + (h + 1) ELSE k)
    OBVIOUS
  <2>1. h + 1 \in 1..N /\ h + 1 - 1 = h /\ h \in 0..N
    BY <1>8
  <2>2. after[h + 1] = Further(n, after[h]) /\ after[h] \in Spot
    BY <1>6, <2>1
  <2>3. CASE b + 1 + h < k
    <3>1. PICK i \in (b + 1)..(k - 1) : i = b + 1 + h
      BY <2>3
    <3>2. IsAt(after[h], way, b, i)
      BY <1>8, <2>1, <2>3, <3>1
    <3>3. IsAt(after[h + 1], way, b, i + 1)
      BY <1>1, <1>4, <2>2, <3>1, <3>2, FurtherFollows
    <3>4. b + 1 + (h + 1) = i + 1 /\ b + 1 + (h + 1) <= k
      BY <2>3, <3>1
    <3> QED
      BY <3>3, <3>4
  <2>4. CASE ~(b + 1 + h < k)
    <3>1. ~(b + 1 + (h + 1) <= k) /\ (b + 1 + h <= k => b + 1 + h = k)
      BY <2>4
    <3>2. IsAt(after[h], way, b, k)
      BY <1>8, <2>1, <3>1
    <3>3. after[h].here \in Kept
      BY <1>1, <3>2 DEF IsAt, IsCourse
    <3>4. after[h + 1] = after[h]
      BY <2>2, <3>3 DEF Further, Onward
    <3> QED
      BY <3>1, <3>2, <3>4
  <2> QED
    BY <2>3, <2>4
<1> HIDE DEF Good
<1>9. N \in Good
  BY <1>7, <1>8, AllReached
<1>10. IsAt(after[N], way, b, k)
  <2>1. ~(b + 1 + N <= k) \/ b + 1 + N = k
    BY <1>3
  <2> QED
    BY <1>9, <2>1 DEF Good
<1> QED
  BY <1>1, <1>4, <1>6, <1>10 DEF IsAt

----------------------------------------------------------------------------
(* The edges are the stretches.                                             *)

\* The edge that a stretch is to be.
EdgeOf(n, m) == [ends |-> {n, Stretch(n, m).here}, length |-> Stretch(n, m).length]

\* From both its ends the stretch of a road is that road.
LEMMA RoadIsStretch ==
  ASSUME RoadInv, pc = "ready", NEW trip \in Done
  PROVE  /\ EdgeOf(trip.at[1], trip.at[2]) = RoadOf(trip)
         /\ EdgeOf(trip.at[trip.size], trip.at[trip.size - 1]) = RoadOf(trip)
<1>1. PICK k \in Nat : k = trip.size
  BY DEF Done, Trip
<1>2. trip \in Course /\ IsCourse(trip) /\ trip.from \in [Nat -> Nat] /\ trip.from[1] = 0
  BY TripIsCourse DEF RoadInv, Done, Trip, IsTrip
<1>3. k >= 2 /\ 1 \in 1..(k - 1) /\ 1 + 1 = 2
  BY <1>1, <1>2 DEF IsCourse
<1>4. OnPlane /\ IsFiniteSet(segments)
  BY DEF RoadInv, GraphInv, ChainInv
<1>5. PICK far \in Nat : far = trip.from[k]
  BY <1>2
<1>6. EdgeOf(trip.at[1], trip.at[2]) = [ends |-> {trip.at[1], trip.at[k]}, length |-> far]
  <2>1. /\ Stretch(trip.at[1], trip.at[1 + 1]).here = trip.at[k]
        /\ Stretch(trip.at[1], trip.at[1 + 1]).length = trip.from[k] - trip.from[1]
    BY <1>1, <1>2, <1>3, <1>4, StretchFollows
  <2>2. trip.from[k] - trip.from[1] = far
    BY <1>2, <1>5
  <2> QED
    BY <1>3, <2>1, <2>2 DEF EdgeOf
<1>7. PICK back \in Course : IsBack(back, trip)
  BY <1>2, BackExists
<1>8. IsCourse(back)
  BY <1>2, <1>7, BackIsCourse
<1>9. /\ back.size = k /\ back.at[1] = trip.at[k] /\ back.at[2] = trip.at[k - 1]
      /\ back.at[k] = trip.at[1] /\ back.from[1] = 0 /\ back.from[k] = far
  <2>1. /\ 1 \in 1..k /\ 2 \in 1..k /\ k \in 1..k
        /\ k + 1 - 1 = k /\ k + 1 - 2 = k - 1 /\ k + 1 - k = 1
    BY <1>3
  <2>2. /\ back.size = k
        /\ \A i \in 1..k : /\ back.at[i] = trip.at[k + 1 - i]
                           /\ back.from[i] = trip.from[k] - trip.from[k + 1 - i]
    BY <1>1, <1>7 DEF IsBack
  <2>3. back.from[1] = far - far /\ back.from[k] = far - 0
    BY <1>2, <1>5, <2>1, <2>2
  <2> QED
    BY <1>5, <2>1, <2>2, <2>3
<1>10. EdgeOf(trip.at[k], trip.at[k - 1]) = [ends |-> {trip.at[k], trip.at[1]}, length |-> far]
  <2>1. /\ Stretch(back.at[1], back.at[1 + 1]).here = back.at[k]
        /\ Stretch(back.at[1], back.at[1 + 1]).length = back.from[k] - back.from[1]
    BY <1>3, <1>4, <1>7, <1>8, <1>9, StretchFollows
  <2>2. back.from[k] - back.from[1] = far
    BY <1>9
  <2> QED
    BY <1>3, <1>9, <2>1, <2>2 DEF EdgeOf
<1>11. RoadOf(trip) = [ends |-> {trip.at[1], trip.at[k]}, length |-> far]
  BY <1>1, <1>5 DEF RoadOf
<1>12. {trip.at[k], trip.at[1]} = {trip.at[1], trip.at[k]}
  OBVIOUS
<1> QED
  BY <1>1, <1>6, <1>10, <1>11, <1>12

\* The nodes of a trip that stay are its two ends.
LEMMA KeptAtEnds ==
  ASSUME NEW trip \in Done, NEW i \in 1..trip.size
  PROVE  trip.at[i] \in Kept <=> i = 1 \/ i = trip.size
<1>1. trip.size \in Nat /\ IsTrip(trip) /\ RoadOf(trip) \in roads
  BY DEF Done, Trip
<1>2. trip.at[1] \in Kept /\ trip.at[trip.size] \in Kept
  BY <1>1 DEF Kept, RoadOf
<1>3. i \in 2..(trip.size - 1) => trip.at[i] \notin Kept
  BY <1>1 DEF IsTrip
<1>4. i \in 2..(trip.size - 1) \/ i = 1 \/ i = trip.size
  BY <1>1
<1> QED
  BY <1>2, <1>3, <1>4

\* Each road is a stretch, and each stretch a road.
LEMMA RoadsAreStretches ==
  ASSUME RoadInv, pc = "ready"
  PROVE  /\ \A r \in roads : \E n \in Kept : \E m \in Neighbours(n) : r = EdgeOf(n, m)
         /\ \A n \in Kept : \A m \in Neighbours(n) : EdgeOf(n, m) \in roads
<1>1. ASSUME NEW r \in roads
      PROVE  \E n \in Kept : \E m \in Neighbours(n) : r = EdgeOf(n, m)
  <2>1. PICK trip \in Done : RoadOf(trip) = r
    BY DEF RoadInv, ChainInv, RoadsAreTrips
  <2>2. trip.at[1] \in Kept /\ trip.at[2] \in Neighbours(trip.at[1])
    <3>1. trip.size \in Nat /\ IsCourse(trip)
      BY TripIsCourse DEF RoadInv, Course
    <3>2. 1 \in 1..(trip.size - 1) /\ 1 + 1 = 2
      BY <3>1 DEF IsCourse
    <3> QED
      BY <3>1, <3>2 DEF IsCourse
  <2>3. r = EdgeOf(trip.at[1], trip.at[2])
    BY <2>1, RoadIsStretch
  <2> QED
    BY <2>2, <2>3
<1>2. ASSUME NEW n \in Kept, NEW m \in Neighbours(n)
      PROVE  EdgeOf(n, m) \in roads
  <2>1. <<n, m>> \in walked
    BY KeptIsTouched, RoadsAtTouched DEF RoadInv, ChainInv
  <2>2. PICK trip \in Done : Passes(trip, n, m)
    BY <2>1 DEF RoadInv, ChainInv, WalkedIsPassed, Walking
  <2>3. trip.size \in Nat /\ RoadOf(trip) \in roads
    BY DEF Done, Trip
  <2>4. PICK i \in 1..(trip.size - 1) : \/ trip.at[i] = n /\ trip.at[i + 1] = m
                                        \/ trip.at[i] = m /\ trip.at[i + 1] = n
    BY <2>2 DEF Passes
  <2>5. i \in 1..trip.size /\ i + 1 \in 1..trip.size /\ i # trip.size /\ i + 1 # 1 /\ i + 1 - 1 = i
    BY <2>3
  <2>6. CASE trip.at[i] = n /\ trip.at[i + 1] = m
    <3>1. i = 1 /\ 1 + 1 = 2
      BY <2>5, <2>6, KeptAtEnds
    <3>2. EdgeOf(n, m) = RoadOf(trip)
      BY <2>6, <3>1, RoadIsStretch
    <3> QED
      BY <2>3, <3>2
  <2>7. CASE trip.at[i] = m /\ trip.at[i + 1] = n
    <3>1. i + 1 = trip.size /\ i = trip.size - 1
      BY <2>3, <2>5, <2>7, KeptAtEnds
    <3>2. EdgeOf(n, m) = RoadOf(trip)
      BY <2>7, <3>1, RoadIsStretch
    <3> QED
      BY <2>3, <3>2
  <2> QED
    BY <2>4, <2>6, <2>7
<1> QED
  BY <1>1, <1>2

\* The edges of the finished graph are the stretches of road between the nodes
\* that stay, with their lengths: none is lost, none is there that is not a road.
THEOREM EdgesHold == Spec => []EdgesAreStretches
<1>1. RoadInv => EdgesAreStretches
  <2> SUFFICES ASSUME RoadInv, pc = "ready"
               PROVE  roads = UNION {{EdgeOf(n, m) : m \in Neighbours(n)} : n \in Kept}
    BY DEF EdgesAreStretches, EdgeOf
  <2> DEFINE From(n) == {EdgeOf(n, m) : m \in Neighbours(n)}
             All == UNION {From(n) : n \in Kept}
  <2>1. ASSUME NEW r \in roads PROVE r \in All
    BY RoadsAreStretches
  <2>2. ASSUME NEW r \in All PROVE r \in roads
    <3>1. PICK n \in Kept : r \in From(n)
      OBVIOUS
    <3>2. PICK m \in Neighbours(n) : r = EdgeOf(n, m)
      BY <3>1
    <3> QED
      BY <3>2, RoadsAreStretches
  <2> HIDE DEF All
  <2>3. roads = All
    BY <2>1, <2>2
  <2> QED
    BY <2>3 DEF All
<1> QED
  BY <1>1, Contraction, PTL

----------------------------------------------------------------------------

\* No piece is longer than the longest.
LEMMA PiecesAreMeasured ==
  ASSUME OnPlane, IsFiniteSet(segments), NEW longest,
         longest = CHOOSE d \in {0} \cup {Length(Ends(s)) : s \in segments} :
                     \A s \in segments : Length(Ends(s)) <= d
  PROVE  /\ longest \in Nat
         /\ \A a : \A b \in Neighbours(a) : Length({a, b}) \in Nat /\ Length({a, b}) <= longest
<1> DEFINE D == {0} \cup {Length(Ends(s)) : s \in segments}
           f == [s \in segments |-> Length(Ends(s))]
           E == {Length(Ends(s)) : s \in segments}
<1>1. \A s \in segments : Length(Ends(s)) \in Nat
  <2> SUFFICES ASSUME NEW s \in segments PROVE Length(Ends(s)) \in Nat
    OBVIOUS
  <2>1. PICK a, b : Ends(s) = {a, b}
    BY DEF Ends
  <2>2. a \in Plane /\ b \in Plane
    BY <2>1 DEF OnPlane
  <2> QED
    BY <2>1, <2>2, LengthIsNat
<1>2. f \in Surjection(segments, E)
  BY DEF Surjection
<1>3. IsFiniteSet(E)
  <2> HIDE DEF f, E
  <2> QED
    BY <1>2, FS_Surjection
<1>4. IsFiniteSet(D)
  <2>1. IsFiniteSet({0} \cup E)
    BY <1>3, FS_Singleton, FS_Union
  <2> QED
    BY <2>1
<1>5. D \in SUBSET Nat /\ D # {}
  BY <1>1
<1>6. PICK x \in D : \A y \in D : y <= x
  <2> HIDE DEF D
  <2> QED
    BY <1>4, <1>5, GreatestExists
<1>7. \A s \in segments : Length(Ends(s)) <= x
  BY <1>6
<1>8. longest \in D /\ \A s \in segments : Length(Ends(s)) <= longest
  BY <1>6, <1>7
<1>9. ASSUME NEW a, NEW b \in Neighbours(a)
      PROVE  Length({a, b}) \in Nat /\ Length({a, b}) <= longest
  <2>1. PICK s \in segments : a \in Ends(s) /\ b \in Ends(s) \ {a}
    BY DEF Neighbours
  <2>2. Ends(s) = {a, b}
    BY <2>1 DEF Ends
  <2> QED
    BY <1>1, <1>8, <2>1, <2>2
<1> QED
  BY <1>5, <1>8, <1>9

\* In one direction or the other the nearest end of a road is near.
LEMMA AnEndIsNear ==
  ASSUME RoadInv, pc = "ready", NEW trip \in Done, NEW i \in 2..(trip.size - 1),
         NEW longest \in Nat,
         \A a : \A b \in Neighbours(a) : Length({a, b}) \in Nat /\ Length({a, b}) <= longest
  PROVE  \E m \in Neighbours(trip.at[i]) :
           /\ Stretch(trip.at[i], m).here \in Kept
           /\ 2 * Stretch(trip.at[i], m).length <= Spacing + longest
<1>1. PICK k \in Nat : k = trip.size
  BY DEF Done, Trip
<1>2. /\ trip \in Course /\ IsCourse(trip) /\ IsTrip(trip)
      /\ trip.from \in [Nat -> Nat] /\ trip.from[1] = 0
  BY TripIsCourse DEF RoadInv, Done, Trip, IsTrip
<1>3. OnPlane /\ IsFiniteSet(segments)
  BY DEF RoadInv, GraphInv, ChainInv
<1>4. /\ i \in 1..(k - 1) /\ i \in 1..k /\ i \in Nat /\ i - 1 \in 1..(k - 1) /\ i - 1 + 1 = i
      /\ k - 1 \in 2..(k - 1) /\ k - 1 \in 1..(k - 1) /\ k - 1 + 1 = k /\ k - 1 \in Nat
  BY <1>1
<1>5. PICK far \in Nat : far = trip.from[k]
  BY <1>2
<1>6. PICK gone \in Nat : gone = trip.from[i]
  BY <1>2, <1>4
<1>7. far < Spacing + longest
  <2>1. trip.from[k - 1] < Spacing
    BY <1>1, <1>2, <1>4 DEF IsTrip
  <2>2. /\ trip.at[k - 1 + 1] \in Neighbours(trip.at[k - 1])
        /\ trip.from[k - 1 + 1] = trip.from[k - 1] + Length({trip.at[k - 1], trip.at[k - 1 + 1]})
    BY <1>1, <1>2, <1>4 DEF IsCourse
  <2>3. PICK piece \in Nat : piece = Length({trip.at[k - 1], trip.at[k]}) /\ piece <= longest
    BY <1>4, <2>2
  <2>4. PICK before \in Nat : before = trip.from[k - 1]
    BY <1>2, <1>4
  <2>5. before < Spacing /\ far = before + piece
    BY <1>4, <1>5, <2>1, <2>2, <2>3, <2>4
  <2>6. Spacing \in Nat
    BY GraphAssumption
  <2> QED
    BY <2>3, <2>4, <2>5, <2>6
<1>8. /\ trip.at[i + 1] \in Neighbours(trip.at[i])
      /\ Stretch(trip.at[i], trip.at[i + 1]).here = trip.at[k]
      /\ Stretch(trip.at[i], trip.at[i + 1]).length = far - gone
  BY <1>1, <1>2, <1>3, <1>4, <1>5, <1>6, StretchFollows DEF IsCourse
<1>9. PICK back \in Course : IsBack(back, trip)
  BY <1>2, BackExists
<1>10. IsCourse(back)
  BY <1>2, <1>9, BackIsCourse
<1>11. PICK j \in 1..(k - 1) : j = k + 1 - i
  BY <1>1
<1>12. /\ back.size = k /\ back.at[j] = trip.at[i] /\ back.at[j + 1] = trip.at[i - 1]
       /\ back.at[k] = trip.at[1] /\ back.from[k] = far /\ back.from[j] = far - gone
  <2>1. /\ j \in 1..k /\ j + 1 \in 1..k /\ k \in 1..k
        /\ k + 1 - j = i /\ k + 1 - (j + 1) = i - 1 /\ k + 1 - k = 1
    BY <1>4, <1>11
  <2>2. /\ back.size = k
        /\ \A h \in 1..k : /\ back.at[h] = trip.at[k + 1 - h]
                           /\ back.from[h] = trip.from[k] - trip.from[k + 1 - h]
    BY <1>1, <1>9 DEF IsBack
  <2>3. back.from[k] = far - 0 /\ back.from[j] = far - gone
    BY <1>2, <1>5, <1>6, <2>1, <2>2
  <2> QED
    BY <1>5, <2>1, <2>2, <2>3
<1>13. /\ trip.at[i - 1] \in Neighbours(trip.at[i])
       /\ Stretch(trip.at[i], trip.at[i - 1]).here = trip.at[1]
       /\ Stretch(trip.at[i], trip.at[i - 1]).length = gone
  <2>1. /\ Stretch(back.at[j], back.at[j + 1]).here = back.at[k]
        /\ Stretch(back.at[j], back.at[j + 1]).length = back.from[k] - back.from[j]
    BY <1>3, <1>9, <1>10, <1>11, <1>12, StretchFollows
  <2>2. back.from[k] - back.from[j] = gone
    BY <1>5, <1>6, <1>12
  <2>3. back.at[j + 1] \in Neighbours(back.at[j])
    BY <1>10, <1>11, <1>12 DEF IsCourse
  <2> QED
    BY <1>12, <2>1, <2>2, <2>3
<1>14. trip.at[1] \in Kept /\ trip.at[k] \in Kept
  BY <1>1, <1>2 DEF IsCourse
<1>15. 2 * (far - gone) <= Spacing + longest \/ 2 * gone <= Spacing + longest
  <2>1. Spacing \in Nat
    BY GraphAssumption
  <2> QED
    BY <1>5, <1>6, <1>7, <2>1
<1> QED
  BY <1>8, <1>13, <1>14, <1>15

\* So every road stays near.
LEMMA RoadStaysNear ==
  ASSUME RoadInv, PiecesHaveLength
  PROVE  EveryRoadStaysNear
<1> SUFFICES ASSUME pc = "ready", NEW n \in Node \ (Twins \cup Kept), NEW longest,
                    longest = CHOOSE d \in {0} \cup {Length(Ends(s)) : s \in segments} :
                                \A s \in segments : Length(Ends(s)) <= d
             PROVE  \E m \in Neighbours(n) : /\ Stretch(n, m).here \in Kept
                                             /\ 2 * Stretch(n, m).length <= Spacing + longest
  BY DEF EveryRoadStaysNear
<1>1. longest \in Nat
      /\ \A a : \A b \in Neighbours(a) : Length({a, b}) \in Nat /\ Length({a, b}) <= longest
  BY PiecesAreMeasured DEF RoadInv, GraphInv, ChainInv
<1>2. Touched(n)
  BY UntouchedAreTwins DEF RoadInv
<1>3. PICK m : <<n, m>> \in walked
  BY <1>2 DEF Touched
<1>4. PICK trip \in Done : Passes(trip, n, m)
  BY <1>3 DEF RoadInv, ChainInv, WalkedIsPassed, Walking
<1>5. trip.size \in Nat
  BY DEF Done, Trip
<1>6. PICK i \in 1..trip.size : trip.at[i] = n
  <2>1. PICK h \in 1..(trip.size - 1) : \/ trip.at[h] = n /\ trip.at[h + 1] = m
                                        \/ trip.at[h] = m /\ trip.at[h + 1] = n
    BY <1>4 DEF Passes
  <2>2. h \in 1..trip.size /\ h + 1 \in 1..trip.size
    BY <1>5
  <2> QED
    BY <2>1, <2>2
<1>7. i # 1 /\ i # trip.size
  BY <1>6, KeptAtEnds
<1>8. i \in 2..(trip.size - 1)
  BY <1>5, <1>7
<1> QED
  BY <1>1, <1>6, <1>8, AnEndIsNear

\* From every point of a road, of one without an end too, a node that stays is
\* within half of the spacing and of one piece of road.
THEOREM RoadsStayNear == Spec => []EveryRoadStaysNear
<1>1. Init => PiecesHaveLength
  BY DEF Init, PiecesHaveLength
<1>2. Spec => []PiecesHaveLength
  BY <1>1, PiecesStay, PTL DEF Spec
<1>3. RoadInv /\ PiecesHaveLength => EveryRoadStaysNear
  BY RoadStaysNear
<1> QED
  BY <1>2, <1>3, Contraction, PTL

============================================================================
