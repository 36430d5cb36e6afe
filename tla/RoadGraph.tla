------------------------------ MODULE RoadGraph ------------------------------
(***************************************************************************)
(* routing/graph.py and routing/profiles.py: from the ways of an OSM        *)
(* extract to the graph one mode of transport is routed on.                 *)
(*                                                                          *)
(* load_road_graph reads the features in the order of the file, keeps the   *)
(* ways the mode may use, and contracts what it has: shape points go,       *)
(* junctions stay, and a point stays wherever Spacing has been walked.  The *)
(* finished graph answers nearest_node.                                     *)
(*                                                                          *)
(* Points are on a plane in whole units, so that lengths are exact; a way   *)
(* runs along the axes.  The tags of a way are chosen when it is read.      *)
(***************************************************************************)
EXTENDS Integers, Sequences, FiniteSets

CONSTANTS
  Ways,          \* points of each feature, in the order of the file
  Tagging,       \* the tags a feature may have
  Mode,          \* modes of transport
  Spacing,       \* _MIN_NODE_SPACING_M
  CellSize,      \* _CELL_M, and _CELL_DEG
  MaxSnap,       \* max_distance_m of nearest_node
  Places         \* points to be brought to the road

ASSUME GraphAssumption ==
  /\ Ways \in Seq(Seq(Nat \X Nat))
  /\ Places \subseteq Nat \X Nat
  /\ {Spacing, CellSize, MaxSnap} \subseteq Nat \ {0}

VARIABLES
  mode,      \* whose graph this is
  unread,    \* first feature that has not been read
  segments,  \* graph: the pieces of ways it has, as <<way, position>>
  pc,        \* where load_road_graph is; "ready" when it has returned
  junctions, \* nodes the contraction will keep
  start,     \* junction whose roads are being walked
  chain,     \* the walk along one of them
  walked,    \* pairs <<node, target>> that need no walk any more
  roads,     \* contracted: [ends, length] of its edges
  asked,     \* the place nearest_node was last asked for
  snapped    \* and its answer

vars == <<mode, unread, segments, pc, junctions, start, chain, walked, roads,
          asked, snapped>>
contraction == <<junctions, start, chain, walked, roads>>
answer == <<asked, snapped>>

Point == UNION {{Ways[w][i] : i \in DOMAIN Ways[w]} : w \in DOMAIN Ways}
None == <<>>

Init ==
  /\ mode \in Mode
  /\ unread = 1 /\ segments = {}
  /\ pc = "reading"
  /\ junctions = {} /\ start = None /\ chain = None /\ walked = {} /\ roads = {}
  /\ asked = None /\ snapped = None

----------------------------------------------------------------------------
(* Which ways a mode may use.                                               *)

\* Roads by what their highway tag stands for here.
Grades(m) ==
  LET walkable == {"street", "track", "path", "steps"}
  IN CASE m = "foot"     -> walkable
       [] m = "assisted" -> walkable \ {"steps", "path", "track"}
       [] m = "bicycle"  -> (walkable \ {"steps"}) \cup {"cycleway"}
       [] m = "car"      -> {"street", "track", "motorway"}

AccessTags(m) ==
  {"access"} \cup CASE m = "foot"     -> {"foot"}
                    [] m = "assisted" -> {"foot", "wheelchair"}
                    [] m = "bicycle"  -> {"bicycle"}
                    [] m = "car"      -> {"motor_vehicle"}

StrictSurface(m) == m = "assisted"

\* ModeProfile.passable: barred and conditional are the tags with such a value.
Passable(m, tags) ==
  /\ tags.highway \in Grades(m)
  /\ tags.barred \cap AccessTags(m) = {}
  /\ tags.conditional \cap (AccessTags(m) \cup {"width"}) = {}
  /\ ~tags.rough
  /\ ~(StrictSurface(m) /\ tags.soft)
  /\ ~tags.ford

----------------------------------------------------------------------------
(* The graph as it is read.                                                 *)

Abs(n) == IF n < 0 THEN -n ELSE n

Ends(s) == {Ways[s[1]][s[2]], Ways[s[1]][s[2] + 1]}

\* haversine_m between two points on one axis.
Length(ends) ==
  LET p == CHOOSE p \in ends : TRUE
      q == CHOOSE q \in ends : ends = {p, q}
  IN Abs(p[1] - q[1]) + Abs(p[2] - q[2])

Node == UNION {Ends(s) : s \in segments}
Neighbours(n) == UNION {Ends(s) \ {n} : s \in {s \in segments : n \in Ends(s)}}
Degree(n) == Cardinality({s \in segments : n \in Ends(s)})

\* add_segment for each two successive points of way w that differ.
Segments(w) ==
  {s \in {<<w, i>> : i \in 1..(Len(Ways[w]) - 1)} : Cardinality(Ends(s)) = 2}

\* The next feature of the file; a way of one point has no segments.
ReadFeature(tags) ==
  /\ pc = "reading"
  /\ unread <= Len(Ways)
  /\ segments' = IF Passable(mode, tags) THEN segments \cup Segments(unread)
                                         ELSE segments
  /\ unread' = unread + 1
  /\ UNCHANGED <<mode, pc, contraction, answer>>

----------------------------------------------------------------------------
(* _contract.                                                               *)

IsJunction(n) == Degree(n) # 2

\* All nodes that are joined to n, in so many hops as there are nodes.
Joined(n) ==
  LET within[hops \in 0..Cardinality(Node)] ==
        IF hops = 0 THEN {n}
        ELSE LET nearer == within[hops - 1]
             IN nearer \cup UNION {Neighbours(m) : m \in nearer}
  IN within[Cardinality(Node)]

\* Slip: a ring has no start.
Rings_Lost == {}

\* The rings without a junction that the walk finds its way around: it does
\* not turn at the far end of two roads between the same two points.
Rings ==
  {r \in {Joined(n) : n \in Node} :
     Cardinality(r) > 2 /\ \A m \in r : ~IsJunction(m)}

\* The junctions, and one node of each ring, whichever comes first.
FindJunctions ==
  /\ pc = "reading" /\ unread > Len(Ways)
  /\ \E starts \in SUBSET UNION Rings :
       /\ \A r \in Rings : Cardinality(r \cap starts) = 1
       /\ junctions' = {n \in Node : IsJunction(n)} \cup starts
  /\ pc' = "chains"
  /\ UNCHANGED <<mode, unread, segments, start, chain, walked, roads, answer>>

Unwalked(n) == {m \in Neighbours(n) : <<n, m>> \notin walked}

BothWays(a, b) == {<<a, b>>, <<b, a>>}

\* The next road that leaves the junction, or leaves another one.
BeginChain(n, first) ==
  /\ pc = "chains"
  /\ n \in junctions /\ first \in Unwalked(n)
  /\ n = start \/ start = None \/ Unwalked(start) = {}
  /\ start' = n
  /\ chain' = [anchor |-> n, previous |-> n, current |-> first,
               length |-> Length({n, first})]
  /\ walked' = walked \cup BothWays(n, first)
  /\ pc' = "walking"
  /\ UNCHANGED <<mode, unread, segments, junctions, roads, answer>>

\* Does an edge end at the node the walk has reached?
MayCut == chain.current \in junctions \/ chain.length >= Spacing

\* Slip: the length goes on counting behind a cut.
Rest_Kept == chain.length

\* What has been walked since the last node that stays.
Rest == IF MayCut THEN 0 ELSE chain.length

\* One turn of the loop along a road.
Walk ==
  LET here  == chain.current
      kept  == [ends |-> {chain.anchor, here}, length |-> chain.length]
      onward == Neighbours(here) \ {chain.previous}
  IN /\ pc = "walking"
     /\ roads' = IF MayCut \/ (onward = {} /\ here # chain.anchor)
                 THEN roads \cup {kept} ELSE roads
     /\ IF here \in junctions \/ onward = {}
        THEN pc' = "chains" /\ UNCHANGED <<chain, walked>>
        ELSE \E next \in onward :
               /\ chain' = [anchor   |-> IF MayCut THEN here ELSE chain.anchor,
                            previous |-> here,
                            current  |-> next,
                            length   |-> Rest + Length({here, next})]
               /\ walked' = walked \cup BothWays(here, next)
               /\ UNCHANGED pc
     /\ UNCHANGED <<mode, unread, segments, junctions, start, answer>>

\* All roads have been walked: load_road_graph returns.
Finish ==
  /\ pc = "chains"
  /\ \A n \in junctions : Unwalked(n) = {}
  /\ pc' = "ready"
  /\ chain' = None /\ start' = None
  /\ UNCHANGED <<mode, unread, segments, junctions, walked, roads, answer>>

----------------------------------------------------------------------------
(* nearest_node.                                                            *)

Kept == UNION {r.ends : r \in roads}

\* Squared, so that it is whole.
Distance(p, q) == (p[1] - q[1]) * (p[1] - q[1]) + (p[2] - q[2]) * (p[2] - q[2])

Cell(p) == <<p[1] \div CellSize, p[2] \div CellSize>>

\* In which ring of cells around the cell of p is q?
Ring(p, q) ==
  LET dx == Abs(Cell(q)[1] - Cell(p)[1])
      dy == Abs(Cell(q)[2] - Cell(p)[2])
  IN IF dx < dy THEN dy ELSE dx

LastRing == (MaxSnap \div CellSize) + 1

\* Least distance from p among the nodes of the first rings, or the limit.
BestWithin(p, ring) ==
  LET near == {Distance(p, n) : n \in {n \in Kept : Ring(p, n) <= ring}}
              \cup {MaxSnap * MaxSnap}
  IN CHOOSE d \in near : \A e \in near : d <= e

\* Slip: the search ends with the first ring that has a node.
SearchEnds_AtOnce(p, ring) == BestWithin(p, ring) < MaxSnap * MaxSnap

\* Something has been found, and this ring has nothing better.
SearchEnds(p, ring) ==
  /\ ring > 0
  /\ BestWithin(p, ring) < MaxSnap * MaxSnap
  /\ BestWithin(p, ring) = BestWithin(p, ring - 1)

\* The answers nearest_node may give for p: among equals the first one found.
Nearest(p) ==
  LET ends == {r \in 0..LastRing : r = LastRing \/ SearchEnds(p, r)}
      last == CHOOSE r \in ends : \A s \in ends : r <= s
      best == BestWithin(p, last)
  IN IF best = MaxSnap * MaxSnap THEN {None}
     ELSE {n \in Kept : Ring(p, n) <= last /\ Distance(p, n) = best}

Snap(p) ==
  /\ pc = "ready"
  /\ asked' = p
  /\ snapped' \in Nearest(p)
  /\ UNCHANGED <<mode, unread, segments, pc, contraction>>

----------------------------------------------------------------------------

Next ==
  \/ \E tags \in Tagging : ReadFeature(tags)
  \/ FindJunctions
  \/ \E n \in junctions : \E first \in Unwalked(n) : BeginChain(n, first)
  \/ Walk
  \/ Finish
  \/ \E p \in Places : Snap(p)

Spec == Init /\ [][Next]_vars

----------------------------------------------------------------------------
(* What the contraction must not change.                                    *)

\* Where a stretch that leaves n may go on, at a point of it.
Onward(n, at) ==
  IF at.here \in Kept \cup {n} THEN {} ELSE Neighbours(at.here) \ {at.previous}

\* The stretch of road that leaves n towards first, up to the next node that
\* stays: where it ends, and how long it is.
Stretch(n, first) ==
  LET after[hops \in 0..Cardinality(Node)] ==
        IF hops = 0 THEN [previous |-> n, here |-> first, length |-> Length({n, first})]
        ELSE LET at == after[hops - 1]
             IN IF Onward(n, at) = {} THEN at
                ELSE LET next == CHOOSE m \in Onward(n, at) : TRUE
                     IN [previous |-> at.here, here |-> next,
                         length |-> at.length + Length({at.here, next})]
  IN after[Cardinality(Node)]

(* _contract, "탐색 결과는 그대로": the edges of the contracted graph are the *)
(* stretches between nodes that stay, each as long as all of its pieces;     *)
(* none is lost and none leads elsewhere.                                   *)
EdgesAreStretches ==
  pc = "ready" =>
    roads = UNION {{[ends |-> {n, Stretch(n, m).here}, length |-> Stretch(n, m).length] :
                      m \in Neighbours(n)} : n \in Kept}

\* Two points joined twice and with nothing else: the one ring that is lost.
Twins == {n \in Node : /\ Degree(n) = 2 /\ Cardinality(Neighbours(n)) = 1
                       /\ \A m \in Neighbours(n) : Neighbours(m) = {n} /\ Degree(m) = 2}

(* _contract: nobody who stands on a road is taken far along it.  From any  *)
(* point of a road, of a ring without a junction too, a node that stays is  *)
(* within half of the spacing and of one piece of road.                     *)
EveryRoadStaysNear ==
  pc = "ready" =>
    LET longest == CHOOSE d \in {0} \cup {Length(Ends(s)) : s \in segments} :
                     \A s \in segments : Length(Ends(s)) <= d
    IN \A n \in Node \ (Twins \cup Kept) : \E m \in Neighbours(n) :
         /\ Stretch(n, m).here \in Kept
         /\ 2 * Stretch(n, m).length <= Spacing + longest

(* nearest_node: no node is found only if there is none in reach, and the   *)
(* node found is at most the diagonal of a square farther than the nearest. *)
SnapIsClose ==
  pc = "ready" /\ asked # None =>
    \A n \in Kept : Distance(asked, n) < MaxSnap * MaxSnap =>
      /\ snapped # None
      /\ Distance(asked, snapped) <= 2 * Distance(asked, n)

=============================================================================
