---------------------------- MODULE RoutePlanner ----------------------------
(***************************************************************************)
(* The search of routing/planner.py: the fastest way from a village to a    *)
(* shelter through a hazard that grows while people walk, on the field of   *)
(* routing/hazard.py.                                                       *)
(*                                                                          *)
(* One step is one turn of the loop: an entry is taken off the heap and, if *)
(* it is not stale, its node is expanded.  Nodes with the same arrival come *)
(* off in any order (the heap compares their coordinates).  Both ends are   *)
(* nodes here: that nearest_node finds them is geometry, as is which nodes  *)
(* a reported closure covers.  Lengths are the times they take; times are   *)
(* ticks, and risks steps of a scale on which the penalties are whole.      *)
(***************************************************************************)
EXTENDS Naturals, Sequences, FiniteSets, FiniteSetsExt

CONSTANTS
  Node,          \* nodes of the road graph
  Start, Goal,   \* nearest nodes of origin and destination
  Infinity,      \* float("inf"), the label of a node not reached
  Networks,      \* road networks: sets of [ends, travel]
  Fields,        \* predictions: from horizons to the risk at each node
  Closures,      \* sets of nodes within the radius of a field report
  Departures,    \* values of depart_after_s
  Certain,       \* probability 1 on the scale of risks
  BlockAt,       \* block_threshold
  AvoidAt,       \* avoid_threshold
  Penalty,       \* avoid_penalty
  MaxDuration    \* max_duration_s

Road == [ends : {{m, n} : m, n \in Node}, travel : Nat \ {0}]

\* The penalty of a risk halfway between the thresholds.
Surcharge(risk) == ((risk - AvoidAt) * (Penalty - 1)) \div (BlockAt - AvoidAt)

ASSUME PlannerAssumption ==
  /\ IsFiniteSet(Node) /\ {Start, Goal} \subseteq Node
  /\ Infinity \notin Nat
  /\ Networks \subseteq SUBSET Road
  /\ \A field \in Fields :
       DOMAIN field \subseteq Nat /\ \A h \in DOMAIN field : field[h] \in [Node -> 0..Certain]
  /\ Closures \subseteq SUBSET Node
  /\ Departures \subseteq Nat
  /\ {Certain, BlockAt, AvoidAt, MaxDuration} \subseteq Nat /\ Penalty \in Nat \ {0}
  /\ \A risk \in AvoidAt..(BlockAt - 1) :
       ((risk - AvoidAt) * (Penalty - 1)) % (BlockAt - AvoidAt) = 0

VARIABLES
  roads, slices, closed, depart,   \* the world, and when people set off
  queue,      \* heap entries <<arrival, node>>
  best,       \* earliest arrival known
  previous,   \* where that arrival comes from
  avoided,    \* roads not taken because of the prediction
  hits,       \* closed nodes the search ran into
  outcome,    \* where the call stands, and why it ended
  route,      \* coordinates of the result
  max_risk    \* of the result

world == <<roads, slices, closed, depart>>
search == <<queue, best, previous, avoided, hits>>
vars == <<world, search, outcome, route, max_risk>>

Outcome == {"called", "searching", "found", "start closed", "start in danger",
            "cut off", "not connected"}

TypeOK ==
  /\ roads \subseteq Road /\ closed \subseteq Node /\ depart \in Nat
  /\ DOMAIN slices \subseteq Nat /\ \A h \in DOMAIN slices : slices[h] \in [Node -> 0..Certain]
  /\ queue \subseteq Nat \X Node
  /\ best \in [Node -> Nat \cup {Infinity}]
  /\ previous \in [Node -> Node]
  /\ avoided \in Nat /\ hits \subseteq closed
  /\ outcome \in Outcome
  /\ route \in Seq(Node)
  /\ max_risk \in 0..Certain

Init ==
  /\ roads \in Networks /\ slices \in Fields /\ closed \in Closures
  /\ depart \in Departures
  /\ queue = {} /\ best = [n \in Node |-> Infinity]
  /\ previous = [n \in Node |-> n]
  /\ avoided = 0 /\ hits = {}
  /\ outcome = "called"
  /\ route = <<>> /\ max_risk = 0

----------------------------------------------------------------------------
(* The hazard field and its policy.                                         *)

First(field) == {h \in DOMAIN field : \A g \in DOMAIN field : h <= g}

\* Slip: only the slice in force counts, so that a risk may pass.
Relevant_Latest(field, t) ==
  LET past == {h \in DOMAIN field : h <= t}
  IN IF past = {} THEN First(field) ELSE {Max(past)}

\* Horizons whose slices count at time t: all up to t, or the first.
Relevant(field, t) ==
  LET past == {h \in DOMAIN field : h <= t}
  IN IF past = {} THEN First(field) ELSE past

Worst(risks) == Max(risks \cup {0})

\* A node outside the grid of a slice has risk 0 in it.
RiskIn(field, n, t) == Worst({field[h][n] : h \in Relevant(field, t)})

RiskAt(n, t) == RiskIn(slices, n, t)

\* edge_multiplier, where it is not None.
Passable(risk) == risk < BlockAt

Multiplier(risk) == IF risk <= AvoidAt THEN 1 ELSE 1 + Surcharge(risk)

----------------------------------------------------------------------------
(* plan_route.                                                              *)

SetOff ==
  /\ outcome = "called"
  /\ outcome' = CASE Start \in closed -> "start closed"
                  [] Start \notin closed /\ ~Passable(RiskAt(Start, depart)) -> "start in danger"
                  [] OTHER -> "searching"
  /\ IF outcome' = "searching"
     THEN queue' = {<<depart, Start>>} /\ best' = [best EXCEPT ![Start] = depart]
     ELSE UNCHANGED <<queue, best>>
  /\ max_risk' = IF outcome' = "start in danger" THEN RiskAt(Start, depart) ELSE 0
  /\ UNCHANGED <<world, previous, avoided, hits, route>>

RoadsFrom(n) == {road \in roads : n \in road.ends /\ road.ends # {n}}

Target(road, n) == CHOOSE m \in road.ends : m # n

\* Slip: the risk at the far end is that of the moment one leaves.
JudgedAt_Leaving(road, t) == t

\* When the risk at the far end of the road is taken.
JudgedAt(road, t) == t + road.travel

\* Risk at the far end of a road out of n, left at t.
RiskAhead(road, n, t) == RiskAt(Target(road, n), JudgedAt(road, t))

OpenRoads(n, t) ==
  {road \in RoadsFrom(n) : /\ Target(road, n) \notin closed
                           /\ Passable(RiskAhead(road, n, t))}

Candidate(road, n, t) == t + road.travel * Multiplier(RiskAhead(road, n, t))

\* Arrivals an expansion of n at t offers node m.
Offers(n, t, m) ==
  {Candidate(road, n, t) : road \in {r \in OpenRoads(n, t) : Target(r, n) = m}}

\* Slip: the latest offer stands.
Improves_Always(t, m) == TRUE

Improves(t, m) == best[m] = Infinity \/ t < best[m]

\* Nodes an expansion of n at t brings an earlier arrival.
Improved(n, t) == {m \in Node : \E offer \in Offers(n, t, m) : Improves(offer, m)}

\* Of parallel roads the fastest counts: entries of the others are stale at once.
Expand(n, t) ==
  /\ best' = [m \in Node |-> IF m \in Improved(n, t) THEN Min(Offers(n, t, m)) ELSE best[m]]
  /\ previous' = [m \in Node |-> IF m \in Improved(n, t) THEN n ELSE previous[m]]
  /\ queue' = (queue \ {<<t, n>>}) \cup {<<best'[m], m>> : m \in Improved(n, t)}
  /\ avoided' = avoided + Cardinality({road \in RoadsFrom(n) :
                            /\ Target(road, n) \notin closed
                            /\ ~Passable(RiskAhead(road, n, t))})
  /\ hits' = hits \cup {m \in closed : \E road \in RoadsFrom(n) : Target(road, n) = m}

\* The entry that comes off the heap.
IsNext(t, n) == <<t, n>> \in queue /\ \A entry \in queue : t <= entry[1]

\* Taken and dropped: overtaken by an earlier arrival, or out of time.
Skip(t, n) ==
  /\ outcome = "searching" /\ IsNext(t, n)
  /\ t # best[n] \/ (n # Goal /\ t - depart > MaxDuration)
  /\ queue' = queue \ {<<t, n>>}
  /\ UNCHANGED <<world, best, previous, avoided, hits, outcome, route, max_risk>>

Visit(t, n) ==
  /\ outcome = "searching" /\ IsNext(t, n)
  /\ t = best[n] /\ n # Goal /\ t - depart <= MaxDuration
  /\ Expand(n, t)
  /\ UNCHANGED <<world, outcome, route, max_risk>>

\* The nodes from Start to Goal along previous.
PathBack ==
  LET back[i \in 0..Cardinality(Node)] ==
        IF i = 0 THEN <<Goal>>
        ELSE IF Head(back[i - 1]) = Start THEN back[i - 1]
        ELSE <<previous[Head(back[i - 1])]>> \o back[i - 1]
  IN back[Cardinality(Node)]

\* The shortest of the roads between two nodes.
TravelTime(m, n) == Min({road.travel : road \in {r \in roads : r.ends = {m, n}}})

\* Times at which a walker who never slows down passes the nodes of a path.
Elapsed(path) ==
  LET passed[i \in DOMAIN path] ==
        IF i = 1 THEN 0 ELSE passed[i - 1] + TravelTime(path[i - 1], path[i])
  IN passed

\* _build_result: the risks of the path, timed from zero.
RisksOf(path) == {RiskAt(path[i], Elapsed(path)[i]) : i \in DOMAIN path}

Arrive(t) ==
  /\ outcome = "searching" /\ IsNext(t, Goal)
  /\ t = best[Goal]
  /\ outcome' = "found"
  /\ queue' = queue \ {<<t, Goal>>}
  /\ route' = PathBack
  /\ max_risk' = Max(RisksOf(PathBack))
  /\ UNCHANGED <<world, best, previous, avoided, hits>>

GiveUp ==
  /\ outcome = "searching" /\ queue = {}
  /\ outcome' = IF avoided > 0 \/ hits # {} THEN "cut off" ELSE "not connected"
  /\ UNCHANGED <<world, search, route, max_risk>>

----------------------------------------------------------------------------

Next ==
  \/ SetOff
  \/ \E entry \in queue : Skip(entry[1], entry[2]) \/ Visit(entry[1], entry[2])
  \/ \E entry \in queue : entry[2] = Goal /\ Arrive(entry[1])
  \/ GiveUp

Spec == Init /\ [][Next]_vars

----------------------------------------------------------------------------
(* What a route is worth.                                                   *)

Expanded(n) == best[n] # Infinity /\ <<best[n], n>> \notin queue

(* plan_route: the arrival a node was expanded with is never improved on,   *)
(* so no part of the search is built on an arrival that was given up.       *)
FirstLabelStands == [][\A n \in Node : Expanded(n) => best'[n] = best[n]]_vars

(* plan_route: each label is what its predecessor's label and one open road *)
(* come to, judged when the road has been walked.                           *)
LabelsAreEarned ==
  \A n \in Node : best[n] # Infinity /\ n # Start =>
    /\ best[previous[n]] # Infinity
    /\ n \notin closed
    /\ \E road \in RoadsFrom(previous[n]) :
         /\ Target(road, previous[n]) = n
         /\ RiskAt(n, best[previous[n]] + road.travel) < BlockAt
         /\ best[n] = best[previous[n]]
                        + road.travel * Multiplier(RiskAt(n, best[previous[n]] + road.travel))

\* Node sequences from Start to Goal without repetition.
SimplePaths ==
  {path \in UNION {[1..k -> Node] : k \in 1..Cardinality(Node)} :
     /\ path[1] = Start /\ path[Len(path)] = Goal
     /\ \A i, j \in DOMAIN path : path[i] = path[j] => i = j}

\* Arrivals at the nodes of a path for somebody who follows the policy and
\* turns back when MaxDuration is over; Infinity where it cannot be followed.
Arrivals(path) ==
  LET at[i \in DOMAIN path] ==
        IF i = 1 THEN depart
        ELSE IF \/ at[i - 1] = Infinity
                \/ at[i - 1] - depart > MaxDuration
                \/ path[i] \in closed
                \/ ~\E road \in roads : road.ends = {path[i - 1], path[i]}
             THEN Infinity
             ELSE LET walk == TravelTime(path[i - 1], path[i])
                      risk == RiskAt(path[i], at[i - 1] + walk)
                  IN IF risk < BlockAt THEN at[i - 1] + walk * Multiplier(risk)
                     ELSE Infinity
  IN at

ArrivalsAtGoal == {Arrivals(path)[Len(path)] : path \in SimplePaths} \ {Infinity}

(* plan_route and hazard.py: because a risk never falls with time, the      *)
(* search is exact.  The route found is the fastest of all that follow the  *)
(* policy, and none is missed.                                              *)
SearchIsExact ==
  /\ outcome = "found" => best[Goal] \in ArrivalsAtGoal
                          /\ \A t \in ArrivalsAtGoal : best[Goal] <= t
  /\ outcome \in {"cut off", "not connected"} => ArrivalsAtGoal = {}

(* plan_route: people who set off at depart and walk the route at their     *)
(* plain speed pass no closed node, and no node that a prediction for that  *)
(* time or an earlier one puts at the threshold: the penalties only make    *)
(* the search look later, never earlier.                                    *)
WalkedBelowThreshold ==
  outcome = "found" => \A i \in DOMAIN route :
    /\ route[i] \notin closed
    /\ \A h \in DOMAIN slices :
         h <= depart + Elapsed(route)[i] => slices[h][route[i]] < BlockAt

(* planner.py, _build_result: the risk of the route is measured when each   *)
(* of its points is passed.                                                 *)
RiskIsWhenPassed ==
  outcome = "found" =>
    max_risk = Max({RiskAt(route[i], depart + Elapsed(route)[i]) : i \in DOMAIN route})

=============================================================================
