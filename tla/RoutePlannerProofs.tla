------------------------- MODULE RoutePlannerProofs -------------------------
(***************************************************************************)
(* Proofs about RoutePlanner, for any network, field, policy and departure. *)
(* They rest on one fact about the heap: what has been expanded is no later *)
(* than anything still on it, and every offer is later than the expansion   *)
(* that makes it, because roads take time and no multiplier is below 1.     *)
(* That the search is exact rests on another, about the field: risks never  *)
(* fall with time, so that who sets off later never arrives earlier.        *)
(***************************************************************************)
EXTENDS RoutePlanner, WellFoundedInduction, FiniteSetTheorems, SequenceTheorems, TLAPS

----------------------------------------------------------------------------
(* Arithmetic of the policy.                                                *)

\* A nonempty set of naturals has a least element, which Min returns.
LEMMA MinIsLeast ==
  ASSUME NEW S \in SUBSET Nat, S # {}
  PROVE  Min(S) \in S /\ \A y \in S : Min(S) <= y
<1> DEFINE Less == {pair \in Nat \X Nat : pair[1] < pair[2]}
<1>1. IsWellFoundedOn(Less, Nat)
  BY NatLessThanWellFounded DEF OpToRel
<1>2. PICK x \in S : \A y \in S : <<y, x>> \notin Less
  <2> HIDE DEF Less
  <2> QED
    BY <1>1, WFMin
<1>3. \A y \in S : x <= y
  <2>1. SUFFICES ASSUME NEW y \in S, ~(x <= y) PROVE FALSE
    OBVIOUS
  <2>2. x \in Nat /\ y \in Nat
    BY <1>2, SMT
  <2>3. <<y, x>> \in Nat \X Nat /\ <<y, x>>[1] < <<y, x>>[2]
    BY <2>1, <2>2, SMT
  <2>4. <<y, x>> \in Less
    BY <2>3, Zenon
  <2> QED
    BY <1>2, <2>4, Zenon
<1> QED
  BY <1>2, <1>3 DEF Min

\* A nonempty set of risks has a greatest element, which Max returns.
LEMMA MaxIsGreatest ==
  ASSUME NEW B \in Nat, NEW S \in SUBSET (0..B), S # {}
  PROVE  Max(S) \in S /\ \A y \in S : Max(S) >= y
<1> DEFINE Gaps == {B - x : x \in S}
<1>1. \A x \in S : x \in Nat /\ B - x \in Nat
  BY SMT
<1>2. Gaps \in SUBSET Nat /\ Gaps # {}
  BY <1>1, Zenon
<1>3. Min(Gaps) \in Gaps /\ \A g \in Gaps : Min(Gaps) <= g
  BY <1>2, MinIsLeast, Zenon
<1>4. PICK x \in S : B - x = Min(Gaps)
  BY <1>3, Zenon
<1>5. \A y \in S : B - x <= B - y
  BY <1>3, <1>4, Zenon
<1>6. \A y \in S : x >= y
  BY <1>1, <1>4, <1>5, SMT
<1> QED
  BY <1>4, <1>6 DEF Max

\* The penalty slows people down or leaves them their speed.
LEMMA MultiplierIsPositive ==
  ASSUME NEW risk \in Nat, Passable(risk)
  PROVE  Multiplier(risk) \in Nat \ {0}
<1> USE PlannerAssumption
<1>1. CASE risk <= AvoidAt
  BY <1>1, SMT DEF Multiplier
<1>2. CASE ~(risk <= AvoidAt)
  <2> DEFINE part == (risk - AvoidAt) * (Penalty - 1)
  <2> DEFINE span == BlockAt - AvoidAt
  <2>1. part \in Nat
    <3>1. risk - AvoidAt \in Nat /\ Penalty - 1 \in Nat
      BY <1>2, SMT
    <3> QED
      BY <3>1, SMT
  <2>2. span \in Nat \ {0}
    BY <1>2, SMT DEF Passable
  <2>3. part \div span \in Nat
    <3> HIDE DEF part, span
    <3> QED
      BY <2>1, <2>2, SMT
  <2> QED
    BY <1>2, <2>3, SMT DEF Multiplier, Surcharge
<1> QED
  BY <1>1, <1>2

----------------------------------------------------------------------------
(* The inductive invariant.                                                 *)

WorldOK ==
  /\ roads \subseteq Road /\ closed \subseteq Node /\ depart \in Nat
  /\ DOMAIN slices \subseteq Nat
  /\ \A h \in DOMAIN slices : slices[h] \in [Node -> 0..Certain]

SearchOK ==
  /\ queue \subseteq Nat \X Node
  /\ best \in [Node -> Nat \cup {Infinity}]
  /\ previous \in [Node -> Node]

\* The call has not looked at anything yet.
Untouched == queue = {} /\ best = [n \in Node |-> Infinity]

\* What has been expanded is no later than anything still on the heap.
ExpandedFirst == \A n \in Node : Expanded(n) => \A entry \in queue : best[n] <= entry[1]

\* Arrivals come from nodes that are done with.
ComesFromExpanded ==
  \A n \in Node : best[n] # Infinity /\ n # Start => Expanded(previous[n])

IInv ==
  /\ WorldOK
  /\ SearchOK
  /\ outcome = "called" => Untouched
  /\ ExpandedFirst
  /\ ComesFromExpanded
  /\ LabelsAreEarned

----------------------------------------------------------------------------
(* What an expansion offers.                                                *)

\* The field yields risks.
LEMMA RiskIsTyped ==
  ASSUME WorldOK, NEW n \in Node, NEW t \in Nat
  PROVE  RiskAt(n, t) \in 0..Certain
<1> DEFINE S == {slices[h][n] : h \in Relevant(slices, t)} \cup {0}
<1>1. Certain \in Nat
  BY PlannerAssumption
<1>2. Relevant(slices, t) \subseteq DOMAIN slices
  BY DEF Relevant, First
<1>3. \A h \in Relevant(slices, t) : slices[h][n] \in 0..Certain
  BY <1>2 DEF WorldOK
<1>4. S \in SUBSET (0..Certain) /\ S # {}
  BY <1>1, <1>3, SMT
<1>5. Max(S) \in S
  <2> HIDE DEF S
  <2> QED
    BY <1>1, <1>4, MaxIsGreatest, Zenon
<1>6. RiskAt(n, t) = Max(S)
  BY DEF RiskAt, RiskIn, Worst
<1> QED
  BY <1>4, <1>5, <1>6, Zenon

\* A road out of a node leads to another node.
LEMMA TargetIsEnd ==
  ASSUME WorldOK, NEW n \in Node, NEW road \in RoadsFrom(n)
  PROVE  /\ Target(road, n) \in Node /\ Target(road, n) # n
         /\ road.travel \in Nat \ {0}
<1>1. road \in Road /\ n \in road.ends /\ road.ends # {n}
  BY DEF RoadsFrom, WorldOK
<1>2. road.ends \subseteq Node
  <2> DEFINE Pairs == {{a, b} : a, b \in Node}
  <2>1. road.ends \in Pairs
    BY <1>1, SMT DEF Road
  <2>2. \A ends \in Pairs : ends \subseteq Node
    OBVIOUS
  <2> QED
    <3> HIDE DEF Pairs
    <3> QED
      BY <2>1, <2>2
<1>3. \E m \in road.ends : m # n
  BY <1>1
<1>4. Target(road, n) \in road.ends /\ Target(road, n) # n
  BY <1>3 DEF Target
<1>5. road.travel \in Nat \ {0}
  BY <1>1 DEF Road
<1> QED
  BY <1>2, <1>4, <1>5

\* Every offer is an arrival after the departure it starts from.
LEMMA OffersAreLater ==
  ASSUME WorldOK, NEW n \in Node, NEW t \in Nat, NEW m \in Node,
         NEW offer \in Offers(n, t, m)
  PROVE  offer \in Nat /\ offer > t
<1>1. PICK road \in OpenRoads(n, t) : Target(road, n) = m /\ offer = Candidate(road, n, t)
  BY DEF Offers
<1>2. road \in RoadsFrom(n) /\ Passable(RiskAhead(road, n, t))
  BY DEF OpenRoads
<1>3. road.travel \in Nat \ {0}
  BY <1>2, TargetIsEnd
<1>4. RiskAhead(road, n, t) \in Nat
  <2>1. t + road.travel \in Nat
    BY <1>3, SMT
  <2>2. RiskAhead(road, n, t) \in 0..Certain
    BY <1>1, <2>1, RiskIsTyped DEF RiskAhead, JudgedAt
  <2> QED
    BY <2>2, SMT
<1>5. Multiplier(RiskAhead(road, n, t)) \in Nat \ {0}
  BY <1>2, <1>4, MultiplierIsPositive
<1>6. ASSUME NEW a \in Nat \ {0}, NEW b \in Nat \ {0}
      PROVE  t + a * b \in Nat /\ t + a * b > t
  BY SMT
<1> QED
  BY <1>1, <1>3, <1>5, <1>6 DEF Candidate

\* Min of the offers is one of them.
LEMMA EarliestOffer ==
  ASSUME WorldOK, NEW n \in Node, NEW t \in Nat, NEW m \in Node, Offers(n, t, m) # {}
  PROVE  Min(Offers(n, t, m)) \in Offers(n, t, m)
<1>1. Offers(n, t, m) \in SUBSET Nat
  BY OffersAreLater
<1> QED
  BY <1>1, MinIsLeast

\* Nothing expanded, nor the node being expanded, gets another arrival.
LEMMA ExpandedStays ==
  ASSUME WorldOK, SearchOK, ExpandedFirst,
         NEW n \in Node, NEW t \in Nat, IsNext(t, n), t = best[n],
         NEW m \in Node, Expanded(m) \/ m = n
  PROVE  m \notin Improved(n, t)
<1>1. best[m] \in Nat /\ best[m] <= t
  <2>1. CASE Expanded(m)
    <3>1. best[m] # Infinity
      BY <2>1 DEF Expanded
    <3>2. best[m] \in Nat
      BY <3>1 DEF SearchOK
    <3>3. best[m] <= <<t, n>>[1]
      BY <2>1 DEF ExpandedFirst, IsNext
    <3> QED
      BY <3>2, <3>3
  <2>2. CASE m = n
    BY <2>2, SMT
  <2> QED
    BY <2>1, <2>2
<1>2. best[m] # Infinity
  BY <1>1, PlannerAssumption
<1>3. ASSUME NEW offer \in Offers(n, t, m) PROVE ~Improves(offer, m)
  <2>1. offer \in Nat /\ offer > t
    BY OffersAreLater
  <2> QED
    BY <1>1, <1>2, <2>1, SMT DEF Improves
<1> QED
  BY <1>3 DEF Improved

----------------------------------------------------------------------------
(* The invariant holds initially and is kept by every step.                 *)

LEMMA InitHolds == Init => IInv
<1> SUFFICES ASSUME Init PROVE IInv
  OBVIOUS
<1>1. WorldOK
  <2>1. roads \subseteq Road /\ closed \subseteq Node /\ depart \in Nat
    BY PlannerAssumption DEF Init
  <2> QED
    BY <2>1, PlannerAssumption DEF Init, WorldOK
<1>2. SearchOK
  BY DEF Init, SearchOK
<1>3. Untouched
  BY DEF Init, Untouched
<1>4. \A n \in Node : best[n] = Infinity
  BY DEF Init
<1> QED
  BY <1>1, <1>2, <1>3, <1>4
     DEF IInv, ExpandedFirst, ComesFromExpanded, LabelsAreEarned, Expanded

\* A step that leaves the labels alone leaves what was said of their origin.
LEMMA SameLabels ==
  ASSUME UNCHANGED <<world, best, previous>>
  PROVE  /\ WorldOK => WorldOK'
         /\ LabelsAreEarned => LabelsAreEarned'
<1>1. WorldOK => WorldOK'
  BY DEF WorldOK, world
<1>2. LabelsAreEarned => LabelsAreEarned'
  BY DEF world, LabelsAreEarned, RoadsFrom, RiskAt
<1> QED
  BY <1>1, <1>2

\* Taking an entry off the heap and expanding nothing.
LEMMA TakenOff ==
  ASSUME IInv, NEW t, NEW n, IsNext(t, n), queue' = queue \ {<<t, n>>},
         UNCHANGED <<world, best, previous>>, outcome' # "called"
  PROVE  IInv'
<1> USE DEF IInv
<1>1. WorldOK' /\ LabelsAreEarned'
  BY SameLabels
<1>2. SearchOK'
  BY DEF SearchOK
<1>3. ASSUME NEW m \in Node, Expanded(m)'
      PROVE  Expanded(m) \/ best[m] = t
  BY <1>3 DEF Expanded
<1>4. ExpandedFirst'
  BY <1>3 DEF ExpandedFirst, IsNext
<1>5. ComesFromExpanded'
  BY DEF ComesFromExpanded, Expanded
<1> QED
  BY <1>1, <1>2, <1>4, <1>5

LEMMA SetOffHolds ==
  ASSUME IInv, SetOff
  PROVE  IInv'
<1> USE DEF IInv, SetOff
<1>1. CASE outcome' = "searching"
  <2>1. WorldOK'
    BY DEF WorldOK, world
  <2>2. best = [n \in Node |-> Infinity] /\ previous' = previous
    BY DEF Untouched
  <2>3. best' = [best EXCEPT ![Start] = depart] /\ queue' = {<<depart, Start>>}
    BY <1>1
  <2>4. Start \in Node /\ depart \in Nat
    BY PlannerAssumption DEF WorldOK
  <2>5. SearchOK'
    <3> HIDE DEF SetOff, IInv
    <3>1. queue' \subseteq Nat \X Node
      BY <2>3, <2>4, SMT
    <3>2. best' \in [Node -> Nat \cup {Infinity}]
      BY <2>2, <2>3, <2>4, SMT
    <3>3. previous' \in [Node -> Node]
      BY <2>2 DEF IInv, SearchOK
    <3> QED
      BY <3>1, <3>2, <3>3 DEF SearchOK
  <2>6. \A n \in Node : n # Start => best'[n] = Infinity
    BY <2>2, <2>3
  <2>7. <<best'[Start], Start>> \in queue'
    BY <2>2, <2>3, <2>4
  <2>8. ExpandedFirst'
    BY <2>6, <2>7 DEF ExpandedFirst, Expanded
  <2>9. ComesFromExpanded' /\ LabelsAreEarned'
    BY <2>6 DEF ComesFromExpanded, LabelsAreEarned
  <2> QED
    BY <1>1, <2>1, <2>5, <2>8, <2>9
<1>2. CASE outcome' # "searching"
  <2>1. UNCHANGED <<world, best, previous, queue>> /\ outcome' # "called"
    BY <1>2
  <2>2. WorldOK' /\ LabelsAreEarned'
    BY <2>1, SameLabels
  <2>3. SearchOK' /\ ExpandedFirst' /\ ComesFromExpanded'
    BY <2>1 DEF SearchOK, ExpandedFirst, ComesFromExpanded, Expanded
  <2> QED
    BY <2>1, <2>2, <2>3
<1> QED
  BY <1>1, <1>2

\* An expansion writes a label for each node it improves on,
LEMMA ImprovedLabels ==
  ASSUME NEW t, NEW n, Expand(n, t), NEW m \in Node, m \in Improved(n, t)
  PROVE  /\ best'[m] = Min(Offers(n, t, m))
         /\ previous'[m] = n
         /\ <<best'[m], m>> \in queue'
<1>1. best'[m] = Min(Offers(n, t, m)) /\ previous'[m] = n
  BY DEF Expand
<1>2. queue' = (queue \ {<<t, n>>}) \cup {<<best'[k], k>> : k \in Improved(n, t)}
  BY DEF Expand
<1>3. <<best'[m], m>> \in queue'
  BY <1>2
<1> QED
  BY <1>1, <1>3

\* and leaves the other labels and their entries.
LEMMA OtherLabels ==
  ASSUME NEW t, NEW n, Expand(n, t), NEW m \in Node, m \notin Improved(n, t)
  PROVE  /\ best'[m] = best[m]
         /\ previous'[m] = previous[m]
         /\ <<best[m], m>> \in queue' => <<best[m], m>> \in queue \ {<<t, n>>}
<1>1. best'[m] = best[m] /\ previous'[m] = previous[m]
  BY DEF Expand
<1>2. queue' = (queue \ {<<t, n>>}) \cup {<<best'[k], k>> : k \in Improved(n, t)}
  BY DEF Expand
<1>3. <<best[m], m>> \in queue' => <<best[m], m>> \in queue \ {<<t, n>>}
  BY <1>2
<1> QED
  BY <1>1, <1>3

\* An improved node gets an arrival later than the expansion it comes from.
LEMMA ImprovedLater ==
  ASSUME WorldOK, NEW t \in Nat, NEW n \in Node, Expand(n, t),
         NEW m \in Node, m \in Improved(n, t)
  PROVE  best'[m] \in Offers(n, t, m) /\ best'[m] \in Nat /\ best'[m] > t
<1>1. Offers(n, t, m) # {}
  BY DEF Improved
<1>2. best'[m] \in Offers(n, t, m)
  <2>1. best'[m] = Min(Offers(n, t, m))
    BY ImprovedLabels, Zenon
  <2> QED
    BY <1>1, <2>1, EarliestOffer, Zenon
<1> QED
  BY <1>1, <1>2, OffersAreLater

\* An expansion changes no arrival that was expanded.
LEMMA VisitKeepsExpanded ==
  ASSUME WorldOK, SearchOK, ExpandedFirst, NEW t, NEW n, Visit(t, n),
         NEW m \in Node, Expanded(m) \/ m = n
  PROVE  best'[m] = best[m] /\ Expanded(m)'
<1>1. t \in Nat /\ n \in Node
  BY DEF Visit, IsNext, SearchOK
<1>2. m \notin Improved(n, t)
  BY <1>1, ExpandedStays DEF Visit
<1>3. best'[m] = best[m]
  BY <1>2, OtherLabels DEF Visit
<1>4. best[m] # Infinity
  BY <1>1, PlannerAssumption DEF Visit, Expanded
<1>5. <<best[m], m>> \notin queue'
  <2>1. <<best[m], m>> \in queue' => <<best[m], m>> \in queue \ {<<t, n>>}
    BY <1>2, OtherLabels, Zenon DEF Visit
  <2>2. <<best[m], m>> \notin queue \ {<<t, n>>}
    BY SMT DEF Visit, Expanded
  <2> QED
    BY <2>1, <2>2
<1> QED
  BY <1>3, <1>4, <1>5 DEF Expanded

\* What LabelsAreEarned says of one node m with arrival a, whose predecessor p
\* was left at s.
EarnedFrom(m, p, s, a) ==
  /\ m \notin closed
  /\ \E road \in RoadsFrom(p) :
       /\ Target(road, p) = m
       /\ RiskAt(m, s + road.travel) < BlockAt
       /\ a = s + road.travel * Multiplier(RiskAt(m, s + road.travel))

\* Only the world decides whether an arrival is earned.
LEMMA EarnedStays ==
  ASSUME UNCHANGED world, NEW m, NEW p, NEW s, NEW a
  PROVE  EarnedFrom(m, p, s, a)' <=> EarnedFrom(m, p, s, a)
BY DEF EarnedFrom, RoadsFrom, RiskAt, world

\* What an expansion offers is earned.
LEMMA OffersAreEarned ==
  ASSUME NEW n, NEW t, NEW m \in Node, NEW a \in Offers(n, t, m)
  PROVE  EarnedFrom(m, n, t, a)
<1>1. PICK road \in OpenRoads(n, t) : Target(road, n) = m /\ a = Candidate(road, n, t)
  BY DEF Offers
<1>2. road \in RoadsFrom(n) /\ m \notin closed /\ Passable(RiskAhead(road, n, t))
  BY <1>1 DEF OpenRoads
<1>3. RiskAhead(road, n, t) = RiskAt(m, t + road.travel)
  BY <1>1 DEF RiskAhead, JudgedAt
<1> QED
  BY <1>1, <1>2, <1>3 DEF EarnedFrom, Candidate, Passable

LEMMA VisitHolds ==
  ASSUME IInv, NEW t, NEW n, Visit(t, n)
  PROVE  IInv'
<1> USE DEF IInv
<1>1. t \in Nat /\ n \in Node /\ t = best[n] /\ Expand(n, t)
  BY DEF Visit, IsNext, SearchOK
<1>2. WorldOK'
  BY DEF Visit, WorldOK, world
<1>3. outcome' # "called"
  BY DEF Visit
<1>4. \A m \in Node : m \in Improved(n, t) =>
        best'[m] \in Offers(n, t, m) /\ best'[m] \in Nat /\ best'[m] > t
  BY <1>1, ImprovedLater
<1>5. queue' = (queue \ {<<t, n>>}) \cup {<<best'[m], m>> : m \in Improved(n, t)}
  BY <1>1 DEF Expand
<1>6. Improved(n, t) \subseteq Node
  BY DEF Improved
<1>7. SearchOK'
  <2>1. queue' \subseteq Nat \X Node
    BY <1>4, <1>5, <1>6 DEF SearchOK
  <2>2. best' \in [Node -> Nat \cup {Infinity}]
    <3>1. \A m \in Node : best'[m] \in Nat \cup {Infinity}
      BY <1>1, <1>4, OtherLabels DEF SearchOK
    <3>2. best' = [m \in Node |-> best'[m]]
      BY <1>1 DEF Expand
    <3> QED
      BY <3>1, <3>2
  <2>3. previous' \in [Node -> Node]
    BY <1>1 DEF Expand, SearchOK
  <2> QED
    BY <2>1, <2>2, <2>3 DEF SearchOK
<1>8. ExpandedFirst'
  <2>1. ASSUME NEW entry \in queue' PROVE t <= entry[1]
    <3>1. CASE entry \in queue
      BY <3>1 DEF Visit, IsNext
    <3>2. CASE entry \in {<<best'[m], m>> : m \in Improved(n, t)}
      <4>1. PICK m \in Improved(n, t) : entry = <<best'[m], m>>
        BY <3>2
      <4> QED
        BY <1>1, <1>4, <1>6, <4>1
    <3> QED
      BY <1>5, <3>1, <3>2
  <2>2. ASSUME NEW m \in Node, Expanded(m)' PROVE best'[m] \in Nat /\ best'[m] <= t
    <3>1. best'[m] # Infinity /\ <<best'[m], m>> \notin queue'
      BY <2>2 DEF Expanded
    <3>2. m \notin Improved(n, t)
      BY <1>1, <3>1, ImprovedLabels
    <3>3. best'[m] = best[m]
      BY <1>1, <3>2, OtherLabels
    <3>4. best'[m] \in Nat
      BY <1>7, <3>1 DEF SearchOK
    <3>5. CASE <<best[m], m>> \in queue
      <4>1. <<best[m], m>> = <<t, n>>
        BY <1>5, <3>1, <3>3, <3>5
      <4> QED
        BY <1>1, <3>3, <4>1, SMT
    <3>6. CASE <<best[m], m>> \notin queue
      <4>1. Expanded(m)
        BY <3>1, <3>3, <3>6 DEF Expanded
      <4>2. <<t, n>> \in queue
        BY DEF Visit, IsNext
      <4>3. best[m] <= <<t, n>>[1]
        BY <4>1, <4>2 DEF ExpandedFirst
      <4> QED
        BY <3>3, <3>4, <4>3
    <3> QED
      BY <3>5, <3>6
  <2>3. \A m \in Node : \A entry \in queue' : Expanded(m)' => best'[m] <= entry[1]
    <3>1. \A entry \in queue' : entry[1] \in Nat
      BY <1>7 DEF SearchOK
    <3> QED
      BY <1>1, <2>1, <2>2, <3>1, SMT
  <2> QED
    BY <2>3 DEF ExpandedFirst
<1>9. ASSUME NEW m \in Node, best'[m] # Infinity, m # Start
      PROVE  \E p \in Node :
               /\ p = previous'[m] /\ Expanded(p)'
               /\ \/ m \in Improved(n, t) /\ p = n /\ best'[p] = t
                  \/ best'[p] = best[p] /\ p = previous[m] /\ best'[m] = best[m]
  <2>1. CASE m \in Improved(n, t)
    <3>1. previous'[m] = n
      BY <1>1, <2>1, ImprovedLabels
    <3>2. best'[n] = best[n] /\ Expanded(n)'
      BY <1>1, VisitKeepsExpanded
    <3> QED
      BY <1>1, <2>1, <3>1, <3>2
  <2>2. CASE m \notin Improved(n, t)
    <3>1. best'[m] = best[m] /\ previous'[m] = previous[m]
      BY <1>1, <2>2, OtherLabels
    <3>2. PICK p \in Node : p = previous[m]
      BY DEF SearchOK
    <3>3. Expanded(p)
      BY <1>9, <3>1, <3>2 DEF ComesFromExpanded, Expanded
    <3>4. best'[p] = best[p] /\ Expanded(p)'
      BY <3>3, VisitKeepsExpanded
    <3> QED
      BY <3>1, <3>2, <3>4
  <2> QED
    BY <2>1, <2>2
<1>10. ComesFromExpanded'
  BY <1>9 DEF ComesFromExpanded, Expanded
<1>11. LabelsAreEarned'
  <2>1. SUFFICES ASSUME NEW m \in Node, best'[m] # Infinity, m # Start
                 PROVE  /\ best'[previous'[m]] # Infinity
                        /\ EarnedFrom(m, previous[m], best[previous[m]], best[m])'
    BY DEF LabelsAreEarned, EarnedFrom
  <2>2. best'[previous'[m]] # Infinity
    BY <1>10, <2>1 DEF ComesFromExpanded, Expanded
  <2>3. PICK p, s, a : p = previous'[m] /\ s = best'[p] /\ a = best'[m]
    OBVIOUS
  <2>4. EarnedFrom(m, p, s, a)
    <3>1. CASE m \in Improved(n, t) /\ p = n /\ s = t
      BY <1>4, <2>3, <3>1, OffersAreEarned
    <3>2. CASE s = best[p] /\ p = previous[m] /\ a = best[m]
      BY <2>1, <2>3, <3>2 DEF LabelsAreEarned, EarnedFrom
    <3> QED
      BY <1>9, <2>1, <2>3, <3>1, <3>2
  <2>5. EarnedFrom(m, p, s, a)'
    BY <2>4, EarnedStays DEF Visit
  <2> QED
    BY <2>2, <2>3, <2>5 DEF EarnedFrom
<1> QED
  BY <1>2, <1>3, <1>7, <1>8, <1>10, <1>11

LEMMA NextHolds == IInv /\ [Next]_vars => IInv'
<1> SUFFICES ASSUME IInv, [Next]_vars PROVE IInv'
  OBVIOUS
<1>1. CASE SetOff
  BY <1>1, SetOffHolds
<1>2. ASSUME NEW t, NEW n, Skip(t, n) PROVE IInv'
  <2>1. outcome' # "called" /\ UNCHANGED <<world, best, previous>>
    BY <1>2 DEF Skip
  <2> QED
    BY <1>2, <2>1, TakenOff DEF Skip
<1>3. ASSUME NEW t, NEW n, Visit(t, n) PROVE IInv'
  BY <1>3, VisitHolds
<1>4. ASSUME NEW t, Arrive(t) PROVE IInv'
  <2>1. outcome' # "called" /\ UNCHANGED <<world, best, previous>>
    BY <1>4 DEF Arrive
  <2> QED
    BY <1>4, <2>1, TakenOff DEF Arrive
<1>5. CASE GiveUp
  <2>1. outcome' # "called" /\ UNCHANGED <<world, best, previous, queue>>
    BY <1>5 DEF GiveUp, search
  <2>2. WorldOK' /\ LabelsAreEarned'
    BY <2>1, SameLabels DEF IInv
  <2>3. SearchOK' /\ ExpandedFirst' /\ ComesFromExpanded'
    BY <2>1 DEF IInv, SearchOK, ExpandedFirst, ComesFromExpanded, Expanded
  <2> QED
    BY <2>1, <2>2, <2>3 DEF IInv
<1>6. CASE UNCHANGED vars
  <2>1. UNCHANGED <<world, best, previous, queue, outcome>>
    BY <1>6 DEF vars, search
  <2>2. WorldOK' /\ LabelsAreEarned'
    BY <2>1, SameLabels DEF IInv
  <2>3. SearchOK' /\ ExpandedFirst' /\ ComesFromExpanded' /\ (Untouched => Untouched')
    BY <2>1 DEF IInv, SearchOK, ExpandedFirst, ComesFromExpanded, Expanded, Untouched
  <2> QED
    BY <2>1, <2>2, <2>3 DEF IInv
<1> QED
  BY <1>1, <1>2, <1>3, <1>4, <1>5, <1>6 DEF Next

\* A step changes no arrival that was expanded.
LEMMA StepKeepsExpanded ==
  IInv /\ [Next]_vars => \A n \in Node : Expanded(n) => best'[n] = best[n]
<1> SUFFICES ASSUME IInv, [Next]_vars, NEW m \in Node, Expanded(m)
             PROVE  best'[m] = best[m]
  OBVIOUS
<1>1. CASE SetOff
  <2>1. best[m] # Infinity
    BY DEF Expanded
  <2> QED
    BY <1>1, <2>1 DEF IInv, SetOff, Untouched
<1>2. ASSUME NEW t, NEW n, Skip(t, n) PROVE best'[m] = best[m]
  BY <1>2 DEF Skip
<1>3. ASSUME NEW t, NEW n, Visit(t, n) PROVE best'[m] = best[m]
  BY <1>3, VisitKeepsExpanded DEF IInv
<1>4. ASSUME NEW t, Arrive(t) PROVE best'[m] = best[m]
  BY <1>4 DEF Arrive
<1>5. CASE GiveUp
  BY <1>5 DEF GiveUp, search
<1>6. CASE UNCHANGED vars
  BY <1>6 DEF vars, search
<1> QED
  BY <1>1, <1>2, <1>3, <1>4, <1>5, <1>6 DEF Next

----------------------------------------------------------------------------
(* Induction over naturals, by the least one a set misses.                  *)

LEMMA AllReached ==
  ASSUME NEW S, NEW a \in Nat, a \in S,
         \A n \in Nat : n >= a /\ n \in S => n + 1 \in S
  PROVE  \A n \in Nat : n >= a => n \in S
<1> DEFINE Missed == {n \in Nat : n >= a /\ n \notin S}
<1> SUFFICES ASSUME Missed # {} PROVE FALSE
  OBVIOUS
<1>1. PICK m \in Missed : \A n \in Missed : m <= n
  <2>1. Missed \in SUBSET Nat
    OBVIOUS
  <2> HIDE DEF Missed
  <2> QED
    BY <2>1, MinIsLeast
<1>2. m - 1 \in Nat /\ m - 1 >= a /\ m - 1 \notin Missed
  BY <1>1
<1> QED
  BY <1>1, <1>2

\* The functions on a..n that start at first and follow step.
Steps(V, first, a, n, step) ==
  {g \in [a..n -> V] : g[a] = first /\ \A i \in (a + 1)..n : g[i] = step[<<i, g[i - 1]>>]}

\* There is one.
LEMMA StepsExist ==
  ASSUME NEW V, NEW first \in V, NEW a \in Nat, NEW n \in Nat, n >= a,
         NEW step \in [((a + 1)..n) \X V -> V]
  PROVE  Steps(V, first, a, n, step) # {}
<1> DEFINE Fits(g, k) == \A i \in a..k : g[i] = IF i = a THEN first ELSE step[<<i, g[i - 1]>>]
           Good == {k \in Nat : k > n \/ \E g \in [a..k -> V] : Fits(g, k)}
<1>1. a \in Good
  <2>1. [i \in a..a |-> first] \in [a..a -> V] /\ Fits([i \in a..a |-> first], a)
    OBVIOUS
  <2> QED
    BY <2>1
<1>2. ASSUME NEW k \in Nat, k >= a, k \in Good
      PROVE  k + 1 \in Good
  <2>1. CASE k >= n
    BY <2>1
  <2>2. CASE k < n
    <3>1. PICK g \in [a..k -> V] : Fits(g, k)
      BY <1>2, <2>2
    <3>2. PICK v \in V : v = step[<<k + 1, g[k]>>]
      <4>1. <<k + 1, g[k]>> \in ((a + 1)..n) \X V
        BY <1>2, <2>2, <3>1
      <4> QED
        BY <4>1
    <3> DEFINE h == [i \in a..(k + 1) |-> IF i = k + 1 THEN v ELSE g[i]]
    <3>3. h \in [a..(k + 1) -> V]
      BY <1>2, <3>1, <3>2
    <3>4. ASSUME NEW i \in a..(k + 1)
          PROVE  h[i] = IF i = a THEN first ELSE step[<<i, h[i - 1]>>]
      <4>1. CASE i = k + 1
        <5>1. h[i - 1] = g[k] /\ i # a
          BY <1>2, <4>1
        <5> QED
          BY <3>2, <4>1, <5>1
      <4>2. CASE i # k + 1
        <5>1. i \in a..k /\ h[i] = g[i]
          BY <1>2, <4>2
        <5>2. i # a => h[i - 1] = g[i - 1]
          BY <1>2, <4>2
        <5>3. g[i] = IF i = a THEN first ELSE step[<<i, g[i - 1]>>]
          BY <3>1, <5>1
        <5> QED
          BY <5>1, <5>2, <5>3
      <4> QED
        BY <4>1, <4>2
    <3> HIDE DEF h
    <3> QED
      BY <3>3, <3>4
  <2> QED
    BY <1>2, <2>1, <2>2
<1> HIDE DEF Good
<1>3. n \in Good
  BY <1>1, <1>2, AllReached
<1>4. PICK g \in [a..n -> V] : Fits(g, n)
  BY <1>3 DEF Good
<1>5. g[a] = first /\ \A i \in (a + 1)..n : g[i] = step[<<i, g[i - 1]>>]
  <2>1. \A i \in a..n : g[i] = IF i = a THEN first ELSE step[<<i, g[i - 1]>>]
    BY <1>4, Zenon
  <2>2. a \in a..n
    OBVIOUS
  <2>3. \A i \in (a + 1)..n : i \in a..n /\ i # a
    OBVIOUS
  <2> HIDE DEF Fits
  <2>4. \A i \in (a + 1)..n : g[i] = step[<<i, g[i - 1]>>]
    BY <2>1, <2>3, Zenon
  <2> QED
    BY <2>1, <2>2, <2>4, Zenon
<1>6. g \in [a..n -> V]
  BY <1>4
<1> HIDE DEF Fits
<1> QED
  BY <1>5, <1>6, Zenon DEF Steps

\* Its values stay where the steps lead.
LEMMA StepsTyped ==
  ASSUME NEW V, NEW a \in Nat, NEW n \in Nat, NEW g, g[a] \in V,
         \A i \in (a + 1)..n : g[i - 1] \in V => g[i] \in V
  PROVE  \A i \in a..n : g[i] \in V
<1> DEFINE Good == {k \in Nat : k \in a..n => g[k] \in V}
<1>1. a \in Good
  OBVIOUS
<1>2. ASSUME NEW k \in Nat, k >= a, k \in Good
      PROVE  k + 1 \in Good
  <2> SUFFICES ASSUME k + 1 \in a..n PROVE g[k + 1] \in V
    OBVIOUS
  <2>1. g[k] \in V /\ k + 1 \in (a + 1)..n
    BY <1>2
  <2>2. g[(k + 1) - 1] \in V
    BY <2>1
  <2> QED
    BY <2>1, <2>2
<1> HIDE DEF Good
<1>3. \A k \in Nat : k >= a => k \in Good
  BY <1>1, <1>2, AllReached
<1>4. ASSUME NEW k \in a..n PROVE g[k] \in V
  <2>1. k \in Nat /\ k >= a
    OBVIOUS
  <2> QED
    BY <1>3, <2>1 DEF Good
<1> QED
  BY <1>4

----------------------------------------------------------------------------
(* Risks never fall with time, so setting off later never helps.            *)

LEMMA RiskGrows ==
  ASSUME WorldOK, NEW n \in Node, NEW s \in Nat, NEW t \in Nat, s <= t
  PROVE  RiskAt(n, s) <= RiskAt(n, t)
<1> DEFINE Risks(u) == {slices[h][n] : h \in Relevant(slices, u)} \cup {0}
<1>1. Relevant(slices, s) \subseteq Relevant(slices, t)
  <2>1. DOMAIN slices \subseteq Nat
    BY DEF WorldOK
  <2>2. ASSUME NEW h \in DOMAIN slices, h <= s PROVE h <= t
    BY <2>1, <2>2
  <2>3. ASSUME NEW h \in First(slices), NEW g \in DOMAIN slices, g <= t PROVE h <= t
    <3>1. h <= g /\ h \in Nat /\ g \in Nat
      BY <2>1, <2>3 DEF First
    <3> QED
      BY <2>3, <3>1
  <2> QED
    BY <2>2, <2>3 DEF Relevant, First
<1>2. ASSUME NEW u \in Nat
      PROVE  /\ Risks(u) \in SUBSET (0..Certain) /\ Risks(u) # {}
             /\ RiskAt(n, u) = Max(Risks(u))
  <2>1. Certain \in Nat
    BY PlannerAssumption
  <2>2. Relevant(slices, u) \subseteq DOMAIN slices
    BY DEF Relevant, First
  <2>3. \A h \in Relevant(slices, u) : slices[h][n] \in 0..Certain
    BY <2>2 DEF WorldOK
  <2> QED
    BY <2>1, <2>3, SMT DEF RiskAt, RiskIn, Worst
<1>3. Risks(s) \subseteq Risks(t)
  BY <1>1
<1> HIDE DEF Risks
<1>4. Max(Risks(s)) \in Risks(s) /\ \A x \in Risks(t) : Max(Risks(t)) >= x
  BY <1>2, MaxIsGreatest, PlannerAssumption
<1>5. RiskAt(n, s) \in Risks(t) /\ RiskAt(n, t) \in Nat
  <2>1. RiskAt(n, t) \in 0..Certain
    BY RiskIsTyped
  <2>2. RiskAt(n, t) \in Nat
    BY <2>1
  <2> QED
    BY <1>2, <1>3, <1>4, <2>2
<1>6. RiskAt(n, t) >= RiskAt(n, s)
  BY <1>2, <1>4, <1>5
<1>7. RiskAt(n, s) \in Nat
  <2>1. RiskAt(n, s) \in 0..Certain
    BY RiskIsTyped
  <2> QED
    BY <2>1
<1> QED
  BY <1>5, <1>6, <1>7

LEMMA DivGrows ==
  ASSUME NEW x \in Nat, NEW y \in Nat, x <= y, NEW d \in Nat \ {0}
  PROVE  x \div d <= y \div d
<1>1. /\ x \div d \in Nat /\ d * (x \div d) <= x
      /\ y \div d \in Nat /\ y < d * (y \div d) + d
  BY SMT
<1>2. ASSUME NEW p \in Nat, NEW q \in Nat, d * p <= x, y < d * q + d PROVE p <= q
  <2>1. SUFFICES ASSUME q + 1 <= p PROVE FALSE
    BY SMT
  <2>2. d * (q + 1) <= d * p
    BY <2>1, SMT
  <2>3. d * (q + 1) = d * q + d
    BY SMT
  <2>4. d * p \in Nat /\ d * q \in Nat
    BY SMT
  <2> QED
    BY <1>2, <2>2, <2>3, <2>4, SMT
<1> QED
  BY <1>1, <1>2

LEMMA MultiplierGrows ==
  ASSUME NEW r \in Nat, NEW s \in Nat, r <= s, Passable(s)
  PROVE  Multiplier(r) <= Multiplier(s)
<1>1. Passable(r) /\ BlockAt \in Nat /\ AvoidAt \in Nat /\ Penalty \in Nat \ {0}
  BY PlannerAssumption DEF Passable
<1>2. Multiplier(r) \in Nat \ {0} /\ Multiplier(s) \in Nat \ {0}
  BY <1>1, MultiplierIsPositive
<1>3. CASE r <= AvoidAt
  BY <1>1, <1>2, <1>3 DEF Multiplier
<1>4. CASE ~(r <= AvoidAt)
  <2>1. ~(s <= AvoidAt)
    BY <1>1, <1>4
  <2>2. PICK x, y, d : /\ x = (r - AvoidAt) * (Penalty - 1)
                       /\ y = (s - AvoidAt) * (Penalty - 1)
                       /\ d = BlockAt - AvoidAt
    OBVIOUS
  <2>3. x \in Nat /\ y \in Nat /\ x <= y
    <3>1. r - AvoidAt \in Nat /\ s - AvoidAt \in Nat /\ r - AvoidAt <= s - AvoidAt
          /\ Penalty - 1 \in Nat
      BY <1>1, <1>4, <2>1
    <3>2. ASSUME NEW a \in Nat, NEW b \in Nat, NEW c \in Nat, a <= b
          PROVE  a * c \in Nat /\ b * c \in Nat /\ a * c <= b * c
      BY <3>2, SMT
    <3> QED
      BY <2>2, <3>1, <3>2
  <2>4. d \in Nat \ {0}
    BY <1>1, <2>1, <2>2 DEF Passable
  <2>5. x \div d <= y \div d /\ x \div d \in Nat /\ y \div d \in Nat
    <3>1. x \div d \in Nat /\ y \div d \in Nat
      BY <2>3, <2>4, SMT
    <3> QED
      BY <2>3, <2>4, <3>1, DivGrows
  <2>6. Multiplier(r) = 1 + (x \div d) /\ Multiplier(s) = 1 + (y \div d)
    BY <1>4, <2>1, <2>2 DEF Multiplier, Surcharge
  <2> QED
    BY <2>5, <2>6
<1> QED
  BY <1>3, <1>4

\* hazard.py: who leaves no later and walks no longer, arrives no later.
LEMMA Fifo ==
  ASSUME WorldOK, NEW n \in Node, NEW s \in Nat, NEW t \in Nat, s <= t,
         NEW v \in Nat \ {0}, NEW w \in Nat \ {0}, v <= w, Passable(RiskAt(n, t + w))
  PROVE  /\ Passable(RiskAt(n, s + v))
         /\ s + v * Multiplier(RiskAt(n, s + v)) \in Nat
         /\ s + v <= s + v * Multiplier(RiskAt(n, s + v))
         /\ t + w * Multiplier(RiskAt(n, t + w)) \in Nat
         /\ s + v * Multiplier(RiskAt(n, s + v)) <= t + w * Multiplier(RiskAt(n, t + w))
<1>1. s + v \in Nat /\ t + w \in Nat /\ s + v <= t + w
  OBVIOUS
<1>2. PICK x, y : x = RiskAt(n, s + v) /\ y = RiskAt(n, t + w)
  OBVIOUS
<1>3. x \in Nat /\ y \in Nat /\ x <= y
  <2>1. x \in 0..Certain /\ y \in 0..Certain
    BY <1>1, <1>2, RiskIsTyped
  <2>2. x <= y
    BY <1>1, <1>2, RiskGrows
  <2> QED
    BY <2>1, <2>2
<1>4. Passable(x)
  BY <1>2, <1>3, PlannerAssumption DEF Passable
<1>5. PICK p \in Nat \ {0}, q \in Nat \ {0} : p = Multiplier(x) /\ q = Multiplier(y) /\ p <= q
  BY <1>2, <1>3, <1>4, MultiplierIsPositive, MultiplierGrows
<1>6. v * p <= w * q /\ v <= v * p /\ v * p \in Nat /\ w * q \in Nat
  <2>1. v * p <= w * p
    BY SMT
  <2>2. w * p <= w * q
    BY <1>5, SMT
  <2>3. v <= v * p /\ v * p \in Nat /\ w * q \in Nat /\ w * p \in Nat
    BY SMT
  <2> QED
    BY <2>1, <2>2, <2>3
<1>7. s + v * p <= t + w * q /\ s + v <= s + v * p /\ s + v * p \in Nat /\ t + w * q \in Nat
  <2> DEFINE a == v * p  b == w * q
  <2>1. a \in Nat /\ b \in Nat /\ a <= b /\ v <= a
    BY <1>6
  <2> HIDE DEF a, b
  <2>2. s + a <= t + b /\ s + v <= s + a /\ s + a \in Nat /\ t + b \in Nat
    BY <2>1
  <2> QED
    BY <2>2 DEF a, b
<1> QED
  BY <1>2, <1>4, <1>5, <1>7

----------------------------------------------------------------------------
(* Roads between two nodes.                                                 *)

LEMMA RoadBetween ==
  ASSUME WorldOK, NEW m \in Node, NEW n \in Node, m # n, NEW road \in roads
  PROVE  road.ends = {m, n} <=> road \in RoadsFrom(m) /\ Target(road, m) = n
<1>1. ASSUME road.ends = {m, n}
      PROVE  road \in RoadsFrom(m) /\ Target(road, m) = n
  BY <1>1 DEF RoadsFrom, Target
<1>2. ASSUME road \in RoadsFrom(m), Target(road, m) = n
      PROVE  road.ends = {m, n}
  <2>1. PICK a, b : road.ends = {a, b}
    <3> DEFINE Pairs == {{a, b} : a, b \in Node}
    <3>1. road.ends \in Pairs
      BY SMT DEF WorldOK, Road
    <3> QED
      BY <3>1
  <2>2. m \in road.ends /\ road.ends # {m}
    BY <1>2 DEF RoadsFrom
  <2>3. n \in road.ends
    BY <1>2, <2>2 DEF Target
  <2> QED
    BY <2>1, <2>2, <2>3
<1> QED
  BY <1>1, <1>2

\* TravelTime is the walk on one of the roads, and no road is shorter.
LEMMA Shortest ==
  ASSUME WorldOK, NEW m \in Node, NEW n \in Node, m # n,
         NEW road \in roads, road.ends = {m, n}
  PROVE  /\ TravelTime(m, n) \in Nat \ {0} /\ TravelTime(m, n) <= road.travel
         /\ \E quick \in RoadsFrom(m) : Target(quick, m) = n /\ quick.travel = TravelTime(m, n)
<1> DEFINE Between == {r \in roads : r.ends = {m, n}}
           Walks == {r.travel : r \in Between}
<1>1. \A r \in roads : r.travel \in Nat \ {0}
  BY DEF WorldOK, Road
<1>2. Walks \in SUBSET Nat /\ Walks # {}
  BY <1>1
<1>3. Min(Walks) \in Walks /\ \A w \in Walks : Min(Walks) <= w
  <2> HIDE DEF Walks
  <2> QED
    BY <1>2, MinIsLeast
<1>4. TravelTime(m, n) = Min(Walks)
  BY DEF TravelTime
<1>5. PICK quick \in Between : quick.travel = TravelTime(m, n)
  BY <1>3, <1>4
<1>6. quick \in RoadsFrom(m) /\ Target(quick, m) = n
  BY <1>5, RoadBetween
<1>7. road.travel \in Walks
  OBVIOUS
<1> QED
  BY <1>1, <1>3, <1>4, <1>5, <1>6, <1>7

----------------------------------------------------------------------------
(* What the search has established on its way.                              *)

UnderWay == outcome \in {"searching", "found", "cut off", "not connected"}

\* The search set off at depart from a safe node, and nothing is earlier.
FromStart ==
  UnderWay =>
    /\ best[Start] = depart
    /\ Start \notin closed /\ Passable(RiskAt(Start, depart))
    /\ \A entry \in queue : depart <= entry[1]

InTime(n) == best[n] - depart <= MaxDuration

\* What one leaves n for at time t is reached no later than that.
SettledAt(n, t) ==
  \A m \in Node : \A offer \in Offers(n, t, m) : best[m] # Infinity /\ best[m] <= offer

\* Every node taken off the heap in time has made its offers.
Settled == \A n \in Node : Expanded(n) /\ n # Goal /\ InTime(n) => SettledAt(n, best[n])

\* Nobody comes from Goal, or from a node reached when time was over.
CameInTime ==
  \A n \in Node : best[n] # Infinity /\ n # Start => previous[n] # Goal /\ InTime(previous[n])

\* Goal comes off the heap last.
GoalLast == Expanded(Goal) <=> outcome = "found"

Exhausted == outcome \in {"cut off", "not connected"} => queue = {}

SearchInv ==
  /\ FromStart
  /\ Settled
  /\ CameInTime
  /\ GoalLast
  /\ Exhausted

----------------------------------------------------------------------------

\* Only the world decides what is offered,
LEMMA OffersStay ==
  ASSUME UNCHANGED world, NEW n, NEW t, NEW m
  PROVE  Offers(n, t, m)' = Offers(n, t, m)
BY DEF Offers, OpenRoads, RoadsFrom, Candidate, RiskAhead, RiskAt, world

\* and what the risk is.
LEMMA RiskStays ==
  ASSUME UNCHANGED world, NEW n, NEW t
  PROVE  RiskAt(n, t)' = RiskAt(n, t)
BY DEF RiskAt, world

\* Labels only fall.
Falls == \A m \in Node : best[m] # Infinity => best'[m] # Infinity /\ best'[m] <= best[m]

LEMMA SettledKept ==
  ASSUME WorldOK, SearchOK, SearchOK', UNCHANGED world, Falls,
         NEW n \in Node, NEW t \in Nat, SettledAt(n, t)
  PROVE  SettledAt(n, t)'
<1>1. ASSUME NEW m \in Node, NEW offer \in Offers(n, t, m)
      PROVE  best'[m] # Infinity /\ best'[m] <= offer
  <2>1. best[m] # Infinity /\ best[m] <= offer
    BY <1>1 DEF SettledAt
  <2>2. best'[m] # Infinity /\ best'[m] <= best[m]
    BY <2>1 DEF Falls
  <2>3. best[m] \in Nat /\ best'[m] \in Nat /\ offer \in Nat
    BY <2>1, <2>2, OffersAreLater DEF SearchOK
  <2> QED
    BY <2>1, <2>2, <2>3
<1>2. \A m \in Node : Offers(n, t, m)' = Offers(n, t, m)
  BY OffersStay
<1> QED
  BY <1>1, <1>2 DEF SettledAt

\* An expansion brings every node it offers an arrival one no later.
LEMMA VisitSettles ==
  ASSUME IInv, NEW t, NEW n, Visit(t, n)
  PROVE  /\ Falls
         /\ \A m \in Node : \A offer \in Offers(n, t, m) : best'[m] # Infinity /\ best'[m] <= offer
<1>1. t \in Nat /\ n \in Node /\ Expand(n, t) /\ WorldOK /\ SearchOK
  BY DEF Visit, IsNext, SearchOK, IInv
<1>2. ASSUME NEW m \in Node, m \in Improved(n, t), NEW offer \in Offers(n, t, m)
      PROVE  best'[m] # Infinity /\ best'[m] <= offer
  <2>1. Offers(n, t, m) \in SUBSET Nat /\ Offers(n, t, m) # {}
    BY <1>1, OffersAreLater
  <2>2. best'[m] = Min(Offers(n, t, m))
    BY <1>1, <1>2, ImprovedLabels, Zenon
  <2>3. best'[m] \in Nat
    BY <1>1, <1>2, ImprovedLater
  <2>4. best'[m] <= offer
    BY <2>1, <2>2, MinIsLeast
  <2> QED
    BY <2>3, <2>4, PlannerAssumption
<1>3. ASSUME NEW m \in Node, m \notin Improved(n, t), NEW offer \in Offers(n, t, m)
      PROVE  best'[m] # Infinity /\ best'[m] <= offer
  <2>1. best'[m] = best[m] /\ offer \in Nat
    BY <1>1, <1>3, OtherLabels, OffersAreLater
  <2>2. ~Improves(offer, m)
    BY <1>3 DEF Improved
  <2>3. best[m] # Infinity /\ ~(offer < best[m])
    BY <2>2 DEF Improves
  <2>4. best[m] \in Nat
    BY <1>1, <2>3 DEF SearchOK
  <2> QED
    BY <2>1, <2>3, <2>4
<1>4. Falls
  <2> SUFFICES ASSUME NEW m \in Node, best[m] # Infinity
               PROVE  best'[m] # Infinity /\ best'[m] <= best[m]
    BY DEF Falls
  <2>1. best[m] \in Nat
    BY <1>1 DEF SearchOK
  <2>2. CASE m \in Improved(n, t)
    <3>1. PICK offer \in Offers(n, t, m) : Improves(offer, m)
      BY <2>2 DEF Improved
    <3>2. offer \in Nat /\ best'[m] \in Nat
      BY <1>1, <2>2, OffersAreLater, ImprovedLater
    <3>3. offer < best[m]
      BY <3>1 DEF Improves
    <3>4. best'[m] # Infinity /\ best'[m] <= offer
      BY <1>2, <2>2
    <3> QED
      BY <2>1, <3>2, <3>3, <3>4
  <2>3. CASE m \notin Improved(n, t)
    <3>1. best'[m] = best[m]
      BY <1>1, <2>3, OtherLabels
    <3> QED
      BY <2>1, <3>1, PlannerAssumption
  <2> QED
    BY <2>2, <2>3
<1> QED
  BY <1>2, <1>3, <1>4

\* What is expanded after an expansion was expanded before or by it.
LEMMA VisitExpands ==
  ASSUME IInv, NEW t, NEW n, Visit(t, n), NEW k \in Node, Expanded(k)'
  PROVE  best'[k] = best[k] /\ (Expanded(k) \/ k = n)
<1>1. best'[k] # Infinity /\ <<best'[k], k>> \notin queue' /\ Expand(n, t)
  BY DEF Expanded, Visit
<1>2. k \notin Improved(n, t)
  BY <1>1, ImprovedLabels
<1>3. best'[k] = best[k]
  BY <1>1, <1>2, OtherLabels
<1>4. queue' = (queue \ {<<t, n>>}) \cup {<<best'[m], m>> : m \in Improved(n, t)}
  BY <1>1 DEF Expand
<1>5. CASE <<best[k], k>> \in queue
  <2>1. <<best[k], k>> = <<t, n>>
    BY <1>1, <1>3, <1>4, <1>5
  <2> QED
    BY <1>3, <2>1
<1>6. CASE <<best[k], k>> \notin queue
  BY <1>1, <1>3, <1>6 DEF Expanded
<1> QED
  BY <1>5, <1>6

LEMMA VisitSearch ==
  ASSUME IInv, IInv', SearchInv, NEW t, NEW n, Visit(t, n)
  PROVE  SearchInv'
<1>1. /\ t \in Nat /\ n \in Node /\ Expand(n, t) /\ t = best[n] /\ n # Goal
      /\ t - depart <= MaxDuration /\ outcome = "searching" /\ outcome' = outcome
      /\ UNCHANGED world /\ WorldOK /\ SearchOK /\ SearchOK' /\ ExpandedFirst /\ ComesFromExpanded
  BY DEF Visit, IsNext, SearchOK, IInv
<1>2. depart' = depart /\ closed' = closed /\ depart \in Nat
  BY <1>1 DEF world, WorldOK
<1>3. depart <= t /\ best[Start] = depart
  BY <1>1 DEF SearchInv, FromStart, UnderWay, Visit, IsNext
<1>4. \A m \in Node : m \in Improved(n, t) =>
        best'[m] \in Offers(n, t, m) /\ best'[m] \in Nat /\ best'[m] > t
  BY <1>1, ImprovedLater
<1>5. FromStart'
  <2>1. best'[Start] = depart
    <3>1. ASSUME NEW offer \in Offers(n, t, Start) PROVE ~Improves(offer, Start)
      <4>1. offer \in Nat /\ offer > t
        BY <1>1, OffersAreLater, PlannerAssumption
      <4>2. best[Start] # Infinity /\ ~(offer < best[Start])
        BY <1>1, <1>2, <1>3, <4>1, PlannerAssumption
      <4> QED
        BY <4>2 DEF Improves
    <3>2. Start \notin Improved(n, t)
      BY <3>1 DEF Improved
    <3> QED
      BY <1>1, <1>3, <3>2, OtherLabels, PlannerAssumption
  <2>2. Passable(RiskAt(Start, depart))'
    <3>1. PICK d \in Nat : d = depart
      BY <1>2
    <3>2. RiskAt(Start, d)' = RiskAt(Start, d)
      BY <1>1, RiskStays
    <3>3. Passable(RiskAt(Start, d))
      BY <1>1, <3>1 DEF SearchInv, FromStart, UnderWay
    <3> QED
      BY <1>2, <3>1, <3>2, <3>3 DEF Passable
  <2>3. ASSUME NEW entry \in queue' PROVE depart <= entry[1]
    <3>1. queue' = (queue \ {<<t, n>>}) \cup {<<best'[m], m>> : m \in Improved(n, t)}
      BY <1>1 DEF Expand
    <3>2. CASE entry \in queue
      BY <1>1, <3>2 DEF SearchInv, FromStart, UnderWay
    <3>3. CASE entry \in {<<best'[m], m>> : m \in Improved(n, t)}
      <4>1. PICK m \in Improved(n, t) : entry = <<best'[m], m>>
        BY <3>3
      <4>2. m \in Node
        BY DEF Improved
      <4> QED
        BY <1>1, <1>2, <1>3, <1>4, <4>1, <4>2
    <3> QED
      BY <3>1, <3>2, <3>3
  <2>4. Start \notin closed
    BY <1>1 DEF SearchInv, FromStart, UnderWay
  <2> QED
    BY <1>2, <2>1, <2>2, <2>3, <2>4 DEF FromStart
<1>6. Settled'
  <2> SUFFICES ASSUME NEW k \in Node, Expanded(k)', k # Goal, InTime(k)'
               PROVE  SettledAt(k, best[k])'
    BY DEF Settled
  <2>1. best'[k] = best[k] /\ (Expanded(k) \/ k = n)
    BY VisitExpands
  <2>2. PICK s \in Nat : s = best[k]
    <3>1. best'[k] # Infinity
      BY DEF Expanded
    <3> QED
      BY <1>1, <2>1, <3>1 DEF SearchOK
  <2>3. SettledAt(k, s)'
    <3>1. CASE k = n
      <4>1. \A m \in Node : Offers(n, t, m)' = Offers(n, t, m)
        BY <1>1, OffersStay
      <4>2. \A m \in Node : \A offer \in Offers(n, t, m) : best'[m] # Infinity /\ best'[m] <= offer
        BY VisitSettles
      <4>3. SettledAt(n, t)'
        BY <4>1, <4>2 DEF SettledAt
      <4>4. s = t
        BY <1>1, <2>2, <3>1
      <4> QED
        BY <3>1, <4>3, <4>4
    <3>2. CASE Expanded(k)
      <4>1. InTime(k)
        BY <1>2, <2>1 DEF InTime
      <4>2. SettledAt(k, s)
        BY <2>2, <3>2, <4>1 DEF SearchInv, Settled
      <4>3. Falls
        BY VisitSettles
      <4> QED
        BY <1>1, <4>2, <4>3, SettledKept
    <3> QED
      BY <2>1, <3>1, <3>2
  <2> QED
    BY <2>1, <2>2, <2>3 DEF SettledAt
<1>7. CameInTime'
  <2> SUFFICES ASSUME NEW m \in Node, best'[m] # Infinity, m # Start
               PROVE  previous'[m] # Goal /\ best'[previous'[m]] - depart <= MaxDuration
    BY <1>2 DEF CameInTime, InTime
  <2>1. CASE m \in Improved(n, t)
    <3>1. previous'[m] = n
      BY <1>1, <2>1, ImprovedLabels
    <3>2. best'[n] = best[n]
      BY <1>1, VisitKeepsExpanded
    <3> QED
      BY <1>1, <3>1, <3>2
  <2>2. CASE m \notin Improved(n, t)
    <3>1. best'[m] = best[m] /\ previous'[m] = previous[m]
      BY <1>1, <2>2, OtherLabels
    <3>2. PICK p \in Node : p = previous[m]
      BY <1>1 DEF SearchOK
    <3>3. Expanded(p) /\ p # Goal /\ InTime(p)
      BY <1>1, <3>1, <3>2 DEF ComesFromExpanded, SearchInv, CameInTime
    <3>4. best'[p] = best[p]
      BY <1>1, <3>3, VisitKeepsExpanded
    <3> QED
      BY <3>1, <3>2, <3>3, <3>4 DEF InTime
  <2> QED
    BY <2>1, <2>2
<1>8. GoalLast'
  <2>1. Goal \in Node
    BY PlannerAssumption
  <2>2. ~Expanded(Goal)
    BY <1>1 DEF SearchInv, GoalLast
  <2>3. ~Expanded(Goal)'
    BY <1>1, <2>1, <2>2, VisitExpands
  <2> QED
    BY <1>1, <2>3 DEF GoalLast
<1>9. Exhausted'
  BY <1>1 DEF Exhausted
<1> QED
  BY <1>5, <1>6, <1>7, <1>8, <1>9 DEF SearchInv

\* Taking an entry off the heap and expanding nothing.
LEMMA TakenOffSearch ==
  ASSUME IInv, IInv', SearchInv, UnderWay, UnderWay', NEW t, NEW n,
         UNCHANGED <<world, best, previous>>,
         queue' = queue \ {<<t, n>>},
         t = best[n] => n = Goal \/ ~InTime(n)
  PROVE  FromStart' /\ Settled' /\ CameInTime'
<1>1. /\ WorldOK /\ SearchOK /\ SearchOK' /\ UNCHANGED world /\ best' = best
      /\ previous' = previous
  BY DEF IInv
<1>2. depart' = depart /\ closed' = closed
  BY <1>1 DEF world
<1>3. FromStart'
  <2>1. Passable(RiskAt(Start, depart))'
    <3>1. PICK d \in Nat : d = depart
      BY <1>1 DEF WorldOK
    <3>2. RiskAt(Start, d)' = RiskAt(Start, d)
      BY <1>1, RiskStays
    <3>3. Passable(RiskAt(Start, d))
      BY <3>1 DEF SearchInv, FromStart
    <3> QED
      BY <1>2, <3>1, <3>2, <3>3 DEF Passable
  <2> QED
    BY <1>1, <1>2, <2>1 DEF SearchInv, FromStart
<1>4. Settled'
  <2> SUFFICES ASSUME NEW k \in Node, Expanded(k)', k # Goal, InTime(k)'
               PROVE  SettledAt(k, best[k])'
    BY DEF Settled
  <2>1. InTime(k)
    BY <1>1, <1>2 DEF InTime
  <2>2. Expanded(k)
    <3>1. best[k] # Infinity /\ <<best[k], k>> \notin queue \ {<<t, n>>}
      BY <1>1 DEF Expanded
    <3>2. <<best[k], k>> # <<t, n>>
      BY <2>1
    <3> QED
      BY <3>1, <3>2 DEF Expanded
  <2>3. PICK s \in Nat : s = best[k]
    BY <1>1, <2>2 DEF SearchOK, Expanded
  <2>4. SettledAt(k, s)
    BY <2>1, <2>2, <2>3 DEF SearchInv, Settled
  <2>5. Falls
    <3>1. \A m \in Node : best[m] # Infinity => best[m] \in Nat
      BY <1>1 DEF SearchOK
    <3> QED
      BY <1>1, <3>1 DEF Falls
  <2>6. SettledAt(k, s)'
    BY <1>1, <2>4, <2>5, SettledKept
  <2> QED
    BY <1>1, <2>3, <2>6 DEF SettledAt
<1>5. CameInTime'
  BY <1>1, <1>2 DEF SearchInv, CameInTime, InTime
<1> QED
  BY <1>3, <1>4, <1>5

LEMMA SetOffSearch ==
  ASSUME IInv, IInv', SetOff
  PROVE  SearchInv'
<1>1. outcome = "called" /\ best = [n \in Node |-> Infinity] /\ UNCHANGED world /\ WorldOK
  BY DEF SetOff, IInv, Untouched
<1>2. Start \in Node /\ Goal \in Node /\ depart \in Nat /\ Infinity \notin Nat
  BY <1>1, PlannerAssumption DEF WorldOK
<1>3. CASE outcome' = "searching"
  <2>1. best' = [best EXCEPT ![Start] = depart] /\ queue' = {<<depart, Start>>}
    BY <1>3 DEF SetOff
  <2>2. best'[Start] = depart /\ \A n \in Node : n # Start => best'[n] = Infinity
    BY <1>1, <1>2, <2>1
  <2>3. \A n \in Node : ~Expanded(n)'
    BY <2>1, <2>2 DEF Expanded
  <2>4. Start \notin closed /\ Passable(RiskAt(Start, depart))
    BY <1>3 DEF SetOff
  <2>5. Passable(RiskAt(Start, depart))'
    <3>1. PICK d \in Nat : d = depart
      BY <1>2
    <3>2. RiskAt(Start, d)' = RiskAt(Start, d)
      BY <1>1, RiskStays
    <3> QED
      BY <1>1, <2>4, <3>1, <3>2 DEF Passable, world
  <2>6. FromStart'
    <3>1. depart' = depart /\ closed' = closed
      BY <1>1 DEF world
    <3>2. \A entry \in queue' : depart <= entry[1]
      BY <1>2, <2>1
    <3> QED
      BY <2>2, <2>4, <2>5, <3>1, <3>2 DEF FromStart
  <2>7. Settled' /\ GoalLast'
    BY <1>2, <1>3, <2>3 DEF Settled, GoalLast
  <2>8. CameInTime' /\ Exhausted'
    BY <1>3, <2>2 DEF CameInTime, Exhausted
  <2> QED
    BY <2>6, <2>7, <2>8 DEF SearchInv
<1>4. CASE outcome' # "searching"
  <2>1. best' = best /\ outcome' \in {"start closed", "start in danger"}
    BY <1>4 DEF SetOff
  <2>2. \A n \in Node : best'[n] = Infinity
    BY <1>1, <2>1
  <2>3. FromStart' /\ Exhausted' /\ CameInTime'
    BY <2>1, <2>2 DEF FromStart, UnderWay, Exhausted, CameInTime
  <2>4. Settled' /\ GoalLast'
    BY <1>2, <2>1, <2>2 DEF Settled, GoalLast, Expanded
  <2> QED
    BY <2>3, <2>4 DEF SearchInv
<1> QED
  BY <1>3, <1>4

LEMMA SkipSearch ==
  ASSUME IInv, IInv', SearchInv, NEW t, NEW n, Skip(t, n)
  PROVE  SearchInv'
<1>1. /\ outcome = "searching" /\ outcome' = outcome /\ queue' = queue \ {<<t, n>>}
      /\ UNCHANGED <<world, best, previous>>
      /\ t # best[n] \/ (n # Goal /\ t - depart > MaxDuration)
  BY DEF Skip
<1>2. t \in Nat /\ depart \in Nat /\ MaxDuration \in Nat /\ Goal \in Node
  BY PlannerAssumption DEF Skip, IsNext, IInv, SearchOK, WorldOK
<1>3. t = best[n] => n = Goal \/ ~InTime(n)
  BY <1>1, <1>2 DEF InTime
<1>4. FromStart' /\ Settled' /\ CameInTime'
  BY <1>1, <1>3, TakenOffSearch DEF UnderWay
<1>5. GoalLast'
  <2>1. ~Expanded(Goal)
    BY <1>1 DEF SearchInv, GoalLast
  <2>2. <<best[Goal], Goal>> # <<t, n>>
    BY <1>1
  <2>3. ~Expanded(Goal)'
    BY <1>1, <2>1, <2>2 DEF Expanded
  <2> QED
    BY <1>1, <2>3 DEF GoalLast
<1>6. Exhausted'
  BY <1>1 DEF Exhausted
<1> QED
  BY <1>4, <1>5, <1>6 DEF SearchInv

LEMMA ArriveSearch ==
  ASSUME IInv, IInv', SearchInv, NEW t, Arrive(t)
  PROVE  SearchInv'
<1>1. /\ outcome = "searching" /\ outcome' = "found" /\ queue' = queue \ {<<t, Goal>>}
      /\ UNCHANGED <<world, best, previous>> /\ t = best[Goal]
  BY DEF Arrive
<1>2. FromStart' /\ Settled' /\ CameInTime'
  BY <1>1, TakenOffSearch DEF UnderWay
<1>3. t \in Nat
  BY DEF Arrive, IsNext, IInv, SearchOK
<1>4. Expanded(Goal)'
  BY <1>1, <1>3, PlannerAssumption DEF Expanded
<1>5. GoalLast' /\ Exhausted'
  BY <1>1, <1>4 DEF GoalLast, Exhausted
<1> QED
  BY <1>2, <1>5 DEF SearchInv

LEMMA SearchNext ==
  ASSUME IInv, IInv', SearchInv, [Next]_vars
  PROVE  SearchInv'
<1>1. CASE SetOff
  BY <1>1, SetOffSearch
<1>2. ASSUME NEW t, NEW n, Skip(t, n) PROVE SearchInv'
  BY <1>2, SkipSearch
<1>3. ASSUME NEW t, NEW n, Visit(t, n) PROVE SearchInv'
  BY <1>3, VisitSearch
<1>4. ASSUME NEW t, Arrive(t) PROVE SearchInv'
  BY <1>4, ArriveSearch
<1>5. ASSUME UNCHANGED <<world, best, previous, queue>>,
             \/ outcome = "searching" /\ queue = {} /\ outcome' \in {"cut off", "not connected"}
             \/ outcome' = outcome
      PROVE  SearchInv'
  <2>1. WorldOK /\ SearchOK /\ roads' = roads /\ slices' = slices /\ closed' = closed
        /\ depart' = depart
    BY <1>5 DEF IInv, world
  <2>2. FromStart'
    BY <1>5, <2>1 DEF SearchInv, FromStart, UnderWay, RiskAt
  <2>3. Settled'
    BY <1>5, <2>1 DEF SearchInv, Settled, SettledAt, Expanded, InTime, Offers, OpenRoads,
                      RoadsFrom, Candidate, RiskAhead, RiskAt
  <2>4. CameInTime'
    BY <1>5, <2>1 DEF SearchInv, CameInTime, InTime
  <2>5. GoalLast' /\ Exhausted'
    BY <1>5 DEF SearchInv, GoalLast, Exhausted, Expanded
  <2> QED
    BY <2>2, <2>3, <2>4, <2>5 DEF SearchInv
<1>6. CASE GiveUp
  <2>1. UNCHANGED <<world, best, previous, queue>>
    BY <1>6 DEF GiveUp, search
  <2> QED
    BY <1>5, <1>6, <2>1 DEF GiveUp
<1>7. CASE UNCHANGED vars
  BY <1>5, <1>7 DEF vars, search
<1> QED
  BY <1>1, <1>2, <1>3, <1>4, <1>6, <1>7 DEF Next

LEMMA SearchHolds == Spec => [](IInv /\ SearchInv)
<1>1. Init => SearchInv
  <2> SUFFICES ASSUME Init PROVE SearchInv
    OBVIOUS
  <2>1. \A n \in Node : best[n] = Infinity
    BY DEF Init
  <2>2. outcome = "called" /\ Goal \in Node
    BY PlannerAssumption DEF Init
  <2> QED
    BY <2>1, <2>2 DEF SearchInv, FromStart, UnderWay, Settled, CameInTime, GoalLast, Exhausted,
                      Expanded
<1>2. IInv /\ SearchInv /\ [Next]_vars => (IInv /\ SearchInv)'
  BY NextHolds, SearchNext
<1> QED
  BY <1>1, <1>2, InitHolds, PTL DEF Spec

----------------------------------------------------------------------------
(* The way back from Goal.                                                  *)

\* A path to Goal along previous, through nodes that were reached.
Traced(path) ==
  /\ path \in Seq(Node) /\ path # <<>> /\ path[Len(path)] = Goal
  /\ \A i \in 2..Len(path) : path[i] # Start /\ path[i - 1] = previous[path[i]]
  /\ \A i \in DOMAIN path : best[path[i]] # Infinity

LEMMA TracedOn ==
  ASSUME IInv, NEW path, Traced(path), Head(path) # Start
  PROVE  /\ Traced(<<previous[Head(path)]>> \o path)
         /\ Len(<<previous[Head(path)]>> \o path) = Len(path) + 1
<1>1. path \in Seq(Node) /\ path # <<>> /\ Len(path) \in Nat \ {0} /\ Head(path) = path[1]
      /\ DOMAIN path = 1..Len(path)
  BY DEF Traced
<1>2. PICK h, p : h \in Node /\ h = path[1] /\ p = previous[h]
  BY <1>1
<1>3. h # Start /\ best[h] # Infinity
  BY <1>1, <1>2 DEF Traced
<1>4. p \in Node /\ best[p] # Infinity
  BY <1>2, <1>3 DEF IInv, SearchOK, ComesFromExpanded, Expanded
<1>5. PICK longer : longer = <<p>> \o path
  OBVIOUS
<1>6. <<p>> \in Seq(Node) /\ Len(<<p>>) = 1 /\ <<p>>[1] = p
  BY <1>4
<1>7. /\ longer \in Seq(Node) /\ Len(longer) = Len(path) + 1
      /\ \A i \in 1..(Len(path) + 1) : longer[i] = IF i = 1 THEN p ELSE path[i - 1]
  <2>1. /\ longer \in Seq(Node) /\ Len(longer) = 1 + Len(path)
        /\ \A i \in 1..(1 + Len(path)) :
             longer[i] = IF i <= 1 THEN <<p>>[i] ELSE path[i - 1]
    BY <1>1, <1>5, <1>6, ConcatProperties, Zenon
  <2> QED
    BY <1>1, <1>6, <2>1
<1>8. longer # <<>> /\ DOMAIN longer = 1..(Len(path) + 1)
  BY <1>1, <1>7
<1>9. longer[Len(longer)] = Goal
  BY <1>1, <1>7 DEF Traced
<1>10. ASSUME NEW i \in 2..Len(longer)
       PROVE  longer[i] # Start /\ longer[i - 1] = previous[longer[i]]
  <2>1. CASE i = 2
    BY <1>1, <1>2, <1>3, <1>7, <2>1
  <2>2. CASE i # 2
    <3>1. i - 1 \in 2..Len(path) /\ i \in 1..(Len(path) + 1) /\ i - 1 \in 1..(Len(path) + 1)
      BY <1>1, <1>7, <2>2
    <3>2. longer[i] = path[i - 1] /\ longer[i - 1] = path[(i - 1) - 1]
      BY <1>7, <3>1
    <3> QED
      BY <3>1, <3>2 DEF Traced
  <2> QED
    BY <2>1, <2>2
<1>11. ASSUME NEW i \in DOMAIN longer
       PROVE  best[longer[i]] # Infinity
  <2>1. CASE i = 1
    BY <1>4, <1>7, <1>8, <2>1
  <2>2. CASE i # 1
    <3>1. i - 1 \in DOMAIN path /\ longer[i] = path[i - 1]
      BY <1>1, <1>7, <1>8, <2>2
    <3> QED
      BY <3>1 DEF Traced
  <2> QED
    BY <2>1, <2>2
<1>12. Traced(longer)
  BY <1>7, <1>8, <1>9, <1>10, <1>11 DEF Traced
<1> QED
  BY <1>1, <1>2, <1>5, <1>7, <1>12

\* Labels rise along the way, so it comes back to no node.
LEMMA LabelRises ==
  ASSUME IInv, NEW n \in Node, best[n] # Infinity, n # Start
  PROVE  /\ best[previous[n]] \in Nat /\ best[n] \in Nat /\ best[previous[n]] < best[n]
         /\ previous[n] \in Node
<1>1. PICK p \in Node : p = previous[n]
  BY DEF IInv, SearchOK
<1>2. best[p] # Infinity /\ EarnedFrom(n, p, best[p], best[n])
  BY <1>1 DEF IInv, LabelsAreEarned, EarnedFrom
<1>3. PICK s \in Nat, a \in Nat : s = best[p] /\ a = best[n]
  BY <1>2 DEF IInv, SearchOK
<1>4. PICK road \in RoadsFrom(p) :
        /\ Passable(RiskAt(n, s + road.travel))
        /\ a = s + road.travel * Multiplier(RiskAt(n, s + road.travel))
  BY <1>2, <1>3 DEF EarnedFrom, Passable
<1>5. WorldOK /\ road.travel \in Nat \ {0}
  BY TargetIsEnd DEF IInv
<1>6. PICK w \in Nat \ {0} : w = road.travel
  BY <1>5
<1>7. s < a
  <2>1. s + w \in Nat
    OBVIOUS
  <2>2. RiskAt(n, s + w) \in 0..Certain
    BY <1>5, <2>1, RiskIsTyped
  <2>3. PICK k \in Nat \ {0} : k = Multiplier(RiskAt(n, s + w))
    <3>1. RiskAt(n, s + w) \in Nat
      BY <2>2
    <3> QED
      BY <1>4, <1>6, <3>1, MultiplierIsPositive
  <2>4. a = s + w * k
    BY <1>4, <1>6, <2>3
  <2>5. w * k \in Nat \ {0}
    BY SMT
  <2> DEFINE z == w * k
  <2>6. z \in Nat \ {0} /\ a = s + z
    BY <2>4, <2>5
  <2> HIDE DEF z
  <2> QED
    BY <2>6
<1> QED
  BY <1>1, <1>3, <1>7

LEMMA TracedRises ==
  ASSUME IInv, NEW path, Traced(path), NEW i \in DOMAIN path, NEW j \in DOMAIN path, i < j
  PROVE  best[path[i]] < best[path[j]] /\ best[path[i]] \in Nat
<1>1. path \in Seq(Node) /\ DOMAIN path = 1..Len(path) /\ Len(path) \in Nat
  BY DEF Traced
<1>2. \A k \in DOMAIN path : path[k] \in Node /\ best[path[k]] \in Nat
  <2>1. \A k \in DOMAIN path : path[k] \in Node /\ best[path[k]] # Infinity
    BY <1>1 DEF Traced
  <2> QED
    BY <2>1 DEF IInv, SearchOK
<1>3. \A k \in 2..Len(path) : best[path[k - 1]] < best[path[k]]
  <2> SUFFICES ASSUME NEW k \in 2..Len(path) PROVE best[path[k - 1]] < best[path[k]]
    OBVIOUS
  <2>1. k \in DOMAIN path
    BY <1>1
  <2>2. path[k] \in Node /\ path[k] # Start /\ best[path[k]] # Infinity
        /\ path[k - 1] = previous[path[k]]
    BY <1>2, <2>1 DEF Traced
  <2> QED
    BY <2>2, LabelRises
<1> DEFINE Good == {k \in Nat : k \in (i + 1)..Len(path) => best[path[i]] < best[path[k]]}
<1>4. i + 1 \in Nat /\ i \in Nat /\ j \in Nat /\ j >= i + 1 /\ j \in (i + 1)..Len(path)
  BY <1>1
<1>5. i + 1 \in Good
  <2> SUFFICES ASSUME i + 1 \in (i + 1)..Len(path) PROVE best[path[i]] < best[path[i + 1]]
    BY <1>4
  <2>1. i + 1 \in 2..Len(path) /\ (i + 1) - 1 = i
    BY <1>1, <1>4
  <2>2. best[path[(i + 1) - 1]] < best[path[i + 1]]
    BY <1>3, <2>1, Zenon
  <2> QED
    BY <2>1, <2>2
<1>6. ASSUME NEW k \in Nat, k >= i + 1, k \in Good
      PROVE  k + 1 \in Good
  <2> SUFFICES ASSUME k + 1 \in (i + 1)..Len(path) PROVE best[path[i]] < best[path[k + 1]]
    OBVIOUS
  <2>1. k \in (i + 1)..Len(path) /\ k \in DOMAIN path /\ k + 1 \in DOMAIN path
        /\ k + 1 \in 2..Len(path) /\ (k + 1) - 1 = k
    BY <1>1, <1>4, <1>6
  <2>2. best[path[i]] < best[path[k]]
    BY <1>6, <2>1
  <2>3. best[path[(k + 1) - 1]] < best[path[k + 1]]
    BY <1>3, <2>1, Zenon
  <2>4. best[path[k]] < best[path[k + 1]]
    BY <2>1, <2>3
  <2>5. best[path[i]] \in Nat /\ best[path[k]] \in Nat /\ best[path[k + 1]] \in Nat
    BY <1>2, <2>1
  <2> QED
    BY <2>2, <2>4, <2>5
<1> HIDE DEF Good
<1>7. j \in Good
  BY <1>4, <1>5, <1>6, AllReached
<1> QED
  BY <1>2, <1>4, <1>7 DEF Good

LEMMA TracedIsShort ==
  ASSUME IInv, NEW path, Traced(path)
  PROVE  Len(path) <= Cardinality(Node) /\ \A i, j \in DOMAIN path : path[i] = path[j] => i = j
<1>1. path \in Seq(Node) /\ DOMAIN path = 1..Len(path) /\ Len(path) \in Nat
      /\ path \in [1..Len(path) -> Node]
  BY DEF Traced
<1>2. ASSUME NEW i \in DOMAIN path, NEW j \in DOMAIN path, path[i] = path[j], i # j
      PROVE  FALSE
  <2>1. CASE i < j
    BY <1>2, <2>1, TracedRises
  <2>2. CASE j < i
    BY <1>2, <2>2, TracedRises
  <2>3. i < j \/ j < i
    BY <1>1, <1>2
  <2> QED
    BY <2>1, <2>2, <2>3
<1>3. path \in Injection(1..Len(path), Node)
  BY <1>1, <1>2 DEF Injection, IsInjective
<1>4. Cardinality(1..Len(path)) <= Cardinality(Node)
  BY <1>3, FS_Injection, PlannerAssumption
<1>5. Cardinality(1..Len(path)) = Len(path)
  BY <1>1, FS_Interval
<1> QED
  BY <1>2, <1>4, <1>5

\* The recursion of PathBack has a solution, and takes its steps.
LEMMA BackSteps ==
  ASSUME SearchOK
  PROVE  \E back : /\ PathBack = back[Cardinality(Node)]
                   /\ back[0] = <<Goal>>
                   /\ \A i \in 1..Cardinality(Node) :
                        back[i] = IF Head(back[i - 1]) = Start THEN back[i - 1]
                                  ELSE <<previous[Head(back[i - 1])]>> \o back[i - 1]
<1>1. PICK last \in Nat : last = Cardinality(Node)
  BY PlannerAssumption, FS_CardinalityType
<1>2. PICK V : V = Seq(Node) \ {<<>>}
  OBVIOUS
<1>3. PICK first \in V : first = <<Goal>>
  <2>1. Goal \in Node
    BY PlannerAssumption
  <2>2. <<Goal>> \in Seq(Node) /\ <<Goal>> # <<>>
    BY <2>1
  <2> QED
    BY <1>2, <2>2
<1> DEFINE Longer(p) == IF Head(p) = Start THEN p ELSE <<previous[Head(p)]>> \o p
<1>4. ASSUME NEW p \in V PROVE Longer(p) \in V
  <2>1. CASE Head(p) = Start
    BY <2>1
  <2>2. CASE Head(p) # Start
    <3>1. PICK q \in Node : q = previous[Head(p)]
      BY <1>2 DEF SearchOK
    <3>2. <<q>> \in Seq(Node)
      OBVIOUS
    <3>3. <<q>> \o p \in Seq(Node) /\ Len(<<q>> \o p) = 1 + Len(p)
      BY <1>2, <3>2
    <3> QED
      BY <1>2, <2>2, <3>1, <3>3
  <2> QED
    BY <2>1, <2>2
<1>5. PICK step \in [((0 + 1)..last) \X V -> V] :
        \A i \in (0 + 1)..last : \A p \in V : step[<<i, p>>] = Longer(p)
  <2> DEFINE s == [x \in ((0 + 1)..last) \X V |-> Longer(x[2])]
  <2>1. s \in [((0 + 1)..last) \X V -> V]
    BY <1>4
  <2>2. \A i \in (0 + 1)..last : \A p \in V : s[<<i, p>>] = Longer(p)
    <3> HIDE DEF Longer
    <3> QED
      OBVIOUS
  <2> HIDE DEF s, Longer
  <2> QED
    BY <2>1, <2>2
<1>6. PICK g \in [0..last -> V] :
        /\ g[0] = first
        /\ \A i \in (0 + 1)..last : g[i] = step[<<i, g[i - 1]>>]
  <2>1. 0 \in Nat /\ last >= 0 /\ step \in [((0 + 1)..last) \X V -> V]
    BY <1>5
  <2>2. Steps(V, first, 0, last, step) # {}
    BY <2>1, StepsExist
  <2> QED
    BY <2>2, Zenon DEF Steps
<1>7. \A i \in (0 + 1)..last : g[i] = Longer(g[i - 1])
  <2> SUFFICES ASSUME NEW i \in (0 + 1)..last PROVE g[i] = Longer(g[i - 1])
    OBVIOUS
  <2>1. g[i - 1] \in V
    BY <1>6
  <2> HIDE DEF Longer
  <2> QED
    BY <1>5, <1>6, <2>1
<1> DEFINE Fits(back) ==
      back = [i \in 0..last |-> IF i = 0 THEN first ELSE Longer(back[i - 1])]
<1>10. Fits(g)
  <2> HIDE DEF Longer
  <2>1. \A i \in 0..last : g[i] = IF i = 0 THEN first ELSE Longer(g[i - 1])
    BY <1>6, <1>7
  <2>2. g = [i \in 0..last |-> g[i]]
    BY <1>6
  <2> QED
    BY <2>1, <2>2
<1>11. PICK back : back = CHOOSE b : Fits(b)
  OBVIOUS
<1>12. Fits(back)
  <2> HIDE DEF Fits
  <2> QED
    BY <1>10, <1>11
<1>13. PathBack = back[Cardinality(Node)]
  BY <1>1, <1>3, <1>11 DEF PathBack
<1>14. \A i \in 0..last : back[i] = IF i = 0 THEN first ELSE Longer(back[i - 1])
  <2> HIDE DEF Longer
  <2> QED
    BY <1>12, SMT
<1>15. back[0] = first
  <2> HIDE DEF Longer
  <2> QED
    BY <1>14
<1>16. \A i \in 1..last : back[i] = Longer(back[i - 1])
  <2> HIDE DEF Longer
  <2> QED
    BY <1>14
<1> QED
  BY <1>1, <1>3, <1>13, <1>15, <1>16

\* A path back from a reached Goal gets to Start.
LEMMA BackToStart ==
  ASSUME IInv, best[Goal] # Infinity
  PROVE  Traced(PathBack) /\ PathBack[1] = Start
<1>1. PICK back : /\ PathBack = back[Cardinality(Node)]
                  /\ back[0] = <<Goal>>
                  /\ \A i \in 1..Cardinality(Node) :
                       back[i] = IF Head(back[i - 1]) = Start THEN back[i - 1]
                                 ELSE <<previous[Head(back[i - 1])]>> \o back[i - 1]
  BY BackSteps DEF IInv
<1>2. PICK last \in Nat : last = Cardinality(Node)
  BY PlannerAssumption, FS_CardinalityType
<1> DEFINE Good == {i \in Nat : i \in 0..last =>
                     Traced(back[i]) /\ (Head(back[i]) = Start \/ Len(back[i]) = i + 1)}
<1>3. 0 \in Good
  <2>1. Goal \in Node
    BY PlannerAssumption
  <2>2. Traced(<<Goal>>) /\ Len(<<Goal>>) = 1
    BY <2>1 DEF Traced
  <2> QED
    BY <1>1, <2>2
<1>4. ASSUME NEW i \in Nat, i >= 0, i \in Good
      PROVE  i + 1 \in Good
  <2> SUFFICES ASSUME i + 1 \in 0..last
               PROVE  /\ Traced(back[i + 1])
                      /\ Head(back[i + 1]) = Start \/ Len(back[i + 1]) = (i + 1) + 1
    OBVIOUS
  <2>1. i \in 0..last /\ i + 1 \in 1..last /\ (i + 1) - 1 = i
    OBVIOUS
  <2>2. PICK p : p = back[i]
    OBVIOUS
  <2>3. Traced(p) /\ (Head(p) = Start \/ Len(p) = i + 1)
    BY <1>4, <2>1, <2>2
  <2>4. back[i + 1] = IF Head(p) = Start THEN p ELSE <<previous[Head(p)]>> \o p
    <3>1. back[i + 1] = IF Head(back[(i + 1) - 1]) = Start THEN back[(i + 1) - 1]
                        ELSE <<previous[Head(back[(i + 1) - 1])]>> \o back[(i + 1) - 1]
      BY <1>1, <1>2, <2>1, Zenon
    <3> QED
      BY <2>1, <2>2, <3>1
  <2>5. CASE Head(p) = Start
    BY <2>3, <2>4, <2>5
  <2>6. CASE Head(p) # Start
    <3>1. /\ Traced(<<previous[Head(p)]>> \o p)
          /\ Len(<<previous[Head(p)]>> \o p) = Len(p) + 1
      BY <2>3, <2>6, TracedOn
    <3> QED
      BY <2>3, <2>4, <2>6, <3>1
  <2> QED
    BY <2>5, <2>6
<1> HIDE DEF Good
<1>5. last \in Good
  BY <1>3, <1>4, AllReached
<1>6. Traced(PathBack) /\ (Head(PathBack) = Start \/ Len(PathBack) = last + 1)
  BY <1>1, <1>2, <1>5 DEF Good
<1>7. Len(PathBack) <= last /\ Head(PathBack) = PathBack[1] /\ Len(PathBack) \in Nat
  BY <1>2, <1>6, TracedIsShort DEF Traced
<1> QED
  BY <1>6, <1>7

----------------------------------------------------------------------------
(* The invariant of the result.                                             *)

RouteTraced == outcome = "found" => Traced(route) /\ route[1] = Start

RouteInv == SearchInv /\ RouteTraced

LEMMA RouteNext ==
  ASSUME IInv, IInv', SearchInv, SearchInv', RouteTraced, [Next]_vars
  PROVE  RouteTraced'
<1>1. CASE outcome' # "found"
  BY <1>1 DEF RouteTraced
<1>2. ASSUME NEW t, Arrive(t) PROVE RouteTraced'
  <2>1. route' = PathBack /\ best' = best /\ previous' = previous /\ best[Goal] \in Nat
    BY <1>2 DEF Arrive, IsNext, IInv, SearchOK
  <2>2. best[Goal] # Infinity
    BY <2>1, PlannerAssumption
  <2>3. Traced(PathBack) /\ PathBack[1] = Start
    BY <2>2, BackToStart
  <2>4. PICK p : p = PathBack
    OBVIOUS
  <2>5. Traced(p)'
    BY <2>1, <2>3, <2>4 DEF Traced
  <2> QED
    BY <2>1, <2>3, <2>4, <2>5 DEF RouteTraced, Traced
<1>3. CASE UNCHANGED vars
  BY <1>3 DEF vars, search, RouteTraced, Traced
<1>4. CASE SetOff
  <2>1. outcome' # "found"
    BY <1>4 DEF SetOff
  <2> QED
    BY <1>1, <2>1
<1>5. ASSUME NEW t, NEW n, Skip(t, n) \/ Visit(t, n) PROVE RouteTraced'
  <2>1. outcome' # "found"
    BY <1>5 DEF Skip, Visit
  <2> QED
    BY <1>1, <2>1
<1>6. CASE GiveUp
  <2>1. outcome' # "found"
    BY <1>6 DEF GiveUp
  <2> QED
    BY <1>1, <2>1
<1> QED
  BY <1>2, <1>3, <1>4, <1>5, <1>6 DEF Next

LEMMA RouteHolds == Spec => [](IInv /\ RouteInv)
<1>1. Init => RouteTraced
  BY DEF Init, RouteTraced
<1>2. IInv /\ SearchInv /\ RouteTraced /\ [Next]_vars /\ (IInv /\ SearchInv)' => RouteTraced'
  BY RouteNext
<1>3. IInv /\ SearchInv /\ RouteTraced => RouteInv
  BY DEF RouteInv
<1> QED
  BY <1>1, <1>2, <1>3, SearchHolds, PTL DEF Spec

----------------------------------------------------------------------------
(* The walk along the route.                                                *)

\* A prediction for a time that has come counts.
LEMMA SliceCounts ==
  ASSUME WorldOK, NEW n \in Node, NEW t \in Nat, Passable(RiskAt(n, t)),
         NEW h \in DOMAIN slices, h <= t
  PROVE  slices[h][n] < BlockAt
<1> DEFINE Risks == {slices[g][n] : g \in Relevant(slices, t)} \cup {0}
<1>1. Certain \in Nat /\ BlockAt \in Nat
  BY PlannerAssumption
<1>2. Relevant(slices, t) \subseteq DOMAIN slices /\ h \in Relevant(slices, t)
  BY DEF Relevant, First
<1>3. \A g \in DOMAIN slices : slices[g][n] \in 0..Certain
  BY DEF WorldOK
<1>4. Risks \in SUBSET (0..Certain) /\ Risks # {} /\ slices[h][n] \in Risks
  BY <1>1, <1>2, <1>3, SMT
<1>5. RiskAt(n, t) = Max(Risks)
  BY DEF RiskAt, RiskIn, Worst
<1> HIDE DEF Risks
<1>6. Max(Risks) \in 0..Certain /\ Max(Risks) >= slices[h][n]
  BY <1>1, <1>4, MaxIsGreatest
<1>7. RiskAt(n, t) < BlockAt
  BY DEF Passable
<1> QED
  BY <1>1, <1>3, <1>5, <1>6, <1>7

\* The recursion of Elapsed has a solution, and takes its steps.
LEMMA ElapsedSteps ==
  ASSUME NEW path, NEW n \in Nat \ {0}, DOMAIN path = 1..n,
         \A i \in 2..n : TravelTime(path[i - 1], path[i]) \in Nat
  PROVE  /\ Elapsed(path)[1] = 0
         /\ \A i \in 1..n : Elapsed(path)[i] \in Nat
         /\ \A i \in 2..n :
              Elapsed(path)[i] = Elapsed(path)[i - 1] + TravelTime(path[i - 1], path[i])
<1> DEFINE Later(i, e) == e + TravelTime(path[i - 1], path[i])
<1>1. \A i \in (1 + 1)..n : \A e \in Nat : Later(i, e) \in Nat
  OBVIOUS
<1>2. PICK step \in [((1 + 1)..n) \X Nat -> Nat] :
        \A i \in (1 + 1)..n : \A e \in Nat : step[<<i, e>>] = Later(i, e)
  <2> DEFINE s == [x \in ((1 + 1)..n) \X Nat |-> Later(x[1], x[2])]
  <2> HIDE DEF Later
  <2>1. s \in [((1 + 1)..n) \X Nat -> Nat]
    BY <1>1
  <2>2. \A i \in (1 + 1)..n : \A e \in Nat : s[<<i, e>>] = Later(i, e)
    OBVIOUS
  <2> HIDE DEF s
  <2> QED
    BY <2>1, <2>2
<1>3. PICK g \in [1..n -> Nat] :
        /\ g[1] = 0
        /\ \A i \in (1 + 1)..n : g[i] = step[<<i, g[i - 1]>>]
  <2>1. 1 \in Nat /\ n \in Nat /\ n >= 1 /\ 0 \in Nat /\ step \in [((1 + 1)..n) \X Nat -> Nat]
    OBVIOUS
  <2>2. Steps(Nat, 0, 1, n, step) # {}
    BY <2>1, StepsExist
  <2> QED
    BY <2>2, Zenon DEF Steps
<1>4. \A i \in (1 + 1)..n : g[i] = Later(i, g[i - 1])
  <2> SUFFICES ASSUME NEW i \in (1 + 1)..n PROVE g[i] = Later(i, g[i - 1])
    OBVIOUS
  <2>1. g[i - 1] \in Nat
    BY <1>3
  <2> HIDE DEF Later
  <2> QED
    BY <1>2, <1>3, <2>1
<1> DEFINE Fits(passed) ==
      passed = [i \in DOMAIN path |-> IF i = 1 THEN 0 ELSE Later(i, passed[i - 1])]
<1>5. Fits(g)
  <2> HIDE DEF Later
  <2>1. \A i \in 1..n : g[i] = IF i = 1 THEN 0 ELSE Later(i, g[i - 1])
    BY <1>3, <1>4
  <2>2. g = [i \in 1..n |-> g[i]]
    BY <1>3
  <2> QED
    BY <2>1, <2>2
<1>6. PICK passed : passed = CHOOSE f : Fits(f)
  OBVIOUS
<1>7. Fits(passed)
  <2> HIDE DEF Fits
  <2> QED
    BY <1>5, <1>6
<1>8. Elapsed(path) = passed
  BY <1>6 DEF Elapsed
<1>9. \A i \in 1..n : passed[i] = IF i = 1 THEN 0 ELSE Later(i, passed[i - 1])
  <2> HIDE DEF Later
  <2>1. passed = [i \in 1..n |-> IF i = 1 THEN 0 ELSE Later(i, passed[i - 1])]
    BY <1>7
  <2> QED
    BY <2>1, SMT
<1>10. passed[1] = 0 /\ \A i \in (1 + 1)..n : passed[i] = Later(i, passed[i - 1])
  <2>1. 1 \in 1..n /\ \A i \in (1 + 1)..n : i \in 1..n /\ i # 1
    OBVIOUS
  <2> HIDE DEF Later
  <2>2. \A i \in (1 + 1)..n : passed[i] = Later(i, passed[i - 1])
    BY <1>9, <2>1, Zenon
  <2> QED
    BY <1>9, <2>1, <2>2, Zenon
<1>11. \A i \in 1..n : passed[i] \in Nat
  <2>1. \A i \in (1 + 1)..n : passed[i - 1] \in Nat => passed[i] \in Nat
    <3> HIDE DEF Later
    <3> QED
      BY <1>1, <1>10
  <2>2. passed[1] \in Nat
    BY <1>10
  <2> QED
    BY <2>1, <2>2, StepsTyped
<1> QED
  BY <1>8, <1>10, <1>11

\* How one reached node follows from the one before it.
LEMMA Hop ==
  ASSUME IInv, NEW m \in Node, best[m] # Infinity, m # Start, NEW p, p = previous[m]
  PROVE  /\ p \in Node /\ p # m /\ m \notin closed
         /\ best[p] \in Nat /\ best[m] \in Nat
         /\ TravelTime(p, m) \in Nat \ {0}
         /\ \E road \in roads :
              /\ road.ends = {p, m} /\ road.travel \in Nat \ {0}
              /\ TravelTime(p, m) <= road.travel
              /\ Passable(RiskAt(m, best[p] + road.travel))
              /\ best[m] = best[p] + road.travel * Multiplier(RiskAt(m, best[p] + road.travel))
<1>1. p \in Node /\ best[p] # Infinity /\ EarnedFrom(m, p, best[p], best[m])
  BY DEF IInv, SearchOK, LabelsAreEarned, EarnedFrom
<1>2. best[p] \in Nat /\ best[m] \in Nat /\ m \notin closed
  BY <1>1 DEF IInv, SearchOK, EarnedFrom
<1>3. PICK road \in RoadsFrom(p) :
        /\ Target(road, p) = m
        /\ Passable(RiskAt(m, best[p] + road.travel))
        /\ best[m] = best[p] + road.travel * Multiplier(RiskAt(m, best[p] + road.travel))
  BY <1>1 DEF EarnedFrom, Passable
<1>4. WorldOK /\ road \in roads
  BY DEF IInv, RoadsFrom
<1>5. p # m /\ road.travel \in Nat \ {0}
  BY <1>1, <1>3, <1>4, TargetIsEnd
<1>6. road.ends = {p, m}
  BY <1>1, <1>3, <1>4, <1>5, RoadBetween
<1>7. TravelTime(p, m) \in Nat \ {0} /\ TravelTime(p, m) <= road.travel
  BY <1>1, <1>4, <1>5, <1>6, Shortest
<1> QED
  BY <1>1, <1>2, <1>3, <1>4, <1>5, <1>6, <1>7

LEMMA Penalized ==
  ASSUME WorldOK, NEW n \in Node, NEW s \in Nat, NEW w \in Nat \ {0}, Passable(RiskAt(n, s + w))
  PROVE  /\ s + w * Multiplier(RiskAt(n, s + w)) \in Nat
         /\ s + w <= s + w * Multiplier(RiskAt(n, s + w))
BY Fifo

\* Whoever walks at the plain speed is never later than the search thought.
LEMMA WalkIsAhead ==
  ASSUME IInv, RouteInv, outcome = "found", NEW i \in DOMAIN route
  PROVE  /\ Elapsed(route)[i] \in Nat /\ route[i] \in Node /\ best[route[i]] \in Nat
         /\ depart + Elapsed(route)[i] <= best[route[i]]
         /\ i # 1 => /\ route[i] \notin closed
                     /\ \E t \in Nat : /\ depart + Elapsed(route)[i] <= t
                                       /\ Passable(RiskAt(route[i], t))
<1>1. Traced(route) /\ route[1] = Start /\ best[Start] = depart
  BY DEF RouteInv, RouteTraced, SearchInv, FromStart, UnderWay
<1>2. PICK n \in Nat \ {0} : n = Len(route)
  BY <1>1 DEF Traced
<1>3. DOMAIN route = 1..n /\ \A k \in 1..n : route[k] \in Node /\ best[route[k]] # Infinity
  BY <1>1, <1>2 DEF Traced
<1>4. ASSUME NEW k \in 2..n
      PROVE  route[k] # Start /\ route[k - 1] = previous[route[k]] /\ k \in 1..n /\ k - 1 \in 1..n
  <2>1. k \in 2..Len(route)
    BY <1>2
  <2> QED
    BY <1>1, <2>1 DEF Traced
<1>5. ASSUME NEW k \in 2..n
      PROVE  /\ TravelTime(route[k - 1], route[k]) \in Nat
             /\ route[k] \notin closed
             /\ best[route[k - 1]] \in Nat /\ best[route[k]] \in Nat
             /\ \E w \in Nat : /\ TravelTime(route[k - 1], route[k]) <= w
                               /\ Passable(RiskAt(route[k], best[route[k - 1]] + w))
                               /\ best[route[k - 1]] + w <= best[route[k]]
  <2>1. PICK m, p : m \in Node /\ m = route[k] /\ p = route[k - 1] /\ p = previous[m] /\ m # Start
                             /\ best[m] # Infinity
    BY <1>3, <1>4
  <2>2. /\ p \in Node /\ m \notin closed /\ TravelTime(p, m) \in Nat \ {0}
        /\ best[p] \in Nat /\ best[m] \in Nat
    BY <2>1, Hop
  <2>3. PICK road \in roads :
              /\ road.travel \in Nat \ {0}
              /\ TravelTime(p, m) <= road.travel
              /\ Passable(RiskAt(m, best[p] + road.travel))
              /\ best[m] = best[p] + road.travel * Multiplier(RiskAt(m, best[p] + road.travel))
    BY <2>1, Hop
  <2>4. best[p] + road.travel <= best[m]
    BY <2>1, <2>2, <2>3, Penalized DEF IInv
  <2> QED
    BY <2>1, <2>2, <2>3, <2>4
<1>6. /\ Elapsed(route)[1] = 0
      /\ \A k \in 1..n : Elapsed(route)[k] \in Nat
      /\ \A k \in 2..n :
           Elapsed(route)[k] = Elapsed(route)[k - 1] + TravelTime(route[k - 1], route[k])
  BY <1>3, <1>5, ElapsedSteps
<1>7. depart \in Nat
  BY DEF IInv, WorldOK
<1>8. ASSUME NEW k \in 2..n, depart + Elapsed(route)[k - 1] <= best[route[k - 1]]
      PROVE  /\ depart + Elapsed(route)[k] <= best[route[k]]
             /\ \E t \in Nat : depart + Elapsed(route)[k] <= t /\ Passable(RiskAt(route[k], t))
  <2>1. PICK w \in Nat : /\ TravelTime(route[k - 1], route[k]) <= w
                         /\ Passable(RiskAt(route[k], best[route[k - 1]] + w))
                         /\ best[route[k - 1]] + w <= best[route[k]]
    BY <1>5
  <2>2. k \in 1..n /\ k - 1 \in 1..n
    OBVIOUS
  <2>3. PICK e0, e1, tt, b0, b1 : e0 = Elapsed(route)[k - 1] /\ e1 = Elapsed(route)[k]
              /\ tt = TravelTime(route[k - 1], route[k]) /\ b0 = best[route[k - 1]]
              /\ b1 = best[route[k]]
    OBVIOUS
  <2>4. e0 \in Nat /\ e1 \in Nat /\ tt \in Nat /\ b0 \in Nat /\ b1 \in Nat /\ e1 = e0 + tt
    BY <1>5, <1>6, <2>2, <2>3
  <2>5. depart + e0 <= b0 /\ tt <= w /\ b0 + w <= b1
    BY <1>8, <2>1, <2>3
  <2>6. depart + e1 <= b0 + w /\ depart + e1 <= b1 /\ b0 + w \in Nat
    BY <1>7, <2>4, <2>5
  <2> QED
    BY <2>1, <2>3, <2>6
<1> DEFINE Good == {k \in Nat : k \in 1..n => depart + Elapsed(route)[k] <= best[route[k]]}
<1>9. 1 \in Good
  BY <1>1, <1>6, <1>7
<1>10. ASSUME NEW k \in Nat, k >= 1, k \in Good
       PROVE  k + 1 \in Good
  <2> SUFFICES ASSUME k + 1 \in 1..n
               PROVE  depart + Elapsed(route)[k + 1] <= best[route[k + 1]]
    OBVIOUS
  <2>1. PICK j \in 2..n : j = k + 1 /\ j - 1 = k /\ k \in 1..n
    BY <1>10
  <2>2. depart + Elapsed(route)[j - 1] <= best[route[j - 1]]
    BY <1>10, <2>1
  <2> QED
    BY <1>8, <2>1, <2>2
<1> HIDE DEF Good
<1>11. \A k \in Nat : k >= 1 => k \in Good
  BY <1>9, <1>10, AllReached
<1>12. \A k \in 1..n : depart + Elapsed(route)[k] <= best[route[k]]
  <2> SUFFICES ASSUME NEW k \in 1..n PROVE depart + Elapsed(route)[k] <= best[route[k]]
    OBVIOUS
  <2>1. k \in Nat /\ k >= 1
    OBVIOUS
  <2> QED
    BY <1>11, <2>1 DEF Good
<1>13. i # 1 => /\ route[i] \notin closed
                /\ \E t \in Nat : depart + Elapsed(route)[i] <= t /\ Passable(RiskAt(route[i], t))
  <2> SUFFICES ASSUME i # 1
               PROVE  /\ route[i] \notin closed
                      /\ \E t \in Nat : depart + Elapsed(route)[i] <= t
                                        /\ Passable(RiskAt(route[i], t))
    OBVIOUS
  <2>1. i \in 2..n /\ i - 1 \in 1..n
    BY <1>3
  <2> QED
    BY <1>5, <1>8, <1>12, <2>1
<1> QED
  <2>1. best[route[i]] \in Nat
    BY <1>3 DEF IInv, SearchOK
  <2> QED
    BY <1>3, <1>6, <1>12, <1>13, <2>1

LEMMA WalkIsBelow ==
  ASSUME IInv, RouteInv
  PROVE  WalkedBelowThreshold
<1> SUFFICES ASSUME outcome = "found", NEW i \in DOMAIN route
             PROVE  /\ route[i] \notin closed
                    /\ \A h \in DOMAIN slices :
                         h <= depart + Elapsed(route)[i] => slices[h][route[i]] < BlockAt
  BY DEF WalkedBelowThreshold
<1>1. PICK e \in Nat, n \in Node : e = Elapsed(route)[i] /\ n = route[i]
  BY WalkIsAhead
<1>2. PICK t \in Nat : depart + e <= t /\ Passable(RiskAt(n, t)) /\ n \notin closed
  <2>1. CASE i = 1
    <3>1. n = Start /\ Start \notin closed /\ Passable(RiskAt(Start, depart))
      BY <1>1, <2>1 DEF RouteInv, RouteTraced, SearchInv, FromStart, UnderWay
    <3>2. depart \in Nat /\ best[Start] = depart /\ depart + e <= best[n]
      BY <1>1, WalkIsAhead DEF IInv, WorldOK, RouteInv, SearchInv, FromStart, UnderWay
    <3> QED
      BY <3>1, <3>2
  <2>2. CASE i # 1
    BY <1>1, <2>2, WalkIsAhead
  <2> QED
    BY <2>1, <2>2
<1>3. ASSUME NEW h \in DOMAIN slices, h <= depart + e
      PROVE  slices[h][n] < BlockAt
  <2>1. h <= t
    BY <1>2, <1>3 DEF IInv, WorldOK
  <2> QED
    BY <1>2, <2>1, SliceCounts DEF IInv
<1> QED
  BY <1>1, <1>2, <1>3

----------------------------------------------------------------------------
(* Those who follow the policy on a path of their own.                      *)

\* What Arrivals makes of an arrival a at p, for the next node m.
NextArrival(p, m, a) ==
  IF \/ a = Infinity
     \/ a - depart > MaxDuration
     \/ m \in closed
     \/ ~\E road \in roads : road.ends = {p, m}
  THEN Infinity
  ELSE LET walk == TravelTime(p, m)
           risk == RiskAt(m, a + walk)
       IN IF risk < BlockAt THEN a + walk * Multiplier(risk) ELSE Infinity

\* Somebody who can go on takes the shortest road, which the search has tried.
LEMMA GoesOn ==
  ASSUME WorldOK, NEW p \in Node, NEW m \in Node, p # m, NEW a \in Nat \cup {Infinity},
         NEW b, b = NextArrival(p, m, a), b # Infinity
  PROVE  /\ a \in Nat /\ a - depart <= MaxDuration /\ m \notin closed
         /\ b \in Nat /\ a <= b
         /\ \E quick \in RoadsFrom(p) :
              /\ Target(quick, p) = m /\ quick.travel \in Nat \ {0}
              /\ quick.travel = TravelTime(p, m)
              /\ Passable(RiskAt(m, a + quick.travel))
              /\ b = a + quick.travel * Multiplier(RiskAt(m, a + quick.travel))
<1>1. /\ a # Infinity /\ ~(a - depart > MaxDuration) /\ m \notin closed
      /\ \E road \in roads : road.ends = {p, m}
  BY DEF NextArrival
<1>2. b = LET walk == TravelTime(p, m)
              risk == RiskAt(m, a + walk)
          IN IF risk < BlockAt THEN a + walk * Multiplier(risk) ELSE Infinity
  BY <1>1 DEF NextArrival
<1>3. a \in Nat /\ depart \in Nat /\ MaxDuration \in Nat
  BY <1>1, PlannerAssumption DEF WorldOK
<1>4. PICK quick \in RoadsFrom(p) : Target(quick, p) = m /\ quick.travel = TravelTime(p, m)
  BY <1>1, Shortest
<1>5. quick.travel \in Nat \ {0}
  BY <1>4, TargetIsEnd
<1>6. PICK w, r : w \in Nat \ {0} /\ w = quick.travel /\ r = RiskAt(m, a + w)
  BY <1>5
<1>7. b = IF r < BlockAt THEN a + w * Multiplier(r) ELSE Infinity
  BY <1>2, <1>4, <1>6
<1>8. Passable(r) /\ b = a + w * Multiplier(r)
  BY <1>7 DEF Passable
<1>9. b \in Nat /\ a + w <= b
  <2>1. w \in Nat \ {0} /\ Passable(RiskAt(m, a + w)) /\ b = a + w * Multiplier(RiskAt(m, a + w))
    BY <1>6, <1>8
  <2> QED
    BY <1>3, <2>1, Penalized
<1>10. a <= b
  BY <1>3, <1>6, <1>9
<1>11. Passable(RiskAt(m, a + quick.travel))
        /\ b = a + quick.travel * Multiplier(RiskAt(m, a + quick.travel))
  BY <1>6, <1>8
<1> QED
  BY <1>1, <1>3, <1>4, <1>5, <1>9, <1>10, <1>11

\* The recursion of Arrivals has a solution, and takes its steps.
LEMMA ArrivalSteps ==
  ASSUME WorldOK, NEW path, NEW n \in Nat \ {0}, DOMAIN path = 1..n,
         \A i \in 1..n : path[i] \in Node,
         \A i \in 2..n : path[i - 1] # path[i]
  PROVE  /\ Arrivals(path)[1] = depart
         /\ \A i \in 1..n : Arrivals(path)[i] \in Nat \cup {Infinity}
         /\ \A i \in 2..n :
              Arrivals(path)[i] = NextArrival(path[i - 1], path[i], Arrivals(path)[i - 1])
<1> DEFINE Later(i, a) == NextArrival(path[i - 1], path[i], a)
<1>1. PICK V : V = Nat \cup {Infinity}
  OBVIOUS
<1>2. depart \in Nat /\ depart \in V
  BY <1>1 DEF WorldOK
<1>3. \A i \in (1 + 1)..n : \A a \in V : Later(i, a) \in V
  <2> SUFFICES ASSUME NEW i \in (1 + 1)..n, NEW a \in V, Later(i, a) # Infinity
               PROVE  Later(i, a) \in Nat
    BY <1>1
  <2>1. PICK p, m : p = path[i - 1] /\ m = path[i]
    OBVIOUS
  <2>2. i - 1 \in 1..n /\ i \in 1..n /\ i \in 2..n
    OBVIOUS
  <2>3. p \in Node /\ m \in Node /\ p # m
    BY <2>1, <2>2
  <2> QED
    BY <1>1, <2>1, <2>3, GoesOn
<1> HIDE DEF Later
<1>4. PICK step \in [((1 + 1)..n) \X V -> V] :
        \A i \in (1 + 1)..n : \A a \in V : step[<<i, a>>] = Later(i, a)
  <2> DEFINE s == [x \in ((1 + 1)..n) \X V |-> Later(x[1], x[2])]
  <2>1. s \in [((1 + 1)..n) \X V -> V]
    BY <1>3
  <2>2. \A i \in (1 + 1)..n : \A a \in V : s[<<i, a>>] = Later(i, a)
    OBVIOUS
  <2> HIDE DEF s
  <2> QED
    BY <2>1, <2>2
<1>5. PICK g \in [1..n -> V] :
        /\ g[1] = depart
        /\ \A i \in (1 + 1)..n : g[i] = step[<<i, g[i - 1]>>]
  <2>1. 1 \in Nat /\ n \in Nat /\ n >= 1 /\ step \in [((1 + 1)..n) \X V -> V]
    OBVIOUS
  <2>2. Steps(V, depart, 1, n, step) # {}
    BY <1>2, <2>1, StepsExist
  <2> QED
    BY <2>2, Zenon DEF Steps
<1>6. \A i \in (1 + 1)..n : g[i] = Later(i, g[i - 1])
  <2> SUFFICES ASSUME NEW i \in (1 + 1)..n PROVE g[i] = Later(i, g[i - 1])
    OBVIOUS
  <2>1. g[i - 1] \in V
    BY <1>5
  <2> QED
    BY <1>4, <1>5, <2>1
<1> DEFINE Fits(at) ==
      at = [i \in DOMAIN path |-> IF i = 1 THEN depart ELSE Later(i, at[i - 1])]
<1>7. Fits(g)
  <2>1. \A i \in 1..n : g[i] = IF i = 1 THEN depart ELSE Later(i, g[i - 1])
    BY <1>5, <1>6
  <2>2. g = [i \in 1..n |-> g[i]]
    BY <1>5
  <2> QED
    BY <2>1, <2>2
<1>8. PICK at : at = CHOOSE f : Fits(f)
  OBVIOUS
<1>9. Fits(at)
  <2> HIDE DEF Fits
  <2> QED
    BY <1>7, <1>8
<1>10. Arrivals(path) = at
  BY <1>8 DEF Arrivals, Later, NextArrival
<1>11. \A i \in 1..n : at[i] = IF i = 1 THEN depart ELSE Later(i, at[i - 1])
  <2>1. at = [i \in 1..n |-> IF i = 1 THEN depart ELSE Later(i, at[i - 1])]
    BY <1>9
  <2> QED
    BY <2>1, SMT
<1>12. at[1] = depart /\ \A i \in (1 + 1)..n : at[i] = Later(i, at[i - 1])
  <2>1. 1 \in 1..n /\ \A i \in (1 + 1)..n : i \in 1..n /\ i # 1
    OBVIOUS
  <2>2. \A i \in (1 + 1)..n : at[i] = Later(i, at[i - 1])
    BY <1>11, <2>1, Zenon
  <2> QED
    BY <1>11, <2>1, <2>2, Zenon
<1>13. \A i \in 1..n : at[i] \in V
  <2>1. \A i \in (1 + 1)..n : at[i - 1] \in V => at[i] \in V
    BY <1>3, <1>12
  <2>2. at[1] \in V
    BY <1>2, <1>12
  <2> QED
    BY <2>1, <2>2, StepsTyped
<1> QED
  BY <1>1, <1>10, <1>12, <1>13 DEF Later

\* The members of SimplePaths.
LEMMA SimplePath ==
  ASSUME NEW path
  PROVE  path \in SimplePaths <=>
           \E n \in 1..Cardinality(Node) :
             /\ path \in [1..n -> Node] /\ Len(path) = n
             /\ path[1] = Start /\ path[n] = Goal
             /\ \A i, j \in 1..n : path[i] = path[j] => i = j
<1>1. ASSUME NEW n \in 1..Cardinality(Node), path \in [1..n -> Node]
      PROVE  Len(path) = n /\ DOMAIN path = 1..n
  <2>1. n \in Nat
    BY PlannerAssumption, FS_CardinalityType
  <2>2. path \in Seq(Node)
    BY <1>1, <2>1
  <2>3. DOMAIN path = 1..Len(path) /\ Len(path) \in Nat
    BY <2>2, LenProperties
  <2>4. DOMAIN path = 1..n
    BY <1>1
  <2>5. PICK l \in Nat : l = Len(path) /\ 1..l = 1..n
    BY <2>3, <2>4
  <2>6. (l \in 1..l <=> l \in 1..n) /\ (n \in 1..n <=> n \in 1..l)
    BY <2>5
  <2>7. l = n
    BY <2>1, <2>6
  <2> QED
    BY <2>4, <2>5, <2>7
<1>2. path \in UNION {[1..k -> Node] : k \in 1..Cardinality(Node)} <=>
        \E n \in 1..Cardinality(Node) : path \in [1..n -> Node]
  BY Zenon
<1>3. path \in SimplePaths <=>
        /\ path \in UNION {[1..k -> Node] : k \in 1..Cardinality(Node)}
        /\ path[1] = Start /\ path[Len(path)] = Goal
        /\ \A i, j \in DOMAIN path : path[i] = path[j] => i = j
  BY Zenon DEF SimplePaths
<1> QED
  BY <1>1, <1>2, <1>3

\* The search has an answer.
Ended == outcome \in {"found", "cut off", "not connected"}

\* Times at which the search had reached Goal.
PastGoal == {t \in Nat : outcome = "found" /\ best[Goal] <= t}

\* An arrival not past Goal has been expanded.
LEMMA NotPastGoal ==
  ASSUME IInv, SearchInv, Ended,
         NEW n \in Node, NEW t \in Nat, best[n] # Infinity, best[n] <= t, t \notin PastGoal
  PROVE  Expanded(n)
<1>1. best[n] \in Nat
  BY DEF IInv, SearchOK
<1>2. CASE outcome = "found"
  <2>1. Expanded(Goal) /\ Goal \in Node
    BY <1>2, PlannerAssumption DEF SearchInv, GoalLast
  <2>2. best[Goal] \in Nat
    BY <2>1 DEF IInv, SearchOK, Expanded
  <2>3. best[n] < best[Goal]
    BY <1>1, <1>2, <2>2 DEF PastGoal
  <2>4. <<best[n], n>> \in queue => best[Goal] <= best[n]
    BY <2>1 DEF IInv, ExpandedFirst
  <2>5. PICK x \in Nat, y \in Nat : x = best[n] /\ y = best[Goal]
    BY <1>1, <2>2
  <2>6. ~(y <= x)
    BY <2>3, <2>5
  <2>7. <<best[n], n>> \notin queue
    BY <2>4, <2>5, <2>6
  <2> QED
    BY <2>7 DEF Expanded
<1>3. CASE outcome # "found"
  BY <1>3 DEF Ended, SearchInv, Exhausted, Expanded
<1> QED
  BY <1>2, <1>3

\* From a node that was expanded in time one is nowhere later than the search.
LEMMA NotOvertaken ==
  ASSUME IInv, SearchInv, NEW p \in Node, NEW m \in Node, p # m, Expanded(p), p # Goal,
         NEW a \in Nat, best[p] <= a, NEW b, b = NextArrival(p, m, a), b # Infinity
  PROVE  best[m] # Infinity /\ best[m] <= b
<1>1. WorldOK /\ a \in Nat \cup {Infinity}
  BY DEF IInv
<1>2. a - depart <= MaxDuration /\ m \notin closed /\ b \in Nat
  BY <1>1, GoesOn
<1>3. PICK quick \in RoadsFrom(p), w \in Nat \ {0} :
        /\ Target(quick, p) = m /\ w = quick.travel /\ w <= w
        /\ Passable(RiskAt(m, a + w))
        /\ b = a + w * Multiplier(RiskAt(m, a + w))
  BY <1>1, GoesOn
<1>4. PICK s \in Nat : s = best[p] /\ s <= a
  BY DEF Expanded, IInv, SearchOK
<1>5. InTime(p)
  BY <1>1, <1>2, <1>4, PlannerAssumption DEF InTime, WorldOK
<1>6. /\ Passable(RiskAt(m, s + w))
      /\ s + w * Multiplier(RiskAt(m, s + w)) \in Nat
      /\ s + w * Multiplier(RiskAt(m, s + w)) <= b
  BY <1>1, <1>3, <1>4, Fifo
<1>7. RiskAhead(quick, p, s) = RiskAt(m, s + w)
  BY <1>3 DEF RiskAhead, JudgedAt
<1>8. quick \in OpenRoads(p, s)
  BY <1>2, <1>3, <1>6, <1>7 DEF OpenRoads
<1>9. PICK offer \in Offers(p, s, m) : offer <= b /\ offer \in Nat
  <2>1. Candidate(quick, p, s) \in Offers(p, s, m)
    BY <1>3, <1>8 DEF Offers
  <2>2. Candidate(quick, p, s) = s + w * Multiplier(RiskAt(m, s + w))
    BY <1>3, <1>7 DEF Candidate
  <2> QED
    BY <1>6, <2>1, <2>2
<1>10. best[m] # Infinity /\ best[m] <= offer
  BY <1>4, <1>5 DEF SearchInv, Settled, SettledAt
<1>11. best[m] \in Nat
  BY <1>10 DEF IInv, SearchOK
<1> QED
  BY <1>2, <1>9, <1>10, <1>11

\* Nobody who follows the policy is at Goal before the search.
LEMMA NobodyIsFaster ==
  ASSUME IInv, SearchInv, Ended,
         NEW t \in ArrivalsAtGoal
  PROVE  outcome = "found" /\ best[Goal] <= t
<1>1. PICK path \in SimplePaths : t = Arrivals(path)[Len(path)] /\ t # Infinity
  BY DEF ArrivalsAtGoal
<1>2. PICK n \in Nat \ {0} :
        /\ path \in [1..n -> Node] /\ Len(path) = n
        /\ path[1] = Start /\ path[n] = Goal
        /\ \A i, j \in 1..n : path[i] = path[j] => i = j
  <2>1. Cardinality(Node) \in Nat
    BY PlannerAssumption, FS_CardinalityType
  <2>2. PICK n \in 1..Cardinality(Node) :
          /\ path \in [1..n -> Node] /\ Len(path) = n
          /\ path[1] = Start /\ path[n] = Goal
          /\ \A i, j \in 1..n : path[i] = path[j] => i = j
    BY SimplePath
  <2>3. n \in Nat \ {0}
    BY <2>1, <2>2
  <2> QED
    BY <2>2, <2>3
<1>3. WorldOK /\ depart \in Nat
  BY DEF IInv, WorldOK
<1>4. \A i \in 1..n : path[i] \in Node
  BY <1>2
<1>5. \A i \in 2..n : path[i - 1] # path[i] /\ path[i - 1] # Goal /\ i - 1 \in 1..n /\ i \in 1..n
  <2> SUFFICES ASSUME NEW i \in 2..n
               PROVE  /\ path[i - 1] # path[i] /\ path[i - 1] # Goal
                      /\ i - 1 \in 1..n /\ i \in 1..n
    OBVIOUS
  <2>1. i - 1 \in 1..n /\ i \in 1..n /\ n \in 1..n /\ i - 1 # i /\ i - 1 # n
    BY <1>2
  <2> QED
    BY <1>2, <2>1
<1>6. PICK at : at = Arrivals(path)
  OBVIOUS
<1>0. DOMAIN path = 1..n
  BY <1>2
<1>7. /\ at[1] = depart
      /\ \A i \in 1..n : at[i] \in Nat \cup {Infinity}
      /\ \A i \in 2..n : at[i] = NextArrival(path[i - 1], path[i], at[i - 1])
  BY <1>0, <1>2, <1>3, <1>4, <1>5, <1>6, ArrivalSteps
<1> DEFINE Late == {i \in 1..n : \/ at[i] = Infinity \/ at[i] \in PastGoal
                                 \/ (best[path[i]] # Infinity /\ best[path[i]] <= at[i])}
           Good == {i \in Nat : i \in 1..n => i \in Late}
<1>8. 1 \in Good
  <2>1. best[Start] = depart
    BY DEF Ended, SearchInv, FromStart, UnderWay
  <2> QED
    BY <1>2, <1>3, <1>7, <2>1, PlannerAssumption
<1>9. ASSUME NEW k \in Nat, k >= 1, k \in Good
      PROVE  k + 1 \in Good
  <2> SUFFICES ASSUME k + 1 \in 1..n, at[k + 1] # Infinity PROVE k + 1 \in Late
    OBVIOUS
  <2>1. PICK i \in 2..n : i = k + 1 /\ i - 1 = k
    BY <1>2, <1>9
  <2>2. PICK p, m, a, b : p = path[i - 1] /\ m = path[i] /\ a = at[i - 1] /\ b = at[i]
    OBVIOUS
  <2>3. /\ p \in Node /\ m \in Node /\ p # m /\ p # Goal /\ a \in Nat \cup {Infinity}
        /\ b = NextArrival(p, m, a) /\ b # Infinity
    BY <1>4, <1>5, <1>7, <2>1, <2>2
  <2>4. a \in Nat /\ b \in Nat /\ a <= b
    BY <1>3, <2>3, GoesOn
  <2>5. a \in PastGoal \/ (best[p] # Infinity /\ best[p] <= a)
    <3>1. k \in 1..n /\ at[k] # Infinity
      BY <1>5, <2>1, <2>2, <2>4, PlannerAssumption
    <3>2. k \in Late
      BY <1>9, <3>1
    <3>3. \/ at[k] = Infinity \/ at[k] \in PastGoal
          \/ best[path[k]] # Infinity /\ best[path[k]] <= at[k]
      BY <3>2, Zenon
    <3> QED
      BY <2>1, <2>2, <3>1, <3>3
  <2>6. CASE a \in PastGoal
    <3>1. Expanded(Goal) /\ Goal \in Node
      BY <2>6, PlannerAssumption DEF PastGoal, SearchInv, GoalLast
    <3>2. best[Goal] \in Nat
      BY <3>1 DEF Expanded, IInv, SearchOK
    <3>3. b \in PastGoal
      BY <2>4, <2>6, <3>2 DEF PastGoal
    <3> QED
      BY <2>1, <2>2, <3>3
  <2>7. CASE a \notin PastGoal
    <3>1. Expanded(p)
      BY <2>3, <2>4, <2>5, <2>7, NotPastGoal
    <3>2. best[m] # Infinity /\ best[m] <= b
      BY <2>3, <2>4, <2>5, <2>7, <3>1, NotOvertaken
    <3> QED
      BY <2>1, <2>2, <3>2
  <2> QED
    BY <2>6, <2>7
<1> HIDE DEF Good
<1>10. n \in Good
  BY <1>2, <1>8, <1>9, AllReached
<1>11. t \in PastGoal \/ (best[Goal] # Infinity /\ best[Goal] <= t)
  <2>1. n \in Late
    BY <1>2, <1>10 DEF Good
  <2>2. \/ at[n] = Infinity \/ at[n] \in PastGoal
        \/ best[path[n]] # Infinity /\ best[path[n]] <= at[n]
    BY <2>1, Zenon
  <2> QED
    BY <1>1, <1>2, <1>6, <2>2
<1>12. t \in Nat
  BY <1>1, <1>2, <1>3, <1>6, <1>7
<1>13. t \in PastGoal
  <2> SUFFICES ASSUME t \notin PastGoal PROVE FALSE
    OBVIOUS
  <2>1. Expanded(Goal)
    BY <1>11, <1>12, NotPastGoal, PlannerAssumption
  <2> QED
    BY <1>11, <1>12, <2>1 DEF SearchInv, GoalLast, PastGoal
<1> QED
  BY <1>13 DEF PastGoal

\* The route found is one of their paths, and its arrivals are the labels.
LEMMA RouteIsOne ==
  ASSUME IInv, RouteInv, outcome = "found"
  PROVE  best[Goal] \in ArrivalsAtGoal
<1>1. Traced(route) /\ route[1] = Start /\ best[Start] = depart /\ SearchInv
  BY DEF RouteInv, RouteTraced, SearchInv, FromStart, UnderWay
<1>2. PICK n \in Nat \ {0} : n = Len(route)
  BY <1>1 DEF Traced
<1>3. /\ DOMAIN route = 1..n /\ route \in [1..n -> Node] /\ route[n] = Goal
      /\ n <= Cardinality(Node) /\ Cardinality(Node) \in Nat
      /\ \A i, j \in 1..n : route[i] = route[j] => i = j
  <2>1. DOMAIN route = 1..n /\ route \in [1..n -> Node] /\ route[n] = Goal
    BY <1>1, <1>2 DEF Traced
  <2>2. Cardinality(Node) \in Nat
    BY PlannerAssumption, FS_CardinalityType
  <2> QED
    BY <1>1, <1>2, <2>1, <2>2, TracedIsShort
<1>4. route \in SimplePaths
  <2>1. n \in 1..Cardinality(Node)
    BY <1>2, <1>3
  <2> QED
    BY <1>1, <1>2, <1>3, <2>1, SimplePath
<1>5. ASSUME NEW i \in 2..n
      PROVE  /\ i - 1 \in 1..n /\ i \in 1..n
             /\ route[i] \in Node /\ route[i] # Start /\ best[route[i]] # Infinity
             /\ route[i - 1] = previous[route[i]] /\ route[i - 1] # route[i]
  <2>1. i \in 2..Len(route) /\ i \in 1..n /\ i - 1 \in 1..n /\ i - 1 # i
    BY <1>2
  <2> QED
    BY <1>1, <1>3, <2>1 DEF Traced
<1>6. \A i \in 1..n : route[i] \in Node
  BY <1>3
<1>7. PICK at : at = Arrivals(route)
  OBVIOUS
<1>8. /\ at[1] = depart
      /\ \A i \in 2..n : at[i] = NextArrival(route[i - 1], route[i], at[i - 1])
  <2>1. WorldOK /\ n \in Nat \ {0} /\ DOMAIN route = 1..n
    BY <1>2, <1>3 DEF IInv
  <2>2. \A i \in 2..n : route[i - 1] # route[i]
    BY <1>5
  <2> QED
    BY <1>6, <1>7, <2>1, <2>2, ArrivalSteps
<1>9. ASSUME NEW i \in 2..n, at[i - 1] = best[route[i - 1]]
      PROVE  at[i] = best[route[i]]
  <2>1. PICK m, p : m = route[i] /\ p = route[i - 1]
    OBVIOUS
  <2>2. m \in Node /\ m # Start /\ best[m] # Infinity /\ p = previous[m]
    BY <1>5, <2>1
  <2>3. p \in Node /\ p # m /\ m \notin closed /\ best[p] \in Nat /\ best[m] \in Nat
    BY <2>2, Hop
  <2>4. PICK s \in Nat, road \in roads :
          /\ s = best[p]
          /\ road.ends = {p, m} /\ road.travel \in Nat \ {0}
          /\ TravelTime(p, m) \in Nat \ {0} /\ TravelTime(p, m) <= road.travel
          /\ Passable(RiskAt(m, s + road.travel))
          /\ best[m] = s + road.travel * Multiplier(RiskAt(m, s + road.travel))
    BY <2>2, <2>3, Hop
  <2>5. p # Goal /\ s - depart <= MaxDuration /\ Expanded(p)
    BY <1>1, <2>2, <2>3, <2>4 DEF SearchInv, CameInTime, InTime, IInv, ComesFromExpanded
  <2>6. PICK w \in Nat \ {0} : w = TravelTime(p, m)
    BY <2>4
  <2>7. /\ Passable(RiskAt(m, s + w))
        /\ s + w * Multiplier(RiskAt(m, s + w)) \in Nat
        /\ s + w * Multiplier(RiskAt(m, s + w)) <= best[m]
    BY <2>2, <2>4, <2>6, Fifo DEF IInv
  <2>8. PICK b : b = NextArrival(p, m, s)
    OBVIOUS
  <2>9. b = s + w * Multiplier(RiskAt(m, s + w)) /\ b \in Nat /\ b <= best[m]
    <3>1. /\ s # Infinity /\ ~(s - depart > MaxDuration)
          /\ \E r \in roads : r.ends = {p, m}
      BY <2>4, <2>5, PlannerAssumption DEF IInv, WorldOK
    <3>2. RiskAt(m, s + TravelTime(p, m)) < BlockAt
      BY <2>6, <2>7 DEF Passable
    <3>3. b = s + TravelTime(p, m) * Multiplier(RiskAt(m, s + TravelTime(p, m)))
      BY <2>3, <2>8, <3>1, <3>2 DEF NextArrival
    <3> QED
      BY <2>6, <2>7, <3>3
  <2>10. best[m] <= b
    <3>1. s <= s /\ b # Infinity
      BY <2>9, PlannerAssumption
    <3> QED
      BY <1>1, <2>2, <2>3, <2>4, <2>5, <2>8, <3>1, NotOvertaken
  <2>11. b = best[m]
    BY <2>3, <2>9, <2>10
  <2>12. at[i] = NextArrival(p, m, s)
    BY <1>8, <1>9, <2>1, <2>4
  <2> QED
    BY <2>1, <2>8, <2>11, <2>12
<1> DEFINE Good == {i \in Nat : i \in 1..n => at[i] = best[route[i]]}
<1>10. 1 \in Good
  BY <1>1, <1>8
<1>11. ASSUME NEW k \in Nat, k >= 1, k \in Good
       PROVE  k + 1 \in Good
  <2> SUFFICES ASSUME k + 1 \in 1..n PROVE at[k + 1] = best[route[k + 1]]
    OBVIOUS
  <2>1. PICK i \in 2..n : i = k + 1 /\ i - 1 = k /\ k \in 1..n
    BY <1>2, <1>11
  <2>2. at[i - 1] = best[route[i - 1]]
    BY <1>11, <2>1
  <2> QED
    BY <1>9, <2>1, <2>2
<1> HIDE DEF Good
<1>12. n \in Good
  BY <1>2, <1>10, <1>11, AllReached
<1>13. at[n] = best[Goal]
  <2>1. n \in 1..n
    BY <1>2
  <2> QED
    BY <1>3, <1>12, <2>1 DEF Good
<1>14. best[Goal] # Infinity
  BY <1>1 DEF SearchInv, GoalLast, Expanded
<1> QED
  BY <1>2, <1>4, <1>7, <1>13, <1>14 DEF ArrivalsAtGoal

LEMMA SearchExact ==
  ASSUME IInv, RouteInv
  PROVE  SearchIsExact
<1>1. ASSUME outcome = "found"
      PROVE  best[Goal] \in ArrivalsAtGoal /\ \A t \in ArrivalsAtGoal : best[Goal] <= t
  BY <1>1, RouteIsOne, NobodyIsFaster DEF RouteInv, Ended
<1>2. ASSUME outcome \in {"cut off", "not connected"}
      PROVE  ArrivalsAtGoal = {}
  <2>1. Ended /\ outcome # "found"
    BY <1>2 DEF Ended
  <2> QED
    BY <2>1, NobodyIsFaster DEF RouteInv
<1> QED
  BY <1>1, <1>2 DEF SearchIsExact

----------------------------------------------------------------------------

THEOREM InvariantHolds == Spec => []IInv
BY InitHolds, NextHolds, PTL DEF Spec

(* plan_route: whatever the network and the prediction, every label is what *)
(* its predecessor's label and one open road come to, judged when the road  *)
(* has been walked.                                                         *)
THEOREM LabelsHold == Spec => []LabelsAreEarned
<1>1. IInv => LabelsAreEarned
  BY DEF IInv
<1> QED
  BY <1>1, InvariantHolds, PTL

(* plan_route: the arrival a node was expanded with is never improved on.   *)
THEOREM FirstLabelHolds == Spec => FirstLabelStands
<1>1. IInv /\ [Next]_vars => [\A n \in Node : Expanded(n) => best'[n] = best[n]]_vars
  BY StepKeepsExpanded
<1> QED
  BY <1>1, InvariantHolds, PTL DEF Spec, FirstLabelStands

(* plan_route and hazard.py: for any road network whose roads take time, any *)
(* prediction, policy and departure, the search finds the earliest arrival   *)
(* open to anybody who follows the policy, and reports no way only when      *)
(* nobody has one.                                                           *)
THEOREM SearchHoldsExact == Spec => []SearchIsExact
<1>1. IInv /\ RouteInv => SearchIsExact
  BY SearchExact
<1> QED
  BY <1>1, RouteHolds, PTL

(* plan_route: whoever walks the route at the plain speed is nowhere at a    *)
(* closed node, nor where a prediction that has come true blocks the way.    *)
THEOREM WalkHoldsBelow == Spec => []WalkedBelowThreshold
<1>1. IInv /\ RouteInv => WalkedBelowThreshold
  BY WalkIsBelow
<1> QED
  BY <1>1, RouteHolds, PTL

=============================================================================
