-------------------------- MODULE EvacuationRoute --------------------------
(***************************************************************************)
(* services/routing.py, plan_evacuation: which shelter to send a village    *)
(* to, from the shelters registered, the predictions of the ML server       *)
(* (clients/mlengine.py, read by routing/hazard.py) and the closures        *)
(* reported from the field.                                                 *)
(*                                                                          *)
(* A step runs to the next await: the shelters, the service's view of the   *)
(* hazard, each prediction, the reports.  Shelters are registered and       *)
(* reports are filed meanwhile.  The search itself is RoutePlanner; here a  *)
(* shelter has ways to it, each of some minutes through one place that may  *)
(* be closed or in danger, and people set off at once.                      *)
(***************************************************************************)
EXTENDS Integers, Sequences, FiniteSets, FiniteSetsExt, SequencesExt

CONSTANTS
  Place,        \* where ways may be closed or in danger
  Origin,       \* the one people set off from
  Shelter,
  Far,          \* straight_km of a shelter without coordinates
  Distance,     \* Distance[s]: kilometres, or Far
  Serving,      \* shelters of the region for the hazard asked about
  Ways,         \* Ways[s]: sets of [minutes, through]
  Orders,       \* requests that may come in
  Predictions,  \* answers of the ML server
  Threshold     \* block_threshold, in tenths: it tells danger from safety, as
                \* one that bars every place or none could not

Way == [minutes : Nat, through : Place]

\* RouteRequest: the shelter wanted if any, how many to compare at most, whether
\* an incident is named and predictions are used, for which moments, and
\* whether there is a model for the hazard.
OrderRecord == [shelter : {{}} \cup {{s} : s \in Shelter}, limit : Nat \ {0},
                incident : BOOLEAN, prediction : BOOLEAN, horizons : SUBSET Nat, modelled : BOOLEAN]

\* Whether there is a grid and where it lies, whether it has the size it
\* says, in what form its values are, what it warns of, and what went in.
Prediction == [grid : {"missing", "unplaced", "placed", "foreign"}, fits : BOOLEAN,
               tensor : {"risk", "logits"}, danger : SUBSET Place,
               input : {"observed", "synthetic", "stub"}]

ASSUME RouteAssumption ==
  /\ Distance \in [Shelter -> Nat \cup {Far}] /\ Far \notin Nat
  /\ Serving \subseteq Shelter
  /\ Ways \in [Shelter -> SUBSET Way]
  /\ Origin \in Place
  /\ Orders \subseteq OrderRecord
  /\ Predictions \subseteq Prediction
  /\ Threshold \in 3..8

VARIABLES
  registered,   \* shelters in the database
  closed,       \* places with a report of the incident that has coordinates
  order,        \* the request
  known,        \* registered and closed when it came in
  step,         \* the await it is at, or how it ended
  candidates,   \* shelters compared, in order
  limited,      \* "yes", "no" or "unknown": the hazard has no shelters to name
  waiting,      \* horizons whose prediction is still to be asked for
  slices,       \* slices[h]: risk of each place, in tenths
  heard,        \* heard[h]: the prediction behind slices[h]
  unheard,      \* horizons a warning names
  warnings,     \* the other warnings
  legs,         \* [shelter, found, minutes], best first
  recommended   \* none or one shelter

route == <<registered, closed, order, known, step, candidates, limited, waiting, slices, heard,
           unheard, warnings, legs, recommended>>

Step == {"idle", "shelters", "capability", "predictions", "reports",
         "planned", "no guidance", "not found"}

RouteTypeOK ==
  /\ registered \subseteq Shelter /\ closed \subseteq Place
  /\ order \in Orders
  /\ known.registered \subseteq registered /\ known.closed \subseteq closed
  /\ step \in Step
  /\ candidates \in Seq(Shelter) /\ limited \in {"yes", "no", "unknown"}
  /\ waiting \subseteq order.horizons /\ unheard \subseteq order.horizons
  /\ DOMAIN slices = DOMAIN heard
  /\ \A h \in DOMAIN slices : slices[h] \in [Place -> 0..10] /\ heard[h] \in Prediction
  /\ \A i \in DOMAIN legs : legs[i].shelter \in ToSet(candidates)
  /\ recommended \subseteq ToSet(candidates)

RouteInit ==
  /\ registered = {} /\ closed = {}
  /\ order = CHOOSE wanted \in Orders : TRUE
  /\ known = [registered |-> {}, closed |-> {}]
  /\ step = "idle"
  /\ candidates = <<>> /\ limited = "no"
  /\ waiting = {} /\ slices = <<>> /\ heard = <<>>
  /\ unheard = {} /\ warnings = {}
  /\ legs = <<>> /\ recommended = {}

given == <<registered, closed, order, known>>
field == <<waiting, slices, heard, unheard>>

----------------------------------------------------------------------------
(* The others.                                                              *)

Register(s) ==
  /\ s \notin registered
  /\ registered' = registered \cup {s}
  /\ UNCHANGED <<closed, order, known, step, candidates, limited, field, warnings, legs,
                 recommended>>

\* A report whose closure has no coordinates closes nothing here.
ReportClosure(p) ==
  /\ p \notin closed
  /\ closed' = closed \cup {p}
  /\ UNCHANGED <<registered, order, known, step, candidates, limited, field, warnings, legs,
                 recommended>>

----------------------------------------------------------------------------
(* Shelters.                                                                *)

\* The road graph is there and the origin has coordinates.
AskRoute(wanted) ==
  /\ step = "idle"
  /\ step' = "shelters"
  /\ order' = wanted
  /\ known' = [registered |-> registered, closed |-> closed]
  /\ UNCHANGED <<registered, closed, candidates, limited, field, warnings, legs, recommended>>

Usable == registered \cap Serving

Nearer(s, other) ==
  Distance[s] # Far /\ (Distance[other] = Far \/ Distance[s] < Distance[other])

\* find_shelters: nearest first, those without coordinates last; of equals
\* the database chooses.
Sorted ==
  {shelters \in SetToSeqs(Usable) :
     \A i, j \in DOMAIN shelters : i < j => ~Nearer(shelters[j], shelters[i])}

FindShelters ==
  /\ step = "shelters"
  /\ IF order.shelter = {}
     THEN /\ candidates' \in {SubSeq(shelters, 1, Min({order.limit, Len(shelters)})) : shelters \in Sorted}
          /\ step' = "capability"
     ELSE IF order.shelter \subseteq Usable
     THEN candidates' = SetToSeq(order.shelter) /\ step' = "capability"
     ELSE step' = "not found" /\ UNCHANGED candidates
  /\ UNCHANGED <<given, limited, field, warnings, legs, recommended>>

----------------------------------------------------------------------------
(* What can be said at all.                                                 *)

\* What is left to be asked for once the shelters are there, and said.
Ahead == IF order.prediction /\ order.modelled THEN order.horizons ELSE {}
Beforehand ==
  CASE ~order.prediction -> {"no prediction"}
    [] order.prediction /\ ~order.modelled -> {"no model"}
    [] OTHER -> {}

\* _hazard_limitation: a service that cannot be reached is warned about.
Unasked(answer) == IF answer = "unknown" THEN {"no capability"} ELSE {}

CheckCapability(answer) ==
  /\ step = "capability"
  /\ limited' = answer
  /\ IF candidates = <<>>
     THEN /\ step' = IF answer = "yes" THEN "no guidance" ELSE "not found"
          /\ warnings' = Unasked(answer)
          /\ UNCHANGED waiting
     ELSE /\ step' = IF Ahead # {} THEN "predictions" ELSE "reports"
          /\ warnings' = Unasked(answer) \cup Beforehand
          /\ waiting' = Ahead
  /\ UNCHANGED <<given, candidates, slices, heard, unheard, legs, recommended>>

----------------------------------------------------------------------------
(* _hazard_field.                                                           *)

\* _stub_prediction, where no ML server is configured: a hill around the origin.
Stub == [grid |-> "unplaced", fits |-> TRUE, tensor |-> "risk", danger |-> {Origin},
         input |-> "stub"]

\* What the model writes for a place: a probability, or its log-odds.
Tensor(prediction, p) ==
  IF prediction.tensor = "logits" THEN (IF p \in prediction.danger THEN 3 ELSE -3)
  ELSE (IF p \in prediction.danger THEN 8 ELSE 2)

Sigmoid(x) == IF x > 0 THEN 9 ELSE IF x = 0 THEN 5 ELSE 1

\* Slip: the values are taken as they are.
ToProbability_Raw(prediction, x) == IF x > 0 THEN x ELSE 0

\* to_probability, in tenths.
ToProbability(prediction, x) == IF prediction.tensor = "logits" THEN Sigmoid(x) ELSE x

\* slice_from_grid takes the prediction: it has a grid, in WGS84 if it says
\* where it lies, of the size it says.
Readable(prediction) == prediction.grid \in {"unplaced", "placed"} /\ prediction.fits

SliceOf(prediction) == [p \in Place |-> ToProbability(prediction, Tensor(prediction, p))]

\* Slip: a horizon without a grid is passed over.
Unreadable_Silent(h, prediction) ==
  IF prediction.grid # "missing" /\ ~prediction.fits THEN {h} ELSE {}

\* Warned about by its horizon; of a foreign grid only that there was one.
Unreadable(h, prediction) ==
  IF prediction.grid = "foreign" \/ Readable(prediction) THEN {} ELSE {h}

\* A grid that does not say where it lies is taken to lie where it was asked for.
Placed(prediction) ==
  CASE prediction.grid = "unplaced" -> {"assumed"}
    [] prediction.grid = "foreign" -> {"foreign"}
    [] OTHER -> {}

NextHorizon == Min(waiting)

Went ==
  /\ waiting' = waiting \ {NextHorizon}
  /\ step' = IF waiting' = {} THEN "reports" ELSE step
  /\ UNCHANGED <<given, candidates, limited, legs, recommended>>

Predicted(prediction) ==
  /\ step = "predictions"
  /\ IF Readable(prediction)
     THEN /\ slices' = [h \in DOMAIN slices \cup {NextHorizon} |->
                          IF h = NextHorizon THEN SliceOf(prediction) ELSE slices[h]]
          /\ heard' = [h \in DOMAIN heard \cup {NextHorizon} |->
                         IF h = NextHorizon THEN prediction ELSE heard[h]]
     ELSE UNCHANGED <<slices, heard>>
  /\ unheard' = unheard \cup Unreadable(NextHorizon, prediction)
  /\ warnings' = warnings \cup Placed(prediction)
  /\ Went

\* The server is down, slow, or refuses the request.
PredictionFails ==
  /\ step = "predictions"
  /\ unheard' = unheard \cup {NextHorizon}
  /\ UNCHANGED <<slices, heard, warnings>>
  /\ Went

----------------------------------------------------------------------------
(* The answer.                                                              *)

\* The last prediction taken decides what went into all of them.
Synthetic == heard # <<>> /\ heard[Max(DOMAIN heard)].input # "observed"

\* The slices the search runs on.
Field == IF Synthetic THEN <<>> ELSE slices

\* _field_blocks: reports filed by now.
Blocks == IF order.incident THEN closed ELSE {}

\* risk_at: slices up to the moment count, or the first.
Risk(p, minutes) ==
  Max({0} \cup {Field[h][p] : h \in {g \in DOMAIN Field : g <= minutes \/ g = Min(DOMAIN Field)}})

\* plan_route, see RoutePlanner.
OpenWays(s) ==
  {way \in Ways[s] : way.through \notin Blocks /\ Risk(way.through, way.minutes) < Threshold}

Leg(s) ==
  LET found == Distance[s] # Far /\ OpenWays(s) # {}
  IN [shelter |-> s, found |-> found,
      minutes |-> IF found THEN Min({way.minutes : way \in OpenWays(s)}) ELSE 0]

\* The order of the legs; zero minutes count as for ever, "or" takes them so.
Before(leg, other) ==
  \/ leg.found /\ ~other.found
  \/ leg.found /\ other.found /\ leg.minutes # 0 /\ (other.minutes = 0 \/ leg.minutes < other.minutes)

\* legs.sort is stable: each leg comes after those that are before it, and
\* of equals after those that were.
InFront(all, i) ==
  {j \in DOMAIN all : Before(all[j], all[i]) \/ (j < i /\ ~Before(all[i], all[j]))}

Ranked(all) ==
  [place \in DOMAIN all |->
     all[CHOOSE i \in DOMAIN all : Cardinality(InFront(all, i)) = place - 1]]

Plan ==
  /\ step = "reports"
  /\ legs' = Ranked([i \in DOMAIN candidates |-> Leg(candidates[i])])
  /\ recommended' = IF legs'[1].found THEN {legs'[1].shelter} ELSE {}
  /\ warnings' = warnings \cup (IF Synthetic THEN {"synthetic"} ELSE {})
                          \cup (IF recommended' = {} THEN {"no way"} ELSE {})
  /\ slices' = Field
  /\ heard' = IF Synthetic THEN <<>> ELSE heard
  /\ step' = "planned"
  /\ UNCHANGED <<given, candidates, limited, waiting, unheard>>

----------------------------------------------------------------------------

RouteNext ==
  \/ \E s \in Shelter : Register(s)
  \/ \E p \in Place : ReportClosure(p)
  \/ \E wanted \in Orders : AskRoute(wanted)
  \/ FindShelters
  \/ \E answer \in {"yes", "no", "unknown"} : CheckCapability(answer)
  \/ \E prediction \in Predictions \cup {Stub} : Predicted(prediction)
  \/ PredictionFails
  \/ Plan

----------------------------------------------------------------------------

(* _hazard_field, _hazard_limitation: whatever a plan was asked to take     *)
(* into account and could not is in its warnings: each horizon without a    *)
(* slice, each slice whose place is a guess, a hazard nobody could ask      *)
(* about, a plan without a way.                                             *)
LeftOutIsTold ==
  /\ step \in {"planned", "no guidance"} /\ limited = "unknown" => "no capability" \in warnings
  /\ step = "planned" =>
       /\ order.prediction => \A h \in order.horizons :
            h \in DOMAIN slices \cup unheard \/ warnings \cap {"no model", "foreign", "synthetic"} # {}
       /\ ~order.prediction => "no prediction" \in warnings
       /\ \A h \in DOMAIN slices : heard[h].grid # "placed" => "assumed" \in warnings
       /\ recommended = {} => "no way" \in warnings

\* A way that neither these closures nor the predictions in the plan bar.
IsClear(way, closures) ==
  /\ ~(order.incident /\ way.through \in closures)
  /\ \A h \in DOMAIN heard :
       h <= way.minutes \/ h = Min(DOMAIN heard) => way.through \notin heard[h].danger

\* A shelter that has a clear way of no length, which the sort puts last.
IsHere(s) == \E way \in Ways[s] : way.minutes = 0 /\ IsClear(way, known.closed)

(* plan_evacuation: a shelter that is recommended serves the hazard, and    *)
(* can be reached in the time it says, clear of the closures filed before   *)
(* the request and of what the predictions in the plan warn of; no          *)
(* candidate has a way that is clear by now and faster, except one that is  *)
(* right here; and no nearer shelter was passed over.                       *)
RecommendedIsBest ==
  step = "planned" =>
    /\ \A s \in recommended :
         /\ s \in Serving
         /\ \E way \in Ways[s] : way.minutes = legs[1].minutes /\ IsClear(way, known.closed)
    /\ \A s \in ToSet(candidates) : \A way \in Ways[s] :
         Distance[s] # Far /\ IsClear(way, closed) =>
           recommended # {} /\ (legs[1].minutes <= way.minutes \/ IsHere(s))
    /\ order.shelter = {} => \A s \in (known.registered \cap Serving) \ ToSet(candidates) :
         /\ Len(candidates) = order.limit
         /\ \A other \in ToSet(candidates) : ~Nearer(s, other)

=============================================================================
