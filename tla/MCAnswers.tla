----------------------------- MODULE MCAnswers -----------------------------
EXTENDS Answers

\* Two connectors, one for each hazard; the general question asks both.
MCSourcesOf ==
  [q \in Question |->
     CASE q = "flood" -> {"hrfco"} [] q = Anything -> Source [] OTHER -> {"kma"}]

\* The village hall is next to the village, the school behind the bridge; the
\* gym has no coordinates, and the church is for other hazards.
MCDistance == [s \in Shelter |-> CASE s = "hall" -> 1 [] s = "school" -> 2 [] OTHER -> Far]
MCServing == {"hall", "school", "gym"}
MCWays ==
  [s \in Shelter |->
     CASE s = "hall" -> {[minutes |-> 0, through |-> "lane"], [minutes |-> 40, through |-> "bridge"]}
       [] s = "school" -> {[minutes |-> 20, through |-> "bridge"], [minutes |-> 70, through |-> "lane"]}
       [] OTHER -> {[minutes |-> 10, through |-> "lane"]}]

MCOrder(shelter, limit, incident, prediction, horizons, modelled) ==
  [shelter |-> shelter, limit |-> limit, incident |-> incident, prediction |-> prediction,
   horizons |-> horizons, modelled |-> modelled]
MCOrders ==
  {MCOrder({}, 2, TRUE, TRUE, {30, 60}, TRUE), MCOrder({}, 1, TRUE, FALSE, {30, 60}, TRUE),
   MCOrder({}, 3, FALSE, TRUE, {30}, FALSE), MCOrder({"school"}, 1, FALSE, TRUE, {30}, TRUE)}

MCPrediction(grid, fits, tensor, danger, input) ==
  [grid |-> grid, fits |-> fits, tensor |-> tensor, danger |-> danger, input |-> input]
MCPredictions ==
  {MCPrediction("missing", TRUE, "risk", {}, "observed"),
   MCPrediction("unplaced", TRUE, "logits", {"lane"}, "observed"),
   MCPrediction("placed", FALSE, "risk", {"bridge"}, "observed"),
   MCPrediction("foreign", TRUE, "risk", {}, "observed"),
   MCPrediction("placed", TRUE, "logits", {"bridge"}, "observed"),
   MCPrediction("placed", TRUE, "risk", {"lane"}, "observed"),
   MCPrediction("placed", TRUE, "risk", {}, "synthetic")}

=============================================================================
