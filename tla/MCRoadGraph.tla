---------------------------- MODULE MCRoadGraph ----------------------------
EXTENDS RoadGraph

\* A street with a corner, side roads that close it to rings, a dead end that
\* repeats its first point, a ring that may stand by itself, and one piece of
\* road that is drawn twice.
MCWays == <<
  <<<<0, 0>>, <<1, 0>>, <<2, 0>>, <<4, 0>>, <<5, 0>>, <<7, 0>>, <<7, 1>>, <<8, 1>>>>,
  <<<<0, 0>>, <<0, 2>>, <<2, 2>>, <<2, 0>>>>,
  <<<<4, 0>>, <<4, 0>>, <<4, 1>>>>,
  <<<<4, 1>>, <<5, 1>>, <<5, 2>>, <<4, 2>>, <<4, 1>>>>,
  <<<<2, 2>>, <<4, 2>>>>,
  <<<<4, 2>>, <<2, 2>>>> >>

Plain == [highway |-> "street", barred |-> {}, conditional |-> {},
          rough |-> FALSE, soft |-> FALSE, ford |-> FALSE]

MCTagging ==
  {Plain}
  \cup {[Plain EXCEPT !.highway = h] : h \in {"track", "steps", "motorway", "cycleway"}}
  \cup {[Plain EXCEPT !.barred = {t}] : t \in {"access", "wheelchair", "motor_vehicle"}}
  \cup {[Plain EXCEPT !.conditional = {"width"}], [Plain EXCEPT !.rough = TRUE],
        [Plain EXCEPT !.soft = TRUE], [Plain EXCEPT !.ford = TRUE]}

MCPlaces == {<<0, 0>>, <<3, 0>>, <<4, 5>>, <<7, 4>>}

=============================================================================
