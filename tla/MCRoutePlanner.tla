--------------------------- MODULE MCRoutePlanner ---------------------------
(* Instances of RoutePlanner for TLC: a village v, two crossings and a      *)
(* shelter s.                                                               *)
EXTENDS RoutePlanner

MCNode == {"v", "a", "b", "s"}

Link(m, n, travel) == [ends |-> {m, n}, travel |-> travel]

\* A detour, parallel roads, and roads too long for MaxDuration.
MCNetworks == SUBSET {Link("v", "a", 1), Link("v", "b", 2), Link("a", "b", 1),
                      Link("a", "s", 1), Link("b", "s", 1), Link("b", "s", 3)}

\* Risk levels: none, worth avoiding, forbidden.
Level == {0, 3, 4}

Slice(v, a, b, s) ==
  [n \in MCNode |-> CASE n = "v" -> v [] n = "a" -> a [] n = "b" -> b [] n = "s" -> s]

\* No prediction, or one for ticks 1 and 3; raw predictions may fall with time.
MCFields ==
  {<<>>} \cup
  {[h \in {1, 3} |-> IF h = 1 THEN Slice(v1, a1, b1, s1) ELSE Slice(3, a3, b3, s3)] :
     v1, s1, s3 \in {0, 4}, a1, b1, a3, b3 \in Level}

MCClosures == {{}} \cup {{n} : n \in MCNode}

=============================================================================
