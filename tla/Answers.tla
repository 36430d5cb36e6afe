------------------------------ MODULE Answers ------------------------------
(***************************************************************************)
(* The two answers a console gives from what others know: the situation of  *)
(* a region and the route to a shelter, on one small instance each.  They   *)
(* share nothing that changes (a route asks the service only whether it can *)
(* say where to go), so a behaviour is about the one or the other.          *)
(***************************************************************************)
EXTENDS Situation, EvacuationRoute

VARIABLE subject

vars == <<situation, route, subject>>

TypeOK == SituationTypeOK /\ RouteTypeOK

Init == subject \in {"situation", "route"} /\ SituationInit /\ RouteInit

Next ==
  \/ subject = "situation" /\ SituationNext /\ UNCHANGED <<route, subject>>
  \/ subject = "route" /\ RouteNext /\ UNCHANGED <<situation, subject>>

Spec == Init /\ [][Next]_vars

=============================================================================
