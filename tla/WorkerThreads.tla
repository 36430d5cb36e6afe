---------------------------- MODULE WorkerThreads ----------------------------
(***************************************************************************)
(* Graphs and alarms share the threads of one pool: a graph takes minutes   *)
(* to build, an alarm must not wait for it.                                 *)
(***************************************************************************)
EXTENDS GraphCache, PushBroadcast

\* Four modes of transport and at least five threads.
ASSUME RoomAssumption == IsFiniteSet(Mode) /\ Cardinality(Mode) < Workers

vars == <<calls, graphVars, pushVars>>

Init == PoolInit /\ GraphInit /\ PushInit

\* The process stops and starts again.
Restart == calls' = <<>> /\ GraphRestart /\ PushRestart

Next ==
  \/ GraphStep /\ UNCHANGED pushVars
  \/ PushStep /\ UNCHANGED graphVars
  \/ Restart

\* Coroutines and threads run: reading a file ends, and sending has a timeout.
Fairness ==
  /\ \A q \in Request :
       WF_<<calls, graphVars>>(Enter(q)) /\ WF_<<calls, graphVars>>(InThreadStep(q))
  /\ \A b \in Broadcast :
       WF_<<calls, pushVars>>(ReadRows(b)) /\ WF_<<calls, pushVars>>(Prune(b))
  /\ \A b \in Broadcast, e \in Endpoint :
       WF_<<calls, pushVars>>(\E fails \in BOOLEAN : TrySend(b, e, fails))

Spec == Init /\ [][Next]_vars /\ Fairness

----------------------------------------------------------------------------

(* get_graph and broadcast: however many requests wait for graphs that are  *)
(* being built, a thread is left for the alarms.                            *)
AlarmsKeepAThread ==
  Cardinality({call \in Pending : call.what = "graph"}) < Workers

=============================================================================
