------------------------------ MODULE SpreadRun ------------------------------
(***************************************************************************)
(* The spread of a hazard, computed in the background and shown frame by    *)
(* frame: api/v1/stream.py (start_spread), services/spread.py (run_spread)  *)
(* and services/predictions.py (run), on the broker of IncidentAlerts.      *)
(*                                                                          *)
(* A run outlives the request that started it and keeps its session, which  *)
(* nobody commits.  It asks for one horizon after the other; between two of *)
(* them everything else goes on: declarations, screens, other runs.         *)
(***************************************************************************)
EXTENDS IncidentAlerts

CONSTANTS
  Horizons,      \* len(horizons): predictions one run asks for
  MaxRuns        \* bound: runs since the process started

ASSUME SpreadAssumption == Horizons \in Nat \ {0} /\ MaxRuns \in Nat

VARIABLE runs  \* the runs since the process started, oldest first

allVars == <<vars, runs>>
besideLog == <<rows, sessions, alarms, watching, shown, joined>>

Run == DOMAIN runs

SpreadTypeOK ==
  /\ TypeOK
  /\ runs \in Seq([incident : Code \cup {All}, left : 0..Horizons, sent : 0..Horizons,
                   flushes : BOOLEAN, over : BOOLEAN])

SpreadInit == Init /\ runs = <<>>

\* start_spread, for a hazard that has a recipe: accepted, and in the background.
StartSpread(incident) ==
  /\ Len(runs) < MaxRuns
  /\ runs' = Append(runs, [incident |-> incident, left |-> Horizons, sent |-> 0,
                           flushes |-> TRUE, over |-> FALSE])
  /\ UNCHANGED vars

\* One turn of the loop of run r, which leaves it in state next.
Asked(r, next) ==
  /\ runs[r].left > 0
  /\ runs' = [runs EXCEPT ![r] = [next EXCEPT !.left = @ - 1]]

\* What the run has sent when it has sent one frame more.
Counted(r) == runs[r].sent + 1

\* The prediction is flushed and its frame published, in one go.
SendFrame(r) ==
  /\ runs[r].flushes
  /\ Asked(r, [runs[r] EXCEPT !.sent = Counted(r)])
  /\ Publish(<<[kind |-> "prediction.frame", incident |-> runs[r].incident, run |-> r]>>)
  /\ UNCHANGED besideLog

\* frame_from_result finds no grid, or too few cells.
NoFrame(r) ==
  /\ runs[r].flushes
  /\ Asked(r, runs[r])
  /\ UNCHANGED vars

\* The ML engine refuses or is down: _record_failure commits a row of its own,
\* or fails as well.
UpstreamFails(r) ==
  /\ Asked(r, runs[r])
  /\ UNCHANGED vars

\* The row of the prediction is refused.  The session then refuses the next
\* ones as well, since nobody rolls it back.
FlushFails(r) ==
  /\ Asked(r, [runs[r] EXCEPT !.flushes = FALSE])
  /\ UNCHANGED vars

\* Slip: a run without a frame ends without a word.
MayComplete_IfSent(r) == runs[r].left = 0 /\ runs[r].sent > 0

\* Slip: the run is declared complete while its last prediction is on its way.
MayComplete_Early(r) == runs[r].left <= 1

\* All horizons have been tried.
MayComplete(r) == runs[r].left = 0

Complete(r) ==
  /\ MayComplete(r)
  /\ ~runs[r].over
  /\ runs' = [runs EXCEPT ![r].over = TRUE]
  /\ Publish(<<[kind |-> "spread.complete", incident |-> runs[r].incident,
                run |-> r, frames |-> runs[r].sent]>>)
  /\ UNCHANGED besideLog

Turn(r) == SendFrame(r) \/ NoFrame(r) \/ UpstreamFails(r) \/ FlushFails(r) \/ Complete(r)

\* The runs and their sessions die with the process.
SpreadRestart == Restart /\ runs' = <<>>

SpreadNext ==
  \/ Step /\ UNCHANGED runs
  \/ \E incident \in Shared : StartSpread(incident)
  \/ \E r \in Run : Turn(r)
  \/ SpreadRestart

\* Every prediction ends, since the client's requests have a timeout.
SpreadFairness == \A r \in 1..MaxRuns : WF_allVars(r \in Run /\ Turn(r))

SpreadSpec == SpreadInit /\ [][SpreadNext]_allVars /\ Fairness /\ SpreadFairness

----------------------------------------------------------------------------

\* Places in the log of what run r published, and of its completion.
Frames(r) == {p \in Published("prediction.frame") : log[p].run = r}
Completion(r) == {p \in Published("spread.complete") : log[p].run = r}

(* run_spread: a screen that has been told a run is complete can count on   *)
(* it.  However runs, failures and declarations interleave, a run that is   *)
(* over has exactly one completion, which names its incident, counts its    *)
(* frames, and comes after all of them; another run has none.               *)
CompletionIsTrue ==
  \A r \in Run :
    /\ Cardinality(Completion(r)) = IF runs[r].over THEN 1 ELSE 0
    /\ \A p \in Completion(r) :
         /\ log[p].incident = runs[r].incident
         /\ log[p].frames = Cardinality(Frames(r))
         /\ \A f \in Frames(r) : f < p

(* stream.py, start_spread: once accepted, a run does not leave the screens *)
(* waiting.  Whatever fails, its completion is published, unless the        *)
(* process stops.                                                           *)
RunsComplete == \A r \in 1..MaxRuns : r \in Run ~> (r \in Run => runs[r].over)

=============================================================================
