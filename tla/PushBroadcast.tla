---------------------------- MODULE PushBroadcast ----------------------------
(***************************************************************************)
(* services/push.py: the devices that subscribed, and the broadcasts that   *)
(* wake their lock screens.  A published declaration starts a broadcast, a  *)
(* task of its own: it reads the rows in a session, sends to each from a    *)
(* thread of the pool, and removes the rows the push service disowns in     *)
(* another session.  In between, devices subscribe, move and go.            *)
(***************************************************************************)
EXTENDS ThreadPool

CONSTANTS
  Endpoint,    \* a device, as the push service knows it
  Mortal,      \* bound: endpoints that may be given up
  Region,      \* region codes
  Anywhere,    \* no region code: of a subscription, or of an incident
  Off,         \* no row
  Broadcast    \* broadcasts that may be under way at once

ASSUME PushAssumption ==
  /\ {Anywhere, Off} \cap Region = {} /\ Anywhere # Off
  /\ IsFiniteSet(Endpoint)

VARIABLES
  subscribed,  \* subscribed[e]: the region in the row of e
  gone,        \* endpoints the push service has given up for good
  cast,        \* cast[b]: the state of broadcast b
  tries        \* history: tries[b][e], how often b has sent to e

pushVars == <<subscribed, gone, cast, tries>>

Idle == [pc |-> "idle", region |-> Anywhere, rows |-> {}, dead |-> {}]

PushTypeOK ==
  /\ subscribed \in [Endpoint -> Region \cup {Anywhere, Off}]
  /\ gone \subseteq Endpoint
  /\ cast \in [Broadcast -> [pc : {"idle", "reading", "sending"},
                             region : Region \cup {Anywhere},
                             rows : SUBSET Endpoint, dead : SUBSET Endpoint]]
  /\ tries \in [Broadcast -> [Endpoint -> Nat]]

Never == [e \in Endpoint |-> 0]

PushInit ==
  /\ subscribed \in [Endpoint -> Region \cup {Anywhere, Off}]
  /\ gone = {}
  /\ cast = [b \in Broadcast |-> Idle]
  /\ tries = [b \in Broadcast |-> Never]

----------------------------------------------------------------------------

\* save: a new row, or the old one with a new region.  A browser whose
\* endpoint is gone subscribes under another one.
Subscribe(e, region) ==
  /\ e \notin gone
  /\ subscribed' = [subscribed EXCEPT ![e] = region]
  /\ UNCHANGED <<calls, gone, cast, tries>>

\* forget.
Unsubscribe(e) ==
  /\ subscribed' = [subscribed EXCEPT ![e] = Off]
  /\ UNCHANGED <<calls, gone, cast, tries>>

\* The browser is removed, or the permission withdrawn: nobody tells us.
GoAway(e) ==
  /\ gone' = gone \cup {e}
  /\ UNCHANGED <<calls, subscribed, cast, tries>>

\* The hook of register: a task for the broadcast of an incident of that region.
Alarm(b, region) ==
  /\ cast[b].pc = "idle"
  /\ cast' = [cast EXCEPT ![b] = [Idle EXCEPT !.pc = "reading", !.region = region]]
  /\ UNCHANGED <<calls, subscribed, gone, tries>>

\* Is e subscribed to what happens in that region?
Concerned(e, region) ==
  subscribed[e] # Off /\ (region = Anywhere \/ subscribed[e] \in {region, Anywhere})

Send(b, e) == [what |-> "send", broadcast |-> b, endpoint |-> e]

\* The rows are read; without any the broadcast is over, else each has a call.
ReadRows(b) ==
  LET rows == {e \in Endpoint : Concerned(e, cast[b].region)}
  IN /\ cast[b].pc = "reading"
     /\ IF rows = {}
        THEN cast' = [cast EXCEPT ![b] = Idle] /\ UNCHANGED calls
        ELSE /\ cast' = [cast EXCEPT ![b] = [Idle EXCEPT !.pc = "sending", !.rows = rows]]
             /\ \E order \in [1..Cardinality(rows) -> rows] :
                  /\ \A e \in rows : \E i \in DOMAIN order : order[i] = e
                  /\ Submit([i \in DOMAIN order |-> Send(b, order[i])])
     /\ UNCHANGED <<subscribed, gone, tries>>

\* Slip: whatever goes wrong, the subscription is taken for dead.
Dead_AnyFailure(e, fails) == e \in gone \/ fails

\* _send_one: does the push service answer 404 or 410?
Dead(e, fails) == e \in gone

\* Slip: what fails for now is put at the end of the queue again.
AfterSend_Retry(b, e, fails) ==
  IF fails /\ e \notin gone
  THEN \E i \in DOMAIN calls :
         calls[i] = Send(b, e) /\ calls' = Append(RemoveAt(calls, i), Send(b, e))
  ELSE Return(Send(b, e))

\* The call returns, also after a failure.
AfterSend(b, e, fails) == Return(Send(b, e))

\* A thread sends to e.  It fails when the service is slow, refuses or is down.
TrySend(b, e, fails) ==
  /\ Send(b, e) \in Running
  /\ AfterSend(b, e, fails)
  /\ tries' = [tries EXCEPT ![b][e] = @ + 1]
  /\ cast' = IF Dead(e, fails) THEN [cast EXCEPT ![b].dead = @ \cup {e}] ELSE cast
  /\ UNCHANGED <<subscribed, gone>>

\* Slip: the broadcast waits until the pool has nothing left to do.
AllSent_Pool(b) == calls = <<>>

\* gather: every call of the broadcast has returned.
AllSent(b) == \A e \in cast[b].rows : Send(b, e) \notin Pending

\* Then prune, and the task is over; or the database fails, and it is over
\* without.
Prune(b) ==
  /\ cast[b].pc = "sending"
  /\ AllSent(b)
  /\ \/ subscribed' = [e \in Endpoint |-> IF e \in cast[b].dead THEN Off ELSE subscribed[e]]
     \/ UNCHANGED subscribed
  /\ cast' = [cast EXCEPT ![b] = Idle]
  /\ tries' = [tries EXCEPT ![b] = Never]
  /\ UNCHANGED <<calls, gone>>

\* The tasks die with the process; the rows stay.
PushRestart ==
  /\ cast' = [b \in Broadcast |-> Idle]
  /\ tries' = [b \in Broadcast |-> Never]
  /\ UNCHANGED <<subscribed, gone>>

BroadcastStep(b) ==
  \/ ReadRows(b)
  \/ \E e \in Endpoint, fails \in BOOLEAN : TrySend(b, e, fails)
  \/ Prune(b)

PushStep ==
  \/ \E e \in Endpoint :
       \/ \E region \in Region \cup {Anywhere} : Subscribe(e, region)
       \/ Unsubscribe(e)
       \/ e \in Mortal /\ GoAway(e)
  \/ \E b \in Broadcast :
       \/ \E region \in Region \cup {Anywhere} : Alarm(b, region)
       \/ BroadcastStep(b)

----------------------------------------------------------------------------

(* broadcast: each row that was read is sent to once, whatever becomes of   *)
(* the others and of the row meanwhile, and no other device is woken.       *)
EachRowOnce ==
  \A b \in Broadcast : cast[b].pc = "sending" =>
    \A e \in Endpoint :
      LET waiting == Cardinality({i \in DOMAIN calls : calls[i] = Send(b, e)})
      IN tries[b][e] + waiting = IF e \in cast[b].rows THEN 1 ELSE 0

(* push.py: a subscription is removed when the push service has given it    *)
(* up, or at its own wish; a failure that may pass costs nobody the alarms  *)
(* to come.                                                                 *)
OnlyDeadArePruned ==
  [][\A e \in Endpoint :
       subscribed[e] # Off /\ subscribed'[e] = Off => e \in gone \/ Unsubscribe(e)]_pushVars

(* register: a broadcast ends; a device that does not answer does not hold  *)
(* up the ones to come.                                                     *)
BroadcastsEnd == \A b \in Broadcast : cast[b].pc # "idle" ~> cast[b].pc = "idle"

=============================================================================
