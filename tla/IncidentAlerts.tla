--------------------------- MODULE IncidentAlerts ---------------------------
(***************************************************************************)
(* From the declaration of an incident to the screens and the lock screens: *)
(* services/incidents.py (create), services/events.py, the drills of        *)
(* services/drills.py, and the start of a push in services/push.py.         *)
(*                                                                          *)
(* A declaration runs in a database session: the console's, committed by    *)
(* api/route.py, or a chat's, whose drill tool commits by itself so that    *)
(* one session may declare several times.  The event is laid on the session *)
(* and published when its COMMIT has come back, a step of its own because   *)
(* other coroutines run while the COMMIT is on its way.  Render states are   *)
(* published directly, and so are the frames SpreadRun adds.  Everything    *)
(* but the rows lives in memory.                                            *)
(*                                                                          *)
(* An incident is named by the number of its code (YYYY-MMDD-NN, one day),  *)
(* an event by its place in the log of what was published.                  *)
(***************************************************************************)
EXTENDS Naturals, Sequences, FiniteSets, SequencesExt

CONSTANTS
  Writer,        \* sessions that declare incidents
  Chat,          \* those of them that belong to a chat
  Screen,        \* subscribers of the stream
  CustomCodes,   \* codes an operator types in
  QueueSize,     \* QUEUE_SIZE
  MaxCode,       \* bound: codes of the day
  Shared,        \* incidents that screens follow, or All, and that render
                 \* states and frames are about
  MaxStates      \* bound: other events, since the process started, after which
                 \* no render state is published

ASSUME AlertsAssumption ==
  /\ Chat \subseteq Writer
  /\ CustomCodes \subseteq 1..MaxCode
  /\ MaxCode \in Nat /\ MaxStates \in Nat
  /\ QueueSize \in Nat \ {0}
  /\ Shared \subseteq 0..MaxCode

VARIABLES
  saved,       \* codes of the committed incident rows
  pc,          \* pc[w]: the statement session w runs next
  code,        \* code[w]: the code session w is about to use
  pending,     \* pending[w]: session.info, the declarations to publish
  log,         \* published events since the process started, oldest first
  alarms,      \* events a push broadcast was started for, oldest first
  unheard,     \* codes that were saved when the process last stopped
  watching,    \* watching[x]: incident screen x follows, All, or Off
  queue,       \* queue[x]: its queue, of places in the log
  shown,       \* shown[x]: what the connection of x has been sent
  joined       \* joined[x]: events published before x subscribed

vars == <<saved, pc, code, pending, log, alarms, unheard,
          watching, queue, shown, joined>>
rows == <<saved, unheard>>
sessions == <<pc, code, pending>>
screens == <<watching, queue, shown, joined>>

Code == 1..MaxCode
All == 0              \* incident_id is None
Off == MaxCode + 1    \* not subscribed
Kind == {"incident.declared", "render.state", "prediction.frame", "spread.complete"}

TypeOK ==
  /\ saved \subseteq Code /\ unheard \subseteq saved
  /\ pc \in [Writer -> {"idle", "check", "insert", "commit", "announce", "stuck"}]
  /\ code \in [Writer -> Nat]
  /\ pending \in [Writer -> Seq(Code)]
  /\ \A p \in DOMAIN log : log[p].kind \in Kind /\ log[p].incident \in Code \cup {All}
  /\ alarms \in Seq(DOMAIN log)
  /\ watching \in [Screen -> Code \cup {All, Off}]
  /\ queue \in [Screen -> Seq(DOMAIN log)] /\ shown \in [Screen -> Seq(DOMAIN log)]
  /\ \A x \in Screen : Len(queue[x]) <= QueueSize
  /\ joined \in [Screen -> 0..Len(log)]

Init ==
  /\ saved = {} /\ unheard = {}
  /\ pc = [w \in Writer |-> "idle"]
  /\ code = [w \in Writer |-> 0]
  /\ pending = [w \in Writer |-> <<>>]
  /\ log = <<>> /\ alarms = <<>>
  /\ watching = [x \in Screen |-> Off]
  /\ queue = [x \in Screen |-> <<>>] /\ shown = [x \in Screen |-> <<>>]
  /\ joined = [x \in Screen |-> 0]

----------------------------------------------------------------------------
(* The broker.                                                              *)

Subscribed == {x \in Screen : watching[x] # Off}

\* Slip: an event that finds the queue full is discarded.
Put_IfRoom(q, new) ==
  SubSeq(q \o new, 1, IF Len(q \o new) < QueueSize THEN Len(q \o new) ELSE QueueSize)

\* What a queue holds once the events new are put: the oldest make room.
Put(q, new) ==
  LET all == q \o new
  IN SubSeq(all, IF Len(all) > QueueSize THEN Len(all) - QueueSize + 1 ELSE 1, Len(all))

\* Places of n events published next.
NextPlaces(n) == [i \in 1..n |-> Len(log) + i]

\* broker.publish, for events published one right after the other.
Publish(events) ==
  /\ log' = log \o events
  /\ queue' = [x \in Screen |-> IF x \in Subscribed
                                THEN Put(queue[x], NextPlaces(Len(events)))
                                ELSE queue[x]]

\* Slip: the incident filter of the connection is not applied.
Concerns_Everything(x, p) == TRUE

\* Does screen x follow the incident of the event at place p?
Concerns(x, p) ==
  watching[x] = All \/ log[p].incident \in {All, watching[x]}

Subscribe(x, incident) ==
  /\ watching[x] = Off
  /\ watching' = [watching EXCEPT ![x] = incident]
  /\ queue' = [queue EXCEPT ![x] = <<>>]
  /\ shown' = [shown EXCEPT ![x] = <<>>]
  /\ joined' = [joined EXCEPT ![x] = Len(log)]
  /\ UNCHANGED <<rows, sessions, log, alarms>>

\* One turn of the loop in EventBroker.stream.
Take(x) ==
  /\ x \in Subscribed
  /\ queue[x] # <<>>
  /\ queue' = [queue EXCEPT ![x] = Tail(@)]
  /\ shown' = IF Concerns(x, Head(queue[x]))
              THEN [shown EXCEPT ![x] = Append(@, Head(queue[x]))]
              ELSE shown
  /\ UNCHANGED <<rows, sessions, log, alarms, watching, joined>>

Disconnect(x) ==
  /\ x \in Subscribed
  /\ watching' = [watching EXCEPT ![x] = Off]
  /\ queue' = [queue EXCEPT ![x] = <<>>]
  /\ UNCHANGED <<rows, sessions, log, alarms, shown, joined>>

Published(kind) == {p \in DOMAIN log : log[p].kind = kind}

\* publish_render_state: what one screen looks at, for the others to follow.
PublishState(incident) ==
  /\ Cardinality(DOMAIN log \ Published("incident.declared")) < MaxStates
  /\ Publish(<<[kind |-> "render.state", incident |-> incident]>>)
  /\ UNCHANGED <<rows, sessions, alarms, watching, shown, joined>>

----------------------------------------------------------------------------
(* Declarations.                                                            *)

\* next_incident_code: one more than the number of today's incidents.
NextCode == Cardinality(saved) + 1

Goto(w, next) == pc' = [pc EXCEPT ![w] = next]

\* The declaration is over, well or not; its code is forgotten.
End(w, next) == Goto(w, next) /\ code' = [code EXCEPT ![w] = 0]

\* incidents.create begins; n is the payload's code or the next one.
Declare(w, n) ==
  /\ pc[w] = "idle"
  /\ n <= MaxCode
  /\ code' = [code EXCEPT ![w] = n]
  /\ Goto(w, "check")
  /\ UNCHANGED <<rows, pending, log, alarms, screens>>

\* The SELECT for an incident of that code: 409, or on to the INSERT.
CheckCode(w) ==
  /\ pc[w] = "check"
  /\ IF code[w] \in saved THEN End(w, "idle")
                         ELSE Goto(w, "insert") /\ UNCHANGED code
  /\ UNCHANGED <<rows, pending, log, alarms, screens>>

\* Where an exception leaves the session: the request of the console ends; the
\* chat goes on, and its session refuses every statement.
AfterError(w) == IF w \in Chat THEN "stuck" ELSE "idle"

\* The flush.  The key on the code makes it wait for another session that has
\* inserted the same code, and fail if that one commits.
Insert(w) ==
  /\ pc[w] = "insert"
  /\ \A u \in Writer \ {w} : ~(pc[u] = "commit" /\ code[u] = code[w])
  /\ IF code[w] \in saved
     THEN End(w, AfterError(w)) /\ UNCHANGED pending
     ELSE /\ Goto(w, "commit")
          /\ pending' = [pending EXCEPT ![w] = Append(@, code[w])]
          /\ UNCHANGED code
  /\ UNCHANGED <<rows, log, alarms, screens>>

\* Rolled back: a statement or the COMMIT failed, or the request was cancelled.
Fail(w) ==
  /\ pc[w] \in {"check", "insert", "commit"}
  /\ End(w, AfterError(w))
  /\ pending' = [pending EXCEPT ![w] = <<>>]
  /\ UNCHANGED <<rows, log, alarms, screens>>

EndChat(w) ==
  /\ pc[w] = "stuck"
  /\ Goto(w, "idle")
  /\ UNCHANGED <<rows, code, pending, log, alarms, screens>>

Commit(w) ==
  /\ pc[w] = "commit"
  /\ saved' = saved \cup {code[w]}
  /\ Goto(w, "announce")
  /\ UNCHANGED <<unheard, code, pending, log, alarms, screens>>

\* Slip: publishing does not wait for the COMMIT.
MayAnnounce_Early(w) == pc[w] \in {"commit", "announce"}

\* Slip: only what the console declares is published.
MayAnnounce_Console(w) == pc[w] = "announce" /\ w \notin Chat

\* Has the COMMIT of session w come back?
MayAnnounce(w) == pc[w] = "announce"

\* Slip: the events stay on the session.
StillPending_All(w) == pending[w]

\* What _publish_pending leaves on the session.
StillPending(w) == <<>>

\* Slip: the hook is registered twice.
Pushed_Twice(places) == places \o places

\* The hook of push.register starts a broadcast for each event it is given.
Pushed(places) == places

\* _publish_pending, in the after_commit of session w.
Announce(w) ==
  LET events == [i \in DOMAIN pending[w] |->
                   [kind |-> "incident.declared", incident |-> pending[w][i]]]
  IN /\ MayAnnounce(w)
     /\ Publish(events)
     /\ alarms' = alarms \o Pushed(NextPlaces(Len(events)))
     /\ pending' = [pending EXCEPT ![w] = StillPending(w)]
     /\ End(w, "idle")
     /\ UNCHANGED <<rows, watching, shown, joined>>

\* The process stops and starts again: the rows are what is left.
Restart ==
  /\ unheard' = saved
  /\ pc' = [w \in Writer |-> "idle"]
  /\ code' = [w \in Writer |-> 0]
  /\ pending' = [w \in Writer |-> <<>>]
  /\ log' = <<>> /\ alarms' = <<>>
  /\ watching' = [x \in Screen |-> Off]
  /\ queue' = [x \in Screen |-> <<>>] /\ shown' = [x \in Screen |-> <<>>]
  /\ joined' = [x \in Screen |-> 0]
  /\ UNCHANGED saved

----------------------------------------------------------------------------

Step ==
  \/ \E w \in Writer :
       \/ Declare(w, NextCode)
       \/ \E n \in CustomCodes : w \notin Chat /\ Declare(w, n)
       \/ CheckCode(w)
       \/ Insert(w)
       \/ Fail(w)
       \/ EndChat(w)
       \/ Commit(w)
       \/ Announce(w)
  \/ \E incident \in Shared : PublishState(incident)
  \/ \E x \in Screen :
       \/ \E incident \in Shared \cup {All} : Subscribe(x, incident)
       \/ Take(x)
       \/ Disconnect(x)

Next == Step \/ Restart

\* after_commit runs when the COMMIT has come back, and an open connection is
\* read; nothing obliges anybody to declare, to watch or to share a screen.
Fairness ==
  /\ \A w \in Writer : WF_vars(Announce(w))
  /\ \A x \in Screen : WF_vars(Take(x))

Spec == Init /\ [][Next]_vars /\ Fairness

----------------------------------------------------------------------------
(* What the pipeline is for.                                                *)

\* Places in the log where incident c is declared.
Declared(c) ==
  {p \in DOMAIN log : log[p] = [kind |-> "incident.declared", incident |-> c]}

(* README.md and events.py: an incident that was rolled back never reaches  *)
(* a screen.  Whatever was published as declared is a committed row.        *)
NothingUnsaved == \A c \in Code : Declared(c) # {} => c \in saved

(* events.py: nor is an incident saved and nobody told.  Between restarts   *)
(* each saved incident is published exactly once, or is about to be, be it  *)
(* declared at the console or by any of the drills of one chat.             *)
SavedIsAnnounced ==
  \A c \in saved \ unheard :
    Cardinality(Declared(c)) + Cardinality({w \in Writer : c \in Range(pending[w])}) = 1

(* push.register: each published declaration starts one push broadcast, in  *)
(* the order of publication, and nothing else starts any.                   *)
OnePushPerAlarm ==
  /\ Range(alarms) = UNION {Declared(c) : c \in Code}
  /\ \A i, j \in DOMAIN alarms : i < j => alarms[i] < alarms[j]

\* What a connection has been sent, and what waits for it.
Feed(x) == shown[x] \o queue[x]

(* EventBroker.stream: a connection is sent events of the incident it       *)
(* follows, and of none, in the order they were published, none twice and   *)
(* none from before it subscribed.                                          *)
ShownInOrder ==
  \A x \in Subscribed :
    /\ \A i, j \in DOMAIN Feed(x) : i < j => Feed(x)[i] < Feed(x)[j]
    /\ \A p \in Range(Feed(x)) : joined[x] < p
    /\ \A p \in Range(shown[x]) :
         watching[x] = All \/ log[p].incident \in {All, watching[x]}

(* EventBroker.publish: a slow subscriber loses old events and never new    *)
(* ones: what concerns a screen is lost to it only when QUEUE_SIZE newer    *)
(* events, of whatever incident, were published.                            *)
LostOnlyWhenOld ==
  \A x \in Subscribed : \A p \in (joined[x] + 1)..Len(log) :
    \/ ~Concerns(x, p)
    \/ p \in Range(Feed(x))
    \/ Len(log) - p >= QueueSize

\* Screen x has been sent the declaration of c.
Told(x, c) == Range(shown[x]) \cap Declared(c) # {}

(* incidents.create: a saved declaration reaches every screen that follows  *)
(* it, unless the screen goes away or falls QUEUE_SIZE events behind.       *)
AlarmIsShown ==
  \A w \in Writer, x \in Screen, c \in Code :
    (pc[w] = "announce" /\ code[w] = c /\ watching[x] \in {All, c})
      ~> \/ Told(x, c)
         \/ x \notin Subscribed
         \/ \E p \in Declared(c) : Len(log) - p >= QueueSize

(* schemas/incident.py and docs/api-spec.md: without a code in the payload  *)
(* the server generates one; the one it would generate is not in use.       *)
GeneratedCodeIsFree == NextCode \notin saved

=============================================================================
