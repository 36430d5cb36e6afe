--------------------------- MODULE SpreadRunProofs ---------------------------
(***************************************************************************)
(* Proofs about SpreadRun and the IncidentAlerts in it: declarations,       *)
(* screens and runs, for any sessions, screens, codes, queues and runs.     *)
(***************************************************************************)
EXTENDS SpreadRun, SequenceTheorems, FiniteSetTheorems, TLAPS

----------------------------------------------------------------------------
(* The inductive invariant.                                                 *)

Declaration(c) == [kind |-> "incident.declared", incident |-> c]

Subject == [kind : Kind, incident : Code \cup {All}]
OfRun == [kind : Kind, incident : Code \cup {All}, run : Nat]
OfRunCounted == [kind : Kind, incident : Code \cup {All}, run : Nat, frames : Nat]
Event == Subject \cup OfRun \cup OfRunCounted

Shape ==
  /\ saved \subseteq Code /\ unheard \subseteq saved
  /\ pc \in [Writer -> {"idle", "check", "insert", "commit", "announce", "stuck"}]
  /\ code \in [Writer -> Nat]
  /\ pending \in [Writer -> Seq(Nat)]
  /\ log \in Seq(Event)
  /\ alarms \in Seq(Nat)
  /\ watching \in [Screen -> Code \cup {All, Off}]
  /\ queue \in [Screen -> Seq(Nat)] /\ shown \in [Screen -> Seq(Nat)]
  /\ joined \in [Screen -> Nat]
  /\ runs \in Seq([incident : Code \cup {All}, left : Nat, sent : Nat,
                   flushes : BOOLEAN, over : BOOLEAN])

\* Has the declaration of c been published?
Out(c) == \E p \in DOMAIN log : log[p] = Declaration(c)

\* The session in which c has been inserted and not yet published.
Carries(w, c) == pc[w] \in {"commit", "announce"} /\ code[w] = c

\* What the declaration in session w may rely on before each statement.
Declaring(w) ==
  /\ pc[w] \in {"idle", "check", "insert", "stuck"} => pending[w] = <<>>
  /\ pc[w] \in {"check", "insert", "commit", "announce"} => code[w] \in Code
  /\ pc[w] \in {"commit", "announce"} => pending[w] = <<code[w]>>
  /\ pc[w] = "commit" => code[w] \notin saved
  /\ pc[w] = "announce" => code[w] \in saved /\ code[w] \notin unheard /\ ~Out(code[w])

Sessions ==
  /\ \A w \in Writer : Declaring(w)
  /\ \A w, u \in Writer : \A c \in Code : Carries(w, c) /\ Carries(u, c) => w = u

\* Published are rows of this life of the process, each once, and what is not
\* yet published is about to be.
Declarations ==
  /\ \A c \in Code : Out(c) => c \in saved /\ c \notin unheard
  /\ \A c \in Code : \A p, q \in DOMAIN log :
       log[p] = Declaration(c) /\ log[q] = Declaration(c) => p = q
  /\ \A c \in saved : c \in unheard \/ Out(c) \/ \E w \in Writer : pc[w] = "announce" /\ code[w] = c

\* The broadcasts are those of the declarations, in the order of the log.
Alarms ==
  /\ \A i \in DOMAIN alarms :
       alarms[i] \in DOMAIN log /\ \E c \in Code : log[alarms[i]] = Declaration(c)
  /\ \A p \in DOMAIN log : \A c \in Code :
       log[p] = Declaration(c) => \E i \in DOMAIN alarms : alarms[i] = p
  /\ \A i, j \in DOMAIN alarms : i < j => alarms[i] < alarms[j]

\* How many events have left the queue of screen x, shown or not.
Seen(x) == Len(log) - Len(queue[x])

\* A queue holds the newest events, without a gap; behind it is what was shown.
Following(x) ==
  /\ Len(queue[x]) <= QueueSize
  /\ joined[x] <= Seen(x)
  /\ \A i \in DOMAIN queue[x] : queue[x][i] = Seen(x) + i
  /\ \A i \in DOMAIN shown[x] :
       joined[x] < shown[x][i] /\ shown[x][i] <= Seen(x) /\ Concerns(x, shown[x][i])
  /\ \A i, j \in DOMAIN shown[x] : i < j => shown[x][i] < shown[x][j]
  /\ \A p \in (joined[x] + 1)..Seen(x) :
       \/ ~Concerns(x, p)
       \/ \E i \in DOMAIN shown[x] : shown[x][i] = p
       \/ Len(log) - p >= QueueSize

Screens == \A x \in Subscribed : Following(x)

\* Run r has published as many frames as it has counted, and its completion
\* when it is over and then only.
Reporting(r) ==
  /\ runs[r].over => runs[r].left = 0
  /\ IsFiniteSet(Frames(r)) /\ Cardinality(Frames(r)) = runs[r].sent
  /\ ~runs[r].over => Completion(r) = {}
  /\ runs[r].over =>
       \E p \in DOMAIN log :
         /\ Completion(r) = {p}
         /\ log[p].incident = runs[r].incident /\ log[p].frames = runs[r].sent
         /\ \A f \in Frames(r) : f < p

Reports ==
  /\ \A p \in DOMAIN log :
       log[p].kind \in {"prediction.frame", "spread.complete"} => log[p].run \in Run
  /\ \A r \in Run : Reporting(r)

IInv ==
  /\ Shape
  /\ Sessions
  /\ Declarations
  /\ Alarms
  /\ Screens
  /\ Reports

----------------------------------------------------------------------------
(* Publishing an event.                                                     *)

LEMMA Sequence ==
  ASSUME NEW S, NEW q \in Seq(S)
  PROVE  /\ Len(q) \in Nat /\ DOMAIN q = 1..Len(q) /\ (q = <<>> <=> Len(q) = 0)
         /\ \A i \in 1..Len(q) : q[i] \in S
BY LenProperties, EmptySeq, ElementOfSeq

LEMMA One ==
  ASSUME NEW S, NEW q \in Seq(S), NEW e \in S
  PROVE  /\ q \o <<e>> \in Seq(S) /\ Len(q \o <<e>>) = Len(q) + 1
         /\ \A i \in 1..Len(q) : (q \o <<e>>)[i] = q[i]
         /\ (q \o <<e>>)[Len(q) + 1] = e
<1>1. <<e>> \in Seq(S) /\ Len(<<e>>) = 1 /\ <<e>>[1] = e
  OBVIOUS
<1>2. /\ q \o <<e>> \in Seq(S) /\ Len(q \o <<e>>) = Len(q) + Len(<<e>>)
      /\ \A i \in 1..(Len(q) + Len(<<e>>)) :
           (q \o <<e>>)[i] = IF i <= Len(q) THEN q[i] ELSE <<e>>[i - Len(q)]
  BY <1>1, ConcatProperties
<1>3. Len(q) \in Nat
  BY Sequence
<1>4. (q \o <<e>>)[Len(q) + 1] = e
  <2>1. Len(q) + 1 \in 1..(Len(q) + Len(<<e>>)) /\ ~(Len(q) + 1 <= Len(q))
        /\ (Len(q) + 1) - Len(q) = 1
    BY <1>1, <1>3
  <2>2. (q \o <<e>>)[Len(q) + 1] = <<e>>[(Len(q) + 1) - Len(q)]
    BY <1>2, <2>1
  <2> QED
    BY <1>1, <2>1, <2>2
<1>5. \A i \in 1..Len(q) : (q \o <<e>>)[i] = q[i]
  BY <1>1, <1>2, <1>3
<1> QED
  BY <1>1, <1>2, <1>4, <1>5

\* What Put makes of a queue that is not too long.
LEMMA PutOne ==
  ASSUME AlertsAssumption, NEW q \in Seq(Nat), Len(q) <= QueueSize, NEW n \in Nat
  PROVE  /\ Put(q, <<n>>) \in Seq(Nat) /\ Len(Put(q, <<n>>)) <= QueueSize
         /\ Len(q) < QueueSize =>
              /\ Len(Put(q, <<n>>)) = Len(q) + 1
              /\ \A i \in 1..Len(q) : Put(q, <<n>>)[i] = q[i]
              /\ Put(q, <<n>>)[Len(q) + 1] = n
         /\ Len(q) = QueueSize =>
              /\ Len(Put(q, <<n>>)) = QueueSize
              /\ \A i \in 1..(QueueSize - 1) : Put(q, <<n>>)[i] = q[i + 1]
              /\ Put(q, <<n>>)[QueueSize] = n
<1>1. PICK all : all = q \o <<n>>
  OBVIOUS
<1>2. /\ all \in Seq(Nat) /\ Len(all) = Len(q) + 1 /\ all[Len(q) + 1] = n
      /\ \A i \in 1..Len(q) : all[i] = q[i]
  BY <1>1, One
<1>3. PICK size : size = Len(q) /\ size \in Nat
  BY Sequence
<1>4. QueueSize \in Nat /\ QueueSize >= 1
  BY DEF AlertsAssumption
<1>5. PICK put : put = Put(q, <<n>>)
  OBVIOUS
<1>6. PICK start : start = IF Len(all) > QueueSize THEN Len(all) - QueueSize + 1 ELSE 1
  OBVIOUS
<1>7. put = SubSeq(all, start, size + 1)
  BY <1>1, <1>2, <1>3, <1>5, <1>6 DEF Put
<1>8. size <= QueueSize /\ start = IF size = QueueSize THEN 2 ELSE 1
  BY <1>2, <1>3, <1>4, <1>6
<1>9. \A i \in start..(size + 1) : all[i] \in Nat
  BY <1>2, <1>3, <1>8, Sequence
<1>10. start \in Int /\ size + 1 \in Int
  BY <1>3, <1>8
<1>11. /\ put \in Seq(Nat)
       /\ Len(put) = IF start <= size + 1 THEN (size + 1) - start + 1 ELSE 0
       /\ \A i \in 1..((size + 1) - start + 1) : put[i] = all[start + i - 1]
  BY <1>7, <1>9, <1>10, SubSeqProperties
<1>12. ASSUME size < QueueSize
       PROVE  Len(put) = size + 1 /\ put[size + 1] = n /\ \A i \in 1..size : put[i] = q[i]
  <2>1. start = 1 /\ (size + 1) - start + 1 = size + 1 /\ start <= size + 1
    BY <1>3, <1>4, <1>8, <1>12
  <2>2. \A i \in 1..(size + 1) : put[i] = all[i]
    BY <1>3, <1>11, <2>1
  <2> QED
    BY <1>2, <1>3, <1>11, <2>1, <2>2
<1>13. ASSUME size = QueueSize
       PROVE  /\ Len(put) = QueueSize /\ put[QueueSize] = n
              /\ \A i \in 1..(QueueSize - 1) : put[i] = q[i + 1]
  <2>1. start = 2 /\ (size + 1) - start + 1 = QueueSize /\ start <= size + 1
    BY <1>3, <1>4, <1>8, <1>13
  <2>2. \A i \in 1..QueueSize : put[i] = all[i + 1]
    BY <1>3, <1>4, <1>11, <2>1
  <2> QED
    BY <1>2, <1>3, <1>4, <1>11, <1>13, <2>1, <2>2
<1>14. Len(put) <= QueueSize
  BY <1>3, <1>4, <1>8, <1>12, <1>13
<1> QED
  BY <1>3, <1>5, <1>11, <1>12, <1>13, <1>14

LEMMA Published1 ==
  ASSUME log \in Seq(Event), NEW e \in Event, Publish(<<e>>)
  PROVE  /\ log' \in Seq(Event) /\ Len(log) \in Nat /\ Len(log') = Len(log) + 1
         /\ DOMAIN log = 1..Len(log) /\ DOMAIN log' = 1..(Len(log) + 1)
         /\ \A p \in 1..Len(log) : log'[p] = log[p]
         /\ log'[Len(log) + 1] = e
         /\ \A x \in Screen :
              queue'[x] = IF x \in Subscribed THEN Put(queue[x], <<Len(log) + 1>>)
                                              ELSE queue[x]
         /\ DOMAIN queue' = Screen /\ queue' = [x \in Screen |-> queue'[x]]
<1>1. log' = log \o <<e>>
  BY DEF Publish
<1>2. Len(log) \in Nat /\ DOMAIN log = 1..Len(log)
  BY Sequence
<1>3. /\ log' \in Seq(Event) /\ Len(log') = Len(log) + 1
      /\ \A p \in 1..Len(log) : log'[p] = log[p] /\ log'[Len(log) + 1] = e
  BY <1>1, One
<1>4. log'[Len(log) + 1] = e
  BY <1>1, One
<1>5. DOMAIN log' = 1..(Len(log) + 1)
  BY <1>3, Sequence
<1>6. NextPlaces(1) = <<Len(log) + 1>>
  BY <1>2 DEF NextPlaces
<1>7. Len(<<e>>) = 1
  OBVIOUS
<1>8. queue' = [x \in Screen |-> IF x \in Subscribed THEN Put(queue[x], <<Len(log) + 1>>)
                                                     ELSE queue[x]]
  BY <1>6, <1>7 DEF Publish
<1> QED
  BY <1>2, <1>3, <1>4, <1>5, <1>8

----------------------------------------------------------------------------
(* Declarations.                                                            *)

declaring == <<saved, unheard, pc, code, pending, alarms>>

LEMMA OtherEvent ==
  ASSUME Shape, Sessions, Declarations, Alarms, NEW e \in Event, Publish(<<e>>),
         e.kind # "incident.declared", UNCHANGED declaring
  PROVE  Sessions' /\ Declarations' /\ Alarms'
<1>1. /\ Len(log) \in Nat /\ DOMAIN log = 1..Len(log) /\ DOMAIN log' = 1..(Len(log) + 1)
      /\ \A p \in 1..Len(log) : log'[p] = log[p]
      /\ log'[Len(log) + 1] = e
  BY Published1 DEF Shape
<1>2. \A c \in Code : e # Declaration(c)
  BY DEF Declaration
<1>3. \A c \in Code : \A p \in DOMAIN log' :
        log'[p] = Declaration(c) => p \in DOMAIN log /\ log[p] = Declaration(c)
  BY <1>1, <1>2
<1>4. \A p \in DOMAIN log : p \in DOMAIN log' /\ log'[p] = log[p]
  BY <1>1
<1>5. \A c \in Code : Out(c)' <=> Out(c)
  BY <1>3, <1>4 DEF Out
<1>6. Sessions'
  <2>1. ASSUME NEW w \in Writer PROVE Declaring(w)'
    BY <1>5 DEF Sessions, Declaring, declaring
  <2> QED
    BY <2>1 DEF Sessions, Carries, declaring
<1>7. Declarations'
  <2>1. \A c \in Code : Out(c)' => c \in saved' /\ c \notin unheard'
    BY <1>5 DEF Declarations, declaring
  <2>2. \A c \in Code : \A p, q \in DOMAIN log' :
          log'[p] = Declaration(c) /\ log'[q] = Declaration(c) => p = q
    BY <1>3 DEF Declarations
  <2>3. \A c \in saved' : \/ c \in unheard' \/ Out(c)'
                          \/ \E w \in Writer : pc'[w] = "announce" /\ code'[w] = c
    BY <1>5 DEF Declarations, declaring, Shape
  <2> QED
    BY <2>1, <2>2, <2>3 DEF Declarations
<1>8. Alarms'
  <2>1. alarms' = alarms
    BY DEF declaring
  <2>2. \A i \in DOMAIN alarms' :
          alarms'[i] \in DOMAIN log' /\ \E c \in Code : log'[alarms'[i]] = Declaration(c)
    BY <1>4, <2>1 DEF Alarms
  <2>3. \A p \in DOMAIN log' : \A c \in Code :
          log'[p] = Declaration(c) => \E i \in DOMAIN alarms' : alarms'[i] = p
    BY <1>3, <2>1 DEF Alarms
  <2> QED
    BY <2>1, <2>2, <2>3 DEF Alarms
<1> QED
  BY <1>6, <1>7, <1>8

\* Session w goes on without committing or publishing anything.
LEMMA SessionStep ==
  ASSUME Shape, Sessions, Declarations, Alarms, UNCHANGED <<saved, unheard, log, alarms>>,
         NEW w \in Writer, pc[w] # "announce",
         NEW next \in {"idle", "check", "insert", "commit", "stuck"}, NEW c \in Nat,
         NEW events \in Seq(Nat),
         pc' = [pc EXCEPT ![w] = next], code' = [code EXCEPT ![w] = c],
         pending' = [pending EXCEPT ![w] = events],
         next \in {"idle", "check", "insert", "stuck"} => events = <<>>,
         next \in {"check", "insert", "commit"} => c \in Code,
         next = "commit" => /\ events = <<c>> /\ c \notin saved
                            /\ \A u \in Writer \ {w} : ~(pc[u] = "commit" /\ code[u] = c)
  PROVE  Sessions' /\ Declarations' /\ Alarms'
<1>1. /\ pc'[w] = next /\ code'[w] = c /\ pending'[w] = events
      /\ \A u \in Writer \ {w} :
           pc'[u] = pc[u] /\ code'[u] = code[u] /\ pending'[u] = pending[u]
  BY DEF Shape
<1>2. \A d : Out(d)' <=> Out(d)
  BY DEF Out
<1>3. ASSUME NEW u \in Writer PROVE Declaring(u)'
  BY <1>1, <1>2 DEF Sessions, Declaring
<1>4. ASSUME NEW u \in Writer, NEW d \in Code, Carries(u, d)', Carries(w, d)', u # w
      PROVE  FALSE
  <2>1. next = "commit" /\ c = d
    BY <1>1, <1>4 DEF Carries
  <2>2. pc[u] \in {"commit", "announce"} /\ code[u] = d
    BY <1>1, <1>4 DEF Carries
  <2>3. pc[u] = "announce" => code[u] \in saved
    BY DEF Sessions, Declaring
  <2> QED
    BY <1>4, <2>1, <2>2, <2>3
<1>5. ASSUME NEW u \in Writer, NEW t \in Writer, NEW d \in Code, Carries(u, d)', Carries(t, d)'
      PROVE  u = t
  <2>1. CASE u = w \/ t = w
    BY <1>4, <1>5, <2>1
  <2>2. CASE u # w /\ t # w
    BY <1>1, <1>5, <2>2 DEF Sessions, Carries
  <2> QED
    BY <2>1, <2>2
<1>6. Declarations'
  BY <1>1, <1>2 DEF Declarations
<1> QED
  BY <1>3, <1>5, <1>6 DEF Sessions, Alarms

LEMMA CommitStep ==
  ASSUME Shape, Sessions, Declarations, Alarms, NEW w \in Writer, Commit(w)
  PROVE  Sessions' /\ Declarations' /\ Alarms'
<1>1. PICK c : c = code[w]
  OBVIOUS
<1>2. /\ pc[w] = "commit" /\ c \in Code /\ c \notin saved /\ pending[w] = <<c>>
      /\ saved' = saved \cup {c} /\ UNCHANGED <<unheard, code, pending, log, alarms>>
      /\ pc' = [pc EXCEPT ![w] = "announce"]
  BY <1>1 DEF Commit, Goto, Sessions, Declaring
<1>3. pc'[w] = "announce" /\ \A u \in Writer \ {w} : pc'[u] = pc[u]
  BY <1>2 DEF Shape
<1>4. \A d : Out(d)' <=> Out(d)
  BY <1>2 DEF Out
<1>5. ~Out(c)
  BY <1>2 DEF Declarations
<1>6. c \notin unheard
  BY <1>2 DEF Shape
<1>7. ASSUME NEW u \in Writer PROVE Declaring(u)'
  <2>1. CASE u = w
    BY <1>1, <1>2, <1>3, <1>4, <1>5, <1>6, <2>1 DEF Declaring
  <2>2. CASE u # w
    <3>1. pc[u] = "commit" => code[u] # c
      BY <1>1, <1>2, <2>2 DEF Sessions, Carries
    <3> QED
      BY <1>2, <1>3, <1>4, <2>2, <3>1 DEF Sessions, Declaring
  <2> QED
    BY <2>1, <2>2
<1>8. Sessions'
  BY <1>2, <1>3, <1>7 DEF Sessions, Carries
<1>9. Declarations'
  <2>1. \A d \in saved' : \/ d \in unheard' \/ Out(d)'
                          \/ \E u \in Writer : pc'[u] = "announce" /\ code'[u] = d
    <3> SUFFICES ASSUME NEW d \in saved', d \notin unheard, ~Out(d)
                 PROVE  \E u \in Writer : pc'[u] = "announce" /\ code'[u] = d
      BY <1>2, <1>4
    <3>1. CASE d = c
      BY <1>1, <1>2, <1>3, <3>1
    <3>2. CASE d # c
      <4>1. PICK u \in Writer : pc[u] = "announce" /\ code[u] = d
        BY <1>2, <3>2 DEF Declarations
      <4> QED
        BY <1>1, <1>2, <1>3, <4>1
    <3> QED
      BY <3>1, <3>2
  <2> QED
    BY <1>2, <1>4, <2>1 DEF Declarations
<1>10. Alarms'
  BY <1>2 DEF Alarms
<1> QED
  BY <1>8, <1>9, <1>10

\* The hook publishes the one declaration that is on the session.
LEMMA AnnouncesOne ==
  ASSUME Shape, Sessions, NEW w \in Writer, Announce(w)
  PROVE  \E c \in Code :
           /\ c = code[w] /\ pc[w] = "announce" /\ pending[w] = <<c>>
           /\ Declaration(c) \in Event /\ Publish(<<Declaration(c)>>)
           /\ alarms' = alarms \o <<Len(log) + 1>>
<1>1. PICK c : c = code[w]
  OBVIOUS
<1>2. pc[w] = "announce" /\ c \in Code /\ pending[w] = <<c>>
  BY <1>1 DEF Announce, MayAnnounce, Sessions, Declaring
<1>3. PICK events : events = [i \in DOMAIN pending[w] |->
                                [kind |-> "incident.declared", incident |-> pending[w][i]]]
  OBVIOUS
<1>4. Publish(events) /\ alarms' = alarms \o Pushed(NextPlaces(Len(events)))
  BY <1>3 DEF Announce
<1>5. events = [i \in 1..1 |-> Declaration(c)]
  BY <1>2, <1>3 DEF Declaration
<1>6. events = <<Declaration(c)>> /\ Len(events) = 1
  BY <1>5
<1>7. Len(log) \in Nat
  BY Sequence DEF Shape
<1>8. NextPlaces(1) = <<Len(log) + 1>>
  BY <1>7 DEF NextPlaces
<1>9. Declaration(c) \in Event
  BY <1>2 DEF Declaration, Event, Subject, Kind
<1> QED
  BY <1>1, <1>2, <1>4, <1>6, <1>8, <1>9 DEF Pushed

LEMMA AnnounceStep ==
  ASSUME Shape, Sessions, Declarations, Alarms, NEW w \in Writer, Announce(w)
  PROVE  Sessions' /\ Declarations' /\ Alarms'
<1>1. PICK c \in Code :
        /\ c = code[w] /\ pc[w] = "announce" /\ pending[w] = <<c>>
        /\ Declaration(c) \in Event /\ Publish(<<Declaration(c)>>)
        /\ alarms' = alarms \o <<Len(log) + 1>>
  BY AnnouncesOne
<1>2. PICK last : last = Len(log) + 1
  OBVIOUS
<1>3. /\ Len(log) \in Nat /\ DOMAIN log = 1..Len(log) /\ DOMAIN log' = 1..last
      /\ \A p \in 1..Len(log) : log'[p] = log[p]
      /\ log'[last] = Declaration(c)
  BY <1>1, <1>2, Published1 DEF Shape
<1>4. /\ UNCHANGED <<saved, unheard>> /\ pending' = [pending EXCEPT ![w] = <<>>]
      /\ pc' = [pc EXCEPT ![w] = "idle"] /\ code' = [code EXCEPT ![w] = 0]
  BY DEF Announce, StillPending, End, Goto, rows
<1>5. /\ pc'[w] = "idle" /\ pending'[w] = <<>>
      /\ \A u \in Writer \ {w} :
           pc'[u] = pc[u] /\ code'[u] = code[u] /\ pending'[u] = pending[u]
  BY <1>4 DEF Shape
<1>6. c \in saved /\ c \notin unheard /\ ~Out(c)
  BY <1>1 DEF Sessions, Declaring
<1>7. \A d \in Code : Declaration(d) = Declaration(c) => d = c
  BY DEF Declaration
<1>8. \A d \in Code : Out(d)' <=> (Out(d) \/ d = c)
  <2>1. Out(c)'
    BY <1>3, <1>2 DEF Out
  <2>2. ASSUME NEW d \in Code, Out(d) PROVE Out(d)'
    BY <1>2, <1>3, <2>2 DEF Out
  <2>3. ASSUME NEW d \in Code, Out(d)', d # c PROVE Out(d)
    <3>1. PICK p \in DOMAIN log' : log'[p] = Declaration(d)
      BY <2>3 DEF Out
    <3>2. p # last /\ p \in DOMAIN log
      BY <1>2, <1>3, <1>7, <2>3, <3>1
    <3> QED
      BY <1>3, <3>1, <3>2 DEF Out
  <2> QED
    BY <2>1, <2>2, <2>3
<1>9. ASSUME NEW u \in Writer PROVE Declaring(u)'
  <2>1. CASE u = w
    BY <1>5, <2>1 DEF Declaring
  <2>2. CASE u # w
    <3>1. pc[u] = "announce" => code[u] # c
      BY <1>1, <2>2 DEF Sessions, Carries
    <3>2. Declaring(u)
      BY DEF Sessions
    <3> QED
      BY <1>4, <1>5, <1>8, <2>2, <3>1, <3>2 DEF Declaring
  <2> QED
    BY <2>1, <2>2
<1>10. Sessions'
  BY <1>5, <1>9 DEF Sessions, Carries
<1>11. Declarations'
  <2>1. \A d \in Code : Out(d)' => d \in saved' /\ d \notin unheard'
    BY <1>4, <1>6, <1>8 DEF Declarations
  <2>2. ASSUME NEW d \in Code, NEW p \in DOMAIN log', NEW q \in DOMAIN log',
               log'[p] = Declaration(d), log'[q] = Declaration(d)
        PROVE  p = q
    <3>1. CASE d = c
      <4>1. ASSUME NEW n \in DOMAIN log', log'[n] = Declaration(c) PROVE n = last
        BY <1>2, <1>3, <1>6, <4>1 DEF Out
      <4> QED
        BY <2>2, <3>1, <4>1
    <3>2. CASE d # c
      <4>1. p \in DOMAIN log /\ q \in DOMAIN log
        BY <1>2, <1>3, <1>7, <2>2, <3>2
      <4> QED
        BY <1>3, <2>2, <4>1 DEF Declarations
    <3> QED
      BY <3>1, <3>2
  <2>3. \A d \in saved' : \/ d \in unheard' \/ Out(d)'
                          \/ \E u \in Writer : pc'[u] = "announce" /\ code'[u] = d
    <3> SUFFICES ASSUME NEW d \in saved, d \notin unheard, ~Out(d), d # c
                 PROVE  \E u \in Writer : pc'[u] = "announce" /\ code'[u] = d
      BY <1>4, <1>8 DEF Shape
    <3>1. PICK u \in Writer : pc[u] = "announce" /\ code[u] = d
      BY DEF Declarations
    <3> QED
      BY <1>1, <1>5, <3>1
  <2> QED
    BY <2>1, <2>2, <2>3 DEF Declarations
<1>12. Alarms'
  <2>1. PICK size : size = Len(alarms) /\ size \in Nat /\ DOMAIN alarms = 1..size
    BY Sequence DEF Shape
  <2>2. last \in Nat
    BY <1>2, <1>3
  <2>3. /\ alarms' \in Seq(Nat) /\ Len(alarms') = size + 1 /\ alarms'[size + 1] = last
        /\ \A i \in 1..size : alarms'[i] = alarms[i]
    BY <1>1, <1>2, <2>1, <2>2, One DEF Shape
  <2>4. DOMAIN alarms' = 1..(size + 1)
    BY <2>3, Sequence
  <2>5. \A i \in 1..size : alarms[i] \in 1..Len(log)
    BY <1>3, <2>1 DEF Alarms
  <2>6. ASSUME NEW i \in 1..(size + 1)
        PROVE  alarms'[i] \in DOMAIN log' /\ \E d \in Code : log'[alarms'[i]] = Declaration(d)
    <3>1. CASE i = size + 1
      BY <1>2, <1>3, <2>3, <3>1
    <3>2. CASE i # size + 1
      <4>1. i \in 1..size /\ alarms'[i] = alarms[i] /\ alarms[i] \in 1..Len(log)
        BY <2>1, <2>3, <2>5, <3>2
      <4>2. \E d \in Code : log[alarms[i]] = Declaration(d)
        BY <2>1, <4>1 DEF Alarms
      <4> QED
        BY <1>2, <1>3, <4>1, <4>2
    <3> QED
      BY <3>1, <3>2
  <2>7. ASSUME NEW p \in DOMAIN log', NEW d \in Code, log'[p] = Declaration(d)
        PROVE  \E i \in 1..(size + 1) : alarms'[i] = p
    <3>1. CASE p = last
      BY <2>1, <2>3, <3>1
    <3>2. CASE p # last
      <4>1. p \in DOMAIN log /\ log[p] = Declaration(d)
        BY <1>2, <1>3, <2>7, <3>2
      <4>2. PICK i \in 1..size : alarms[i] = p
        BY <2>1, <4>1 DEF Alarms
      <4> QED
        BY <2>1, <2>3, <4>2
    <3> QED
      BY <3>1, <3>2
  <2>8. ASSUME NEW i \in 1..(size + 1), NEW j \in 1..(size + 1), i < j
        PROVE  alarms'[i] < alarms'[j]
    <3>1. i \in 1..size /\ alarms'[i] = alarms[i]
      BY <2>1, <2>3, <2>8
    <3>2. CASE j = size + 1
      BY <1>2, <1>3, <2>3, <2>5, <3>1, <3>2
    <3>3. CASE j # size + 1
      <4>1. j \in 1..size /\ alarms'[j] = alarms[j]
        BY <2>1, <2>3, <3>3
      <4> QED
        BY <2>1, <2>8, <3>1, <4>1 DEF Alarms
    <3> QED
      BY <3>2, <3>3
  <2> QED
    BY <2>4, <2>6, <2>7, <2>8 DEF Alarms
<1> QED
  BY <1>10, <1>11, <1>12

----------------------------------------------------------------------------
(* Screens.                                                                 *)

\* What Following says, for a screen whose state is as given.
LEMMA ScreenShape ==
  ASSUME Shape, NEW x \in Screen
  PROVE  /\ Len(queue[x]) \in Nat /\ DOMAIN queue[x] = 1..Len(queue[x])
         /\ Len(shown[x]) \in Nat /\ DOMAIN shown[x] = 1..Len(shown[x])
         /\ Len(log) \in Nat /\ DOMAIN log = 1..Len(log) /\ joined[x] \in Nat
         /\ queue[x] \in Seq(Nat) /\ shown[x] \in Seq(Nat)
         /\ \A i \in 1..Len(shown[x]) : shown[x][i] \in Nat
<1>1. queue[x] \in Seq(Nat) /\ shown[x] \in Seq(Nat) /\ log \in Seq(Event)
      /\ joined[x] \in Nat
  BY DEF Shape
<1> QED
  BY <1>1, Sequence

LEMMA EventOnScreens ==
  ASSUME AlertsAssumption, Shape, Screens, NEW e \in Event, Publish(<<e>>),
         UNCHANGED <<watching, shown, joined>>
  PROVE  Screens' /\ queue' \in [Screen -> Seq(Nat)]
<1>1. PICK last : last = Len(log) + 1
  OBVIOUS
<1>2. /\ Len(log) \in Nat /\ Len(log') = last
      /\ DOMAIN log = 1..Len(log)
      /\ \A p \in 1..Len(log) : log'[p] = log[p]
      /\ \A x \in Screen :
           queue'[x] = IF x \in Subscribed THEN Put(queue[x], <<last>>) ELSE queue[x]
      /\ queue' = [x \in Screen |-> queue'[x]]
  BY <1>1, Published1 DEF Shape
<1>3. last \in Nat /\ QueueSize \in Nat /\ QueueSize >= 1
  BY <1>1, <1>2 DEF AlertsAssumption
<1>4. ASSUME NEW x \in Subscribed
      PROVE  Put(queue[x], <<last>>) \in Seq(Nat) /\ Following(x)'
  <2>1. PICK q : q = queue[x]
    OBVIOUS
  <2>2. PICK n : n = Len(q)
    OBVIOUS
  <2>3. x \in Screen /\ Following(x)
    BY DEF Screens, Subscribed
  <2>4. /\ n \in Nat /\ DOMAIN q = 1..n /\ q \in Seq(Nat) /\ n <= QueueSize
        /\ Len(shown[x]) \in Nat /\ DOMAIN shown[x] = 1..Len(shown[x])
        /\ joined[x] \in Nat /\ \A i \in 1..Len(shown[x]) : shown[x][i] \in Nat
    BY <2>1, <2>2, <2>3, ScreenShape DEF Following
  <2>5. PICK put : put = Put(q, <<last>>)
    OBVIOUS
  <2>6. /\ put \in Seq(Nat) /\ Len(put) <= QueueSize
        /\ n < QueueSize => /\ Len(put) = n + 1
                            /\ \A i \in 1..n : put[i] = q[i]
                            /\ put[n + 1] = last
        /\ n = QueueSize => /\ Len(put) = QueueSize
                            /\ \A i \in 1..(QueueSize - 1) : put[i] = q[i + 1]
                            /\ put[QueueSize] = last
    BY <1>3, <2>2, <2>4, <2>5, PutOne
  <2>7. queue'[x] = put /\ shown'[x] = shown[x] /\ joined'[x] = joined[x]
        /\ watching'[x] = watching[x]
    BY <1>2, <2>1, <2>3, <2>5
  <2>8. PICK gone : gone = Len(log) - n
    OBVIOUS
  <2>9. /\ joined[x] <= gone /\ gone \in Int
        /\ \A i \in 1..n : q[i] = gone + i
        /\ \A i \in 1..Len(shown[x]) : joined[x] < shown[x][i] /\ shown[x][i] <= gone
                                       /\ Concerns(x, shown[x][i])
        /\ \A i, j \in 1..Len(shown[x]) : i < j => shown[x][i] < shown[x][j]
        /\ \A p \in (joined[x] + 1)..gone :
             \/ ~Concerns(x, p)
             \/ \E i \in 1..Len(shown[x]) : shown[x][i] = p
             \/ Len(log) - p >= QueueSize
    BY <1>2, <2>1, <2>2, <2>3, <2>4, <2>8 DEF Following, Seen
  <2>10. PICK gone2 : gone2 = Seen(x)'
    OBVIOUS
  <2>11. gone2 = last - Len(put)
    BY <1>2, <2>7, <2>10 DEF Seen
  <2>12. DOMAIN put = 1..Len(put) /\ Len(put) \in Nat
    BY <2>6, Sequence
  <2>22. (n < QueueSize => gone2 = gone) /\ (n = QueueSize => gone2 = gone + 1)
    <3>1. PICK size : size = Len(log) /\ size \in Nat
      BY <1>2
    <3>2. ASSUME n < QueueSize PROVE gone2 = gone
      <4>1. gone2 = (size + 1) - (n + 1) /\ gone = size - n
        BY <1>1, <2>6, <2>8, <2>11, <3>1, <3>2
      <4> QED
        BY <2>4, <3>1, <4>1
    <3>3. ASSUME n = QueueSize PROVE gone2 = gone + 1
      <4>1. gone2 = (size + 1) - n /\ gone = size - n
        BY <1>1, <2>6, <2>8, <2>11, <3>1, <3>3
      <4> QED
        BY <2>4, <3>1, <4>1
    <3> QED
      BY <3>2, <3>3
  <2>13. \A i \in 1..Len(put) : put[i] = gone2 + i
    <3>1. CASE n < QueueSize
      <4>1. ASSUME NEW i \in 1..(n + 1) PROVE put[i] = gone2 + i
        <5>1. CASE i = n + 1
          BY <1>1, <1>2, <2>4, <2>6, <2>11, <3>1, <5>1
        <5>2. CASE i # n + 1
          <6>1. i \in 1..n
            BY <2>4, <5>2
          <6> QED
            BY <2>6, <2>9, <2>22, <3>1, <6>1
        <5> QED
          BY <5>1, <5>2
      <4> QED
        BY <2>6, <3>1, <4>1
    <3>2. CASE n = QueueSize
      <4>1. ASSUME NEW i \in 1..QueueSize PROVE put[i] = gone2 + i
        <5>1. CASE i = QueueSize
          BY <1>1, <1>2, <1>3, <2>6, <2>11, <3>2, <5>1
        <5>2. CASE i # QueueSize
          <6>1. i \in 1..(QueueSize - 1) /\ i + 1 \in 1..n
            BY <1>3, <3>2, <5>2
          <6>2. put[i] = gone + (i + 1)
            BY <2>6, <2>9, <3>2, <6>1
          <6> QED
            BY <2>9, <2>22, <3>2, <6>1, <6>2
        <5> QED
          BY <5>1, <5>2
      <4> QED
        BY <2>6, <3>2, <4>1
    <3> QED
      BY <1>3, <2>4, <3>1, <3>2
  <2>14. gone <= gone2 /\ gone2 <= gone + 1 /\ gone2 <= Len(log) /\ gone2 \in Int
         /\ (gone2 = gone + 1 => n = QueueSize)
    BY <1>1, <1>2, <1>3, <2>4, <2>6, <2>8, <2>11
  <2>15. \A p \in 1..Len(log) : Concerns(x, p)' <=> Concerns(x, p)
    BY <1>2, <2>7 DEF Concerns
  <2>16. ASSUME NEW i \in 1..Len(shown[x])
         PROVE  joined[x] < shown[x][i] /\ shown[x][i] <= gone2 /\ Concerns(x, shown[x][i])'
    <3>1. PICK p : p = shown[x][i]
      OBVIOUS
    <3>2. p \in Nat /\ joined[x] < p /\ p <= gone /\ Concerns(x, p)
      BY <2>4, <2>9, <3>1
    <3>3. p \in 1..Len(log) /\ p <= gone2
      BY <1>2, <2>4, <2>9, <2>14, <3>2
    <3>4. Concerns(x, p)'
      BY <2>15, <3>2, <3>3
    <3> QED
      BY <3>1, <3>2, <3>3, <3>4 DEF Concerns
  <2>17. ASSUME NEW p \in (joined[x] + 1)..gone2
         PROVE  \/ ~Concerns(x, p)'
                \/ \E i \in 1..Len(shown[x]) : shown[x][i] = p
                \/ last - p >= QueueSize
    <3>1. p \in 1..Len(log)
      BY <1>2, <2>4, <2>14
    <3>2. CASE p <= gone
      <4>1. p \in (joined[x] + 1)..gone
        BY <2>4, <2>9, <3>1, <3>2
      <4> QED
        BY <1>1, <1>2, <1>3, <2>9, <2>15, <3>1, <4>1
    <3>3. CASE p > gone
      <4>1. p = gone + 1 /\ n = QueueSize
        BY <2>9, <2>14, <3>1, <3>3
      <4> QED
        BY <1>1, <1>2, <1>3, <2>8, <4>1
    <3> QED
      BY <2>9, <3>1, <3>2, <3>3
  <2>18. joined[x] <= gone2
    BY <2>4, <2>9, <2>14
  <2>19. \A i, j \in 1..Len(shown[x]) : i < j => shown[x][i] < shown[x][j]
    BY <2>9
  <2>20. DOMAIN shown[x] = 1..Len(shown[x])
    BY <2>4
  <2>21. Following(x)'
    BY <1>2, <2>6, <2>7, <2>10, <2>12, <2>13, <2>16, <2>17, <2>18, <2>19, <2>20 DEF Following
  <2> QED
    BY <2>1, <2>5, <2>6, <2>21
<1>5. Screens'
  BY <1>4 DEF Screens, Subscribed
<1>6. \A x \in Screen : queue'[x] \in Seq(Nat)
  BY <1>2, <1>4 DEF Shape
<1> QED
  BY <1>2, <1>5, <1>6

\* The connection of screen y stays as it is, and nothing is published.
LEMMA SameScreen ==
  ASSUME UNCHANGED log, NEW y, watching'[y] = watching[y], queue'[y] = queue[y],
         shown'[y] = shown[y], joined'[y] = joined[y], Following(y)
  PROVE  Following(y)'
<1>1. Seen(y)' = Seen(y)
  BY DEF Seen
<1>2. PICK seen : seen = Seen(y)
  OBVIOUS
<1>3. PICK feed : feed = shown[y]
  OBVIOUS
<1>4. /\ \A i \in DOMAIN feed : joined[y] < feed[i] /\ feed[i] <= seen /\ Concerns(y, feed[i])'
      /\ \A p \in (joined[y] + 1)..seen :
           ~Concerns(y, p)' \/ (\E i \in DOMAIN feed : feed[i] = p) \/ Len(log) - p >= QueueSize
  BY <1>2, <1>3 DEF Following, Concerns
<1>5. /\ Len(queue[y]) <= QueueSize /\ joined[y] <= seen
      /\ \A i \in DOMAIN queue[y] : queue[y][i] = seen + i
      /\ \A i, j \in DOMAIN feed : i < j => feed[i] < feed[j]
  BY <1>2, <1>3 DEF Following
<1> QED
  BY <1>1, <1>2, <1>3, <1>4, <1>5 DEF Following, Concerns

\* Only the connection of screen x changes.
LEMMA OneScreen ==
  ASSUME Screens, UNCHANGED log, NEW x \in Screen,
         \A y \in Screen \ {x} : /\ watching'[y] = watching[y] /\ queue'[y] = queue[y]
                                  /\ shown'[y] = shown[y] /\ joined'[y] = joined[y],
         watching'[x] # Off => Following(x)'
  PROVE  Screens'
<1>1. ASSUME NEW y \in Screen, watching'[y] # Off PROVE Following(y)'
  <2>1. CASE y = x
    BY <1>1, <2>1
  <2>2. CASE y # x
    BY <1>1, <2>2, SameScreen DEF Screens, Subscribed
  <2> QED
    BY <2>1, <2>2
<1> QED
  BY <1>1 DEF Screens, Subscribed

LEMMA SubscribeStep ==
  ASSUME AlertsAssumption, Shape, Screens, NEW x \in Screen,
         NEW incident \in Shared \cup {All}, Subscribe(x, incident)
  PROVE  Screens'
<1>1. /\ watching' = [watching EXCEPT ![x] = incident] /\ queue' = [queue EXCEPT ![x] = <<>>]
      /\ shown' = [shown EXCEPT ![x] = <<>>] /\ joined' = [joined EXCEPT ![x] = Len(log)]
      /\ UNCHANGED <<saved, unheard, pc, code, pending, log, alarms>>
  BY DEF Subscribe, rows, sessions
<1>2. Len(log) \in Nat /\ <<>> \in Seq(Nat) /\ Len(<<>>) = 0 /\ DOMAIN <<>> = {}
  BY Sequence, EmptySeq DEF Shape
<1>4. /\ queue'[x] = <<>> /\ shown'[x] = <<>> /\ joined'[x] = Len(log) /\ log' = log
      /\ \A y \in Screen \ {x} : /\ watching'[y] = watching[y] /\ queue'[y] = queue[y]
                                  /\ shown'[y] = shown[y] /\ joined'[y] = joined[y]
  BY <1>1 DEF Shape
<1>5. Seen(x)' = Len(log)
  BY <1>2, <1>4 DEF Seen
<1>6. Following(x)'
  <2>1. QueueSize >= 0 /\ (Len(log) + 1)..Len(log) = {}
    BY <1>2 DEF AlertsAssumption
  <2> QED
    BY <1>2, <1>4, <1>5, <2>1 DEF Following
<1> QED
  BY <1>4, <1>6, OneScreen

LEMMA TakeStep ==
  ASSUME AlertsAssumption, Shape, Screens, NEW x \in Screen, Take(x)
  PROVE  Screens' /\ queue' \in [Screen -> Seq(Nat)] /\ shown' \in [Screen -> Seq(Nat)]
<1>1. PICK q : q = queue[x]
  OBVIOUS
<1>2. PICK size : size = Len(log)
  OBVIOUS
<1>3. PICK gone : gone = Seen(x)
  OBVIOUS
<1>4. x \in Subscribed /\ q # <<>> /\ queue' = [queue EXCEPT ![x] = Tail(q)]
      /\ UNCHANGED <<log, watching, joined>>
      /\ shown' = IF Concerns(x, Head(q)) THEN [shown EXCEPT ![x] = Append(@, Head(q))] ELSE shown
  BY <1>1 DEF Take
<1>5. /\ Len(q) \in Nat /\ DOMAIN q = 1..Len(q) /\ q \in Seq(Nat) /\ Len(q) >= 1
      /\ size \in Nat /\ joined[x] \in Nat /\ shown[x] \in Seq(Nat)
      /\ Len(shown[x]) \in Nat /\ DOMAIN shown[x] = 1..Len(shown[x])
      /\ \A i \in 1..Len(shown[x]) : shown[x][i] \in Nat
  BY <1>1, <1>2, <1>4, ScreenShape, Sequence
<1>6. Following(x)
  BY <1>4 DEF Screens
<1>7. gone = size - Len(q) /\ gone \in Int
  BY <1>1, <1>2, <1>3, <1>5 DEF Seen
<1>8. /\ Len(q) <= QueueSize /\ joined[x] <= gone
      /\ \A i \in 1..Len(q) : q[i] = gone + i
      /\ \A i \in 1..Len(shown[x]) : joined[x] < shown[x][i] /\ shown[x][i] <= gone
                                     /\ Concerns(x, shown[x][i])
      /\ \A i, j \in 1..Len(shown[x]) : i < j => shown[x][i] < shown[x][j]
      /\ \A p \in (joined[x] + 1)..gone :
           \/ ~Concerns(x, p)
           \/ \E i \in 1..Len(shown[x]) : shown[x][i] = p
           \/ size - p >= QueueSize
  BY <1>1, <1>2, <1>3, <1>5, <1>6 DEF Following
<1>9. Head(q) = gone + 1 /\ gone + 1 \in Nat
  <2>1. Head(q) = q[1] /\ 1 \in 1..Len(q)
    BY <1>4, <1>5
  <2> QED
    BY <1>5, <1>7, <1>8, <2>1
<1>10. /\ Tail(q) \in Seq(Nat) /\ Len(Tail(q)) = Len(q) - 1
       /\ \A i \in 1..(Len(q) - 1) : Tail(q)[i] = q[i + 1]
       /\ DOMAIN Tail(q) = 1..(Len(q) - 1)
  <2>1. /\ Tail(q) \in Seq(Nat) /\ Len(Tail(q)) = Len(q) - 1
        /\ \A i \in 1..Len(Tail(q)) : Tail(q)[i] = q[i + 1]
    BY <1>4, <1>5, HeadTailProperties
  <2> QED
    BY <2>1, Sequence
<1>11. PICK feed : feed = IF Concerns(x, gone + 1) THEN Append(shown[x], gone + 1) ELSE shown[x]
  OBVIOUS
<1>12. /\ feed \in Seq(Nat) /\ Len(feed) \in Nat /\ DOMAIN feed = 1..Len(feed)
       /\ \A i \in 1..Len(shown[x]) : i \in 1..Len(feed) /\ feed[i] = shown[x][i]
       /\ \A i \in 1..Len(feed) : i \notin 1..Len(shown[x]) =>
            i = Len(shown[x]) + 1 /\ feed[i] = gone + 1 /\ Concerns(x, gone + 1)
       /\ Concerns(x, gone + 1) => \E i \in 1..Len(feed) : feed[i] = gone + 1
  <2>1. CASE Concerns(x, gone + 1)
    <3>1. feed = Append(shown[x], gone + 1)
      BY <1>11, <2>1
    <3>2. /\ feed \in Seq(Nat) /\ Len(feed) = Len(shown[x]) + 1
          /\ \A i \in 1..Len(shown[x]) : feed[i] = shown[x][i]
          /\ feed[Len(shown[x]) + 1] = gone + 1
      BY <1>5, <1>9, <3>1, AppendProperties
    <3>3. DOMAIN feed = 1..Len(feed) /\ Len(feed) \in Nat
      BY <3>2, Sequence
    <3>4. \A i \in 1..Len(shown[x]) : i \in 1..Len(feed) /\ feed[i] = shown[x][i]
      BY <1>5, <3>2
    <3>5. \A i \in 1..Len(feed) : i \notin 1..Len(shown[x]) =>
            i = Len(shown[x]) + 1 /\ feed[i] = gone + 1
      BY <1>5, <3>2
    <3>6. Len(shown[x]) + 1 \in 1..Len(feed) /\ feed[Len(shown[x]) + 1] = gone + 1
      BY <1>5, <3>2
    <3> QED
      BY <2>1, <3>2, <3>3, <3>4, <3>5, <3>6
  <2>2. CASE ~Concerns(x, gone + 1)
    BY <1>5, <1>11, <2>2
  <2> QED
    BY <2>1, <2>2
<1>13. /\ queue'[x] = Tail(q) /\ shown'[x] = feed /\ joined'[x] = joined[x]
       /\ queue' \in [Screen -> Seq(Nat)] /\ shown' \in [Screen -> Seq(Nat)]
       /\ \A y \in Screen \ {x} : queue'[y] = queue[y] /\ shown'[y] = shown[y]
  BY <1>4, <1>9, <1>10, <1>11, <1>12 DEF Shape
<1>14. Seen(x)' = gone + 1
  <2>1. Seen(x)' = size - (Len(q) - 1)
    BY <1>2, <1>4, <1>10, <1>13 DEF Seen
  <2> QED
    BY <1>5, <1>7, <2>1
<1>15. \A p : Concerns(x, p)' <=> Concerns(x, p)
  BY <1>4 DEF Concerns
<1>16. \A i \in 1..(Len(q) - 1) : Tail(q)[i] = (gone + 1) + i
  <2>1. ASSUME NEW i \in 1..(Len(q) - 1) PROVE Tail(q)[i] = (gone + 1) + i
    <3>1. i + 1 \in 1..Len(q)
      BY <1>5
    <3>2. Tail(q)[i] = gone + (i + 1)
      BY <1>8, <1>10, <3>1
    <3> QED
      BY <1>7, <3>2
  <2> QED
    BY <2>1
<1>17. ASSUME NEW i \in 1..Len(feed)
       PROVE  joined[x] < feed[i] /\ feed[i] <= gone + 1 /\ Concerns(x, feed[i])'
  <2>1. CASE i \in 1..Len(shown[x])
    <3>1. PICK p : p = shown[x][i]
      OBVIOUS
    <3>2. p \in Nat /\ joined[x] < p /\ p <= gone /\ Concerns(x, p) /\ feed[i] = p
      BY <1>5, <1>8, <1>12, <2>1, <3>1
    <3>3. Concerns(x, p)'
      BY <1>15, <3>2
    <3> QED
      BY <1>7, <3>2, <3>3 DEF Concerns
  <2>2. CASE i \notin 1..Len(shown[x])
    <3>1. feed[i] = gone + 1 /\ Concerns(x, gone + 1)
      BY <1>12, <2>2
    <3>2. Concerns(x, gone + 1)'
      BY <1>4, <3>1 DEF Concerns
    <3> QED
      BY <1>5, <1>7, <1>8, <1>12, <3>1, <3>2, <2>2 DEF Concerns
  <2> QED
    BY <2>1, <2>2
<1>18. ASSUME NEW i \in 1..Len(feed), NEW j \in 1..Len(feed), i < j
       PROVE  feed[i] < feed[j]
  <2>1. i \in 1..Len(shown[x]) /\ feed[i] = shown[x][i] /\ feed[i] <= gone /\ feed[i] \in Nat
    <3>1. i \in 1..Len(shown[x])
      <4>1. SUFFICES ASSUME i \notin 1..Len(shown[x]) PROVE FALSE
        OBVIOUS
      <4>2. i = Len(shown[x]) + 1
        BY <1>12, <4>1
      <4>3. j \notin 1..Len(shown[x]) /\ j # Len(shown[x]) + 1
        BY <1>5, <1>18, <4>2
      <4> QED
        BY <1>12, <4>3
    <3> QED
      BY <1>5, <1>8, <1>12, <3>1
  <2>2. CASE j \in 1..Len(shown[x])
    BY <1>8, <1>12, <1>18, <2>1, <2>2
  <2>3. CASE j \notin 1..Len(shown[x])
    BY <1>7, <1>12, <2>1, <2>3
  <2> QED
    BY <2>2, <2>3
<1>19. ASSUME NEW p \in (joined[x] + 1)..(gone + 1)
       PROVE  \/ ~Concerns(x, p)'
              \/ \E i \in 1..Len(feed) : feed[i] = p
              \/ size - p >= QueueSize
  <2>1. CASE p = gone + 1
    <3>1. Concerns(x, p)' <=> Concerns(x, p)
      BY <1>15
    <3>2. Concerns(x, p) => \E i \in 1..Len(feed) : feed[i] = p
      BY <1>12, <2>1
    <3> QED
      BY <3>1, <3>2
  <2>2. CASE p # gone + 1
    <3>1. p \in (joined[x] + 1)..gone
      <4>1. joined[x] + 1 \in Int /\ gone \in Int
        BY <1>5, <1>7
      <4> QED
        BY <2>2, <4>1
    <3> QED
      BY <1>8, <1>12, <1>15, <3>1
  <2> QED
    BY <2>1, <2>2
<1>20. joined[x] <= gone + 1 /\ Len(q) - 1 <= QueueSize
  <2>1. /\ joined[x] \in Nat /\ joined[x] <= gone /\ gone \in Int
        /\ Len(q) \in Nat /\ Len(q) <= QueueSize /\ QueueSize \in Nat
    BY <1>5, <1>7, <1>8 DEF AlertsAssumption
  <2> QED
    BY <2>1
<1>21. Following(x)'
  <2>1. /\ shown'[x] = feed /\ DOMAIN feed = 1..Len(feed) /\ joined'[x] = joined[x]
        /\ queue'[x] = Tail(q) /\ DOMAIN Tail(q) = 1..(Len(q) - 1)
        /\ Len(Tail(q)) = Len(q) - 1 /\ Len(log') = size
    BY <1>2, <1>4, <1>10, <1>12, <1>13
  <2>2. \A i \in DOMAIN queue'[x] : queue'[x][i] = Seen(x)' + i
    BY <1>14, <1>16, <2>1
  <2>3. \A i \in 1..Len(feed) :
          joined[x] < feed[i] /\ feed[i] <= gone + 1 /\ Concerns(x, feed[i])'
    BY <1>17
  <2>4. \A i, j \in DOMAIN shown'[x] : i < j => shown'[x][i] < shown'[x][j]
    BY <1>18, <2>1
  <2>5. \A p \in (joined'[x] + 1)..Seen(x)' :
          \/ ~Concerns(x, p)'
          \/ \E i \in DOMAIN shown'[x] : shown'[x][i] = p
          \/ Len(log') - p >= QueueSize
    BY <1>14, <1>19, <2>1
  <2>6. Len(queue'[x]) <= QueueSize /\ joined'[x] <= Seen(x)'
    BY <1>14, <1>20, <2>1
  <2> QED
    BY <1>14, <2>1, <2>2, <2>3, <2>4, <2>5, <2>6 DEF Following, Concerns
<1>22. Screens'
  BY <1>4, <1>13, <1>21, OneScreen
<1> QED
  BY <1>13, <1>22

----------------------------------------------------------------------------
(* Runs.                                                                    *)

\* What run r has published once the event e is.
LEMMA EventOfRun ==
  ASSUME Shape, NEW e \in Event, Publish(<<e>>), NEW r
  PROVE  /\ Frames(r)' = Frames(r) \cup (IF e.kind = "prediction.frame" /\ e.run = r
                                         THEN {Len(log) + 1} ELSE {})
         /\ Completion(r)' = Completion(r) \cup (IF e.kind = "spread.complete" /\ e.run = r
                                                 THEN {Len(log) + 1} ELSE {})
         /\ Frames(r) \subseteq 1..Len(log) /\ Completion(r) \subseteq 1..Len(log)
<1>1. PICK last : last = Len(log) + 1
  OBVIOUS
<1>2. /\ Len(log) \in Nat /\ DOMAIN log = 1..Len(log) /\ DOMAIN log' = 1..last
      /\ \A p \in 1..Len(log) : log'[p] = log[p]
      /\ log'[last] = e /\ last \notin 1..Len(log)
      /\ \A p \in 1..last : p \in 1..Len(log) \/ p = last
      /\ last \in 1..last /\ \A p \in 1..Len(log) : p \in 1..last
  BY <1>1, Published1 DEF Shape
<1>3. Frames(r) \subseteq 1..Len(log) /\ Completion(r) \subseteq 1..Len(log)
  BY <1>2 DEF Frames, Completion, Published
<1>4. Frames(r)' = Frames(r) \cup (IF e.kind = "prediction.frame" /\ e.run = r
                                  THEN {last} ELSE {})
  <2>1. Frames(r)' = {p \in 1..last : log'[p].kind = "prediction.frame" /\ log'[p].run = r}
    BY <1>2 DEF Frames, Published
  <2>2. Frames(r) = {p \in 1..Len(log) : log[p].kind = "prediction.frame" /\ log[p].run = r}
    BY <1>2 DEF Frames, Published
  <2> QED
    BY <1>2, <2>1, <2>2
<1>5. Completion(r)' = Completion(r) \cup (IF e.kind = "spread.complete" /\ e.run = r
                                          THEN {last} ELSE {})
  <2>1. Completion(r)' = {p \in 1..last : log'[p].kind = "spread.complete" /\ log'[p].run = r}
    BY <1>2 DEF Completion, Published
  <2>2. Completion(r) = {p \in 1..Len(log) : log[p].kind = "spread.complete" /\ log[p].run = r}
    BY <1>2 DEF Completion, Published
  <2> QED
    BY <1>2, <2>1, <2>2
<1> QED
  BY <1>1, <1>3, <1>4, <1>5

\* A run whose state stays as it is, and that publishes nothing, reports as before.
LEMMA RunAside ==
  ASSUME Shape, NEW e \in Event, Publish(<<e>>), NEW r \in Run, Reporting(r),
         r \in Run', runs'[r] = runs[r],
         ~(e.kind \in {"prediction.frame", "spread.complete"} /\ e.run = r)
  PROVE  Reporting(r)'
<1>1. Frames(r)' = Frames(r) /\ Completion(r)' = Completion(r)
      /\ Frames(r) \subseteq 1..Len(log) /\ Completion(r) \subseteq 1..Len(log)
  BY EventOfRun
<1>2. /\ \A p \in 1..Len(log) : log'[p] = log[p] /\ p \in DOMAIN log'
  BY Published1 DEF Shape
<1>3. (runs[r].over => runs[r].left = 0) /\ IsFiniteSet(Frames(r))
      /\ Cardinality(Frames(r)) = runs[r].sent /\ (~runs[r].over => Completion(r) = {})
  BY DEF Reporting
<1>4. ASSUME runs[r].over
      PROVE  \E p \in DOMAIN log' :
               /\ Completion(r)' = {p}
               /\ log'[p].incident = runs'[r].incident /\ log'[p].frames = runs'[r].sent
               /\ \A f \in Frames(r)' : f < p
  <2>1. PICK p \in DOMAIN log :
          /\ Completion(r) = {p}
          /\ log[p].incident = runs[r].incident /\ log[p].frames = runs[r].sent
          /\ \A f \in Frames(r) : f < p
    BY <1>4 DEF Reporting
  <2>2. p \in 1..Len(log) /\ p \in DOMAIN log' /\ log'[p] = log[p]
    BY <1>1, <1>2, <2>1
  <2> QED
    BY <1>1, <2>1, <2>2
<1> QED
  BY <1>1, <1>3, <1>4 DEF Reporting

\* An event of no run.
LEMMA EventAside ==
  ASSUME Shape, Reports, NEW e \in Event, Publish(<<e>>), UNCHANGED runs,
         e.kind \notin {"prediction.frame", "spread.complete"}
  PROVE  Reports'
<1>1. \A r \in Run : Reporting(r)'
  BY RunAside DEF Reports, Run
<1>2. ASSUME NEW p \in DOMAIN log', log'[p].kind \in {"prediction.frame", "spread.complete"}
      PROVE  log'[p].run \in Run
  <2>1. /\ Len(log) \in Nat /\ DOMAIN log = 1..Len(log) /\ DOMAIN log' = 1..(Len(log) + 1)
        /\ \A n \in 1..Len(log) : log'[n] = log[n]
        /\ log'[Len(log) + 1] = e
    BY Published1 DEF Shape
  <2>2. p # Len(log) + 1
    BY <1>2, <2>1
  <2>3. p \in DOMAIN log /\ log'[p] = log[p]
    BY <2>1, <2>2
  <2> QED
    BY <1>2, <2>3 DEF Reports
<1> QED
  BY <1>1, <1>2 DEF Reports, Run

\* Run r publishes e and is in the state next from then on.
LEMMA EventByRun ==
  ASSUME Shape, Reports, NEW r \in Run, NEW e \in Event, Publish(<<e>>),
         e.kind \in {"prediction.frame", "spread.complete"}, e.run = r,
         runs' = [runs EXCEPT ![r] = runs'[r]], Reporting(r)'
  PROVE  Reports'
<1>1. Run' = Run /\ \A s \in Run \ {r} : runs'[s] = runs[s]
  BY DEF Shape, Run
<1>2. ASSUME NEW s \in Run PROVE Reporting(s)'
  <2>1. CASE s # r
    BY <1>1, <2>1, RunAside DEF Reports
  <2> QED
    BY <2>1
<1>3. ASSUME NEW p \in DOMAIN log', log'[p].kind \in {"prediction.frame", "spread.complete"}
      PROVE  log'[p].run \in Run
  <2>1. /\ Len(log) \in Nat /\ DOMAIN log = 1..Len(log) /\ DOMAIN log' = 1..(Len(log) + 1)
        /\ \A n \in 1..Len(log) : log'[n] = log[n]
        /\ log'[Len(log) + 1] = e
    BY Published1 DEF Shape
  <2>2. CASE p = Len(log) + 1
    BY <2>1, <2>2
  <2>3. CASE p # Len(log) + 1
    <3>1. p \in DOMAIN log /\ log'[p] = log[p]
      BY <2>1, <2>3
    <3> QED
      BY <1>3, <3>1 DEF Reports
  <2> QED
    BY <2>2, <2>3
<1> QED
  BY <1>1, <1>2, <1>3 DEF Reports

RunState == [incident : Code \cup {All}, left : Nat, sent : Nat,
             flushes : BOOLEAN, over : BOOLEAN]

LEMMA RunShape ==
  ASSUME Shape
  PROVE  /\ runs \in Seq(RunState) /\ Len(runs) \in Nat /\ Run = 1..Len(runs)
         /\ \A r \in Run : runs[r] \in RunState
<1>1. runs \in Seq(RunState)
  BY DEF Shape, RunState
<1> QED
  BY <1>1, Sequence DEF Run

LEMMA SendFrameStep ==
  ASSUME Shape, Reports, NEW r \in Run, SendFrame(r)
  PROVE  /\ Reports' /\ runs' \in Seq(RunState)
         /\ \E e \in Event : Publish(<<e>>) /\ e.kind # "incident.declared"
<1>1. PICK old : old = runs[r]
  OBVIOUS
<1>2. PICK e : e = [kind |-> "prediction.frame", incident |-> old.incident, run |-> r]
  OBVIOUS
<1>3. old \in RunState /\ runs \in Seq(RunState) /\ r \in Nat /\ Run = 1..Len(runs)
      /\ Len(runs) \in Nat
  BY <1>1, RunShape
<1>4. PICK new : new = [[old EXCEPT !.sent = old.sent + 1] EXCEPT !.left = @ - 1]
  OBVIOUS
<1>5. /\ Publish(<<e>>) /\ old.left > 0 /\ runs' = [runs EXCEPT ![r] = new]
  BY <1>1, <1>2, <1>4 DEF SendFrame, Asked, Counted
<1>6. /\ new \in RunState /\ new.sent = old.sent + 1 /\ new.left = old.left - 1
      /\ new.over = old.over /\ new.incident = old.incident
  <2>1. old.left - 1 \in Nat /\ old.sent + 1 \in Nat
    BY <1>3, <1>5 DEF RunState
  <2>2. /\ old.incident \in Code \cup {All} /\ old.flushes \in BOOLEAN /\ old.over \in BOOLEAN
        /\ old = [incident |-> old.incident, left |-> old.left, sent |-> old.sent,
                  flushes |-> old.flushes, over |-> old.over]
    BY <1>3 DEF RunState
  <2>3. new = [incident |-> old.incident, left |-> old.left - 1, sent |-> old.sent + 1,
               flushes |-> old.flushes, over |-> old.over]
    BY <1>4, <2>2
  <2> QED
    BY <2>1, <2>2, <2>3 DEF RunState
<1>7. e \in Event /\ e.kind = "prediction.frame" /\ e.run = r
  BY <1>2, <1>3 DEF Event, OfRun, Kind, RunState
<1>8. runs' \in Seq(RunState) /\ runs'[r] = new
  BY <1>3, <1>5, <1>6, ExceptSeq
<1>9. Reporting(r)
  BY DEF Reports
<1>10. ~old.over
  BY <1>1, <1>3, <1>5, <1>9 DEF Reporting, RunState
<1>11. Frames(r)' = Frames(r) \cup {Len(log) + 1} /\ Completion(r)' = Completion(r)
       /\ Frames(r) \subseteq 1..Len(log)
  BY <1>5, <1>7, EventOfRun
<1>12. Len(log) + 1 \notin Frames(r)
  <2>1. Len(log) \in Nat
    BY Sequence DEF Shape
  <2> QED
    BY <1>11, <2>1
<1>13. IsFiniteSet(Frames(r)') /\ Cardinality(Frames(r)') = Cardinality(Frames(r)) + 1
  BY <1>9, <1>11, <1>12, FS_AddElement DEF Reporting
<1>14. Reporting(r)'
  BY <1>1, <1>6, <1>8, <1>9, <1>10, <1>11, <1>13 DEF Reporting
<1>15. runs' = [runs EXCEPT ![r] = runs'[r]]
  BY <1>5, <1>8
<1>16. Reports'
  BY <1>5, <1>7, <1>14, <1>15, EventByRun
<1> QED
  BY <1>5, <1>7, <1>8, <1>16

LEMMA CompleteStep ==
  ASSUME Shape, Reports, NEW r \in Run, Complete(r)
  PROVE  /\ Reports' /\ runs' \in Seq(RunState)
         /\ \E e \in Event : Publish(<<e>>) /\ e.kind # "incident.declared"
<1>1. PICK old : old = runs[r]
  OBVIOUS
<1>2. PICK e : e = [kind |-> "spread.complete", incident |-> old.incident,
                    run |-> r, frames |-> old.sent]
  OBVIOUS
<1>3. old \in RunState /\ runs \in Seq(RunState) /\ r \in Nat /\ Run = 1..Len(runs)
      /\ Len(runs) \in Nat
  BY <1>1, RunShape
<1>4. PICK new : new = [old EXCEPT !.over = TRUE]
  OBVIOUS
<1>5. /\ Publish(<<e>>) /\ old.left = 0 /\ ~old.over /\ runs' = [runs EXCEPT ![r].over = TRUE]
  BY <1>1, <1>2 DEF Complete, MayComplete
<1>6. runs' = [runs EXCEPT ![r] = new]
  BY <1>1, <1>4, <1>5
<1>7. /\ new \in RunState /\ new.sent = old.sent /\ new.left = 0
      /\ new.over /\ new.incident = old.incident
  BY <1>3, <1>4, <1>5 DEF RunState
<1>8. /\ e \in Event /\ e.kind = "spread.complete" /\ e.run = r
      /\ e.incident = old.incident /\ e.frames = old.sent
  BY <1>2, <1>3 DEF Event, OfRunCounted, Kind, RunState
<1>9. runs' \in Seq(RunState) /\ runs'[r] = new
  BY <1>3, <1>6, <1>7, ExceptSeq
<1>10. Reporting(r) /\ Completion(r) = {}
  BY <1>1, <1>5 DEF Reports, Reporting
<1>11. PICK last : last = Len(log) + 1
  OBVIOUS
<1>12. Frames(r)' = Frames(r) /\ Completion(r)' = {last} /\ Frames(r) \subseteq 1..Len(log)
  BY <1>5, <1>8, <1>10, <1>11, EventOfRun
<1>13. last \in DOMAIN log' /\ log'[last] = e /\ Len(log) \in Nat
  BY <1>5, <1>8, <1>11, Published1 DEF Shape
<1>14. \A f \in Frames(r) : f < last
  BY <1>11, <1>12, <1>13
<1>15. /\ Completion(r)' = {last} /\ \A f \in Frames(r)' : f < last
       /\ log'[last].incident = runs'[r].incident /\ log'[last].frames = runs'[r].sent
  BY <1>7, <1>8, <1>9, <1>12, <1>13, <1>14
<1>16. Reporting(r)'
  BY <1>1, <1>7, <1>9, <1>10, <1>12, <1>13, <1>15 DEF Reporting
<1>17. runs' = [runs EXCEPT ![r] = runs'[r]]
  BY <1>6, <1>9
<1>18. Reports'
  BY <1>5, <1>8, <1>16, <1>17, EventByRun
<1> QED
  BY <1>5, <1>8, <1>9, <1>18

\* A horizon without a frame.
LEMMA QuietTurn ==
  ASSUME Shape, Reports, NEW r \in Run, UNCHANGED log, NEW next \in RunState, Asked(r, next),
         next.sent = runs[r].sent, next.over = runs[r].over, next.left = runs[r].left
  PROVE  Reports' /\ runs' \in Seq(RunState)
<1>1. PICK old : old = runs[r]
  OBVIOUS
<1>2. PICK new : new = [next EXCEPT !.left = @ - 1]
  OBVIOUS
<1>3. old \in RunState /\ runs \in Seq(RunState) /\ Run = 1..Len(runs) /\ Len(runs) \in Nat
  BY <1>1, RunShape
<1>4. old.left > 0 /\ runs' = [runs EXCEPT ![r] = new]
  BY <1>1, <1>2 DEF Asked
<1>5. new \in RunState /\ new.sent = old.sent /\ new.over = old.over
  <2>1. next.left - 1 \in Nat /\ next.sent = old.sent /\ next.over = old.over
    BY <1>1, <1>3, <1>4 DEF RunState
  <2>2. /\ next.incident \in Code \cup {All} /\ next.sent \in Nat
        /\ next.flushes \in BOOLEAN /\ next.over \in BOOLEAN
        /\ next = [incident |-> next.incident, left |-> next.left, sent |-> next.sent,
                   flushes |-> next.flushes, over |-> next.over]
    BY DEF RunState
  <2>3. new = [incident |-> next.incident, left |-> next.left - 1, sent |-> next.sent,
               flushes |-> next.flushes, over |-> next.over]
    BY <1>2, <2>2
  <2> QED
    BY <2>1, <2>2, <2>3 DEF RunState
<1>6. runs' \in Seq(RunState) /\ runs'[r] = new
      /\ Run' = Run /\ \A s \in Run \ {r} : runs'[s] = runs[s]
  BY <1>3, <1>4, <1>5, ExceptSeq DEF Run
<1>7. \A s : Frames(s)' = Frames(s) /\ Completion(s)' = Completion(s)
  BY DEF Frames, Completion, Published
<1>8. Reporting(r) /\ ~old.over
  BY <1>1, <1>3, <1>4 DEF Reports, Reporting, RunState
<1>9. Reporting(r)'
  BY <1>1, <1>5, <1>6, <1>7, <1>8 DEF Reporting
<1>10. ASSUME NEW s \in Run, s # r PROVE Reporting(s)'
  <2>1. runs'[s] = runs[s] /\ Reporting(s) /\ log' = log
    BY <1>6, <1>10 DEF Reports
  <2> QED
    BY <1>7, <2>1 DEF Reporting
<1>11. \A s \in Run' : Reporting(s)'
  BY <1>6, <1>9, <1>10
<1> QED
  BY <1>6, <1>11 DEF Reports

LEMMA StartStep ==
  ASSUME SpreadAssumption, Shape, Reports, NEW incident \in Code \cup {All},
         StartSpread(incident)
  PROVE  Reports' /\ runs' \in Seq(RunState)
<1>1. PICK new : new = [incident |-> incident, left |-> Horizons, sent |-> 0,
                        flushes |-> TRUE, over |-> FALSE]
  OBVIOUS
<1>2. PICK size : size = Len(runs)
  OBVIOUS
<1>3. runs' = Append(runs, new) /\ UNCHANGED log
  BY <1>1 DEF StartSpread, vars
<1>4. /\ runs \in Seq(RunState) /\ size \in Nat /\ Run = 1..size
      /\ new \in RunState
  BY <1>1, <1>2, RunShape DEF RunState, SpreadAssumption
<1>5. /\ runs' \in Seq(RunState) /\ Len(runs') = size + 1 /\ runs'[size + 1] = new
      /\ \A r \in 1..size : runs'[r] = runs[r]
  BY <1>2, <1>3, <1>4, AppendProperties
<1>6. Run' = 1..(size + 1)
  BY <1>5, Sequence DEF Run
<1>7. \A r : Frames(r)' = Frames(r) /\ Completion(r)' = Completion(r)
  BY <1>3 DEF Frames, Completion, Published
<1>8. Frames(size + 1) = {} /\ Completion(size + 1) = {}
  <2>1. size + 1 \notin Run
    BY <1>4
  <2> QED
    BY <2>1 DEF Reports, Frames, Completion, Published
<1>9. Reporting(size + 1)'
  <2>1. ~new.over /\ new.sent = 0
    BY <1>1
  <2>2. Frames(size + 1)' = {} /\ Completion(size + 1)' = {}
    BY <1>7, <1>8
  <2>3. IsFiniteSet(Frames(size + 1)') /\ Cardinality(Frames(size + 1)') = 0
    BY <2>2, FS_EmptySet
  <2> QED
    BY <1>5, <2>1, <2>2, <2>3 DEF Reporting
<1>10. ASSUME NEW r \in 1..size PROVE Reporting(r)'
  <2>1. runs'[r] = runs[r] /\ Reporting(r) /\ log' = log
    BY <1>3, <1>4, <1>5 DEF Reports
  <2> QED
    BY <1>7, <2>1 DEF Reporting
<1>11. \A r \in Run' : Reporting(r)'
  <2>1. \A r \in 1..(size + 1) : r \in 1..size \/ r = size + 1
    BY <1>4
  <2> QED
    BY <1>6, <1>9, <1>10, <2>1
<1>12. \A p \in DOMAIN log : log[p].kind \in {"prediction.frame", "spread.complete"} =>
         log[p].run \in Run'
  <2>1. \A r \in Run : r \in Run'
    BY <1>4, <1>6
  <2> QED
    BY <2>1 DEF Reports
<1> QED
  BY <1>3, <1>5, <1>11, <1>12 DEF Reports

----------------------------------------------------------------------------
(* Every step.                                                              *)

rest == <<watching, queue, shown, joined, runs>>

\* Neither the log nor a run changes.
LEMMA ReportsAside ==
  ASSUME Reports, UNCHANGED <<log, runs>>
  PROVE  Reports'
<1>1. \A r : Frames(r)' = Frames(r) /\ Completion(r)' = Completion(r)
  BY DEF Frames, Completion, Published
<1>2. ASSUME NEW r \in Run PROVE Reporting(r)'
  <2>1. Reporting(r) /\ runs' = runs /\ log' = log
    BY <1>2 DEF Reports
  <2> QED
    BY <1>1, <2>1 DEF Reporting
<1> QED
  BY <1>2 DEF Reports, Run

\* Neither a session nor the log changes.
LEMMA DeclarationsAside ==
  ASSUME Sessions, Declarations, Alarms,
         UNCHANGED <<saved, unheard, pc, code, pending, log, alarms>>
  PROVE  Sessions' /\ Declarations' /\ Alarms'
<1>1. \A c : Out(c)' <=> Out(c)
  BY DEF Out
<1>2. \A w : Declaring(w)' <=> Declaring(w)
  BY <1>1 DEF Declaring
<1>3. Sessions'
  BY <1>2 DEF Sessions, Carries
<1>4. Declarations'
  BY <1>1 DEF Declarations
<1>5. Alarms'
  BY DEF Alarms
<1> QED
  BY <1>3, <1>4, <1>5

\* Neither a connection nor the log changes.
LEMMA ScreensAside ==
  ASSUME Screens, UNCHANGED <<watching, queue, shown, joined, log>>
  PROVE  Screens'
<1>1. ASSUME NEW y \in Screen, watching'[y] # Off PROVE Following(y)'
  <2>1. Following(y)
    BY <1>1 DEF Screens, Subscribed
  <2> QED
    BY <2>1, SameScreen
<1> QED
  BY <1>1 DEF Screens, Subscribed

\* A step of a session that publishes nothing.
LEMMA SessionInv ==
  ASSUME IInv, UNCHANGED <<rest, log, unheard, alarms>>,
         saved \subseteq saved', saved' \subseteq Code,
         pc' \in [Writer -> {"idle", "check", "insert", "commit", "announce", "stuck"}],
         code' \in [Writer -> Nat], pending' \in [Writer -> Seq(Nat)],
         Sessions', Declarations', Alarms'
  PROVE  IInv'
<1>1. Shape'
  BY DEF IInv, Shape, rest
<1>2. UNCHANGED <<watching, queue, shown, joined, runs, log>>
  BY DEF rest
<1>3. Screens'
  BY <1>2, ScreensAside DEF IInv
<1>4. Reports'
  BY <1>2, ReportsAside DEF IInv
<1> QED
  BY <1>1, <1>3, <1>4 DEF IInv

\* The statements of a declaration.
LEMMA StatementInv ==
  ASSUME AlertsAssumption, IInv, NEW w \in Writer, UNCHANGED runs,
         \/ \E n \in CustomCodes \cup {NextCode} : Declare(w, n)
         \/ CheckCode(w) \/ Insert(w) \/ Fail(w) \/ EndChat(w)
  PROVE  IInv'
<1>1. /\ pc[w] \in {"idle", "check", "insert", "commit", "announce", "stuck"}
      /\ code[w] \in Nat /\ pending[w] \in Seq(Nat) /\ <<>> \in Seq(Nat) /\ 0 \in Nat
      /\ pc = [pc EXCEPT ![w] = pc[w]] /\ code = [code EXCEPT ![w] = code[w]]
      /\ pending = [pending EXCEPT ![w] = pending[w]]
  BY EmptySeq DEF IInv, Shape
<1>2. Declaring(w)
  BY DEF IInv, Sessions
<1>3. AfterError(w) \in {"idle", "stuck"}
  BY DEF AfterError
<1>4. ASSUME NEW next \in {"idle", "check", "insert", "commit", "stuck"}, NEW c \in Nat,
             NEW events \in Seq(Nat), pc[w] # "announce",
             UNCHANGED <<rest, saved, log, unheard, alarms>>,
             pc' = [pc EXCEPT ![w] = next], code' = [code EXCEPT ![w] = c],
             pending' = [pending EXCEPT ![w] = events],
             next \in {"idle", "check", "insert", "stuck"} => events = <<>>,
             next \in {"check", "insert", "commit"} => c \in Code,
             next = "commit" => /\ events = <<c>> /\ c \notin saved
                                /\ \A u \in Writer \ {w} : ~(pc[u] = "commit" /\ code[u] = c)
      PROVE  IInv'
  <2>1. Sessions' /\ Declarations' /\ Alarms'
    BY <1>4, SessionStep DEF IInv
  <2>2. /\ pc' \in [Writer -> {"idle", "check", "insert", "commit", "announce", "stuck"}]
        /\ code' \in [Writer -> Nat] /\ pending' \in [Writer -> Seq(Nat)]
        /\ saved' = saved /\ saved \subseteq Code
    BY <1>4 DEF IInv, Shape
  <2> QED
    BY <1>4, <2>1, <2>2, SessionInv
<1>5. ASSUME NEW n \in CustomCodes \cup {NextCode}, Declare(w, n) PROVE IInv'
  <2>1. NextCode \in Nat \ {0}
    <3>1. IsFiniteSet(Code)
      BY FS_Interval DEF Code, AlertsAssumption
    <3>2. IsFiniteSet(saved)
      BY <3>1, FS_Subset DEF IInv, Shape
    <3>3. Cardinality(saved) \in Nat
      BY <3>2, FS_CardinalityType
    <3> QED
      BY <3>3 DEF NextCode
  <2>2. n \in Code /\ n \in Nat
    BY <1>5, <2>1 DEF Declare, Code, AlertsAssumption
  <2>3. /\ pc[w] = "idle" /\ pending[w] = <<>>
        /\ pc' = [pc EXCEPT ![w] = "check"] /\ code' = [code EXCEPT ![w] = n]
        /\ pending' = pending /\ UNCHANGED <<rest, saved, log, unheard, alarms>>
    BY <1>2, <1>5 DEF Declare, Goto, rows, screens, rest, Declaring
  <2> QED
    BY <1>1, <1>4, <2>2, <2>3
<1>6. CASE CheckCode(w)
  <2>1. /\ pc[w] = "check" /\ pending[w] = <<>> /\ code[w] \in Code
        /\ pending' = pending /\ UNCHANGED <<rest, saved, log, unheard, alarms>>
    BY <1>2, <1>6 DEF CheckCode, rows, screens, rest, Declaring
  <2>2. \/ pc' = [pc EXCEPT ![w] = "idle"] /\ code' = [code EXCEPT ![w] = 0]
        \/ pc' = [pc EXCEPT ![w] = "insert"] /\ code' = code
    BY <1>6 DEF CheckCode, End, Goto
  <2> QED
    BY <1>1, <1>4, <2>1, <2>2
<1>7. CASE Insert(w)
  <2>1. /\ pc[w] = "insert" /\ pending[w] = <<>> /\ code[w] \in Code
        /\ UNCHANGED <<rest, saved, log, unheard, alarms>>
        /\ \A u \in Writer \ {w} : ~(pc[u] = "commit" /\ code[u] = code[w])
    BY <1>2, <1>7 DEF Insert, rows, screens, rest, Declaring
  <2>2. CASE code[w] \in saved
    <3>1. /\ pc' = [pc EXCEPT ![w] = AfterError(w)] /\ code' = [code EXCEPT ![w] = 0]
          /\ pending' = pending
      BY <1>7, <2>2 DEF Insert, End, Goto
    <3> QED
      BY <1>1, <1>3, <1>4, <2>1, <3>1
  <2>3. CASE code[w] \notin saved
    <3>1. /\ pc' = [pc EXCEPT ![w] = "commit"] /\ code' = code
          /\ pending' = [pending EXCEPT ![w] = Append(@, code[w])]
      BY <1>7, <2>3 DEF Insert, Goto
    <3>2. Append(pending[w], code[w]) = <<code[w]>> /\ <<code[w]>> \in Seq(Nat)
      BY <1>1, <2>1
    <3>3. pending' = [pending EXCEPT ![w] = <<code[w]>>]
      BY <3>1, <3>2
    <3> QED
      BY <1>1, <1>4, <2>1, <2>3, <3>1, <3>2, <3>3
  <2> QED
    BY <2>2, <2>3
<1>8. CASE Fail(w)
  <2>1. /\ pc[w] # "announce" /\ UNCHANGED <<rest, saved, log, unheard, alarms>>
        /\ pc' = [pc EXCEPT ![w] = AfterError(w)] /\ code' = [code EXCEPT ![w] = 0]
        /\ pending' = [pending EXCEPT ![w] = <<>>]
    BY <1>8 DEF Fail, End, Goto, rows, screens, rest
  <2> QED
    BY <1>1, <1>3, <1>4, <2>1
<1>9. CASE EndChat(w)
  <2>1. /\ pc[w] = "stuck" /\ pending[w] = <<>> /\ UNCHANGED <<rest, saved, log, unheard, alarms>>
        /\ pc' = [pc EXCEPT ![w] = "idle"] /\ code' = code /\ pending' = pending
    BY <1>2, <1>9 DEF EndChat, Goto, rows, screens, rest, Declaring
  <2> QED
    BY <1>1, <1>4, <2>1
<1> QED
  BY <1>5, <1>6, <1>7, <1>8, <1>9

LEMMA CommitInv ==
  ASSUME IInv, NEW w \in Writer, Commit(w), UNCHANGED runs
  PROVE  IInv'
<1>1. Sessions' /\ Declarations' /\ Alarms'
  BY CommitStep DEF IInv
<1>2. /\ UNCHANGED <<rest, log, unheard, alarms, code, pending>>
      /\ saved' = saved \cup {code[w]} /\ pc' = [pc EXCEPT ![w] = "announce"]
      /\ pc[w] = "commit"
  BY DEF Commit, Goto, screens, rest
<1>3. code[w] \in Code
  BY <1>2 DEF IInv, Sessions, Declaring
<1>4. /\ saved \subseteq saved' /\ saved' \subseteq Code
      /\ pc' \in [Writer -> {"idle", "check", "insert", "commit", "announce", "stuck"}]
      /\ code' \in [Writer -> Nat] /\ pending' \in [Writer -> Seq(Nat)]
  BY <1>2, <1>3 DEF IInv, Shape
<1> QED
  BY <1>1, <1>2, <1>4, SessionInv

LEMMA AnnounceInv ==
  ASSUME AlertsAssumption, IInv, NEW w \in Writer, Announce(w), UNCHANGED runs
  PROVE  IInv'
<1>1. Sessions' /\ Declarations' /\ Alarms'
  BY AnnounceStep DEF IInv
<1>2. PICK c \in Code :
        /\ Declaration(c) \in Event /\ Publish(<<Declaration(c)>>)
        /\ alarms' = alarms \o <<Len(log) + 1>>
  BY AnnouncesOne DEF IInv
<1>3. UNCHANGED <<saved, unheard, watching, shown, joined>>
  BY DEF Announce, rows
<1>4. Screens' /\ queue' \in [Screen -> Seq(Nat)]
  BY <1>2, <1>3, EventOnScreens DEF IInv
<1>5. Reports'
  BY <1>2, EventAside DEF IInv, Declaration
<1>6. log' \in Seq(Event) /\ Len(log) \in Nat
  BY <1>2, Published1 DEF IInv, Shape
<1>7. alarms' \in Seq(Nat)
  BY <1>2, <1>6, One DEF IInv, Shape
<1>8. /\ pc' \in [Writer -> {"idle", "check", "insert", "commit", "announce", "stuck"}]
      /\ code' \in [Writer -> Nat] /\ pending' \in [Writer -> Seq(Nat)]
  <2>1. pending' = [pending EXCEPT ![w] = <<>>] /\ <<>> \in Seq(Nat)
        /\ pc' = [pc EXCEPT ![w] = "idle"] /\ code' = [code EXCEPT ![w] = 0]
    BY EmptySeq DEF Announce, StillPending, End, Goto
  <2> QED
    BY <2>1 DEF IInv, Shape
<1>9. Shape'
  BY <1>3, <1>4, <1>6, <1>7, <1>8 DEF IInv, Shape
<1> QED
  BY <1>1, <1>4, <1>5, <1>9 DEF IInv

\* An event that is no declaration, published by a screen or by a run.
LEMMA EventInv ==
  ASSUME AlertsAssumption, IInv, NEW e \in Event, Publish(<<e>>), e.kind # "incident.declared",
         UNCHANGED <<saved, unheard, pc, code, pending, alarms, watching, shown, joined>>,
         runs' \in Seq(RunState), Reports'
  PROVE  IInv'
<1>1. Sessions' /\ Declarations' /\ Alarms'
  BY OtherEvent DEF IInv, declaring
<1>2. Screens' /\ queue' \in [Screen -> Seq(Nat)]
  BY EventOnScreens DEF IInv
<1>3. log' \in Seq(Event)
  BY Published1 DEF IInv, Shape
<1>4. Shape'
  BY <1>2, <1>3 DEF IInv, Shape, RunState
<1> QED
  BY <1>1, <1>2, <1>4 DEF IInv

LEMMA PublishStateInv ==
  ASSUME AlertsAssumption, IInv, NEW incident \in Shared, PublishState(incident),
         UNCHANGED runs
  PROVE  IInv'
<1>1. PICK e : e = [kind |-> "render.state", incident |-> incident]
  OBVIOUS
<1>2. /\ Publish(<<e>>)
      /\ UNCHANGED <<saved, unheard, pc, code, pending, alarms, watching, shown, joined>>
  BY <1>1 DEF PublishState, rows, sessions
<1>3. incident \in Code \cup {All}
  BY DEF AlertsAssumption, Code, All
<1>4. /\ e \in Event /\ e.kind # "incident.declared"
      /\ e.kind \notin {"prediction.frame", "spread.complete"}
  BY <1>1, <1>3 DEF Event, Subject, Kind
<1>5. Reports'
  BY <1>2, <1>4, EventAside DEF IInv
<1>6. runs' \in Seq(RunState)
  BY RunShape DEF IInv
<1> QED
  BY <1>2, <1>4, <1>5, <1>6, EventInv

\* A step of a screen.
LEMMA ScreenInv ==
  ASSUME IInv, UNCHANGED <<saved, unheard, pc, code, pending, log, alarms, runs>>,
         watching' \in [Screen -> Code \cup {All, Off}],
         queue' \in [Screen -> Seq(Nat)], shown' \in [Screen -> Seq(Nat)],
         joined' \in [Screen -> Nat], Screens'
  PROVE  IInv'
<1>1. Shape'
  BY DEF IInv, Shape
<1>2. Sessions' /\ Declarations' /\ Alarms'
  BY DeclarationsAside DEF IInv
<1>3. Reports'
  BY ReportsAside DEF IInv
<1> QED
  BY <1>1, <1>2, <1>3 DEF IInv

LEMMA ConnectionInv ==
  ASSUME AlertsAssumption, IInv, NEW x \in Screen, UNCHANGED runs,
         \/ \E incident \in Shared \cup {All} : Subscribe(x, incident)
         \/ Take(x) \/ Disconnect(x)
  PROVE  IInv'
<1>1. ASSUME NEW incident \in Shared \cup {All}, Subscribe(x, incident) PROVE IInv'
  <2>1. Screens'
    BY <1>1, SubscribeStep DEF IInv
  <2>2. incident \in Code \cup {All, Off} /\ <<>> \in Seq(Nat) /\ Len(log) \in Nat
    BY EmptySeq, Sequence DEF AlertsAssumption, Code, All, IInv, Shape
  <2>3. /\ UNCHANGED <<saved, unheard, pc, code, pending, log, alarms>>
        /\ watching' = [watching EXCEPT ![x] = incident]
        /\ queue' = [queue EXCEPT ![x] = <<>>] /\ shown' = [shown EXCEPT ![x] = <<>>]
        /\ joined' = [joined EXCEPT ![x] = Len(log)]
    BY <1>1 DEF Subscribe, rows, sessions
  <2>4. /\ watching' \in [Screen -> Code \cup {All, Off}]
        /\ queue' \in [Screen -> Seq(Nat)] /\ shown' \in [Screen -> Seq(Nat)]
        /\ joined' \in [Screen -> Nat]
    BY <2>2, <2>3 DEF IInv, Shape
  <2> QED
    BY <2>1, <2>3, <2>4, ScreenInv
<1>2. CASE Take(x)
  <2>1. Screens' /\ queue' \in [Screen -> Seq(Nat)] /\ shown' \in [Screen -> Seq(Nat)]
    BY <1>2, TakeStep DEF IInv
  <2>2. UNCHANGED <<saved, unheard, pc, code, pending, log, alarms, watching, joined>>
    BY <1>2 DEF Take, rows, sessions
  <2>3. watching' \in [Screen -> Code \cup {All, Off}] /\ joined' \in [Screen -> Nat]
    BY <2>2 DEF IInv, Shape
  <2> QED
    BY <2>1, <2>2, <2>3, ScreenInv
<1>3. CASE Disconnect(x)
  <2>1. /\ UNCHANGED <<saved, unheard, pc, code, pending, log, alarms, shown, joined>>
        /\ watching' = [watching EXCEPT ![x] = Off] /\ queue' = [queue EXCEPT ![x] = <<>>]
    BY <1>3 DEF Disconnect, rows, sessions
  <2>2. /\ watching' \in [Screen -> Code \cup {All, Off}] /\ queue' \in [Screen -> Seq(Nat)]
        /\ shown' \in [Screen -> Seq(Nat)] /\ joined' \in [Screen -> Nat]
        /\ watching'[x] = Off
        /\ \A y \in Screen \ {x} : /\ watching'[y] = watching[y] /\ queue'[y] = queue[y]
                                    /\ shown'[y] = shown[y] /\ joined'[y] = joined[y]
    BY <2>1, EmptySeq DEF IInv, Shape
  <2>3. Screens'
    BY <2>1, <2>2, OneScreen DEF IInv
  <2> QED
    BY <2>1, <2>2, <2>3, ScreenInv
<1> QED
  BY <1>1, <1>2, <1>3

\* A step of a run that publishes nothing.
LEMMA QuietInv ==
  ASSUME IInv, UNCHANGED vars, Reports', runs' \in Seq(RunState)
  PROVE  IInv'
<1>1. /\ UNCHANGED <<saved, pc, code, pending, log, alarms, unheard>>
      /\ UNCHANGED <<watching, queue, shown, joined>>
  BY DEF vars
<1>2. Shape'
  BY <1>1 DEF IInv, Shape, RunState
<1>3. Sessions' /\ Declarations' /\ Alarms'
  BY <1>1, DeclarationsAside DEF IInv
<1>4. Screens'
  BY <1>1, ScreensAside DEF IInv
<1> QED
  BY <1>2, <1>3, <1>4 DEF IInv

\* A step of a run.
LEMMA TurnInv ==
  ASSUME AlertsAssumption, IInv, NEW r \in Run, Turn(r)
  PROVE  IInv'
<1>1. runs[r] \in RunState
  BY RunShape DEF IInv
<1>2. ASSUME Reports' /\ runs' \in Seq(RunState), UNCHANGED besideLog,
             \E e \in Event : Publish(<<e>>) /\ e.kind # "incident.declared"
      PROVE  IInv'
  <2>1. UNCHANGED <<saved, unheard, pc, code, pending, alarms, watching, shown, joined>>
    BY <1>2 DEF besideLog, rows, sessions
  <2> QED
    BY <1>2, <2>1, EventInv
<1>3. ASSUME Reports' /\ runs' \in Seq(RunState), UNCHANGED vars
      PROVE  IInv'
  BY <1>3, QuietInv
<1>4. CASE SendFrame(r)
  <2>1. UNCHANGED besideLog
    BY <1>4 DEF SendFrame
  <2> QED
    BY <1>2, <1>4, <2>1, SendFrameStep DEF IInv
<1>5. CASE Complete(r)
  <2>1. UNCHANGED besideLog
    BY <1>5 DEF Complete
  <2> QED
    BY <1>2, <1>5, <2>1, CompleteStep DEF IInv
<1>6. CASE NoFrame(r) \/ UpstreamFails(r)
  <2>1. Asked(r, runs[r]) /\ UNCHANGED vars /\ UNCHANGED log
    BY <1>6 DEF NoFrame, UpstreamFails, vars
  <2> QED
    BY <1>1, <1>3, <2>1, QuietTurn DEF IInv
<1>7. CASE FlushFails(r)
  <2>1. PICK next : next = [runs[r] EXCEPT !.flushes = FALSE]
    OBVIOUS
  <2>2. Asked(r, next) /\ UNCHANGED vars /\ UNCHANGED log
    BY <1>7, <2>1 DEF FlushFails, vars
  <2>3. /\ next \in RunState /\ next.sent = runs[r].sent /\ next.over = runs[r].over
        /\ next.left = runs[r].left
    BY <1>1, <2>1 DEF RunState
  <2> QED
    BY <1>3, <2>2, <2>3, QuietTurn DEF IInv
<1> QED
  BY <1>4, <1>5, <1>6, <1>7 DEF Turn

LEMMA StartInv ==
  ASSUME AlertsAssumption, SpreadAssumption, IInv, NEW incident \in Shared, StartSpread(incident)
  PROVE  IInv'
<1>1. incident \in Code \cup {All}
  BY DEF AlertsAssumption, Code, All
<1>2. Reports' /\ runs' \in Seq(RunState)
  BY <1>1, StartStep DEF IInv
<1>3. UNCHANGED vars
  BY DEF StartSpread
<1> QED
  BY <1>2, <1>3, QuietInv

\* In the state a start of the process finds, everything but the rows is empty.
Empty ==
  /\ saved \subseteq Code /\ unheard = saved
  /\ pc = [w \in Writer |-> "idle"]
  /\ code = [w \in Writer |-> 0]
  /\ pending = [w \in Writer |-> <<>>]
  /\ log = <<>> /\ alarms = <<>>
  /\ watching = [x \in Screen |-> Off]
  /\ queue = [x \in Screen |-> <<>>] /\ shown = [x \in Screen |-> <<>>]
  /\ joined = [x \in Screen |-> 0]
  /\ runs = <<>>

LEMMA EmptyInv == Empty => IInv
<1> SUFFICES ASSUME Empty PROVE IInv
  OBVIOUS
<1>1. /\ \A S : <<>> \in Seq(S)
      /\ DOMAIN <<>> = {} /\ Off \in Code \cup {All, Off}
  BY EmptySeq
<1>2. Shape
  BY <1>1 DEF Empty, Shape
<1>3. Sessions
  BY DEF Empty, Sessions, Declaring, Carries
<1>4. Declarations
  BY <1>1 DEF Empty, Declarations, Out
<1>5. Alarms
  BY <1>1 DEF Empty, Alarms
<1>6. Screens
  BY DEF Empty, Screens, Subscribed
<1>7. Reports
  BY <1>1 DEF Empty, Reports, Run
<1> QED
  BY <1>2, <1>3, <1>4, <1>5, <1>6, <1>7 DEF IInv

LEMMA InitInv == SpreadInit => IInv
BY EmptyInv DEF SpreadInit, Init, Empty

LEMMA StutterInv ==
  ASSUME AlertsAssumption, IInv, UNCHANGED allVars
  PROVE  IInv'
<1>1. UNCHANGED vars /\ runs' = runs /\ UNCHANGED <<log, runs>>
  BY DEF allVars, vars
<1>2. Reports' /\ runs' \in Seq(RunState)
  BY <1>1, ReportsAside, RunShape DEF IInv
<1> QED
  BY <1>1, <1>2, QuietInv

LEMMA NextInv ==
  ASSUME AlertsAssumption, SpreadAssumption, IInv, [SpreadNext]_allVars
  PROVE  IInv'
<1>1. CASE Step /\ UNCHANGED runs
  <2>1. ASSUME NEW w \in Writer,
               \/ Declare(w, NextCode)
               \/ \E n \in CustomCodes : w \notin Chat /\ Declare(w, n)
               \/ CheckCode(w) \/ Insert(w) \/ Fail(w) \/ EndChat(w)
        PROVE  IInv'
    <3>1. \/ \E n \in CustomCodes \cup {NextCode} : Declare(w, n)
          \/ CheckCode(w) \/ Insert(w) \/ Fail(w) \/ EndChat(w)
      BY <2>1
    <3> QED
      BY <1>1, <3>1, StatementInv
  <2>2. ASSUME NEW w \in Writer, Commit(w) PROVE IInv'
    BY <1>1, <2>2, CommitInv
  <2>3. ASSUME NEW w \in Writer, Announce(w) PROVE IInv'
    BY <1>1, <2>3, AnnounceInv
  <2>4. ASSUME NEW incident \in Shared, PublishState(incident) PROVE IInv'
    BY <1>1, <2>4, PublishStateInv
  <2>5. ASSUME NEW x \in Screen,
               \/ \E incident \in Shared \cup {All} : Subscribe(x, incident)
               \/ Take(x) \/ Disconnect(x)
        PROVE  IInv'
    BY <1>1, <2>5, ConnectionInv
  <2> QED
    BY <1>1, <2>1, <2>2, <2>3, <2>4, <2>5 DEF Step
<1>2. ASSUME NEW incident \in Shared, StartSpread(incident) PROVE IInv'
  BY <1>2, StartInv
<1>3. ASSUME NEW r \in Run, Turn(r) PROVE IInv'
  BY <1>3, TurnInv
<1>4. CASE SpreadRestart
  <2>1. saved \subseteq Code
    BY DEF IInv, Shape
  <2>2. Empty'
    BY <1>4, <2>1 DEF SpreadRestart, Restart, Empty
  <2> QED
    BY <2>2, EmptyInv, PTL
<1>5. CASE UNCHANGED allVars
  BY <1>5, StutterInv
<1> QED
  BY <1>1, <1>2, <1>3, <1>4, <1>5 DEF SpreadNext

(* The state of sessions, screens and runs, and what is published and       *)
(* about to be, is as the proofs below rely on, in every reachable state.   *)
THEOREM Invariant == SpreadSpec => []IInv
<1>1. SpreadInit => IInv
  BY InitInv
<1>2. IInv /\ [SpreadNext]_allVars => IInv'
  BY NextInv, AlertsAssumption, SpreadAssumption
<1> QED
  BY <1>1, <1>2, PTL DEF SpreadSpec

----------------------------------------------------------------------------
(* What the pipeline is for.                                                *)

LEMMA Announced ==
  ASSUME IInv, NEW c \in saved \ unheard
  PROVE  Cardinality(Declared(c)) + Cardinality({w \in Writer : c \in Range(pending[w])}) = 1
<1>1. PICK published : published = Declared(c)
  OBVIOUS
<1>2. PICK carriers : carriers = {w \in Writer : c \in Range(pending[w])}
  OBVIOUS
<1>3. published = {p \in DOMAIN log : log[p] = Declaration(c)}
  BY <1>1 DEF Declared, Declaration
<1>4. c \in Code /\ c \in saved
  BY DEF IInv, Shape
<1>5. ASSUME NEW w \in Writer
      PROVE  w \in carriers <=> pc[w] = "announce" /\ code[w] = c
  <2>1. Declaring(w) /\ pc[w] \in {"idle", "check", "insert", "commit", "announce", "stuck"}
    BY DEF IInv, Sessions, Shape
  <2>2. CASE pc[w] \in {"idle", "check", "insert", "stuck"}
    <3>1. pending[w] = <<>>
      BY <2>1, <2>2 DEF Declaring
    <3>2. c \notin Range(pending[w])
      BY <3>1, EmptySeq DEF Range
    <3> QED
      BY <1>2, <2>2, <3>2
  <2>3. CASE pc[w] \in {"commit", "announce"}
    <3>1. pending[w] = <<code[w]>>
      BY <2>1, <2>3 DEF Declaring
    <3>2. DOMAIN pending[w] = {1} /\ pending[w][1] = code[w]
      BY <3>1
    <3>3. c \in Range(pending[w]) <=> code[w] = c
      BY <3>2 DEF Range
    <3>4. pc[w] = "commit" => code[w] # c
      BY <1>4, <2>1 DEF Declaring
    <3> QED
      BY <1>2, <2>3, <3>3, <3>4
  <2> QED
    BY <2>1, <2>2, <2>3
<1>6. CASE Out(c)
  <2>1. PICK p \in DOMAIN log : log[p] = Declaration(c)
    BY <1>6 DEF Out
  <2>2. published = {p}
    BY <1>3, <1>4, <2>1 DEF IInv, Declarations
  <2>3. carriers = {}
    BY <1>2, <1>5, <1>6 DEF IInv, Sessions, Declaring
  <2>4. Cardinality(published) = 1 /\ Cardinality(carriers) = 0
    BY <2>2, <2>3, FS_EmptySet, FS_Singleton
  <2> QED
    BY <1>1, <1>2, <2>4
<1>7. CASE ~Out(c)
  <2>1. PICK w \in Writer : pc[w] = "announce" /\ code[w] = c
    BY <1>4, <1>7 DEF IInv, Declarations
  <2>2. ASSUME NEW u \in carriers PROVE u = w
    <3>1. u \in Writer /\ Carries(u, c) /\ Carries(w, c)
      BY <1>2, <1>5, <2>1, <2>2 DEF Carries
    <3> QED
      BY <1>4, <3>1 DEF IInv, Sessions
  <2>3. carriers = {w}
    BY <1>5, <2>1, <2>2
  <2>4. published = {}
    BY <1>3, <1>7 DEF Out
  <2>5. Cardinality(published) = 0 /\ Cardinality(carriers) = 1
    BY <2>3, <2>4, FS_EmptySet, FS_Singleton
  <2> QED
    BY <1>1, <1>2, <2>5
<1> QED
  BY <1>6, <1>7

\* What was shown, then what waits.
LEMMA FeedShape ==
  ASSUME IInv, NEW x \in Screen
  PROVE  /\ Len(shown[x]) \in Nat /\ DOMAIN shown[x] = 1..Len(shown[x])
         /\ Len(queue[x]) \in Nat /\ DOMAIN queue[x] = 1..Len(queue[x])
         /\ DOMAIN Feed(x) = 1..(Len(shown[x]) + Len(queue[x]))
         /\ \A i \in 1..Len(shown[x]) : Feed(x)[i] = shown[x][i]
         /\ \A i \in 1..Len(queue[x]) : Feed(x)[Len(shown[x]) + i] = queue[x][i]
         /\ \A i \in 1..(Len(shown[x]) + Len(queue[x])) :
              i \in 1..Len(shown[x]) \/ i - Len(shown[x]) \in 1..Len(queue[x])
         /\ \A i \in 1..Len(shown[x]) : shown[x][i] \in Nat
         /\ Seen(x) \in Int /\ Seen(x) + Len(queue[x]) = Len(log) /\ joined[x] \in Nat
         /\ Len(log) \in Nat
<1>1. PICK s : s = shown[x]
  OBVIOUS
<1>2. PICK q : q = queue[x]
  OBVIOUS
<1>3. PICK feed : feed = Feed(x)
  OBVIOUS
<1>4. PICK a : a = Len(s)
  OBVIOUS
<1>5. PICK b : b = Len(q)
  OBVIOUS
<1>6. s \in Seq(Nat) /\ q \in Seq(Nat) /\ joined[x] \in Nat /\ log \in Seq(Event)
  BY <1>1, <1>2 DEF IInv, Shape
<1>7. /\ a \in Nat /\ DOMAIN s = 1..a /\ b \in Nat /\ DOMAIN q = 1..b
      /\ \A i \in 1..a : s[i] \in Nat
  BY <1>4, <1>5, <1>6, Sequence
<1>8. feed = s \o q
  BY <1>1, <1>2, <1>3 DEF Feed
<1>9. /\ feed \in Seq(Nat) /\ Len(feed) = a + b
      /\ \A i \in 1..(a + b) : feed[i] = IF i <= a THEN s[i] ELSE q[i - a]
  BY <1>4, <1>5, <1>6, <1>8, ConcatProperties
<1>10. DOMAIN feed = 1..(a + b)
  BY <1>9, Sequence
<1>11. \A i \in 1..a : feed[i] = s[i]
  BY <1>7, <1>9
<1>12. ASSUME NEW i \in 1..b PROVE feed[a + i] = q[i]
  <2>1. a + i \in 1..(a + b) /\ ~(a + i <= a) /\ (a + i) - a = i
    BY <1>7
  <2>2. feed[a + i] = q[(a + i) - a]
    BY <1>9, <2>1
  <2> QED
    BY <2>1, <2>2
<1>13. \A i \in 1..(a + b) : i \in 1..a \/ i - a \in 1..b
  BY <1>7
<1>14. Len(log) \in Nat
  BY <1>6, Sequence
<1>15. Seen(x) \in Int /\ Seen(x) + b = Len(log)
  <2>1. Seen(x) = Len(log) - b
    BY <1>2, <1>5 DEF Seen
  <2> QED
    BY <1>7, <1>14, <2>1
<1> QED
  BY <1>1, <1>2, <1>3, <1>4, <1>5, <1>6, <1>7, <1>10, <1>11, <1>12, <1>13, <1>14, <1>15

LEMMA FeedInOrder ==
  ASSUME IInv, NEW x \in Subscribed
  PROVE  /\ \A i, j \in DOMAIN Feed(x) : i < j => Feed(x)[i] < Feed(x)[j]
         /\ \A p \in Range(Feed(x)) : joined[x] < p
<1>1. PICK feed : feed = Feed(x)
  OBVIOUS
<1>2. PICK a : a = Len(shown[x])
  OBVIOUS
<1>3. PICK b : b = Len(queue[x])
  OBVIOUS
<1>4. PICK seen : seen = Seen(x)
  OBVIOUS
<1>5. /\ a \in Nat /\ b \in Nat /\ DOMAIN feed = 1..(a + b) /\ DOMAIN shown[x] = 1..a
      /\ DOMAIN queue[x] = 1..b /\ \A i \in 1..a : feed[i] = shown[x][i]
      /\ \A i \in 1..b : feed[a + i] = queue[x][i]
      /\ \A i \in 1..a : shown[x][i] \in Nat
      /\ seen \in Int /\ joined[x] \in Nat
  BY <1>1, <1>2, <1>3, <1>4, FeedShape DEF Subscribed
<1>6. /\ joined[x] <= seen
      /\ \A i \in 1..b : queue[x][i] = seen + i
      /\ \A i \in 1..a : joined[x] < shown[x][i] /\ shown[x][i] <= seen
      /\ \A i, j \in 1..a : i < j => shown[x][i] < shown[x][j]
  BY <1>4, <1>5 DEF IInv, Screens, Following
<1>7. /\ \A i \in 1..a : feed[i] \in Nat /\ joined[x] < feed[i] /\ feed[i] <= seen
      /\ \A i, j \in 1..a : i < j => feed[i] < feed[j]
  BY <1>5, <1>6
<1>8. ASSUME NEW i \in 1..(a + b), i \notin 1..a
      PROVE  i > a /\ feed[i] = seen + (i - a)
  <2>1. i - a \in 1..b /\ a + (i - a) = i /\ i > a
    BY <1>5, <1>8
  <2>2. feed[a + (i - a)] = queue[x][i - a] /\ queue[x][i - a] = seen + (i - a)
    BY <1>5, <1>6, <2>1
  <2> QED
    BY <2>1, <2>2
<1>9. ASSUME NEW i \in 1..(a + b), NEW j \in 1..(a + b), i < j
      PROVE  feed[i] < feed[j]
  <2>1. CASE i \in 1..a /\ j \in 1..a
    BY <1>7, <1>9, <2>1
  <2>2. CASE i \in 1..a /\ j \notin 1..a
    <3>1. feed[i] \in Nat /\ feed[i] <= seen /\ feed[j] = seen + (j - a) /\ j > a
      BY <1>7, <1>8, <2>2
    <3> QED
      BY <1>5, <3>1
  <2>3. CASE i \notin 1..a
    <3>1. j \notin 1..a
      BY <1>5, <1>9, <2>3
    <3>2. feed[i] = seen + (i - a) /\ feed[j] = seen + (j - a)
      BY <1>8, <2>3, <3>1
    <3> QED
      BY <1>5, <1>9, <3>2
  <2> QED
    BY <2>1, <2>2, <2>3
<1>10. ASSUME NEW i \in 1..(a + b) PROVE joined[x] < feed[i]
  <2>1. CASE i \in 1..a
    BY <1>7, <2>1
  <2>2. CASE i \notin 1..a
    <3>1. feed[i] = seen + (i - a) /\ i > a
      BY <1>8, <2>2
    <3> QED
      BY <1>5, <1>6, <3>1
  <2> QED
    BY <2>1, <2>2
<1>11. \A p \in Range(feed) : joined[x] < p
  BY <1>5, <1>10 DEF Range
<1> QED
  BY <1>1, <1>5, <1>9, <1>11

LEMMA Lost ==
  ASSUME IInv, NEW x \in Subscribed, NEW p \in (joined[x] + 1)..Len(log)
  PROVE  ~Concerns(x, p) \/ p \in Range(Feed(x)) \/ Len(log) - p >= QueueSize
<1>1. PICK feed : feed = Feed(x)
  OBVIOUS
<1>2. PICK a : a = Len(shown[x])
  OBVIOUS
<1>3. PICK b : b = Len(queue[x])
  OBVIOUS
<1>4. PICK seen : seen = Seen(x)
  OBVIOUS
<1>5. /\ a \in Nat /\ b \in Nat /\ DOMAIN feed = 1..(a + b) /\ DOMAIN shown[x] = 1..a
      /\ DOMAIN queue[x] = 1..b /\ \A i \in 1..a : feed[i] = shown[x][i]
      /\ \A i \in 1..b : feed[a + i] = queue[x][i]
      /\ seen \in Int /\ joined[x] \in Nat /\ seen + b = Len(log) /\ Len(log) \in Nat
  BY <1>1, <1>2, <1>3, <1>4, FeedShape DEF Subscribed
<1>6. Following(x)
  BY DEF IInv, Screens
<1>7. CASE p <= seen
  <2>1. p \in (joined[x] + 1)..seen
    BY <1>5, <1>7
  <2>2. \/ ~Concerns(x, p) \/ Len(log) - p >= QueueSize
        \/ \E i \in 1..a : shown[x][i] = p
    BY <1>4, <1>5, <1>6, <2>1 DEF Following
  <2>3. ASSUME NEW i \in 1..a, shown[x][i] = p PROVE p \in Range(feed)
    <3>1. i \in DOMAIN feed /\ feed[i] = p
      BY <1>5, <2>3
    <3> QED
      BY <3>1 DEF Range
  <2> QED
    BY <1>1, <2>2, <2>3
<1>8. CASE p > seen
  <2>1. p - seen \in 1..b /\ a + (p - seen) \in 1..(a + b) /\ seen + (p - seen) = p
    BY <1>5, <1>8
  <2>2. feed[a + (p - seen)] = queue[x][p - seen]
    BY <1>5, <2>1
  <2>3. queue[x][p - seen] = seen + (p - seen)
    BY <1>4, <1>5, <1>6, <2>1 DEF Following
  <2>4. p \in Range(feed)
    BY <1>5, <2>1, <2>2, <2>3 DEF Range
  <2> QED
    BY <1>1, <2>4
<1> QED
  BY <1>5, <1>7, <1>8

----------------------------------------------------------------------------

(* events.py: whatever sessions, failures and restarts interleave, an       *)
(* incident that was rolled back never reaches a screen.                    *)
THEOREM OnlySaved == SpreadSpec => []NothingUnsaved
<1>1. IInv => NothingUnsaved
  BY DEF IInv, Declarations, NothingUnsaved, Out, Declared, Declaration
<1> QED
  BY <1>1, Invariant, PTL

(* events.py: nor is one saved and nobody told, for any number of sessions  *)
(* and of declarations in each.                                             *)
THEOREM EveryOneOnce == SpreadSpec => []SavedIsAnnounced
<1>1. IInv => SavedIsAnnounced
  BY Announced DEF SavedIsAnnounced
<1> QED
  BY <1>1, Invariant, PTL

(* push.register: a broadcast for each published declaration, in order, and *)
(* none else.                                                               *)
THEOREM OnePush == SpreadSpec => []OnePushPerAlarm
<1>1. IInv => OnePushPerAlarm
  <2> SUFFICES ASSUME IInv PROVE OnePushPerAlarm
    OBVIOUS
  <2>1. \A c : Declared(c) = {p \in DOMAIN log : log[p] = Declaration(c)}
    BY DEF Declared, Declaration
  <2>2. \A n : n \in Range(alarms) <=> \E i \in DOMAIN alarms : alarms[i] = n
    BY DEF Range
  <2>3. \A n : n \in Range(alarms) <=> \E c \in Code : n \in Declared(c)
    BY <2>1, <2>2 DEF IInv, Alarms
  <2>4. Range(alarms) = UNION {Declared(c) : c \in Code}
    BY <2>3
  <2> QED
    BY <2>4 DEF OnePushPerAlarm, IInv, Alarms
<1> QED
  BY <1>1, Invariant, PTL

(* EventBroker.stream: any screen is sent events of its incident, in order, *)
(* none twice and none from before it came, for any queue size.             *)
THEOREM InOrder == SpreadSpec => []ShownInOrder
<1>1. IInv => ShownInOrder
  <2> SUFFICES ASSUME IInv, NEW x \in Subscribed
               PROVE  /\ \A i, j \in DOMAIN Feed(x) : i < j => Feed(x)[i] < Feed(x)[j]
                      /\ \A p \in Range(Feed(x)) : joined[x] < p
                      /\ \A p \in Range(shown[x]) :
                           watching[x] = All \/ log[p].incident \in {All, watching[x]}
    BY DEF ShownInOrder
  <2>1. \A p \in Range(shown[x]) :
          watching[x] = All \/ log[p].incident \in {All, watching[x]}
    BY DEF IInv, Screens, Following, Concerns, Range
  <2> QED
    BY <2>1, FeedInOrder
<1> QED
  BY <1>1, Invariant, PTL

(* EventBroker.publish: what a subscriber loses is old, for any QUEUE_SIZE. *)
THEOREM OnlyOldIsLost == SpreadSpec => []LostOnlyWhenOld
<1>1. IInv => LostOnlyWhenOld
  BY Lost DEF LostOnlyWhenOld
<1> QED
  BY <1>1, Invariant, PTL

(* run_spread: the completion of a run tells the truth, for any number of   *)
(* horizons and of runs at a time.                                          *)
THEOREM TrueCompletion == SpreadSpec => []CompletionIsTrue
<1>1. IInv => CompletionIsTrue
  <2> SUFFICES ASSUME IInv, NEW r \in Run
               PROVE  /\ Cardinality(Completion(r)) = IF runs[r].over THEN 1 ELSE 0
                      /\ \A p \in Completion(r) :
                           /\ log[p].incident = runs[r].incident
                           /\ log[p].frames = Cardinality(Frames(r))
                           /\ \A f \in Frames(r) : f < p
    BY DEF CompletionIsTrue
  <2>1. Reporting(r)
    BY DEF IInv, Reports
  <2>2. CASE runs[r].over
    BY <2>1, <2>2, FS_Singleton DEF Reporting
  <2>3. CASE ~runs[r].over
    BY <2>1, <2>3, FS_EmptySet DEF Reporting
  <2> QED
    BY <2>2, <2>3
<1> QED
  BY <1>1, Invariant, PTL

=============================================================================
