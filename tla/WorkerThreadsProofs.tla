------------------------- MODULE WorkerThreadsProofs -------------------------
(***************************************************************************)
(* Proofs about WorkerThreads: the road graphs and the broadcasts, for any  *)
(* number of requests, modes, maps, devices and broadcasts.                 *)
(***************************************************************************)
EXTENDS WorkerThreads, FiniteSetTheorems, SequenceTheorems, TLAPS

----------------------------------------------------------------------------
(* The inductive invariant.                                                 *)

Maps ==
  /\ source \in Contents /\ source \in seen
  /\ files \in [Contents -> [Mode -> Graph]]
  /\ memory \in [Mode -> Graph]

Devices ==
  /\ subscribed \in [Endpoint -> Region \cup {Anywhere, Off}]
  /\ cast \in [Broadcast -> [pc : {"idle", "reading", "sending"},
                             region : Region \cup {Anywhere},
                             rows : SUBSET Endpoint, dead : SUBSET Endpoint]]

\* What a broadcast is about to prune has been given up by the push service.
DeadAreGone == \A b \in Broadcast : cast[b].dead \subseteq gone

Calls == {Call(q) : q \in Request} \cup {Send(b, e) : b \in Broadcast, e \in Endpoint}

\* No call waits twice.
Queue ==
  /\ calls \in Seq(Calls)
  /\ \A i, j \in DOMAIN calls : calls[i] = calls[j] => i = j

\* A request stands in one line, and once.
Lines ==
  /\ line \in [Mode -> Seq(Request)]
  /\ stage \in [Request -> {"none", "look", "build"}]
  /\ \A m, n \in Mode : \A i \in DOMAIN line[m], j \in DOMAIN line[n] :
       line[m][i] = line[n][j] => m = n /\ i = j

\* Who has a call among the threads has the lock of a mode.
Holders ==
  \A q \in Request :
    /\ Call(q) \in Pending <=> stage[q] # "none"
    /\ stage[q] # "none" => \E m \in Mode : line[m] # <<>> /\ Head(line[m]) = q

\* A device of the broadcast has been sent to or has a call, the others neither.
SentOnce ==
  /\ tries \in [Broadcast -> [Endpoint -> Nat]]
  /\ \A b \in Broadcast, e \in Endpoint :
       IF cast[b].pc = "sending" /\ e \in cast[b].rows
       THEN tries[b][e] \in {0, 1} /\ (tries[b][e] = 0 <=> Send(b, e) \in Pending)
       ELSE tries[b][e] = 0 /\ Send(b, e) \notin Pending

IInv ==
  /\ Maps
  /\ MapsAreOfTheirSource
  /\ Devices
  /\ DeadAreGone
  /\ Queue
  /\ Lines
  /\ Holders
  /\ SentOnce

LEMMA InitInv ==
  ASSUME Init
  PROVE  IInv
<1>1. Maps /\ MapsAreOfTheirSource
  BY DEF Init, GraphInit, Maps, MapsAreOfTheirSource, Graph
<1>2. Devices /\ DeadAreGone
  BY DEF Init, PushInit, Idle, Devices, DeadAreGone
<1>3. calls = <<>> /\ DOMAIN calls = {} /\ Pending = {}
  BY DEF Init, PoolInit, Pending
<1>4. Queue /\ Holders
  BY <1>3 DEF Queue, Holders, Init, GraphInit
<1>5. Lines
  <2>1. \A m \in Mode : line[m] = <<>> /\ DOMAIN line[m] = {}
    BY DEF Init, GraphInit
  <2> QED
    BY <2>1 DEF Lines, Init, GraphInit
<1>6. SentOnce
  BY <1>3 DEF SentOnce, Init, PushInit, Idle, Never
<1> QED
  BY <1>1, <1>2, <1>4, <1>5, <1>6 DEF IInv

----------------------------------------------------------------------------
(* The pool.                                                                *)

LEMMA Rows ==
  ASSUME NEW S, NEW q \in Seq(S)
  PROVE  Len(q) \in Nat /\ DOMAIN q = 1..Len(q) /\ q = <<>> <=> Len(q) = 0
         /\ \A i \in 1..Len(q) : q[i] \in S
BY LenProperties, EmptySeq, ElementOfSeq

LEMMA Removed ==
  ASSUME NEW S, NEW q \in Seq(S), NEW i \in 1..Len(q)
  PROVE  /\ RemoveAt(q, i) \in Seq(S)
         /\ Len(RemoveAt(q, i)) = Len(q) - 1
         /\ \A j \in 1..(Len(q) - 1) :
              RemoveAt(q, i)[j] = IF j < i THEN q[j] ELSE q[j + 1]
<1> DEFINE front == SubSeq(q, 1, i - 1)
           rest == SubSeq(q, i + 1, Len(q))
<1>1. Len(q) \in Nat /\ \A j \in 1..Len(q) : q[j] \in S
  BY Rows
<1>2. /\ front \in Seq(S) /\ Len(front) = i - 1
      /\ \A j \in 1..(i - 1) : front[j] = q[j]
  <2>1. \A j \in 1..(i - 1) : q[j] \in S
    BY <1>1
  <2>2. 1 \in Int /\ i - 1 \in Int
    BY <1>1
  <2>3. /\ front \in Seq(S)
        /\ Len(front) = IF 1 <= i - 1 THEN i - 1 - 1 + 1 ELSE 0
        /\ \A j \in 1..(i - 1 - 1 + 1) : front[j] = q[1 + j - 1]
    BY <2>1, <2>2, SubSeqProperties
  <2> QED
    BY <1>1, <2>3
<1>3. /\ rest \in Seq(S) /\ Len(rest) = Len(q) - i
      /\ \A j \in 1..(Len(q) - i) : rest[j] = q[i + j]
  <2>1. \A j \in (i + 1)..Len(q) : q[j] \in S
    BY <1>1
  <2>2. i + 1 \in Int /\ Len(q) \in Int
    BY <1>1
  <2>3. /\ rest \in Seq(S)
        /\ Len(rest) = IF i + 1 <= Len(q) THEN Len(q) - (i + 1) + 1 ELSE 0
        /\ \A j \in 1..(Len(q) - (i + 1) + 1) : rest[j] = q[(i + 1) + j - 1]
    BY <2>1, <2>2, SubSeqProperties
  <2> QED
    BY <1>1, <2>3
<1>4. /\ front \o rest \in Seq(S)
      /\ Len(front \o rest) = Len(front) + Len(rest)
      /\ \A j \in 1..(Len(front) + Len(rest)) :
           (front \o rest)[j] = IF j <= Len(front) THEN front[j] ELSE rest[j - Len(front)]
  BY <1>2, <1>3, ConcatProperties
<1>5. RemoveAt(q, i) = front \o rest
  BY DEF RemoveAt
<1> HIDE DEF front, rest
<1>6. ASSUME NEW j \in 1..(Len(q) - 1)
      PROVE  RemoveAt(q, i)[j] = IF j < i THEN q[j] ELSE q[j + 1]
  <2>1. CASE j < i
    BY <1>1, <1>2, <1>3, <1>4, <1>5, <2>1
  <2>2. CASE ~(j < i)
    <3>1. j - Len(front) \in 1..(Len(q) - i) /\ i + (j - Len(front)) = j + 1
      BY <1>1, <1>2, <2>2
    <3>2. (front \o rest)[j] = rest[j - Len(front)]
      <4>1. j \in 1..(Len(front) + Len(rest)) /\ ~(j <= Len(front))
        BY <1>1, <1>2, <1>3, <2>2
      <4> QED
        BY <1>4, <4>1
    <3>3. rest[j - Len(front)] = q[i + (j - Len(front))]
      BY <1>3, <3>1
    <3> QED
      BY <1>5, <2>2, <3>1, <3>2, <3>3
  <2> QED
    BY <2>1, <2>2
<1>7. RemoveAt(q, i) \in Seq(S)
  BY <1>4, <1>5
<1>8. Len(RemoveAt(q, i)) = Len(q) - 1
  <2>1. Len(RemoveAt(q, i)) = Len(front) + Len(rest)
    BY <1>4, <1>5
  <2> QED
    BY <1>1, <1>2, <1>3, <2>1
<1> QED
  BY <1>6, <1>7, <1>8

\* A call says whose it is.
LEMMA Apart ==
  /\ \A p, q : Call(p) = Call(q) => p = q
  /\ \A b, c, e, f : Send(b, e) = Send(c, f) => b = c /\ e = f
  /\ \A q, b, e : Call(q) # Send(b, e)
<1>1. \A q : Call(q).what = "graph" /\ Call(q).request = q
  BY DEF Call
<1>2. \A b, e : Send(b, e).what = "send" /\ Send(b, e).broadcast = b
                /\ Send(b, e).endpoint = e
  BY DEF Send
<1> QED
  BY <1>1, <1>2

LEMMA Submitted ==
  ASSUME Queue, NEW new \in Seq(Calls), Submit(new),
         \A i, j \in DOMAIN new : new[i] = new[j] => i = j,
         \A i \in DOMAIN new : new[i] \notin Pending
  PROVE  Queue' /\ Pending' = Pending \cup {new[i] : i \in DOMAIN new}
<1>1. /\ Len(calls) \in Nat /\ DOMAIN calls = 1..Len(calls)
      /\ Len(new) \in Nat /\ DOMAIN new = 1..Len(new)
  BY Rows DEF Queue
<1>2. /\ calls' \in Seq(Calls) /\ Len(calls') = Len(calls) + Len(new)
      /\ \A i \in 1..(Len(calls) + Len(new)) :
           calls'[i] = IF i <= Len(calls) THEN calls[i] ELSE new[i - Len(calls)]
  BY ConcatProperties DEF Queue, Submit
<1>3. DOMAIN calls' = 1..(Len(calls) + Len(new))
  BY <1>2, Rows
<1>4. \A i \in DOMAIN calls : i \in DOMAIN calls' /\ calls'[i] = calls[i]
  BY <1>1, <1>2, <1>3
<1>5. \A i \in DOMAIN new : /\ Len(calls) + i \in DOMAIN calls'
                            /\ calls'[Len(calls) + i] = new[i]
  BY <1>1, <1>2, <1>3
<1>6. \A i \in DOMAIN calls' :
        \/ i \in DOMAIN calls /\ calls'[i] = calls[i]
        \/ i - Len(calls) \in DOMAIN new /\ calls'[i] = new[i - Len(calls)]
  BY <1>1, <1>2, <1>3
<1>7. \A i \in DOMAIN calls : calls[i] \in Pending
  BY DEF Pending
<1>8. ASSUME NEW i \in DOMAIN calls', NEW j \in DOMAIN calls', calls'[i] = calls'[j]
      PROVE  i = j
  <2>1. i \in Nat /\ j \in Nat
    BY <1>1, <1>3
  <2>2. CASE i \in DOMAIN calls /\ calls'[i] = calls[i]
    BY <1>6, <1>7, <1>8, <2>2 DEF Queue
  <2>3. CASE i - Len(calls) \in DOMAIN new /\ calls'[i] = new[i - Len(calls)]
    <3>1. j - Len(calls) \in DOMAIN new /\ calls'[j] = new[j - Len(calls)]
      BY <1>6, <1>7, <1>8, <2>3
    <3>2. i - Len(calls) = j - Len(calls)
      BY <1>8, <2>3, <3>1
    <3> QED
      BY <1>1, <2>1, <3>2
  <2> QED
    BY <1>6, <2>2, <2>3
<1>9. Pending' = {calls'[i] : i \in DOMAIN calls'}
  BY DEF Pending
<1>10. Pending' = Pending \cup {new[i] : i \in DOMAIN new}
  BY <1>4, <1>5, <1>6, <1>9 DEF Pending
<1> QED
  BY <1>2, <1>8, <1>10 DEF Queue

LEMMA SubmittedOne ==
  ASSUME Queue, NEW call \in Calls, call \notin Pending, Submit(<<call>>)
  PROVE  Queue' /\ Pending' = Pending \cup {call}
<1>1. /\ <<call>> \in Seq(Calls) /\ DOMAIN <<call>> = {1} /\ <<call>>[1] = call
  OBVIOUS
<1> QED
  BY <1>1, Submitted

LEMMA Returned ==
  ASSUME Queue, NEW call, Return(call)
  PROVE  Queue' /\ call \in Pending /\ Pending' = Pending \ {call}
<1>1. PICK k \in DOMAIN calls : calls[k] = call /\ calls' = RemoveAt(calls, k)
  BY DEF Return
<1>2. Len(calls) \in Nat /\ DOMAIN calls = 1..Len(calls)
  BY Rows DEF Queue
<1>3. /\ calls' \in Seq(Calls) /\ Len(calls') = Len(calls) - 1
      /\ \A i \in 1..(Len(calls) - 1) :
           calls'[i] = IF i < k THEN calls[i] ELSE calls[i + 1]
  BY <1>1, <1>2, Removed DEF Queue
<1>4. DOMAIN calls' = 1..(Len(calls) - 1)
  BY <1>3, Rows
<1> DEFINE was(i) == IF i < k THEN i ELSE i + 1
<1>5. \A i \in DOMAIN calls' :
        was(i) \in DOMAIN calls /\ was(i) # k /\ calls'[i] = calls[was(i)]
  BY <1>1, <1>2, <1>3, <1>4
<1>6. \A i, j \in DOMAIN calls' : was(i) = was(j) => i = j
  BY <1>1, <1>2, <1>4
<1>7. \A i \in DOMAIN calls : i # k => \E j \in DOMAIN calls' : was(j) = i
  <2> SUFFICES ASSUME NEW i \in DOMAIN calls, i # k
               PROVE  \E j \in DOMAIN calls' : was(j) = i
    OBVIOUS
  <2>1. CASE i < k
    BY <1>1, <1>2, <1>4, <2>1
  <2>2. CASE i > k
    <3>1. i - 1 \in DOMAIN calls' /\ was(i - 1) = i
      BY <1>1, <1>2, <1>4, <2>2
    <3> QED
      BY <3>1
  <2> QED
    BY <1>1, <1>2, <2>1, <2>2
<1> HIDE DEF was
<1>8. Pending' = {calls'[i] : i \in DOMAIN calls'}
  BY DEF Pending
<1>9. \A i \in DOMAIN calls : i # k => calls[i] # call
  BY <1>1 DEF Queue
<1>10. Pending' \subseteq Pending \ {call}
  BY <1>5, <1>8, <1>9 DEF Pending
<1>11. Pending \ {call} \subseteq Pending'
  <2> SUFFICES ASSUME NEW i \in DOMAIN calls, calls[i] # call
               PROVE  calls[i] \in Pending'
    BY DEF Pending
  <2>1. PICK j \in DOMAIN calls' : was(j) = i
    BY <1>1, <1>7
  <2> QED
    BY <1>5, <1>8, <2>1
<1>12. Queue'
  BY <1>3, <1>5, <1>6 DEF Queue
<1> QED
  BY <1>1, <1>10, <1>11, <1>12 DEF Pending

----------------------------------------------------------------------------
(* The graphs.                                                              *)

\* Neither source nor files change, and every graph that is in memory now was
\* there before or comes from the file named after the source.
LEMMA FromMemoryOrFile ==
  ASSUME Maps, MapsAreOfTheirSource, UNCHANGED <<source, files, seen, mistaken>>,
         memory' \in [Mode -> Graph],
         \A m \in Mode : memory'[m] = memory[m] \/ memory'[m] = files[source][m]
  PROVE  Maps' /\ MapsAreOfTheirSource'
<1>1. Maps'
  BY DEF Maps
<1>2. ASSUME NEW m \in Mode
      PROVE  memory'[m] \in seen \cup {Missing} \/ \E c \in seen : <<c, m>> \in mistaken
  <2>1. CASE memory'[m] = memory[m]
    BY <2>1 DEF MapsAreOfTheirSource
  <2>2. CASE memory'[m] = files[source][m]
    <3>1. files[source][m] \in {Missing, source} \/ <<source, m>> \in mistaken
      BY DEF Maps, MapsAreOfTheirSource
    <3> QED
      BY <2>2, <3>1 DEF Maps
  <2> QED
    BY <2>1, <2>2
<1>3. MapsAreOfTheirSource'
  BY <1>2 DEF MapsAreOfTheirSource
<1> QED
  BY <1>1, <1>3

LEMMA FindInv ==
  ASSUME Maps, MapsAreOfTheirSource, NEW q \in Request, Find(q)
  PROVE  Maps' /\ MapsAreOfTheirSource'
<1>1. UNCHANGED <<source, files, seen, mistaken>>
  BY DEF Find
<1>2. PICK m : m = ModeOf(q)
  OBVIOUS
<1>3. CASE memory' = [memory EXCEPT ![m] = memory[m]]
  <2>1. memory' = memory
    BY <1>3 DEF Maps
  <2> QED
    BY <1>1, <2>1, FromMemoryOrFile DEF Maps
<1>4. CASE memory' = [memory EXCEPT ![m] = files[source][m]]
  <2>1. m \in Mode => files[source][m] \in Graph
    BY DEF Maps
  <2>2. memory' \in [Mode -> Graph]
    BY <1>4, <2>1 DEF Maps
  <2>3. \A n \in Mode : memory'[n] = memory[n] \/ memory'[n] = files[source][n]
    BY <1>4 DEF Maps
  <2> QED
    BY <1>1, <2>2, <2>3, FromMemoryOrFile
<1> QED
  BY <1>2, <1>3, <1>4 DEF Find, Loaded, CachePath

LEMMA BuildInv ==
  ASSUME Maps, MapsAreOfTheirSource, NEW q \in Request, Build(q)
  PROVE  Maps' /\ MapsAreOfTheirSource'
<1>1. PICK m : m = ModeOf(q)
  OBVIOUS
<1>2. PICK p : p = print[q]
  OBVIOUS
<1>3. /\ UNCHANGED <<source, seen>> /\ memory' = [memory EXCEPT ![m] = source]
      /\ \/ UNCHANGED <<files, mistaken>>
         \/ /\ files' = [files EXCEPT ![p][m] = source]
            /\ mistaken' = IF source = p THEN mistaken \ {<<p, m>>}
                                         ELSE mistaken \cup {<<p, m>>}
  BY <1>1, <1>2 DEF Build, Loaded, CachePath
<1>4. files' \in [Contents -> [Mode -> Graph]] /\ memory' \in [Mode -> Graph]
  <2>1. source \in Graph
    BY DEF Maps, Graph
  <2>2. memory' \in [Mode -> Graph]
    BY <1>3, <2>1 DEF Maps
  <2>3. ASSUME files' = [files EXCEPT ![p][m] = source]
        PROVE  files' \in [Contents -> [Mode -> Graph]]
    BY <2>1, <2>3 DEF Maps
  <2> QED
    BY <1>3, <2>2, <2>3 DEF Maps
<1>5. Maps'
  BY <1>3, <1>4 DEF Maps
<1>6. ASSUME NEW c \in Contents, NEW n \in Mode
      PROVE  files'[c][n] \in {Missing, c} \/ <<c, n>> \in mistaken'
  <2>1. files[c][n] \in {Missing, c} \/ <<c, n>> \in mistaken
    BY DEF MapsAreOfTheirSource
  <2>2. CASE UNCHANGED <<files, mistaken>>
    BY <2>1, <2>2
  <2>3. CASE /\ files' = [files EXCEPT ![p][m] = source]
             /\ mistaken' = IF source = p THEN mistaken \ {<<p, m>>}
                                          ELSE mistaken \cup {<<p, m>>}
    <3>1. CASE c = p /\ n = m
      <4>1. files'[c][n] = source
        BY <2>3, <3>1 DEF Maps
      <4> QED
        BY <2>3, <3>1, <4>1
    <3>2. CASE ~(c = p /\ n = m)
      <4>1. files'[c][n] = files[c][n]
        BY <2>3, <3>2 DEF Maps
      <4>2. <<c, n>> \in mistaken => <<c, n>> \in mistaken'
        BY <2>3, <3>2
      <4> QED
        BY <2>1, <4>1, <4>2
    <3> QED
      BY <3>1, <3>2
  <2> QED
    BY <1>3, <2>2, <2>3
<1>7. ASSUME NEW n \in Mode
      PROVE  memory'[n] \in seen \cup {Missing} \/ \E c \in seen : <<c, n>> \in mistaken'
  <2>1. CASE n = m
    BY <1>3, <2>1 DEF Maps
  <2>2. CASE n # m
    <3>1. memory'[n] = memory[n]
      BY <1>3, <2>2 DEF Maps
    <3>2. \A c \in seen : <<c, n>> \in mistaken => <<c, n>> \in mistaken'
      BY <1>3, <2>2
    <3> QED
      BY <3>1, <3>2 DEF MapsAreOfTheirSource
  <2> QED
    BY <2>1, <2>2
<1>8. MapsAreOfTheirSource'
  BY <1>3, <1>6, <1>7 DEF MapsAreOfTheirSource
<1> QED
  BY <1>5, <1>8

LEMMA GraphStepInv ==
  ASSUME Maps, MapsAreOfTheirSource, GraphStep
  PROVE  Maps' /\ MapsAreOfTheirSource'
<1>1. CASE UNCHANGED <<source, files, memory, seen, mistaken>>
  BY <1>1 DEF Maps, MapsAreOfTheirSource
<1>2. ASSUME NEW c \in Contents, Replace(c) PROVE Maps' /\ MapsAreOfTheirSource'
  BY <1>2 DEF Replace, Maps, MapsAreOfTheirSource
<1>3. ASSUME NEW q \in Request, Find(q) PROVE Maps' /\ MapsAreOfTheirSource'
  BY <1>3, FindInv
<1>4. ASSUME NEW q \in Request, Build(q) PROVE Maps' /\ MapsAreOfTheirSource'
  BY <1>4, BuildInv
<1> QED
  BY <1>1, <1>2, <1>3, <1>4
     DEF GraphStep, InThreadStep, Ask, Enter, Fingerprint, LoadFails

----------------------------------------------------------------------------
(* The locks.                                                               *)

\* Nothing happens to the locks or to the calls for graphs.
LEMMA LocksAside ==
  ASSUME Lines, Holders, UNCHANGED <<line, stage>>,
         \A q \in Request : Call(q) \in Pending' <=> Call(q) \in Pending
  PROVE  Lines' /\ Holders'
<1>1. Lines'
  BY DEF Lines
<1>2. \A q \in Request : Call(q)' = Call(q)
  BY DEF Call
<1>3. Holders'
  BY <1>2 DEF Holders
<1> QED
  BY <1>1, <1>3

LEMMA ModeOfIt ==
  ASSUME Lines, NEW q \in Request, NEW m \in Mode, InLine(q, m)
  PROVE  ModeOf(q) = m
<1>1. \A n \in Mode : InLine(q, n) => n = m
  BY DEF Lines, InLine
<1> QED
  BY <1>1 DEF ModeOf

\* A request with a call is the first in its line.
LEMMA CallerIsFirst ==
  ASSUME Lines, Holders, NEW q \in Request, Call(q) \in Pending
  PROVE  /\ ModeOf(q) \in Mode /\ InLine(q, ModeOf(q))
         /\ line[ModeOf(q)] # <<>> /\ Head(line[ModeOf(q)]) = q
<1>1. PICK m \in Mode : line[m] # <<>> /\ Head(line[m]) = q
  BY DEF Holders
<1>2. line[m] \in Seq(Request)
  BY DEF Lines
<1>3. 1 \in DOMAIN line[m] /\ line[m][1] = q
  BY <1>1, <1>2
<1>4. InLine(q, m)
  BY <1>3 DEF InLine
<1>5. ModeOf(q) = m
  BY <1>4, ModeOfIt
<1> QED
  BY <1>1, <1>4, <1>5

LEMMA AskLocks ==
  ASSUME Queue, Lines, Holders, NEW q \in Request, NEW m \in Mode, Ask(q, m)
  PROVE  Queue' /\ Lines' /\ Holders'
<1>1. /\ line \in [Mode -> Seq(Request)] /\ line[m] \in Seq(Request)
      /\ stage \in [Request -> {"none", "look", "build"}]
  BY DEF Lines
<1>2. line' = [line EXCEPT ![m] = Append(line[m], q)]
  BY DEF Ask
<1>3. line' \in [Mode -> Seq(Request)] /\ line'[m] = Append(line[m], q)
      /\ \A n \in Mode : n # m => line'[n] = line[n]
  BY <1>1, <1>2
<1>4. \A n \in Mode : \A i \in DOMAIN line[n] : line[n][i] # q
  BY DEF Ask, Asking, InLine
<1>5. /\ Len(line[m]) \in Nat /\ DOMAIN line[m] = 1..Len(line[m])
      /\ DOMAIN line'[m] = 1..(Len(line[m]) + 1)
      /\ \A i \in 1..Len(line[m]) : line'[m][i] = line[m][i]
      /\ line'[m][Len(line[m]) + 1] = q
  BY <1>1, <1>3
<1>6. ASSUME NEW n \in Mode, NEW i \in DOMAIN line'[n]
      PROVE  \/ i \in DOMAIN line[n] /\ line'[n][i] = line[n][i]
             \/ n = m /\ i = Len(line[m]) + 1 /\ line'[n][i] = q
  BY <1>3, <1>5
<1>7. stage' \in [Request -> {"none", "look", "build"}]
  BY <1>1 DEF Ask
<1>8. ASSUME NEW n \in Mode, NEW o \in Mode, NEW i \in DOMAIN line'[n],
             NEW j \in DOMAIN line'[o], line'[n][i] = line'[o][j]
      PROVE  n = o /\ i = j
  <2>1. CASE i \in DOMAIN line[n] /\ line'[n][i] = line[n][i]
    <3>1. j \in DOMAIN line[o] /\ line'[o][j] = line[o][j]
      BY <1>4, <1>6, <1>8, <2>1
    <3>2. line[n][i] = line[o][j]
      BY <1>8, <2>1, <3>1
    <3> QED
      BY <2>1, <3>1, <3>2 DEF Lines
  <2>2. CASE n = m /\ i = Len(line[m]) + 1 /\ line'[n][i] = q
    BY <1>4, <1>6, <1>8, <2>2
  <2> QED
    BY <1>6, <2>1, <2>2
<1>9. Lines'
  BY <1>3, <1>7, <1>8 DEF Lines
<1>10. stage[q] = "none" /\ Call(q) \notin Pending
  <2>1. ASSUME NEW n \in Mode, line[n] # <<>>, Head(line[n]) = q PROVE FALSE
    <3>1. line[n] \in Seq(Request)
      BY <1>1
    <3>2. 1 \in DOMAIN line[n] /\ line[n][1] = q
      BY <2>1, <3>1
    <3> QED
      BY <1>4, <3>2
  <2> QED
    BY <2>1 DEF Holders
<1>11. \A n \in Mode : line[n] # <<>> => line'[n] # <<>> /\ Head(line'[n]) = Head(line[n])
  <2>1. line[m] # <<>> => line'[m] # <<>> /\ Head(line'[m]) = Head(line[m])
    BY <1>1, <1>3
  <2> QED
    BY <1>3, <2>1
<1>12. CASE line[m] = <<>>
  <2>1. Submit(<<Call(q)>>) /\ stage' = [stage EXCEPT ![q] = "look"]
    BY <1>12 DEF Ask, LockIsFree
  <2>2. Call(q) \in Calls
    BY DEF Calls
  <2>3. Queue' /\ Pending' = Pending \cup {Call(q)}
    BY <1>10, <2>1, <2>2, SubmittedOne
  <2>4. line'[m] # <<>> /\ Head(line'[m]) = q
    BY <1>1, <1>3, <1>12
  <2>5. \A p \in Request : Call(p) \in Pending' <=> p = q \/ Call(p) \in Pending
    BY <2>3, Apart
  <2>6. \A p \in Request : stage'[p] = IF p = q THEN "look" ELSE stage[p]
    BY <1>1, <2>1
  <2>7. Holders'
    <3>1. ASSUME NEW p \in Request
          PROVE  /\ Call(p) \in Pending' <=> stage'[p] # "none"
                 /\ stage'[p] # "none"
                      => \E n \in Mode : line'[n] # <<>> /\ Head(line'[n]) = p
      <4>1. CASE p = q
        BY <2>4, <2>5, <2>6, <4>1
      <4>2. CASE p # q
        BY <1>11, <2>5, <2>6, <4>2 DEF Holders
      <4> QED
        BY <4>1, <4>2
    <3> QED
      BY <3>1 DEF Holders, Call
  <2> QED
    BY <1>9, <2>3, <2>7
<1>13. CASE line[m] # <<>>
  <2>1. UNCHANGED <<calls, stage>>
    BY <1>13 DEF Ask, LockIsFree
  <2>2. Queue' /\ Pending' = Pending
    BY <2>1 DEF Queue, Pending, Calls, Call, Send
  <2>3. Holders'
    BY <1>11, <2>1, <2>2 DEF Holders, Call
  <2> QED
    BY <1>9, <2>2, <2>3
<1> QED
  BY <1>12, <1>13

LEMMA EnterLocks ==
  ASSUME Queue, Lines, Holders, NEW q \in Request, Enter(q)
  PROVE  Queue' /\ Lines' /\ Holders'
<1>1. PICK m \in Mode : InLine(q, m)
  BY DEF Enter, Asking
<1>2. ModeOf(q) = m
  BY <1>1, ModeOfIt
<1>3. line[m] # <<>> /\ Head(line[m]) = q
  <2>1. line[m] # <<>>
    BY <1>1 DEF InLine
  <2> QED
    BY <1>2, <2>1 DEF Enter
<1>4. /\ Submit(<<Call(q)>>) /\ line' = line /\ stage[q] = "none"
      /\ stage' = [stage EXCEPT ![q] = "look"]
  BY DEF Enter
<1>5. Call(q) \in Calls /\ Call(q) \notin Pending
  BY <1>4 DEF Calls, Holders
<1>6. Queue' /\ Pending' = Pending \cup {Call(q)}
  BY <1>4, <1>5, SubmittedOne
<1>7. \A p \in Request : Call(p) \in Pending' <=> p = q \/ Call(p) \in Pending
  BY <1>6, Apart
<1>8. \A p \in Request : stage'[p] = IF p = q THEN "look" ELSE stage[p]
  BY <1>4 DEF Lines
<1>9. Holders'
  <2>1. ASSUME NEW p \in Request
        PROVE  /\ Call(p) \in Pending' <=> stage'[p] # "none"
               /\ stage'[p] # "none"
                    => \E n \in Mode : line'[n] # <<>> /\ Head(line'[n]) = p
    <3>1. CASE p = q
      BY <1>3, <1>4, <1>7, <1>8, <3>1
    <3>2. CASE p # q
      BY <1>4, <1>7, <1>8, <3>2 DEF Holders
    <3> QED
      BY <3>1, <3>2
  <2> QED
    BY <2>1 DEF Holders, Call
<1>10. Lines'
  BY <1>4 DEF Lines
<1> QED
  BY <1>6, <1>9, <1>10

\* A request whose call returned has left its line, and the next one is first.
LEMMA ReleaseLocks ==
  ASSUME Queue, Lines, Holders, NEW q \in Request, Return(Call(q)), Release(q)
  PROVE  Queue' /\ Lines' /\ Holders'
<1>1. Queue' /\ Call(q) \in Pending /\ Pending' = Pending \ {Call(q)}
  BY Returned
<1>2. PICK m : m = ModeOf(q)
  OBVIOUS
<1>3. m \in Mode /\ line[m] # <<>> /\ Head(line[m]) = q
  BY <1>1, <1>2, CallerIsFirst
<1>4. line \in [Mode -> Seq(Request)] /\ line[m] \in Seq(Request)
  BY <1>3 DEF Lines
<1>5. line' = [line EXCEPT ![m] = Tail(line[m])] /\ stage' = [stage EXCEPT ![q] = "none"]
  BY <1>2 DEF Release
<1>6. /\ line' \in [Mode -> Seq(Request)] /\ line'[m] = Tail(line[m])
      /\ \A n \in Mode : n # m => line'[n] = line[n]
  BY <1>3, <1>4, <1>5
<1>7. \A i \in DOMAIN line'[m] : i \in Nat /\ i + 1 \in DOMAIN line[m]
                                 /\ line'[m][i] = line[m][i + 1]
  BY <1>3, <1>4, <1>6
<1>8. ASSUME NEW n \in Mode, NEW o \in Mode, NEW i \in DOMAIN line'[n],
             NEW j \in DOMAIN line'[o], line'[n][i] = line'[o][j]
      PROVE  n = o /\ i = j
  <2>1. CASE n = m /\ o = m
    <3>1. i + 1 = j + 1 /\ i \in Nat /\ j \in Nat
      BY <1>3, <1>7, <1>8, <2>1 DEF Lines
    <3> QED
      BY <2>1, <3>1
  <2>2. CASE n = m /\ o # m
    BY <1>3, <1>6, <1>7, <1>8, <2>2 DEF Lines
  <2>3. CASE n # m /\ o = m
    BY <1>3, <1>6, <1>7, <1>8, <2>3 DEF Lines
  <2>4. CASE n # m /\ o # m
    BY <1>6, <1>8, <2>4 DEF Lines
  <2> QED
    BY <2>1, <2>2, <2>3, <2>4
<1>9. Lines'
  <2>1. stage' \in [Request -> {"none", "look", "build"}]
    BY <1>5 DEF Lines
  <2> QED
    BY <1>6, <1>8, <2>1 DEF Lines
<1>10. \A p \in Request : Call(p) \in Pending' <=> p # q /\ Call(p) \in Pending
  BY <1>1, Apart
<1>11. \A p \in Request : stage'[p] = IF p = q THEN "none" ELSE stage[p]
  BY <1>5 DEF Lines
<1>12. ASSUME NEW p \in Request
       PROVE  /\ Call(p) \in Pending' <=> stage'[p] # "none"
              /\ stage'[p] # "none"
                   => \E n \in Mode : line'[n] # <<>> /\ Head(line'[n]) = p
  <2>1. CASE p = q
    BY <1>10, <1>11, <2>1
  <2>2. CASE p # q
    <3>1. \A n \in Mode : Head(line[n]) = p => line'[n] = line[n]
      BY <1>3, <1>6, <2>2
    <3> QED
      BY <1>10, <1>11, <2>2, <3>1 DEF Holders
  <2> QED
    BY <2>1, <2>2
<1>13. Holders'
  BY <1>12 DEF Holders, Call
<1> QED
  BY <1>1, <1>9, <1>13

LEMMA FingerprintLocks ==
  ASSUME Queue, Lines, Holders, NEW q \in Request, Fingerprint(q)
  PROVE  Queue' /\ Lines' /\ Holders'
<1>1. /\ calls' = calls /\ line' = line /\ stage[q] = "look"
      /\ stage' = [stage EXCEPT ![q] = "build"]
  BY DEF Fingerprint, InThread
<1>2. Queue' /\ Pending' = Pending
  BY <1>1 DEF Queue, Pending, Calls, Call, Send
<1>3. Lines'
  BY <1>1 DEF Lines
<1>4. \A p \in Request : stage'[p] # "none" <=> stage[p] # "none"
  BY <1>1 DEF Lines
<1>5. Holders'
  BY <1>1, <1>2, <1>4 DEF Holders, Call
<1> QED
  BY <1>2, <1>3, <1>5

LEMMA GraphStepLocks ==
  ASSUME Queue, Lines, Holders, GraphStep
  PROVE  Queue' /\ Lines' /\ Holders'
<1>1. ASSUME NEW q \in Request, Find(q) \/ Build(q) \/ LoadFails(q)
      PROVE  Return(Call(q)) /\ Release(q)
  BY <1>1 DEF Find, Build, LoadFails, Loaded, ReleaseFailed
<1>2. ASSUME NEW c \in Contents, Replace(c) PROVE Queue' /\ Lines' /\ Holders'
  <2>1. calls' = calls /\ line' = line /\ stage' = stage
    BY <1>2 DEF Replace, thread
  <2>2. Queue' /\ Pending' = Pending
    BY <2>1 DEF Queue, Pending, Calls, Call, Send
  <2> QED
    BY <2>1, <2>2, LocksAside
<1> QED
  BY <1>1, <1>2, AskLocks, EnterLocks, FingerprintLocks, ReleaseLocks
     DEF GraphStep, InThreadStep

\* Graphs bring and take their own calls only.
LEMMA GraphStepCalls ==
  ASSUME Queue, Lines, Holders, GraphStep
  PROVE  \A b \in Broadcast, e \in Endpoint : Send(b, e) \in Pending' <=> Send(b, e) \in Pending
<1>1. ASSUME UNCHANGED calls PROVE Pending' = Pending
  BY <1>1 DEF Pending
<1>2. ASSUME NEW q \in Request, Submit(<<Call(q)>>), Call(q) \notin Pending
      PROVE  Pending' = Pending \cup {Call(q)}
  BY <1>2, SubmittedOne DEF Calls
<1>3. ASSUME NEW q \in Request, Return(Call(q))
      PROVE  Pending' = Pending \ {Call(q)}
  BY <1>3, Returned
<1>4. ASSUME NEW q \in Request, NEW m \in Mode, Ask(q, m)
      PROVE  UNCHANGED calls \/ (Submit(<<Call(q)>>) /\ Call(q) \notin Pending)
  <2>1. ASSUME Call(q) \in Pending PROVE FALSE
    <3>1. ModeOf(q) \in Mode /\ InLine(q, ModeOf(q))
      BY <2>1, CallerIsFirst
    <3> QED
      BY <1>4, <3>1 DEF Ask, Asking
  <2> QED
    BY <1>4, <2>1 DEF Ask
<1>5. ASSUME NEW q \in Request, Enter(q)
      PROVE  Submit(<<Call(q)>>) /\ Call(q) \notin Pending
  BY <1>5 DEF Enter, Holders
<1>6. ASSUME NEW q \in Request, InThreadStep(q)
      PROVE  UNCHANGED calls \/ Return(Call(q))
  BY <1>6 DEF InThreadStep, Find, Fingerprint, Build, LoadFails, Loaded
<1>7. ASSUME NEW c \in Contents, Replace(c) PROVE UNCHANGED calls
  BY <1>7 DEF Replace
<1>8. \/ Pending' = Pending
      \/ \E q \in Request : Pending' = Pending \cup {Call(q)} \/ Pending' = Pending \ {Call(q)}
  <2>1. CASE \E q \in Request : (\E m \in Mode : Ask(q, m)) \/ Enter(q) \/ InThreadStep(q)
    <3>1. PICK q \in Request : (\E m \in Mode : Ask(q, m)) \/ Enter(q) \/ InThreadStep(q)
      BY <2>1
    <3>2. UNCHANGED calls \/ (Submit(<<Call(q)>>) /\ Call(q) \notin Pending) \/ Return(Call(q))
      BY <3>1, <1>4, <1>5, <1>6
    <3> QED
      BY <3>2, <1>1, <1>2, <1>3
  <2>2. CASE \E c \in Contents : Replace(c)
    BY <2>2, <1>1, <1>7
  <2> QED
    BY <2>1, <2>2 DEF GraphStep
<1> QED
  BY <1>8, Apart

----------------------------------------------------------------------------
(* The broadcasts.                                                          *)

LEMMA PushStepInv ==
  ASSUME Devices, DeadAreGone, PushStep
  PROVE  Devices' /\ DeadAreGone'
<1>1. ASSUME NEW e \in Endpoint, NEW region \in Region \cup {Anywhere}, Subscribe(e, region)
      PROVE  Devices' /\ DeadAreGone'
  BY <1>1 DEF Subscribe, Devices, DeadAreGone
<1>2. ASSUME NEW e \in Endpoint, Unsubscribe(e) PROVE Devices' /\ DeadAreGone'
  BY <1>2 DEF Unsubscribe, Devices, DeadAreGone
<1>3. ASSUME NEW e \in Endpoint, GoAway(e) PROVE Devices' /\ DeadAreGone'
  BY <1>3 DEF GoAway, Devices, DeadAreGone
<1>4. ASSUME NEW b \in Broadcast, NEW region \in Region \cup {Anywhere}, Alarm(b, region)
      PROVE  Devices' /\ DeadAreGone'
  BY <1>4 DEF Alarm, Idle, Devices, DeadAreGone
<1>5. ASSUME NEW b \in Broadcast, ReadRows(b) PROVE Devices' /\ DeadAreGone'
  <2>1. PICK rows : rows = {e \in Endpoint : Concerned(e, cast[b].region)}
    OBVIOUS
  <2>2. PICK next :
          /\ next = Idle \/ next = [Idle EXCEPT !.pc = "sending", !.rows = rows]
          /\ cast' = [cast EXCEPT ![b] = next]
    BY <1>5, <2>1 DEF ReadRows
  <2>3. rows \subseteq Endpoint
    BY <2>1
  <2>4. UNCHANGED <<subscribed, gone>>
    BY <1>5 DEF ReadRows
  <2>5. /\ next \in [pc : {"idle", "reading", "sending"}, region : Region \cup {Anywhere},
                      rows : SUBSET Endpoint, dead : SUBSET Endpoint]
    <3>1. CASE next = Idle
      BY <3>1 DEF Idle
    <3>2. CASE next = [Idle EXCEPT !.pc = "sending", !.rows = rows]
      BY <2>3, <3>2 DEF Idle
    <3> QED
      BY <2>2, <3>1, <3>2
  <2>6. next.dead = {}
    <3>1. CASE next = Idle
      BY <3>1 DEF Idle
    <3>2. CASE next = [Idle EXCEPT !.pc = "sending", !.rows = rows]
      BY <3>2 DEF Idle
    <3> QED
      BY <2>2, <3>1, <3>2
  <2> QED
    BY <2>2, <2>4, <2>5, <2>6 DEF Devices, DeadAreGone
<1>6. ASSUME NEW b \in Broadcast, NEW e \in Endpoint, NEW fails \in BOOLEAN,
             TrySend(b, e, fails)
      PROVE  Devices' /\ DeadAreGone'
  <2>1. /\ UNCHANGED <<subscribed, gone>>
        /\ cast' = IF e \in gone THEN [cast EXCEPT ![b].dead = @ \cup {e}] ELSE cast
    BY <1>6 DEF TrySend, Dead
  <2> QED
    BY <2>1 DEF Devices, DeadAreGone
<1>7. ASSUME NEW b \in Broadcast, Prune(b) PROVE Devices' /\ DeadAreGone'
  <2>1. /\ UNCHANGED gone /\ cast' = [cast EXCEPT ![b] = Idle]
        /\ \/ subscribed' = [e \in Endpoint |-> IF e \in cast[b].dead THEN Off ELSE subscribed[e]]
           \/ UNCHANGED subscribed
    BY <1>7 DEF Prune
  <2> QED
    BY <2>1 DEF Idle, Devices, DeadAreGone
<1> QED
  BY <1>1, <1>2, <1>3, <1>4, <1>5, <1>6, <1>7 DEF PushStep, BroadcastStep

----------------------------------------------------------------------------
(* What is sent.                                                            *)

\* Nothing happens to the broadcasts or to their calls.
LEMMA SentAside ==
  ASSUME SentOnce, UNCHANGED <<cast, tries>>,
         \A b \in Broadcast, e \in Endpoint : Send(b, e) \in Pending' <=> Send(b, e) \in Pending
  PROVE  SentOnce'
BY DEF SentOnce, Send

\* The rows in any order, each once.
LEMMA OrderOnce ==
  ASSUME NEW rows, IsFiniteSet(rows), NEW order \in [1..Cardinality(rows) -> rows],
         \A e \in rows : \E i \in DOMAIN order : order[i] = e
  PROVE  \A i, j \in DOMAIN order : order[i] = order[j] => i = j
<1>1. PICK n : n = Cardinality(rows)
  OBVIOUS
<1>2. n \in Nat
  BY <1>1, FS_CardinalityType
<1>3. IsFiniteSet(1..n) /\ Cardinality(1..n) = n
  BY <1>2, FS_Interval
<1>4. order \in Surjection(1..n, rows)
  BY <1>1 DEF Surjection
<1>5. order \in Injection(1..n, rows)
  BY <1>1, <1>3, <1>4, FS_Surjection
<1> QED
  BY <1>5 DEF Injection, IsInjective

LEMMA ReadRowsSends ==
  ASSUME PushAssumption, Queue, Devices, SentOnce, NEW b \in Broadcast, ReadRows(b)
  PROVE  /\ Queue' /\ SentOnce'
         /\ \A q \in Request : Call(q) \in Pending' <=> Call(q) \in Pending
<1>1. PICK rows : rows = {e \in Endpoint : Concerned(e, cast[b].region)}
  OBVIOUS
<1>2. rows \subseteq Endpoint /\ IsFiniteSet(rows)
  BY <1>1, FS_Subset DEF PushAssumption
<1>3. cast[b].pc = "reading" /\ tries' = tries
  BY DEF ReadRows
<1>4. \A e \in Endpoint : Send(b, e) \notin Pending /\ tries[b][e] = 0
  BY <1>3 DEF SentOnce
<1>5. \A c \in Broadcast : c # b => cast'[c] = cast[c]
  BY DEF ReadRows, Devices
<1>6. CASE rows = {}
  <2>1. calls' = calls /\ cast' = [cast EXCEPT ![b] = Idle]
    BY <1>1, <1>6 DEF ReadRows
  <2>2. Queue' /\ Pending' = Pending
    BY <2>1 DEF Queue, Pending, Calls, Call, Send
  <2>3. cast'[b].pc = "idle"
    BY <2>1 DEF Devices, Idle
  <2>4. ASSUME NEW c \in Broadcast, NEW e \in Endpoint
        PROVE  IF cast'[c].pc = "sending" /\ e \in cast'[c].rows
               THEN tries'[c][e] \in {0, 1} /\ (tries'[c][e] = 0 <=> Send(c, e) \in Pending')
               ELSE tries'[c][e] = 0 /\ Send(c, e) \notin Pending'
    <3>1. CASE c = b
      BY <1>3, <1>4, <2>2, <2>3, <3>1
    <3>2. CASE c # b
      BY <1>3, <1>5, <2>2, <3>2 DEF SentOnce
    <3> QED
      BY <3>1, <3>2
  <2>5. SentOnce'
    BY <1>3, <2>4 DEF SentOnce, Send
  <2> QED
    BY <2>2, <2>5
<1>7. CASE rows # {}
  <2>1. cast' = [cast EXCEPT ![b] = [Idle EXCEPT !.pc = "sending", !.rows = rows]]
    BY <1>1, <1>7 DEF ReadRows
  <2>2. cast'[b].pc = "sending" /\ cast'[b].rows = rows
    BY <2>1 DEF Devices, Idle
  <2>3. PICK order \in [1..Cardinality(rows) -> rows] :
          /\ \A e \in rows : \E i \in DOMAIN order : order[i] = e
          /\ Submit([i \in DOMAIN order |-> Send(b, order[i])])
    BY <1>1, <1>7 DEF ReadRows
  <2> DEFINE new == [i \in DOMAIN order |-> Send(b, order[i])]
  <2>4. Cardinality(rows) \in Nat
    BY <1>2, FS_CardinalityType
  <2>5. \A i \in DOMAIN order : Send(b, order[i]) \in Calls
    BY <1>2, <2>3 DEF Calls
  <2>6. new \in Seq(Calls) /\ DOMAIN new = DOMAIN order
        /\ \A i \in DOMAIN order : new[i] = Send(b, order[i])
    BY <2>3, <2>4, <2>5
  <2>7. \A i, j \in DOMAIN new : new[i] = new[j] => i = j
    <3>1. \A i, j \in DOMAIN order : order[i] = order[j] => i = j
      BY <1>2, <2>3, OrderOnce
    <3>2. \A d, f : Send(b, d) = Send(b, f) => d = f
      BY Apart
    <3> QED
      BY <2>6, <3>1, <3>2
  <2>8. \A i \in DOMAIN new : new[i] \notin Pending
    BY <1>2, <1>4, <2>3, <2>6
  <2>9. Queue' /\ Pending' = Pending \cup {new[i] : i \in DOMAIN new}
    <3> HIDE DEF new
    <3> QED
      BY <2>3, <2>6, <2>7, <2>8, Submitted DEF new
  <2>10. Pending' = Pending \cup {Send(b, e) : e \in rows}
    <3>1. {new[i] : i \in DOMAIN new} = {Send(b, e) : e \in rows}
      BY <2>3, <2>6
    <3> QED
      BY <2>9, <3>1
  <2>11. \A c \in Broadcast, e \in Endpoint :
           Send(c, e) \in Pending' <=> (c = b /\ e \in rows) \/ Send(c, e) \in Pending
    BY <2>10, Apart
  <2>12. SentOnce'
    <3>1. ASSUME NEW c \in Broadcast, NEW e \in Endpoint
          PROVE  IF cast'[c].pc = "sending" /\ e \in cast'[c].rows
                 THEN tries'[c][e] \in {0, 1} /\ (tries'[c][e] = 0 <=> Send(c, e) \in Pending')
                 ELSE tries'[c][e] = 0 /\ Send(c, e) \notin Pending'
      <4>1. CASE c = b
        BY <1>3, <1>4, <2>2, <2>11, <4>1
      <4>2. CASE c # b
        BY <1>3, <1>5, <2>11, <4>2 DEF SentOnce
      <4> QED
        BY <4>1, <4>2
    <3> QED
      BY <1>3, <3>1 DEF SentOnce, Send
  <2> QED
    BY <2>9, <2>10, <2>12, Apart
<1> QED
  BY <1>6, <1>7

LEMMA TrySendSends ==
  ASSUME Queue, Devices, SentOnce, NEW b \in Broadcast, NEW e \in Endpoint,
         NEW fails \in BOOLEAN, TrySend(b, e, fails)
  PROVE  /\ Queue' /\ SentOnce'
         /\ \A q \in Request : Call(q) \in Pending' <=> Call(q) \in Pending
<1>1. Return(Send(b, e))
  BY DEF TrySend, AfterSend
<1>2. Queue' /\ Send(b, e) \in Pending /\ Pending' = Pending \ {Send(b, e)}
  BY <1>1, Returned
<1>3. tries' = [tries EXCEPT ![b][e] = @ + 1]
  BY DEF TrySend
<1>4. \A c \in Broadcast : cast'[c].pc = cast[c].pc /\ cast'[c].rows = cast[c].rows
  BY DEF TrySend, Devices
<1>5. tries' \in [Broadcast -> [Endpoint -> Nat]]
      /\ tries'[b][e] = tries[b][e] + 1
      /\ \A c \in Broadcast, f \in Endpoint : ~(c = b /\ f = e) => tries'[c][f] = tries[c][f]
  BY <1>3 DEF SentOnce
<1>6. cast[b].pc = "sending" /\ e \in cast[b].rows /\ tries[b][e] = 0
  BY <1>2 DEF SentOnce
<1>7. \A c \in Broadcast, f \in Endpoint :
        Send(c, f) \in Pending' <=> ~(c = b /\ f = e) /\ Send(c, f) \in Pending
  BY <1>2, Apart
<1>8. ASSUME NEW c \in Broadcast, NEW f \in Endpoint
      PROVE  IF cast'[c].pc = "sending" /\ f \in cast'[c].rows
             THEN tries'[c][f] \in {0, 1} /\ (tries'[c][f] = 0 <=> Send(c, f) \in Pending')
             ELSE tries'[c][f] = 0 /\ Send(c, f) \notin Pending'
  <2>1. CASE c = b /\ f = e
    BY <1>4, <1>5, <1>6, <1>7, <2>1
  <2>2. CASE ~(c = b /\ f = e)
    BY <1>4, <1>5, <1>7, <2>2 DEF SentOnce
  <2> QED
    BY <2>1, <2>2
<1>9. SentOnce'
  BY <1>5, <1>8 DEF SentOnce, Send
<1> QED
  BY <1>2, <1>9, Apart

LEMMA PruneSends ==
  ASSUME Queue, Devices, SentOnce, NEW b \in Broadcast, Prune(b)
  PROVE  SentOnce'
<1>1. /\ cast[b].pc = "sending" /\ calls' = calls
      /\ cast' = [cast EXCEPT ![b] = Idle] /\ tries' = [tries EXCEPT ![b] = Never]
  BY DEF Prune
<1>2. \A e \in Endpoint : Send(b, e) \notin Pending
  BY DEF Prune, AllSent, SentOnce
<1>3. Pending' = Pending
  BY <1>1 DEF Pending
<1>4. /\ cast'[b].pc = "idle" /\ \A e \in Endpoint : tries'[b][e] = 0
      /\ tries' \in [Broadcast -> [Endpoint -> Nat]]
  BY <1>1 DEF Devices, SentOnce, Idle, Never
<1>5. \A c \in Broadcast : c # b => cast'[c] = cast[c] /\ tries'[c] = tries[c]
  BY <1>1 DEF Devices, SentOnce
<1>6. ASSUME NEW c \in Broadcast, NEW f \in Endpoint
      PROVE  IF cast'[c].pc = "sending" /\ f \in cast'[c].rows
             THEN tries'[c][f] \in {0, 1} /\ (tries'[c][f] = 0 <=> Send(c, f) \in Pending')
             ELSE tries'[c][f] = 0 /\ Send(c, f) \notin Pending'
  <2>1. CASE c = b
    BY <1>2, <1>3, <1>4, <2>1
  <2>2. CASE c # b
    BY <1>3, <1>5, <2>2 DEF SentOnce
  <2> QED
    BY <2>1, <2>2
<1> QED
  BY <1>4, <1>6 DEF SentOnce, Send

LEMMA PushStepSends ==
  ASSUME PushAssumption, Queue, Devices, SentOnce, PushStep
  PROVE  /\ Queue' /\ SentOnce'
         /\ \A q \in Request : Call(q) \in Pending' <=> Call(q) \in Pending
<1>1. ASSUME UNCHANGED calls
      PROVE  Queue' /\ Pending' = Pending
  BY <1>1 DEF Queue, Pending, Calls, Call, Send
<1>2. ASSUME UNCHANGED <<calls, cast, tries>>
      PROVE  SentOnce'
  BY <1>1, <1>2, SentAside
<1>3. ASSUME NEW e \in Endpoint,
             \/ \E region \in Region \cup {Anywhere} : Subscribe(e, region)
             \/ Unsubscribe(e)
             \/ GoAway(e)
      PROVE  UNCHANGED <<calls, cast, tries>>
  BY <1>3 DEF Subscribe, Unsubscribe, GoAway
<1>4. ASSUME NEW b \in Broadcast, NEW region \in Region \cup {Anywhere}, Alarm(b, region)
      PROVE  UNCHANGED calls /\ SentOnce'
  <2>1. /\ cast[b].pc = "idle" /\ UNCHANGED <<calls, tries>>
        /\ cast' = [cast EXCEPT ![b] = [Idle EXCEPT !.pc = "reading", !.region = region]]
    BY <1>4 DEF Alarm
  <2>2. Pending' = Pending
    BY <2>1 DEF Pending
  <2>3. cast'[b].pc = "reading" /\ \A c \in Broadcast : c # b => cast'[c] = cast[c]
    BY <2>1 DEF Devices, Idle
  <2>4. ASSUME NEW c \in Broadcast, NEW f \in Endpoint
        PROVE  IF cast'[c].pc = "sending" /\ f \in cast'[c].rows
               THEN tries'[c][f] \in {0, 1} /\ (tries'[c][f] = 0 <=> Send(c, f) \in Pending')
               ELSE tries'[c][f] = 0 /\ Send(c, f) \notin Pending'
    <3>1. CASE c = b
      BY <2>1, <2>2, <2>3, <3>1 DEF SentOnce
    <3>2. CASE c # b
      BY <2>1, <2>2, <2>3, <3>2 DEF SentOnce
    <3> QED
      BY <3>1, <3>2
  <2> QED
    BY <2>1, <2>4 DEF SentOnce, Send
<1>5. ASSUME NEW b \in Broadcast, Prune(b)
      PROVE  UNCHANGED calls /\ SentOnce'
  BY <1>5, PruneSends DEF Prune
<1>6. CASE \E e \in Endpoint : \/ \E region \in Region \cup {Anywhere} : Subscribe(e, region)
                             \/ Unsubscribe(e)
                             \/ GoAway(e)
  BY <1>1, <1>2, <1>3, <1>6
<1> QED
  BY <1>1, <1>4, <1>5, <1>6, ReadRowsSends, TrySendSends DEF PushStep, BroadcastStep

----------------------------------------------------------------------------
(* Every step.                                                              *)

LEMMA NextInv ==
  ASSUME PushAssumption, IInv, [Next]_vars
  PROVE  IInv'
<1>1. CASE GraphStep /\ UNCHANGED pushVars
  <2>1. Maps' /\ MapsAreOfTheirSource'
    BY <1>1, GraphStepInv DEF IInv
  <2>2. Devices' /\ DeadAreGone'
    BY <1>1 DEF IInv, pushVars, Devices, DeadAreGone
  <2>3. Queue' /\ Lines' /\ Holders'
    BY <1>1, GraphStepLocks DEF IInv
  <2>4. SentOnce'
    BY <1>1, GraphStepCalls, SentAside DEF IInv, pushVars
  <2> QED
    BY <2>1, <2>2, <2>3, <2>4 DEF IInv
<1>2. CASE PushStep /\ UNCHANGED graphVars
  <2>1. Maps' /\ MapsAreOfTheirSource'
    BY <1>2 DEF IInv, graphVars, Maps, MapsAreOfTheirSource
  <2>2. Devices' /\ DeadAreGone'
    BY <1>2, PushStepInv DEF IInv
  <2>3. Queue' /\ SentOnce' /\ \A q \in Request : Call(q) \in Pending' <=> Call(q) \in Pending
    BY <1>2, PushStepSends DEF IInv
  <2>4. Lines' /\ Holders'
    BY <1>2, <2>3, LocksAside DEF IInv, graphVars
  <2> QED
    BY <2>1, <2>2, <2>3, <2>4 DEF IInv
<1>3. CASE Restart
  <2>1. Maps' /\ MapsAreOfTheirSource'
    BY <1>3 DEF Restart, GraphRestart, IInv, Maps, MapsAreOfTheirSource, Graph
  <2>2. Devices' /\ DeadAreGone'
    BY <1>3 DEF Restart, PushRestart, Idle, IInv, Devices, DeadAreGone
  <2>3. calls' = <<>> /\ DOMAIN calls' = {} /\ Pending' = {}
    BY <1>3 DEF Restart, Pending
  <2>4. Queue' /\ Holders'
    BY <1>3, <2>3 DEF Queue, Holders, Restart, GraphRestart
  <2>5. Lines'
    <3>1. \A m \in Mode : line'[m] = <<>> /\ DOMAIN line'[m] = {}
      BY <1>3 DEF Restart, GraphRestart
    <3> QED
      BY <1>3, <3>1 DEF Lines, Restart, GraphRestart
  <2>6. SentOnce'
    BY <1>3, <2>3 DEF SentOnce, Restart, PushRestart, Idle, Never
  <2> QED
    BY <2>1, <2>2, <2>4, <2>5, <2>6 DEF IInv
<1>4. CASE UNCHANGED vars
  <2>1. Maps' /\ MapsAreOfTheirSource' /\ Devices' /\ DeadAreGone'
    BY <1>4 DEF vars, graphVars, pushVars, IInv, Maps, MapsAreOfTheirSource, Devices, DeadAreGone
  <2>2. Queue' /\ Pending' = Pending
    BY <1>4 DEF vars, IInv, Queue, Pending, Calls, Call, Send
  <2>3. Lines' /\ Holders' /\ SentOnce'
    BY <1>4, <2>2, LocksAside, SentAside DEF vars, graphVars, pushVars, IInv
  <2> QED
    BY <2>1, <2>2, <2>3 DEF IInv
<1> QED
  BY <1>1, <1>2, <1>3, <1>4 DEF Next

\* Each request with a call has the lock of another mode.
LEMMA OneCallPerMode ==
  ASSUME IInv, IsFiniteSet(Mode)
  PROVE  LET graphs == {call \in Pending : call.what = "graph"}
         IN  IsFiniteSet(graphs) /\ Cardinality(graphs) <= Cardinality(Mode)
<1> DEFINE graphs == {call \in Pending : call.what = "graph"}
           f == [call \in graphs |-> ModeOf(call.request)]
<1>1. \A call \in Pending : call \in Calls
  <2>1. \A i \in DOMAIN calls : calls[i] \in Calls
    BY Rows DEF IInv, Queue
  <2> QED
    BY <2>1 DEF Pending
<1>2. ASSUME NEW call \in graphs
      PROVE  /\ call.request \in Request /\ call = Call(call.request)
             /\ f[call] \in Mode /\ Head(line[f[call]]) = call.request
  <2>1. PICK q \in Request : call = Call(q)
    BY <1>1, <1>2 DEF Calls, Send
  <2>2. call.request = q
    BY <2>1 DEF Call
  <2>3. f[call] = ModeOf(q)
    BY <2>2
  <2>4. ModeOf(q) \in Mode /\ Head(line[ModeOf(q)]) = q
    BY <2>1, CallerIsFirst DEF IInv
  <2> QED
    BY <2>1, <2>2, <2>3, <2>4
<1> HIDE DEF graphs
<1>3. f \in [graphs -> Mode]
  BY <1>2
<1> HIDE DEF f
<1>4. \A x, y \in graphs : f[x] = f[y] => x = y
  BY <1>2
<1>5. f \in Injection(graphs, Mode)
  BY <1>3, <1>4 DEF Injection, IsInjective
<1>6. IsFiniteSet(graphs) /\ Cardinality(graphs) <= Cardinality(Mode)
  BY <1>5, FS_Injection
<1> QED
  BY <1>6 DEF graphs

LEMMA CallsOfOne ==
  ASSUME IInv, NEW b \in Broadcast, NEW e \in Endpoint
  PROVE  Cardinality({i \in DOMAIN calls : calls[i] = Send(b, e)})
           = IF Send(b, e) \in Pending THEN 1 ELSE 0
<1> DEFINE waiting == {i \in DOMAIN calls : calls[i] = Send(b, e)}
<1>1. CASE Send(b, e) \in Pending
  <2>1. PICK i \in DOMAIN calls : calls[i] = Send(b, e)
    BY <1>1 DEF Pending
  <2>2. waiting = {i}
    BY <2>1 DEF IInv, Queue
  <2> QED
    BY <1>1, <2>2, FS_Singleton
<1>2. CASE Send(b, e) \notin Pending
  <2>1. waiting = {}
    BY <1>2 DEF Pending
  <2> QED
    BY <1>2, <2>1, FS_EmptySet
<1> QED
  BY <1>1, <1>2

\* Only a request of its own or a prune takes a subscription away.
LEMMA WhoIsPruned ==
  ASSUME PushAssumption, IInv, [Next]_vars, NEW e \in Endpoint,
         subscribed[e] # Off, subscribed'[e] = Off
  PROVE  e \in gone \/ Unsubscribe(e)
<1>1. ASSUME UNCHANGED subscribed PROVE FALSE
  BY <1>1
<1>2. ASSUME NEW other \in Endpoint, NEW region \in Region \cup {Anywhere},
             Subscribe(other, region)
      PROVE  FALSE
  <2>1. region # Off
    BY DEF PushAssumption
  <2> QED
    BY <1>2, <2>1 DEF Subscribe, IInv, Devices
<1>3. ASSUME NEW other \in Endpoint, Unsubscribe(other) PROVE Unsubscribe(e)
  <2>1. other = e
    BY <1>3 DEF Unsubscribe, IInv, Devices
  <2> QED
    BY <1>3, <2>1
<1>4. ASSUME NEW b \in Broadcast, Prune(b) PROVE e \in gone
  BY <1>4 DEF Prune, IInv, Devices, DeadAreGone
<1>5. CASE PushStep
  BY <1>1, <1>2, <1>3, <1>4, <1>5
     DEF PushStep, BroadcastStep, GoAway, Alarm, ReadRows, TrySend
<1> QED
  BY <1>1, <1>5 DEF Next, Restart, PushRestart, vars, pushVars

----------------------------------------------------------------------------
(* Theorems.                                                                *)

(* What holds of the graphs and the broadcasts in every state of            *)
(* services/routing.py and services/push.py.                                *)
THEOREM Invariant == Spec => []IInv
<1>1. Init => IInv
  BY InitInv
<1>2. IInv /\ [Next]_vars => IInv'
  BY NextInv, PushAssumption
<1> QED
  BY <1>1, <1>2, PTL DEF Spec

(* routing/graph.py: however requests, replaced sources, crashes and        *)
(* volumes that refuse interleave, a graph is of the source its file is     *)
(* named after, or of a source that was replaced between its two reads.     *)
THEOREM TrueMaps == Spec => []MapsAreOfTheirSource
<1>1. IInv => MapsAreOfTheirSource
  BY DEF IInv
<1> QED
  BY <1>1, Invariant, PTL

(* broadcast: whatever the devices and the push service do meanwhile, each  *)
(* row that was read has been sent to or has its one call, and nobody else  *)
(* is woken.                                                                *)
THEOREM SentToOnce == Spec => []EachRowOnce
<1>1. IInv => EachRowOnce
  <2> SUFFICES ASSUME IInv, NEW b \in Broadcast, cast[b].pc = "sending", NEW e \in Endpoint
               PROVE  tries[b][e] + Cardinality({i \in DOMAIN calls : calls[i] = Send(b, e)})
                        = IF e \in cast[b].rows THEN 1 ELSE 0
    BY DEF EachRowOnce
  <2> QED
    BY CallsOfOne DEF IInv, SentOnce
<1> QED
  BY <1>1, Invariant, PTL

(* get_graph: the locks leave at most one call per mode of transport among  *)
(* the threads, so one thread at least is free for the alarms.              *)
THEOREM ThreadForAlarms == Spec => []AlarmsKeepAThread
<1>1. IInv => AlarmsKeepAThread
  <2>1. Cardinality(Mode) \in Nat /\ Workers \in Nat
    BY RoomAssumption, PoolAssumption, FS_CardinalityType
  <2>2. ASSUME IInv
        PROVE  LET graphs == {call \in Pending : call.what = "graph"}
               IN  Cardinality(graphs) \in Nat /\ Cardinality(graphs) <= Cardinality(Mode)
    BY <2>2, OneCallPerMode, RoomAssumption, FS_CardinalityType
  <2> QED
    BY <2>1, <2>2, RoomAssumption DEF AlarmsKeepAThread
<1> QED
  BY <1>1, Invariant, PTL

(* push.py: whatever fails, a subscription goes only when the push service  *)
(* has given the device up or the device asks for it.                       *)
THEOREM PrunedAreDead == Spec => OnlyDeadArePruned
<1>1. IInv /\ [Next]_vars =>
        [\A e \in Endpoint :
           subscribed[e] # Off /\ subscribed'[e] = Off => e \in gone \/ Unsubscribe(e)]_pushVars
  BY WhoIsPruned, PushAssumption
<1> QED
  BY <1>1, Invariant, PTL DEF Spec, OnlyDeadArePruned

=============================================================================
