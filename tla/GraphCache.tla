----------------------------- MODULE GraphCache -----------------------------
(***************************************************************************)
(* One road graph per mode of transport, built once and shared:             *)
(* services/routing.py (get_graph, _load_graph_cached) and the cache file   *)
(* of routing/graph.py (load_road_graph).                                   *)
(*                                                                          *)
(* A request waits for the lock of its mode on the event loop, and then for *)
(* a thread that finds the graph in memory, in the file named after a hash  *)
(* of the source, or builds it.  The source is a file on a volume and may   *)
(* be replaced at any time; what it says is one of a few Contents.          *)
(***************************************************************************)
EXTENDS ThreadPool

CONSTANTS
  Request,     \* requests for a route that may be under way at once
  Mode,        \* TransportMode
  Contents,    \* what the source may say
  Missing      \* no graph

ASSUME GraphCacheAssumption == Missing \notin Contents

VARIABLES
  source,   \* what the file at road_network_path says now
  files,    \* files[c][m]: source the graph in the cache file of c and m is of
  memory,   \* memory[m]: the same for the graph of m in the lru_cache
  line,     \* line[m]: requests at the lock of m; the first one has it
  stage,    \* stage[q]: where the thread of request q is
  print,    \* print[q]: the source it has made the fingerprint of
  seen,     \* history: what the source has said since the process started
  mistaken  \* history: <<print, mode>> of files written from another source

graphVars == <<source, files, memory, line, stage, print, seen, mistaken>>
thread == <<stage, print>>

Graph == Contents \cup {Missing}

GraphTypeOK ==
  /\ source \in Contents
  /\ files \in [Contents -> [Mode -> Graph]]
  /\ memory \in [Mode -> Graph]
  /\ line \in [Mode -> Seq(Request)]
  /\ stage \in [Request -> {"none", "look", "build"}]
  /\ print \in [Request -> Graph]
  /\ seen \subseteq Contents
  /\ mistaken \subseteq Contents \X Mode

GraphInit ==
  /\ source \in Contents
  /\ files = [c \in Contents |-> [m \in Mode |-> Missing]]
  /\ memory = [m \in Mode |-> Missing]
  /\ line = [m \in Mode |-> <<>>]
  /\ stage = [q \in Request |-> "none"]
  /\ print = [q \in Request |-> Missing]
  /\ seen = {source} /\ mistaken = {}

----------------------------------------------------------------------------

Call(q) == [what |-> "graph", request |-> q]

InLine(q, m) == \E i \in DOMAIN line[m] : line[m][i] = q

Asking(q) == \E m \in Mode : InLine(q, m)

ModeOf(q) == CHOOSE m \in Mode : InLine(q, m)

\* Slip: every request builds for itself.
LockIsFree_Always(m) == TRUE

LockIsFree(m) == line[m] = <<>>

\* get_graph: a request for a route joins the line; if nobody is there, its
\* call goes to the threads.
Ask(q, m) ==
  /\ ~Asking(q)
  /\ line' = [line EXCEPT ![m] = Append(@, q)]
  /\ IF LockIsFree(m)
     THEN Submit(<<Call(q)>>) /\ stage' = [stage EXCEPT ![q] = "look"]
     ELSE UNCHANGED <<calls, stage>>
  /\ UNCHANGED <<source, files, memory, print, seen, mistaken>>

\* The lock is q's now, and its call goes to the threads.
Enter(q) ==
  /\ Asking(q) /\ stage[q] = "none" /\ Head(line[ModeOf(q)]) = q
  /\ Submit(<<Call(q)>>)
  /\ stage' = [stage EXCEPT ![q] = "look"]
  /\ UNCHANGED <<source, files, memory, line, print, seen, mistaken>>

InThread(q, where) == Call(q) \in Running /\ stage[q] = where

\* Slip: the cache file is named after the mode alone.
CachePath_Mode(c) == CHOOSE any \in Contents : TRUE

\* _cache_path: the file name tells what the source says.
CachePath(c) == c

\* "async with lock" lets go of the lock whatever happens.
Release(q) ==
  /\ line' = [line EXCEPT ![ModeOf(q)] = Tail(@)]
  /\ stage' = [stage EXCEPT ![q] = "none"]
  /\ print' = [print EXCEPT ![q] = Missing]

\* The call returns: the lru_cache keeps the graph, of c, and the request has it.
Loaded(q, c) ==
  /\ Return(Call(q))
  /\ memory' = [memory EXCEPT ![ModeOf(q)] = c]
  /\ Release(q)

\* The graph is in memory, or in the file that is named after the source.
Find(q) ==
  LET m == ModeOf(q)
      cached == files[CachePath(source)][m]
  IN /\ InThread(q, "look")
     /\ \/ memory[m] # Missing /\ Loaded(q, memory[m])
        \/ memory[m] = Missing /\ cached # Missing /\ Loaded(q, cached)
     /\ UNCHANGED <<source, files, seen, mistaken>>

\* It is not, or the file cannot be read: _source_fingerprint has been made.
Fingerprint(q) ==
  /\ InThread(q, "look")
  /\ memory[ModeOf(q)] = Missing
  /\ stage' = [stage EXCEPT ![q] = "build"]
  /\ print' = [print EXCEPT ![q] = source]
  /\ UNCHANGED <<calls, source, files, memory, line, seen, mistaken>>

\* The source is read again, for its features; the graph is contracted, written
\* beside the cache file and renamed to it, unless the volume refuses.
Build(q) ==
  LET m == ModeOf(q)
  IN /\ InThread(q, "build")
     /\ \/ UNCHANGED <<files, mistaken>>
        \/ /\ files' = [files EXCEPT ![CachePath(print[q])][m] = source]
           /\ mistaken' = IF source = print[q] THEN mistaken \ {<<print[q], m>>}
                                               ELSE mistaken \cup {<<print[q], m>>}
     /\ Loaded(q, source)
     /\ UNCHANGED <<source, seen>>

\* Slip: a request that fails keeps the lock.
ReleaseFailed_Locked(q) ==
  /\ stage' = [stage EXCEPT ![q] = "none"]
  /\ print' = [print EXCEPT ![q] = Missing]
  /\ UNCHANGED line

ReleaseFailed(q) == Release(q)

\* The file is missing, or what it says cannot be read: an error, and no memory.
LoadFails(q) ==
  /\ InThread(q, "build") \/ (InThread(q, "look") /\ memory[ModeOf(q)] = Missing)
  /\ Return(Call(q))
  /\ ReleaseFailed(q)
  /\ UNCHANGED <<source, files, memory, seen, mistaken>>

\* Somebody replaces the source.
Replace(c) ==
  /\ source' = c
  /\ seen' = seen \cup {c}
  /\ UNCHANGED <<calls, files, memory, line, thread, mistaken>>

\* The process starts again; the volume is still there.
GraphRestart ==
  /\ memory' = [m \in Mode |-> Missing]
  /\ line' = [m \in Mode |-> <<>>]
  /\ stage' = [q \in Request |-> "none"]
  /\ print' = [q \in Request |-> Missing]
  /\ seen' = {source}
  /\ UNCHANGED <<source, files, mistaken>>

InThreadStep(q) ==
  Find(q) \/ Fingerprint(q) \/ Build(q) \/ LoadFails(q)

GraphStep ==
  \/ \E q \in Request : (\E m \in Mode : Ask(q, m)) \/ Enter(q) \/ InThreadStep(q)
  \/ \E c \in Contents : Replace(c)

----------------------------------------------------------------------------

(* graph.py (_source_fingerprint): no route is computed on an old map.  A   *)
(* graph in memory is of what the source has said since the process         *)
(* started, and one in a file of what the file is named after, unless the   *)
(* source was replaced between its fingerprint and its features.            *)
MapsAreOfTheirSource ==
  /\ \A c \in Contents, m \in Mode :
       files[c][m] \in {Missing, c} \/ <<c, m>> \in mistaken
  /\ \A m \in Mode :
       \/ memory[m] \in seen \cup {Missing}
       \/ \E c \in seen : <<c, m>> \in mistaken

(* get_graph: a request for a route is answered or refused, and a failed    *)
(* build lets the next in line try.                                         *)
RequestsLeave == \A q \in Request : Asking(q) ~> ~Asking(q)

=============================================================================
