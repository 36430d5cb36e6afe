------------------------------ MODULE Situation ------------------------------
(***************************************************************************)
(* What the screens say about a region: services/situation.py, the public   *)
(* page of api/v1/public.py and the envelope of schemas/common.py, over the *)
(* client of clients/gbsafe.py.                                             *)
(*                                                                          *)
(* A source is quiet, has a warning out, or cannot be read; the service     *)
(* puts what it reads of the sources of a question into one envelope.  Its  *)
(* answers are kept for Ttl ticks (core/cache.py, see TTLCache).  One       *)
(* request is looked at, and Refresh stands for all others; the calls of an *)
(* overview run side by side, and sources and clock go on between their     *)
(* answers.                                                                 *)
(***************************************************************************)
EXTENDS Naturals

CONSTANTS
  Overview,      \* OVERVIEW_HAZARDS
  Source,        \* connectors of the service
  SourcesOf,     \* SourcesOf[q]: the ones that answer question q
  Anything,      \* the question about no hazard in particular
  Weather,       \* source("weather_now"): asked each time
  Service,       \* "gbsafedata", the service itself
  Limited,       \* hazards whose capability has a caveat
  Ttl,           \* default_ttl_s, in ticks
  MaxTime        \* bound: ticks of the clock

Question == Overview \cup {Anything, Weather}

ASSUME SituationAssumption ==
  /\ SourcesOf \in [Question -> (SUBSET Source) \ {{}}]
  /\ Service \notin Source
  /\ {Anything, Weather} \cap Overview = {} /\ Anything # Weather
  /\ Limited \subseteq Overview
  /\ {Ttl, MaxTime} \subseteq Nat

VARIABLES
  now,        \* time.monotonic()
  condition,  \* condition[s]: "quiet", "alarmed" or "unreadable"
  quiet,      \* quiet[q]: last tick at which every source of q was quiet
  readable,   \* readable[s]: last tick at which s could be read
  kept,       \* kept[q]: answer in the cache, and when it came
  request,    \* the request under way, or the one answered last
  asked,      \* when it came in
  questions,  \* what it asks
  snapshots,  \* snapshots[q]: what it found, for the questions answered
  unverified, \* unverified_sources of the page
  sent        \* has the page gone out?

outside == <<now, condition, quiet, readable>>
page == <<request, asked, questions, snapshots, unverified, sent>>
situation == <<outside, kept, page>>

None == "none"
Malformed == <<>>   \* JSON that is no envelope: no source says anything

Condition == {"quiet", "alarmed", "unreadable"}
Answer(q) == [SourcesOf[q] -> Condition]
\* state and failed sources of an answer, and the first thing said about it.
Snapshot == [state : {"DATA", "NONE", "UNVERIFIED"}, failed : SUBSET (Source \cup {Service}),
             caveat : {"failed", "unread", "limited", "other"}]
Kind == {"overview", "context", "public", "weather"}

SituationTypeOK ==
  /\ now \in 0..MaxTime /\ asked \in 0..now
  /\ condition \in [Source -> Condition]
  /\ quiet \in [Question -> 0..now]
  /\ readable \in [Source -> 0..now]
  /\ \A q \in DOMAIN kept : kept[q].at \in 0..now /\ kept[q].answer \in Answer(q) \cup {Malformed}
  /\ request \in Kind \cup {None}
  /\ DOMAIN snapshots \subseteq questions /\ questions \subseteq Question
  /\ \A q \in DOMAIN snapshots : snapshots[q] \in Snapshot
  /\ unverified \subseteq Source \cup {Service}
  /\ sent \in BOOLEAN /\ sent => DOMAIN snapshots = questions

SituationInit ==
  /\ now = 0 /\ asked = 0
  /\ condition = [s \in Source |-> "quiet"]
  /\ quiet = [q \in Question |-> 0]
  /\ readable = [s \in Source |-> 0]
  /\ kept = <<>>
  /\ request = None /\ questions = {} /\ snapshots = <<>> /\ unverified = {} /\ sent = FALSE

----------------------------------------------------------------------------
(* The world outside.                                                       *)

\* When every source of a question was last quiet, and each could be read.
Observe(t) ==
  /\ quiet' = [q \in Question |->
                 IF \A s \in SourcesOf[q] : condition'[s] = "quiet" THEN t ELSE quiet[q]]
  /\ readable' = [s \in Source |-> IF condition'[s] # "unreadable" THEN t ELSE readable[s]]

SetCondition(s, c) ==
  /\ condition[s] # c
  /\ condition' = [condition EXCEPT ![s] = c]
  /\ Observe(now)
  /\ UNCHANGED <<now, kept, page>>

Tick ==
  /\ now < MaxTime
  /\ now' = now + 1
  /\ UNCHANGED condition
  /\ Observe(now')
  /\ UNCHANGED <<kept, page>>

----------------------------------------------------------------------------
(* The envelope made of an answer.                                          *)

Records(answer) == {s \in DOMAIN answer : answer[s] = "alarmed"}
FailedSources(answer) == {s \in DOMAIN answer : answer[s] = "unreadable"}

\* Slip: no records, no danger.
StateOf_NoRecords(answer) == IF Records(answer) # {} THEN "DATA" ELSE "NONE"

\* compute_state; the service is complete, and confirms the absence, only
\* if it could read every source.
StateOf(answer) ==
  IF Records(answer) # {} THEN "DATA"
  ELSE IF FailedSources(answer) = {} THEN "NONE"
  ELSE "UNVERIFIED"

\* headline_caveat; "other": stale records, a note of the service, or nothing.
Headline(answer, limited) ==
  IF FailedSources(answer) # {} THEN "unread" ELSE IF limited THEN "limited" ELSE "other"

IsLimited(kind, q) == kind \in {"overview", "context"} /\ q \in Limited

\* What a request of some kind makes of an answer.
SnapshotOf(kind, q, answer) ==
  [state |-> StateOf(answer), failed |-> FailedSources(answer),
   caveat |-> Headline(answer, IsLimited(kind, q))]

\* The weather: values and their state, nothing about sources.
WeatherSnapshot(answer) == [state |-> StateOf(answer), failed |-> {}, caveat |-> "other"]

\* What it makes of a call that failed.
NotRead(failed) == [state |-> "UNVERIFIED", failed |-> failed, caveat |-> "failed"]

----------------------------------------------------------------------------
(* The cache.                                                               *)

IsFresh(q) == q \in DOMAIN kept /\ now <= kept[q].at + Ttl

\* weather_now is not kept; a malformed answer is, like any JSON.
Keep(q, answer) ==
  kept' = IF q = Weather THEN kept
          ELSE [p \in DOMAIN kept \cup {q} |->
                  IF p = q THEN [answer |-> answer, at |-> now] ELSE kept[p]]

\* The service reads the sources of a question.
Reads(q) == {[s \in SourcesOf[q] |-> condition[s]], Malformed}

Pending == questions \ DOMAIN snapshots

Idle == request = None \/ sent

\* Another request, or what is left of one that failed, asks the service.
\* Nothing looks at the cache while the request waits.
Refresh(q) ==
  /\ Idle /\ q # Weather /\ ~IsFresh(q)
  /\ \E answer \in Reads(q) : Keep(q, answer)
  /\ UNCHANGED <<outside, page>>

----------------------------------------------------------------------------
(* A request.                                                               *)

QuestionsOf(kind) ==
  CASE kind = "overview" -> {Overview}
    [] kind = "context" -> {{q} : q \in Overview \cup {Anything}}
    [] kind = "public" -> {{Anything}}
    [] kind = "weather" -> {{Weather}}

\* Answered with an error.
Refuse ==
  /\ request' = None /\ asked' = 0 /\ questions' = {} /\ snapshots' = <<>>
  /\ unverified' = {} /\ sent' = FALSE

\* Only the public page copes with a malformed answer.
Copes(kind, answer) == answer # Malformed \/ kind = "public"

Shot(kind, q, answer) ==
  CASE answer = Malformed -> NotRead({})
    [] kind = "weather" -> WeatherSnapshot(answer)
    [] OTHER -> SnapshotOf(kind, q, answer)

\* Region and capabilities are there; so is at once what the cache has.
Ask(kind, qs) ==
  LET known == {q \in qs : IsFresh(q)}
  IN /\ Idle
     /\ IF \A q \in known : Copes(kind, kept[q].answer)
        THEN /\ request' = kind /\ asked' = now /\ questions' = qs
             /\ snapshots' = [q \in known |-> Shot(kind, q, kept[q].answer)]
             /\ unverified' = {} /\ sent' = FALSE
        ELSE Refuse
     /\ UNCHANGED <<outside, kept>>

Take(q, shot) ==
  /\ snapshots' = [p \in DOMAIN snapshots \cup {q} |-> IF p = q THEN shot ELSE snapshots[p]]
  /\ UNCHANGED <<request, asked, questions, unverified, sent>>

\* The service answers one of the calls.
Arrive(q) ==
  /\ q \in Pending
  /\ \E answer \in Reads(q) :
       /\ Keep(q, answer)
       /\ IF Copes(request, answer) THEN Take(q, Shot(request, q, answer)) ELSE Refuse
  /\ UNCHANGED outside

\* Slip: the hazard is left as it was.
Missed_Silently == [state |-> "UNVERIFIED", failed |-> {}, caveat |-> None]

\* A hazard of the overview that could not be asked about.
Missed == NotRead({Service})

\* A call raises UpstreamError.
Raise(q) ==
  /\ q \in Pending
  /\ CASE request = "overview" -> Take(q, Missed)
       [] request = "public" -> Take(q, NotRead({}))
       [] OTHER -> Refuse
  /\ UNCHANGED <<outside, kept>>

\* unverified_sources.
Unverified == UNION {snapshots[q].failed : q \in questions}

\* Everything is in: the page, which of an overview names what failed.
Send ==
  /\ request # None /\ Pending = {} /\ ~sent
  /\ sent' = TRUE
  /\ unverified' = IF request = "overview" THEN Unverified ELSE {}
  /\ UNCHANGED <<outside, kept, request, asked, questions, snapshots>>

----------------------------------------------------------------------------

SituationNext ==
  \/ \E s \in Source, c \in Condition : SetCondition(s, c)
  \/ Tick
  \/ \E q \in Question : Refresh(q) \/ Arrive(q) \/ Raise(q)
  \/ \E kind \in Kind : \E qs \in QuestionsOf(kind) : Ask(kind, qs)
  \/ Send

----------------------------------------------------------------------------

(* compute_state, through cache, overview and pages: where a page says that *)
(* nothing is wrong, every source of the question was quiet at some moment  *)
(* no longer than the cache's lifetime before the request; neither a source *)
(* that could not be read nor a call that failed reads as safety.           *)
AllClearIsEarned ==
  sent => \A q \in questions : snapshots[q].state = "NONE" => asked <= quiet[q] + Ttl

(* overview, headline_caveat, public_status: a source that could not be     *)
(* read since before any answer still in the cache is named by the          *)
(* overview, or the service is; and the headline of each question it        *)
(* concerns says so, whatever else there is to say.  (The weather has no    *)
(* headline.)                                                               *)
OutageIsNamed ==
  sent /\ request # "weather" => \A q \in questions : \A s \in SourcesOf[q] : readable[s] + Ttl < asked =>
    /\ snapshots[q].caveat \in {"unread", "failed"}
    /\ request = "overview" => unverified \cap {s, Service} # {}

=============================================================================
