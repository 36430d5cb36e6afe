---------------------------- MODULE AnswersProofs ----------------------------
(***************************************************************************)
(* Proofs about Answers: what an overview may conclude from its sources,    *)
(* and what a route owns up to, for any sources, questions, lifetimes,      *)
(* shelters, requests and predictions.                                      *)
(***************************************************************************)
EXTENDS Answers, FiniteSetTheorems, SequenceTheorems, WellFoundedInduction, NaturalsInduction,
        TLAPS

----------------------------------------------------------------------------
(* The situation: the inductive invariant.                                  *)

Shape ==
  /\ now \in Nat /\ asked \in Nat /\ asked <= now
  /\ condition \in [Source -> Condition]
  /\ quiet \in [Question -> Nat] /\ readable \in [Source -> Nat]
  /\ DOMAIN kept \subseteq Question
  /\ \A q \in DOMAIN kept : /\ kept[q].at \in Nat /\ kept[q].at <= now
                            /\ kept[q].answer \in Answer(q) \cup {Malformed}
  /\ request \in Kind \cup {None}
  /\ questions \subseteq Question /\ DOMAIN snapshots \subseteq questions
  /\ request = None => questions = {}
  /\ sent => DOMAIN snapshots = questions

\* The histories are up to date.
UpToDate ==
  /\ \A q \in Question : (\A s \in SourcesOf[q] : condition[s] = "quiet") => quiet[q] = now
  /\ \A s \in Source : condition[s] # "unreadable" => readable[s] = now
  /\ \A q \in Question : quiet[q] <= now
  /\ \A s \in Source : readable[s] <= now

\* What an answer to q that came at tick t says was so then.
WasTrue(q, answer, t) ==
  answer # Malformed =>
    /\ (\A s \in SourcesOf[q] : answer[s] = "quiet") => t <= quiet[q]
    /\ \A s \in SourcesOf[q] : answer[s] # "unreadable" => t <= readable[s]

KeptIsTrue == \A q \in DOMAIN kept : WasTrue(q, kept[q].answer, kept[q].at)

\* A snapshot of q, for a request of that kind made at tick t, neither claims
\* safety nor keeps silent about an outage without a reason.
IsEarned(kind, q, shot, t) ==
  /\ shot.state = "NONE" => t <= quiet[q] + Ttl
  /\ kind # "weather" => \A s \in SourcesOf[q] : readable[s] + Ttl < t =>
       /\ shot.caveat \in {"unread", "failed"}
       /\ kind = "overview" => shot.failed \cap {s, Service} # {}

SnapshotsAreEarned == \A q \in DOMAIN snapshots : IsEarned(request, q, snapshots[q], asked)

PageNames == sent /\ request = "overview" => unverified = Unverified

SituationInv ==
  /\ Shape
  /\ UpToDate
  /\ KeptIsTrue
  /\ SnapshotsAreEarned
  /\ PageNames

----------------------------------------------------------------------------
(* Its steps.                                                               *)

LEMMA SituationInitInv ==
  ASSUME SituationAssumption, SituationInit
  PROVE  SituationInv
<1>1. DOMAIN kept = {} /\ DOMAIN snapshots = {}
  BY DEF SituationInit
<1>2. Shape
  BY <1>1 DEF SituationInit, Shape, Condition
<1>3. UpToDate
  BY DEF SituationInit, UpToDate
<1> QED
  BY <1>1, <1>2, <1>3
  DEF SituationInit, SituationInv, KeptIsTrue, SnapshotsAreEarned, PageNames

\* Time passes or a source changes: the histories only grow.
LEMMA WorldInv ==
  ASSUME SituationAssumption, SituationInv, NEW t \in Nat, now' = t, now <= t,
         condition' \in [Source -> Condition], Observe(t), UNCHANGED <<kept, page>>
  PROVE  SituationInv'
<1>1. /\ SourcesOf \in [Question -> SUBSET Source]
      /\ now \in Nat /\ asked \in Nat /\ asked <= now
      /\ quiet \in [Question -> Nat] /\ readable \in [Source -> Nat] /\ Ttl \in Nat
      /\ \A q \in Question : quiet[q] <= now /\ \A s \in Source : readable[s] <= now
  BY DEF SituationAssumption, SituationInv, Shape, UpToDate
<1>2. /\ quiet' \in [Question -> Nat] /\ readable' \in [Source -> Nat]
      /\ \A q \in Question : quiet'[q] \in {t, quiet[q]}
      /\ \A q \in Question : (\A s \in SourcesOf[q] : condition'[s] = "quiet") => quiet'[q] = t
      /\ \A s \in Source : readable'[s] \in {t, readable[s]}
      /\ \A s \in Source : condition'[s] # "unreadable" => readable'[s] = t
  BY <1>1 DEF Observe
<1>3. \A q \in Question : quiet[q] \in Nat /\ quiet'[q] \in Nat
                          /\ quiet[q] <= quiet'[q] /\ quiet'[q] <= t
  <2>1. ASSUME NEW q \in Question
        PROVE  quiet[q] \in Nat /\ quiet'[q] \in Nat /\ quiet[q] <= quiet'[q] /\ quiet'[q] <= t
    <3>1. quiet[q] \in Nat /\ quiet[q] <= now /\ quiet'[q] \in {t, quiet[q]} /\ now \in Nat
      BY <1>1, <1>2, <2>1 DEF SituationInv, UpToDate
    <3> QED
      BY <3>1
  <2> QED
    BY <2>1
<1>4. \A s \in Source : readable[s] \in Nat /\ readable'[s] \in Nat
                        /\ readable[s] <= readable'[s] /\ readable'[s] <= t
  <2>1. ASSUME NEW s \in Source
        PROVE  readable[s] \in Nat /\ readable'[s] \in Nat
               /\ readable[s] <= readable'[s] /\ readable'[s] <= t
    <3>1. readable[s] \in Nat /\ readable[s] <= now /\ readable'[s] \in {t, readable[s]}
          /\ now \in Nat
      BY <1>1, <1>2, <2>1 DEF SituationInv, UpToDate
    <3> QED
      BY <3>1
  <2> QED
    BY <2>1
<1>5. \A q \in Question : SourcesOf[q] \subseteq Source
  BY <1>1
<1>6. UNCHANGED <<kept, request, asked, questions, snapshots, unverified, sent>>
  BY DEF page
<1>7. Shape'
  <2>1. asked <= t
    BY <1>1
  <2>2. \A q \in DOMAIN kept : kept[q].at \in Nat /\ kept[q].at <= t
                               /\ kept[q].answer \in Answer(q) \cup {Malformed}
    BY <1>1 DEF SituationInv, Shape
  <2> QED
    BY <1>2, <1>6, <2>1, <2>2 DEF SituationInv, Shape, Answer
<1>8. UpToDate'
  BY <1>2, <1>3, <1>4 DEF UpToDate
<1>9. KeptIsTrue'
  <2>1. ASSUME NEW q \in DOMAIN kept PROVE WasTrue(q, kept[q].answer, kept[q].at)'
    <3>1. PICK at : at = kept[q].at
      OBVIOUS
    <3>2. PICK answer : answer = kept[q].answer
      OBVIOUS
    <3>3. q \in Question /\ at \in Nat /\ WasTrue(q, answer, at)
      BY <3>1, <3>2 DEF SituationInv, Shape, KeptIsTrue
    <3>4. WasTrue(q, answer, at)'
      BY <1>3, <1>4, <1>5, <3>3 DEF WasTrue
    <3> QED
      BY <1>6, <3>1, <3>2, <3>4 DEF WasTrue
  <2> QED
    BY <1>6, <2>1 DEF KeptIsTrue
<1>10. SnapshotsAreEarned'
  <2>1. ASSUME NEW q \in DOMAIN snapshots
        PROVE  IsEarned(request, q, snapshots[q], asked)'
    <3>1. PICK shot : shot = snapshots[q]
      OBVIOUS
    <3>2. q \in Question /\ IsEarned(request, q, shot, asked)
      BY <3>1 DEF SituationInv, Shape, SnapshotsAreEarned
    <3>3. shot.state = "NONE" => asked <= quiet'[q] + Ttl
      BY <1>1, <1>3, <3>2 DEF IsEarned
    <3>4. \A s \in SourcesOf[q] : readable'[s] + Ttl < asked => readable[s] + Ttl < asked
      BY <1>1, <1>4, <1>5, <3>2
    <3> QED
      BY <1>6, <3>1, <3>2, <3>3, <3>4 DEF IsEarned
  <2> QED
    BY <1>6, <2>1 DEF SnapshotsAreEarned
<1>11. PageNames'
  BY <1>6 DEF SituationInv, PageNames, Unverified
<1> QED
  BY <1>7, <1>8, <1>9, <1>10, <1>11 DEF SituationInv

\* What the service answers is true of the moment.
LEMMA ReadIsTrue ==
  ASSUME SituationAssumption, SituationInv, NEW q \in Question, NEW answer \in Reads(q)
  PROVE  answer \in Answer(q) \cup {Malformed} /\ WasTrue(q, answer, now)
<1>1. SourcesOf[q] \subseteq Source
  BY DEF SituationAssumption
<1>2. CASE answer = Malformed
  BY <1>2 DEF WasTrue
<1>3. CASE answer = [s \in SourcesOf[q] |-> condition[s]]
  <2>1. answer \in Answer(q) /\ \A s \in SourcesOf[q] : answer[s] = condition[s]
    BY <1>1, <1>3 DEF Answer, SituationInv, Shape
  <2>2. now \in Nat /\ quiet[q] \in Nat /\ \A s \in SourcesOf[q] : readable[s] \in Nat
    BY <1>1 DEF SituationInv, Shape
  <2>3. (\A s \in SourcesOf[q] : answer[s] = "quiet") => now <= quiet[q]
    BY <2>1, <2>2 DEF SituationInv, UpToDate
  <2>4. \A s \in SourcesOf[q] : answer[s] # "unreadable" => now <= readable[s]
    BY <1>1, <2>1, <2>2 DEF SituationInv, UpToDate
  <2> QED
    BY <2>1, <2>3, <2>4 DEF WasTrue
<1> QED
  BY <1>2, <1>3 DEF Reads

\* The cache after an answer that has just been read.
LEMMA KeepInv ==
  ASSUME SituationAssumption, SituationInv, NEW q \in Question, NEW answer \in Reads(q),
         Keep(q, answer), UNCHANGED outside
  PROVE  /\ DOMAIN kept' \subseteq Question /\ KeptIsTrue'
         /\ \A p \in DOMAIN kept' : /\ kept'[p].at \in Nat /\ kept'[p].at <= now
                                    /\ kept'[p].answer \in Answer(p) \cup {Malformed}
<1>1. answer \in Answer(q) \cup {Malformed} /\ WasTrue(q, answer, now) /\ now \in Nat
  BY ReadIsTrue DEF SituationInv, Shape
<1>2. UNCHANGED <<now, quiet, readable>>
  BY DEF outside
<1>3. ASSUME NEW p \in DOMAIN kept'
      PROVE  /\ p \in Question /\ kept'[p].at \in Nat /\ kept'[p].at <= now
             /\ kept'[p].answer \in Answer(p) \cup {Malformed}
             /\ WasTrue(p, kept'[p].answer, kept'[p].at)
  <2>1. CASE p \in DOMAIN kept /\ kept'[p] = kept[p]
    BY <2>1 DEF SituationInv, Shape, KeptIsTrue
  <2>2. CASE p = q /\ kept'[p] = [answer |-> answer, at |-> now]
    <3>1. kept'[p].at = now /\ kept'[p].answer = answer
      BY <2>2
    <3>2. p \in Question /\ answer \in Answer(p) \cup {Malformed} /\ WasTrue(p, answer, now)
          /\ now <= now
      BY <1>1, <2>2
    <3> QED
      BY <1>1, <3>1, <3>2
  <2> QED
    BY <1>3, <2>1, <2>2 DEF Keep
<1>4. KeptIsTrue'
  <2>1. ASSUME NEW p \in DOMAIN kept' PROVE WasTrue(p, kept[p].answer, kept[p].at)'
    BY <1>2, <1>3 DEF WasTrue
  <2> QED
    BY <2>1 DEF KeptIsTrue
<1> QED
  BY <1>3, <1>4

LEMMA RefreshInv ==
  ASSUME SituationAssumption, SituationInv, NEW q \in Question, Refresh(q)
  PROVE  SituationInv'
<1>1. PICK answer \in Reads(q) : Keep(q, answer)
  BY DEF Refresh
<1>2. UNCHANGED outside /\ UNCHANGED page
  BY DEF Refresh
<1>3. /\ DOMAIN kept' \subseteq Question /\ KeptIsTrue'
      /\ \A p \in DOMAIN kept' : /\ kept'[p].at \in Nat /\ kept'[p].at <= now
                                 /\ kept'[p].answer \in Answer(p) \cup {Malformed}
  BY <1>1, <1>2, KeepInv
<1>4. /\ UNCHANGED <<now, condition, quiet, readable>>
      /\ UNCHANGED <<request, asked, questions, snapshots, unverified, sent>>
  BY <1>2 DEF outside, page
<1>5. Shape'
  BY <1>3, <1>4 DEF SituationInv, Shape, Answer
<1>6. UpToDate'
  BY <1>4 DEF SituationInv, UpToDate
<1>7. SnapshotsAreEarned'
  BY <1>4 DEF SituationInv, SnapshotsAreEarned, IsEarned
<1>8. PageNames'
  BY <1>4 DEF SituationInv, PageNames, Unverified
<1> QED
  BY <1>3, <1>5, <1>6, <1>7, <1>8 DEF SituationInv

\* What a request makes of an answer that was true at t, when the cache may
\* keep it that long.
LEMMA ShotIsEarned ==
  ASSUME SituationAssumption, Shape, NEW q \in Question, NEW kind \in Kind,
         NEW answer \in Answer(q) \cup {Malformed}, NEW t \in Nat, NEW since \in Nat,
         WasTrue(q, answer, t), since <= t + Ttl, Copes(kind, answer)
  PROVE  IsEarned(kind, q, Shot(kind, q, answer), since)
<1>1. PICK shot : shot = Shot(kind, q, answer)
  OBVIOUS
<1>2. SourcesOf[q] \subseteq Source /\ Ttl \in Nat /\ quiet[q] \in Nat
      /\ \A s \in SourcesOf[q] : readable[s] \in Nat
  BY DEF SituationAssumption, Shape
<1>3. CASE answer = Malformed
  <2>1. kind = "public" /\ shot = NotRead({})
    BY <1>1, <1>3 DEF Copes, Shot
  <2>2. shot.state = "UNVERIFIED" /\ shot.caveat = "failed"
    BY <2>1 DEF NotRead
  <2> QED
    BY <1>1, <2>1, <2>2 DEF IsEarned
<1>4. CASE answer # Malformed
  <2>1. answer \in Answer(q) /\ DOMAIN answer = SourcesOf[q]
        /\ \A s \in SourcesOf[q] : answer[s] \in Condition
    BY <1>4 DEF Answer
  <2>2. shot = IF kind = "weather" THEN WeatherSnapshot(answer) ELSE SnapshotOf(kind, q, answer)
    BY <1>1, <1>4 DEF Shot
  <2>3. shot.state = StateOf(answer)
    BY <2>2 DEF WeatherSnapshot, SnapshotOf
  <2>4. ASSUME shot.state = "NONE" PROVE since <= quiet[q] + Ttl
    <3>1. Records(answer) = {} /\ FailedSources(answer) = {}
      BY <2>3, <2>4 DEF StateOf
    <3>2. \A s \in SourcesOf[q] : answer[s] = "quiet"
      BY <2>1, <3>1 DEF Records, FailedSources, Condition
    <3>3. t <= quiet[q]
      BY <1>4, <3>2 DEF WasTrue
    <3> QED
      BY <1>2, <3>3
  <2>5. ASSUME kind # "weather", NEW s \in SourcesOf[q], readable[s] + Ttl < since
        PROVE  /\ shot.caveat \in {"unread", "failed"}
               /\ kind = "overview" => shot.failed \cap {s, Service} # {}
    <3>1. ~(t <= readable[s])
      BY <1>2, <2>5
    <3>2. s \in FailedSources(answer)
      BY <1>4, <2>1, <3>1 DEF WasTrue, FailedSources
    <3>3. shot = SnapshotOf(kind, q, answer)
      BY <2>2, <2>5
    <3>4. shot.failed = FailedSources(answer) /\ shot.caveat = Headline(answer, IsLimited(kind, q))
      BY <3>3 DEF SnapshotOf
    <3> QED
      BY <3>2, <3>4 DEF Headline
  <2> QED
    BY <1>1, <2>4, <2>5 DEF IsEarned
<1> QED
  BY <1>3, <1>4

\* The cache is in order after this step.
KeptInv ==
  /\ DOMAIN kept \subseteq Question /\ KeptIsTrue
  /\ \A q \in DOMAIN kept : /\ kept[q].at \in Nat /\ kept[q].at <= now
                            /\ kept[q].answer \in Answer(q) \cup {Malformed}

LEMMA SameKept ==
  ASSUME SituationInv, UNCHANGED <<outside, kept>>
  PROVE  KeptInv'
<1>1. UNCHANGED <<now, quiet, readable, kept>>
  BY DEF outside
<1>2. KeptIsTrue'
  BY <1>1 DEF SituationInv, KeptIsTrue, WasTrue
<1> QED
  BY <1>1, <1>2 DEF SituationInv, Shape, KeptInv, Answer

LEMMA RefuseInv ==
  ASSUME SituationInv, Refuse, UNCHANGED outside, KeptInv'
  PROVE  SituationInv'
<1>1. UNCHANGED <<now, condition, quiet, readable>>
  BY DEF outside
<1>2. request' = None /\ asked' = 0 /\ questions' = {} /\ snapshots' = <<>> /\ sent' = FALSE
      /\ DOMAIN <<>> = {}
  BY DEF Refuse
<1>3. Shape'
  BY <1>1, <1>2 DEF SituationInv, Shape, KeptInv
<1>4. UpToDate'
  BY <1>1 DEF SituationInv, UpToDate
<1> QED
  BY <1>2, <1>3, <1>4 DEF SituationInv, KeptInv, SnapshotsAreEarned, PageNames

\* The request goes on with one snapshot more.
LEMMA TakeInv ==
  ASSUME SituationInv, NEW q \in Pending, NEW shot, Take(q, shot),
         IsEarned(request, q, shot, asked), UNCHANGED outside, KeptInv'
  PROVE  SituationInv'
<1>1. UNCHANGED <<now, condition, quiet, readable>>
  BY DEF outside
<1>2. /\ UNCHANGED <<request, asked, questions, unverified, sent>>
      /\ DOMAIN snapshots' = DOMAIN snapshots \cup {q} /\ snapshots'[q] = shot
      /\ \A p \in DOMAIN snapshots : p # q => snapshots'[p] = snapshots[p]
  BY DEF Take
<1>3. q \in questions /\ ~sent
  BY DEF Pending, SituationInv, Shape
<1>4. Shape'
  BY <1>1, <1>2, <1>3 DEF SituationInv, Shape, KeptInv
<1>5. UpToDate'
  BY <1>1 DEF SituationInv, UpToDate
<1>6. SnapshotsAreEarned'
  <2>1. ASSUME NEW p \in DOMAIN snapshots' PROVE IsEarned(request, p, snapshots[p], asked)'
    <3>1. CASE p = q
      BY <1>1, <1>2, <3>1 DEF IsEarned
    <3>2. CASE p # q
      <4>1. p \in DOMAIN snapshots /\ snapshots'[p] = snapshots[p]
        BY <1>2, <2>1, <3>2
      <4>2. IsEarned(request, p, snapshots[p], asked)
        BY <4>1 DEF SituationInv, SnapshotsAreEarned
      <4> QED
        BY <1>1, <1>2, <4>1, <4>2 DEF IsEarned
    <3> QED
      BY <3>1, <3>2
  <2> QED
    BY <2>1 DEF SnapshotsAreEarned
<1>7. PageNames'
  BY <1>2, <1>3 DEF PageNames
<1> QED
  BY <1>4, <1>5, <1>6, <1>7 DEF SituationInv, KeptInv

LEMMA ArriveInv ==
  ASSUME SituationAssumption, SituationInv, NEW q \in Question, Arrive(q)
  PROVE  SituationInv'
<1>1. PICK answer \in Reads(q) :
        /\ Keep(q, answer)
        /\ IF Copes(request, answer) THEN Take(q, Shot(request, q, answer)) ELSE Refuse
  BY DEF Arrive
<1>2. UNCHANGED outside /\ UNCHANGED now /\ q \in Pending
  BY DEF Arrive, outside
<1>3. KeptInv'
  BY <1>1, <1>2, KeepInv DEF KeptInv, Answer
<1>4. CASE ~Copes(request, answer)
  BY <1>1, <1>2, <1>3, <1>4, RefuseInv
<1>5. CASE Copes(request, answer)
  <2>1. answer \in Answer(q) \cup {Malformed} /\ WasTrue(q, answer, now)
    BY ReadIsTrue
  <2>2. now \in Nat /\ asked \in Nat /\ asked <= now + Ttl
    BY DEF SituationInv, Shape, SituationAssumption
  <2>3. ASSUME request \in Kind PROVE IsEarned(request, q, Shot(request, q, answer), asked)
    BY <1>5, <2>1, <2>2, <2>3, ShotIsEarned DEF SituationInv
  <2>4. request \in Kind
    BY <1>2 DEF Pending, SituationInv, Shape
  <2> QED
    BY <1>1, <1>2, <1>3, <1>5, <2>3, <2>4, TakeInv
<1> QED
  BY <1>4, <1>5

LEMMA RaiseInv ==
  ASSUME SituationAssumption, SituationInv, NEW q \in Question, Raise(q)
  PROVE  SituationInv'
<1>1. UNCHANGED outside /\ q \in Pending /\ KeptInv'
  BY SameKept DEF Raise
<1>2. CASE request = "overview"
  <2>1. Take(q, Missed)
    BY <1>2 DEF Raise
  <2>2. Missed.state = "UNVERIFIED" /\ Missed.caveat = "failed" /\ Missed.failed = {Service}
    BY DEF Missed, NotRead
  <2>3. IsEarned(request, q, Missed, asked)
    BY <2>2 DEF IsEarned
  <2> QED
    BY <1>1, <2>1, <2>3, TakeInv
<1>3. CASE request = "public"
  <2>1. PICK shot : shot = NotRead({})
    OBVIOUS
  <2>2. Take(q, shot)
    BY <1>3, <2>1 DEF Raise
  <2>3. shot.state = "UNVERIFIED" /\ shot.caveat = "failed"
    BY <2>1 DEF NotRead
  <2>4. IsEarned(request, q, shot, asked)
    BY <1>3, <2>3 DEF IsEarned
  <2> QED
    BY <1>1, <2>2, <2>4, TakeInv
<1>4. CASE request \notin {"overview", "public"}
  <2>1. Refuse
    BY <1>4 DEF Raise
  <2> QED
    BY <1>1, <2>1, RefuseInv
<1> QED
  BY <1>2, <1>3, <1>4

LEMMA KindIsSome == None \notin Kind
BY DEF None, Kind

LEMMA AskInv ==
  ASSUME SituationAssumption, SituationInv, NEW kind \in Kind, NEW qs \in QuestionsOf(kind),
         Ask(kind, qs)
  PROVE  SituationInv'
<1>1. UNCHANGED outside /\ UNCHANGED <<outside, kept>>
  BY DEF Ask
<1>2. UNCHANGED <<now, condition, quiet, readable>>
  BY <1>1 DEF outside
<1>3. KeptInv'
  BY <1>1, SameKept
<1>4. PICK ready : ready = {q \in qs : IsFresh(q)}
  OBVIOUS
<1>5. CASE \A q \in ready : Copes(kind, kept[q].answer)
  <2>1. /\ request' = kind /\ asked' = now /\ questions' = qs
        /\ snapshots' = [q \in ready |-> Shot(kind, q, kept[q].answer)]
        /\ sent' = FALSE
    BY <1>4, <1>5 DEF Ask
  <2>2. qs \subseteq Question
    BY DEF QuestionsOf, Kind, Question
  <2>3. ready \subseteq qs /\ now <= now /\ now \in Nat
    BY <1>4 DEF SituationInv, Shape
  <2>4. Shape'
    BY <1>2, <1>3, <2>1, <2>2, <2>3, KindIsSome DEF SituationInv, Shape, KeptInv
  <2>5. UpToDate'
    BY <1>2 DEF SituationInv, UpToDate
  <2>6. ASSUME NEW q \in ready PROVE IsEarned(request, q, snapshots[q], asked)'
    <3>1. PICK answer : answer = kept[q].answer
      OBVIOUS
    <3>2. PICK at : at = kept[q].at
      OBVIOUS
    <3>3. q \in DOMAIN kept /\ now <= at + Ttl /\ Copes(kind, answer)
      BY <1>4, <1>5, <3>1, <3>2 DEF IsFresh
    <3>4. q \in Question /\ at \in Nat /\ answer \in Answer(q) \cup {Malformed}
          /\ WasTrue(q, answer, at)
      BY <2>2, <2>3, <3>1, <3>2, <3>3 DEF SituationInv, Shape, KeptIsTrue
    <3>5. IsEarned(kind, q, Shot(kind, q, answer), now)
      BY <2>3, <3>3, <3>4, ShotIsEarned DEF SituationInv
    <3>6. snapshots'[q] = Shot(kind, q, answer)
      BY <2>1, <3>1
    <3> QED
      BY <1>2, <2>1, <3>5, <3>6 DEF IsEarned
  <2>7. SnapshotsAreEarned'
    BY <2>1, <2>6 DEF SnapshotsAreEarned
  <2>8. PageNames'
    BY <2>1 DEF PageNames
  <2> QED
    BY <1>3, <2>4, <2>5, <2>7, <2>8 DEF SituationInv, KeptInv
<1>6. CASE ~(\A q \in ready : Copes(kind, kept[q].answer))
  <2>1. Refuse
    BY <1>4, <1>6 DEF Ask
  <2> QED
    BY <1>1, <1>3, <2>1, RefuseInv
<1> QED
  BY <1>5, <1>6

LEMMA SendInv ==
  ASSUME SituationInv, Send
  PROVE  SituationInv'
<1>1. /\ UNCHANGED <<outside, kept>> /\ UNCHANGED <<request, asked, questions, snapshots>>
      /\ Pending = {} /\ unverified' = IF request = "overview" THEN Unverified ELSE {}
  BY DEF Send
<1>2. UNCHANGED <<now, condition, quiet, readable>>
  BY <1>1 DEF outside
<1>3. KeptInv'
  BY <1>1, SameKept
<1>4. DOMAIN snapshots = questions
  BY <1>1 DEF Pending, SituationInv, Shape
<1>5. Shape'
  BY <1>1, <1>2, <1>3, <1>4 DEF SituationInv, Shape, KeptInv
<1>6. UpToDate'
  BY <1>2 DEF SituationInv, UpToDate
<1>7. SnapshotsAreEarned'
  BY <1>1, <1>2 DEF SituationInv, SnapshotsAreEarned, IsEarned
<1>8. PageNames'
  BY <1>1 DEF PageNames, Unverified
<1> QED
  BY <1>3, <1>5, <1>6, <1>7, <1>8 DEF SituationInv, KeptInv

\* Nothing of the situation changes.
LEMMA SituationAside ==
  ASSUME SituationInv, UNCHANGED situation
  PROVE  SituationInv'
<1>1. UNCHANGED <<outside, kept>> /\ UNCHANGED page
  BY DEF situation
<1>2. /\ UNCHANGED <<now, condition, quiet, readable>>
      /\ UNCHANGED <<request, asked, questions, snapshots, unverified, sent>>
  BY <1>1 DEF outside, page
<1>3. KeptInv'
  BY <1>1, SameKept
<1>4. Shape'
  BY <1>2, <1>3 DEF SituationInv, Shape, KeptInv
<1>5. UpToDate'
  BY <1>2 DEF SituationInv, UpToDate
<1>6. SnapshotsAreEarned'
  BY <1>2 DEF SituationInv, SnapshotsAreEarned, IsEarned
<1>7. PageNames'
  BY <1>2 DEF SituationInv, PageNames, Unverified
<1> QED
  BY <1>3, <1>4, <1>5, <1>6, <1>7 DEF SituationInv, KeptInv

LEMMA SituationNextInv ==
  ASSUME SituationAssumption, SituationInv, SituationNext
  PROVE  SituationInv'
<1>1. ASSUME NEW s \in Source, NEW c \in Condition, SetCondition(s, c) PROVE SituationInv'
  <2>1. now \in Nat /\ now <= now /\ condition' \in [Source -> Condition]
    BY <1>1 DEF SetCondition, SituationInv, Shape
  <2> QED
    BY <1>1, <2>1, WorldInv DEF SetCondition
<1>2. CASE Tick
  <2>1. now + 1 \in Nat /\ now <= now + 1 /\ condition' \in [Source -> Condition]
    BY <1>2 DEF Tick, SituationInv, Shape
  <2> QED
    BY <1>2, <2>1, WorldInv DEF Tick
<1> QED
  BY <1>1, <1>2, RefreshInv, ArriveInv, RaiseInv, AskInv, SendInv DEF SituationNext

----------------------------------------------------------------------------
(* The route: the inductive invariant.                                      *)

\* A horizon that was asked for is still ahead, in the plan, or owned up to.
Accounted(h) ==
  h \in waiting \cup unheard \cup DOMAIN slices \/ "foreign" \in warnings

RouteInv ==
  /\ DOMAIN heard = DOMAIN slices
  /\ step \in {"idle", "shelters", "capability"} => DOMAIN slices = {}
  /\ step = "reports" => waiting = {}
  /\ step \in {"predictions", "reports"} =>
       /\ order.prediction /\ order.modelled => \A h \in order.horizons : Accounted(h)
       /\ order.prediction /\ ~order.modelled => "no model" \in warnings
       /\ ~order.prediction => "no prediction" \in warnings
       /\ limited = "unknown" => "no capability" \in warnings
       /\ \A h \in DOMAIN slices : heard[h].grid # "placed" => "assumed" \in warnings
  /\ LeftOutIsTold

LEMMA RouteInitInv ==
  ASSUME RouteInit
  PROVE  RouteInv
<1>1. DOMAIN slices = {} /\ DOMAIN heard = {} /\ step = "idle"
  BY DEF RouteInit
<1> QED
  BY <1>1 DEF RouteInv, LeftOutIsTold

\* A step that leaves the answer under way as it is.
LEMMA RouteAside ==
  ASSUME RouteInv, UNCHANGED <<order, step, limited, field, warnings, recommended>>
  PROVE  RouteInv'
<1>1. UNCHANGED <<waiting, slices, heard, unheard>>
  BY DEF field
<1>2. \A h : Accounted(h)' <=> Accounted(h)
  BY <1>1 DEF Accounted
<1>3. LeftOutIsTold'
  BY <1>1 DEF RouteInv, LeftOutIsTold
<1> QED
  BY <1>1, <1>2, <1>3 DEF RouteInv

\* A step before the service is asked.
LEMMA EarlyInv ==
  ASSUME RouteInv, step \in {"idle", "shelters"}, UNCHANGED field,
         step' \in {"shelters", "capability", "not found"}
  PROVE  RouteInv'
<1>1. UNCHANGED <<waiting, slices, heard, unheard>>
  BY DEF field
<1>2. LeftOutIsTold'
  BY DEF LeftOutIsTold
<1> QED
  BY <1>1, <1>2 DEF RouteInv

LEMMA CheckCapabilityInv ==
  ASSUME RouteInv, NEW answer, CheckCapability(answer)
  PROVE  RouteInv'
<1>1. /\ step = "capability" /\ limited' = answer
      /\ UNCHANGED <<order, slices, heard, unheard, recommended>>
      /\ DOMAIN slices = {} /\ DOMAIN heard = {}
  BY DEF CheckCapability, given, RouteInv
<1>2. answer = "unknown" => "no capability" \in Unasked(answer)
  BY DEF Unasked
<1>3. CASE candidates = <<>>
  <2>1. step' \in {"no guidance", "not found"} /\ warnings' = Unasked(answer)
    BY <1>3 DEF CheckCapability
  <2>2. LeftOutIsTold'
    BY <1>1, <1>2, <2>1 DEF LeftOutIsTold
  <2> QED
    BY <1>1, <2>1, <2>2 DEF RouteInv
<1>4. CASE candidates # <<>>
  <2>1. /\ step' = IF Ahead # {} THEN "predictions" ELSE "reports"
        /\ warnings' = Unasked(answer) \cup Beforehand /\ waiting' = Ahead
    BY <1>4 DEF CheckCapability
  <2>2. /\ order.prediction /\ ~order.modelled => "no model" \in warnings'
        /\ ~order.prediction => "no prediction" \in warnings'
        /\ answer = "unknown" => "no capability" \in warnings'
    BY <1>2, <2>1 DEF Beforehand
  <2>3. order.prediction /\ order.modelled => \A h \in order.horizons : Accounted(h)'
    BY <2>1 DEF Ahead, Accounted
  <2>4. step' \in {"predictions", "reports"} /\ (step' = "reports" => waiting' = {})
    BY <2>1
  <2>5. LeftOutIsTold'
    BY <2>4 DEF LeftOutIsTold
  <2> QED
    BY <1>1, <2>2, <2>3, <2>4, <2>5 DEF RouteInv
<1> QED
  BY <1>3, <1>4

\* The prediction for the next horizon has come, or will not.
LEMMA HorizonInv ==
  ASSUME RouteInv, step = "predictions", NEW h,
         waiting' = waiting \ {h}, step' = IF waiting' = {} THEN "reports" ELSE step,
         UNCHANGED <<order, limited>>, warnings \subseteq warnings',
         unheard \subseteq unheard', DOMAIN heard' = DOMAIN slices',
         DOMAIN slices \subseteq DOMAIN slices',
         h \in unheard' \cup DOMAIN slices' \/ "foreign" \in warnings',
         \A g \in DOMAIN slices' : heard'[g].grid # "placed" => "assumed" \in warnings'
  PROVE  RouteInv'
<1>1. step' \in {"predictions", "reports"} /\ (step' = "reports" => waiting' = {})
  OBVIOUS
<1>2. \A g : Accounted(g) => Accounted(g)'
  BY DEF Accounted
<1>3. LeftOutIsTold'
  BY <1>1 DEF LeftOutIsTold
<1>4. /\ order.prediction /\ order.modelled => \A g \in order.horizons : Accounted(g)
      /\ order.prediction /\ ~order.modelled => "no model" \in warnings
      /\ ~order.prediction => "no prediction" \in warnings
      /\ limited = "unknown" => "no capability" \in warnings
  BY DEF RouteInv
<1> QED
  BY <1>1, <1>2, <1>3, <1>4 DEF RouteInv

LEMMA PredictedInv ==
  ASSUME RouteInv, NEW prediction \in Prediction, Predicted(prediction)
  PROVE  RouteInv'
<1>1. PICK h : h = NextHorizon
  OBVIOUS
<1>2. /\ step = "predictions" /\ waiting' = waiting \ {h}
      /\ step' = IF waiting' = {} THEN "reports" ELSE step
      /\ UNCHANGED <<order, limited>>
      /\ unheard' = unheard \cup Unreadable(h, prediction)
      /\ warnings' = warnings \cup Placed(prediction)
  BY <1>1 DEF Predicted, Went, given
<1>3. /\ DOMAIN heard = DOMAIN slices
      /\ \A g \in DOMAIN slices : heard[g].grid # "placed" => "assumed" \in warnings
  BY <1>2 DEF RouteInv
<1>4. CASE Readable(prediction)
  <2>1. /\ DOMAIN slices' = DOMAIN slices \cup {h} /\ DOMAIN heard' = DOMAIN heard \cup {h}
        /\ \A g \in DOMAIN heard \cup {h} : heard'[g] = IF g = h THEN prediction ELSE heard[g]
    BY <1>1, <1>4 DEF Predicted
  <2>2. prediction.grid # "placed" => "assumed" \in warnings'
    BY <1>2, <1>4 DEF Readable, Placed
  <2>3. \A g \in DOMAIN slices' : heard'[g].grid # "placed" => "assumed" \in warnings'
    BY <1>2, <1>3, <2>1, <2>2
  <2> QED
    BY <1>2, <1>3, <2>1, <2>3, HorizonInv
<1>5. CASE ~Readable(prediction)
  <2>1. slices' = slices /\ heard' = heard
    BY <1>5 DEF Predicted
  <2>2. h \in unheard' \/ "foreign" \in warnings'
    BY <1>2, <1>5 DEF Unreadable, Placed
  <2>3. \A g \in DOMAIN slices' : heard'[g].grid # "placed" => "assumed" \in warnings'
    BY <1>2, <1>3, <2>1
  <2> QED
    BY <1>2, <1>3, <2>1, <2>2, <2>3, HorizonInv
<1> QED
  BY <1>4, <1>5

LEMMA PredictionFailsInv ==
  ASSUME RouteInv, PredictionFails
  PROVE  RouteInv'
<1>1. PICK h : h = NextHorizon
  OBVIOUS
<1>2. /\ step = "predictions" /\ waiting' = waiting \ {h}
      /\ step' = IF waiting' = {} THEN "reports" ELSE step
      /\ UNCHANGED <<order, limited, slices, heard, warnings>>
      /\ unheard' = unheard \cup {h}
  BY <1>1 DEF PredictionFails, Went, given
<1> QED
  BY <1>2, HorizonInv DEF RouteInv

LEMMA PlanInv ==
  ASSUME RouteInv, Plan
  PROVE  RouteInv'
<1>1. /\ step = "reports" /\ step' = "planned" /\ UNCHANGED <<order, limited, waiting, unheard>>
      /\ slices' = Field /\ heard' = IF Synthetic THEN <<>> ELSE heard
      /\ warnings' = warnings \cup (IF Synthetic THEN {"synthetic"} ELSE {})
                              \cup (IF recommended' = {} THEN {"no way"} ELSE {})
  BY DEF Plan, given
<1>2. /\ waiting = {} /\ DOMAIN heard = DOMAIN slices
      /\ order.prediction /\ order.modelled => \A h \in order.horizons : Accounted(h)
      /\ order.prediction /\ ~order.modelled => "no model" \in warnings
      /\ ~order.prediction => "no prediction" \in warnings
      /\ limited = "unknown" => "no capability" \in warnings
      /\ \A h \in DOMAIN slices : heard[h].grid # "placed" => "assumed" \in warnings
  BY <1>1 DEF RouteInv
<1>3. warnings \subseteq warnings' /\ (Synthetic => "synthetic" \in warnings')
      /\ (recommended' = {} => "no way" \in warnings')
  BY <1>1
<1>4. DOMAIN slices' = (IF Synthetic THEN {} ELSE DOMAIN slices) /\ DOMAIN heard' = DOMAIN slices'
      /\ \A h \in DOMAIN slices' : h \in DOMAIN slices /\ heard'[h] = heard[h]
  <2>1. CASE Synthetic
    <3>1. slices' = <<>> /\ heard' = <<>>
      BY <1>1, <2>1 DEF Field
    <3>2. DOMAIN slices' = {} /\ DOMAIN heard' = {}
      BY <3>1
    <3> QED
      BY <2>1, <3>2
  <2>2. CASE ~Synthetic
    <3>1. slices' = slices /\ heard' = heard
      BY <1>1, <2>2 DEF Field
    <3> QED
      BY <1>2, <2>2, <3>1
  <2> QED
    BY <2>1, <2>2
<1>5. order.prediction => \A h \in order.horizons :
        h \in DOMAIN slices' \cup unheard'
          \/ warnings' \cap {"no model", "foreign", "synthetic"} # {}
  <2>1. CASE ~order.modelled
    BY <1>2, <1>3, <2>1
  <2>2. CASE Synthetic
    BY <1>3, <2>2
  <2>3. CASE order.modelled /\ ~Synthetic
    <3>1. order.prediction => \A h \in order.horizons :
            h \in unheard \cup DOMAIN slices \/ "foreign" \in warnings
      BY <1>2, <2>3 DEF Accounted
    <3> QED
      BY <1>1, <1>3, <1>4, <2>3, <3>1
  <2> QED
    BY <2>1, <2>2, <2>3
<1>6. \A h \in DOMAIN slices' : heard'[h].grid # "placed" => "assumed" \in warnings'
  BY <1>2, <1>3, <1>4
<1>7. LeftOutIsTold'
  BY <1>1, <1>2, <1>3, <1>5, <1>6 DEF LeftOutIsTold
<1> QED
  BY <1>1, <1>4, <1>7 DEF RouteInv

\* _stub_prediction is a prediction like others.
LEMMA StubIsPrediction ==
  ASSUME RouteAssumption
  PROVE  Stub \in Prediction
<1>1. {Origin} \in SUBSET Place
  BY DEF RouteAssumption
<1> QED
  BY <1>1 DEF Stub, Prediction

LEMMA RouteNextInv ==
  ASSUME RouteAssumption, RouteInv, RouteNext
  PROVE  RouteInv'
<1>1. ASSUME NEW s \in Shelter, Register(s) PROVE RouteInv'
  BY <1>1, RouteAside DEF Register
<1>2. ASSUME NEW p \in Place, ReportClosure(p) PROVE RouteInv'
  BY <1>2, RouteAside DEF ReportClosure
<1>3. ASSUME NEW wanted \in Orders, AskRoute(wanted) PROVE RouteInv'
  BY <1>3, EarlyInv DEF AskRoute
<1>4. CASE FindShelters
  <2>1. step = "shelters" /\ step' \in {"capability", "not found"} /\ UNCHANGED field
    BY <1>4 DEF FindShelters
  <2> QED
    BY <2>1, EarlyInv
<1>5. ASSUME NEW prediction \in Predictions \cup {Stub}, Predicted(prediction) PROVE RouteInv'
  BY <1>5, StubIsPrediction, PredictedInv DEF RouteAssumption
<1> QED
  BY <1>1, <1>2, <1>3, <1>4, <1>5, CheckCapabilityInv, PredictionFailsInv, PlanInv DEF RouteNext

\* Nothing of the route changes.
LEMMA RouteStutter ==
  ASSUME RouteInv, UNCHANGED route
  PROVE  RouteInv'
BY RouteAside DEF route, field

----------------------------------------------------------------------------
(* The best shelter: arithmetic and sorting.                                *)

\* A nonempty set of naturals has a least element, which Min returns.
LEMMA MinIsLeast ==
  ASSUME NEW S \in SUBSET Nat, S # {}
  PROVE  Min(S) \in S /\ \A y \in S : Min(S) <= y
<1> DEFINE Less == {pair \in Nat \X Nat : pair[1] < pair[2]}
<1>1. IsWellFoundedOn(Less, Nat)
  BY NatLessThanWellFounded DEF OpToRel
<1>2. PICK x \in S : \A y \in S : <<y, x>> \notin Less
  <2> HIDE DEF Less
  <2> QED
    BY <1>1, WFMin
<1>3. \A y \in S : x <= y
  <2>1. SUFFICES ASSUME NEW y \in S, ~(x <= y) PROVE FALSE
    OBVIOUS
  <2>2. x \in Nat /\ y \in Nat
    BY <1>2, SMT
  <2>3. <<y, x>> \in Nat \X Nat /\ <<y, x>>[1] < <<y, x>>[2]
    BY <2>1, <2>2, SMT
  <2>4. <<y, x>> \in Less
    BY <2>3, Zenon
  <2> QED
    BY <1>2, <2>4, Zenon
<1> QED
  BY <1>2, <1>3 DEF Min

\* A nonempty set of bounded naturals has a greatest element, which Max returns.
LEMMA MaxIsGreatest ==
  ASSUME NEW B \in Nat, NEW S \in SUBSET (0..B), S # {}
  PROVE  Max(S) \in S /\ \A y \in S : Max(S) >= y
<1> DEFINE Gaps == {B - x : x \in S}
<1>1. \A x \in S : x \in Nat /\ B - x \in Nat
  BY SMT
<1>2. Gaps \in SUBSET Nat /\ Gaps # {}
  BY <1>1, Zenon
<1>3. Min(Gaps) \in Gaps /\ \A g \in Gaps : Min(Gaps) <= g
  BY <1>2, MinIsLeast, Zenon
<1>4. PICK x \in S : B - x = Min(Gaps)
  BY <1>3, Zenon
<1>5. \A y \in S : B - x <= B - y
  BY <1>3, <1>4, Zenon
<1>6. \A y \in S : x >= y
  BY <1>1, <1>4, <1>5, SMT
<1> QED
  BY <1>4, <1>6 DEF Max

\* A leg, of a search or of none.
IsLeg(leg) == leg.found \in BOOLEAN /\ leg.minutes \in Nat

\* No leg is in front of some leg.
LEMMA SomethingIsFirst ==
  ASSUME NEW n \in Nat \ {0}, NEW all, DOMAIN all = 1..n, \A i \in 1..n : IsLeg(all[i])
  PROVE  \E i \in 1..n : InFront(all, i) = {}
<1>0. \A i \in 1..n : i \in Nat /\ all[i].found \in BOOLEAN /\ all[i].minutes \in Nat
  BY DEF IsLeg
<1>1. CASE \E i \in 1..n : all[i].found /\ all[i].minutes # 0
  <2> DEFINE T == {m \in Nat : \E i \in 1..n : all[i].found /\ all[i].minutes # 0
                                            /\ all[i].minutes = m}
  <2>1. T \in SUBSET Nat /\ T # {}
    BY <1>0, <1>1, Zenon
  <2>2. PICK least : least = Min(T)
    OBVIOUS
  <2>3. least \in T /\ \A m \in T : least <= m
    BY <2>1, <2>2, MinIsLeast, Zenon
  <2> DEFINE F == {i \in 1..n : all[i].found /\ all[i].minutes # 0 /\ all[i].minutes = least}
  <2>4. F \in SUBSET Nat /\ F # {}
    BY <1>0, <2>3, Zenon
  <2>5. PICK first : first = Min(F)
    OBVIOUS
  <2>6. first \in F /\ \A i \in F : first <= i
    BY <2>4, <2>5, MinIsLeast, Zenon
  <2>7. ASSUME NEW j \in 1..n, j \in InFront(all, first) PROVE FALSE
    <3>1. Before(all[j], all[first]) \/ (j < first /\ ~Before(all[first], all[j]))
      BY <2>7 DEF InFront
    <3>2. /\ all[first].found /\ all[first].minutes = least /\ least # 0 /\ least \in Nat
          /\ first \in Nat /\ j \in Nat /\ all[j].minutes \in Nat /\ all[j].found \in BOOLEAN
      BY <1>0, <2>3, <2>6
    <3>3. all[j].found /\ all[j].minutes # 0 => least <= all[j].minutes
      <4>1. all[j].found /\ all[j].minutes # 0 => all[j].minutes \in T
        BY <3>2
      <4> QED
        BY <2>3, <4>1, Zenon
    <3>4. all[j].found /\ all[j].minutes # 0 /\ all[j].minutes = least => first <= j
      <4>1. all[j].found /\ all[j].minutes # 0 /\ all[j].minutes = least => j \in F
        BY <3>2
      <4> QED
        BY <2>6, <4>1, Zenon
    <3> HIDE DEF T, F
    <3> QED
      BY <3>1, <3>2, <3>3, <3>4 DEF Before
  <2> QED
    BY <2>6, <2>7 DEF InFront
<1>2. CASE /\ ~\E i \in 1..n : all[i].found /\ all[i].minutes # 0
           /\ \E i \in 1..n : all[i].found
  <2> DEFINE F == {i \in 1..n : all[i].found}
  <2>1. F \in SUBSET Nat /\ F # {}
    BY <1>0, <1>2, Zenon
  <2>2. PICK first : first = Min(F)
    OBVIOUS
  <2>3. first \in F /\ \A i \in F : first <= i
    BY <2>1, <2>2, MinIsLeast, Zenon
  <2>4. ASSUME NEW j \in 1..n, j \in InFront(all, first) PROVE FALSE
    <3>1. Before(all[j], all[first]) \/ (j < first /\ ~Before(all[first], all[j]))
      BY <2>4 DEF InFront
    <3>2. /\ all[first].found /\ all[first].minutes = 0 /\ (all[j].found => all[j].minutes = 0)
          /\ first \in Nat /\ j \in Nat /\ all[j].found \in BOOLEAN
      BY <1>0, <1>2, <2>3
    <3>3. all[j].found => first <= j
      BY <2>3, <2>4
    <3> HIDE DEF F
    <3> QED
      BY <3>1, <3>2, <3>3 DEF Before
  <2> QED
    BY <2>3, <2>4 DEF InFront
<1>3. CASE ~\E i \in 1..n : all[i].found
  <2>1. 1 \in 1..n /\ \A j \in 1..n : ~(j < 1)
    BY <1>0
  <2>2. InFront(all, 1) = {}
    BY <1>3, <2>1 DEF InFront, Before
  <2> QED
    BY <2>1, <2>2
<1> QED
  BY <1>1, <1>2, <1>3

\* legs.sort: no leg is better than the one it puts first.
LEMMA BestIsFirst ==
  ASSUME NEW n \in Nat \ {0}, NEW all, DOMAIN all = 1..n, \A i \in 1..n : IsLeg(all[i])
  PROVE  \E i \in 1..n : Ranked(all)[1] = all[i] /\ \A j \in 1..n : ~Before(all[j], all[i])
<1>1. \A i : IsFiniteSet(InFront(all, i))
  <2>1. IsFiniteSet(1..n)
    BY FS_Interval
  <2>2. \A i : InFront(all, i) \in SUBSET (1..n)
    BY DEF InFront
  <2> QED
    BY <2>1, <2>2, FS_Subset, Zenon
<1>2. \A i : Cardinality(InFront(all, i)) = 0 <=> InFront(all, i) = {}
  BY <1>1, FS_EmptySet, Zenon
<1>3. \E i \in DOMAIN all : Cardinality(InFront(all, i)) = 0
  BY <1>2, SomethingIsFirst, Zenon
<1>4. PICK first : first = CHOOSE i \in DOMAIN all : Cardinality(InFront(all, i)) = 1 - 1
  OBVIOUS
<1>5. 1 - 1 = 0 /\ 1 \in 1..n
  BY SMT
<1>6. first \in DOMAIN all /\ Cardinality(InFront(all, first)) = 0
  BY <1>3, <1>4, <1>5, Zenon
<1>7. Ranked(all)[1] = all[first]
  BY <1>4, <1>5 DEF Ranked
<1>8. \A j \in 1..n : ~Before(all[j], all[first])
  BY <1>2, <1>6, Zenon DEF InFront
<1> QED
  BY <1>6, <1>7, <1>8

----------------------------------------------------------------------------
(* The best shelter: the inductive invariant.                               *)

\* The predictions in the field are those its risks come from.
FieldIsHeard ==
  /\ DOMAIN heard = DOMAIN slices /\ DOMAIN heard \subseteq Nat
  /\ \A h \in DOMAIN heard : heard[h] \in Prediction /\ slices[h] = SliceOf(heard[h])

\* No shelter known was passed over for one farther off.
NearestFirst ==
  order.shelter = {} => \A s \in (known.registered \cap Serving) \ ToSet(candidates) :
    /\ Len(candidates) = order.limit
    /\ \A other \in ToSet(candidates) : ~Nearer(s, other)

Compared ==
  candidates \in Seq(Shelter) /\ ToSet(candidates) \subseteq Serving /\ NearestFirst

GuideInv ==
  /\ IsFiniteSet(registered)
  /\ known.registered \subseteq registered /\ known.closed \subseteq closed
  /\ step # "idle" => order \in OrderRecord
  /\ step = "predictions" => waiting # {} /\ waiting \subseteq Nat
  /\ FieldIsHeard
  /\ step \in {"capability", "predictions", "reports", "planned"} => Compared
  /\ step \in {"predictions", "reports"} => candidates # <<>>
  /\ RecommendedIsBest

LEMMA GuideInitInv ==
  ASSUME RouteInit
  PROVE  GuideInv
<1>1. DOMAIN slices = {} /\ DOMAIN heard = {} /\ step = "idle" /\ registered = {}
      /\ known.registered = {} /\ known.closed = {}
  BY DEF RouteInit
<1>2. IsFiniteSet(registered)
  BY <1>1, FS_EmptySet
<1> QED
  BY <1>1, <1>2 DEF GuideInv, FieldIsHeard, RecommendedIsBest

\* The others' steps: what is clear now was clear before.
LEMMA GuideAside ==
  ASSUME GuideInv, UNCHANGED <<order, known, step, candidates, field, legs, recommended>>,
         IsFiniteSet(registered'), registered \subseteq registered', closed \subseteq closed'
  PROVE  GuideInv'
<1>1. UNCHANGED <<waiting, slices, heard>>
  BY DEF field
<1>2. FieldIsHeard'
  BY <1>1 DEF GuideInv, FieldIsHeard, SliceOf, ToProbability, Tensor, Sigmoid
<1>3. step' \in {"capability", "predictions", "reports", "planned"} => Compared'
  BY DEF GuideInv, Compared, NearestFirst, Nearer
<1>4. \A way : IsClear(way, closed)' => IsClear(way, closed)
  BY <1>1 DEF IsClear
<1>5. \A way : IsClear(way, known.closed)' <=> IsClear(way, known.closed)
  BY <1>1 DEF IsClear
<1>6. \A s : IsHere(s)' <=> IsHere(s)
  BY <1>5 DEF IsHere
<1>7. RecommendedIsBest'
  BY <1>4, <1>5, <1>6 DEF GuideInv, RecommendedIsBest, Nearer
<1> QED
  BY <1>1, <1>2, <1>3, <1>7 DEF GuideInv

LEMMA AskRouteGuide ==
  ASSUME RouteAssumption, GuideInv, NEW wanted \in Orders, AskRoute(wanted)
  PROVE  GuideInv'
<1>1. /\ step' = "shelters" /\ order' = wanted /\ known'.registered = registered
      /\ known'.closed = closed /\ UNCHANGED <<registered, closed, waiting, slices, heard>>
  BY DEF AskRoute, field
<1>2. wanted \in OrderRecord
  BY DEF RouteAssumption
<1>3. FieldIsHeard'
  BY <1>1 DEF GuideInv, FieldIsHeard, SliceOf, ToProbability, Tensor, Sigmoid
<1> QED
  BY <1>1, <1>2, <1>3 DEF GuideInv, RecommendedIsBest

Heads(seq, k) == {seq[i] : i \in 1..k}

\* The first so many of a sequence.
LEMMA FirstOfThem ==
  ASSUME NEW T, NEW seq \in Seq(T), NEW k \in Nat, k <= Len(seq)
  PROVE  /\ SubSeq(seq, 1, k) \in Seq(T) /\ Len(SubSeq(seq, 1, k)) = k
         /\ ToSet(SubSeq(seq, 1, k)) = Heads(seq, k)
<1>1. Len(seq) \in Nat /\ \A i \in 1..k : seq[i] \in T
  BY LenProperties
<1>2. PICK first : first = SubSeq(seq, 1, k)
  OBVIOUS
<1>3. /\ first \in Seq(T) /\ Len(first) = (IF 1 <= k THEN k - 1 + 1 ELSE 0)
      /\ \A i \in 1..(k - 1 + 1) : first[i] = seq[1 + i - 1]
  BY <1>1, <1>2, SubSeqProperties, SMT
<1>4. Len(first) = k /\ \A i \in 1..k : first[i] = seq[i]
  BY <1>3, SMT
<1>5. DOMAIN first = 1..k
  BY <1>3, <1>4, LenProperties, Zenon
<1>6. ToSet(first) = Heads(seq, k)
  BY <1>4, <1>5, Zenon DEF ToSet, Heads
<1> QED
  BY <1>2, <1>3, <1>4, <1>6

\* find_shelters: the nearest of those registered.
AreNearest(found, limit) ==
  /\ found \in Seq(Shelter) /\ ToSet(found) \subseteq Serving
  /\ \A s \in Usable \ ToSet(found) :
       /\ Len(found) = limit
       /\ \A other \in ToSet(found) : ~Nearer(s, other)

LEMMA NearestAreFound ==
  ASSUME RouteAssumption, IsFiniteSet(registered), NEW limit \in Nat \ {0}, NEW shelters \in Sorted
  PROVE  AreNearest(SubSeq(shelters, 1, Min({limit, Len(shelters)})), limit)
<1>1. IsFiniteSet(Usable)
  BY FS_Subset DEF Usable
<1>2. PICK n \in Nat : n = Cardinality(Usable)
  BY <1>1, FS_CardinalityType
<1>3. shelters \in [1..n -> Usable] /\ \A i, j \in 1..n : i # j => shelters[i] # shelters[j]
  BY <1>2 DEF Sorted, SetToSeqs
<1>4. \A s \in Usable : \E i \in 1..n : shelters[i] = s
  <2>1. Cardinality(1..n) = n
    <3>1. n >= 1 => Cardinality(1..n) = n - 1 + 1
      BY FS_Interval
    <3>2. n = 0 => 1..n = {}
      BY SMT
    <3> QED
      BY <3>1, <3>2, FS_EmptySet
  <2>2. shelters \in Injection(1..n, Usable)
    BY <1>3, Zenon DEF Injection, IsInjective
  <2>3. shelters \in Surjection(1..n, Usable)
    BY <1>1, <1>2, <2>1, <2>2, FS_Injection
  <2> QED
    BY <2>3, Zenon DEF Surjection
<1>5. Usable \subseteq Serving /\ Usable \subseteq Shelter
  BY DEF Usable, RouteAssumption
<1>6. shelters \in Seq(Shelter) /\ Len(shelters) = n
  BY <1>3, <1>5
<1>7. PICK k : k = Min({limit, n})
  OBVIOUS
<1>8. k \in {limit, n} /\ k <= limit /\ k <= n
  <2>1. {limit, n} \in SUBSET Nat /\ {limit, n} # {}
    OBVIOUS
  <2>2. k \in {limit, n} /\ \A y \in {limit, n} : k <= y
    BY <1>7, <2>1, MinIsLeast, Zenon
  <2> QED
    BY <2>2
<1>9. k \in Nat /\ k <= Len(shelters)
  BY <1>6, <1>8
<1>10. PICK found : found = SubSeq(shelters, 1, k)
  OBVIOUS
<1>11. found \in Seq(Shelter) /\ Len(found) = k
  BY <1>6, <1>9, <1>10, FirstOfThem, Zenon
<1>12. ToSet(found) = {shelters[i] : i \in 1..k}
  <2>1. ToSet(found) = Heads(shelters, k)
    BY <1>6, <1>9, <1>10, FirstOfThem, Zenon
  <2> QED
    BY <2>1 DEF Heads
<1>13. 1..k \subseteq 1..n
  BY <1>8, <1>9
<1>14. ToSet(found) \subseteq Serving
  BY <1>3, <1>5, <1>12, <1>13
<1>15. ASSUME NEW s \in Usable \ ToSet(found)
       PROVE  Len(found) = limit /\ \A other \in ToSet(found) : ~Nearer(s, other)
  <2>1. PICK j \in 1..n : shelters[j] = s
    BY <1>4
  <2>2. j \notin 1..k
    BY <1>12, <1>15, <2>1
  <2>3. k < j /\ k = limit
    BY <1>8, <1>9, <2>1, <2>2
  <2>4. ASSUME NEW other \in ToSet(found) PROVE ~Nearer(s, other)
    <3>1. PICK i \in 1..k : other = shelters[i]
      BY <1>12, <2>4
    <3>2. i \in 1..n /\ i < j
      BY <1>9, <1>13, <2>3, <3>1
    <3>3. DOMAIN shelters = 1..n
      BY <1>3
    <3> QED
      BY <2>1, <3>1, <3>2, <3>3 DEF Sorted
  <2> QED
    BY <1>11, <2>3, <2>4
<1> QED
  BY <1>6, <1>7, <1>11, <1>14, <1>15, <1>10 DEF AreNearest

\* A shelter that was asked for is the only one.
LEMMA WantedIsFound ==
  ASSUME NEW s
  PROVE  SetToSeq({s}) = <<s>>
<1>1. Cardinality({s}) = 1
  BY FS_Singleton
<1>2. PICK one : one = SetToSeq({s})
  OBVIOUS
<1> DEFINE f == [i \in 1..1 |-> s]
<1>3. f \in [1..1 -> {s}] /\ IsInjective(f)
  BY DEF IsInjective
<1>4. one = CHOOSE g \in [1..1 -> {s}] : IsInjective(g)
  BY <1>1, <1>2 DEF SetToSeq
<1>5. one \in [1..1 -> {s}]
  BY <1>3, <1>4, Zenon
<1>6. one = <<s>>
  BY <1>5
<1> QED
  BY <1>2, <1>6

LEMMA FindSheltersGuide ==
  ASSUME RouteAssumption, GuideInv, FindShelters
  PROVE  GuideInv'
<1>1. /\ step = "shelters" /\ order \in OrderRecord
      /\ UNCHANGED <<registered, closed, order, known, waiting, slices, heard>>
  BY DEF FindShelters, given, field, GuideInv
<1>2. FieldIsHeard'
  BY <1>1 DEF GuideInv, FieldIsHeard, SliceOf, ToProbability, Tensor, Sigmoid
<1>3. step' \in {"capability", "not found"}
  BY DEF FindShelters
<1>4. step' = "capability" => Compared'
  <2>1. CASE order.shelter = {}
    <3>1. PICK shelters \in Sorted :
            candidates' = SubSeq(shelters, 1, Min({order.limit, Len(shelters)}))
      BY <2>1 DEF FindShelters
    <3>2. PICK found : found = candidates'
      OBVIOUS
    <3>3. order.limit \in Nat \ {0} /\ IsFiniteSet(registered)
          /\ known.registered \subseteq registered
      BY <1>1 DEF OrderRecord, GuideInv
    <3>4. AreNearest(found, order.limit)
      BY <3>1, <3>2, <3>3, NearestAreFound, Zenon
    <3>5. known.registered \cap Serving \subseteq Usable
      BY <3>3 DEF Usable
    <3>6. ToSet(found) = ToSet(candidates)' /\ \A s, other : Nearer(s, other)' <=> Nearer(s, other)
      BY <3>2 DEF ToSet, Nearer
    <3> QED
      BY <1>1, <3>2, <3>4, <3>5, <3>6 DEF AreNearest, Compared, NearestFirst
  <2>2. CASE order.shelter # {}
    <3>1. PICK s \in Shelter : order.shelter = {s}
      BY <1>1, <2>2 DEF OrderRecord
    <3>2. ASSUME step' = "capability" PROVE Compared'
      <4>1. s \in Usable /\ candidates' = SetToSeq({s})
        BY <2>2, <3>1, <3>2 DEF FindShelters
      <4>2. candidates' = <<s>>
        BY <4>1, WantedIsFound
      <4>3. candidates' \in Seq(Shelter) /\ ToSet(candidates)' = {s}
        BY <4>2 DEF ToSet
      <4>4. s \in Serving
        BY <4>1 DEF Usable
      <4> QED
        BY <1>1, <2>2, <4>3, <4>4 DEF Compared, NearestFirst
    <3> QED
      BY <3>2
  <2> QED
    BY <2>1, <2>2
<1> QED
  BY <1>1, <1>2, <1>3, <1>4 DEF GuideInv, RecommendedIsBest

LEMMA CheckCapabilityGuide ==
  ASSUME GuideInv, NEW answer, CheckCapability(answer)
  PROVE  GuideInv'
<1>1. /\ step = "capability" /\ order \in OrderRecord
      /\ UNCHANGED <<registered, closed, order, known, candidates, slices, heard>>
  BY DEF CheckCapability, given, GuideInv
<1>2. FieldIsHeard'
  BY <1>1 DEF GuideInv, FieldIsHeard, SliceOf, ToProbability, Tensor, Sigmoid
<1>3. Compared'
  BY <1>1 DEF GuideInv, Compared, NearestFirst, Nearer
<1>4. CASE candidates = <<>>
  <2>1. step' \in {"no guidance", "not found"}
    BY <1>4 DEF CheckCapability
  <2> QED
    BY <1>1, <1>2, <2>1 DEF GuideInv, RecommendedIsBest
<1>5. CASE candidates # <<>>
  <2>1. step' = (IF Ahead # {} THEN "predictions" ELSE "reports") /\ waiting' = Ahead
    BY <1>5 DEF CheckCapability
  <2>2. Ahead \subseteq Nat
    BY <1>1 DEF Ahead, OrderRecord
  <2> QED
    BY <1>1, <1>2, <1>3, <1>5, <2>1, <2>2 DEF GuideInv, RecommendedIsBest
<1> QED
  BY <1>4, <1>5

\* The next horizon is asked for, and what came of it is in the field.
LEMMA HorizonGuide ==
  ASSUME GuideInv, step = "predictions", Went, FieldIsHeard'
  PROVE  GuideInv'
<1>1. /\ UNCHANGED <<registered, closed, order, known, candidates>>
      /\ step' = IF waiting' = {} THEN "reports" ELSE step
      /\ waiting' \subseteq waiting
  BY DEF Went, given
<1>2. Compared'
  BY <1>1 DEF GuideInv, Compared, NearestFirst, Nearer
<1> QED
  BY <1>1, <1>2 DEF GuideInv, RecommendedIsBest

LEMMA PredictedGuide ==
  ASSUME GuideInv, NEW prediction \in Prediction, Predicted(prediction)
  PROVE  GuideInv'
<1>1. step = "predictions" /\ Went
  BY DEF Predicted
<1>2. PICK h : h = NextHorizon
  OBVIOUS
<1>3. h \in Nat
  <2>1. waiting \in SUBSET Nat /\ waiting # {}
    BY <1>1 DEF GuideInv
  <2> QED
    BY <1>2, <2>1, MinIsLeast DEF NextHorizon
<1>4. CASE Readable(prediction)
  <2>1. PICK slice : slice = SliceOf(prediction)
    OBVIOUS
  <2>2. /\ slices' = [g \in DOMAIN slices \cup {h} |-> IF g = h THEN slice ELSE slices[g]]
        /\ heard' = [g \in DOMAIN heard \cup {h} |-> IF g = h THEN prediction ELSE heard[g]]
    BY <1>2, <1>4, <2>1 DEF Predicted
  <2>3. /\ DOMAIN heard = DOMAIN slices /\ DOMAIN heard \subseteq Nat
        /\ \A g \in DOMAIN heard : heard[g] \in Prediction /\ slices[g] = SliceOf(heard[g])
    BY DEF GuideInv, FieldIsHeard
  <2>4. \A g \in DOMAIN heard' : heard'[g] \in Prediction /\ slices'[g] = SliceOf(heard'[g])
    <3> SUFFICES ASSUME NEW g \in DOMAIN heard'
                 PROVE  heard'[g] \in Prediction /\ slices'[g] = SliceOf(heard'[g])
      OBVIOUS
    <3>1. CASE g = h
      <4>1. heard'[g] = prediction /\ slices'[g] = slice
        BY <2>2, <2>3, <3>1
      <4> QED
        BY <2>1, <4>1
    <3>2. CASE g # h
      <4>1. g \in DOMAIN heard /\ heard'[g] = heard[g] /\ slices'[g] = slices[g]
        BY <2>2, <2>3, <3>2
      <4> QED
        BY <2>3, <4>1
    <3> QED
      BY <3>1, <3>2
  <2>5. FieldIsHeard'
    BY <1>3, <2>2, <2>3, <2>4 DEF FieldIsHeard, SliceOf, ToProbability, Tensor, Sigmoid
  <2> QED
    BY <1>1, <2>5, HorizonGuide
<1>5. CASE ~Readable(prediction)
  <2>1. slices' = slices /\ heard' = heard
    BY <1>5 DEF Predicted
  <2>2. FieldIsHeard'
    BY <2>1 DEF GuideInv, FieldIsHeard, SliceOf, ToProbability, Tensor, Sigmoid
  <2> QED
    BY <1>1, <2>2, HorizonGuide
<1> QED
  BY <1>4, <1>5

LEMMA PredictionFailsGuide ==
  ASSUME GuideInv, PredictionFails
  PROVE  GuideInv'
<1>1. step = "predictions" /\ Went /\ slices' = slices /\ heard' = heard
  BY DEF PredictionFails
<1>2. FieldIsHeard'
  BY <1>1 DEF GuideInv, FieldIsHeard, SliceOf, ToProbability, Tensor, Sigmoid
<1> QED
  BY <1>1, <1>2, HorizonGuide

----------------------------------------------------------------------------
(* The best shelter: what the plan makes of it.                             *)

\* What a prediction says of a place, in tenths, tells danger from safety.
LEMMA ToldApart ==
  ASSUME RouteAssumption, NEW prediction \in Prediction, NEW p \in Place
  PROVE  /\ SliceOf(prediction)[p] \in 0..10
         /\ SliceOf(prediction)[p] < Threshold <=> p \notin prediction.danger
<1>1. PICK risk : risk = ToProbability(prediction, Tensor(prediction, p))
  OBVIOUS
<1>2. SliceOf(prediction)[p] = risk
  BY <1>1 DEF SliceOf
<1>3. Threshold \in 3..8 /\ prediction.tensor \in {"risk", "logits"}
  BY DEF RouteAssumption, Prediction
<1>4. CASE p \in prediction.danger
  <2>1. risk \in {8, 9}
    BY <1>1, <1>3, <1>4 DEF ToProbability, Tensor, Sigmoid
  <2> QED
    BY <1>2, <1>3, <1>4, <2>1
<1>5. CASE p \notin prediction.danger
  <2>1. risk \in {1, 2}
    BY <1>1, <1>3, <1>5 DEF ToProbability, Tensor, Sigmoid
  <2> QED
    BY <1>2, <1>3, <1>5, <2>1
<1> QED
  BY <1>4, <1>5

\* The horizons that count at a moment of the walk.
Counting(minutes) == {h \in DOMAIN Field : h <= minutes \/ h = Min(DOMAIN Field)}

\* The field bars a place at a moment when a prediction that counts warns of it.
LEMMA BarredIsWarned ==
  ASSUME RouteAssumption, FieldIsHeard, NEW p \in Place, NEW minutes \in Nat
  PROVE  Risk(p, minutes) < Threshold <=> \A h \in Counting(minutes) : p \notin heard[h].danger
<1> DEFINE Risks == {0} \cup {Field[h][p] : h \in Counting(minutes)}
<1>1. \A h \in DOMAIN Field : /\ heard[h] \in Prediction /\ Field[h] = SliceOf(heard[h])
  <2>1. CASE Synthetic
    BY <2>1 DEF Field
  <2>2. CASE ~Synthetic
    BY <2>2 DEF Field, FieldIsHeard
  <2> QED
    BY <2>1, <2>2
<1>2. \A h \in Counting(minutes) :
        Field[h][p] \in 0..10 /\ (Field[h][p] < Threshold <=> p \notin heard[h].danger)
  <2> SUFFICES ASSUME NEW h \in Counting(minutes)
               PROVE  /\ Field[h][p] \in 0..10
                      /\ Field[h][p] < Threshold <=> p \notin heard[h].danger
    OBVIOUS
  <2>1. PICK prediction : prediction = heard[h]
    OBVIOUS
  <2>2. prediction \in Prediction /\ Field[h] = SliceOf(prediction)
    BY <1>1, <2>1 DEF Counting
  <2> QED
    BY <2>1, <2>2, ToldApart
<1>3. Risks \in SUBSET (0..10) /\ Risks # {} /\ 10 \in Nat
  BY <1>2
<1>4. PICK worst : worst = Max(Risks)
  OBVIOUS
<1>5. worst \in Risks /\ \A risk \in Risks : worst >= risk
  <2> HIDE DEF Risks
  <2> QED
    BY <1>3, <1>4, MaxIsGreatest, Zenon
<1>6. Risk(p, minutes) = worst
  BY <1>4 DEF Risk, Counting
<1>7. 0 < Threshold /\ Threshold \in Nat
  BY DEF RouteAssumption
<1>8. worst < Threshold <=> \A risk \in Risks : risk < Threshold
  <2>1. \A risk \in Risks : risk \in Nat
    BY <1>3
  <2> HIDE DEF Risks
  <2> QED
    BY <1>5, <1>7, <2>1
<1>9. (\A risk \in Risks : risk < Threshold)
        <=> \A h \in Counting(minutes) : Field[h][p] < Threshold
  BY <1>7
<1> QED
  BY <1>2, <1>6, <1>8, <1>9

\* _field_blocks, with the field: the ways that are open are those that are
\* clear of what the plan took.
LEMMA OpenIsClear ==
  ASSUME RouteAssumption, FieldIsHeard, Plan, NEW s \in Shelter, NEW way \in Ways[s]
  PROVE  way \in OpenWays(s) <=> IsClear(way, closed)'
<1>1. way.minutes \in Nat /\ way.through \in Place
  BY DEF RouteAssumption, Way
<1>2. UNCHANGED <<order, closed>> /\ heard' = IF Synthetic THEN <<>> ELSE heard
  BY DEF Plan, given
<1>3. DOMAIN heard' = DOMAIN Field /\ \A h \in DOMAIN Field : heard'[h] = heard[h]
  <2>1. CASE Synthetic
    <3>1. heard' = <<>> /\ Field = <<>>
      BY <1>2, <2>1 DEF Field
    <3>2. DOMAIN heard' = {} /\ DOMAIN Field = {}
      BY <3>1
    <3> QED
      BY <3>2
  <2>2. CASE ~Synthetic
    BY <1>2, <2>2 DEF Field, FieldIsHeard
  <2> QED
    BY <2>1, <2>2
<1>4. way.through \notin Blocks <=> ~(order.incident /\ way.through \in closed)
  BY DEF Blocks
<1>5. (\A h \in Counting(way.minutes) : way.through \notin heard[h].danger)
        <=> \A h \in DOMAIN heard' :
              h <= way.minutes \/ h = Min(DOMAIN heard') => way.through \notin heard'[h].danger
  BY <1>3 DEF Counting
<1>6. Risk(way.through, way.minutes) < Threshold
        <=> \A h \in Counting(way.minutes) : way.through \notin heard[h].danger
  BY <1>1, BarredIsWarned
<1>7. IsClear(way, closed)' <=>
        /\ ~(order.incident /\ way.through \in closed)
        /\ \A h \in DOMAIN heard' :
              h <= way.minutes \/ h = Min(DOMAIN heard') => way.through \notin heard'[h].danger
  BY <1>2 DEF IsClear
<1> QED
  BY <1>4, <1>5, <1>6, <1>7 DEF OpenWays

\* The leg to a shelter is the fastest of its open ways.
LEMMA LegIsFastest ==
  ASSUME RouteAssumption, NEW s \in Shelter
  PROVE  /\ IsLeg(Leg(s)) /\ Leg(s).shelter = s
         /\ Leg(s).found <=> Distance[s] # Far /\ OpenWays(s) # {}
         /\ Leg(s).found => /\ \E way \in OpenWays(s) : way.minutes = Leg(s).minutes
                            /\ \A way \in OpenWays(s) : Leg(s).minutes <= way.minutes
<1> DEFINE Times == {way.minutes : way \in OpenWays(s)}
<1>1. PICK leg : leg = Leg(s)
  OBVIOUS
<1>2. /\ leg.shelter = s /\ leg.found \in BOOLEAN
      /\ leg.found <=> Distance[s] # Far /\ OpenWays(s) # {}
      /\ leg.minutes = IF leg.found THEN Min(Times) ELSE 0
  BY <1>1 DEF Leg
<1>3. Times \in SUBSET Nat
  BY DEF OpenWays, RouteAssumption, Way
<1>4. ASSUME leg.found
      PROVE  leg.minutes \in Times /\ \A time \in Times : leg.minutes <= time
  <2>1. Times # {}
    BY <1>2, <1>4
  <2> HIDE DEF Times
  <2> QED
    BY <1>2, <1>3, <1>4, <2>1, MinIsLeast
<1>5. leg.minutes \in Nat
  BY <1>2, <1>3, <1>4
<1> QED
  BY <1>1, <1>2, <1>4, <1>5 DEF IsLeg

LEMMA PlanGuide ==
  ASSUME RouteAssumption, GuideInv, Plan
  PROVE  GuideInv'
<1>1. /\ step = "reports" /\ step' = "planned"
      /\ UNCHANGED <<registered, closed, order, known, candidates, waiting>>
      /\ slices' = Field /\ heard' = IF Synthetic THEN <<>> ELSE heard
      /\ legs' = Ranked([i \in DOMAIN candidates |-> Leg(candidates[i])])
      /\ recommended' = IF legs'[1].found THEN {legs'[1].shelter} ELSE {}
  BY DEF Plan, given
<1>2. FieldIsHeard /\ candidates \in Seq(Shelter) /\ candidates # <<>>
      /\ ToSet(candidates) \subseteq Serving /\ known.closed \subseteq closed
  BY <1>1 DEF GuideInv, Compared
<1>3. FieldIsHeard'
  <2>1. CASE Synthetic
    <3>1. slices' = <<>> /\ heard' = <<>>
      BY <1>1, <2>1 DEF Field
    <3>2. DOMAIN slices' = {} /\ DOMAIN heard' = {}
      BY <3>1
    <3> QED
      BY <3>2 DEF FieldIsHeard
  <2>2. CASE ~Synthetic
    <3>1. slices' = slices /\ heard' = heard
      BY <1>1, <2>2 DEF Field
    <3> QED
      BY <1>2, <3>1 DEF FieldIsHeard, SliceOf, ToProbability, Tensor, Sigmoid
  <2> QED
    BY <2>1, <2>2
<1>4. Compared' /\ NearestFirst'
  BY <1>1 DEF GuideInv, Compared, NearestFirst, Nearer
<1>5. PICK n \in Nat \ {0} : DOMAIN candidates = 1..n
  <2>1. Len(candidates) \in Nat \ {0} /\ DOMAIN candidates = 1..Len(candidates)
    BY <1>2, EmptySeq, LenProperties
  <2> QED
    BY <2>1
<1>6. \A i \in 1..n : candidates[i] \in Shelter /\ candidates[i] \in Serving
  BY <1>2, <1>5 DEF ToSet
<1>7. PICK all : all = [i \in DOMAIN candidates |-> Leg(candidates[i])]
  OBVIOUS
<1>8. DOMAIN all = 1..n /\ \A i \in 1..n : all[i] = Leg(candidates[i]) /\ IsLeg(all[i])
  BY <1>5, <1>6, <1>7, LegIsFastest
<1>9. PICK b \in 1..n : Ranked(all)[1] = all[b] /\ \A j \in 1..n : ~Before(all[j], all[b])
  BY <1>8, BestIsFirst
<1>10. PICK best : best = candidates[b]
  OBVIOUS
<1>11. legs'[1] = Leg(best) /\ best \in Shelter /\ best \in Serving
  BY <1>1, <1>6, <1>7, <1>8, <1>9, <1>10
<1>12. recommended' = IF Leg(best).found THEN {best} ELSE {}
  BY <1>1, <1>11, LegIsFastest
<1>13. \A s \in Shelter : \A way \in Ways[s] : IsClear(way, closed)' => IsClear(way, known.closed)'
  BY <1>1, <1>2 DEF IsClear
<1>14. \A s \in Shelter : OpenWays(s) \subseteq Ways[s]
  BY DEF OpenWays
<1>15. \A s \in Shelter : \A way \in Ways[s] : way \in OpenWays(s) <=> IsClear(way, closed)'
  BY <1>2, OpenIsClear
<1>16. \A s \in recommended' :
         /\ s \in Serving
         /\ \E way \in Ways[s] : way.minutes = legs'[1].minutes /\ IsClear(way, known.closed)'
  <2> SUFFICES ASSUME Leg(best).found
               PROVE  \E way \in Ways[best] :
                        way.minutes = Leg(best).minutes /\ IsClear(way, known.closed)'
    BY <1>11, <1>12
  <2>1. PICK way \in OpenWays(best) : way.minutes = Leg(best).minutes
    BY <1>11, LegIsFastest
  <2> QED
    BY <1>11, <1>13, <1>14, <1>15, <2>1
<1>17. ASSUME NEW s \in ToSet(candidates), NEW way \in Ways[s], Distance[s] # Far,
              IsClear(way, closed)'
       PROVE  recommended' # {} /\ (legs'[1].minutes <= way.minutes \/ IsHere(s)')
  <2>1. PICK j \in 1..n : s = candidates[j]
    BY <1>5 DEF ToSet
  <2>2. s \in Shelter /\ way \in OpenWays(s)
    BY <1>6, <1>15, <1>17, <2>1
  <2>3. /\ Leg(s).found /\ Leg(s).minutes <= way.minutes
        /\ \E other \in OpenWays(s) : other.minutes = Leg(s).minutes
    BY <1>17, <2>2, LegIsFastest
  <2>4. ~Before(Leg(s), Leg(best))
    BY <1>8, <1>9, <1>10, <2>1
  <2>5. Leg(best).found /\ (Leg(s).minutes # 0 => ~(Leg(s).minutes < Leg(best).minutes))
    BY <2>3, <2>4 DEF Before
  <2>6. Leg(s).minutes \in Nat /\ Leg(best).minutes \in Nat /\ way.minutes \in Nat
    <3>1. IsLeg(Leg(s)) /\ IsLeg(Leg(best))
      BY <1>11, <2>2, LegIsFastest
    <3>2. way.minutes \in Nat
      BY <2>2 DEF RouteAssumption, Way
    <3> QED
      BY <3>1, <3>2 DEF IsLeg
  <2>7. CASE Leg(s).minutes # 0
    <3>1. Leg(best).minutes <= way.minutes
      BY <2>3, <2>5, <2>6, <2>7
    <3> QED
      BY <1>11, <1>12, <2>5, <3>1
  <2>8. CASE Leg(s).minutes = 0
    <3>1. PICK other \in OpenWays(s) : other.minutes = 0
      BY <2>3, <2>8
    <3>2. other \in Ways[s] /\ IsClear(other, known.closed)'
      BY <1>13, <1>14, <1>15, <2>2, <3>1
    <3>3. IsHere(s)'
      BY <3>1, <3>2 DEF IsHere
    <3> QED
      BY <1>12, <2>5, <3>3
  <2> QED
    BY <2>7, <2>8
<1>18. RecommendedIsBest'
  <2>1. ToSet(candidates)' = ToSet(candidates)
    BY <1>1 DEF ToSet
  <2>2. /\ order'.shelter = {} => \A s \in (known'.registered \cap Serving) \ ToSet(candidates)' :
             /\ Len(candidates') = order'.limit
             /\ \A other \in ToSet(candidates)' : ~Nearer(s, other)
    BY <1>4, <2>1 DEF NearestFirst, Nearer
  <2>3. \A s \in ToSet(candidates)' : \A way \in Ways[s] :
          Distance[s] # Far /\ IsClear(way, closed)' =>
            recommended' # {} /\ (legs'[1].minutes <= way.minutes \/ IsHere(s)')
    BY <1>17, <2>1
  <2> QED
    BY <1>16, <2>2, <2>3, Zenon DEF RecommendedIsBest, Nearer
<1> QED
  BY <1>1, <1>3, <1>4, <1>18 DEF GuideInv

LEMMA GuideNextInv ==
  ASSUME RouteAssumption, GuideInv, RouteNext
  PROVE  GuideInv'
<1>1. ASSUME NEW s \in Shelter, Register(s) PROVE GuideInv'
  <2>1. IsFiniteSet(registered \cup {s})
    BY FS_AddElement DEF GuideInv
  <2> QED
    BY <1>1, <2>1, GuideAside DEF Register
<1>2. ASSUME NEW p \in Place, ReportClosure(p) PROVE GuideInv'
  <2>1. IsFiniteSet(registered)
    BY DEF GuideInv
  <2> QED
    BY <1>2, <2>1, GuideAside DEF ReportClosure
<1>3. ASSUME NEW wanted \in Orders, AskRoute(wanted) PROVE GuideInv'
  BY <1>3, AskRouteGuide
<1>4. ASSUME NEW prediction \in Predictions \cup {Stub}, Predicted(prediction) PROVE GuideInv'
  BY <1>4, StubIsPrediction, PredictedGuide DEF RouteAssumption
<1> QED
  BY <1>1, <1>2, <1>3, <1>4, FindSheltersGuide, CheckCapabilityGuide, PredictionFailsGuide,
     PlanGuide DEF RouteNext

\* Nothing of the route changes.
LEMMA GuideStutter ==
  ASSUME GuideInv, UNCHANGED route
  PROVE  GuideInv'
<1>1. IsFiniteSet(registered)
  BY DEF GuideInv
<1> QED
  BY <1>1, GuideAside DEF route, field

----------------------------------------------------------------------------

IInv == SituationInv /\ RouteInv /\ GuideInv

(* What the cache keeps and the snapshots say was so, and every horizon is  *)
(* accounted for, in every reachable state.                                 *)
THEOREM Invariant == Spec => []IInv
<1>1. Init => IInv
  BY SituationInitInv, RouteInitInv, GuideInitInv, SituationAssumption DEF Init, IInv
<1>2. IInv /\ [Next]_vars => IInv'
  <2> SUFFICES ASSUME IInv, [Next]_vars PROVE IInv'
    OBVIOUS
  <2>1. CASE SituationNext /\ UNCHANGED <<route, subject>>
    BY <2>1, SituationNextInv, RouteStutter, GuideStutter, SituationAssumption DEF IInv
  <2>2. CASE RouteNext /\ UNCHANGED <<situation, subject>>
    BY <2>2, RouteNextInv, GuideNextInv, SituationAside, RouteAssumption DEF IInv
  <2>3. CASE UNCHANGED vars
    BY <2>3, SituationAside, RouteStutter, GuideStutter DEF IInv, vars
  <2> QED
    BY <2>1, <2>2, <2>3 DEF Next
<1> QED
  BY <1>1, <1>2, PTL DEF Spec

(* compute_state, through cache, overview and pages: for any sources,       *)
(* questions and lifetime, "nothing is wrong" is said only when every       *)
(* source was quiet not long before.                                        *)
THEOREM EarnedAllClear == Spec => []AllClearIsEarned
<1>1. IInv => AllClearIsEarned
  BY DEF IInv, SituationInv, Shape, SnapshotsAreEarned, IsEarned, AllClearIsEarned
<1> QED
  BY <1>1, Invariant, PTL

(* overview, headline_caveat: an outage of any source is named, whatever    *)
(* other sources and questions there are.                                   *)
THEOREM NamedOutage == Spec => []OutageIsNamed
<1>1. IInv => OutageIsNamed
  <2> SUFFICES ASSUME IInv, sent, request # "weather", NEW q \in questions,
                      NEW s \in SourcesOf[q], readable[s] + Ttl < asked
               PROVE  /\ snapshots[q].caveat \in {"unread", "failed"}
                      /\ request = "overview" => unverified \cap {s, Service} # {}
    BY DEF OutageIsNamed
  <2>1. /\ snapshots[q].caveat \in {"unread", "failed"}
        /\ request = "overview" => snapshots[q].failed \cap {s, Service} # {}
    BY DEF IInv, SituationInv, Shape, SnapshotsAreEarned, IsEarned
  <2>2. request = "overview" => unverified = Unverified
    BY DEF IInv, SituationInv, PageNames
  <2>3. snapshots[q].failed \subseteq Unverified
    BY DEF Unverified
  <2> QED
    BY <2>1, <2>2, <2>3
<1> QED
  BY <1>1, Invariant, PTL

(* _hazard_field: for any request, shelters and predictions, what a plan    *)
(* was asked to take into account and could not is in its warnings.         *)
THEOREM LeftOutTold == Spec => []LeftOutIsTold
<1>1. IInv => LeftOutIsTold
  BY DEF IInv, RouteInv
<1> QED
  BY <1>1, Invariant, PTL

(* plan_evacuation: for any request, shelters, ways, predictions and        *)
(* threshold between danger and safety, a recommended shelter can be        *)
(* reached as told, none compared is reached faster on a clear way, and no  *)
(* nearer one was passed over.                                              *)
THEOREM BestRecommended == Spec => []RecommendedIsBest
<1>1. IInv => RecommendedIsBest
  BY DEF IInv, GuideInv
<1> QED
  BY <1>1, Invariant, PTL

=============================================================================
