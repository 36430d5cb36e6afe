------------------------- MODULE EvacWorkflowProofs -------------------------
(***************************************************************************)
(* Proofs about EvacWorkflow, for all villages, approvers and bounds.       *)
(***************************************************************************)
EXTENDS EvacWorkflow, FiniteSetTheorems, SequenceTheorems, TLAPS

----------------------------------------------------------------------------
(* Tables as sequences: what reading, inserting and updating a row gives.   *)

LEMMA RowOf ==
  ASSUME NEW S, NEW s \in Seq(S)
  PROVE  /\ Len(s) \in Nat
         /\ DOMAIN s = 1..Len(s)
         /\ \A i \in DOMAIN s : s[i] \in S
BY LenProperties, ElementOfSeq

LEMMA Listed ==
  ASSUME NEW S, NEW n \in Nat, NEW f \in [1..n -> S]
  PROVE  f \in Seq(S) /\ Len(f) = n /\ DOMAIN f = 1..n
OBVIOUS

LEMMA Appended ==
  ASSUME NEW S, NEW s \in Seq(S), NEW e \in S
  PROVE  /\ Append(s, e) \in Seq(S)
         /\ Len(Append(s, e)) = Len(s) + 1
         /\ DOMAIN Append(s, e) = 1..(Len(s) + 1)
         /\ \A i \in 1..Len(s) : Append(s, e)[i] = s[i]
         /\ Append(s, e)[Len(s) + 1] = e
OBVIOUS

(* The rows of the audit timeline the requests write.                       *)
LEMMA EntryRow ==
  ASSUME NEW n \in Nat, NEW a \in Approver \cup {NoOne},
         NEW action \in PlanActions \cup
                        {"contact.started", "task.generated", "report.submitted"}
  PROVE  Entry(action, n, a) \in AuditRow
BY DEF Entry, AuditRow

----------------------------------------------------------------------------
(* The current plan.                                                        *)

(* planning.current_plan skips superseded versions and takes the highest:   *)
(* when only the newest version is not superseded, it is the newest.        *)
LEMMA CurrentIsNewest ==
  ASSUME plans \in Seq(PlanRow), NewestIsLive
  PROVE  CurrentPlan = Len(plans)
<1>1. CASE plans = <<>>
  BY <1>1 DEF CurrentPlan, IsCurrent
<1>2. CASE plans # <<>>
  <2>1. Len(plans) \in DOMAIN plans /\ Len(plans) \in Nat
    BY <1>2
  <2>2. IsCurrent(Len(plans))
    BY <2>1 DEF IsCurrent, NewestIsLive
  <2>3. ASSUME NEW v \in DOMAIN plans, IsCurrent(v)
        PROVE  v = Len(plans)
    BY <2>1, <2>3 DEF IsCurrent, NewestIsLive
  <2> QED
    BY <2>1, <2>2, <2>3 DEF CurrentPlan
<1> QED
  BY <1>1, <1>2

----------------------------------------------------------------------------
(* Types.                                                                   *)

(* contacts.contacts: the attempts that found nobody are finitely many, so  *)
(* create_from_unreachable adds a definite number of tasks.                 *)
LEMMA FinitelyUnreachable ==
  ASSUME TypeOK, WorkflowAssumption, NEW c \in Community
  PROVE  IsFiniteSet(UnreachableAttempts(c))
<1> DEFINE At(v) == {v} \X {k \in DOMAIN contacts[<<v, c>>] : contacts[<<v, c>>][k] = "unreachable"}
           All == {At(v) : v \in 1..MaxPlans}
<1>1. ASSUME NEW v \in 1..MaxPlans PROVE IsFiniteSet(At(v))
  <2>1. contacts[<<v, c>>] \in Seq(ContactResponse)
    BY DEF TypeOK
  <2>2. IsFiniteSet(DOMAIN contacts[<<v, c>>])
    <3>1. /\ DOMAIN contacts[<<v, c>>] = 1..Len(contacts[<<v, c>>])
          /\ Len(contacts[<<v, c>>]) \in Nat
      BY <2>1
    <3>2. IsFiniteSet(1..Len(contacts[<<v, c>>]))
      <4>1. \A a, b \in Int : IsFiniteSet(a..b)
        BY FS_Interval
      <4> QED
        BY <3>1, <4>1
    <3> QED
      BY <3>1, <3>2
  <2>3. IsFiniteSet({k \in DOMAIN contacts[<<v, c>>] : contacts[<<v, c>>][k] = "unreachable"})
    BY <2>2, FS_Subset
  <2>4. IsFiniteSet({v})
    BY FS_Singleton
  <2> QED
    BY <2>3, <2>4, FS_Product
<1>2. IsFiniteSet(1..MaxPlans)
  BY FS_Interval DEF WorkflowAssumption
<1>3. IsFiniteSet(All)
  <2> DEFINE f == [v \in 1..MaxPlans |-> At(v)]
  <2> HIDE DEF At
  <2>1. f \in Surjection(1..MaxPlans, All)
    BY DEF Surjection
  <2>2. ASSUME NEW S, NEW T, NEW g \in Surjection(S, T), IsFiniteSet(S)
        PROVE  IsFiniteSet(T)
    BY <2>2, FS_Surjection
  <2> HIDE DEF f, All
  <2> QED
    BY <1>2, <2>1, <2>2
<1>4. IsFiniteSet(UNION All)
  BY <1>1, <1>3, FS_UNION
<1> QED
  BY <1>4 DEF UnreachableAttempts

LEMMA InitTypeOK ==
  ASSUME WorkflowAssumption, Init
  PROVE  TypeOK
BY DEF WorkflowAssumption, Init, TypeOK

LEMMA CreatePlanTypeOK ==
  ASSUME WorkflowAssumption, TypeOK,
         NEW items \in (SUBSET Community) \ {{}}, CreatePlan(items)
  PROVE  TypeOK'
<1> DEFINE version == Len(plans) + 1
           rows == [v \in DOMAIN plans |->
                      IF v = CurrentPlan
                      THEN [plans[v] EXCEPT !.status = "superseded",
                                            !.superseded_by = version]
                      ELSE plans[v]]
<1>1. version \in Nat /\ DOMAIN plans = 1..Len(plans) /\ Len(plans) \in Nat
  BY DEF TypeOK
<1>2. ASSUME NEW v \in DOMAIN plans PROVE rows[v] \in PlanRow
  <2>1. plans[v] \in PlanRow
    BY RowOf DEF TypeOK
  <2> QED
    BY <1>1, <2>1 DEF PlanRow
<1>3. rows \in Seq(PlanRow) /\ Len(rows) = Len(plans)
  <2>1. rows \in [1..Len(plans) -> PlanRow]
    BY <1>1, <1>2
  <2> HIDE DEF rows
  <2> QED
    BY <1>1, <2>1, Listed
<1>4. NewPlan(items) \in PlanRow
  BY DEF NewPlan, PlanRow
<1>5. plans' = Append(rows, NewPlan(items)) /\ version <= MaxPlans
  BY DEF CreatePlan
<1> HIDE DEF rows
<1>6. plans' \in Seq(PlanRow) /\ Len(plans') = version
  BY <1>3, <1>4, <1>5, Appended
<1>7. timeline' \in Seq(AuditRow)
  <2>1. Entry("plan.drafted", version, NoOne) \in AuditRow
    BY <1>1, EntryRow DEF PlanActions
  <2> QED
    BY <2>1, Appended DEF CreatePlan, Record, TypeOK
<1> QED
  BY <1>5, <1>6, <1>7 DEF CreatePlan, TypeOK

LEMMA ApprovePlanTypeOK ==
  ASSUME TypeOK, NEW v \in DOMAIN plans, NEW approver \in Approver,
         ApprovePlan(v, approver)
  PROVE  TypeOK'
<1>1. v \in Nat
  BY DEF TypeOK
<1>2. [plans[v] EXCEPT !.status = "approved", !.approved_by = approver] \in PlanRow
  <2>1. plans[v] \in PlanRow
    BY RowOf DEF TypeOK
  <2> QED
    BY <2>1 DEF PlanRow
<1>3. plans' \in Seq(PlanRow) /\ Len(plans') = Len(plans)
  <2>1. plans' = [plans EXCEPT ![v] = [plans[v] EXCEPT !.status = "approved",
                                                       !.approved_by = approver]]
    BY DEF ApprovePlan
  <2> QED
    BY <1>2, <2>1, ExceptSeq DEF TypeOK
<1>4. timeline' \in Seq(AuditRow)
  BY <1>1 DEF ApprovePlan, ApprovalEntry, Record, Entry, AuditRow, TypeOK, PlanActions
<1> QED
  BY <1>3, <1>4 DEF ApprovePlan, TypeOK

LEMMA StartRoundTypeOK ==
  ASSUME TypeOK, NewestIsLive, StartRound
  PROVE  TypeOK'
<1>1. CurrentPlan \in Nat
  BY CurrentIsNewest DEF TypeOK
<1>2. contacts' \in [(1..MaxPlans) \X Community -> Seq(ContactResponse)]
  BY DEF StartRound, TypeOK, ContactResponse
<1>3. timeline' \in Seq(AuditRow)
  BY <1>1 DEF StartRound, Record, Entry, AuditRow, TypeOK
<1> QED
  BY <1>2, <1>3 DEF StartRound, TypeOK

LEMMA RecordContactTypeOK ==
  ASSUME WorkflowAssumption, TypeOK,
         NEW v \in 1..MaxPlans, NEW c \in Community, NEW response \in Responses,
         NEW k \in DOMAIN contacts[<<v, c>>], RecordContact(v, c, k, response)
  PROVE  TypeOK'
<1>1. [contacts[<<v, c>>] EXCEPT ![k] = response] \in Seq(ContactResponse)
  BY SMTT(30) DEF WorkflowAssumption, TypeOK
<1>2. contacts' \in [(1..MaxPlans) \X Community -> Seq(ContactResponse)]
  BY <1>1 DEF RecordContact, TypeOK
<1> QED
  BY <1>2 DEF RecordContact, TypeOK

LEMMA CreateTaskTypeOK ==
  ASSUME TypeOK, NEW p \in Place, NEW kind \in {"verify_household", "other"},
         NEW assigns \in BOOLEAN, CreateTask(p, kind, assigns)
  PROVE  TypeOK'
<1>1. NewTask(kind, assigns) \in TaskRow
  BY DEF NewTask, TaskRow, TaskStatus
<1>2. tasks' \in [Place -> Seq(TaskRow)]
  BY <1>1 DEF CreateTask, TypeOK
<1> QED
  BY <1>2 DEF CreateTask, TypeOK

LEMMA CreateFromUnreachableTypeOK ==
  ASSUME WorkflowAssumption, TypeOK, CreateFromUnreachable
  PROVE  TypeOK'
<1>1. ASSUME NEW c \in Community PROVE GeneratedFor(c) \in Seq(TaskRow)
  <2>1. Cardinality(UnreachableAttempts(c)) \in Nat
    BY <1>1, FinitelyUnreachable, FS_CardinalityType
  <2>2. NewTask("verify_household", FALSE) \in TaskRow
    BY DEF NewTask, TaskRow, TaskStatus
  <2> QED
    BY <2>1, <2>2, Listed DEF GeneratedFor
<1>2. tasks' \in [Place -> Seq(TaskRow)]
  BY <1>1 DEF CreateFromUnreachable, ToVerify, TypeOK
<1>3. timeline' \in Seq(AuditRow)
  BY DEF CreateFromUnreachable, Record, Entry, AuditRow, TypeOK
<1> QED
  BY <1>2, <1>3 DEF CreateFromUnreachable, TypeOK

LEMMA UpdateTaskTypeOK ==
  ASSUME WorkflowAssumption, TypeOK,
         NEW p \in Place, NEW status \in Statuses \cup {NoOne},
         NEW assigns \in BOOLEAN, NEW k \in DOMAIN tasks[p],
         UpdateTask(p, k, status, assigns)
  PROVE  TypeOK'
<1>1. tasks[p] \in Seq(TaskRow) /\ tasks[p][k] \in TaskRow
  BY DEF TypeOK
<1>2. Patched(tasks[p][k], status, assigns) \in TaskRow
  BY <1>1 DEF Patched, TaskRow, TaskStatus, WorkflowAssumption
<1>3. tasks' \in [Place -> Seq(TaskRow)]
  BY <1>1, <1>2 DEF UpdateTask, TypeOK
<1> QED
  BY <1>3 DEF UpdateTask, TypeOK

LEMMA SubmitReportTypeOK ==
  ASSUME TypeOK, NewestIsLive, NEW p \in Place, NEW demands \in BOOLEAN,
         NEW k \in DOMAIN tasks[p], SubmitReport(p, k, demands)
  PROVE  TypeOK'
<1>1. tasks[p] \in Seq(TaskRow) /\ tasks[p][k] \in TaskRow /\ k \in Nat
  BY DEF TypeOK
<1>2. tasks' \in [Place -> Seq(TaskRow)]
  <2> DEFINE reviewed == [tasks[p][k] EXCEPT !.status = "in_review"]
  <2>1. tasks' = tasks \/ tasks' = [tasks EXCEPT ![p] = [tasks[p] EXCEPT ![k] = reviewed]]
    BY DEF SubmitReport, TypeOK
  <2>2. reviewed \in TaskRow
    BY <1>1 DEF TaskRow, TaskStatus
  <2>3. [tasks[p] EXCEPT ![k] = reviewed] \in Seq(TaskRow)
    BY <1>1, <2>2, ExceptSeq
  <2> QED
    BY <2>1, <2>3 DEF TypeOK
<1>3. CurrentPlan = Len(plans) /\ Len(plans) \in Nat
  BY CurrentIsNewest DEF TypeOK
<1>4. plans' \in Seq(PlanRow) /\ Len(plans') = Len(plans)
  <2>1. CASE Recalls(demands)
    <3>1. Len(plans) \in DOMAIN plans /\ plans[Len(plans)] \in PlanRow
      BY <1>3, <2>1, RowOf DEF Recalls, TypeOK
    <3>2. [plans[Len(plans)] EXCEPT !.status = "reapproval_required"] \in PlanRow
      BY <3>1 DEF PlanRow
    <3>3. plans' = [plans EXCEPT ![Len(plans)] =
                      [plans[Len(plans)] EXCEPT !.status = "reapproval_required"]]
      BY <1>3, <2>1 DEF SubmitReport
    <3> QED
      BY <3>1, <3>2, <3>3, ExceptSeq DEF TypeOK
  <2>2. CASE ~Recalls(demands)
    BY <2>2 DEF SubmitReport, TypeOK
  <2> QED
    BY <2>1, <2>2
<1>5. reports' \in Seq(ReportRow)
  BY <1>1 DEF SubmitReport, ReportRow, TypeOK
<1>6. timeline' \in Seq(AuditRow)
  <2> DEFINE recalled == Entry("plan.reapproval_required", Len(plans), NoOne)
             filed == Entry("report.submitted", Len(reports) + 1, NoOne)
  <2>1. recalled \in AuditRow /\ filed \in AuditRow
    BY <1>3, EntryRow DEF PlanActions, TypeOK
  <2>2. \/ timeline' = timeline \o <<recalled, filed>>
        \/ timeline' = Append(timeline, filed)
    BY <1>3 DEF SubmitReport, Record
  <2>3. <<recalled, filed>> \in Seq(AuditRow)
    BY <2>1
  <2> HIDE DEF recalled, filed
  <2> QED
    <3>1. timeline \in Seq(AuditRow)
      BY DEF TypeOK
    <3>2. timeline \o <<recalled, filed>> \in Seq(AuditRow)
      BY <2>3, <3>1, ConcatProperties
    <3>3. Append(timeline, filed) \in Seq(AuditRow)
      BY <2>1, <3>1, Appended
    <3> QED
      BY <2>2, <3>2, <3>3
<1> QED
  BY <1>2, <1>4, <1>5, <1>6 DEF SubmitReport, TypeOK

----------------------------------------------------------------------------
(* The inductive invariant: the properties hold only together.  That the    *)
(* current plan is the newest needs NewestIsLive; that a round was opened   *)
(* under an approval is read off the timeline, so the timeline has to       *)
(* explain the plan and to be in order.                                     *)

IInv ==
  /\ TypeOK
  /\ NewestIsLive
  /\ TimelineExplainsPlans
  /\ TimelineInOrder
  /\ RoundsUnderApproval
  /\ ContactsFollowPlan
  /\ ApprovalIsFresh

\* The timeline got k more rows and kept the ones it had.
Grew(k) ==
  /\ Len(timeline') = Len(timeline) + k
  /\ \A i \in 1..Len(timeline) : timeline'[i] = timeline[i]

(* audit.record: one more row.                                              *)
LEMMA RecordGrows ==
  ASSUME TypeOK, NEW e \in AuditRow, Record(e)
  PROVE  Grew(1) /\ timeline'[Len(timeline) + 1] = e
BY Appended DEF TypeOK, Record, Grew

(* Everything the invariant needs to know about the domains.                *)
LEMMA Sizes ==
  ASSUME TypeOK
  PROVE  /\ Len(plans) \in Nat /\ DOMAIN plans = 1..Len(plans)
         /\ Len(timeline) \in Nat /\ DOMAIN timeline = 1..Len(timeline)
         /\ Len(reports) \in Nat /\ DOMAIN reports = 1..Len(reports)
         /\ plans = <<>> <=> Len(plans) = 0
         /\ \A v \in DOMAIN plans : plans[v] \in PlanRow
         /\ \A i \in DOMAIN timeline : timeline[i] \in AuditRow
         /\ \A v \in 1..MaxPlans, c \in Community :
              contacts[<<v, c>>] \in Seq(ContactResponse)
BY RowOf DEF TypeOK

----------------------------------------------------------------------------
(* What a longer timeline keeps.  Rows are only added, so what an older row *)
(* shows can only be undone by one of the new rows.                         *)

\* The positions of the k new rows.
Fresh(k) == (Len(timeline) + 1)..(Len(timeline) + k)

LEMMA Grown ==
  ASSUME TypeOK, TypeOK', NEW k \in Nat, Grew(k)
  PROVE  /\ DOMAIN timeline = 1..Len(timeline) /\ Len(timeline) \in Nat
         /\ DOMAIN timeline' = 1..(Len(timeline) + k)
         /\ \A i \in DOMAIN timeline : i \in DOMAIN timeline' /\ timeline'[i] = timeline[i]
         /\ \A i \in DOMAIN timeline' : i \in DOMAIN timeline \/ i \in Fresh(k)
<1>1. /\ DOMAIN timeline = 1..Len(timeline) /\ Len(timeline) \in Nat
      /\ DOMAIN timeline' = 1..Len(timeline')
  BY RowOf DEF TypeOK
<1> QED
  BY <1>1 DEF Grew, Fresh

LEMMA StatusKept ==
  ASSUME TypeOK, TypeOK', NEW k \in Nat, Grew(k),
         NEW v, StatusExplained(v), plans'[v].status = plans[v].status,
         \A i \in Fresh(k) : ~AboutPlan(i, v)'
  PROVE  StatusExplained(v)'
<1>1. PICK i \in DOMAIN timeline :
        /\ AboutPlan(i, v)
        /\ \A j \in DOMAIN timeline : j > i => ~AboutPlan(j, v)
        /\ plans[v].status = StatusAfter(timeline[i].action)
  BY DEF StatusExplained
<1>2. i \in DOMAIN timeline' /\ timeline'[i] = timeline[i]
  BY Grown
<1>3. ASSUME NEW j \in DOMAIN timeline', j > i PROVE ~AboutPlan(j, v)'
  <2>1. CASE j \in DOMAIN timeline
    BY <1>1, <1>3, <2>1, Grown DEF AboutPlan
  <2>2. CASE j \in Fresh(k)
    BY <2>2
  <2> QED
    BY <2>1, <2>2, Grown
<1>4. AboutPlan(i, v)'
  BY <1>1, <1>2 DEF AboutPlan
<1>5. plans'[v].status = StatusAfter(timeline'[i].action)
  BY <1>1, <1>2
<1> QED
  BY <1>2, <1>3, <1>4, <1>5 DEF StatusExplained

LEMMA SignatureKept ==
  ASSUME TypeOK, TypeOK', NEW k \in Nat, Grew(k),
         NEW v, SignatureExplained(v), plans'[v].approved_by = plans[v].approved_by,
         \A i \in Fresh(k) : ~Approval(i, v)'
  PROVE  SignatureExplained(v)'
<1>1. \A i \in DOMAIN timeline : Approval(i, v)' <=> Approval(i, v)
  BY Grown DEF Approval
<1>2. CASE plans[v].approved_by = NoOne
  BY <1>1, <1>2, Grown DEF SignatureExplained
<1>3. CASE plans[v].approved_by # NoOne
  <2>1. PICK i \in DOMAIN timeline :
          /\ Approval(i, v)
          /\ timeline[i].by = plans[v].approved_by
          /\ \A j \in DOMAIN timeline : j > i => ~Approval(j, v)
    BY <1>3 DEF SignatureExplained
  <2>2. \A j \in DOMAIN timeline' : j > i => ~Approval(j, v)'
    BY <1>1, <2>1, Grown
  <2>3. i \in DOMAIN timeline' /\ Approval(i, v)' /\ timeline'[i].by = plans'[v].approved_by
    BY <1>1, <2>1, Grown
  <2> QED
    BY <1>3, <2>2, <2>3 DEF SignatureExplained
<1> QED
  BY <1>2, <1>3

LEMMA OrderKept ==
  ASSUME TypeOK, TypeOK', NEW k \in Nat, Grew(k), TimelineInOrder,
         Len(plans) <= Len(plans'), Len(reports) <= Len(reports'),
         \A i \in Fresh(k) :
           /\ timeline'[i].action \in PlanActions \cup {"contact.started"} =>
                timeline'[i].entity = Len(plans') /\ plans' # <<>>
           /\ timeline'[i].action = "report.submitted" =>
                timeline'[i].entity \in DOMAIN reports'
  PROVE  TimelineInOrder'
<1>1. /\ Len(plans) \in Nat /\ DOMAIN plans = 1..Len(plans)
      /\ Len(plans') \in Nat /\ DOMAIN plans' = 1..Len(plans')
      /\ Len(reports) \in Nat /\ DOMAIN reports = 1..Len(reports)
      /\ Len(reports') \in Nat /\ DOMAIN reports' = 1..Len(reports')
      /\ plans' # <<>> => Len(plans') > 0
  BY RowOf DEF TypeOK
<1>2. ASSUME NEW i \in DOMAIN timeline'
      PROVE  /\ timeline'[i].action \in PlanActions \cup {"contact.started"} =>
                  timeline'[i].entity \in DOMAIN plans'
             /\ timeline'[i].action = "report.submitted" =>
                  timeline'[i].entity \in DOMAIN reports'
  <2>1. CASE i \in DOMAIN timeline
    BY <1>1, <2>1, Grown DEF TimelineInOrder
  <2>2. CASE i \in Fresh(k)
    BY <1>1, <2>2
  <2> QED
    BY <2>1, <2>2, Grown
<1>3. ASSUME NEW i \in DOMAIN timeline', NEW j \in DOMAIN timeline', i < j,
             {timeline'[i].action, timeline'[j].action} \subseteq PlanActions
      PROVE  timeline'[i].entity <= timeline'[j].entity
  <2>1. CASE j \in DOMAIN timeline
    <3>1. i \in DOMAIN timeline
      BY <1>3, <2>1, Grown
    <3> QED
      BY <1>3, <2>1, <3>1, Grown DEF TimelineInOrder
  <2>2. CASE j \in Fresh(k)
    <3>1. timeline'[j].entity = Len(plans')
      BY <1>3, <2>2
    <3>2. timeline'[i].entity \in DOMAIN plans'
      BY <1>2, <1>3
    <3> QED
      BY <1>1, <3>1, <3>2
  <2> QED
    BY <2>1, <2>2, Grown
<1> QED
  BY <1>2, <1>3 DEF TimelineInOrder

LEMMA RoundKept ==
  ASSUME TypeOK, TypeOK', NEW k \in Nat, Grew(k),
         NEW j \in DOMAIN timeline, UnderApproval(j)
  PROVE  UnderApproval(j)'
<1>1. PICK i \in 1..(j - 1) :
        /\ Approval(i, timeline[j].entity)
        /\ \A m \in (i + 1)..(j - 1) :
             /\ timeline[m].action # "plan.drafted"
             /\ timeline[m].action # "plan.reapproval_required"
  BY DEF UnderApproval
<1>2. j \in Nat /\ timeline'[j] = timeline[j]
  BY Grown
<1>3. \A m \in 1..(j - 1) : timeline'[m] = timeline[m]
  BY Grown
<1>4. \A m \in (i + 1)..(j - 1) : m \in 1..(j - 1)
  BY <1>2
<1>5. Approval(i, timeline[j].entity)'
  BY <1>1, <1>2, <1>3 DEF Approval
<1> QED
  BY <1>1, <1>3, <1>4, <1>5 DEF UnderApproval

LEMMA RoundsKept ==
  ASSUME TypeOK, TypeOK', NEW k \in Nat, Grew(k), RoundsUnderApproval,
         \A i \in Fresh(k) : timeline'[i].action = "contact.started" => UnderApproval(i)'
  PROVE  RoundsUnderApproval'
<1> SUFFICES ASSUME NEW j \in DOMAIN timeline', timeline'[j].action = "contact.started"
             PROVE  UnderApproval(j)'
  BY DEF RoundsUnderApproval
<1>1. CASE j \in DOMAIN timeline
  <2>1. UnderApproval(j)
    BY <1>1, Grown DEF RoundsUnderApproval
  <2> QED
    BY <1>1, <2>1, RoundKept
<1>2. CASE j \in Fresh(k)
  BY <1>2
<1> QED
  BY <1>1, <1>2, Grown

LEMMA FreshKept ==
  ASSUME TypeOK, TypeOK', NEW k \in Nat, Grew(k), ApprovalIsFresh, TimelineInOrder,
         plans' = plans, \A r \in DOMAIN reports : reports'[r] = reports[r],
         \A i \in Fresh(k) :
           /\ timeline'[i].action = "report.submitted"
           /\ reports'[timeline'[i].entity].demands
           => plans = <<>> \/ plans[Len(plans)].status # "approved"
  PROVE  ApprovalIsFresh'
<1> SUFFICES ASSUME NEW j \in DOMAIN timeline',
                    timeline'[j].action = "report.submitted",
                    reports'[timeline'[j].entity].demands,
                    plans # <<>>,
                    plans[Len(plans)].status = "approved"
             PROVE  \E i \in DOMAIN timeline' : i > j /\ Approval(i, Len(plans))'
  BY DEF ApprovalIsFresh
<1>1. j \in DOMAIN timeline
  BY Grown
<1>2. timeline'[j] = timeline[j] /\ timeline[j].entity \in DOMAIN reports
  BY <1>1, Grown DEF TimelineInOrder
<1>3. PICK i \in DOMAIN timeline : i > j /\ Approval(i, Len(plans))
  BY <1>1, <1>2 DEF ApprovalIsFresh
<1> QED
  BY <1>3, Grown DEF Approval

(* A step that leaves the plans alone and writes no row about a plan.       *)
LEMMA PlansStand ==
  ASSUME IInv, TypeOK', NEW k \in Nat, Grew(k),
         plans' = plans, Len(reports) <= Len(reports'),
         \A r \in DOMAIN reports : reports'[r] = reports[r],
         \A i \in Fresh(k) :
           /\ timeline'[i].action \notin PlanActions
           /\ timeline'[i].action = "contact.started" =>
                timeline'[i].entity = Len(plans) /\ plans # <<>>
           /\ timeline'[i].action = "report.submitted" =>
                /\ timeline'[i].entity \in DOMAIN reports'
                /\ reports'[timeline'[i].entity].demands =>
                     plans = <<>> \/ plans[Len(plans)].status # "approved"
  PROVE  /\ NewestIsLive'
         /\ TimelineExplainsPlans'
         /\ TimelineInOrder'
         /\ ApprovalIsFresh'
<1>1. TypeOK /\ NewestIsLive /\ TimelineExplainsPlans /\ TimelineInOrder /\ ApprovalIsFresh
  BY DEF IInv
<1>2. NewestIsLive'
  BY <1>1 DEF NewestIsLive
<1>3. ASSUME NEW v PROVE \A i \in Fresh(k) : ~AboutPlan(i, v)' /\ ~Approval(i, v)'
  BY DEF AboutPlan, Approval, PlanActions
<1>4. TimelineExplainsPlans'
  <2>1. ASSUME plans # <<>>, NEW v, v = Len(plans) PROVE StatusExplained(v)'
    BY <1>1, <1>3, <2>1, StatusKept DEF TimelineExplainsPlans
  <2>2. ASSUME NEW v \in DOMAIN plans PROVE SignatureExplained(v)'
    BY <1>1, <1>3, SignatureKept DEF TimelineExplainsPlans
  <2> QED
    BY <2>1, <2>2 DEF TimelineExplainsPlans
<1>5. TimelineInOrder'
  <2>1. Len(plans) <= Len(plans')
    BY Sizes, <1>1
  <2>2. \A i \in Fresh(k) :
          /\ timeline'[i].action \in PlanActions \cup {"contact.started"} =>
               timeline'[i].entity = Len(plans') /\ plans' # <<>>
          /\ timeline'[i].action = "report.submitted" =>
               timeline'[i].entity \in DOMAIN reports'
    OBVIOUS
  <2> QED
    BY <1>1, <2>1, <2>2, OrderKept
<1>6. ApprovalIsFresh'
  BY <1>1, FreshKept
<1> QED
  BY <1>2, <1>4, <1>5, <1>6

----------------------------------------------------------------------------
(* planning.create.                                                         *)

LEMMA CreatePlanEffect ==
  ASSUME IInv, NEW items \in (SUBSET Community) \ {{}}, CreatePlan(items)
  PROVE  /\ Len(plans') = Len(plans) + 1
         /\ DOMAIN plans' = 1..(Len(plans) + 1)
         /\ \A v \in DOMAIN plans :
              /\ plans'[v].status = "superseded"
              /\ plans'[v].superseded_by = v + 1
              /\ plans'[v].approved_by = plans[v].approved_by
              /\ plans'[v].items = plans[v].items
         /\ plans'[Len(plans) + 1] = NewPlan(items)
         /\ Grew(1)
         /\ timeline'[Len(timeline) + 1] = Entry("plan.drafted", Len(plans) + 1, NoOne)
         /\ UNCHANGED <<contacts, reports>>
<1> DEFINE version == Len(plans) + 1
           rows == [v \in DOMAIN plans |->
                      IF v = CurrentPlan
                      THEN [plans[v] EXCEPT !.status = "superseded",
                                            !.superseded_by = version]
                      ELSE plans[v]]
<1>1. CurrentPlan = Len(plans) /\ Len(plans) \in Nat /\ DOMAIN plans = 1..Len(plans)
  BY CurrentIsNewest, Sizes DEF IInv, TypeOK
<1>2. ASSUME NEW v \in DOMAIN plans
      PROVE  /\ rows[v] \in PlanRow
             /\ rows[v].status = "superseded"
             /\ rows[v].superseded_by = v + 1
             /\ rows[v].approved_by = plans[v].approved_by
             /\ rows[v].items = plans[v].items
  <2>1. plans[v] \in PlanRow
    BY Sizes DEF IInv
  <2>2. CASE v = Len(plans)
    <3>1. rows[v] = [plans[v] EXCEPT !.status = "superseded", !.superseded_by = version]
      BY <1>1, <2>2
    <3>2. rows[v] = [status |-> "superseded", items |-> plans[v].items,
                     approved_by |-> plans[v].approved_by, superseded_by |-> version]
      BY <2>1, <3>1 DEF PlanRow
    <3> HIDE DEF rows
    <3> QED
      BY <1>1, <2>1, <2>2, <3>2 DEF PlanRow
  <2>3. CASE v # Len(plans)
    BY <1>1, <2>1, <2>3 DEF IInv, NewestIsLive
  <2> QED
    BY <2>2, <2>3
<1>3. rows \in [1..Len(plans) -> PlanRow]
  BY <1>1, <1>2
<1>4. plans' = Append(rows, NewPlan(items)) /\ Record(Entry("plan.drafted", version, NoOne))
  BY DEF CreatePlan
<1> HIDE DEF rows
<1>5. rows \in Seq(PlanRow) /\ Len(rows) = Len(plans)
  BY <1>1, <1>3, Listed
<1>6. NewPlan(items) \in PlanRow
  BY DEF NewPlan, PlanRow
<1>7. Entry("plan.drafted", version, NoOne) \in AuditRow
  BY <1>1, EntryRow DEF PlanActions
<1>8. Grew(1) /\ timeline'[Len(timeline) + 1] = Entry("plan.drafted", version, NoOne)
  BY <1>4, <1>7, RecordGrows DEF IInv
<1>9. /\ Len(plans') = Len(plans) + 1
      /\ DOMAIN plans' = 1..(Len(plans) + 1)
      /\ \A v \in 1..Len(plans) : plans'[v] = rows[v]
      /\ plans'[Len(plans) + 1] = NewPlan(items)
  BY <1>4, <1>5, <1>6, Appended
<1> QED
  BY <1>1, <1>2, <1>8, <1>9 DEF CreatePlan

LEMMA CreatePlanInv ==
  ASSUME WorkflowAssumption, IInv,
         NEW items \in (SUBSET Community) \ {{}}, CreatePlan(items)
  PROVE  IInv'
<1> DEFINE n == Len(timeline)
           L == Len(plans)
<1>1. TypeOK /\ TypeOK'
  BY CreatePlanTypeOK DEF IInv
<1>2. n \in Nat /\ L \in Nat /\ DOMAIN plans = 1..L /\ DOMAIN timeline = 1..n
  BY Sizes DEF IInv
<1>3. /\ Len(plans') = L + 1 /\ DOMAIN plans' = 1..(L + 1)
      /\ \A v \in 1..L : /\ plans'[v].status = "superseded"
                         /\ plans'[v].superseded_by = v + 1
                         /\ plans'[v].approved_by = plans[v].approved_by
                         /\ plans'[v].items = plans[v].items
      /\ plans'[L + 1].status = "draft" /\ plans'[L + 1].superseded_by = 0
      /\ plans'[L + 1].approved_by = NoOne
      /\ contacts' = contacts /\ reports' = reports
  <2>1. plans'[L + 1] = NewPlan(items)
    BY CreatePlanEffect
  <2>2. \A v \in 1..L : v \in DOMAIN plans
    BY <1>2
  <2> QED
    BY <2>1, <2>2, CreatePlanEffect DEF NewPlan
<1>4. Grew(1)
  BY CreatePlanEffect
<1>5. /\ \A i \in Fresh(1) : i = n + 1
      /\ timeline'[n + 1].action = "plan.drafted"
      /\ timeline'[n + 1].entity = L + 1
  <2>1. timeline'[n + 1] = Entry("plan.drafted", L + 1, NoOne)
    BY CreatePlanEffect
  <2>2. \A i \in Fresh(1) : i = n + 1
    BY <1>2 DEF Fresh
  <2> QED
    BY <2>1, <2>2 DEF Entry
<1>6. DOMAIN timeline' = 1..(n + 1) /\ plans' # <<>> /\ n + 1 \in DOMAIN timeline'
  BY <1>1, <1>2, <1>3, <1>4, RowOf DEF TypeOK, Grew
<1>7. NewestIsLive'
  BY <1>2, <1>3 DEF NewestIsLive
<1>8. TimelineExplainsPlans'
  <2>1. StatusExplained(Len(plans))'
    BY SMTT(30), <1>2, <1>3, <1>5, <1>6 DEF StatusExplained, AboutPlan, StatusAfter, PlanActions
  <2>2. ASSUME NEW v \in 1..L PROVE SignatureExplained(v)'
    <3>1. SignatureExplained(v)
      BY <1>2 DEF IInv, TimelineExplainsPlans
    <3>2. \A i \in Fresh(1) : ~Approval(i, v)'
      BY <1>5 DEF Approval
    <3>3. plans'[v].approved_by = plans[v].approved_by
      BY <1>3
    <3> QED
      BY <1>1, <1>4, <3>1, <3>2, <3>3, SignatureKept
  <2>3. SignatureExplained(Len(plans))'
    <3>1. ASSUME NEW v, v = L + 1, NEW i \in 1..(n + 1) PROVE ~Approval(i, v)'
      <4>1. CASE i \in 1..n
        <5>1. timeline'[i] = timeline[i]
          BY <1>4, <4>1 DEF Grew
        <5>2. timeline[i].action = "plan.approved" => timeline[i].entity \in 1..L
          BY <1>2, <4>1 DEF IInv, TimelineInOrder, PlanActions
        <5> QED
          BY <1>2, <3>1, <5>1, <5>2 DEF Approval
      <4>2. CASE i = n + 1
        BY <1>5, <4>2 DEF Approval
      <4> QED
        BY <1>2, <4>1, <4>2
    <3> QED
      BY <1>3, <1>6, <3>1 DEF SignatureExplained, Approval
  <2> QED
    BY <1>2, <1>3, <2>1, <2>2, <2>3 DEF TimelineExplainsPlans
<1>9. TimelineInOrder'
  <2>1. /\ L <= Len(plans')
        /\ Len(reports) <= Len(reports')
    BY <1>2, <1>3, Sizes DEF IInv
  <2>2. \A i \in Fresh(1) :
           /\ timeline'[i].action \in PlanActions \cup {"contact.started"} =>
                timeline'[i].entity = Len(plans') /\ plans' # <<>>
           /\ timeline'[i].action = "report.submitted" =>
                timeline'[i].entity \in DOMAIN reports'
    BY <1>3, <1>5, <1>6
  <2> QED
    BY <1>1, <1>4, <2>1, <2>2, OrderKept DEF IInv
<1>10. RoundsUnderApproval'
  BY <1>1, <1>4, <1>5, RoundsKept DEF IInv
<1>11. ContactsFollowPlan'
  BY SMTT(30), <1>2, <1>3 DEF IInv, ContactsFollowPlan
<1>12. ApprovalIsFresh'
  BY <1>3 DEF ApprovalIsFresh
<1> QED
  BY <1>1, <1>7, <1>8, <1>9, <1>10, <1>11, <1>12 DEF IInv

----------------------------------------------------------------------------
(* planning.approve: only the newest version can be approved, because the   *)
(* others are superseded.                                                   *)

LEMMA ApprovePlanEffect ==
  ASSUME IInv, NEW v \in DOMAIN plans, NEW approver \in Approver,
         ApprovePlan(v, approver)
  PROVE  /\ v = Len(plans) /\ v \in Nat /\ plans # <<>>
         /\ plans[v].status \in {"draft", "reapproval_required"}
         /\ DOMAIN plans' = DOMAIN plans /\ Len(plans') = Len(plans)
         /\ \A w \in DOMAIN plans : w # v => plans'[w] = plans[w]
         /\ plans'[v].status = "approved" /\ plans'[v].approved_by = approver
         /\ plans'[v].superseded_by = plans[v].superseded_by
         /\ plans'[v].items = plans[v].items
         /\ UNCHANGED <<contacts, reports>>
<1>1. Len(plans) \in Nat /\ DOMAIN plans = 1..Len(plans) /\ plans[v] \in PlanRow
  BY Sizes DEF IInv
<1>2. v = Len(plans) /\ v \in Nat /\ plans # <<>>
  BY <1>1 DEF ApprovePlan, Approvable, IInv, NewestIsLive
<1>3. plans[v].status \in {"draft", "reapproval_required"}
  BY <1>1 DEF ApprovePlan, Approvable, PlanRow
<1>4. plans' = [plans EXCEPT ![v] = [plans[v] EXCEPT !.status = "approved",
                                                     !.approved_by = approver]]
  BY DEF ApprovePlan
<1>5. DOMAIN plans' = DOMAIN plans /\ Len(plans') = Len(plans)
  BY <1>1, <1>4, ApprovePlanTypeOK, RowOf DEF IInv, TypeOK
<1>6. plans'[v] = [plans[v] EXCEPT !.status = "approved", !.approved_by = approver]
  BY <1>4
<1>7. plans'[v] = [status |-> "approved", items |-> plans[v].items,
                   approved_by |-> approver, superseded_by |-> plans[v].superseded_by]
  BY <1>1, <1>6 DEF PlanRow
<1>8. \A w \in DOMAIN plans : w # v => plans'[w] = plans[w]
  BY <1>4
<1>9. /\ plans'[v].status = "approved" /\ plans'[v].approved_by = approver
      /\ plans'[v].superseded_by = plans[v].superseded_by
      /\ plans'[v].items = plans[v].items
  BY <1>7
<1>10. UNCHANGED <<contacts, reports>>
  BY DEF ApprovePlan
<1> QED
  BY <1>2, <1>3, <1>5, <1>8, <1>9, <1>10

LEMMA ApprovePlanInv ==
  ASSUME WorkflowAssumption, IInv, NEW v \in DOMAIN plans, NEW approver \in Approver,
         ApprovePlan(v, approver)
  PROVE  IInv'
<1> DEFINE n == Len(timeline)
<1>1. TypeOK /\ TypeOK'
  BY ApprovePlanTypeOK DEF IInv
<1>2. /\ n \in Nat /\ DOMAIN timeline = 1..n
      /\ Len(plans) \in Nat /\ DOMAIN plans = 1..Len(plans)
  BY <1>1, Sizes
<1>3. v = Len(plans) /\ v \in Nat /\ plans # <<>>
  BY ApprovePlanEffect
<1>4. /\ DOMAIN plans' = DOMAIN plans /\ Len(plans') = Len(plans)
      /\ \A w \in DOMAIN plans : w # v => plans'[w] = plans[w]
      /\ plans'[v].status = "approved" /\ plans'[v].approved_by = approver
      /\ plans'[v].superseded_by = plans[v].superseded_by
      /\ plans'[v].items = plans[v].items
      /\ contacts' = contacts /\ reports' = reports
  BY ApprovePlanEffect
<1>5. Grew(1) /\ timeline'[n + 1] = Entry("plan.approved", v, approver)
  <2>1. Entry("plan.approved", v, approver) \in AuditRow
    BY <1>3, EntryRow DEF PlanActions
  <2> QED
    BY <1>1, <2>1, RecordGrows DEF ApprovePlan, ApprovalEntry
<1>6. /\ timeline'[n + 1].action = "plan.approved"
      /\ timeline'[n + 1].entity = v
      /\ timeline'[n + 1].by = approver
      /\ \A i \in Fresh(1) : i = n + 1
  <2>1. \A i \in Fresh(1) : i = n + 1
    BY <1>2 DEF Fresh
  <2> QED
    BY <1>5, <2>1 DEF Entry
<1>7. DOMAIN timeline' = 1..(n + 1) /\ n + 1 \in DOMAIN timeline' /\ plans' # <<>>
  BY <1>1, <1>2, <1>3, <1>4, <1>5, Grown, Sizes
<1>8. NewestIsLive'
  BY <1>2, <1>3, <1>4 DEF IInv, NewestIsLive
<1>9. TimelineExplainsPlans'
  <2>1. StatusExplained(v)'
    BY <1>2, <1>4, <1>6, <1>7 DEF StatusExplained, AboutPlan, StatusAfter, PlanActions
  <2>2. ASSUME NEW w \in DOMAIN plans, w # v PROVE SignatureExplained(w)'
    <3>1. SignatureExplained(w)
      BY DEF IInv, TimelineExplainsPlans
    <3>2. \A i \in Fresh(1) : ~Approval(i, w)'
      BY <1>6, <2>2 DEF Approval
    <3> QED
      BY <1>1, <1>4, <1>5, <2>2, <3>1, <3>2, SignatureKept
  <2>3. SignatureExplained(v)'
    <3>1. approver # NoOne
      BY DEF WorkflowAssumption
    <3>2. \A j \in DOMAIN timeline' : ~(j > n + 1)
      BY <1>2, <1>7
    <3> QED
      BY <1>4, <1>6, <1>7, <3>1, <3>2 DEF SignatureExplained, Approval
  <2> QED
    BY <1>3, <1>4, <2>1, <2>2, <2>3 DEF TimelineExplainsPlans
<1>10. TimelineInOrder'
  <2>1. Len(plans) <= Len(plans') /\ Len(reports) <= Len(reports')
    BY <1>1, <1>4, Sizes
  <2>2. \A i \in Fresh(1) :
           /\ timeline'[i].action \in PlanActions \cup {"contact.started"} =>
                timeline'[i].entity = Len(plans') /\ plans' # <<>>
           /\ timeline'[i].action = "report.submitted" =>
                timeline'[i].entity \in DOMAIN reports'
    BY <1>3, <1>4, <1>6, <1>7
  <2> QED
    BY <1>1, <1>5, <2>1, <2>2, OrderKept DEF IInv
<1>11. RoundsUnderApproval'
  BY <1>1, <1>5, <1>6, RoundsKept DEF IInv
<1>12. ContactsFollowPlan'
  <2>1. approver # NoOne
    BY DEF WorkflowAssumption
  <2> QED
    BY <1>4, <2>1 DEF IInv, ContactsFollowPlan
<1>13. ApprovalIsFresh'
  <2>1. ASSUME NEW j \in DOMAIN timeline', timeline'[j].action = "report.submitted"
        PROVE  n + 1 > j
    BY <1>2, <1>6, <1>7, <2>1
  <2> QED
    BY <1>3, <1>4, <1>6, <1>7, <2>1 DEF ApprovalIsFresh, Approval
<1> QED
  BY <1>1, <1>8, <1>9, <1>10, <1>11, <1>12, <1>13 DEF IInv

----------------------------------------------------------------------------
(* contacts.start_round.                                                    *)

LEMMA StartRoundInv ==
  ASSUME WorkflowAssumption, IInv, StartRound
  PROVE  IInv'
<1> DEFINE n == Len(timeline)
<1>1. TypeOK /\ TypeOK'
  BY StartRoundTypeOK DEF IInv
<1>2. /\ n \in Nat /\ DOMAIN timeline = 1..n
      /\ Len(plans) \in Nat /\ DOMAIN plans = 1..Len(plans)
  BY <1>1, Sizes
<1>3. PICK v \in DOMAIN plans : /\ v = CurrentPlan /\ v = Len(plans)
                                /\ plans # <<>>
                                /\ plans[v].status = "approved"
  <2>1. CurrentPlan = Len(plans)
    BY <1>1, CurrentIsNewest DEF TypeOK, IInv
  <2>2. Len(plans) # 0 /\ plans[Len(plans)].status = "approved"
    BY <2>1 DEF StartRound, Actionable
  <2> QED
    BY <1>1, <1>2, <2>1, <2>2, Sizes
<1>4. plans' = plans /\ reports' = reports
  BY DEF StartRound
<1>5. Grew(1) /\ timeline'[n + 1] = Entry("contact.started", v, NoOne)
  <2>1. Entry("contact.started", v, NoOne) \in AuditRow
    BY <1>2, EntryRow
  <2> QED
    BY <1>1, <1>3, <2>1, RecordGrows DEF StartRound
<1>6. /\ timeline'[n + 1].action = "contact.started"
      /\ timeline'[n + 1].entity = v
      /\ \A i \in Fresh(1) : i = n + 1
  <2>1. \A i \in Fresh(1) : i = n + 1
    BY <1>2 DEF Fresh
  <2> QED
    BY <1>5, <2>1 DEF Entry
(* The last row about the plan is its approval.                             *)
<1>7. PICK i \in DOMAIN timeline :
        /\ Approval(i, v)
        /\ \A m \in DOMAIN timeline : m > i => ~AboutPlan(m, v)
  BY <1>3 DEF IInv, TimelineExplainsPlans, StatusExplained, AboutPlan, Approval,
              StatusAfter, PlanActions
<1>8. plans[v].approved_by # NoOne
  BY <1>7 DEF IInv, TimelineExplainsPlans, SignatureExplained
<1>9. NewestIsLive' /\ TimelineExplainsPlans' /\ TimelineInOrder' /\ ApprovalIsFresh'
  <2>1. \A m \in Fresh(1) :
          /\ timeline'[m].action \notin PlanActions
          /\ timeline'[m].action = "contact.started" =>
               timeline'[m].entity = Len(plans) /\ plans # <<>>
          /\ timeline'[m].action = "report.submitted" =>
               /\ timeline'[m].entity \in DOMAIN reports'
               /\ reports'[timeline'[m].entity].demands =>
                    plans = <<>> \/ plans[Len(plans)].status # "approved"
    BY <1>3, <1>6 DEF PlanActions
  <2>2. Len(reports) <= Len(reports')
    BY <1>1, <1>4, Sizes
  <2> QED
    BY <1>1, <1>4, <1>5, <2>1, <2>2, PlansStand
<1>10. RoundsUnderApproval'
  <2>1. ASSUME NEW m \in (i + 1)..n
        PROVE  /\ timeline[m].action # "plan.drafted"
               /\ timeline[m].action # "plan.reapproval_required"
    <3> SUFFICES ASSUME timeline[m].action \in PlanActions PROVE FALSE
      BY DEF PlanActions
    <3>1. m \in DOMAIN timeline /\ m > i
      BY <1>2, <2>1
    <3>2. timeline[i].action \in PlanActions /\ timeline[i].entity = v
      BY <1>7 DEF Approval, PlanActions
    <3>3. v <= timeline[m].entity /\ timeline[m].entity \in DOMAIN plans
      BY <1>7, <3>1, <3>2 DEF IInv, TimelineInOrder
    <3>4. timeline[m].entity = v
      BY <1>2, <1>3, <3>3
    <3> QED
      BY <1>7, <3>1, <3>4 DEF AboutPlan
  <2>2. ASSUME NEW j, j = n + 1 PROVE UnderApproval(j)'
    <3>1. i \in 1..(j - 1) /\ \A m \in (i + 1)..(j - 1) : m \in (i + 1)..n
      BY <1>2, <2>2
    <3>2. \A m \in 1..n : timeline'[m] = timeline[m]
      BY <1>5 DEF Grew
    <3>3. Approval(i, timeline[j].entity)'
      BY <1>2, <1>6, <1>7, <2>2, <3>2 DEF Approval
    <3>4. \A m \in (i + 1)..(j - 1) : /\ timeline'[m].action # "plan.drafted"
                                      /\ timeline'[m].action # "plan.reapproval_required"
      BY SMTT(30), <1>2, <2>1, <3>1, <3>2
    <3> QED
      BY <3>1, <3>3, <3>4 DEF UnderApproval
  <2> QED
    BY <1>1, <1>5, <1>6, <2>2, RoundsKept DEF IInv
<1>11. ContactsFollowPlan'
  <2> SUFFICES ASSUME NEW vc \in DOMAIN contacts', contacts'[vc] # <<>>
               PROVE  /\ Len(contacts'[vc]) = 1
                      /\ vc[1] \in DOMAIN plans
                      /\ vc[2] \in plans[vc[1]].items
                      /\ plans[vc[1]].approved_by # NoOne
    BY <1>4 DEF ContactsFollowPlan
  <2>1. vc \in DOMAIN contacts
    BY <1>1 DEF TypeOK
  <2>2. CASE vc[1] = v /\ vc[2] \in Uncalled(v)
    <3>1. contacts[<<v, vc[2]>>] = <<>> /\ vc[2] \in plans[v].items /\ vc = <<v, vc[2]>>
      BY <1>1, <2>1, <2>2 DEF Uncalled, TypeOK
    <3>2. contacts'[vc] = Append(contacts[vc], "pending")
      BY <1>3, <2>1, <2>2 DEF StartRound
    <3>3. contacts'[vc] = Append(<<>>, "pending")
      BY <3>1, <3>2
    <3> QED
      BY <1>8, <2>2, <3>1, <3>3
  <2>3. CASE ~(vc[1] = v /\ vc[2] \in Uncalled(v))
    <3>1. contacts'[vc] = contacts[vc]
      BY <1>3, <2>1, <2>3 DEF StartRound
    <3> QED
      BY <2>1, <3>1 DEF IInv, ContactsFollowPlan
  <2> QED
    BY <2>2, <2>3
<1> QED
  BY <1>1, <1>9, <1>10, <1>11 DEF IInv

----------------------------------------------------------------------------
(* contacts.update, tasks.create, tasks.update and                          *)
(* tasks.create_from_unreachable: nothing the invariant reads is touched,   *)
(* but the rows of the calling list and, in the last one, the timeline.     *)

LEMMA PlansAloneInv ==
  ASSUME IInv, TypeOK', UNCHANGED <<plans, reports, timeline>>, ContactsFollowPlan'
  PROVE  IInv'
<1>1. TypeOK /\ Grew(0)
  BY Sizes DEF IInv, Grew
<1>2. Fresh(0) = {}
  BY <1>1, Sizes DEF Fresh
<1>3. Len(reports) <= Len(reports')
  BY <1>1, Sizes
<1>4. NewestIsLive' /\ TimelineExplainsPlans' /\ TimelineInOrder' /\ ApprovalIsFresh'
  BY <1>1, <1>2, <1>3, PlansStand
<1>5. RoundsUnderApproval'
  BY <1>1, <1>2, RoundsKept DEF IInv
<1> QED
  BY <1>4, <1>5 DEF IInv

LEMMA RecordContactEffect ==
  ASSUME WorkflowAssumption, TypeOK,
         NEW v \in 1..MaxPlans, NEW c \in Community, NEW response \in Responses,
         NEW k \in DOMAIN contacts[<<v, c>>], RecordContact(v, c, k, response)
  PROVE  /\ DOMAIN contacts' = DOMAIN contacts
         /\ \A vc \in DOMAIN contacts : /\ Len(contacts'[vc]) = Len(contacts[vc])
                                        /\ contacts'[vc] = <<>> <=> contacts[vc] = <<>>
<1>1. DOMAIN contacts' = DOMAIN contacts
  BY DEF RecordContact
<1>2. ASSUME NEW vc \in DOMAIN contacts
      PROVE  Len(contacts'[vc]) = Len(contacts[vc]) /\ (contacts'[vc] = <<>> <=> contacts[vc] = <<>>)
  <2>1. contacts[vc] \in Seq(ContactResponse) /\ contacts'[vc] \in Seq(ContactResponse)
    BY <1>1, RecordContactTypeOK DEF TypeOK
  <2>2. CASE vc = <<v, c>>
    <3>1. contacts'[vc] = [contacts[vc] EXCEPT ![k] = response]
      BY <2>2 DEF RecordContact
    <3> QED
      BY <2>1, <2>2, <3>1
  <2>3. CASE vc # <<v, c>>
    BY <2>3 DEF RecordContact
  <2> QED
    BY <2>2, <2>3
<1> QED
  BY <1>1, <1>2

LEMMA RecordContactInv ==
  ASSUME WorkflowAssumption, IInv,
         NEW v \in 1..MaxPlans, NEW c \in Community, NEW response \in Responses,
         NEW k \in DOMAIN contacts[<<v, c>>], RecordContact(v, c, k, response)
  PROVE  IInv'
<1>1. TypeOK /\ TypeOK'
  BY RecordContactTypeOK DEF IInv
<1>2. ContactsFollowPlan'
  BY <1>1, RecordContactEffect DEF IInv, ContactsFollowPlan, RecordContact
<1> QED
  BY <1>1, <1>2, PlansAloneInv DEF RecordContact

LEMMA CreateFromUnreachableInv ==
  ASSUME WorkflowAssumption, IInv, CreateFromUnreachable
  PROVE  IInv'
<1>1. TypeOK /\ TypeOK'
  BY CreateFromUnreachableTypeOK DEF IInv
<1>2. Grew(1) /\ timeline'[Len(timeline) + 1] = Entry("task.generated", 0, NoOne)
  <2>1. Entry("task.generated", 0, NoOne) \in AuditRow
    BY EntryRow
  <2> QED
    BY <1>1, <2>1, RecordGrows DEF CreateFromUnreachable
<1>3. \A i \in Fresh(1) : timeline'[i].action = "task.generated"
  <2>1. \A i \in Fresh(1) : i = Len(timeline) + 1
    BY <1>1, Sizes DEF Fresh
  <2> QED
    BY <1>2, <2>1 DEF Entry
<1>4. plans' = plans /\ reports' = reports /\ contacts' = contacts
  BY DEF CreateFromUnreachable
<1>5. Len(reports) <= Len(reports')
  BY <1>1, <1>4, Sizes
<1>6. NewestIsLive' /\ TimelineExplainsPlans' /\ TimelineInOrder' /\ ApprovalIsFresh'
  BY <1>1, <1>2, <1>3, <1>4, <1>5, PlansStand DEF PlanActions
<1>7. RoundsUnderApproval'
  BY <1>1, <1>2, <1>3, RoundsKept DEF IInv
<1>8. ContactsFollowPlan'
  BY <1>4 DEF IInv, ContactsFollowPlan
<1> QED
  BY <1>1, <1>6, <1>7, <1>8 DEF IInv

----------------------------------------------------------------------------
(* tasks.submit_report.                                                     *)

LEMMA RecallEffect ==
  ASSUME TypeOK, NewestIsLive, NEW p \in Place, NEW demands \in BOOLEAN,
         NEW k \in DOMAIN tasks[p], SubmitReport(p, k, demands), Recalls(demands)
  PROVE  LET L == Len(plans)
         IN /\ L # 0 /\ plans # <<>> /\ L \in DOMAIN plans
            /\ plans[L].status = "approved"
            /\ Len(plans') = L /\ DOMAIN plans' = DOMAIN plans
            /\ \A w \in DOMAIN plans : w # L => plans'[w] = plans[w]
            /\ plans'[L].status = "reapproval_required"
            /\ plans'[L].approved_by = plans[L].approved_by
            /\ plans'[L].superseded_by = plans[L].superseded_by
            /\ plans'[L].items = plans[L].items
<1> DEFINE L == Len(plans)
<1>1. CurrentPlan = L /\ L \in Nat /\ DOMAIN plans = 1..L
  BY Sizes, CurrentIsNewest DEF TypeOK
<1>2. /\ L # 0 /\ plans # <<>> /\ L \in DOMAIN plans
      /\ plans[L] \in PlanRow /\ plans[L].status = "approved"
  BY <1>1, Sizes DEF Recalls
<1>3. plans' = [plans EXCEPT ![L] = [plans[L] EXCEPT !.status = "reapproval_required"]]
  BY <1>1 DEF SubmitReport
<1>4. plans'[L] = [status |-> "reapproval_required", items |-> plans[L].items,
                   approved_by |-> plans[L].approved_by,
                   superseded_by |-> plans[L].superseded_by]
  BY <1>2, <1>3 DEF PlanRow
<1>5. Len(plans') = L
  BY <1>1, <1>3, SubmitReportTypeOK, RowOf DEF TypeOK
<1> QED
  BY <1>2, <1>3, <1>4, <1>5

LEMMA SubmitReportInv ==
  ASSUME WorkflowAssumption, IInv, NEW p \in Place, NEW demands \in BOOLEAN,
         NEW k \in DOMAIN tasks[p], SubmitReport(p, k, demands)
  PROVE  IInv'
<1> DEFINE n == Len(timeline)
           number == Len(reports) + 1
           filed == Entry("report.submitted", number, NoOne)
<1>1. TypeOK /\ TypeOK'
  BY SubmitReportTypeOK DEF IInv
<1>2. /\ n \in Nat /\ DOMAIN timeline = 1..n
      /\ Len(plans) \in Nat /\ DOMAIN plans = 1..Len(plans)
      /\ Len(reports) \in Nat /\ DOMAIN reports = 1..Len(reports)
      /\ CurrentPlan = Len(plans)
  BY <1>1, Sizes, CurrentIsNewest DEF IInv, TypeOK
<1>3. /\ Len(reports') = number
      /\ number \in DOMAIN reports'
      /\ \A r \in DOMAIN reports : reports'[r] = reports[r]
      /\ reports'[number].demands = demands
  <2> DEFINE row == [place |-> p, task |-> k, demands |-> demands,
                     triggered_replan |-> /\ demands
                                          /\ CurrentPlan # 0
                                          /\ plans'[CurrentPlan].status = "reapproval_required"]
  <2>1. reports' = Append(reports, row) /\ row.demands = demands
    BY DEF SubmitReport
  <2> HIDE DEF row
  <2> QED
    BY SMTT(30), <1>1, <1>2, <2>1 DEF TypeOK
<1>4. contacts' = contacts
  BY DEF SubmitReport
<1>5. filed \in AuditRow /\ filed.action = "report.submitted" /\ filed.entity = number
  BY <1>2, EntryRow DEF Entry
<1>6. CASE Recalls(demands)
  <2> DEFINE L == Len(plans)
             recalled == Entry("plan.reapproval_required", L, NoOne)
  <2>1. L # 0 /\ plans # <<>> /\ L \in DOMAIN plans
    BY <1>1, <1>6, RecallEffect DEF IInv
  <2>2. /\ Len(plans') = L /\ DOMAIN plans' = DOMAIN plans
        /\ \A w \in DOMAIN plans : w # L => plans'[w] = plans[w]
        /\ plans'[L].status = "reapproval_required"
        /\ plans'[L].approved_by = plans[L].approved_by
        /\ plans'[L].superseded_by = plans[L].superseded_by
        /\ plans'[L].items = plans[L].items
    BY <1>1, <1>6, RecallEffect DEF IInv
  <2>3. recalled \in AuditRow /\ recalled.action = "plan.reapproval_required" /\ recalled.entity = L
    BY <1>2, EntryRow DEF Entry, PlanActions
  <2>4. /\ Grew(2)
        /\ timeline'[n + 1] = recalled
        /\ timeline'[n + 2] = filed
    <3>1. timeline' = timeline \o <<recalled, filed>> /\ timeline \in Seq(AuditRow)
      BY <1>1, <1>2, <1>6 DEF SubmitReport, TypeOK
    <3> HIDE DEF recalled, filed
    <3>2. <<recalled, filed>> \in Seq(AuditRow) /\ Len(<<recalled, filed>>) = 2
      BY <1>5, <2>3
    <3> QED
      BY <1>2, <3>1, <3>2 DEF Grew
  <2>5. \A i \in Fresh(2) : i \in {n + 1, n + 2}
    BY <1>2 DEF Fresh
  <2>6. n + 1 \in DOMAIN timeline' /\ DOMAIN timeline' = 1..(n + 2) /\ plans' # <<>>
    BY <1>1, <1>2, <2>1, <2>2, <2>4, Grown, Sizes
  <2> HIDE DEF recalled, filed
  <2>7. NewestIsLive'
    BY <1>2, <2>1, <2>2 DEF IInv, NewestIsLive
  <2>8. TimelineExplainsPlans'
    <3>1. ASSUME NEW v, v = L PROVE StatusExplained(v)'
      BY SMTT(30), <1>2, <1>5, <2>2, <2>3, <2>4, <2>6, <3>1
         DEF StatusExplained, AboutPlan, StatusAfter, PlanActions
    <3>2. ASSUME NEW v \in DOMAIN plans PROVE SignatureExplained(v)'
      <4>1. SignatureExplained(v) /\ plans'[v].approved_by = plans[v].approved_by
        BY <2>2 DEF IInv, TimelineExplainsPlans
      <4>2. \A i \in Fresh(2) : ~Approval(i, v)'
        BY <1>5, <2>3, <2>4, <2>5 DEF Approval
      <4> QED
        BY <1>1, <2>4, <4>1, <4>2, SignatureKept
    <3> QED
      BY <2>2, <3>1, <3>2 DEF TimelineExplainsPlans
  <2>9. TimelineInOrder'
    <3>1. Len(plans) <= Len(plans') /\ Len(reports) <= Len(reports')
      BY <1>2, <1>3, <2>2
    <3>2. \A i \in Fresh(2) :
             /\ timeline'[i].action \in PlanActions \cup {"contact.started"} =>
                  timeline'[i].entity = Len(plans') /\ plans' # <<>>
             /\ timeline'[i].action = "report.submitted" =>
                  timeline'[i].entity \in DOMAIN reports'
      BY SMTT(30), <1>3, <1>5, <2>2, <2>3, <2>4, <2>5, <2>6 DEF PlanActions
    <3> QED
      BY <1>1, <2>4, <3>1, <3>2, OrderKept DEF IInv
  <2>10. RoundsUnderApproval'
    <3>1. \A i \in Fresh(2) : timeline'[i].action # "contact.started"
      BY <1>5, <2>3, <2>4, <2>5
    <3> QED
      BY <1>1, <2>4, <3>1, RoundsKept DEF IInv
  <2>11. ContactsFollowPlan'
    BY <1>4, <2>2 DEF IInv, ContactsFollowPlan
  <2>12. ApprovalIsFresh'
    BY <2>2 DEF ApprovalIsFresh
  <2> QED
    BY <1>1, <2>7, <2>8, <2>9, <2>10, <2>11, <2>12 DEF IInv
<1>7. CASE ~Recalls(demands)
  <2>1. plans' = plans
    BY <1>7 DEF SubmitReport
  <2>2. Grew(1) /\ timeline'[n + 1] = filed
    <3>1. Record(filed)
      BY <1>7 DEF SubmitReport
    <3> QED
      BY <1>1, <1>5, <3>1, RecordGrows
  <2>3. \A i \in Fresh(1) : i = n + 1
    BY <1>2 DEF Fresh
  <2> HIDE DEF filed
  <2>4. demands => plans = <<>> \/ plans[Len(plans)].status # "approved"
    BY <1>1, <1>2, <1>7, Sizes DEF Recalls
  <2>5. \A i \in Fresh(1) :
          /\ timeline'[i].action \notin PlanActions
          /\ timeline'[i].action # "contact.started"
          /\ timeline'[i].entity \in DOMAIN reports'
          /\ reports'[timeline'[i].entity].demands =>
               plans = <<>> \/ plans[Len(plans)].status # "approved"
    BY <1>3, <1>5, <2>2, <2>3, <2>4 DEF PlanActions
  <2>6. Len(reports) <= Len(reports')
    BY <1>2, <1>3
  <2>7. NewestIsLive' /\ TimelineExplainsPlans' /\ TimelineInOrder' /\ ApprovalIsFresh'
    BY <1>1, <1>3, <2>1, <2>2, <2>5, <2>6, PlansStand
  <2>8. RoundsUnderApproval'
    BY <1>1, <2>2, <2>5, RoundsKept DEF IInv
  <2>9. ContactsFollowPlan'
    BY <1>4, <2>1 DEF IInv, ContactsFollowPlan
  <2> QED
    BY <1>1, <2>7, <2>8, <2>9 DEF IInv
<1> QED
  BY <1>6, <1>7

----------------------------------------------------------------------------
(* The invariant holds in every reachable state.                            *)

LEMMA InitInv ==
  ASSUME WorkflowAssumption, Init
  PROVE  IInv
BY InitTypeOK DEF Init, IInv, NewestIsLive, TimelineExplainsPlans, TimelineInOrder,
                  RoundsUnderApproval, ContactsFollowPlan, ApprovalIsFresh

LEMMA StepInv ==
  ASSUME WorkflowAssumption, IInv, [Next]_vars
  PROVE  IInv'
<1>1. ASSUME NEW items \in (SUBSET Community) \ {{}}, CreatePlan(items)
      PROVE  IInv'
  BY <1>1, CreatePlanInv
<1>2. ASSUME NEW v \in DOMAIN plans, NEW approver \in Approver, ApprovePlan(v, approver)
      PROVE  IInv'
  BY <1>2, ApprovePlanInv
<1>3. CASE StartRound
  BY <1>3, StartRoundInv
<1>4. ASSUME NEW v \in 1..MaxPlans, NEW c \in Community, NEW response \in Responses,
             NEW k \in DOMAIN contacts[<<v, c>>], RecordContact(v, c, k, response)
      PROVE  IInv'
  BY <1>4, RecordContactInv
<1>5. ASSUME NEW p \in Place, NEW kind \in {"verify_household", "other"},
             NEW assigns \in BOOLEAN, CreateTask(p, kind, assigns)
      PROVE  IInv'
  <2>1. TypeOK' /\ ContactsFollowPlan'
    BY <1>5, CreateTaskTypeOK DEF IInv, CreateTask, ContactsFollowPlan
  <2> QED
    BY <1>5, <2>1, PlansAloneInv DEF CreateTask
<1>6. CASE CreateFromUnreachable
  BY <1>6, CreateFromUnreachableInv
<1>7. ASSUME NEW p \in Place, NEW status \in Statuses \cup {NoOne},
             NEW assigns \in BOOLEAN, NEW k \in DOMAIN tasks[p],
             UpdateTask(p, k, status, assigns)
      PROVE  IInv'
  <2>1. TypeOK' /\ ContactsFollowPlan'
    BY <1>7, UpdateTaskTypeOK DEF IInv, UpdateTask, ContactsFollowPlan
  <2> QED
    BY <1>7, <2>1, PlansAloneInv DEF UpdateTask
<1>8. ASSUME NEW p \in Place, NEW demands \in BOOLEAN, NEW k \in DOMAIN tasks[p],
             SubmitReport(p, k, demands)
      PROVE  IInv'
  BY <1>8, SubmitReportInv
<1>9. CASE UNCHANGED vars
  <2>1. TypeOK' /\ ContactsFollowPlan'
    BY <1>9 DEF vars, IInv, TypeOK, ContactsFollowPlan
  <2> QED
    BY <1>9, <2>1, PlansAloneInv DEF vars
<1> QED
  BY <1>1, <1>2, <1>3, <1>4, <1>5, <1>6, <1>7, <1>8, <1>9 DEF Next

(* The procedure has every safety property the runs check, together, for    *)
(* any villages, approvers and bounds.                                      *)
THEOREM Invariance == Spec => []IInv
<1>1. Init => IInv
  BY WorkflowAssumption, InitInv
<1>2. IInv /\ [Next]_vars => IInv'
  BY WorkflowAssumption, StepInv
<1> QED
  BY <1>1, <1>2, PTL DEF Spec

(* Every row of every table is well formed.                                 *)
THEOREM TypeCorrect == Spec => []TypeOK
<1>1. IInv => TypeOK
  BY DEF IInv
<1> QED
  BY <1>1, Invariance, PTL

(* planning.create: the newest version is the one that counts, every older  *)
(* one is superseded by its successor.                                      *)
THEOREM OneLivePlan == Spec => []NewestIsLive
<1>1. IInv => NewestIsLive
  BY DEF IInv
<1> QED
  BY <1>1, Invariance, PTL

(* audit.record and /timeline: the rows alone tell where the newest plan    *)
(* stands and who signed each version.                                      *)
THEOREM AuditTrail == Spec => []TimelineExplainsPlans
<1>1. IInv => TimelineExplainsPlans
  BY DEF IInv
<1> QED
  BY <1>1, Invariance, PTL

(* audit.record: no row is about a plan or report that does not exist, and  *)
(* nothing happens to a version after its successor was drafted.            *)
THEOREM AuditOrder == Spec => []TimelineInOrder
<1>1. IInv => TimelineInOrder
  BY DEF IInv
<1> QED
  BY <1>1, Invariance, PTL

(* contacts.start_round: every calling round was opened under an approval   *)
(* that nothing had taken back.                                             *)
THEOREM CallsNeedApproval == Spec => []RoundsUnderApproval
<1>1. IInv => RoundsUnderApproval
  BY DEF IInv
<1> QED
  BY <1>1, Invariance, PTL

(* contacts.start_round: a village is called at most once per version, and  *)
(* only for a version that names it and that somebody signed.               *)
THEOREM CalledOncePerPlan == Spec => []ContactsFollowPlan
<1>1. IInv => ContactsFollowPlan
  BY DEF IInv
<1> QED
  BY <1>1, Invariance, PTL

(* tasks.submit_report: the approval of the newest plan is younger than any *)
(* report that said the plan no longer holds.                               *)
THEOREM FreshApproval == Spec => []ApprovalIsFresh
<1>1. IInv => ApprovalIsFresh
  BY DEF IInv
<1> QED
  BY <1>1, Invariance, PTL

----------------------------------------------------------------------------
(* Tasks for the villages where nobody was found.                           *)

\* Only create_from_unreachable ends the timeline with a task.generated row.
LEMMA OnlyGenerationSaysSo ==
  ASSUME TypeOK, [Next]_vars, Len(timeline') > Len(timeline),
         timeline'[Len(timeline')].action = "task.generated"
  PROVE  CreateFromUnreachable
<1> DEFINE last == timeline'[Len(timeline')]
<1>1. timeline \in Seq(AuditRow) /\ Len(timeline) \in Nat
  BY DEF TypeOK
<1>2. timeline' = timeline => FALSE
  BY <1>1
<1>3. ASSUME NEW entry, Record(entry)
      PROVE  last = entry
  BY <1>1, <1>3 DEF Record
<1>4. ASSUME NEW items \in (SUBSET Community) \ {{}}, CreatePlan(items)
      PROVE  FALSE
  <2>1. Record(Entry("plan.drafted", Len(plans) + 1, NoOne))
    BY <1>4 DEF CreatePlan
  <2> QED
    BY <1>3, <2>1 DEF Entry
<1>5. \A v \in DOMAIN plans, approver \in Approver : ~ApprovePlan(v, approver)
  BY <1>3 DEF ApprovePlan, ApprovalEntry, Entry
<1>6. ~StartRound
  BY <1>3 DEF StartRound, Entry
<1>7. ASSUME NEW p \in Place, NEW demands \in BOOLEAN, NEW k \in DOMAIN tasks[p],
             SubmitReport(p, k, demands)
      PROVE  FALSE
  <2> DEFINE filed == Entry("report.submitted", Len(reports) + 1, NoOne)
             recall == Entry("plan.reapproval_required", CurrentPlan, NoOne)
  <2>1. CASE Record(filed)
    BY <1>3, <2>1 DEF Entry
  <2>2. CASE timeline' = timeline \o <<recall, filed>>
    <3>1. PICK r, f : r = recall /\ f = filed
      OBVIOUS
    <3>2. last = f
      BY <1>1, <2>2, <3>1
    <3> QED
      BY <3>1, <3>2 DEF Entry
  <2> QED
    BY <1>7, <2>1, <2>2 DEF SubmitReport
<1> QED
  BY <1>2, <1>4, <1>5, <1>6, <1>7
     DEF Next, vars, RecordContact, CreateTask, UpdateTask

(* Each village on the list to verify gets a task for every attempt, of     *)
(* which there is one at least, and the task is open.                       *)
LEMMA GenerationCovers ==
  ASSUME TypeOK, WorkflowAssumption, CreateFromUnreachable, NEW c \in Community,
         NEW v \in 1..MaxPlans, NEW k \in DOMAIN contacts[<<v, c>>],
         contacts[<<v, c>>][k] = "unreachable"
  PROVE  \E n \in DOMAIN tasks'[c] : /\ tasks'[c][n].kind = "verify_household"
                                     /\ tasks'[c][n].status \notin Closed
<1>1. c \in Place /\ tasks[c] \in Seq(TaskRow)
  BY DEF TypeOK, Place
<1>2. <<v, k>> \in UnreachableAttempts(c)
  BY DEF UnreachableAttempts
<1>3. CASE c \notin ToVerify
  <2>1. tasks'[c] = tasks[c]
    BY <1>1, <1>3 DEF CreateFromUnreachable
  <2>2. HasOpenVerification(c)
    BY <1>2, <1>3 DEF ToVerify
  <2> QED
    BY <2>1, <2>2 DEF HasOpenVerification
<1>4. CASE c \in ToVerify
  <2> DEFINE attempts == Cardinality(UnreachableAttempts(c))
             row == NewTask("verify_household", FALSE)
  <2>1. attempts \in Nat /\ attempts # 0
    BY <1>2, FinitelyUnreachable, FS_CardinalityType, FS_EmptySet
  <2>2. PICK n : n = attempts
    OBVIOUS
  <2>3. PICK r : r = row
    OBVIOUS
  <2>4. tasks'[c] = tasks[c] \o [i \in 1..n |-> r]
    BY <1>1, <1>4, <2>2, <2>3 DEF CreateFromUnreachable, GeneratedFor
  <2>5. r \in TaskRow /\ r.kind = "verify_household" /\ r.status \notin Closed
    BY <2>3 DEF NewTask, TaskRow, TaskStatus, Closed
  <2>6. [i \in 1..n |-> r] \in Seq(TaskRow) /\ Len([i \in 1..n |-> r]) = n
    BY <2>1, <2>2, <2>5, Listed
  <2>7. Len(tasks[c]) + 1 \in DOMAIN tasks'[c] /\ tasks'[c][Len(tasks[c]) + 1] = r
    BY <1>1, <2>1, <2>2, <2>4, <2>6
  <2> QED
    BY <2>5, <2>7
<1> QED
  BY <1>3, <1>4

(* tasks.create_from_unreachable: right after it ran, every village where   *)
(* an attempt found nobody has an open verification task.                   *)
THEOREM NobodyForgotten == Spec => GenerationCoversAll
<1>1. ASSUME TypeOK, [Next]_vars,
             Len(timeline') > Len(timeline),
             timeline'[Len(timeline')].action = "task.generated",
             NEW c \in Community, NEW v \in 1..MaxPlans,
             NEW k \in DOMAIN contacts'[<<v, c>>],
             contacts'[<<v, c>>][k] = "unreachable"
      PROVE  \E n \in DOMAIN tasks'[c] :
               /\ tasks'[c][n].kind = "verify_household"
               /\ tasks'[c][n].status \notin {"done", "cancelled"}
  <2>1. CreateFromUnreachable
    BY <1>1, OnlyGenerationSaysSo
  <2>2. contacts' = contacts
    BY <2>1 DEF CreateFromUnreachable
  <2> QED
    BY <1>1, <2>1, <2>2, WorkflowAssumption, GenerationCovers DEF Closed
<1>2. TypeOK /\ [Next]_vars
        => [/\ Len(timeline') > Len(timeline)
            /\ timeline'[Len(timeline')].action = "task.generated"
            => \A c \in Community :
                 (\E v \in 1..MaxPlans : \E k \in DOMAIN contacts'[<<v, c>>] :
                    contacts'[<<v, c>>][k] = "unreachable")
                 => \E k \in DOMAIN tasks'[c] :
                      /\ tasks'[c][k].kind = "verify_household"
                      /\ tasks'[c][k].status \notin {"done", "cancelled"}]_vars
  BY <1>1
<1> QED
  BY <1>2, TypeCorrect, PTL DEF Spec, GenerationCoversAll

----------------------------------------------------------------------------
(* The procedure keeps the promise of EvacPromise: each request is one step *)
(* of the abstract procedure, or leaves the abstract state as it was.       *)

LEMMA CreatePlanDrafts ==
  ASSUME IInv, NEW items \in (SUBSET Community) \ {{}}, CreatePlan(items)
  PROVE  Promise!Draft
<1>1. /\ Len(plans') = Len(plans) + 1
      /\ plans'[Len(plans) + 1].status = "draft"
      /\ contacts' = contacts
      /\ Len(plans) \in Nat
  <2>1. plans'[Len(plans) + 1] = NewPlan(items)
    BY CreatePlanEffect
  <2> QED
    BY <2>1, CreatePlanEffect, Sizes DEF IInv, NewPlan
<1>2. plans' # <<>>
  BY <1>1
<1> QED
  BY <1>1, <1>2 DEF Promise!Draft

LEMMA ApprovePlanApproves ==
  ASSUME IInv, NEW v \in DOMAIN plans, NEW approver \in Approver,
         ApprovePlan(v, approver)
  PROVE  Promise!Approve
<1>1. /\ v = Len(plans) /\ v \in Nat /\ plans # <<>>
      /\ plans[v].status \in {"draft", "reapproval_required"}
      /\ Len(plans') = Len(plans) /\ DOMAIN plans' = DOMAIN plans
      /\ plans'[v].status = "approved"
      /\ contacts' = contacts
  BY ApprovePlanEffect
<1>2. plans' # <<>>
  BY <1>1
<1> QED
  BY <1>1, <1>2 DEF Promise!Approve

LEMMA SubmitReportRecalls ==
  ASSUME IInv, NEW p \in Place, NEW demands \in BOOLEAN, NEW k \in DOMAIN tasks[p],
         SubmitReport(p, k, demands)
  PROVE  Promise!Recall \/ UNCHANGED Promise!promiseVars
<1>1. contacts' = contacts
  BY DEF SubmitReport
<1>2. CASE Recalls(demands)
  <2>1. /\ plans # <<>> /\ Len(plans) \in DOMAIN plans
        /\ plans[Len(plans)].status = "approved"
        /\ Len(plans') = Len(plans) /\ DOMAIN plans' = DOMAIN plans
        /\ plans'[Len(plans)].status = "reapproval_required"
    BY <1>2, RecallEffect DEF IInv
  <2>2. plans' # <<>>
    BY <2>1
  <2> QED
    BY <1>1, <2>1, <2>2 DEF Promise!Recall
<1>3. CASE ~Recalls(demands)
  BY <1>1, <1>3 DEF SubmitReport, Promise!promiseVars
<1> QED
  BY <1>2, <1>3

LEMMA StartRoundCalls ==
  ASSUME IInv, StartRound
  PROVE  (\E villages \in SUBSET Community : Promise!Call(villages))
         \/ UNCHANGED Promise!promiseVars
<1> DEFINE v == CurrentPlan
<1>1. /\ v = Len(plans) /\ plans # <<>> /\ plans[v].status = "approved"
      /\ v \in 1..MaxPlans /\ plans[v] \in PlanRow
  <2>1. v = Len(plans) /\ v # 0
    BY CurrentIsNewest DEF IInv, TypeOK, StartRound
  <2> QED
    BY <2>1, Sizes DEF IInv, TypeOK, StartRound, Actionable
<1>2. plans' = plans
  BY DEF StartRound
<1>3. PICK missing \in SUBSET Community : missing = Uncalled(v)
  BY <1>1 DEF Uncalled, PlanRow
<1>4. ASSUME NEW vc \in DOMAIN contacts
      PROVE  contacts'[vc] # <<>> <=> contacts[vc] # <<>> \/ vc \in {v} \X missing
  <2>1. contacts[vc] \in Seq(ContactResponse) /\ vc = <<vc[1], vc[2]>>
    BY DEF IInv, TypeOK
  <2>2. CASE vc[1] = v /\ vc[2] \in missing
    <3>1. contacts'[vc] = Append(contacts[vc], "pending")
      BY <1>3, <2>2 DEF StartRound
    <3> QED
      BY <2>1, <2>2, <3>1
  <2>3. CASE ~(vc[1] = v /\ vc[2] \in missing)
    <3>1. contacts'[vc] = contacts[vc]
      BY <1>3, <2>3 DEF StartRound
    <3> QED
      BY <2>1, <2>3, <3>1
  <2> QED
    BY <2>2, <2>3
<1>5. DOMAIN contacts' = DOMAIN contacts /\ DOMAIN contacts = (1..MaxPlans) \X Community
  BY DEF StartRound, IInv, TypeOK
<1>6. {vc \in DOMAIN contacts : contacts[vc] # <<>>} \cap ({v} \X missing) = {}
  BY <1>3 DEF Uncalled
<1>7. {vc \in DOMAIN contacts' : contacts'[vc] # <<>>}
        = {vc \in DOMAIN contacts : contacts[vc] # <<>>} \cup ({v} \X missing)
  BY <1>1, <1>3, <1>4, <1>5
<1>8. CASE missing = {}
  <2>1. {vc \in DOMAIN contacts' : contacts'[vc] # <<>>}
          = {vc \in DOMAIN contacts : contacts[vc] # <<>>}
    BY <1>4, <1>5, <1>8
  <2>2. UNCHANGED Promise!promiseVars
    BY <1>2, <2>1 DEF Promise!promiseVars
  <2> QED
    BY <2>2 DEF Promise!promiseVars
<1>9. CASE missing # {}
  <2>1. Promise!Call(missing)
    BY <1>1, <1>2, <1>6, <1>7, <1>9 DEF Promise!Call
  <2> QED
    BY <1>3, <2>1
<1> QED
  BY <1>8, <1>9

LEMMA PromiseStep ==
  ASSUME WorkflowAssumption, IInv, [Next]_vars
  PROVE  [Promise!PromiseNext]_(Promise!promiseVars)
<1>1. ASSUME NEW items \in (SUBSET Community) \ {{}}, CreatePlan(items)
      PROVE  Promise!PromiseNext
  BY <1>1, CreatePlanDrafts DEF Promise!PromiseNext
<1>2. ASSUME NEW v \in DOMAIN plans, NEW approver \in Approver, ApprovePlan(v, approver)
      PROVE  Promise!PromiseNext
  BY <1>2, ApprovePlanApproves DEF Promise!PromiseNext
<1>3. CASE StartRound
  BY <1>3, StartRoundCalls DEF Promise!PromiseNext
<1>4. ASSUME NEW v \in 1..MaxPlans, NEW c \in Community, NEW response \in Responses,
             NEW k \in DOMAIN contacts[<<v, c>>], RecordContact(v, c, k, response)
      PROVE  UNCHANGED Promise!promiseVars
  <2>1. {vc \in DOMAIN contacts' : contacts'[vc] # <<>>}
          = {vc \in DOMAIN contacts : contacts[vc] # <<>>}
    BY <1>4, RecordContactEffect DEF IInv
  <2> QED
    BY <1>4, <2>1 DEF RecordContact, Promise!promiseVars
<1>5. ASSUME NEW p \in Place, NEW demands \in BOOLEAN, NEW k \in DOMAIN tasks[p],
             SubmitReport(p, k, demands)
      PROVE  [Promise!PromiseNext]_(Promise!promiseVars)
  BY <1>5, SubmitReportRecalls DEF Promise!PromiseNext
<1>6. CASE UNCHANGED <<plans, contacts>>
  BY <1>6 DEF Promise!promiseVars
<1>7. ASSUME NEW p \in Place, NEW kind \in {"verify_household", "other"},
             NEW assigns \in BOOLEAN, CreateTask(p, kind, assigns)
      PROVE  UNCHANGED <<plans, contacts>>
  BY <1>7 DEF CreateTask
<1>8. CreateFromUnreachable => UNCHANGED <<plans, contacts>>
  BY DEF CreateFromUnreachable
<1>9. ASSUME NEW p \in Place, NEW status \in Statuses \cup {NoOne},
             NEW assigns \in BOOLEAN, NEW k \in DOMAIN tasks[p],
             UpdateTask(p, k, status, assigns)
      PROVE  UNCHANGED <<plans, contacts>>
  BY <1>9 DEF UpdateTask
<1>10. UNCHANGED vars => UNCHANGED <<plans, contacts>>
  BY DEF vars
<1> QED
  BY <1>1, <1>2, <1>3, <1>4, <1>5, <1>6, <1>7, <1>8, <1>9, <1>10 DEF Next

(* EvacWorkflow implements EvacPromise: whatever the requests, the newest   *)
(* plan moves only as the promise allows and residents are called only      *)
(* under an approved newest plan.                                           *)
THEOREM Implements == Spec => KeepsPromise
<1>1. Init => Promise!PromiseInit
  BY DEF Init, Promise!PromiseInit
<1>2. IInv /\ [Next]_vars => [Promise!PromiseNext]_(Promise!promiseVars)
  BY WorkflowAssumption, PromiseStep
<1> QED
  BY <1>1, <1>2, Invariance, PTL DEF Spec, KeepsPromise, Promise!PromiseSpec

=============================================================================
