---------------------------- MODULE EvacWorkflow ----------------------------
(***************************************************************************)
(* The operations loop of one incident: plans, resident contacts, field     *)
(* tasks, field reports and the audit timeline, as services/planning.py,    *)
(* contacts.py, tasks.py and audit.py change them.                          *)
(*                                                                          *)
(* One action is one HTTP request, taken whole: db/session.py gives each    *)
(* request one transaction and api/route.py commits it before the answer    *)
(* leaves.  This module is the procedure when no two requests overlap;      *)
(* EvacTransactions interleaves their database statements.                  *)
(*                                                                          *)
(* A request that fails (404, 409, 422) rolls back and changes nothing, so  *)
(* it is no step here.  Roles only remove requests and are left out; so are *)
(* names, wording, household counts and times, and the audit rows of single *)
(* contacts and tasks, which nothing here reads back.                       *)
(***************************************************************************)
EXTENDS Naturals, Sequences, FiniteSets

CONSTANTS
  Community,     \* villages
  Approver,      \* names an approval may carry
  NoOne,         \* NULL in approved_by and in the status of a PATCH
  Nowhere,       \* NULL in community_id of a task
  Responses,     \* contact results the operators report, of ContactResponse
  Statuses,      \* task states the field asks for, of TaskStatus
  MaxPlans,      \* bound: plan versions
  MaxTasks,      \* bound: field tasks
  MaxReports,    \* bound: field reports
  MaxTimeline    \* bound: audit rows

ContactResponse ==
  {"pending", "evacuating", "support_requested", "refused", "unreachable"}

TaskStatus ==
  {"unassigned", "assigned", "in_progress", "in_review", "done", "cancelled"}

ASSUME WorkflowAssumption ==
  /\ NoOne \notin Approver \cup TaskStatus
  /\ Nowhere \notin Community
  /\ Responses \subseteq ContactResponse
  /\ Statuses \subseteq TaskStatus
  /\ {MaxPlans, MaxTasks, MaxReports, MaxTimeline} \subseteq Nat

VARIABLES
  plans,      \* plans[v] is version v: (incident_id, version) is unique
  contacts,   \* contacts[<<v, c>>]: responses of the attempts for c under plan v
  tasks,      \* tasks[p]: the field tasks about village p, oldest first
  reports,    \* field reports, oldest first
  timeline    \* audit records, oldest first

vars == <<plans, contacts, tasks, reports, timeline>>

Place == Community \cup {Nowhere}
Closed == {"done", "cancelled"}

PlanRow == [status : {"draft", "approved", "reapproval_required", "superseded"},
            items : (SUBSET Community) \ {{}},
            approved_by : Approver \cup {NoOne},
            superseded_by : Nat]      \* 0 is NULL

TaskRow == [kind : {"verify_household", "other"}, status : TaskStatus]

ReportRow == [place : Place, task : Nat, demands : BOOLEAN,
              triggered_replan : BOOLEAN]

PlanActions == {"plan.drafted", "plan.approved", "plan.reapproval_required"}

\* entity is the version of a plan, the number of a report, else 0.
AuditRow == [action : PlanActions \cup
                      {"contact.started", "task.generated", "report.submitted"},
             entity : Nat,
             by : Approver \cup {NoOne}]

TypeOK ==
  /\ plans \in Seq(PlanRow)
  /\ contacts \in [(1..MaxPlans) \X Community -> Seq(ContactResponse)]
  /\ tasks \in [Place -> Seq(TaskRow)]
  /\ reports \in Seq(ReportRow)
  /\ timeline \in Seq(AuditRow)
  /\ Len(plans) <= MaxPlans

Init ==
  /\ plans = <<>>
  /\ contacts = [vc \in (1..MaxPlans) \X Community |-> <<>>]
  /\ tasks = [p \in Place |-> <<>>]
  /\ reports = <<>>
  /\ timeline = <<>>

----------------------------------------------------------------------------
(* Operators of planning.py and audit.py.                                   *)

Entry(action, entity, by) == [action |-> action, entity |-> entity, by |-> by]

\* audit.record: a row of the same transaction.
Record(entry) ==
  /\ Len(timeline) < MaxTimeline
  /\ timeline' = Append(timeline, entry)

\* The newest version that is not superseded, 0 if there is none.
IsCurrent(v) ==
  /\ v \in DOMAIN plans
  /\ plans[v].status # "superseded"
  /\ \A w \in DOMAIN plans : w > v => plans[w].status = "superseded"

CurrentPlan == IF \E v \in DOMAIN plans : IsCurrent(v)
               THEN CHOOSE v \in DOMAIN plans : IsCurrent(v)
               ELSE 0

----------------------------------------------------------------------------
(* Plans.                                                                   *)

\* Slip: a revision keeps the approval of the version it replaces.
NewPlan_KeepsApproval(items) ==
  [status |-> IF CurrentPlan = 0 THEN "draft" ELSE plans[CurrentPlan].status,
   items |-> items, approved_by |-> NoOne, superseded_by |-> 0]

NewPlan(items) == [status |-> "draft", items |-> items,
                   approved_by |-> NoOne, superseded_by |-> 0]

CreatePlan(items) ==
  LET version == Len(plans) + 1
      previous == CurrentPlan
  IN /\ version <= MaxPlans
     /\ plans' = Append([v \in DOMAIN plans |->
                           IF v = previous
                           THEN [plans[v] EXCEPT !.status = "superseded",
                                                 !.superseded_by = version]
                           ELSE plans[v]],
                        NewPlan(items))
     /\ Record(Entry("plan.drafted", version, NoOne))
     /\ UNCHANGED <<contacts, tasks, reports>>

\* Slip: only a second approval is refused.
Approvable_IfReplaced(v) == plans[v].status # "approved"

Approvable(v) == plans[v].status \notin {"approved", "superseded"}

\* Slip: the audit row does not name the approver.
ApprovalEntry_Unsigned(v, approver) == Entry("plan.approved", v, NoOne)

ApprovalEntry(v, approver) == Entry("plan.approved", v, approver)

ApprovePlan(v, approver) ==
  /\ v \in DOMAIN plans
  /\ Approvable(v)
  /\ plans' = [plans EXCEPT ![v].status = "approved",
                            ![v].approved_by = approver]
  /\ Record(ApprovalEntry(v, approver))
  /\ UNCHANGED <<contacts, tasks, reports>>

----------------------------------------------------------------------------
(* Resident contacts.                                                       *)

\* Slip: any plan that was approved once will do.
Actionable_OnceSigned(v) == plans[v].approved_by # NoOne

\* is_actionable: may residents be called under plan v?
Actionable(v) == plans[v].status = "approved"

\* Slip: villages already on the list are not skipped.
Uncalled_Everyone(v) == plans[v].items

\* Villages of plan v with no attempt under v yet.
Uncalled(v) == {c \in plans[v].items : contacts[<<v, c>>] = <<>>}

StartRound ==
  LET v == CurrentPlan
  IN /\ v # 0
     /\ Actionable(v)
     /\ contacts' = [vc \in DOMAIN contacts |->
                       IF vc[1] = v /\ vc[2] \in Uncalled(v)
                       THEN Append(contacts[vc], "pending")
                       ELSE contacts[vc]]
     /\ Record(Entry("contact.started", v, NoOne))
     /\ UNCHANGED <<plans, tasks, reports>>

RecordContact(v, c, k, response) ==
  /\ k \in DOMAIN contacts[<<v, c>>]
  /\ contacts' = [contacts EXCEPT ![<<v, c>>][k] = response]
  /\ UNCHANGED <<plans, tasks, reports, timeline>>

----------------------------------------------------------------------------
(* Field tasks and reports.                                                 *)

\* assigns: the payload names an assignee.  Who that is changes nothing here.
NewTask(kind, assigns) ==
  [kind |-> kind, status |-> IF assigns THEN "assigned" ELSE "unassigned"]

\* The rows of the table, each as <<place, position>>.
TaskIds == UNION {{p} \X DOMAIN tasks[p] : p \in Place}

CreateTask(p, kind, assigns) ==
  /\ Cardinality(TaskIds) < MaxTasks
  /\ tasks' = [tasks EXCEPT ![p] = Append(@, NewTask(kind, assigns))]
  /\ UNCHANGED <<plans, contacts, reports, timeline>>

\* Attempts about c, under any plan, that found nobody: <<version, attempt>>.
UnreachableAttempts(c) ==
  UNION {{v} \X {k \in DOMAIN contacts[<<v, c>>] : contacts[<<v, c>>][k] = "unreachable"} :
         v \in 1..MaxPlans}

\* Slip: any open task about the village counts.
HasOpenVerification_AnyKind(c) ==
  \E k \in DOMAIN tasks[c] : tasks[c][k].status \notin Closed

HasOpenVerification(c) ==
  \E k \in DOMAIN tasks[c] : /\ tasks[c][k].kind = "verify_household"
                             /\ tasks[c][k].status \notin Closed

\* Villages somebody has to visit and nobody is sent to yet.
ToVerify ==
  {c \in Community : UnreachableAttempts(c) # {} /\ ~HasOpenVerification(c)}

\* One task per attempt: the set of villages with an open task is read once,
\* before the loop, and the loop does not add to it.
GeneratedFor(c) ==
  [i \in 1..Cardinality(UnreachableAttempts(c)) |->
     NewTask("verify_household", FALSE)]

CreateFromUnreachable ==
  /\ ToVerify # {}
  /\ Cardinality(TaskIds) + Cardinality(UNION {{c} \X DOMAIN GeneratedFor(c) : c \in ToVerify})
       <= MaxTasks
  /\ tasks' = [p \in Place |-> IF p \in ToVerify
                               THEN tasks[p] \o GeneratedFor(p)
                               ELSE tasks[p]]
  /\ Record(Entry("task.generated", 0, NoOne))
  /\ UNCHANGED <<plans, contacts, reports>>

\* The PATCH of one task; status is NoOne when the payload leaves it out.
Patched(row, status, assigns) ==
  [row EXCEPT !.status = IF status # NoOne THEN status
                         ELSE IF assigns /\ row.status = "unassigned" THEN "assigned"
                         ELSE row.status]

UpdateTask(p, k, status, assigns) ==
  /\ k \in DOMAIN tasks[p]
  /\ tasks' = [tasks EXCEPT ![p][k] = Patched(tasks[p][k], status, assigns)]
  /\ UNCHANGED <<plans, contacts, reports, timeline>>

\* Slip: the plan stands once residents are being called.
Recalls_BeforeCalls(demands) ==
  /\ demands
  /\ CurrentPlan # 0
  /\ plans[CurrentPlan].status = "approved"
  /\ Uncalled(CurrentPlan) = plans[CurrentPlan].items

\* mark_needs_reapproval: only an approved current plan is taken back.
Recalls(demands) ==
  demands /\ CurrentPlan # 0 /\ plans[CurrentPlan].status = "approved"

\* demands stands for request_replan or a non-empty list of access constraints.
SubmitReport(p, k, demands) ==
  LET v == CurrentPlan
      recalls == Recalls(demands)
      filed == Entry("report.submitted", Len(reports) + 1, NoOne)
  IN /\ k \in DOMAIN tasks[p]
     /\ Len(reports) < MaxReports
     /\ tasks' = IF tasks[p][k].status \in Closed THEN tasks
                 ELSE [tasks EXCEPT ![p][k].status = "in_review"]
     /\ plans' = IF recalls
                 THEN [plans EXCEPT ![v].status = "reapproval_required"]
                 ELSE plans
     /\ reports' = Append(reports,
          [place |-> p, task |-> k, demands |-> demands,
           triggered_replan |-> /\ demands
                                /\ v # 0
                                /\ plans'[v].status = "reapproval_required"])
     /\ IF recalls
        THEN /\ Len(timeline) + 2 <= MaxTimeline
             /\ timeline' = timeline \o
                  <<Entry("plan.reapproval_required", v, NoOne), filed>>
        ELSE Record(filed)
     /\ UNCHANGED contacts

----------------------------------------------------------------------------

Next ==
  \/ \E items \in (SUBSET Community) \ {{}} : CreatePlan(items)
  \/ \E v \in DOMAIN plans, approver \in Approver : ApprovePlan(v, approver)
  \/ StartRound
  \/ \E v \in 1..MaxPlans, c \in Community, response \in Responses :
       \E k \in DOMAIN contacts[<<v, c>>] : RecordContact(v, c, k, response)
  \/ \E p \in Place, kind \in {"verify_household", "other"}, assigns \in BOOLEAN :
       CreateTask(p, kind, assigns)
  \/ CreateFromUnreachable
  \/ \E p \in Place, status \in Statuses \cup {NoOne}, assigns \in BOOLEAN :
       \E k \in DOMAIN tasks[p] : UpdateTask(p, k, status, assigns)
  \/ \E p \in Place, demands \in BOOLEAN :
       \E k \in DOMAIN tasks[p] : SubmitReport(p, k, demands)

Spec == Init /\ [][Next]_vars

----------------------------------------------------------------------------
(* What the procedure is for.                                               *)

AboutPlan(i, v) == timeline[i].action \in PlanActions /\ timeline[i].entity = v

Approval(i, v) == timeline[i].action = "plan.approved" /\ timeline[i].entity = v

\* The status a plan has after the audited action, while no version follows it.
StatusAfter(action) == CASE action = "plan.drafted" -> "draft"
                         [] action = "plan.approved" -> "approved"
                         [] action = "plan.reapproval_required" -> "reapproval_required"

(* planning.create hands the seat over: every version but the newest is     *)
(* superseded, by the version right after it, and the newest never is.      *)
NewestIsLive ==
  \A v \in DOMAIN plans :
    IF v = Len(plans)
    THEN plans[v].status # "superseded" /\ plans[v].superseded_by = 0
    ELSE plans[v].status = "superseded" /\ plans[v].superseded_by = v + 1

\* The last row about version v says where v stands.
StatusExplained(v) ==
  \E i \in DOMAIN timeline :
    /\ AboutPlan(i, v)
    /\ \A j \in DOMAIN timeline : j > i => ~AboutPlan(j, v)
    /\ plans[v].status = StatusAfter(timeline[i].action)

\* The last approval row about version v names who signed v.
SignatureExplained(v) ==
  IF plans[v].approved_by = NoOne
  THEN \A i \in DOMAIN timeline : ~Approval(i, v)
  ELSE \E i \in DOMAIN timeline :
         /\ Approval(i, v)
         /\ timeline[i].by = plans[v].approved_by
         /\ \A j \in DOMAIN timeline : j > i => ~Approval(j, v)

(* GET /timeline reads the audit rows back and nothing else: from them      *)
(* alone one can tell where the newest plan stands and who signed each one. *)
TimelineExplainsPlans ==
  /\ plans # <<>> => StatusExplained(Len(plans))
  /\ \A v \in DOMAIN plans : SignatureExplained(v)

(* Every row of the timeline is about a plan or report that exists, and     *)
(* once a version is drafted nothing more happens to the older ones: what   *)
(* was approved, and by whom, is what the history keeps.                    *)
TimelineInOrder ==
  /\ \A i \in DOMAIN timeline :
       /\ timeline[i].action \in PlanActions \cup {"contact.started"} =>
            timeline[i].entity \in DOMAIN plans
       /\ timeline[i].action = "report.submitted" =>
            timeline[i].entity \in DOMAIN reports
  /\ \A i, j \in DOMAIN timeline :
       /\ i < j
       /\ {timeline[i].action, timeline[j].action} \subseteq PlanActions
       => timeline[i].entity <= timeline[j].entity

\* Row j follows an approval of its plan that nothing took back in between.
UnderApproval(j) ==
  \E i \in 1..(j - 1) :
    /\ Approval(i, timeline[j].entity)
    /\ \A k \in (i + 1)..(j - 1) :
         /\ timeline[k].action # "plan.drafted"
         /\ timeline[k].action # "plan.reapproval_required"

(* contacts.start_round: whenever a calling round was opened, the plan had  *)
(* been approved before it and, in between, no report had taken the         *)
(* approval back and no newer version had been drafted.                     *)
RoundsUnderApproval ==
  \A j \in DOMAIN timeline :
    timeline[j].action = "contact.started" => UnderApproval(j)

(* Calling the round again adds only what is missing: a village is on the   *)
(* list of a version at most once, and only if that version names it and    *)
(* somebody signed that version.                                            *)
ContactsFollowPlan ==
  \A vc \in DOMAIN contacts : contacts[vc] # <<>> =>
    /\ Len(contacts[vc]) = 1
    /\ vc[1] \in DOMAIN plans
    /\ vc[2] \in plans[vc[1]].items
    /\ plans[vc[1]].approved_by # NoOne

(* tasks.submit_report: while the newest plan is approved, somebody signed  *)
(* it after the last report that said the plan no longer holds.             *)
ApprovalIsFresh ==
  \A j \in DOMAIN timeline :
    /\ timeline[j].action = "report.submitted"
    /\ reports[timeline[j].entity].demands
    /\ plans # <<>>
    /\ plans[Len(plans)].status = "approved"
    => \E i \in DOMAIN timeline : i > j /\ Approval(i, Len(plans))

(* tasks.create_from_unreachable: right after it ran, every village with an *)
(* attempt that found nobody has an open verification task, so running it   *)
(* again finds nothing to do.                                               *)
GenerationCoversAll ==
  [][/\ Len(timeline') > Len(timeline)
     /\ timeline'[Len(timeline')].action = "task.generated"
     => \A c \in Community :
          (\E v \in 1..MaxPlans : \E k \in DOMAIN contacts'[<<v, c>>] :
             contacts'[<<v, c>>][k] = "unreachable")
          => \E k \in DOMAIN tasks'[c] :
               /\ tasks'[c][k].kind = "verify_household"
               /\ tasks'[c][k].status \notin {"done", "cancelled"}]_vars

(* docs/api-spec.md on from-unreachable: where a village already has an     *)
(* open task no second one is created.                                      *)
OneTaskPerVillage ==
  [][/\ Len(timeline') > Len(timeline)
     /\ timeline'[Len(timeline')].action = "task.generated"
     => \A c \in Community : Len(tasks'[c]) <= Len(tasks[c]) + 1]_vars

\* Where the procedure stands, in the terms of EvacPromise.
Promise == INSTANCE EvacPromise WITH
  version <- Len(plans),
  stage <- IF plans = <<>> THEN "none" ELSE plans[Len(plans)].status,
  called <- {vc \in DOMAIN contacts : contacts[vc] # <<>>}

(* Every request moves the newest plan as EvacPromise allows, or not at     *)
(* all; residents are called only under an approved newest plan.            *)
KeepsPromise == Promise!PromiseSpec

=============================================================================
