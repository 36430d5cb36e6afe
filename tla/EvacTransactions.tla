-------------------------- MODULE EvacTransactions --------------------------
(***************************************************************************)
(* The plan requests of EvacWorkflow, statement by statement.               *)
(*                                                                          *)
(* Each request is one PostgreSQL transaction (db/session.py) at the        *)
(* default isolation level, READ COMMITTED: a SELECT sees what is committed *)
(* when it runs, an INSERT of a key another transaction has inserted waits  *)
(* for it, an UPDATE waits for the transaction that holds the row and then  *)
(* writes only the columns it assigns, whatever the row has become.  The    *)
(* services read first and decide in Python, with no SELECT FOR UPDATE and  *)
(* no version column, so what they decided on may be gone when they write.  *)
(*                                                                          *)
(* The first SELECT that matters is one step with the arrival of the        *)
(* request, and a request that fails on it (404, 409) changes nothing and   *)
(* is no step.  Field reports here are those that demand a new approval and *)
(* find an approved plan; the others do not touch these tables.             *)
(***************************************************************************)
EXTENDS Naturals, Sequences

CONSTANTS
  Session,      \* requests that can be in progress at the same time
  Community,    \* villages
  MaxPlans,     \* bound: plan versions
  MaxRequests   \* bound: requests

ASSUME TransactionsAssumption == MaxPlans \in Nat /\ MaxRequests \in Nat

VARIABLES
  plans,      \* committed rows; plans[v] is version v
  contacts,   \* contacts[<<v, c>>]: committed attempts to call c under plan v
  pc,         \* pc[s]: the statement session s runs next
  txn,        \* txn[s]: what the request of s has read, and what it will write
  begun       \* requests so far

vars == <<plans, contacts, pc, txn, begun>>

Status == {"draft", "approved", "reapproval_required", "superseded"}

PlanRow == [status : Status, items : (SUBSET Community) \ {{}},
            signed : BOOLEAN,         \* approved_by is not NULL
            superseded_by : Nat]      \* 0 is NULL

Statement == {"idle", "previous", "insert", "supersede",
              "approve", "recall", "existing", "commit"}

\* op names the service function; plan is the version it read, version the
\* one it creates, villages those it names or calls.
Txn == [op : {"none", "create", "approve", "mark_needs_reapproval", "start_round"},
        plan : Nat, version : Nat, villages : SUBSET Community]

NoTxn == [op |-> "none", plan |-> 0, version |-> 0, villages |-> {}]

TypeOK ==
  /\ plans \in Seq(PlanRow)
  /\ Len(plans) <= MaxPlans
  /\ contacts \in [(1..MaxPlans) \X Community -> Nat]
  /\ pc \in [Session -> Statement]
  /\ txn \in [Session -> Txn]
  /\ begun \in Nat

Init ==
  /\ plans = <<>>
  /\ contacts = [vc \in (1..MaxPlans) \X Community |-> 0]
  /\ pc = [s \in Session |-> "idle"]
  /\ txn = [s \in Session |-> NoTxn]
  /\ begun = 0

----------------------------------------------------------------------------

\* Slip: the newest approved version.
IsCurrent_Approved(v) ==
  /\ v \in DOMAIN plans
  /\ plans[v].status = "approved"
  /\ \A w \in DOMAIN plans : w > v => plans[w].status # "approved"

\* planning.current_plan, as of now: the newest version not superseded, or 0.
IsCurrent(v) ==
  /\ v \in DOMAIN plans
  /\ plans[v].status # "superseded"
  /\ \A w \in DOMAIN plans : w > v => plans[w].status = "superseded"

CurrentPlan == IF \E v \in DOMAIN plans : IsCurrent(v)
               THEN CHOOSE v \in DOMAIN plans : IsCurrent(v)
               ELSE 0

\* A new request takes session s; next is the statement after its first one.
Begin(s, request, next) ==
  /\ pc[s] = "idle"
  /\ begun < MaxRequests
  /\ begun' = begun + 1
  /\ txn' = [txn EXCEPT ![s] = request]
  /\ pc' = [pc EXCEPT ![s] = next]
  /\ UNCHANGED <<plans, contacts>>

Goto(s, next) == pc' = [pc EXCEPT ![s] = next]

\* The request is over, its locks are released.
Rollback(s) ==
  /\ pc' = [pc EXCEPT ![s] = "idle"]
  /\ txn' = [txn EXCEPT ![s] = NoTxn]

\* Uncommitted writes of the request in session t.
HoldsKey(t, version) ==
  /\ txn[t].op = "create" /\ txn[t].version = version
  /\ pc[t] \in {"supersede", "commit"}

\* Slip: the SELECT locks the row already (FOR SHARE), and keeps it locked.
HoldsRow_SinceRead(t, v) ==
  /\ txn[t].plan = v
  /\ txn[t].op \in {"create", "approve", "mark_needs_reapproval"}
  /\ pc[t] # "idle"

HoldsRow(t, v) ==
  /\ txn[t].plan = v
  /\ txn[t].op \in {"create", "approve", "mark_needs_reapproval"}
  /\ pc[t] = "commit"

RowIsFree(s, v) == \A t \in Session \ {s} : ~HoldsRow(t, v)

----------------------------------------------------------------------------
(* planning.create.                                                         *)

ReadVersion(s, items) ==
  /\ Len(plans) < MaxPlans
  /\ Begin(s, [op |-> "create", plan |-> 0, version |-> Len(plans) + 1,
               villages |-> items], "previous")

ReadPrevious(s) ==
  /\ pc[s] = "previous"
  /\ txn' = [txn EXCEPT ![s].plan = CurrentPlan]
  /\ Goto(s, "insert")
  /\ UNCHANGED <<plans, contacts, begun>>

\* Slip: the table has no unique (incident_id, version).
KeyIsTaken_Never(version) == FALSE

\* uq_plan_incident_version, among the committed rows.
KeyIsTaken(version) == version \in DOMAIN plans

InsertPlan(s) ==
  /\ pc[s] = "insert"
  /\ \A t \in Session \ {s} : ~HoldsKey(t, txn[s].version)
  /\ IF KeyIsTaken(txn[s].version)
     THEN Rollback(s)
     ELSE /\ Goto(s, IF txn[s].plan = 0 THEN "commit" ELSE "supersede")
          /\ UNCHANGED txn
  /\ UNCHANGED <<plans, contacts, begun>>

Supersede(s) ==
  /\ pc[s] = "supersede"
  /\ RowIsFree(s, txn[s].plan)
  /\ Goto(s, "commit")
  /\ UNCHANGED <<plans, contacts, txn, begun>>

----------------------------------------------------------------------------
(* planning.approve.                                                        *)

GetForApproval(s, v) ==
  /\ v \in DOMAIN plans
  /\ plans[v].status \notin {"approved", "superseded"}
  /\ Begin(s, [NoTxn EXCEPT !.op = "approve", !.plan = v], "approve")

WriteApproval(s) ==
  /\ pc[s] = "approve"
  /\ RowIsFree(s, txn[s].plan)
  /\ Goto(s, "commit")
  /\ UNCHANGED <<plans, contacts, txn, begun>>

----------------------------------------------------------------------------
(* tasks.submit_report and planning.mark_needs_reapproval.                  *)

ReadForRecall(s) ==
  LET v == CurrentPlan
  IN /\ v # 0
     /\ plans[v].status = "approved"
     /\ Begin(s, [NoTxn EXCEPT !.op = "mark_needs_reapproval", !.plan = v], "recall")

WriteRecall(s) ==
  /\ pc[s] = "recall"
  /\ RowIsFree(s, txn[s].plan)
  /\ Goto(s, "commit")
  /\ UNCHANGED <<plans, contacts, txn, begun>>

----------------------------------------------------------------------------
(* contacts.start_round.                                                    *)

\* Slip: a draft will do.
MayCall_NotRecalled(v) == plans[v].status # "reapproval_required"

MayCall(v) == plans[v].status = "approved"

ReadForRound(s) ==
  LET v == CurrentPlan
  IN /\ v # 0
     /\ MayCall(v)
     /\ Begin(s, [NoTxn EXCEPT !.op = "start_round", !.plan = v], "existing")

Uncalled(v) == {c \in plans[v].items : contacts[<<v, c>>] = 0}

\* The villages with an attempt are read, the attempts for the others inserted.
ReadExisting(s) ==
  LET v == txn[s].plan
  IN /\ pc[s] = "existing"
     /\ txn' = [txn EXCEPT ![s].villages = Uncalled(v)]
     /\ Goto(s, "commit")
     /\ UNCHANGED <<plans, contacts, begun>>

----------------------------------------------------------------------------
(* The commit of api/route.py, and rollback.                                *)

Superseded(row, version) ==
  [row EXCEPT !.status = "superseded", !.superseded_by = version]

CommitCreate(s) ==
  /\ txn[s].op = "create"
  /\ plans' = Append([v \in DOMAIN plans |->
                        IF v = txn[s].plan THEN Superseded(plans[v], txn[s].version)
                        ELSE plans[v]],
                     [status |-> "draft", items |-> txn[s].villages,
                      signed |-> FALSE, superseded_by |-> 0])
  /\ UNCHANGED contacts

CommitApproval(s) ==
  /\ txn[s].op = "approve"
  /\ plans' = [plans EXCEPT ![txn[s].plan].status = "approved",
                            ![txn[s].plan].signed = TRUE]
  /\ UNCHANGED contacts

CommitRecall(s) ==
  /\ txn[s].op = "mark_needs_reapproval"
  /\ plans' = [plans EXCEPT ![txn[s].plan].status = "reapproval_required"]
  /\ UNCHANGED contacts

CommitRound(s) ==
  /\ txn[s].op = "start_round"
  /\ contacts' = [vc \in DOMAIN contacts |->
                    IF vc[1] = txn[s].plan /\ vc[2] \in txn[s].villages
                    THEN contacts[vc] + 1
                    ELSE contacts[vc]]
  /\ UNCHANGED plans

Commit(s) ==
  /\ pc[s] = "commit"
  /\ CommitCreate(s) \/ CommitApproval(s) \/ CommitRecall(s) \/ CommitRound(s)
  /\ pc' = [pc EXCEPT ![s] = "idle"]
  /\ txn' = [txn EXCEPT ![s] = NoTxn]
  /\ UNCHANGED begun

\* An error, a lost connection or a stopped process.
Abort(s) ==
  /\ pc[s] # "idle"
  /\ Rollback(s)
  /\ UNCHANGED <<plans, contacts, begun>>

----------------------------------------------------------------------------

\* What a request does once it has begun.
Proceed(s) ==
  \/ ReadPrevious(s)
  \/ InsertPlan(s)
  \/ Supersede(s)
  \/ WriteApproval(s)
  \/ WriteRecall(s)
  \/ ReadExisting(s)
  \/ Commit(s)

Next ==
  \E s \in Session :
    \/ \E items \in (SUBSET Community) \ {{}} : ReadVersion(s, items)
    \/ \E v \in DOMAIN plans : GetForApproval(s, v)
    \/ ReadForRecall(s)
    \/ ReadForRound(s)
    \/ Proceed(s)
    \/ Abort(s)

\* A request goes on by itself while the database lets it; no lock is ever
\* refused for good, because the bound on requests bounds the overtaking that
\* PostgreSQL's queue of waiters excludes.
Spec == Init /\ [][Next]_vars /\ \A s \in Session : WF_vars(Proceed(s))

----------------------------------------------------------------------------
(* What survives the interleaving.                                          *)

(* planning.create: however drafts, approvals and reports overlap, version  *)
(* v is superseded by v + 1 and by nothing else, and the newest by nothing. *)
(* The unique key and the order of the two reads are what make it so.       *)
ChainIsExact ==
  \A v \in DOMAIN plans :
    plans[v].superseded_by = IF v = Len(plans) THEN 0 ELSE v + 1

(* planning.current_plan: the plan every request works on is the newest     *)
(* version; a late write to an older row never brings that row back.        *)
NewestCounts == CurrentPlan = Len(plans)

(* contacts.start_round: residents are on the calling list of a version     *)
(* only if somebody has approved that version.                              *)
CallsAreSigned ==
  \A vc \in DOMAIN contacts :
    contacts[vc] > 0 => /\ vc[1] \in DOMAIN plans
                        /\ vc[2] \in plans[vc[1]].items
                        /\ plans[vc[1]].signed

(* No request waits for ever: the unique key and the rows are locked in an  *)
(* order that admits no cycle, and a failing request lets go of both.       *)
RequestsEnd == \A s \in Session : pc[s] # "idle" ~> pc[s] = "idle"

(* What does not.                                                           *)

(* docs/api-spec.md on plans: the transitions of a plan are four, and none  *)
(* of them leaves "superseded".                                             *)
SupersededIsFinal ==
  [][\A v \in DOMAIN plans :
       plans[v].status = "superseded" => plans'[v].status = "superseded"]_vars

=============================================================================
