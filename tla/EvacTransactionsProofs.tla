----------------------- MODULE EvacTransactionsProofs -----------------------
(***************************************************************************)
(* Proofs about EvacTransactions, for any number of overlapping requests.   *)
(***************************************************************************)
EXTENDS EvacTransactions, SequenceTheorems, TLAPS

----------------------------------------------------------------------------
(* The inductive invariant.  Between the read of the highest version and    *)
(* the INSERT anything may be committed; once the INSERT has gone through,  *)
(* its key keeps every other draft out, so the version stays the next one   *)
(* and the plan it supersedes stays the newest.                             *)

\* Only the newest version can be current.
NewestIsLive == plans # <<>> => plans[Len(plans)].status # "superseded"

\* approve is the only way to these states, and approved_by stays.
ApprovedIsSigned ==
  \A v \in DOMAIN plans :
    plans[v].status \in {"approved", "reapproval_required"} => plans[v].signed

\* What the request in session s may rely on before each statement.
Creating(s) ==
  /\ txn[s].version \in 1..MaxPlans
  /\ txn[s].version <= Len(plans) + 1
  /\ txn[s].villages # {}
  /\ pc[s] \in {"previous", "insert", "supersede", "commit"}
  /\ pc[s] = "insert" =>
       txn[s].plan <= Len(plans) /\ txn[s].version <= txn[s].plan + 1
  /\ pc[s] \in {"supersede", "commit"} =>
       txn[s].version = Len(plans) + 1 /\ txn[s].plan = Len(plans)

Working(s) ==
  /\ pc[s] = "idle" <=> txn[s].op = "none"
  /\ txn[s].op = "create" => Creating(s)
  /\ txn[s].op = "approve" =>
       pc[s] \in {"approve", "commit"} /\ txn[s].plan \in DOMAIN plans
  /\ txn[s].op = "mark_needs_reapproval" =>
       /\ pc[s] \in {"recall", "commit"}
       /\ txn[s].plan \in DOMAIN plans /\ plans[txn[s].plan].signed
  /\ txn[s].op = "start_round" =>
       /\ pc[s] \in {"existing", "commit"}
       /\ txn[s].plan \in DOMAIN plans /\ plans[txn[s].plan].signed
       /\ pc[s] = "commit" => txn[s].villages \subseteq plans[txn[s].plan].items

\* The INSERT of the request in session s has gone through.
Inserted(s) == txn[s].op = "create" /\ pc[s] \in {"supersede", "commit"}

\* Two INSERTs of one key are never both through.
KeyIsExclusive == \A s, t \in Session : Inserted(s) /\ Inserted(t) => s = t

IInv ==
  /\ TypeOK
  /\ ChainIsExact
  /\ NewestIsLive
  /\ CallsAreSigned
  /\ ApprovedIsSigned
  /\ KeyIsExclusive
  /\ \A s \in Session : Working(s)

----------------------------------------------------------------------------
(* The tables.                                                              *)

LEMMA Rows ==
  ASSUME TypeOK
  PROVE  /\ Len(plans) \in Nat /\ DOMAIN plans = 1..Len(plans)
         /\ plans = <<>> <=> Len(plans) = 0
         /\ \A v \in DOMAIN plans : plans[v] \in PlanRow
         /\ \A s \in Session : txn[s] \in Txn /\ pc[s] \in Statement
BY LenProperties, ElementOfSeq DEF TypeOK

(* planning.current_plan is the newest version.                             *)
LEMMA CurrentIsNewest ==
  ASSUME TypeOK, NewestIsLive
  PROVE  NewestCounts
<1>1. CASE plans = <<>>
  BY <1>1, Rows DEF NewestCounts, CurrentPlan, IsCurrent
<1>2. CASE plans # <<>>
  <2>1. Len(plans) \in DOMAIN plans /\ DOMAIN plans = 1..Len(plans) /\ Len(plans) \in Nat
    BY <1>2, Rows
  <2>2. IsCurrent(Len(plans))
    BY <1>2, <2>1 DEF IsCurrent, NewestIsLive
  <2>3. ASSUME NEW v \in DOMAIN plans, IsCurrent(v) PROVE v = Len(plans)
    BY <1>2, <2>1, <2>3 DEF IsCurrent, NewestIsLive
  <2> QED
    BY <2>1, <2>2, <2>3 DEF NewestCounts, CurrentPlan
<1> QED
  BY <1>1, <1>2

----------------------------------------------------------------------------
(* Steps that commit nothing: only what session s has read changes.         *)

LEMMA ReadStep ==
  ASSUME IInv, NEW s \in Session, UNCHANGED <<plans, contacts>>, begun' \in Nat,
         NEW next \in Statement, NEW request \in Txn,
         pc' = [pc EXCEPT ![s] = next], txn' = [txn EXCEPT ![s] = request],
         Working(s)', Inserted(s)' => \A t \in Session \ {s} : ~Inserted(t)
  PROVE  IInv'
<1>1. TypeOK'
  BY DEF IInv, TypeOK
<1>2. pc'[s] = next /\ txn'[s] = request
      /\ \A t \in Session \ {s} : pc'[t] = pc[t] /\ txn'[t] = txn[t]
  BY DEF IInv, TypeOK
<1>3. ChainIsExact' /\ NewestIsLive' /\ CallsAreSigned' /\ ApprovedIsSigned'
  BY DEF IInv, ChainIsExact, NewestIsLive, CallsAreSigned, ApprovedIsSigned
<1>4. KeyIsExclusive'
  BY <1>2 DEF IInv, KeyIsExclusive, Inserted
<1>5. ASSUME NEW t \in Session PROVE Working(t)'
  BY <1>2 DEF IInv, Working, Creating
<1> QED
  BY <1>1, <1>3, <1>4, <1>5 DEF IInv

LEMMA BeginInv ==
  ASSUME IInv, NEW s \in Session, NEW request \in Txn, NEW next \in Statement,
         Begin(s, request, next), next \notin {"supersede", "commit"},
         Working(s)'
  PROVE  IInv'
<1>1. pc'[s] = next
  BY DEF Begin, IInv, TypeOK
<1>2. ~Inserted(s)'
  BY <1>1 DEF Inserted
<1>3. /\ UNCHANGED <<plans, contacts>> /\ begun' \in Nat
      /\ pc' = [pc EXCEPT ![s] = next] /\ txn' = [txn EXCEPT ![s] = request]
  BY DEF Begin, IInv, TypeOK
<1> QED
  BY <1>2, <1>3, ReadStep

LEMMA RollbackInv ==
  ASSUME IInv, NEW s \in Session, Rollback(s), UNCHANGED <<plans, contacts, begun>>
  PROVE  IInv'
<1>1. NoTxn \in Txn /\ "idle" \in Statement
  BY DEF NoTxn, Txn, Statement
<1>2. pc'[s] = "idle" /\ txn'[s] = NoTxn
  BY DEF Rollback, IInv, TypeOK
<1>3. Working(s)' /\ ~Inserted(s)'
  BY <1>2 DEF Working, Inserted, NoTxn
<1> QED
  BY <1>1, <1>3, ReadStep DEF Rollback, IInv, TypeOK

LEMMA ReadVersionInv ==
  ASSUME TransactionsAssumption, IInv, NEW s \in Session,
         NEW items \in (SUBSET Community) \ {{}}, ReadVersion(s, items)
  PROVE  IInv'
<1> DEFINE request == [op |-> "create", plan |-> 0, version |-> Len(plans) + 1,
                       villages |-> items]
<1>1. Len(plans) \in Nat /\ request \in Txn
  BY Rows DEF IInv, Txn
<1>2. Begin(s, request, "previous") /\ Len(plans) < MaxPlans
  BY DEF ReadVersion
<1>3. pc'[s] = "previous" /\ txn'[s] = request /\ plans' = plans
  BY <1>2 DEF Begin, IInv, TypeOK
<1>4. Working(s)'
  BY <1>1, <1>2, <1>3 DEF Working, Creating, TransactionsAssumption
<1> HIDE DEF request
<1> QED
  BY <1>1, <1>2, <1>4, BeginInv DEF Statement

LEMMA ReadPreviousInv ==
  ASSUME IInv, NEW s \in Session, ReadPrevious(s)
  PROVE  IInv'
<1> DEFINE request == [txn[s] EXCEPT !.plan = CurrentPlan]
<1>1. /\ CurrentPlan = Len(plans) /\ Len(plans) \in Nat
      /\ txn[s] \in Txn /\ pc[s] = "previous"
  BY Rows, CurrentIsNewest DEF IInv, NewestCounts, ReadPrevious
<1>2. txn[s].op = "create" /\ Creating(s)
  BY <1>1 DEF IInv, Working, Txn
<1>3. /\ request \in Txn /\ request.op = "create" /\ request.plan = Len(plans)
      /\ request.version = txn[s].version /\ request.villages = txn[s].villages
  BY <1>1, <1>2 DEF Txn
<1>4. txn' = [txn EXCEPT ![s] = request] /\ pc' = [pc EXCEPT ![s] = "insert"]
      /\ UNCHANGED <<plans, contacts, begun>>
  BY DEF ReadPrevious, Goto
<1>5. txn'[s] = request /\ pc'[s] = "insert"
  BY <1>4 DEF IInv, TypeOK
<1> HIDE DEF request
<1>6. Working(s)' /\ ~Inserted(s)'
  BY <1>1, <1>2, <1>3, <1>4, <1>5 DEF Working, Creating, Inserted
<1> QED
  BY <1>3, <1>4, <1>6, ReadStep DEF IInv, TypeOK, Statement

\* The next statement of the same request; what it has read stands.
LEMMA GotoInv ==
  ASSUME IInv, NEW s \in Session, NEW next \in Statement, Goto(s, next),
         UNCHANGED <<plans, contacts, txn, begun>>, Working(s)',
         Inserted(s)' => \A t \in Session \ {s} : ~Inserted(t)
  PROVE  IInv'
<1>1. txn[s] \in Txn /\ txn' = [txn EXCEPT ![s] = txn[s]]
  BY Rows DEF IInv, TypeOK
<1> QED
  BY <1>1, ReadStep DEF Goto, IInv, TypeOK

LEMMA InsertPlanInv ==
  ASSUME IInv, NEW s \in Session, InsertPlan(s)
  PROVE  IInv'
<1>1. CASE KeyIsTaken(txn[s].version)
  BY <1>1, RollbackInv DEF InsertPlan
<1>2. CASE ~KeyIsTaken(txn[s].version)
  <2> DEFINE next == IF txn[s].plan = 0 THEN "commit" ELSE "supersede"
  <2>1. Goto(s, next) /\ UNCHANGED <<plans, contacts, txn, begun>> /\ pc[s] = "insert"
    BY <1>2 DEF InsertPlan
  <2>2. pc'[s] = next
    BY <2>1 DEF Goto, IInv, TypeOK
  <2>3. /\ Len(plans) \in Nat /\ DOMAIN plans = 1..Len(plans)
        /\ txn[s] \in Txn
    BY Rows DEF IInv
  <2>4. txn[s].op = "create" /\ Creating(s)
    BY <2>1, <2>3 DEF IInv, Working, Txn
  <2>5. txn[s].version = Len(plans) + 1 /\ txn[s].plan = Len(plans)
    BY <1>2, <2>1, <2>3, <2>4 DEF Creating, KeyIsTaken, Txn
  <2>6. Working(s)'
    BY <2>1, <2>2, <2>4, <2>5 DEF Working, Creating
  <2>7. \A t \in Session \ {s} : ~Inserted(t)
    BY <2>5 DEF InsertPlan, HoldsKey, Inserted, IInv, Working, Creating
  <2> QED
    BY <2>1, <2>6, <2>7, GotoInv DEF Statement
<1> QED
  BY <1>1, <1>2

LEMMA SupersedeInv ==
  ASSUME IInv, NEW s \in Session, Supersede(s)
  PROVE  IInv'
<1>1. pc'[s] = "commit" /\ pc[s] = "supersede"
  BY DEF Supersede, Goto, IInv, TypeOK
<1>2. txn[s].op = "create" /\ Creating(s)
  BY <1>1, Rows DEF IInv, Working, Txn
<1>3. Working(s)'
  BY <1>1, <1>2 DEF Supersede, Working, Creating
<1>4. \A t \in Session \ {s} : ~Inserted(t)
  BY <1>1, <1>2 DEF IInv, KeyIsExclusive, Inserted
<1> QED
  BY <1>3, <1>4, GotoInv DEF Supersede, Statement

LEMMA WriteInv ==
  ASSUME IInv, NEW s \in Session, WriteApproval(s) \/ WriteRecall(s)
  PROVE  IInv'
<1>1. /\ pc[s] \in {"approve", "recall"}
      /\ Goto(s, "commit") /\ UNCHANGED <<plans, contacts, txn, begun>>
  BY DEF WriteApproval, WriteRecall
<1>2. pc'[s] = "commit"
  BY <1>1 DEF Goto, IInv, TypeOK
<1>3. txn[s].op \in {"approve", "mark_needs_reapproval"}
  BY <1>1, Rows DEF IInv, Working, Creating, Txn
<1>4. Working(s)' /\ ~Inserted(s)'
  BY <1>1, <1>2, <1>3 DEF IInv, Working, Inserted
<1> QED
  BY <1>1, <1>4, GotoInv DEF Statement

LEMMA GetForApprovalInv ==
  ASSUME IInv, NEW s \in Session, NEW v \in DOMAIN plans, GetForApproval(s, v)
  PROVE  IInv'
<1> DEFINE request == [NoTxn EXCEPT !.op = "approve", !.plan = v]
<1>1. request \in Txn /\ request.op = "approve" /\ request.plan = v
  <2>1. v \in Nat
    BY Rows DEF IInv
  <2> QED
    BY <2>1 DEF NoTxn, Txn
<1>2. Begin(s, request, "approve")
  BY DEF GetForApproval
<1>3. pc'[s] = "approve" /\ txn'[s] = request /\ plans' = plans
  BY <1>2 DEF Begin, IInv, TypeOK
<1> HIDE DEF request
<1>4. Working(s)'
  BY <1>1, <1>3 DEF Working
<1> QED
  BY <1>1, <1>2, <1>4, BeginInv DEF Statement

LEMMA ReadForRecallInv ==
  ASSUME IInv, NEW s \in Session, ReadForRecall(s)
  PROVE  IInv'
<1> DEFINE v == CurrentPlan
           request == [NoTxn EXCEPT !.op = "mark_needs_reapproval", !.plan = v]
<1>1. v = Len(plans) /\ v # 0 /\ plans[v].status = "approved"
  BY CurrentIsNewest DEF ReadForRecall, IInv, NewestCounts
<1>2. v \in DOMAIN plans /\ v \in Nat /\ plans[v].signed
  BY <1>1, Rows DEF IInv, ApprovedIsSigned
<1>3. request \in Txn /\ request.op = "mark_needs_reapproval" /\ request.plan = v
  BY <1>2 DEF NoTxn, Txn
<1>4. Begin(s, request, "recall")
  BY DEF ReadForRecall
<1>5. pc'[s] = "recall" /\ txn'[s] = request /\ plans' = plans
  BY <1>4 DEF Begin, IInv, TypeOK
<1> HIDE DEF request, v
<1>6. Working(s)'
  BY <1>2, <1>3, <1>5 DEF Working
<1> QED
  BY <1>3, <1>4, <1>6, BeginInv DEF Statement

LEMMA ReadForRoundInv ==
  ASSUME IInv, NEW s \in Session, ReadForRound(s)
  PROVE  IInv'
<1> DEFINE v == CurrentPlan
           request == [NoTxn EXCEPT !.op = "start_round", !.plan = v]
<1>1. v = Len(plans) /\ v # 0 /\ plans[v].status = "approved"
  BY CurrentIsNewest DEF ReadForRound, MayCall, IInv, NewestCounts
<1>2. v \in DOMAIN plans /\ v \in Nat /\ plans[v].signed
  BY <1>1, Rows DEF IInv, ApprovedIsSigned
<1>3. request \in Txn /\ request.op = "start_round" /\ request.plan = v
  BY <1>2 DEF NoTxn, Txn
<1>4. Begin(s, request, "existing")
  BY DEF ReadForRound
<1>5. pc'[s] = "existing" /\ txn'[s] = request /\ plans' = plans
  BY <1>4 DEF Begin, IInv, TypeOK
<1> HIDE DEF request, v
<1>6. Working(s)'
  BY <1>2, <1>3, <1>5 DEF Working
<1> QED
  BY <1>3, <1>4, <1>6, BeginInv DEF Statement

LEMMA ReadExistingInv ==
  ASSUME IInv, NEW s \in Session, ReadExisting(s)
  PROVE  IInv'
<1> DEFINE v == txn[s].plan
           request == [txn[s] EXCEPT !.villages = Uncalled(v)]
<1>1. txn[s] \in Txn /\ pc[s] = "existing"
  BY Rows DEF IInv, ReadExisting
<1>2. txn[s].op = "start_round"
  BY <1>1 DEF IInv, Working, Creating, Txn
<1>3. v \in DOMAIN plans /\ plans[v].signed /\ plans[v] \in PlanRow
  BY <1>2, Rows DEF IInv, Working
<1>4. Uncalled(v) \subseteq plans[v].items /\ Uncalled(v) \subseteq Community
  BY <1>3 DEF Uncalled, PlanRow
<1>5. /\ request \in Txn /\ request.op = "start_round" /\ request.plan = v
      /\ request.villages \subseteq plans[v].items
  BY <1>1, <1>2, <1>4 DEF Txn
<1>6. txn' = [txn EXCEPT ![s] = request] /\ pc' = [pc EXCEPT ![s] = "commit"]
      /\ UNCHANGED <<plans, contacts, begun>>
  BY DEF ReadExisting, Goto
<1>7. txn'[s] = request /\ pc'[s] = "commit"
  BY <1>6 DEF IInv, TypeOK
<1> HIDE DEF request
<1>8. Working(s)' /\ ~Inserted(s)'
  BY <1>3, <1>5, <1>6, <1>7 DEF Working, Inserted
<1> QED
  BY <1>5, <1>6, <1>8, ReadStep DEF IInv, TypeOK, Statement

----------------------------------------------------------------------------
(* Commits.                                                                 *)

\* After the commit session s is idle, and the others are where they were.
LEMMA Committed ==
  ASSUME IInv, NEW s \in Session, Commit(s)
  PROVE  /\ pc[s] = "commit"
         /\ pc'[s] = "idle" /\ txn'[s] = NoTxn /\ begun' = begun
         /\ pc' \in [Session -> Statement] /\ txn' \in [Session -> Txn]
         /\ \A t \in Session \ {s} : pc'[t] = pc[t] /\ txn'[t] = txn[t]
         /\ Working(s)' /\ KeyIsExclusive'
<1>1. NoTxn \in Txn /\ "idle" \in Statement
  BY DEF NoTxn, Txn, Statement
<1>2. /\ pc[s] = "commit"
      /\ pc'[s] = "idle" /\ txn'[s] = NoTxn /\ begun' = begun
      /\ pc' \in [Session -> Statement] /\ txn' \in [Session -> Txn]
      /\ \A t \in Session \ {s} : pc'[t] = pc[t] /\ txn'[t] = txn[t]
  BY <1>1 DEF Commit, IInv, TypeOK
<1>3. Working(s)'
  BY <1>2 DEF Working, NoTxn
<1>4. KeyIsExclusive'
  BY <1>2 DEF IInv, KeyIsExclusive, Inserted
<1> QED
  BY <1>2, <1>3, <1>4

LEMMA CommitCreateInv ==
  ASSUME IInv, NEW s \in Session, Commit(s), CommitCreate(s)
  PROVE  IInv'
<1> DEFINE L == Len(plans)
           rows == [v \in DOMAIN plans |->
                      IF v = txn[s].plan THEN Superseded(plans[v], txn[s].version)
                      ELSE plans[v]]
           row == [status |-> "draft", items |-> txn[s].villages,
                   signed |-> FALSE, superseded_by |-> 0]
<1>1. L \in Nat /\ DOMAIN plans = 1..L /\ \A v \in DOMAIN plans : plans[v] \in PlanRow
  BY Rows DEF IInv
<1>2. Creating(s) /\ txn[s] \in Txn
  BY Rows DEF IInv, Working, CommitCreate
<1>3. txn[s].version = L + 1 /\ txn[s].plan = L /\ L + 1 <= MaxPlans
  BY <1>1, <1>2, Committed DEF Creating
<1>4. row \in PlanRow
  BY <1>2 DEF Creating, Txn, PlanRow, Status
<1>5. ASSUME NEW v \in DOMAIN plans
      PROVE  /\ rows[v] \in PlanRow
             /\ rows[v].items = plans[v].items /\ rows[v].signed = plans[v].signed
             /\ rows[v].superseded_by = IF v = L THEN L + 1 ELSE plans[v].superseded_by
             /\ v # L => rows[v].status = plans[v].status
             /\ v = L => rows[v].status = "superseded"
  <2>1. plans[v] \in PlanRow
    BY <1>1
  <2>2. CASE v = L
    <3>1. rows[v] = [plans[v] EXCEPT !.status = "superseded", !.superseded_by = L + 1]
      BY <1>3, <2>2 DEF Superseded
    <3>2. rows[v] = [status |-> "superseded", items |-> plans[v].items,
                     signed |-> plans[v].signed, superseded_by |-> L + 1]
      BY <2>1, <3>1 DEF PlanRow
    <3> HIDE DEF rows
    <3> QED
      BY <1>1, <2>1, <2>2, <3>2 DEF PlanRow, Status
  <2>3. CASE v # L
    BY <1>3, <2>1, <2>3
  <2> QED
    BY <2>2, <2>3
<1>6. rows \in Seq(PlanRow) /\ Len(rows) = L
  <2>1. rows \in [1..L -> PlanRow]
    BY <1>1, <1>5
  <2> HIDE DEF rows
  <2> QED
    BY <1>1, <2>1
<1>7. plans' = Append(rows, row) /\ contacts' = contacts
  BY DEF CommitCreate
<1> HIDE DEF rows, row
<1>8. /\ plans' \in Seq(PlanRow) /\ Len(plans') = L + 1 /\ DOMAIN plans' = 1..(L + 1)
      /\ \A v \in 1..L : plans'[v] = rows[v]
      /\ plans'[L + 1] = row
  BY <1>1, <1>4, <1>6, <1>7
<1>9. /\ row.status = "draft" /\ row.superseded_by = 0
  BY DEF row
<1>10. TypeOK'
  BY <1>3, <1>7, <1>8, Committed DEF IInv, TypeOK
<1>11. ChainIsExact'
  BY <1>1, <1>5, <1>8, <1>9 DEF IInv, ChainIsExact
<1>12. NewestIsLive'
  BY <1>8, <1>9 DEF NewestIsLive
<1>13. CallsAreSigned'
  BY <1>1, <1>5, <1>7, <1>8 DEF IInv, CallsAreSigned
<1>14. ApprovedIsSigned'
  BY <1>1, <1>5, <1>8, <1>9 DEF IInv, ApprovedIsSigned
<1>15. ASSUME NEW t \in Session \ {s} PROVE Working(t)'
  <2>1. pc'[t] = pc[t] /\ txn'[t] = txn[t] /\ txn[t] \in Txn /\ Working(t)
    BY Committed, Rows DEF IInv
  <2>2. CASE txn[t].op = "create"
    <3>1. Creating(t)
      BY <2>1, <2>2 DEF Working
    <3>2. pc[t] \notin {"supersede", "commit"}
      BY <2>2, Committed DEF IInv, KeyIsExclusive, Inserted, CommitCreate
    <3>3. Creating(t)'
      BY <1>1, <1>8, <2>1, <3>1, <3>2 DEF Creating, Txn
    <3> QED
      BY <2>1, <2>2, <3>3 DEF Working
  <2>3. CASE txn[t].op # "create"
    BY SMTT(30), <1>1, <1>5, <1>8, <2>1, <2>3 DEF Working
  <2> QED
    BY <2>2, <2>3
<1> QED
  BY <1>10, <1>11, <1>12, <1>13, <1>14, <1>15, Committed DEF IInv

\* A commit that writes the status of one committed row, and may sign it.
LEMMA StatusInv ==
  ASSUME IInv, NEW s \in Session, Commit(s), contacts' = contacts,
         NEW v \in DOMAIN plans, NEW status \in Status, NEW signed \in BOOLEAN,
         status # "superseded", signed, 
         plans' = [plans EXCEPT ![v] = [status |-> status, items |-> plans[v].items,
                                        signed |-> signed,
                                        superseded_by |-> plans[v].superseded_by]]
  PROVE  IInv'
<1>1. /\ Len(plans) \in Nat /\ DOMAIN plans = 1..Len(plans)
      /\ \A w \in DOMAIN plans : plans[w] \in PlanRow
  BY Rows DEF IInv
<1>2. /\ DOMAIN plans' = DOMAIN plans
      /\ \A w \in DOMAIN plans : w # v => plans'[w] = plans[w]
      /\ plans'[v].status = status /\ plans'[v].items = plans[v].items
      /\ plans'[v].signed /\ plans'[v].superseded_by = plans[v].superseded_by
      /\ plans'[v] \in PlanRow
  BY <1>1 DEF PlanRow
<1>3. plans' \in Seq(PlanRow) /\ Len(plans') = Len(plans)
  <2>1. plans' \in [1..Len(plans) -> PlanRow]
    BY <1>1, <1>2
  <2> QED
    BY <1>1, <2>1
<1>4. TypeOK'
  BY <1>3, Committed DEF IInv, TypeOK
<1>5. ChainIsExact'
  BY <1>1, <1>2, <1>3 DEF IInv, ChainIsExact
<1>6. NewestIsLive'
  BY <1>1, <1>2, <1>3 DEF IInv, NewestIsLive
<1>7. CallsAreSigned'
  BY <1>2 DEF IInv, CallsAreSigned
<1>8. ApprovedIsSigned'
  BY <1>2 DEF IInv, ApprovedIsSigned
<1>9. ASSUME NEW t \in Session \ {s} PROVE Working(t)'
  <2>1. pc'[t] = pc[t] /\ txn'[t] = txn[t] /\ Working(t)
    BY Committed DEF IInv
  <2> QED
    BY <1>2, <1>3, <2>1 DEF Working, Creating
<1> QED
  BY <1>4, <1>5, <1>6, <1>7, <1>8, <1>9, Committed DEF IInv

LEMMA CommitApprovalInv ==
  ASSUME IInv, NEW s \in Session, Commit(s), CommitApproval(s)
  PROVE  IInv'
<1> DEFINE v == txn[s].plan
<1>1. v \in DOMAIN plans /\ plans[v] \in PlanRow
  BY Rows DEF IInv, Working, CommitApproval
<1>2. plans' = [plans EXCEPT ![v] = [plans[v] EXCEPT !.status = "approved", !.signed = TRUE]]
      /\ contacts' = contacts
  BY DEF CommitApproval
<1>3. PICK row : row = [plans[v] EXCEPT !.status = "approved", !.signed = TRUE]
  OBVIOUS
<1>3a. row = [status |-> "approved", items |-> plans[v].items,
            signed |-> TRUE, superseded_by |-> plans[v].superseded_by]
  BY <1>1, <1>3 DEF PlanRow
<1>4. "approved" \in Status
  BY DEF Status
<1> HIDE DEF v
<1> QED
  BY <1>1, <1>2, <1>3, <1>3a, <1>4, StatusInv

LEMMA CommitRecallInv ==
  ASSUME IInv, NEW s \in Session, Commit(s), CommitRecall(s)
  PROVE  IInv'
<1> DEFINE v == txn[s].plan
<1>1. v \in DOMAIN plans /\ plans[v] \in PlanRow /\ plans[v].signed
  BY Rows DEF IInv, Working, CommitRecall
<1>2. plans' = [plans EXCEPT ![v] = [plans[v] EXCEPT !.status = "reapproval_required"]]
      /\ contacts' = contacts
  BY DEF CommitRecall
<1>3. PICK row : row = [plans[v] EXCEPT !.status = "reapproval_required"]
  OBVIOUS
<1>3a. row = [status |-> "reapproval_required", items |-> plans[v].items,
            signed |-> plans[v].signed, superseded_by |-> plans[v].superseded_by]
  BY <1>1, <1>3 DEF PlanRow
<1>4. "reapproval_required" \in Status /\ plans[v].signed \in BOOLEAN
  BY <1>1 DEF Status, PlanRow
<1> HIDE DEF v
<1> QED
  BY <1>1, <1>2, <1>3, <1>3a, <1>4, StatusInv

LEMMA CommitRoundInv ==
  ASSUME IInv, NEW s \in Session, Commit(s), CommitRound(s)
  PROVE  IInv'
<1> DEFINE v == txn[s].plan
<1>1. /\ v \in DOMAIN plans /\ plans[v].signed
      /\ txn[s].villages \subseteq plans[v].items
  BY Committed DEF IInv, Working, CommitRound
<1>2. plans' = plans
  BY DEF CommitRound
<1>3. contacts' = [vc \in DOMAIN contacts |->
                     IF vc[1] = v /\ vc[2] \in txn[s].villages
                     THEN contacts[vc] + 1
                     ELSE contacts[vc]]
  BY DEF CommitRound
<1>4. contacts' \in [(1..MaxPlans) \X Community -> Nat]
  BY <1>3 DEF IInv, TypeOK
<1>5. TypeOK'
  BY <1>2, <1>4, Committed DEF IInv, TypeOK
<1>6. ChainIsExact' /\ NewestIsLive' /\ ApprovedIsSigned'
  BY <1>2 DEF IInv, ChainIsExact, NewestIsLive, ApprovedIsSigned
<1>7. CallsAreSigned'
  <2> SUFFICES ASSUME NEW vc \in DOMAIN contacts', contacts'[vc] > 0
               PROVE  /\ vc[1] \in DOMAIN plans
                      /\ vc[2] \in plans[vc[1]].items
                      /\ plans[vc[1]].signed
    BY <1>2 DEF CallsAreSigned
  <2>1. vc \in DOMAIN contacts
    BY <1>3
  <2>2. CASE vc[1] = v /\ vc[2] \in txn[s].villages
    BY <1>1, <2>2
  <2>3. CASE ~(vc[1] = v /\ vc[2] \in txn[s].villages)
    BY <1>3, <2>1, <2>3 DEF IInv, CallsAreSigned
  <2> QED
    BY <2>2, <2>3
<1>8. ASSUME NEW t \in Session \ {s} PROVE Working(t)'
  BY <1>2, Committed DEF IInv, Working, Creating
<1> QED
  BY <1>5, <1>6, <1>7, <1>8, Committed DEF IInv

----------------------------------------------------------------------------
(* The invariant holds in every reachable state.                            *)

LEMMA InitInv ==
  ASSUME TransactionsAssumption, Init
  PROVE  IInv
<1>1. NoTxn \in Txn /\ NoTxn.op = "none"
  BY DEF NoTxn, Txn
<1>2. TypeOK
  BY <1>1 DEF Init, TypeOK, TransactionsAssumption, Statement
<1>3. ChainIsExact /\ NewestIsLive /\ ApprovedIsSigned
  BY DEF Init, ChainIsExact, NewestIsLive, ApprovedIsSigned
<1>4. CallsAreSigned
  BY DEF Init, CallsAreSigned
<1>5. KeyIsExclusive
  BY DEF Init, KeyIsExclusive, Inserted
<1>6. \A s \in Session : Working(s)
  BY <1>1 DEF Init, Working
<1> QED
  BY <1>2, <1>3, <1>4, <1>5, <1>6 DEF IInv

LEMMA StepInv ==
  ASSUME TransactionsAssumption, IInv, [Next]_vars
  PROVE  IInv'
<1>1. ASSUME NEW s \in Session, NEW items \in (SUBSET Community) \ {{}},
             ReadVersion(s, items)
      PROVE  IInv'
  BY <1>1, ReadVersionInv
<1>2. ASSUME NEW s \in Session, NEW v \in DOMAIN plans, GetForApproval(s, v)
      PROVE  IInv'
  BY <1>2, GetForApprovalInv
<1>3. ASSUME NEW s \in Session, ReadForRecall(s) \/ ReadForRound(s)
      PROVE  IInv'
  BY <1>3, ReadForRecallInv, ReadForRoundInv
<1>4. ASSUME NEW s \in Session, Proceed(s)
      PROVE  IInv'
  <2>1. CASE Commit(s)
    BY <2>1, CommitCreateInv, CommitApprovalInv, CommitRecallInv, CommitRoundInv DEF Commit
  <2>2. CASE ReadPrevious(s) \/ InsertPlan(s) \/ Supersede(s)
    BY <2>2, ReadPreviousInv, InsertPlanInv, SupersedeInv
  <2>3. CASE WriteApproval(s) \/ WriteRecall(s) \/ ReadExisting(s)
    BY <2>3, WriteInv, ReadExistingInv
  <2> QED
    BY <1>4, <2>1, <2>2, <2>3 DEF Proceed
<1>5. ASSUME NEW s \in Session, Abort(s)
      PROVE  IInv'
  BY <1>5, RollbackInv DEF Abort
<1>6. CASE UNCHANGED vars
  <2>1. TypeOK' /\ ChainIsExact' /\ NewestIsLive' /\ CallsAreSigned'
        /\ ApprovedIsSigned' /\ KeyIsExclusive'
    BY <1>6 DEF vars, IInv, TypeOK, ChainIsExact, NewestIsLive, CallsAreSigned,
                ApprovedIsSigned, KeyIsExclusive, Inserted
  <2>2. ASSUME NEW s \in Session PROVE Working(s)'
    BY <1>6 DEF vars, IInv, Working, Creating
  <2> QED
    BY <2>1, <2>2 DEF IInv
<1> QED
  BY <1>1, <1>2, <1>3, <1>4, <1>5, <1>6 DEF Next

(* The tables, and what every request in progress may rely on, for any      *)
(* number of overlapping requests.                                          *)
THEOREM Invariance == Spec => []IInv
<1>1. Init => IInv
  BY TransactionsAssumption, InitInv
<1>2. IInv /\ [Next]_vars => IInv'
  BY TransactionsAssumption, StepInv
<1> QED
  BY <1>1, <1>2, PTL DEF Spec

(* Every row and every request in progress is well formed.                  *)
THEOREM TypeCorrect == Spec => []TypeOK
<1>1. IInv => TypeOK
  BY DEF IInv
<1> QED
  BY <1>1, Invariance, PTL

(* planning.create: the chain of versions is exact, whatever overlaps.      *)
THEOREM ExactChain == Spec => []ChainIsExact
<1>1. IInv => ChainIsExact
  BY DEF IInv
<1> QED
  BY <1>1, Invariance, PTL

(* planning.current_plan: no late write to an older row makes it current.   *)
THEOREM NewestIsCurrent == Spec => []NewestCounts
<1>1. IInv => NewestCounts
  BY CurrentIsNewest DEF IInv
<1> QED
  BY <1>1, Invariance, PTL

(* contacts.start_round: nobody is called for a version nobody approved.    *)
THEOREM SignedCalls == Spec => []CallsAreSigned
<1>1. IInv => CallsAreSigned
  BY DEF IInv
<1> QED
  BY <1>1, Invariance, PTL

=============================================================================
