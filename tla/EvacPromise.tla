---------------------------- MODULE EvacPromise ----------------------------
(***************************************************************************)
(* What the evacuation procedure promises, with the database left out.      *)
(*                                                                          *)
(* An incident has at most one plan that counts: its newest version.  That  *)
(* plan is drafted, approved by a person, sent back by a report from the    *)
(* field and approved again, or replaced by a newer version; residents are  *)
(* called for a version only while that version is the newest one and is    *)
(* approved.  EvacWorkflow and EvacTransactions are compared with this.     *)
(***************************************************************************)
EXTENDS Naturals

CONSTANT Community   \* the villages of the region

VARIABLES
  version,   \* the newest plan version, 0 before the first plan
  stage,     \* where the newest plan stands
  called     \* pairs <<version, village>>: residents put on the calling list

promiseVars == <<version, stage, called>>

Stage == {"none", "draft", "approved", "reapproval_required"}

PromiseTypeOK ==
  /\ version \in Nat
  /\ stage \in Stage
  /\ called \subseteq (Nat \X Community)

PromiseInit ==
  /\ version = 0
  /\ stage = "none"
  /\ called = {}

\* A new version replaces whatever there was, approved or not.
Draft ==
  /\ version' = version + 1
  /\ stage' = "draft"
  /\ UNCHANGED called

\* A person approves the newest plan, for the first time or again.
Approve ==
  /\ stage \in {"draft", "reapproval_required"}
  /\ stage' = "approved"
  /\ UNCHANGED <<version, called>>

\* A report from the field takes the approval back.
Recall ==
  /\ stage = "approved"
  /\ stage' = "reapproval_required"
  /\ UNCHANGED <<version, called>>

\* Villages of the approved plan go on the calling list, each once.
Call(villages) ==
  /\ stage = "approved"
  /\ villages # {}
  /\ called \cap ({version} \X villages) = {}
  /\ called' = called \cup ({version} \X villages)
  /\ UNCHANGED <<version, stage>>

PromiseNext ==
  \/ Draft
  \/ Approve
  \/ Recall
  \/ \E villages \in SUBSET Community : Call(villages)

PromiseSpec == PromiseInit /\ [][PromiseNext]_promiseVars

=============================================================================
