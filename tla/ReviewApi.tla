----------------------------- MODULE ReviewApi ------------------------------
(***************************************************************************)
(* The review endpoints of api/routes/work_items.py, except regeneration.  *)
(* A tab sends the version its page shows (last_seen_version).  Requests   *)
(* that end in an error response without a write are not steps, unless     *)
(* the request holds memory of an earlier step.                            *)
(***************************************************************************)
EXTENDS Store

\* The page t with a request in flight at pc, which holds the key of an approval,
\* the job to publish or the generation run.
InRequest(t, pc, k, j, n) ==
  [pc |-> pc, version |-> t.version, draft |-> t.draft, key |-> k, job |-> j, run |-> n]

Idle(t) == InRequest(t, "idle", NoKey, 0, 0)
Publishing(t, j) == InRequest(t, "enqueue", NoKey, j, 0)

\* GET /work-items/{id}: the page shows the current row.
Open(r) ==
  /\ tab[r].pc = "idle"
  /\ tab' = [tab EXCEPT ![r] = Showing(item.version, item.final_draft)]
  /\ UNCHANGED <<dbVars, queue, wk, emails, approvals>>

-----------------------------------------------------------------------------
(* Checks every mutation makes once it holds the item's row lock. *)

\* As if last_seen_version were not compared.
VersionUnchecked(r) == TRUE

check_version(r) == tab[r].version = item.version

Admits(r, action) == check_version(r) /\ can_perform_action(item.status, action)

\* A single-transaction operation of an idle tab.
Requested(r, action) ==
  /\ action \in Ops
  /\ tab[r].pc = "idle"
  /\ item.version < MaxVersion
  /\ Admits(r, action)

\* As if saving a draft kept the version.
EditedUnversioned(d) == [item EXCEPT !.final_draft = d]

EditedItem(d) == [item EXCEPT !.final_draft = d, !.version = @ + 1]

update_draft(r, d) ==
  /\ Requested(r, "EDIT_DRAFT")
  /\ item' = EditedItem(d)
  /\ UNCHANGED <<jobs, runs, keys, queue, tab, wk, emails, approvals>>

reject_work_item(r) ==
  /\ Requested(r, "REJECT")
  /\ item' = Moved(item, "REJECTED")
  /\ UNCHANGED <<jobs, runs, keys, queue, tab, wk, emails, approvals>>

reopen_work_item(r) ==
  /\ Requested(r, "REOPEN")
  /\ item' = Moved(item, "PENDING_REVIEW")
  /\ UNCHANGED <<jobs, runs, keys, queue, tab, wk, emails, approvals>>

-----------------------------------------------------------------------------
(* Approval: the key lookup precedes the row lock, so it is a step of its  *)
(* own; a hit replays the current detail or answers 409, writing nothing.  *)

_get_idempotency_key(k) == keys[k] # 0

ApproveLookup(r, k) ==
  /\ "APPROVE" \in Ops
  /\ tab[r].pc = "idle"
  /\ tab[r].version > 0
  /\ item.version < MaxVersion
  /\ ~_get_idempotency_key(k)
  /\ tab' = [tab EXCEPT ![r] = InRequest(@, "approve", k, 0, 0)]
  /\ UNCHANGED <<dbVars, queue, wk, emails, approvals>>

\* The active-job check of _create_processing_job passes.
NoActiveJob == ActiveJobs = {}

\* uq_idempotency_keys_user_endpoint_key admits a row for key k.
KeyIsNew(k) == keys[k] = 0

\* The checks under the row lock, the active-job check and the unique constraint.
ApprovalAdmitted(r) ==
  /\ Admits(r, "APPROVE")
  /\ NoActiveJob
  /\ KeyIsNew(tab[r].key)

\* As if the row of the idempotency key were never added.
KeyNotStored(k, v) == UNCHANGED keys

StoreKey(k, v) == keys' = [keys EXCEPT ![k] = v]

ApprovedSnapshot(row) == row.final_draft

CreateJob(js, j, k) == [js EXCEPT ![j] = QueuedRow(k)]

ApproveCommit(r) ==
  /\ tab[r].pc = "approve"
  /\ ApprovalAdmitted(r)
  /\ \E j \in NextJob :
       /\ jobs' = CreateJob(jobs, j, tab[r].key)
       /\ tab' = [tab EXCEPT ![r] = Publishing(@, j)]
  /\ item' = [Moved(item, "PROCESSING") EXCEPT !.snapshot = ApprovedSnapshot(item)]
  /\ StoreKey(tab[r].key, tab[r].version)
  /\ approvals' = approvals \cup {[draft |-> ApprovedSnapshot(item), shown |-> tab[r].draft]}
  /\ UNCHANGED <<runs, queue, wk, emails>>

\* A 409: a check failed, or the commit raised IntegrityError and rolled back.
ApproveRefused(r) ==
  /\ tab[r].pc = "approve"
  /\ ~ApprovalAdmitted(r)
  /\ tab' = [tab EXCEPT ![r] = Idle(@)]
  /\ UNCHANGED <<dbVars, queue, wk, emails, approvals>>

-----------------------------------------------------------------------------
(* Retry processing, in one transaction. *)

\* As if the stale check were missing.
AnyJobRecoverable == \A j \in ActiveJobs : item.status = "PROCESSING"

\* FAILED items need no active job at all, PROCESSING items none that is fresh.
Recoverable == \A j \in ActiveJobs : item.status = "PROCESSING" /\ jobs[j].age = "stale"

StaleJobsFailed ==
  [j \in JobIds |-> IF j \in ActiveJobs THEN [jobs[j] EXCEPT !.status = "FAILED"] ELSE jobs[j]]

\* As if retry took the live draft, as approval does.
RetryLiveDraft(row) == row.final_draft

RetrySnapshot(row) == IF row.snapshot = NoDraft THEN row.final_draft ELSE row.snapshot

retry_processing(r) ==
  /\ Requested(r, "RETRY_PROCESSING")
  /\ Recoverable
  /\ \E j \in NextJob :
       /\ jobs' = CreateJob(StaleJobsFailed, j, NoKey)
       /\ tab' = [tab EXCEPT ![r] = Publishing(@, j)]
  /\ item' = [Moved(item, "PROCESSING") EXCEPT !.snapshot = RetrySnapshot(item)]
  /\ UNCHANGED <<runs, keys, queue, wk, emails, approvals>>

-----------------------------------------------------------------------------
(* Publishing the job after the commit of an approval or a retry. *)

EnqueueOk(r) ==
  /\ tab[r].pc = "enqueue"
  /\ Publish(tab[r].job, 0)
  /\ tab' = [tab EXCEPT ![r] = Idle(@)]
  /\ UNCHANGED <<dbVars, wk, emails, approvals>>

EnqueueRaises(r) ==
  /\ tab[r].pc = "enqueue"
  /\ \/ "enqueue_fails" \in Faults /\ UNCHANGED queue
     \/ "ambiguous_enqueue" \in Faults /\ Publish(tab[r].job, 0)
  /\ tab' = [tab EXCEPT ![r].pc = "mark_failed"]
  /\ UNCHANGED <<dbVars, wk, emails, approvals>>

\* As if the failure handler only recorded the job's failure.
JobFailureOnly(r) == item

\* The request's session still holds the item as its own commit left it:
\* PROCESSING, at the version after the one its tab sent.  The handler locks the
\* row without reloading it (expire_on_commit=False, no populate_existing), so
\* the status test passes and both columns are written from memory.
EnqueueFailedItem(r) == [item EXCEPT !.status = "FAILED", !.version = tab[r].version + 2]

mark_processing_enqueue_failed(r) ==
  /\ tab[r].pc = "mark_failed"
  /\ jobs' = [jobs EXCEPT ![tab[r].job].status = "FAILED"]
  /\ item' = EnqueueFailedItem(r)
  /\ tab' = [tab EXCEPT ![r] = Idle(@)]
  /\ UNCHANGED <<runs, keys, queue, wk, emails, approvals>>

\* The API process stops inside a request; what it committed stays.
ApiCrash(r) ==
  /\ "api_crash" \in Faults
  /\ tab[r].pc # "idle"
  /\ tab' = [tab EXCEPT ![r] = Idle(@)]
  /\ UNCHANGED <<dbVars, queue, wk, emails, approvals>>

=============================================================================
