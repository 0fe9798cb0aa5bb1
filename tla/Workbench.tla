------------------------------ MODULE Workbench -----------------------------
(***************************************************************************)
(* The system: reviewers' requests, workers and the environment (time, the *)
(* broker's losses) interleaved over the shared store, and the properties  *)
(* it is meant to have.                                                    *)
(***************************************************************************)
EXTENDS Regeneration, ApprovalWorker

\* The stale threshold passes for job j.  While somebody still acts for j this
\* takes a slow worker, request or queue; otherwise only time.
Age(j) ==
  /\ jobs[j].status \notin {"NONE", "COMPLETED"}
  /\ jobs[j].age = "fresh"
  /\ \/ "slow_worker" \in Faults /\ (HasWorker(j) \/ BeingEnqueued(j))
     \/ "slow_queue" \in Faults /\ HasMessage(j) /\ ~HasWorker(j) /\ ~BeingEnqueued(j)
     \/ j \in ActiveJobs /\ ~InFlight(j)
  /\ jobs' = [jobs EXCEPT ![j].age = "stale"]
  /\ UNCHANGED <<item, runs, keys, queue, tab, wk, emails, approvals>>

LoseMessage(j, n) ==
  /\ "message_lost" \in Faults
  /\ Consume(j, n)
  /\ UNCHANGED <<dbVars, tab, wk, emails, approvals>>

-----------------------------------------------------------------------------
\* Steps a request takes once it has started.
ApiStep(r) ==
  \/ ApproveCommit(r) \/ ApproveRefused(r)
  \/ EnqueueOk(r) \/ EnqueueRaises(r) \/ mark_processing_enqueue_failed(r)
  \/ RegenerateSave(r) \/ RegenerateDiscarded(r) \/ mark_regeneration_failed(r)

ReviewerStep(r) ==
  \/ Open(r)
  \/ \E d \in Drafts : update_draft(r, d)
  \/ reject_work_item(r) \/ reopen_work_item(r)
  \/ \E k \in Keys : ApproveLookup(r, k)
  \/ retry_processing(r)
  \/ RegenerateStart(r)

ReceiveJob(j) == \E w \in Workers, n \in 0..CeleryMaxRetries : Receive(w, j, n)

TaskStep(w) == SideEffects(w) \/ RecordError(w) \/ CompleteProcessing(w)

Failure ==
  \/ \E r \in Reviewers : ApiCrash(r)
  \/ \E w \in Workers : WorkerDies(w)
  \/ \E j \in JobIds, n \in 0..CeleryMaxRetries : LoseMessage(j, n)

Next ==
  \/ \E r \in Reviewers : ReviewerStep(r) \/ ApiStep(r)
  \/ \E j \in JobIds : ReceiveJob(j) \/ Age(j)
  \/ \E w \in Workers : TaskStep(w)
  \/ Failure

Spec == Init /\ [][Next]_vars

\* Processes that run go on running: a request handler resumes, a free worker
\* takes the next message, a task proceeds.  Reviewers and failures owe nothing.
FairSpec ==
  /\ Spec
  /\ \A r \in Reviewers : WF_vars(ApiStep(r))
  /\ \A j \in JobIds : WF_vars(ReceiveJob(j))
  /\ \A w \in Workers : WF_vars(TaskStep(w))

-----------------------------------------------------------------------------
(* Safety, under every failure. *)

\* A PROCESSING item has an active job, so the missing-job branch of retry never
\* runs and no interleaving strands an item that nothing is scheduled for.
ProcessingHasActiveJob == item.status = "PROCESSING" => ActiveJobs # {}

\* Every email carries a draft that some reviewer approved: no edit,
\* regeneration or retry that races a worker puts other text into an email.
EmailBodyApproved == \A e \in emails : \E a \in approvals : a.draft = e.body

\* A task that asks for a retry always has one left: background_jobs.max_attempts
\* runs out before Celery's own max_retries, which would leave the job QUEUED.
RetryBudgetSuffices ==
  \A w \in Workers :
    wk[w].pc = "error" /\ ~LastAttempt(wk[w].job) => wk[w].retries < CeleryMaxRetries

\* A resubmitted approval creates no second job, whatever happened in between.
OneJobPerKey ==
  \A i, j \in JobIds : jobs[i].key # NoKey /\ jobs[i].key = jobs[j].key => i = j

-----------------------------------------------------------------------------
(* Safety, as long as a failed publish published nothing, no message is     *)
(* duplicated and the stale threshold outlasts an attempt and its queueing. *)

\* A worker that holds a draft in memory is alone, its job is the RUNNING one at
\* that attempt, and the item is still PROCESSING the same snapshot: nothing a
\* reviewer does meanwhile withdraws the approval it is about to send.
AttemptOwnsItem ==
  \A w \in Workers : Busy(w) =>
    /\ item.status = "PROCESSING"
    /\ wk[w].body = item.snapshot
    /\ jobs[wk[w].job].status = "RUNNING"
    /\ wk[w].attempt = jobs[wk[w].job].attempts
    /\ \A v \in Workers : Busy(v) => v = w

\* An item that is not PROCESSING has no active job, so a FAILED item can be
\* retried or approved again and never meets 409 ACTIVE_PROCESSING_JOB.
SettledItemHasNoActiveJob == item.status # "PROCESSING" => ActiveJobs = {}

\* A SENT item's approved_draft_snapshot is what some email carried.
SentMatchesSnapshot == item.status = "SENT" => \E e \in emails : e.body = item.snapshot

\* last_seen_version does its work: what a reviewer approves is the draft shown.
ApprovedAsShown == \A a \in approvals : a.draft = a.shown

\* A provider call in flight owns the REGENERATING status; no other call is in
\* flight, so its result cannot land on a newer state of the item.
RegenerationExclusive ==
  \A r \in Reviewers : tab[r].pc = "provider" =>
    /\ item.status = "REGENERATING"
    /\ runs[tab[r].run] = "STARTED"
    /\ \A s \in Reviewers : tab[s].pc = "provider" => s = r

\* At most one email is ever sent for the item, however long its messages wait in
\* the queue, as long as no attempt fails or dies: neither resubmitted approvals
\* nor retries that give up on a slow job lead to a second one.
AtMostOneEmail == Cardinality(emails) <= 1

\* Every email uses up one of its job's max_attempts: no attempt sends twice, not
\* even when duplicated messages put two workers on one job, so a job that fails
\* after its email (CRM error, lost worker) repeats it a bounded number of times.
EmailsCounted ==
  /\ \A e \in emails : e.attempt \in 1..MaxAttempts /\ e.attempt <= jobs[e.job].attempts
  /\ \A w \in Workers : wk[w].pc = "side_effects" =>
       /\ \A e \in emails : e.job = wk[w].job => e.attempt # wk[w].attempt
       /\ \A v \in Workers \ {w} :
            Busy(v) /\ wk[v].job = wk[w].job => wk[v].attempt # wk[w].attempt

\* Status changes follow VALID_TRANSITIONS.
TransitionsValid ==
  [][item'.status # item.status => can_transition(item.status, item'.status)]_vars

\* Every change of the item raises its version, so no version is ever reused
\* for another content.
VersionAdvances == [][item' # item => item'.version > item.version]_vars

\* What a reviewer is promised (ItemLifecycle), read off the rows and the emails
\* sent: requests, jobs, messages, crashes and retries are all invisible in it.
Lifecycle ==
  INSTANCE ItemLifecycle WITH status <- item.status, draft <- item.final_draft,
    approved <- item.snapshot, reviewed <- {a.draft : a \in approvals},
    emailed <- {e.body : e \in emails}

\* The review API, the queue and the workers implement that promise: every step
\* is a step of the lifecycle or changes nothing a reviewer is promised.
ImplementsLifecycle == Lifecycle!Spec

-----------------------------------------------------------------------------
(* Liveness, while processes stay up and the broker keeps its messages. *)

\* A job that asked for a retry whose publish raised: QUEUED, and nobody acts for it.
RetryLost == \E j \in JobIds : jobs[j].status = "QUEUED" /\ jobs[j].attempts > 0 /\ ~InFlight(j)

\* An approved item does not stay PROCESSING: it is sent or fails, unless Celery
\* could not publish a retry, which nothing but a reviewer's retry makes good.
ProcessingSettles ==
  item.status = "PROCESSING" ~> item.status # "PROCESSING" \/ RetryLost

\* A regeneration ends.
RegenerationEnds == item.status = "REGENERATING" ~> item.status # "REGENERATING"

=============================================================================
