------------------------------ MODULE RowLocks ------------------------------
(***************************************************************************)
(* The transactions of ReviewApi and ApprovalWorker, one row lock at a     *)
(* time.  Requests lock the item (access.py) and, to retry, its active     *)
(* job; tasks and the enqueue-failure handler lock a job and then its      *)
(* item; approval and retry also read the active jobs without a lock.      *)
(* PostgreSQL ends a deadlock by aborting one of its transactions.  Only   *)
(* what locks protect is kept: the statuses, and what was read of them.    *)
(***************************************************************************)
EXTENDS Naturals, FiniteSets, StateMachine

CONSTANTS
  Tabs,      \* browser tabs, each with one request at a time
  Workers,   \* Celery worker processes
  Nobody,    \* holder of a free lock
  MaxJobs    \* bound: jobs created

ASSUME RowLocksAssumption == MaxJobs \in Nat /\ Nobody \notin Tabs \cup Workers

VARIABLES
  item,   \* the item's status
  job,    \* each job's status and whether the stale threshold has passed
  queue,  \* jobs with a message in Redis
  lock,   \* the transaction that holds each row's lock
  act     \* what each tab and worker is doing, and what it has read

rows == <<item, job>>
vars == <<item, job, queue, lock, act>>

-----------------------------------------------------------------------------
Item == 0
JobIds == 1..MaxJobs
Rows == {Item} \cup JobIds
Actors == Tabs \cup Workers

\* reject stands for the requests that lock the item alone: edit, reopen, both
\* transactions of regenerate.
ItemFirst == {"reject", "approve", "retry"}
JobFirst == {"attempt", "complete", "error", "mark_failed", "task_id"}
BothRows == {"retry", "attempt", "complete", "error", "mark_failed"}
ReadsJobs == {"approve", "retry"}
Transactions == ItemFirst \cup JobFirst

\* op: a transaction, or the code between two ("publishing", "sending").
\* pc: the row it locks next ("item", "job"), the unlocked read of the jobs, the
\* commit.  item, status, jobs: what it read of the item, its job, the active jobs.
Activity ==
  [op: Transactions \cup {"none", "publishing", "sending"},
   pc: {"idle", "item", "job", "jobs", "commit"}, job: Rows,
   item: WorkItemStatus \cup {"NONE"}, status: BackgroundJobStatus \cup {"NONE"},
   jobs: SUBSET JobIds]

Doing(op, pc, j) ==
  [op |-> op, pc |-> pc, job |-> j, item |-> "NONE", status |-> "NONE", jobs |-> {}]
Idle == Doing("none", "idle", 0)

NoJob == [status |-> "NONE", stale |-> FALSE]
NewJob == [status |-> "QUEUED", stale |-> FALSE]

TypeOK ==
  /\ item \in WorkItemStatus
  /\ job \in [JobIds -> [status: BackgroundJobStatus \cup {"NONE"}, stale: BOOLEAN]]
  /\ queue \subseteq JobIds
  /\ lock \in [Rows -> Actors \cup {Nobody}]
  /\ act \in [Actors -> Activity]

ActiveJobs == {j \in JobIds : job[j].status \in {"QUEUED", "RUNNING"}}
NextJob == {j \in JobIds : job[j] = NoJob /\ \A i \in 1..(j - 1) : job[i] # NoJob}

Init ==
  /\ item = "PENDING_REVIEW"
  /\ job = [j \in JobIds |-> NoJob]
  /\ queue = {}
  /\ lock = [r \in Rows |-> Nobody]
  /\ act = [a \in Actors |-> Idle]

-----------------------------------------------------------------------------
(* Taking the locks, in the order of the code. *)

\* As if the enqueue-failure handler locked the item first, as requests do.
HandlerItemFirst(op) == IF op \in ItemFirst \cup {"mark_failed"} THEN "item" ELSE "job"

First(op) == IF op \in ItemFirst THEN "item" ELSE "job"
Second(op) == IF First(op) = "item" THEN "job" ELSE "item"

\* As if recording an error locked the job only.
ErrorLocksJobOnly(op, got) ==
  IF op \in BothRows \ {"error"} /\ got = First(op) THEN Second(op)
  ELSE IF op \in ReadsJobs THEN "jobs" ELSE "commit"

\* What follows once op has got its lock on the item or the job.
Then(op, got) ==
  IF op \in BothRows /\ got = First(op) THEN Second(op)
  ELSE IF op \in ReadsJobs THEN "jobs" ELSE "commit"

Begins(a, op, j) == act' = [act EXCEPT ![a] = Doing(op, First(op), j)]

\* Only a PROCESSING item makes a retry look for its active job.
LockItem(a) ==
  /\ act[a].pc = "item"
  /\ lock[Item] = Nobody
  /\ lock' = [lock EXCEPT ![Item] = a]
  /\ act' = [act EXCEPT ![a].item = item,
                        ![a].pc = IF act[a].op = "retry" /\ item # "PROCESSING" THEN "jobs"
                                  ELSE Then(act[a].op, "item")]
  /\ UNCHANGED <<rows, queue>>

\* The jobs whose lock a asks for: a retry finds the active one.
Targets(a) == IF act[a].op = "retry" THEN ActiveJobs ELSE {act[a].job}

\* An attempt at a COMPLETED job ends before it looks at the item.
LockJob(a) ==
  /\ act[a].pc = "job"
  /\ \E j \in Targets(a) :
       /\ lock[j] = Nobody
       /\ lock' = [lock EXCEPT ![j] = a]
       /\ act' = [act EXCEPT ![a].job = j, ![a].status = job[j].status,
                             ![a].pc = IF act[a].op = "attempt" /\ job[j].status = "COMPLETED"
                                       THEN "commit" ELSE Then(act[a].op, "job")]
  /\ UNCHANGED <<rows, queue>>

ReadActiveJobs(a) ==
  /\ act[a].pc = "jobs"
  /\ act' = [act EXCEPT ![a].jobs = ActiveJobs, ![a].pc = "commit"]
  /\ UNCHANGED <<rows, queue, lock>>

-----------------------------------------------------------------------------
(* The end of a transaction: its writes, from what it has read. *)

\* As if a session kept its job locks.
ReleaseItem(a) == lock' = [lock EXCEPT ![Item] = IF @ = a THEN Nobody ELSE @]

Release(a) == lock' = [r \in Rows |-> IF lock[r] = a THEN Nobody ELSE lock[r]]

\* a ends its transaction and goes on as next.
Ends(a, next) == Release(a) /\ act' = [act EXCEPT ![a] = next]
Committing(a, op) == act[a].op = op /\ act[a].pc = "commit"
Sets(j, status) == job' = [job EXCEPT ![j].status = status]

\* _mark_job_failed, for the item status the transaction read.
FailsItem(a) == item' = IF act[a].item = "PROCESSING" THEN "FAILED" ELSE item

\* As if the partial unique index did not exist.
NoIndex(j) == TRUE

\* The partial unique index lets j become active.
IndexAdmits(j) == ActiveJobs \subseteq {j}

Admitted(a) ==
  CASE act[a].op = "reject"  -> act[a].item \in {"PENDING_REVIEW", "FAILED"}
    [] act[a].op = "approve" -> act[a].item \in {"PENDING_REVIEW", "FAILED"} /\ act[a].jobs = {}
    [] act[a].op = "retry"   ->
         /\ act[a].item \in {"FAILED", "PROCESSING"}
         /\ act[a].jobs \subseteq {act[a].job}
         /\ \A j \in act[a].jobs : job[j].stale

Refuse(a) ==
  /\ act[a].op \in ItemFirst /\ act[a].pc = "commit"
  /\ ~Admitted(a)
  /\ Ends(a, Idle)
  /\ UNCHANGED <<rows, queue>>

CommitReject(a) ==
  /\ Committing(a, "reject")
  /\ Admitted(a)
  /\ item' = "REJECTED"
  /\ Ends(a, Idle)
  /\ UNCHANGED <<job, queue>>

\* Approval and retry create a job; a retry fails the stale one it has locked.
CommitJob(a) ==
  /\ Committing(a, "approve") \/ Committing(a, "retry")
  /\ Admitted(a)
  /\ \E n \in NextJob :
       /\ job' = [j \in JobIds |->
                    IF j = n THEN NewJob
                    ELSE IF j \in act[a].jobs THEN [job[j] EXCEPT !.status = "FAILED"]
                    ELSE job[j]]
       /\ Ends(a, Doing("publishing", "idle", n))
  /\ item' = "PROCESSING"
  /\ UNCHANGED queue

\* The handler writes the item it has in memory, where it is PROCESSING.
CommitMarkFailed(a) ==
  /\ Committing(a, "mark_failed")
  /\ Sets(act[a].job, "FAILED")
  /\ item' = "FAILED"
  /\ Ends(a, Idle)
  /\ UNCHANGED queue

\* celery_task_id decides nothing.
CommitTaskId(a) ==
  /\ Committing(a, "task_id")
  /\ Ends(a, Idle)
  /\ UNCHANGED <<rows, queue>>

-----------------------------------------------------------------------------
(* The transactions of a task. *)

\* The task ends without a write: the job is COMPLETED, or its commit is refused.
EndsTask(w) == Ends(w, Idle) /\ UNCHANGED <<rows, queue>>

CommitAttempt(w) ==
  /\ Committing(w, "attempt")
  /\ \/ act[w].status = "COMPLETED" /\ EndsTask(w)
     \/ /\ act[w].item = "SENT"
        /\ Sets(act[w].job, "COMPLETED")
        /\ Ends(w, Idle)
        /\ UNCHANGED <<item, queue>>
     \/ \* an item that is not PROCESSING, or attempts exceeded
        /\ act[w].item \notin {"NONE", "SENT"}
        /\ Sets(act[w].job, "FAILED")
        /\ FailsItem(w)
        /\ Ends(w, Idle)
        /\ UNCHANGED queue
     \/ /\ act[w].item = "PROCESSING"
        /\ IndexAdmits(act[w].job)
        /\ Sets(act[w].job, "RUNNING")
        /\ Ends(w, Doing("sending", "idle", act[w].job))
        /\ UNCHANGED <<item, queue>>
     \/ /\ act[w].item = "PROCESSING"
        /\ ~IndexAdmits(act[w].job)
        /\ EndsTask(w)

CommitComplete(w) ==
  /\ Committing(w, "complete")
  /\ \/ act[w].item = "PROCESSING" /\ item' = "SENT" /\ Sets(act[w].job, "COMPLETED")
     \/ act[w].item = "SENT" /\ Sets(act[w].job, "COMPLETED") /\ UNCHANGED item
     \/ /\ act[w].item \notin {"PROCESSING", "SENT"}
        /\ Sets(act[w].job, "FAILED")
        /\ UNCHANGED item
  /\ Ends(w, Idle)
  /\ UNCHANGED queue

\* The last attempt fails the job; an earlier one asks Celery for a retry.
CommitError(w) ==
  /\ Committing(w, "error")
  /\ \/ /\ Sets(act[w].job, "FAILED")
        /\ FailsItem(w)
        /\ Ends(w, Idle)
        /\ UNCHANGED queue
     \/ /\ IndexAdmits(act[w].job)
        /\ Sets(act[w].job, "QUEUED")
        /\ Ends(w, Idle)
        /\ queue' = queue \cup {act[w].job}
        /\ UNCHANGED item
     \/ ~IndexAdmits(act[w].job) /\ EndsTask(w)

-----------------------------------------------------------------------------
(* Between transactions. *)

\* Bound: no more approvals and retries at a time than jobs are left to create.
MayCreate ==
  Cardinality({r \in Tabs : act[r].op \in ReadsJobs}) < Cardinality({j \in JobIds : job[j] = NoJob})

Request(r) ==
  /\ act[r] = Idle
  /\ \E op \in ItemFirst : (op \in ReadsJobs => MayCreate) /\ Begins(r, op, 0)
  /\ UNCHANGED <<rows, queue, lock>>

\* A publish that raises may have stored the message all the same.
PublishJob(r) ==
  /\ act[r].op = "publishing"
  /\ \/ queue' = queue \cup {act[r].job} /\ Begins(r, "task_id", act[r].job)
     \/ queue' \in {queue, queue \cup {act[r].job}} /\ Begins(r, "mark_failed", act[r].job)
  /\ UNCHANGED <<rows, lock>>

Receive(w) ==
  /\ act[w] = Idle
  /\ \E j \in queue :
       /\ queue' = queue \ {j}
       /\ Begins(w, "attempt", j)
  /\ UNCHANGED <<rows, lock>>

SideEffects(w) ==
  /\ act[w].op = "sending"
  /\ \E op \in {"complete", "error"} : Begins(w, op, act[w].job)
  /\ UNCHANGED <<rows, queue, lock>>

\* The stale threshold passes, however far the job's worker is.
Age(j) ==
  /\ j \in ActiveJobs
  /\ ~job[j].stale
  /\ job' = [job EXCEPT ![j].stale = TRUE]
  /\ UNCHANGED <<item, queue, lock, act>>

-----------------------------------------------------------------------------
(* PostgreSQL's deadlock detector. *)

Waits(a, b) ==
  /\ a # b
  /\ \/ act[a].pc = "item" /\ lock[Item] = b
     \/ act[a].pc = "job" /\ \E j \in Targets(a) : lock[j] = b

\* Whoever waits for a job's holder is itself the item's holder or holds nothing,
\* so a cycle has two members; a longer one would never end.
Deadlock(a, b) == Waits(a, b) /\ Waits(b, a)

\* The victim's request answers 500, or its task ends with an error that Celery
\* does not retry; nothing it wrote remains.
Abort(a) ==
  /\ \E b \in Actors : Deadlock(a, b)
  /\ Ends(a, Idle)
  /\ UNCHANGED <<rows, queue>>

-----------------------------------------------------------------------------
Proceed(a) ==
  \/ ReadActiveJobs(a)
  \/ Refuse(a) \/ CommitReject(a) \/ CommitJob(a) \/ CommitMarkFailed(a) \/ CommitTaskId(a)
  \/ CommitAttempt(a) \/ CommitComplete(a) \/ CommitError(a)

Next ==
  \/ \E a \in Actors : LockItem(a) \/ LockJob(a) \/ Proceed(a) \/ Abort(a)
  \/ \E r \in Tabs : Request(r) \/ PublishJob(r)
  \/ \E w \in Workers : Receive(w) \/ SideEffects(w)
  \/ \E j \in JobIds : Age(j)

Spec == Init /\ [][Next]_vars

\* A transaction that has its locks goes on, PostgreSQL grants a row to those who
\* queue for it in turn, and its detector runs.
FairSpec ==
  /\ Spec
  /\ \A a \in Actors : SF_vars(LockItem(a) \/ LockJob(a)) /\ WF_vars(Proceed(a))
  /\ WF_vars(\E a \in Actors : Abort(a))

-----------------------------------------------------------------------------
\* What a transaction has read is still so when it commits, although approval and
\* retry read the active jobs without a lock: whoever changes a job's status holds
\* the item too.  This is why Workbench may take each transaction as one step.
ReadsCurrent ==
  \A a \in Actors : act[a].pc = "commit" =>
    /\ act[a].item \in {"NONE", item}
    /\ act[a].op \in JobFirst => act[a].status = job[act[a].job].status
    /\ act[a].op \in ReadsJobs => act[a].jobs = ActiveJobs

\* At most one job is active.  Approval and retry insert theirs on the strength of
\* an unlocked read; only a late message or error of a withdrawn job meets the index.
OneActiveJob == \A i, j \in ActiveJobs : i = j

\* Only a retry deadlocks with anything: every other pair of transactions takes
\* its locks in compatible orders.
DeadlockNeedsRetry ==
  \A a, b \in Actors : Deadlock(a, b) => "retry" \in {act[a].op, act[b].op}

\* Every transaction ends, by a commit, a refusal or the deadlock detector.
TransactionsEnd ==
  \A a \in Actors : act[a].op \in Transactions ~> act[a].op \notin Transactions

=============================================================================
