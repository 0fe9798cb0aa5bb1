-------------------------- MODULE WorkbenchProofs ---------------------------
(***************************************************************************)
(* Proofs of the workbench's safety properties, for every value of the     *)
(* constants, hence under every combination of failures.                   *)
(***************************************************************************)
EXTENDS Workbench, TLAPS

USE DEF dbVars, vars

\* Every step keeps the shared state and the actors' memories well typed.
LEMMA TypeInit == Init => TypeOK
<1>1. SUFFICES ASSUME Init PROVE TypeOK
  OBVIOUS
<1>2. PICK s \in SeedStatuses, d \in Drafts :
        /\ item = SeedItem(s, d)
        /\ jobs = [j \in JobIds |-> IF j = 1 THEN SeedJob(s) ELSE NoRow]
        /\ approvals = IF s = "FAILED" THEN {[draft |-> d, shown |-> d]} ELSE {}
  BY <1>1 DEF Init
<1>3. item \in ItemRow
  BY <1>2, StoreAssumption DEF SeedItem, ItemRow, WorkItemStatus
<1>4. jobs \in [JobIds -> JobRow \cup {NoRow}]
  <2>1. SeedJob(s) \in JobRow \cup {NoRow}
    BY DEF SeedJob, NoRow, JobRow, BackgroundJobStatus
  <2>2. QED
    BY <1>2, <2>1
<1>5. approvals \subseteq [draft: Drafts, shown: Drafts \cup {NoDraft}]
  BY <1>2
<1>6. tab \in [Reviewers -> TabState]
  BY <1>1 DEF Init, Showing, TabState
<1>7. wk \in [Workers -> BusyWorker \cup {IdleWorker}]
  BY <1>1 DEF Init
<1>8. QED
  BY <1>1, <1>3, <1>4, <1>5, <1>6, <1>7 DEF Init, TypeOK

-----------------------------------------------------------------------------
(* The rows and pages the steps write, field by field. *)

\* Moved sets the status, raises the version and keeps the two drafts.
LEMMA MovedRow ==
  ASSUME NEW row \in ItemRow, NEW s \in WorkItemStatus
  PROVE  /\ Moved(row, s) = [status |-> s, version |-> row.version + 1,
                             final_draft |-> row.final_draft, snapshot |-> row.snapshot]
         /\ Moved(row, s) \in ItemRow
<1>1. [row EXCEPT !.status = s] =
        [status |-> s, version |-> row.version,
         final_draft |-> row.final_draft, snapshot |-> row.snapshot]
  BY DEF ItemRow
<1>2. Moved(row, s) = [[row EXCEPT !.status = s] EXCEPT !.version = row.version + 1]
  BY DEF Moved
<1>3. Moved(row, s) = [status |-> s, version |-> row.version + 1,
                       final_draft |-> row.final_draft, snapshot |-> row.snapshot]
  BY <1>1, <1>2
<1>4. QED
  BY <1>3 DEF ItemRow

\* A saved draft replaces the live one and raises the version.
LEMMA EditedRow ==
  ASSUME TypeOK, NEW d \in Drafts
  PROVE  /\ EditedItem(d) = [status |-> item.status, version |-> item.version + 1,
                             final_draft |-> d, snapshot |-> item.snapshot]
         /\ EditedItem(d) \in ItemRow
<1>1. [item EXCEPT !.final_draft = d] =
        [status |-> item.status, version |-> item.version,
         final_draft |-> d, snapshot |-> item.snapshot]
  BY DEF TypeOK, ItemRow
<1>2. EditedItem(d) = [[item EXCEPT !.final_draft = d] EXCEPT !.version = item.version + 1]
  BY DEF EditedItem
<1>3. EditedItem(d) = [status |-> item.status, version |-> item.version + 1,
                       final_draft |-> d, snapshot |-> item.snapshot]
  BY <1>1, <1>2
<1>4. QED
  BY <1>3 DEF TypeOK, ItemRow

\* The failure handler writes FAILED and a version, and keeps the two drafts.
LEMMA EnqueueFailedRow ==
  ASSUME TypeOK, NEW r \in Reviewers
  PROVE  /\ EnqueueFailedItem(r) = [status |-> "FAILED", version |-> tab[r].version + 2,
                                    final_draft |-> item.final_draft, snapshot |-> item.snapshot]
         /\ EnqueueFailedItem(r) \in ItemRow
<1>1. [item EXCEPT !.status = "FAILED"] =
        [status |-> "FAILED", version |-> item.version,
         final_draft |-> item.final_draft, snapshot |-> item.snapshot]
  BY DEF TypeOK, ItemRow
<1>2. EnqueueFailedItem(r) = [[item EXCEPT !.status = "FAILED"] EXCEPT !.version = tab[r].version + 2]
  BY DEF EnqueueFailedItem
<1>3. tab[r].version \in Nat
  BY DEF TypeOK, TabState
<1>4. EnqueueFailedItem(r) = [status |-> "FAILED", version |-> tab[r].version + 2,
                              final_draft |-> item.final_draft, snapshot |-> item.snapshot]
  BY <1>1, <1>2
<1>5. QED
  BY <1>3, <1>4 DEF TypeOK, ItemRow, WorkItemStatus

\* A new job is QUEUED, fresh and unattempted.
LEMMA QueuedJobRow ==
  ASSUME NEW k \in Keys \cup {NoKey}
  PROVE  /\ QueuedRow(k) = [status |-> "QUEUED", attempts |-> 0, age |-> "fresh", key |-> k]
         /\ QueuedRow(k) \in JobRow
<1>1. [NoRow EXCEPT !.status = "QUEUED"] =
        [status |-> "QUEUED", attempts |-> 0, age |-> "fresh", key |-> NoKey]
  BY DEF NoRow
<1>2. QueuedRow(k) = [[NoRow EXCEPT !.status = "QUEUED"] EXCEPT !.key = k]
  BY DEF QueuedRow
<1>3. QueuedRow(k) = [status |-> "QUEUED", attempts |-> 0, age |-> "fresh", key |-> k]
  BY <1>1, <1>2
<1>4. QED
  BY <1>3 DEF JobRow, BackgroundJobStatus

\* An attempt marks its job RUNNING, counts itself and never makes it stale.
LEMMA StartedJobRow ==
  ASSUME TypeOK, NEW j \in JobIds
  PROVE  /\ StartedRow(j) \in JobRow
         /\ StartedRow(j).status = "RUNNING"
         /\ StartedRow(j).attempts = jobs[j].attempts + 1
         /\ StartedRow(j).age = IF jobs[j].attempts = 0 THEN "fresh" ELSE jobs[j].age
         /\ StartedRow(j).key = jobs[j].key
<1>1. jobs[j] \in [status: BackgroundJobStatus \cup {"NONE"}, attempts: Nat,
                   age: {"fresh", "stale"}, key: Keys \cup {NoKey}]
  BY DEF TypeOK, JobRow, NoRow
<1> DEFINE age == IF jobs[j].attempts = 0 THEN "fresh" ELSE jobs[j].age
<1>2. age \in {"fresh", "stale"}
  BY <1>1
<1> DEFINE running == [jobs[j] EXCEPT !.status = "RUNNING"]
           counted == [running EXCEPT !.attempts = jobs[j].attempts + 1]
<1>3. StartedRow(j) = [counted EXCEPT !.age = age]
  BY DEF StartedRow
<1>4. running = [status |-> "RUNNING", attempts |-> jobs[j].attempts, age |-> jobs[j].age,
                 key |-> jobs[j].key]
  BY <1>1
<1> HIDE DEF age, running
<1>5. counted = [status |-> "RUNNING", attempts |-> jobs[j].attempts + 1, age |-> jobs[j].age,
                 key |-> jobs[j].key]
  BY <1>4
<1> HIDE DEF counted
<1>6. StartedRow(j) = [status |-> "RUNNING", attempts |-> jobs[j].attempts + 1, age |-> age,
                       key |-> jobs[j].key]
  BY <1>3, <1>5
<1>7. QED
  BY <1>1, <1>2, <1>6 DEF JobRow, BackgroundJobStatus, age

\* An attempt over the limit is counted too and fails its job.
LEMMA ExceededJobRow ==
  ASSUME TypeOK, NEW j \in JobIds
  PROVE  /\ ExceededRow(j) \in JobRow
         /\ ExceededRow(j).status = "FAILED"
         /\ ExceededRow(j).attempts = jobs[j].attempts + 1
         /\ ExceededRow(j).key = jobs[j].key
<1> DEFINE failed == [jobs[j] EXCEPT !.status = "FAILED"]
<1>1. jobs[j].attempts \in Nat
  BY DEF TypeOK, JobRow, NoRow
<1>2. failed \in JobRow /\ failed.status = "FAILED" /\ failed.key = jobs[j].key
  BY DEF TypeOK, JobRow, NoRow, BackgroundJobStatus
<1>3. ExceededRow(j) = [failed EXCEPT !.attempts = jobs[j].attempts + 1]
  BY DEF ExceededRow
<1> HIDE DEF failed
<1>4. QED
  BY <1>1, <1>2, <1>3 DEF JobRow

\* Publishing and consuming messages keep the queue's type.
LEMMA QueueTypes ==
  ASSUME TypeOK, NEW j, NEW n, Publish(j, n) \/ Consume(j, n)
  PROVE  queue' \in [Messages -> Nat]
<1>1. CASE Publish(j, n)
  <2>1. PICK c \in {1, 2} : queue' = [queue EXCEPT ![<<j, n>>] = @ + c]
    BY <1>1 DEF Publish, Copies
  <2>2. \A m \in Messages : queue'[m] \in Nat
    BY <2>1 DEF TypeOK
  <2>3. QED
    BY <2>1, <2>2 DEF TypeOK
<1>2. CASE Consume(j, n)
  <2>1. queue[<<j, n>>] > 0 /\ queue' = [queue EXCEPT ![<<j, n>>] = @ - 1]
    BY <1>2 DEF Consume
  <2>2. \A m \in Messages : queue'[m] \in Nat
    BY <2>1 DEF TypeOK
  <2>3. QED
    BY <2>1, <2>2 DEF TypeOK
<1>3. QED
  BY <1>1, <1>2

\* A page keeps its type whatever request it starts or ends.
LEMMA PageTypes ==
  ASSUME NEW t \in TabState
  PROVE  /\ Idle(t) \in TabState
         /\ \A j \in JobIds : Publishing(t, j) \in TabState
         /\ \A k \in Keys : InRequest(t, "approve", k, 0, 0) \in TabState
         /\ \A n \in RunIds : InRequest(t, "provider", NoKey, 0, n) \in TabState
BY DEF Idle, Publishing, InRequest, TabState

-----------------------------------------------------------------------------
(* Type correctness, one lemma per module of actions. *)

\* The reviewers' requests keep the types.
LEMMA ReviewTypes ==
  ASSUME TypeOK, NEW r \in Reviewers,
         \/ Open(r)
         \/ \E d \in Drafts : update_draft(r, d)
         \/ reject_work_item(r)
         \/ reopen_work_item(r)
         \/ \E k \in Keys : ApproveLookup(r, k)
         \/ ApproveCommit(r)
         \/ ApproveRefused(r)
         \/ retry_processing(r)
         \/ EnqueueOk(r)
         \/ EnqueueRaises(r)
         \/ mark_processing_enqueue_failed(r)
         \/ ApiCrash(r)
  PROVE  TypeOK'
<1> USE DEF TypeOK
<1>1. tab[r] \in TabState /\ item \in ItemRow
  OBVIOUS
<1>2. Idle(tab[r]) \in TabState
  BY <1>1, PageTypes
<1>3. CASE Open(r)
  <2>1. Showing(item.version, item.final_draft) \in TabState
    BY <1>1 DEF Showing, TabState, ItemRow
  <2>2. QED
    BY <1>3, <2>1 DEF Open
<1>4. CASE \E d \in Drafts : update_draft(r, d)
  BY <1>4, EditedRow DEF update_draft
<1>5. CASE reject_work_item(r)
  BY <1>1, <1>5, MovedRow DEF reject_work_item, WorkItemStatus
<1>6. CASE reopen_work_item(r)
  BY <1>1, <1>6, MovedRow DEF reopen_work_item, WorkItemStatus
<1>7. CASE \E k \in Keys : ApproveLookup(r, k)
  BY <1>1, <1>7, PageTypes DEF ApproveLookup
<1>8. CASE ApproveCommit(r)
  <2>1. item.final_draft \in Drafts /\ tab[r].draft \in Drafts \cup {NoDraft}
        /\ tab[r].key \in Keys \cup {NoKey} /\ tab[r].version \in Nat
    BY <1>1 DEF ItemRow, TabState
  <2>2. item' \in ItemRow
    <3>1. Moved(item, "PROCESSING") \in ItemRow
      BY <1>1, MovedRow DEF WorkItemStatus
    <3>2. QED
      BY <1>8, <2>1, <3>1 DEF ApproveCommit, ApprovedSnapshot, ItemRow
  <2>3. PICK j \in NextJob :
          /\ jobs' = CreateJob(jobs, j, tab[r].key)
          /\ tab' = [tab EXCEPT ![r] = Publishing(@, j)]
    BY <1>8 DEF ApproveCommit
  <2>4. QueuedRow(tab[r].key) \in JobRow /\ j \in JobIds
    BY <2>1, QueuedJobRow DEF NextJob
  <2>5. jobs' \in [JobIds -> JobRow \cup {NoRow}]
    BY <2>3, <2>4 DEF CreateJob
  <2>6. tab' \in [Reviewers -> TabState]
    BY <1>1, <2>3, <2>4, PageTypes
  <2>7. keys' \in [Keys -> Nat]
    BY <1>8, <2>1 DEF ApproveCommit, StoreKey
  <2>8. approvals' \subseteq [draft: Drafts, shown: Drafts \cup {NoDraft}]
    BY <1>8, <2>1 DEF ApproveCommit, ApprovedSnapshot
  <2>9. QED
    BY <1>8, <2>2, <2>5, <2>6, <2>7, <2>8 DEF ApproveCommit
<1>9. CASE ApproveRefused(r)
  BY <1>2, <1>9 DEF ApproveRefused
<1>10. CASE retry_processing(r)
  <2>1. item' \in ItemRow
    <3>1. Moved(item, "PROCESSING") \in ItemRow
      BY <1>1, MovedRow DEF WorkItemStatus
    <3>2. RetrySnapshot(item) \in Drafts
      BY <1>1 DEF RetrySnapshot, ItemRow
    <3>3. QED
      BY <1>10, <3>1, <3>2 DEF retry_processing, ItemRow
  <2>2. PICK j \in NextJob :
          /\ jobs' = CreateJob(StaleJobsFailed, j, NoKey)
          /\ tab' = [tab EXCEPT ![r] = Publishing(@, j)]
    BY <1>10 DEF retry_processing
  <2>3. QueuedRow(NoKey) \in JobRow /\ j \in JobIds
    BY QueuedJobRow DEF NextJob
  <2>4. StaleJobsFailed \in [JobIds -> JobRow \cup {NoRow}]
    BY DEF StaleJobsFailed, JobRow, NoRow, BackgroundJobStatus
  <2>5. jobs' \in [JobIds -> JobRow \cup {NoRow}]
    BY <2>2, <2>3, <2>4 DEF CreateJob
  <2>6. tab' \in [Reviewers -> TabState]
    BY <1>1, <2>2, <2>3, PageTypes
  <2>7. QED
    BY <1>10, <2>1, <2>5, <2>6 DEF retry_processing
<1>11. CASE EnqueueOk(r)
  BY <1>2, <1>11, QueueTypes DEF EnqueueOk
<1>12. CASE EnqueueRaises(r)
  <2>1. [tab[r] EXCEPT !.pc = "mark_failed"] \in TabState
    BY <1>1 DEF TabState
  <2>2. queue' \in [Messages -> Nat]
    BY <1>12, QueueTypes DEF EnqueueRaises
  <2>3. QED
    BY <1>12, <2>1, <2>2 DEF EnqueueRaises
<1>13. CASE mark_processing_enqueue_failed(r)
  <2>1. item' \in ItemRow
    BY <1>13, EnqueueFailedRow DEF mark_processing_enqueue_failed
  <2>2. jobs' \in [JobIds -> JobRow \cup {NoRow}]
    <3>1. \A j \in JobIds : [jobs[j] EXCEPT !.status = "FAILED"] \in JobRow
      BY DEF JobRow, NoRow, BackgroundJobStatus
    <3>2. QED
      BY <1>13, <3>1 DEF mark_processing_enqueue_failed
  <2>3. QED
    BY <1>2, <1>13, <2>1, <2>2 DEF mark_processing_enqueue_failed
<1>14. CASE ApiCrash(r)
  BY <1>2, <1>14 DEF ApiCrash
<1>15. QED
  BY <1>3, <1>4, <1>5, <1>6, <1>7, <1>8, <1>9, <1>10, <1>11, <1>12, <1>13, <1>14

\* The regeneration's two transactions keep the types.
LEMMA RegenerationTypes ==
  ASSUME TypeOK, NEW r \in Reviewers,
         \/ RegenerateStart(r)
         \/ RegenerateSave(r)
         \/ RegenerateDiscarded(r)
         \/ mark_regeneration_failed(r)
  PROVE  TypeOK'
<1> USE DEF TypeOK, LLMRunStatus
<1>1. tab[r] \in TabState /\ item \in ItemRow
  OBVIOUS
<1>2. Idle(tab[r]) \in TabState
  BY <1>1, PageTypes
<1>3. Moved(item, "REGENERATING") \in ItemRow /\ Moved(item, "PENDING_REVIEW") \in ItemRow
  BY <1>1, MovedRow DEF WorkItemStatus
<1>4. CASE RegenerateStart(r)
  <2>1. item' \in ItemRow
    BY <1>3, <1>4 DEF RegenerateStart, MarkRegenerating
  <2>2. QED
    BY <1>1, <1>4, <2>1, PageTypes DEF RegenerateStart, NextRun
<1>5. CASE RegenerateSave(r)
  <2>1. item' \in ItemRow
    BY <1>3, <1>5 DEF RegenerateSave, RegeneratedItem, GeneratedDrafts, ItemRow
  <2>2. QED
    BY <1>2, <1>5, <2>1 DEF RegenerateSave, apply_generation_success
<1>6. CASE RegenerateDiscarded(r)
  BY <1>2, <1>6 DEF RegenerateDiscarded
<1>7. CASE mark_regeneration_failed(r)
  BY <1>1, <1>2, <1>3, <1>7 DEF mark_regeneration_failed, apply_generation_failure
<1>8. QED
  BY <1>4, <1>5, <1>6, <1>7

\* The worker's transactions and side effects keep the types.
LEMMA WorkerTypes ==
  ASSUME TypeOK, NEW w \in Workers,
         \/ \E j \in JobIds, n \in 0..CeleryMaxRetries : Receive(w, j, n)
         \/ SideEffects(w)
         \/ RecordError(w)
         \/ CompleteProcessing(w)
         \/ WorkerDies(w)
  PROVE  TypeOK'
<1> USE DEF TypeOK
<1>1. item \in ItemRow /\ Moved(item, "FAILED") \in ItemRow /\ Moved(item, "SENT") \in ItemRow
  BY MovedRow DEF WorkItemStatus
<1>2. FailedWithJob(item) \in ItemRow
  BY <1>1 DEF FailedWithJob
<1>3. \A j \in JobIds, s \in BackgroundJobStatus : [jobs[j] EXCEPT !.status = s] \in JobRow
  BY DEF JobRow, NoRow
<1>4. \A j \in JobIds, s \in BackgroundJobStatus :
        [jobs EXCEPT ![j].status = s] \in [JobIds -> JobRow \cup {NoRow}]
  BY <1>3
<1>5. [wk EXCEPT ![w] = IdleWorker] \in [Workers -> BusyWorker \cup {IdleWorker}]
  OBVIOUS
<1>6. Busy(w) => wk[w] \in BusyWorker
  BY DEF Busy, IdleWorker
<1>7. \A j \in JobIds : MarkJobFailed(j) => /\ item' \in ItemRow
                                            /\ jobs' \in [JobIds -> JobRow \cup {NoRow}]
  BY <1>2, <1>4 DEF MarkJobFailed, BackgroundJobStatus
<1>8. \A j \in JobIds : CompleteJob(j) => jobs' \in [JobIds -> JobRow \cup {NoRow}]
  BY <1>4 DEF CompleteJob, BackgroundJobStatus
<1>9. ASSUME NEW j \in JobIds, NEW n \in 0..CeleryMaxRetries, Receive(w, j, n)
      PROVE  TypeOK'
  <2>1. queue' \in [Messages -> Nat]
    BY <1>9, QueueTypes DEF Receive
  <2>2. item' \in ItemRow
    BY <1>1, <1>2, <1>9 DEF Receive, FinishedJob, SentItem, UnclaimableItem, MarkJobFailed,
       AttemptsExceeded, ActivationRefused, BeginAttempt
  <2>3. jobs' \in [JobIds -> JobRow \cup {NoRow}]
    <3>1. CASE SentItem(j) \/ UnclaimableItem(j)
      BY <1>4, <1>7, <3>1 DEF SentItem, UnclaimableItem, BackgroundJobStatus
    <3>2. CASE AttemptsExceeded(j)
      BY <3>2, ExceededJobRow DEF AttemptsExceeded
    <3>3. CASE BeginAttempt(w, j, n)
      BY <3>3, StartedJobRow DEF BeginAttempt
    <3>4. CASE FinishedJob(j) \/ ActivationRefused(j)
      BY <3>4 DEF FinishedJob, ActivationRefused
    <3>5. QED
      BY <1>9, <3>1, <3>2, <3>3, <3>4 DEF Receive
  <2>4. wk' \in [Workers -> BusyWorker \cup {IdleWorker}]
    <3>1. CASE BeginAttempt(w, j, n)
      <4>1. jobs[j].attempts + 1 \in Nat
        BY DEF JobRow, NoRow
      <4>2. AttemptBody # NoDraft => AttemptBody \in Drafts
        BY <1>1 DEF AttemptBody, ItemRow
      <4>3. AttemptBody # NoDraft =>
              [pc |-> "side_effects", job |-> j, retries |-> n,
               attempt |-> jobs[j].attempts + 1, body |-> AttemptBody] \in BusyWorker
        BY <1>9, <4>1, <4>2 DEF BusyWorker
      <4>4. QED
        BY <3>1, <4>3 DEF BeginAttempt
    <3>2. QED
      BY <1>9, <3>1 DEF Receive, FinishedJob, SentItem, UnclaimableItem, AttemptsExceeded,
         ActivationRefused
  <2>5. QED
    BY <1>9, <2>1, <2>2, <2>3, <2>4 DEF Receive
<1>10. CASE SideEffects(w)
  <2>1. wk[w] \in BusyWorker
    BY <1>6, <1>10 DEF SideEffects, Busy
  <2>2. wk' \in [Workers -> BusyWorker \cup {IdleWorker}]
    <3>1. \A pc \in {"complete", "error"} : [wk[w] EXCEPT !.pc = pc] \in BusyWorker
      BY <2>1 DEF BusyWorker
    <3>2. QED
      BY <1>10, <3>1 DEF SideEffects, EmailFails, EmailSent, Reaches
  <2>3. emails' \subseteq [job: JobIds, attempt: Nat, body: Drafts]
    <3>1. Email(w) \in [job: JobIds, attempt: Nat, body: Drafts]
      BY <2>1 DEF Email, BusyWorker
    <3>2. QED
      BY <1>10, <3>1 DEF SideEffects, EmailFails, EmailSent
  <2>4. QED
    BY <1>10, <2>2, <2>3 DEF SideEffects
<1>11. CASE RecordError(w)
  <2>1. wk[w] \in BusyWorker /\ wk[w].job \in JobIds
    BY <1>6, <1>11 DEF RecordError, Busy, BusyWorker
  <2>2. CASE GiveUp(wk[w].job)
    BY <1>5, <1>7, <1>11, <2>1, <2>2 DEF RecordError, GiveUp
  <2>3. CASE Requeue(wk[w].job, wk[w].retries)
    BY <1>4, <1>5, <1>11, <2>1, <2>3, QueueTypes
       DEF RecordError, Requeue, ScheduleRetry, RetryUnsent, BackgroundJobStatus
  <2>4. CASE RequeueRefused(wk[w].job)
    BY <1>5, <1>11, <2>4 DEF RecordError, RequeueRefused
  <2>5. QED
    BY <1>11, <2>2, <2>3, <2>4 DEF RecordError
<1>12. CASE CompleteProcessing(w)
  <2>1. wk[w] \in BusyWorker /\ wk[w].job \in JobIds
    BY <1>6, <1>12 DEF CompleteProcessing, Busy, BusyWorker
  <2>2. /\ item' \in ItemRow
        /\ jobs' \in [JobIds -> JobRow \cup {NoRow}]
    BY <1>1, <1>7, <1>8, <1>12, <2>1
       DEF CompleteProcessing, Deliver, AlreadySent, CompletionRefused
  <2>3. QED
    BY <1>5, <1>12, <2>2 DEF CompleteProcessing
<1>13. CASE WorkerDies(w)
  BY <1>5, <1>13 DEF WorkerDies
<1>14. QED
  BY <1>9, <1>10, <1>11, <1>12, <1>13

\* Time and message losses keep the types.
LEMMA EnvironmentTypes ==
  ASSUME TypeOK, NEW j \in JobIds,
         Age(j) \/ \E n \in 0..CeleryMaxRetries : LoseMessage(j, n)
  PROVE  TypeOK'
<1> USE DEF TypeOK
<1>1. CASE Age(j)
  <2>1. [jobs[j] EXCEPT !.age = "stale"] \in JobRow
    BY <1>1 DEF Age, JobRow, NoRow
  <2>2. QED
    BY <1>1, <2>1 DEF Age
<1>2. CASE \E n \in 0..CeleryMaxRetries : LoseMessage(j, n)
  BY <1>2, QueueTypes DEF LoseMessage
<1>3. QED
  BY <1>1, <1>2

\* Every step of the system keeps the types.
LEMMA TypeNext == TypeOK /\ [Next]_vars => TypeOK'
<1> SUFFICES ASSUME TypeOK, [Next]_vars PROVE TypeOK'
  OBVIOUS
<1>1. CASE \E r \in Reviewers : ReviewerStep(r) \/ ApiStep(r) \/ ApiCrash(r)
  BY <1>1, ReviewTypes, RegenerationTypes DEF ReviewerStep, ApiStep
<1>2. CASE \E w \in Workers : TaskStep(w) \/ WorkerDies(w)
  BY <1>2, WorkerTypes DEF TaskStep
<1>3. CASE \E j \in JobIds : ReceiveJob(j)
  BY <1>3, WorkerTypes DEF ReceiveJob
<1>4. CASE \E j \in JobIds : Age(j) \/ \E n \in 0..CeleryMaxRetries : LoseMessage(j, n)
  BY <1>4, EnvironmentTypes
<1>5. CASE UNCHANGED vars
  BY <1>5 DEF TypeOK
<1>6. QED
  BY <1>1, <1>2, <1>3, <1>4, <1>5 DEF Next, Failure

\* The shared state and every actor's memory keep their types: in particular no
\* job, run or page is ever left half written by a failed request or worker.
THEOREM TypeCorrect == Spec => []TypeOK
<1>1. Init => TypeOK
  BY TypeInit
<1>2. TypeOK /\ [Next]_vars => TypeOK'
  BY TypeNext
<1>3. QED
  BY <1>1, <1>2, PTL DEF Spec

-----------------------------------------------------------------------------
(* A PROCESSING item has an active job. *)

\* A failing job never leaves its item PROCESSING.
LEMMA FailedJobSettles ==
  ASSUME TypeOK
  PROVE  FailedWithJob(item).status # "PROCESSING"
<1>1. Moved(item, "FAILED").status = "FAILED"
  BY MovedRow DEF TypeOK, WorkItemStatus
<1>2. QED
  BY <1>1 DEF FailedWithJob

\* A job created by an approval or a retry is active.
LEMMA NewJobActive ==
  ASSUME NEW js \in [JobIds -> JobRow \cup {NoRow}], NEW j \in NextJob, NEW k \in Keys \cup {NoKey},
         jobs' = CreateJob(js, j, k)
  PROVE  ActiveJobs' # {}
<1>1. j \in JobIds /\ jobs'[j].status = "QUEUED"
  BY QueuedJobRow DEF NextJob, CreateJob
<1>2. QED
  BY <1>1 DEF ActiveJobs

\* Every step keeps a PROCESSING item supplied with an active job: a step that ends
\* the last one, of a request or of a worker, settles the item with it.
LEMMA ActiveJobNext ==
  ASSUME TypeOK, ProcessingHasActiveJob, [Next]_vars
  PROVE  ProcessingHasActiveJob'
<1> USE DEF ProcessingHasActiveJob
<1>1. SUFFICES ASSUME item'.status = "PROCESSING" PROVE ActiveJobs' # {}
  OBVIOUS
<1>2. \A s \in WorkItemStatus : Moved(item, s).status = s
  BY MovedRow DEF TypeOK
<1>3. FailedWithJob(item).status # "PROCESSING"
  BY FailedJobSettles
<1>4. CASE item'.status = item.status /\ UNCHANGED jobs
  BY <1>1, <1>4 DEF ActiveJobs
<1>5. ASSUME NEW r \in Reviewers, ReviewerStep(r) \/ ApiStep(r) \/ ApiCrash(r)
      PROVE  ActiveJobs' # {}
  <2>1. CASE Open(r) \/ (\E k \in Keys : ApproveLookup(r, k)) \/ ApproveRefused(r) \/ EnqueueOk(r)
             \/ EnqueueRaises(r) \/ RegenerateDiscarded(r) \/ ApiCrash(r)
    BY <1>4, <2>1 DEF Open, ApproveLookup, ApproveRefused, EnqueueOk, EnqueueRaises,
       RegenerateDiscarded, ApiCrash
  <2>2. CASE \E d \in Drafts : update_draft(r, d)
    BY <1>4, <2>2, EditedRow DEF update_draft
  <2>3. CASE reject_work_item(r) \/ reopen_work_item(r) \/ RegenerateStart(r)
    BY <1>1, <1>2, <2>3 DEF reject_work_item, reopen_work_item, RegenerateStart, MarkRegenerating,
       WorkItemStatus
  <2>4. CASE ApproveCommit(r)
    <3>1. tab[r].key \in Keys \cup {NoKey}
      BY DEF TypeOK, TabState
    <3>2. QED
      BY <2>4, <3>1, NewJobActive DEF ApproveCommit, TypeOK
  <2>5. CASE retry_processing(r)
    <3>1. StaleJobsFailed \in [JobIds -> JobRow \cup {NoRow}]
      BY DEF TypeOK, StaleJobsFailed, JobRow, NoRow, BackgroundJobStatus
    <3>2. QED
      BY <2>5, <3>1, NewJobActive DEF retry_processing
  <2>6. CASE mark_processing_enqueue_failed(r)
    BY <1>1, <2>6, EnqueueFailedRow DEF mark_processing_enqueue_failed
  <2>7. CASE RegenerateSave(r)
    <3>1. \A d \in Drafts : RegeneratedItem(d).status = "PENDING_REVIEW"
      BY MovedRow DEF TypeOK, RegeneratedItem, WorkItemStatus, ItemRow
    <3>2. QED
      BY <1>1, <2>7, <3>1 DEF RegenerateSave, GeneratedDrafts
  <2>8. CASE mark_regeneration_failed(r)
    BY <1>1, <1>2, <1>4, <2>8 DEF mark_regeneration_failed, StillRegenerating, WorkItemStatus
  <2>9. QED
    BY <1>5, <2>1, <2>2, <2>3, <2>4, <2>5, <2>6, <2>7, <2>8 DEF ReviewerStep, ApiStep
<1>6. ASSUME NEW w \in Workers, NEW j \in JobIds, NEW n \in 0..CeleryMaxRetries, Receive(w, j, n)
      PROVE  ActiveJobs' # {}
  <2>1. CASE FinishedJob(j) \/ ActivationRefused(j)
    BY <1>4, <2>1 DEF FinishedJob, ActivationRefused
  <2>2. CASE SentItem(j) \/ UnclaimableItem(j) \/ AttemptsExceeded(j)
    BY <1>1, <1>3, <2>2 DEF SentItem, UnclaimableItem, AttemptsExceeded, MarkJobFailed
  <2>3. CASE BeginAttempt(w, j, n)
    <3>1. jobs'[j].status = "RUNNING"
      BY <2>3, StartedJobRow DEF BeginAttempt, TypeOK
    <3>2. QED
      BY <3>1 DEF ActiveJobs
  <2>4. QED
    BY <1>6, <2>1, <2>2, <2>3 DEF Receive
<1>7. ASSUME NEW w \in Workers, TaskStep(w) \/ WorkerDies(w)
      PROVE  ActiveJobs' # {}
  <2>1. CASE SideEffects(w) \/ WorkerDies(w)
    BY <1>4, <2>1 DEF SideEffects, WorkerDies
  <2>2. CASE RecordError(w)
    <3>1. wk[w].job \in JobIds
      BY <2>2 DEF RecordError, TypeOK, BusyWorker, IdleWorker
    <3>2. CASE GiveUp(wk[w].job)
      BY <1>1, <1>3, <3>2 DEF GiveUp, MarkJobFailed
    <3>3. CASE Requeue(wk[w].job, wk[w].retries)
      <4>1. jobs'[wk[w].job].status = "QUEUED"
        BY <3>1, <3>3 DEF Requeue, TypeOK, JobRow, NoRow
      <4>2. QED
        BY <3>1, <4>1 DEF ActiveJobs
    <3>4. CASE RequeueRefused(wk[w].job)
      BY <1>4, <3>4 DEF RequeueRefused
    <3>5. QED
      BY <2>2, <3>2, <3>3, <3>4 DEF RecordError
  <2>3. CASE CompleteProcessing(w)
    BY <1>1, <1>2, <1>3, <2>3 DEF CompleteProcessing, Deliver, AlreadySent, CompletionRefused,
       MarkJobFailed, WorkItemStatus
  <2>4. QED
    BY <1>7, <2>1, <2>2, <2>3 DEF TaskStep
<1>8. ASSUME NEW j \in JobIds, Age(j) PROVE ActiveJobs' # {}
  <2>1. \A i \in JobIds : jobs'[i].status = jobs[i].status
    BY <1>8 DEF Age, TypeOK, JobRow, NoRow
  <2>2. QED
    BY <1>1, <1>8, <2>1 DEF Age, ActiveJobs
<1>9. ASSUME NEW j \in JobIds, NEW n \in 0..CeleryMaxRetries, LoseMessage(j, n)
      PROVE  ActiveJobs' # {}
  BY <1>4, <1>9 DEF LoseMessage
<1>10. CASE UNCHANGED vars
  BY <1>4, <1>10
<1>11. QED
  BY <1>5, <1>6, <1>7, <1>8, <1>9, <1>10 DEF Next, Failure, ReceiveJob

\* Whatever fails, an item that is PROCESSING has a QUEUED or RUNNING job, so
\* the retry endpoint finds one to wait for or to withdraw.
THEOREM ActiveJob == Spec => []ProcessingHasActiveJob
<1>1. Init => ProcessingHasActiveJob
  BY StoreAssumption DEF Init, ProcessingHasActiveJob, SeedItem
<1>2. TypeOK /\ ProcessingHasActiveJob /\ [Next]_vars => ProcessingHasActiveJob'
  BY ActiveJobNext
<1>3. QED
  BY <1>1, <1>2, TypeCorrect, PTL DEF Spec

-----------------------------------------------------------------------------
(* A job's attempts run out before Celery's retries of its task do, and no   *)
(* attempt sends two emails, whatever messages are duplicated, lost or       *)
(* delayed.                                                                  *)

\* A message or a task of the n-th retry follows n attempts of its job, and a
\* task that runs has counted one more.
BudgetInv ==
  /\ \A j \in JobIds, n \in 0..CeleryMaxRetries : queue[<<j, n>>] > 0 => n <= jobs[j].attempts
  /\ \A w \in Workers : Busy(w) => wk[w].retries < jobs[wk[w].job].attempts

\* No message is queued and no worker is busy at first.
LEMMA BudgetInit == Init => BudgetInv
BY DEF Init, BudgetInv, Messages, Busy, IdleWorker

-----------------------------------------------------------------------------
(* No step lowers the attempts of a job: rows are created once and no code    *)
(* resets attempt_count.                                                      *)

\* A change of a job's status keeps every attempt count.
LEMMA StatusKeepsAttempts ==
  ASSUME TypeOK, NEW j, NEW s \in BackgroundJobStatus, jobs' = [jobs EXCEPT ![j].status = s]
  PROVE  \A i \in JobIds : jobs'[i].attempts = jobs[i].attempts
<1>1. \A i \in JobIds : [jobs[i] EXCEPT !.status = s].attempts = jobs[i].attempts
  BY DEF TypeOK, JobRow, NoRow
<1>2. QED
  BY <1>1 DEF TypeOK

\* No step of any actor lowers a job's attempt_count.
LEMMA AttemptsNeverDrop ==
  ASSUME TypeOK, [Next]_vars
  PROVE  \A i \in JobIds : jobs[i].attempts \in Nat /\ jobs'[i].attempts >= jobs[i].attempts
<1>1. \A i \in JobIds : jobs[i].attempts \in Nat
  BY DEF TypeOK, JobRow, NoRow
<1>2. SUFFICES \A i \in JobIds : jobs'[i].attempts >= jobs[i].attempts
  BY <1>1
<1>3. CASE UNCHANGED jobs
  BY <1>1, <1>3
<1>4. ASSUME NEW j, \E s \in BackgroundJobStatus : jobs' = [jobs EXCEPT ![j].status = s]
      PROVE  \A i \in JobIds : jobs'[i].attempts >= jobs[i].attempts
  BY <1>1, <1>4, StatusKeepsAttempts
<1>5. ASSUME NEW js \in [JobIds -> JobRow \cup {NoRow}], NEW j \in NextJob, NEW k \in Keys \cup {NoKey},
             jobs' = CreateJob(js, j, k), \A i \in JobIds : js[i].attempts = jobs[i].attempts
      PROVE  \A i \in JobIds : jobs'[i].attempts >= jobs[i].attempts
  <2>1. QueuedRow(k).attempts = 0 /\ jobs[j].attempts = 0
    BY QueuedJobRow DEF NextJob, NoRow
  <2>2. QED
    BY <1>1, <1>5, <2>1 DEF CreateJob
<1>6. ASSUME NEW r \in Reviewers, ReviewerStep(r) \/ ApiStep(r) \/ ApiCrash(r)
      PROVE  \A i \in JobIds : jobs'[i].attempts >= jobs[i].attempts
  <2>1. CASE ApproveCommit(r)
    <3>1. tab[r].key \in Keys \cup {NoKey}
      BY DEF TypeOK, TabState
    <3>2. QED
      BY <1>5, <2>1, <3>1 DEF ApproveCommit, TypeOK
  <2>2. CASE retry_processing(r)
    <3>1. /\ StaleJobsFailed \in [JobIds -> JobRow \cup {NoRow}]
          /\ \A i \in JobIds : StaleJobsFailed[i].attempts = jobs[i].attempts
      BY DEF TypeOK, StaleJobsFailed, JobRow, NoRow, BackgroundJobStatus
    <3>2. QED
      BY <1>5, <2>2, <3>1 DEF retry_processing
  <2>3. CASE mark_processing_enqueue_failed(r)
    BY <1>4, <2>3 DEF mark_processing_enqueue_failed, BackgroundJobStatus
  <2>4. QED
    BY <1>3, <1>6, <2>1, <2>2, <2>3 DEF ReviewerStep, ApiStep, Open, update_draft, reject_work_item,
       reopen_work_item, ApproveLookup, ApproveRefused, EnqueueOk, EnqueueRaises, RegenerateStart,
       RegenerateSave, RegenerateDiscarded, mark_regeneration_failed, ApiCrash
<1>7. ASSUME NEW w \in Workers, NEW j \in JobIds, NEW n \in 0..CeleryMaxRetries, Receive(w, j, n)
      PROVE  \A i \in JobIds : jobs'[i].attempts >= jobs[i].attempts
  <2>1. CASE SentItem(j) \/ UnclaimableItem(j)
    BY <1>4, <2>1 DEF SentItem, UnclaimableItem, MarkJobFailed, BackgroundJobStatus
  <2>2. CASE AttemptsExceeded(j)
    BY <1>1, <2>2, ExceededJobRow DEF AttemptsExceeded, TypeOK
  <2>3. CASE BeginAttempt(w, j, n)
    BY <1>1, <2>3, StartedJobRow DEF BeginAttempt, TypeOK
  <2>4. QED
    BY <1>3, <1>7, <2>1, <2>2, <2>3 DEF Receive, FinishedJob, ActivationRefused
<1>8. ASSUME NEW w \in Workers, TaskStep(w) \/ WorkerDies(w)
      PROVE  \A i \in JobIds : jobs'[i].attempts >= jobs[i].attempts
  BY <1>3, <1>4, <1>8 DEF TaskStep, SideEffects, RecordError, GiveUp, Requeue, RequeueRefused,
     CompleteProcessing, Deliver, AlreadySent, CompletionRefused, CompleteJob, MarkJobFailed,
     WorkerDies, BackgroundJobStatus
<1>9. ASSUME NEW j \in JobIds, Age(j)
      PROVE  \A i \in JobIds : jobs'[i].attempts >= jobs[i].attempts
  BY <1>1, <1>9 DEF Age, TypeOK, JobRow, NoRow
<1>10. QED
  BY <1>3, <1>6, <1>7, <1>8, <1>9 DEF Next, Failure, ReceiveJob, LoseMessage

-----------------------------------------------------------------------------
(* The queue: what a step may add to it. *)

\* Publishing adds messages of that retry only; consuming adds none.
LEMMA QueueGrowth ==
  ASSUME TypeOK, NEW j, NEW n, Publish(j, n) \/ Consume(j, n)
  PROVE  \A i \in JobIds, m \in 0..CeleryMaxRetries :
           queue'[<<i, m>>] > 0 => queue[<<i, m>>] > 0 \/ (Publish(j, n) /\ i = j /\ m = n)
<1>1. ASSUME NEW i \in JobIds, NEW m \in 0..CeleryMaxRetries, <<i, m>> # <<j, n>>
      PROVE  queue'[<<i, m>>] = queue[<<i, m>>]
  <2>1. <<i, m>> \in Messages
    BY DEF Messages
  <2>2. QED
    BY <1>1, <2>1 DEF TypeOK, Publish, Consume
<1>2. CASE Publish(j, n)
  BY <1>1, <1>2
<1>3. CASE Consume(j, n)
  BY <1>1, <1>3 DEF Consume
<1>4. QED
  BY <1>2, <1>3

\* Messages that stay in the queue stay within their job's attempts.
LEMMA QueueFrame ==
  ASSUME TypeOK, BudgetInv, [Next]_vars,
         \A i \in JobIds, m \in 0..CeleryMaxRetries :
           queue'[<<i, m>>] > 0 => queue[<<i, m>>] > 0 \/ m <= jobs[i].attempts
  PROVE  \A i \in JobIds, m \in 0..CeleryMaxRetries : queue'[<<i, m>>] > 0 => m <= jobs'[i].attempts
<1>1. SUFFICES ASSUME NEW i \in JobIds, NEW m \in 0..CeleryMaxRetries, queue'[<<i, m>>] > 0
               PROVE  m <= jobs'[i].attempts
  OBVIOUS
<1>2. m <= jobs[i].attempts
  BY <1>1 DEF BudgetInv
<1>3. jobs[i].attempts \in Nat /\ jobs'[i].attempts >= jobs[i].attempts /\ jobs'[i].attempts \in Nat
  BY AttemptsNeverDrop, TypeNext DEF TypeOK, JobRow, NoRow
<1>4. m \in Nat
  OBVIOUS
<1>5. QED
  BY <1>2, <1>3, <1>4

\* Each message's retry number stays within the attempts of its job, whoever publishes.
LEMMA QueueBudget ==
  ASSUME TypeOK, BudgetInv, [Next]_vars
  PROVE  \A i \in JobIds, m \in 0..CeleryMaxRetries : queue'[<<i, m>>] > 0 => m <= jobs'[i].attempts
<1>1. \A i \in JobIds : jobs[i].attempts \in Nat
  BY DEF TypeOK, JobRow, NoRow
<1>2. SUFFICES \A i \in JobIds, m \in 0..CeleryMaxRetries :
                 queue'[<<i, m>>] > 0 => queue[<<i, m>>] > 0 \/ m <= jobs[i].attempts
  BY QueueFrame
<1>3. CASE UNCHANGED queue
  BY <1>3
<1>4. ASSUME NEW j, Publish(j, 0)
      PROVE  \A i \in JobIds, m \in 0..CeleryMaxRetries :
               queue'[<<i, m>>] > 0 => queue[<<i, m>>] > 0 \/ m <= jobs[i].attempts
  BY <1>1, <1>4, QueueGrowth
<1>5. ASSUME NEW j, NEW n, Consume(j, n)
      PROVE  \A i \in JobIds, m \in 0..CeleryMaxRetries :
               queue'[<<i, m>>] > 0 => queue[<<i, m>>] > 0 \/ m <= jobs[i].attempts
  BY <1>5 DEF Consume, TypeOK, Messages
<1>6. ASSUME NEW w \in Workers, RecordError(w)
      PROVE  \A i \in JobIds, m \in 0..CeleryMaxRetries :
               queue'[<<i, m>>] > 0 => queue[<<i, m>>] > 0 \/ m <= jobs[i].attempts
  <2> DEFINE j == wk[w].job
             n == wk[w].retries
  <2>1. CASE Publish(j, n + 1)
    <3>1. Busy(w) /\ wk[w] \in BusyWorker
      BY <1>6 DEF RecordError, Busy, TypeOK, IdleWorker
    <3>2. j \in JobIds /\ n \in Nat /\ n < jobs[j].attempts
      BY <3>1 DEF BudgetInv, BusyWorker
    <3>3. n + 1 <= jobs[j].attempts
      BY <1>1, <3>2
    <3>4. QED
      BY <2>1, <3>3, QueueGrowth
  <2>2. QED
    BY <1>3, <1>6, <2>1 DEF RecordError, GiveUp, Requeue, RequeueRefused, ScheduleRetry,
       RetryUnsent
<1>7. CASE \E r \in Reviewers : ReviewerStep(r) \/ ApiStep(r) \/ ApiCrash(r)
  BY <1>3, <1>4, <1>7 DEF ReviewerStep, ApiStep, Open, update_draft, reject_work_item,
     reopen_work_item, ApproveLookup, ApproveCommit, ApproveRefused, retry_processing, EnqueueOk,
     EnqueueRaises, mark_processing_enqueue_failed, RegenerateStart, RegenerateSave,
     RegenerateDiscarded, mark_regeneration_failed, ApiCrash
<1>8. QED
  BY <1>3, <1>5, <1>6, <1>7 DEF Next, Failure, ReceiveJob, Receive, TaskStep, SideEffects,
     CompleteProcessing, WorkerDies, Age, LoseMessage

-----------------------------------------------------------------------------
(* The workers. *)

\* A worker's retry number stays below the attempts its job has counted.
LEMMA WorkerBudget ==
  ASSUME TypeOK, BudgetInv, [Next]_vars
  PROVE  \A w \in Workers : Busy(w)' => wk'[w].retries < jobs'[wk'[w].job].attempts
<1>1. \A i \in JobIds : /\ jobs[i].attempts \in Nat /\ jobs'[i].attempts \in Nat
                        /\ jobs'[i].attempts >= jobs[i].attempts
  BY AttemptsNeverDrop, TypeNext DEF TypeOK, JobRow, NoRow
<1>2. \A w \in Workers : Busy(w) =>
        wk[w].job \in JobIds /\ wk[w].retries \in Nat /\ wk[w].retries < jobs[wk[w].job].attempts
  BY DEF BudgetInv, TypeOK, Busy, BusyWorker, IdleWorker
<1>3. ASSUME NEW w \in Workers, Busy(w), wk'[w].job = wk[w].job, wk'[w].retries = wk[w].retries
      PROVE  wk'[w].retries < jobs'[wk'[w].job].attempts
  BY <1>1, <1>2, <1>3
<1>4. CASE UNCHANGED wk
  BY <1>3, <1>4 DEF Busy
<1>5. ASSUME NEW w \in Workers, wk' = [wk EXCEPT ![w] = IdleWorker]
      PROVE  \A v \in Workers : Busy(v)' => wk'[v].retries < jobs'[wk'[v].job].attempts
  BY <1>3, <1>5 DEF Busy, TypeOK, IdleWorker
<1>6. ASSUME NEW w \in Workers, SideEffects(w)
      PROVE  \A v \in Workers : Busy(v)' => wk'[v].retries < jobs'[wk'[v].job].attempts
  <2>1. Busy(w) /\ wk[w] \in BusyWorker
    BY <1>6 DEF SideEffects, Busy, TypeOK, IdleWorker
  <2>2. \A v \in Workers : /\ wk'[v].job = wk[v].job /\ wk'[v].retries = wk[v].retries
                           /\ Busy(v)' => Busy(v)
    BY <1>6, <2>1 DEF SideEffects, EmailFails, EmailSent, Reaches, Busy, TypeOK, BusyWorker
  <2>3. QED
    BY <1>3, <2>2
<1>7. ASSUME NEW w \in Workers, NEW j \in JobIds, NEW n \in 0..CeleryMaxRetries, Consume(j, n),
             BeginAttempt(w, j, n)
      PROVE  \A v \in Workers : Busy(v)' => wk'[v].retries < jobs'[wk'[v].job].attempts
  <2>1. n \in Nat /\ n <= jobs[j].attempts
    BY <1>7 DEF Consume, BudgetInv
  <2>2. jobs'[j].attempts = jobs[j].attempts + 1
    BY <1>7, StartedJobRow DEF BeginAttempt, TypeOK
  <2>3. Busy(w)' => wk'[w].job = j /\ wk'[w].retries = n
    BY <1>7 DEF BeginAttempt, Busy, TypeOK, IdleWorker
  <2>4. Busy(w)' => wk'[w].retries < jobs'[wk'[w].job].attempts
    BY <1>1, <2>1, <2>2, <2>3
  <2>5. \A v \in Workers : v # w => wk'[v] = wk[v]
    BY <1>7 DEF BeginAttempt, TypeOK
  <2>6. QED
    BY <1>3, <2>4, <2>5 DEF Busy
<1>8. CASE \E r \in Reviewers : ReviewerStep(r) \/ ApiStep(r) \/ ApiCrash(r)
  BY <1>4, <1>8 DEF ReviewerStep, ApiStep, Open, update_draft, reject_work_item,
     reopen_work_item, ApproveLookup, ApproveCommit, ApproveRefused, retry_processing, EnqueueOk,
     EnqueueRaises, mark_processing_enqueue_failed, RegenerateStart, RegenerateSave,
     RegenerateDiscarded, mark_regeneration_failed, ApiCrash
<1>9. CASE \E j \in JobIds : ReceiveJob(j)
  BY <1>4, <1>7, <1>9 DEF ReceiveJob, Receive, FinishedJob, SentItem, UnclaimableItem,
     AttemptsExceeded, ActivationRefused
<1>10. QED
  BY <1>4, <1>5, <1>6, <1>8, <1>9 DEF Next, Failure, TaskStep, RecordError, CompleteProcessing,
     WorkerDies, Age, LoseMessage

-----------------------------------------------------------------------------
\* A task that reports an error and is not at the job's last attempt still has a
\* Celery retry left, so no job stays QUEUED with nobody to run it.  This is where
\* MaxAttempts <= CeleryMaxRetries is needed.
THEOREM RetriesSuffice == Spec => []RetryBudgetSuffices
<1>1. Init => BudgetInv
  BY BudgetInit
<1>2. TypeOK /\ BudgetInv /\ [Next]_vars => BudgetInv'
  BY QueueBudget, WorkerBudget DEF BudgetInv
<1>3. TypeOK /\ BudgetInv => RetryBudgetSuffices
  <2> SUFFICES ASSUME TypeOK, BudgetInv, NEW w \in Workers,
                      wk[w].pc = "error", ~LastAttempt(wk[w].job)
               PROVE  wk[w].retries < CeleryMaxRetries
    BY DEF RetryBudgetSuffices
  <2>1. wk[w] \in BusyWorker /\ Busy(w)
    BY DEF TypeOK, IdleWorker, Busy
  <2>2. wk[w].job \in JobIds /\ wk[w].retries \in Nat
    BY <2>1 DEF BusyWorker
  <2>3. jobs[wk[w].job].attempts \in Nat /\ jobs[wk[w].job].attempts < MaxAttempts
    BY <2>2, StoreAssumption DEF TypeOK, JobRow, NoRow, LastAttempt
  <2>4. wk[w].retries < jobs[wk[w].job].attempts
    BY <2>1 DEF BudgetInv
  <2>5. QED
    BY <2>2, <2>3, <2>4, StoreAssumption
<1>4. QED
  BY <1>1, <1>2, <1>3, TypeCorrect, PTL DEF Spec

-----------------------------------------------------------------------------
(* Emails and attempts. *)

\* Attempts are numbered by the count of their job; an attempt that has yet to
\* send is alone with its number.
EmailInv ==
  /\ EmailsCounted
  /\ \A w \in Workers : Busy(w) =>
       /\ wk[w].attempt \in 1..MaxAttempts
       /\ wk[w].attempt <= jobs[wk[w].job].attempts

\* No email has been sent and no worker is busy at first.
LEMMA EmailInitially == Init => EmailInv
BY DEF Init, EmailInv, EmailsCounted, Busy, IdleWorker

\* Steps that send nothing and start nothing.
LEMMA EmailFrame ==
  ASSUME TypeOK, EmailInv, [Next]_vars, UNCHANGED emails,
         \A v \in Workers : Busy(v)' =>
           /\ Busy(v) /\ wk'[v].job = wk[v].job /\ wk'[v].attempt = wk[v].attempt
           /\ wk'[v].pc = "side_effects" => wk[v].pc = "side_effects"
  PROVE  EmailInv'
<1>1. \A i \in JobIds : /\ jobs[i].attempts \in Nat /\ jobs'[i].attempts \in Nat
                        /\ jobs'[i].attempts >= jobs[i].attempts
  BY AttemptsNeverDrop, TypeNext DEF TypeOK, JobRow, NoRow
<1>2. \A e \in emails : e.job \in JobIds /\ e.attempt \in Nat
  BY DEF TypeOK
<1>3. \A v \in Workers : Busy(v) => wk[v].job \in JobIds /\ wk[v].attempt \in Nat
  BY DEF TypeOK, Busy, BusyWorker, IdleWorker
<1>4. \A e \in emails : e.attempt \in 1..MaxAttempts /\ e.attempt <= jobs'[e.job].attempts
  BY <1>1, <1>2 DEF EmailInv, EmailsCounted
<1>5. \A v \in Workers : wk'[v].pc = "side_effects" => Busy(v)'
  BY DEF Busy
<1>6. EmailsCounted'
  BY <1>4, <1>5 DEF EmailInv, EmailsCounted
<1>7. \A v \in Workers : Busy(v)' =>
        /\ wk'[v].attempt \in 1..MaxAttempts
        /\ wk'[v].attempt <= jobs'[wk'[v].job].attempts
  BY <1>1, <1>3 DEF EmailInv
<1>8. QED
  BY <1>6, <1>7 DEF EmailInv

\* A new attempt is numbered above every email and every other attempt of its job.
LEMMA EmailBegin ==
  ASSUME TypeOK, EmailInv, [Next]_vars, UNCHANGED emails, NEW w \in Workers, NEW j \in JobIds,
         NEW n \in 0..CeleryMaxRetries, BeginAttempt(w, j, n)
  PROVE  EmailInv'
<1>1. \A i \in JobIds : /\ jobs[i].attempts \in Nat /\ jobs'[i].attempts \in Nat
                        /\ jobs'[i].attempts >= jobs[i].attempts
  BY AttemptsNeverDrop, TypeNext DEF TypeOK, JobRow, NoRow
<1>2. jobs'[j].attempts = jobs[j].attempts + 1 /\ jobs[j].attempts < MaxAttempts
  BY StartedJobRow DEF BeginAttempt, TypeOK
<1>3. \A v \in Workers : v # w => wk'[v] = wk[v]
  BY DEF BeginAttempt, TypeOK
<1>4. Busy(w)' => wk'[w].job = j /\ wk'[w].attempt = jobs[j].attempts + 1
  BY DEF BeginAttempt, Busy, TypeOK, IdleWorker
<1>5. \A e \in emails : /\ e.job \in JobIds /\ e.attempt \in 1..MaxAttempts
                        /\ e.attempt <= jobs[e.job].attempts
  BY DEF TypeOK, EmailInv, EmailsCounted
<1>6. \A v \in Workers : Busy(v) => /\ wk[v].job \in JobIds /\ wk[v].attempt \in 1..MaxAttempts
                                    /\ wk[v].attempt <= jobs[wk[v].job].attempts
  BY DEF TypeOK, Busy, BusyWorker, IdleWorker, EmailInv
<1>7. MaxAttempts \in Nat
  BY StoreAssumption
<1>8. \A v \in Workers : Busy(v)' =>
        /\ wk'[v].attempt \in 1..MaxAttempts
        /\ wk'[v].attempt <= jobs'[wk'[v].job].attempts
  <2>1. ASSUME NEW v \in Workers, Busy(v)', v # w
        PROVE  wk'[v].attempt \in 1..MaxAttempts /\ wk'[v].attempt <= jobs'[wk'[v].job].attempts
    BY <1>1, <1>3, <1>6, <2>1 DEF Busy
  <2>2. Busy(w)' => wk'[w].attempt \in 1..MaxAttempts /\ wk'[w].attempt <= jobs'[wk'[w].job].attempts
    BY <1>1, <1>2, <1>4, <1>7
  <2>3. QED
    BY <2>1, <2>2
<1>9. \A e \in emails : e.attempt \in 1..MaxAttempts /\ e.attempt <= jobs'[e.job].attempts
  BY <1>1, <1>5
<1>10. ASSUME NEW v \in Workers, wk'[v].pc = "side_effects"
       PROVE  /\ \A e \in emails : e.job = wk'[v].job => e.attempt # wk'[v].attempt
              /\ \A u \in Workers \ {v} :
                   Busy(u)' /\ wk'[u].job = wk'[v].job => wk'[u].attempt # wk'[v].attempt
  <2>1. Busy(v)'
    BY <1>10 DEF Busy
  <2>2. \A u \in Workers \ {w} : Busy(w)' /\ Busy(u)' /\ wk'[u].job = wk'[w].job =>
          wk'[u].attempt # wk'[w].attempt
    BY <1>1, <1>3, <1>4, <1>6 DEF Busy
  <2>3. CASE v = w
    <3>1. \A e \in emails : e.job = j => e.attempt # jobs[j].attempts + 1
      BY <1>1, <1>5
    <3>2. QED
      BY <1>4, <2>1, <2>2, <2>3, <3>1
  <2>4. CASE v # w
    BY <1>3, <1>10, <2>1, <2>2, <2>4 DEF EmailInv, EmailsCounted, Busy
  <2>5. QED
    BY <2>3, <2>4
<1>11. QED
  BY <1>8, <1>9, <1>10 DEF EmailInv, EmailsCounted

\* An attempt that sends is not among those that have sent.
LEMMA EmailSend ==
  ASSUME TypeOK, EmailInv, [Next]_vars, NEW w \in Workers, SideEffects(w)
  PROVE  EmailInv'
<1>1. /\ Busy(w) /\ wk[w].pc = "side_effects" /\ wk[w] \in BusyWorker /\ UNCHANGED jobs
      /\ wk[w].job \in JobIds
  BY DEF SideEffects, Busy, TypeOK, IdleWorker, BusyWorker
<1>2. /\ \A v \in Workers : /\ wk'[v].job = wk[v].job /\ wk'[v].attempt = wk[v].attempt
                            /\ Busy(v)' => Busy(v)
                            /\ wk'[v].pc = "side_effects" => wk[v].pc = "side_effects"
      /\ wk'[w].pc # "side_effects"
  BY <1>1 DEF SideEffects, EmailFails, EmailSent, Reaches, Busy, TypeOK, BusyWorker
<1>3. CASE UNCHANGED emails
  BY <1>2, <1>3, EmailFrame
<1>4. CASE emails' = emails \cup {Email(w)}
  <2>1. Email(w).job = wk[w].job /\ Email(w).attempt = wk[w].attempt
    BY DEF Email
  <2>2. \A e \in emails' : e.attempt \in 1..MaxAttempts /\ e.attempt <= jobs'[e.job].attempts
    BY <1>1, <1>4, <2>1 DEF EmailInv, EmailsCounted
  <2>3. ASSUME NEW v \in Workers, wk'[v].pc = "side_effects"
        PROVE  /\ \A e \in emails' : e.job = wk'[v].job => e.attempt # wk'[v].attempt
               /\ \A u \in Workers \ {v} :
                    Busy(u)' /\ wk'[u].job = wk'[v].job => wk'[u].attempt # wk'[v].attempt
    <3>1. v # w /\ wk[v].pc = "side_effects"
      BY <1>2, <2>3
    <3>2. QED
      BY <1>1, <1>2, <1>4, <2>1, <3>1 DEF EmailInv, EmailsCounted
  <2>4. \A v \in Workers : Busy(v)' =>
          /\ wk'[v].attempt \in 1..MaxAttempts
          /\ wk'[v].attempt <= jobs'[wk'[v].job].attempts
    BY <1>1, <1>2 DEF EmailInv
  <2>5. QED
    BY <2>2, <2>3, <2>4 DEF EmailInv, EmailsCounted
<1>5. QED
  BY <1>3, <1>4 DEF SideEffects, EmailFails, EmailSent

\* No step breaks the numbering of emails and attempts.
LEMMA EmailNext == TypeOK /\ EmailInv /\ [Next]_vars => EmailInv'
<1>1. SUFFICES ASSUME TypeOK, EmailInv, [Next]_vars PROVE EmailInv'
  OBVIOUS
<1>2. ASSUME wk' = wk, emails' = emails
      PROVE  EmailInv'
  <2>1. \A v \in Workers : Busy(v)' =>
          /\ Busy(v) /\ wk'[v].job = wk[v].job /\ wk'[v].attempt = wk[v].attempt
          /\ wk'[v].pc = "side_effects" => wk[v].pc = "side_effects"
    BY <1>2 DEF Busy
  <2>2. QED
    BY <1>1, <1>2, <2>1, EmailFrame
<1>3. ASSUME NEW w \in Workers, wk' = [wk EXCEPT ![w] = IdleWorker], emails' = emails
      PROVE  EmailInv'
  <2>1. \A v \in Workers : wk'[v] = IF v = w THEN IdleWorker ELSE wk[v]
    BY <1>1, <1>3 DEF TypeOK
  <2>2. ~Busy(w)'
    BY <2>1 DEF Busy, IdleWorker
  <2>3. \A v \in Workers : Busy(v)' =>
          /\ Busy(v) /\ wk'[v].job = wk[v].job /\ wk'[v].attempt = wk[v].attempt
          /\ wk'[v].pc = "side_effects" => wk[v].pc = "side_effects"
    BY <2>1, <2>2 DEF Busy
  <2>4. QED
    BY <1>1, <1>3, <2>3, EmailFrame
<1>4. CASE \E r \in Reviewers : ReviewerStep(r) \/ ApiStep(r) \/ ApiCrash(r)
  <2>1. wk' = wk /\ emails' = emails
    BY <1>4 DEF ReviewerStep, ApiStep, Open, update_draft, reject_work_item, reopen_work_item,
       ApproveLookup, ApproveCommit, ApproveRefused, retry_processing, EnqueueOk, EnqueueRaises,
       mark_processing_enqueue_failed, RegenerateStart, RegenerateSave, RegenerateDiscarded,
       mark_regeneration_failed, ApiCrash
  <2>2. QED
    BY <1>2, <2>1
<1>5. ASSUME NEW j \in JobIds, NEW w \in Workers, NEW n \in 0..CeleryMaxRetries, Receive(w, j, n)
      PROVE  EmailInv'
  <2>1. emails' = emails /\ (wk' = wk \/ BeginAttempt(w, j, n))
    BY <1>5 DEF Receive, FinishedJob, SentItem, UnclaimableItem, AttemptsExceeded,
       ActivationRefused
  <2>2. CASE BeginAttempt(w, j, n)
    BY <1>1, <2>1, <2>2, EmailBegin
  <2>3. QED
    BY <1>2, <2>1, <2>2
<1>6. ASSUME NEW w \in Workers, TaskStep(w) \/ WorkerDies(w)
      PROVE  EmailInv'
  <2>1. CASE SideEffects(w)
    BY <1>1, <2>1, EmailSend
  <2>2. CASE RecordError(w) \/ CompleteProcessing(w) \/ WorkerDies(w)
    <3>1. wk' = [wk EXCEPT ![w] = IdleWorker] /\ emails' = emails
      BY <2>2 DEF RecordError, CompleteProcessing, WorkerDies
    <3>2. QED
      BY <1>3, <3>1
  <2>3. QED
    BY <1>6, <2>1, <2>2 DEF TaskStep
<1>7. ASSUME NEW j \in JobIds, Age(j) \/ \E n \in 0..CeleryMaxRetries : LoseMessage(j, n)
      PROVE  EmailInv'
  BY <1>2, <1>7 DEF Age, LoseMessage
<1>8. CASE UNCHANGED vars
  BY <1>2, <1>8
<1>9. QED
  BY <1>1, <1>4, <1>5, <1>6, <1>7, <1>8 DEF Next, Failure, ReceiveJob

\* No attempt sends two emails, so a job sends at most max_attempts of them.
THEOREM EmailsBounded == Spec => []EmailsCounted
<1>1. EmailInv => EmailsCounted
  BY DEF EmailInv
<1>2. QED
  BY <1>1, EmailInitially, EmailNext, TypeCorrect, PTL DEF Spec

=============================================================================
