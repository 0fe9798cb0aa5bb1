--------------------------- MODULE ApprovalProofs ---------------------------
(***************************************************************************)
(* Proofs about approvals: what an email carries, and how often a key      *)
(* creates a job.                                                          *)
(***************************************************************************)
EXTENDS WorkbenchProofs

USE DEF dbVars, vars

-----------------------------------------------------------------------------
(* Every draft on its way to an email has been approved.  An approval writes *)
(* the snapshot and nothing resets it, so an item that can be retried has    *)
(* one and retry never falls back on the live draft.                         *)

Approved(d) == \E a \in approvals : a.draft = d

ApprovalInv ==
  /\ item.status \in {"PROCESSING", "FAILED"} => item.snapshot # NoDraft
  /\ \A r \in Reviewers : tab[r].pc \in {"enqueue", "mark_failed"} => item.snapshot # NoDraft
  /\ item.snapshot # NoDraft => Approved(item.snapshot)
  /\ \A w \in Workers : Busy(w) => Approved(wk[w].body)
  /\ \A e \in emails : Approved(e.body)

\* A failing job keeps the snapshot and fails no item that was not PROCESSING.
LEMMA FailedJobKeepsSnapshot ==
  ASSUME TypeOK
  PROVE  /\ FailedWithJob(item).snapshot = item.snapshot
         /\ FailedWithJob(item).status \in {"PROCESSING", "FAILED"}
              => item.status \in {"PROCESSING", "FAILED"}
<1>1. \A s \in WorkItemStatus : Moved(item, s).snapshot = item.snapshot
  BY MovedRow DEF TypeOK
<1>2. Moved(item, "FAILED").snapshot = item.snapshot
  BY <1>1 DEF WorkItemStatus
<1>3. QED
  BY <1>2 DEF FailedWithJob

\* A seeded FAILED item starts with an approved snapshot, any other with none.
LEMMA ApprovalInit == Init => ApprovalInv
<1>1. SUFFICES ASSUME Init PROVE ApprovalInv
  OBVIOUS
<1>2. PICK s \in SeedStatuses, d \in Drafts :
        /\ item = SeedItem(s, d)
        /\ approvals = IF s = "FAILED" THEN {[draft |-> d, shown |-> d]} ELSE {}
  BY <1>1 DEF Init
<1>3. /\ item.status = s
      /\ item.snapshot = IF s = "FAILED" THEN d ELSE NoDraft
  BY <1>2 DEF SeedItem
<1>4. item.snapshot # NoDraft => s = "FAILED" /\ item.snapshot = d
  BY <1>3
<1>5. s = "FAILED" => item.snapshot # NoDraft /\ Approved(d)
  BY <1>2, <1>3, StoreAssumption DEF Approved
<1>6. \A r \in Reviewers : tab[r].pc = "idle"
  BY <1>1 DEF Init, Showing
<1>7. (\A w \in Workers : ~Busy(w)) /\ emails = {}
  BY <1>1 DEF Init, Busy, IdleWorker
<1>8. s # "PROCESSING"
  BY StoreAssumption
<1>9. QED
  BY <1>3, <1>4, <1>5, <1>6, <1>7, <1>8 DEF ApprovalInv

\* Steps that leave the snapshot, the approvals, the workers and the emails alone.
LEMMA ApprovalFrame ==
  ASSUME ApprovalInv, UNCHANGED <<wk, emails, approvals>>,
         item'.snapshot = item.snapshot,
         item'.status \in {"PROCESSING", "FAILED"} => item.snapshot # NoDraft,
         \A r \in Reviewers : tab'[r].pc \in {"enqueue", "mark_failed"} => item.snapshot # NoDraft
  PROVE  ApprovalInv'
BY DEF ApprovalInv, Approved, Busy

\* Only an approval and a retry set the snapshot, each to an approved draft.
LEMMA ApprovalReviewNext ==
  ASSUME TypeOK, ApprovalInv, NEW r \in Reviewers, ReviewerStep(r) \/ ApiStep(r) \/ ApiCrash(r)
  PROVE  ApprovalInv'
<1>1. /\ \A s \in Reviewers : tab[s].pc \in {"enqueue", "mark_failed"} => item.snapshot # NoDraft
      /\ item.status \in {"PROCESSING", "FAILED"} => item.snapshot # NoDraft
  BY DEF ApprovalInv
<1>2. \A s \in WorkItemStatus :
        Moved(item, s).status = s /\ Moved(item, s).snapshot = item.snapshot
  BY MovedRow DEF TypeOK
<1>3. ASSUME NEW t, tab' = [tab EXCEPT ![r] = t],
             t.pc \in {"enqueue", "mark_failed"} => item.snapshot # NoDraft
      PROVE  \A s \in Reviewers : tab'[s].pc \in {"enqueue", "mark_failed"} => item.snapshot # NoDraft
  BY <1>1, <1>3 DEF TypeOK
<1>4. Idle(tab[r]).pc = "idle"
  BY DEF Idle, InRequest
<1>5. CASE Open(r)
  BY <1>1, <1>3, <1>5, ApprovalFrame DEF Open, Showing
<1>6. CASE \E d \in Drafts : update_draft(r, d)
  BY <1>1, <1>6, EditedRow, ApprovalFrame DEF update_draft
<1>7. CASE reject_work_item(r) \/ reopen_work_item(r)
  BY <1>1, <1>2, <1>7, ApprovalFrame DEF reject_work_item, reopen_work_item, WorkItemStatus
<1>8. CASE \E k \in Keys : ApproveLookup(r, k)
  BY <1>1, <1>3, <1>8, ApprovalFrame DEF ApproveLookup, InRequest
<1>9. CASE ApproveCommit(r)
  <2>1. item.final_draft \in Drafts /\ item.final_draft # NoDraft
    BY StoreAssumption DEF TypeOK, ItemRow
  <2>2. item'.snapshot = item.final_draft
    <3>1. Moved(item, "PROCESSING") \in ItemRow
      BY MovedRow DEF TypeOK, WorkItemStatus
    <3>2. QED
      BY <1>9, <3>1 DEF ApproveCommit, ApprovedSnapshot, ItemRow
  <2>3. approvals' = approvals \cup {[draft |-> item.final_draft, shown |-> tab[r].draft]}
    BY <1>9 DEF ApproveCommit, ApprovedSnapshot
  <2>4. \E a \in approvals' : a.draft = item'.snapshot
    <3> DEFINE a == [draft |-> item.final_draft, shown |-> tab[r].draft]
    <3>1. a \in approvals' /\ a.draft = item'.snapshot
      BY <2>2, <2>3
    <3>2. QED
      BY <3>1
  <2>5. approvals \subseteq approvals' /\ UNCHANGED <<wk, emails>>
    BY <1>9, <2>3 DEF ApproveCommit
  <2>6. \A w \in Workers : Busy(w)' => Approved(wk[w].body)'
    BY <2>5 DEF ApprovalInv, Approved, Busy
  <2>7. \A e \in emails' : \E a \in approvals' : a.draft = e.body
    BY <2>5 DEF ApprovalInv, Approved
  <2>8. QED
    BY <2>1, <2>2, <2>4, <2>6, <2>7 DEF ApprovalInv, Approved
<1>10. CASE ApproveRefused(r) \/ EnqueueOk(r) \/ RegenerateDiscarded(r) \/ ApiCrash(r)
  BY <1>1, <1>3, <1>4, <1>10, ApprovalFrame DEF ApproveRefused, EnqueueOk, RegenerateDiscarded, ApiCrash
<1>11. CASE retry_processing(r)
  <2>1. item.status \in {"PROCESSING", "FAILED"}
    BY <1>11 DEF retry_processing, Requested, Admits, can_perform_action, VALID_ACTIONS, TypeOK,
       ItemRow, WorkItemStatus
  <2>2. item.snapshot # NoDraft
    BY <1>1, <2>1
  <2>3. item'.snapshot = item.snapshot
    <3>1. Moved(item, "PROCESSING") \in ItemRow
      BY MovedRow DEF TypeOK, WorkItemStatus
    <3>2. QED
      BY <1>11, <2>2, <3>1 DEF retry_processing, RetrySnapshot, ItemRow
  <2>4. \A s \in Reviewers : tab'[s].pc \in {"enqueue", "mark_failed"} => item.snapshot # NoDraft
    BY <2>2
  <2>5. QED
    BY <1>11, <2>2, <2>3, <2>4, ApprovalFrame DEF retry_processing
<1>12. CASE EnqueueRaises(r)
  <2>1. item.snapshot # NoDraft
    BY <1>1, <1>12 DEF EnqueueRaises
  <2>2. QED
    BY <1>12, <2>1, ApprovalFrame DEF EnqueueRaises
<1>13. CASE mark_processing_enqueue_failed(r)
  <2>1. item.snapshot # NoDraft
    BY <1>1, <1>13 DEF mark_processing_enqueue_failed
  <2>2. QED
    BY <1>13, <2>1, EnqueueFailedRow, ApprovalFrame DEF mark_processing_enqueue_failed
<1>14. CASE RegenerateStart(r)
  BY <1>1, <1>2, <1>3, <1>14, ApprovalFrame DEF RegenerateStart, MarkRegenerating, InRequest,
     WorkItemStatus
<1>15. CASE RegenerateSave(r)
  <2>1. /\ item'.snapshot = item.snapshot
        /\ item'.status = "PENDING_REVIEW"
    <3>1. Moved(item, "PENDING_REVIEW") \in ItemRow
      BY MovedRow DEF TypeOK, WorkItemStatus
    <3>2. QED
      BY <1>2, <1>15, <3>1 DEF RegenerateSave, RegeneratedItem, ItemRow, WorkItemStatus
  <2>2. QED
    BY <1>3, <1>4, <1>15, <2>1, ApprovalFrame DEF RegenerateSave
<1>16. CASE mark_regeneration_failed(r)
  BY <1>1, <1>2, <1>3, <1>4, <1>16, ApprovalFrame DEF mark_regeneration_failed, WorkItemStatus
<1>17. QED
  BY <1>5, <1>6, <1>7, <1>8, <1>9, <1>10, <1>11, <1>12, <1>13, <1>14, <1>15, <1>16
     DEF ReviewerStep, ApiStep


\* The worker takes the snapshot into memory and emails what it took.
LEMMA ApprovalWorkerNext ==
  ASSUME TypeOK, ApprovalInv, NEW w \in Workers,
         \/ \E j \in JobIds, n \in 0..CeleryMaxRetries : Receive(w, j, n)
         \/ TaskStep(w)
         \/ WorkerDies(w)
  PROVE  ApprovalInv'
<1>1. UNCHANGED <<tab, approvals>>
  BY DEF Receive, TaskStep, SideEffects, RecordError, CompleteProcessing, WorkerDies
<1>2. /\ FailedWithJob(item).snapshot = item.snapshot
      /\ FailedWithJob(item).status \in {"PROCESSING", "FAILED"}
           => item.status \in {"PROCESSING", "FAILED"}
  BY FailedJobKeepsSnapshot
<1>3. Moved(item, "SENT").snapshot = item.snapshot /\ Moved(item, "SENT").status = "SENT"
  <2>1. \A s \in WorkItemStatus :
          Moved(item, s).status = s /\ Moved(item, s).snapshot = item.snapshot
    BY MovedRow DEF TypeOK
  <2>2. QED
    BY <2>1 DEF WorkItemStatus
<1>4. /\ item'.snapshot = item.snapshot
      /\ item'.status \in {"PROCESSING", "FAILED"} => item.status \in {"PROCESSING", "FAILED"}
  <2>1. CASE \E j \in JobIds, n \in 0..CeleryMaxRetries : Receive(w, j, n)
    BY <1>2, <2>1 DEF Receive, FinishedJob, SentItem, UnclaimableItem, AttemptsExceeded,
       ActivationRefused, BeginAttempt, MarkJobFailed
  <2>2. CASE SideEffects(w) \/ WorkerDies(w)
    BY <2>2 DEF SideEffects, WorkerDies
  <2>3. CASE RecordError(w)
    BY <1>2, <2>3 DEF RecordError, GiveUp, Requeue, RequeueRefused, MarkJobFailed
  <2>4. CASE CompleteProcessing(w)
    BY <1>2, <1>3, <2>4 DEF CompleteProcessing, Deliver, AlreadySent, CompletionRefused,
       MarkJobFailed
  <2>5. QED
    BY <2>1, <2>2, <2>3, <2>4 DEF TaskStep
<1>5. \A v \in Workers : Busy(v)' => Approved(wk[v].body)'
  <2>1. \A v \in Workers : Busy(v) => \E a \in approvals : a.draft = wk[v].body
    BY DEF ApprovalInv, Approved
  <2>2. ASSUME NEW j \in JobIds, NEW n \in 0..CeleryMaxRetries, Receive(w, j, n), UNCHANGED wk
        PROVE  \A v \in Workers : Busy(v)' => Approved(wk[v].body)'
    BY <1>1, <2>1, <2>2 DEF Approved, Busy
  <2>3. ASSUME NEW j \in JobIds, NEW n \in 0..CeleryMaxRetries, BeginAttempt(w, j, n)
        PROVE  \A v \in Workers : Busy(v)' => Approved(wk[v].body)'
    <3>1. AttemptBody # NoDraft => \E a \in approvals : a.draft = AttemptBody
      BY DEF AttemptBody, ApprovalInv, Approved
    <3>2. QED
      BY <1>1, <2>1, <2>3, <3>1 DEF BeginAttempt, Approved, Busy, TypeOK, IdleWorker
  <2>4. CASE SideEffects(w)
    <3>1. Busy(w) /\ wk[w] \in BusyWorker
      BY <2>4 DEF SideEffects, Busy, TypeOK, IdleWorker
    <3>2. \A v \in Workers : wk'[v].body = wk[v].body /\ (Busy(v)' => Busy(v))
      BY <2>4, <3>1 DEF SideEffects, EmailFails, EmailSent, Reaches, Busy, TypeOK, BusyWorker
    <3>3. QED
      BY <1>1, <2>1, <3>2 DEF Approved
  <2>5. CASE wk' = [wk EXCEPT ![w] = IdleWorker]
    BY <1>1, <2>1, <2>5 DEF Approved, Busy, TypeOK, IdleWorker
  <2>6. QED
    BY <2>2, <2>3, <2>4, <2>5 DEF Receive, FinishedJob, SentItem, UnclaimableItem,
       AttemptsExceeded, ActivationRefused, TaskStep, RecordError, CompleteProcessing, WorkerDies
<1>6. \A e \in emails' : Approved(e.body)'
  <2>1. CASE SideEffects(w)
    <3>1. \E a \in approvals : a.draft = Email(w).body
      BY <2>1 DEF SideEffects, ApprovalInv, Approved, Busy, Email
    <3>2. QED
      BY <1>1, <2>1, <3>1 DEF SideEffects, EmailFails, EmailSent, ApprovalInv, Approved
  <2>2. CASE UNCHANGED emails
    BY <1>1, <2>2 DEF ApprovalInv, Approved
  <2>3. QED
    BY <2>1, <2>2 DEF Receive, TaskStep, RecordError, CompleteProcessing, WorkerDies
<1>7. QED
  BY <1>1, <1>4, <1>5, <1>6 DEF ApprovalInv, Approved

\* Every step keeps whatever is to be sent, or was sent, approved.
LEMMA ApprovalNext == TypeOK /\ ApprovalInv /\ [Next]_vars => ApprovalInv'
<1> SUFFICES ASSUME TypeOK, ApprovalInv, [Next]_vars PROVE ApprovalInv'
  OBVIOUS
<1>1. CASE \E r \in Reviewers : ReviewerStep(r) \/ ApiStep(r) \/ ApiCrash(r)
  BY <1>1, ApprovalReviewNext
<1>2. CASE \E w \in Workers : TaskStep(w) \/ WorkerDies(w)
  BY <1>2, ApprovalWorkerNext
<1>3. CASE \E j \in JobIds : ReceiveJob(j)
  BY <1>3, ApprovalWorkerNext DEF ReceiveJob
<1>4. CASE UNCHANGED <<item, tab, wk, emails, approvals>>
  BY <1>4 DEF ApprovalInv, Approved, Busy
<1>5. QED
  BY <1>1, <1>2, <1>3, <1>4 DEF Next, Failure, Age, LoseMessage

\* No email carries a text that nobody approved, whatever fails and however
\* edits, regenerations, retries and workers interleave.
THEOREM OnlyApprovedEmails == Spec => []EmailBodyApproved
<1>1. Init => ApprovalInv
  BY ApprovalInit
<1>2. TypeOK /\ ApprovalInv /\ [Next]_vars => ApprovalInv'
  BY ApprovalNext
<1>3. ApprovalInv => EmailBodyApproved
  BY DEF ApprovalInv, Approved, EmailBodyApproved
<1>4. QED
  BY <1>1, <1>2, <1>3, TypeCorrect, PTL DEF Spec

-----------------------------------------------------------------------------
(* One job per idempotency key: a job that carries a key was created when the *)
(* key was unused, and the same transaction stored the key.                   *)

KeyInv ==
  /\ \A r \in Reviewers : tab[r].pc = "approve" => tab[r].version > 0 /\ tab[r].key \in Keys
  /\ \A j \in JobIds : jobs[j].key # NoKey => keys[jobs[j].key] > 0
  /\ OneJobPerKey

\* Seeded jobs carry no idempotency key.
LEMMA KeyInit == Init => KeyInv
<1>1. SUFFICES ASSUME Init PROVE KeyInv
  OBVIOUS
<1>2. \A r \in Reviewers : tab[r].pc = "idle"
  BY <1>1 DEF Init, Showing
<1>3. \A j \in JobIds : jobs[j].key = NoKey
  BY <1>1 DEF Init, SeedJob, NoRow
<1>4. QED
  BY <1>2, <1>3 DEF KeyInv, OneJobPerKey

\* Steps that touch neither the keys nor any job's key.
LEMMA KeyFrame ==
  ASSUME KeyInv, UNCHANGED keys, \A j \in JobIds : jobs'[j].key = jobs[j].key,
         \A r \in Reviewers : tab'[r].pc = "approve" =>
           tab'[r].version > 0 /\ tab'[r].key \in Keys
  PROVE  KeyInv'
BY DEF KeyInv, OneJobPerKey

\* An approval stores its key with the job it creates; no other request makes a job
\* with a key.
LEMMA KeyReviewNext ==
  ASSUME TypeOK, KeyInv, NEW r \in Reviewers, ReviewerStep(r) \/ ApiStep(r) \/ ApiCrash(r)
  PROVE  KeyInv'
<1>1. \A s \in Reviewers : tab[s].pc = "approve" => tab[s].version > 0 /\ tab[s].key \in Keys
  BY DEF KeyInv
<1>2. ASSUME NEW t, tab' = [tab EXCEPT ![r] = t],
             t.pc = "approve" => t.version > 0 /\ t.key \in Keys
      PROVE  \A s \in Reviewers : tab'[s].pc = "approve" => tab'[s].version > 0 /\ tab'[s].key \in Keys
  BY <1>1, <1>2 DEF TypeOK
<1>3. Idle(tab[r]).pc = "idle" /\ \A j : Publishing(tab[r], j).pc = "enqueue"
  BY DEF Idle, Publishing, InRequest
<1>4. CASE Open(r)
  BY <1>2, <1>4, KeyFrame DEF Open, Showing
<1>5. CASE (\E d \in Drafts : update_draft(r, d)) \/ reject_work_item(r) \/ reopen_work_item(r)
  BY <1>1, <1>5, KeyFrame DEF update_draft, reject_work_item, reopen_work_item
<1>6. CASE \E k \in Keys : ApproveLookup(r, k)
  BY <1>2, <1>6, KeyFrame DEF ApproveLookup, InRequest
<1>7. CASE ApproveCommit(r)
  <2> DEFINE k == tab[r].key
  <2>1. k \in Keys /\ tab[r].version > 0 /\ keys[k] = 0
    BY <1>1, <1>7 DEF ApproveCommit, ApprovalAdmitted, KeyIsNew
  <2>2. PICK j \in JobIds :
          /\ jobs' = [jobs EXCEPT ![j] = QueuedRow(k)]
          /\ tab' = [tab EXCEPT ![r] = Publishing(@, j)]
    BY <1>7 DEF ApproveCommit, CreateJob, NextJob
  <2>3. QueuedRow(k).key = k
    BY <2>1, QueuedJobRow
  <2>4. keys' = [keys EXCEPT ![k] = tab[r].version] /\ tab[r].version > 0
    BY <1>7, <2>1 DEF ApproveCommit, StoreKey
  <2>5. \A i \in JobIds : jobs[i].key # NoKey => jobs[i].key # k
    BY <2>1 DEF KeyInv, TypeOK
  <2>6. /\ jobs'[j].key = k
        /\ \A i \in JobIds : i # j => jobs'[i] = jobs[i]
    BY <2>2, <2>3 DEF TypeOK
  <2>7. \A i \in JobIds : jobs'[i].key # NoKey => keys'[jobs'[i].key] > 0
    BY <2>1, <2>4, <2>6 DEF KeyInv, TypeOK, JobRow, NoRow
  <2>8. OneJobPerKey'
    BY <2>5, <2>6 DEF KeyInv, OneJobPerKey
  <2>9. \A s \in Reviewers : tab'[s].pc = "approve" => tab'[s].version > 0 /\ tab'[s].key \in Keys
    BY <1>2, <1>3, <2>2
  <2>10. QED
    BY <2>7, <2>8, <2>9 DEF KeyInv
<1>8. CASE ApproveRefused(r) \/ EnqueueOk(r) \/ RegenerateDiscarded(r) \/ ApiCrash(r)
           \/ RegenerateSave(r) \/ mark_regeneration_failed(r)
  BY <1>2, <1>3, <1>8, KeyFrame DEF ApproveRefused, EnqueueOk, RegenerateDiscarded, ApiCrash,
     RegenerateSave, mark_regeneration_failed
<1>9. CASE retry_processing(r)
  <2>1. PICK j \in JobIds :
          /\ jobs[j] = NoRow
          /\ jobs' = [StaleJobsFailed EXCEPT ![j] = QueuedRow(NoKey)]
          /\ tab' = [tab EXCEPT ![r] = Publishing(@, j)]
    BY <1>9 DEF retry_processing, CreateJob, NextJob
  <2>2. QueuedRow(NoKey).key = NoKey /\ NoRow.key = NoKey
    BY QueuedJobRow DEF NoRow
  <2>3. \A i \in JobIds : StaleJobsFailed[i].key = jobs[i].key
    BY DEF StaleJobsFailed, TypeOK, JobRow, NoRow
  <2>4. \A i \in JobIds : jobs'[i].key = jobs[i].key
    BY <2>1, <2>2, <2>3 DEF StaleJobsFailed
  <2>5. QED
    BY <1>2, <1>3, <1>9, <2>1, <2>4, KeyFrame DEF retry_processing
<1>10. CASE EnqueueRaises(r)
  <2>1. [tab[r] EXCEPT !.pc = "mark_failed"].pc = "mark_failed"
    BY DEF TypeOK, TabState
  <2>2. QED
    BY <1>2, <1>10, <2>1, KeyFrame DEF EnqueueRaises
<1>11. CASE mark_processing_enqueue_failed(r)
  <2>1. \A j \in JobIds : jobs'[j].key = jobs[j].key
    BY <1>11 DEF mark_processing_enqueue_failed, TypeOK, JobRow, NoRow
  <2>2. QED
    BY <1>2, <1>3, <1>11, <2>1, KeyFrame DEF mark_processing_enqueue_failed
<1>12. CASE RegenerateStart(r)
  BY <1>2, <1>12, KeyFrame DEF RegenerateStart, InRequest
<1>13. QED
  BY <1>4, <1>5, <1>6, <1>7, <1>8, <1>9, <1>10, <1>11, <1>12 DEF ReviewerStep, ApiStep

\* A step of a worker or of time keeps every job's key.
LEMMA WorkerKeepsKeys ==
  ASSUME TypeOK,
         \/ \E w \in Workers, j \in JobIds, n \in 0..CeleryMaxRetries : Receive(w, j, n)
         \/ \E w \in Workers : TaskStep(w) \/ WorkerDies(w)
         \/ \E j \in JobIds : Age(j)
  PROVE  UNCHANGED <<keys, tab>> /\ \A i \in JobIds : jobs'[i].key = jobs[i].key
<1>1. \A i \in JobIds, s \in BackgroundJobStatus : [jobs[i] EXCEPT !.status = s].key = jobs[i].key
  BY DEF TypeOK, JobRow, NoRow
<1>2. ASSUME NEW j \in JobIds,
             \E s \in BackgroundJobStatus : jobs' = [jobs EXCEPT ![j].status = s]
      PROVE  \A i \in JobIds : jobs'[i].key = jobs[i].key
  BY <1>1, <1>2 DEF TypeOK
<1>3. ASSUME NEW w \in Workers, NEW j \in JobIds, NEW n \in 0..CeleryMaxRetries, Receive(w, j, n)
      PROVE  \A i \in JobIds : jobs'[i].key = jobs[i].key
  <2>1. CASE SentItem(j) \/ UnclaimableItem(j)
    BY <1>2, <2>1 DEF SentItem, UnclaimableItem, MarkJobFailed, BackgroundJobStatus
  <2>2. CASE AttemptsExceeded(j)
    BY <2>2, ExceededJobRow DEF AttemptsExceeded, TypeOK
  <2>3. CASE BeginAttempt(w, j, n)
    BY <2>3, StartedJobRow DEF BeginAttempt, TypeOK
  <2>4. QED
    BY <1>3, <2>1, <2>2, <2>3 DEF Receive, FinishedJob, ActivationRefused
<1>4. ASSUME NEW w \in Workers, TaskStep(w) \/ WorkerDies(w)
      PROVE  \A i \in JobIds : jobs'[i].key = jobs[i].key
  <2>1. CASE SideEffects(w) \/ WorkerDies(w)
    BY <2>1 DEF SideEffects, WorkerDies
  <2>2. CASE RecordError(w)
    <3>1. wk[w].job \in JobIds
      BY <2>2 DEF RecordError, TypeOK, BusyWorker, IdleWorker
    <3>2. QED
      BY <1>2, <2>2, <3>1 DEF RecordError, GiveUp, Requeue, RequeueRefused, MarkJobFailed,
         BackgroundJobStatus
  <2>3. CASE CompleteProcessing(w)
    <3>1. wk[w].job \in JobIds
      BY <2>3 DEF CompleteProcessing, TypeOK, BusyWorker, IdleWorker
    <3>2. QED
      BY <1>2, <2>3, <3>1 DEF CompleteProcessing, Deliver, AlreadySent, CompletionRefused,
         CompleteJob, MarkJobFailed, BackgroundJobStatus
  <2>4. QED
    BY <1>4, <2>1, <2>2, <2>3 DEF TaskStep
<1>5. ASSUME NEW j \in JobIds, Age(j)
      PROVE  \A i \in JobIds : jobs'[i].key = jobs[i].key
  BY <1>5 DEF Age, TypeOK, JobRow, NoRow
<1>6. UNCHANGED <<keys, tab>>
  BY DEF Receive, TaskStep, SideEffects, RecordError, CompleteProcessing, WorkerDies, Age
<1>7. QED
  BY <1>3, <1>4, <1>5, <1>6

\* Every step keeps the keys of the jobs distinct and recorded.
LEMMA KeyNext == TypeOK /\ KeyInv /\ [Next]_vars => KeyInv'
<1> SUFFICES ASSUME TypeOK, KeyInv, [Next]_vars PROVE KeyInv'
  OBVIOUS
<1>1. CASE \E r \in Reviewers : ReviewerStep(r) \/ ApiStep(r) \/ ApiCrash(r)
  BY <1>1, KeyReviewNext
<1>2. CASE UNCHANGED <<keys, tab>> /\ \A i \in JobIds : jobs'[i].key = jobs[i].key
  BY <1>2, KeyFrame DEF KeyInv
<1>3. QED
  BY <1>1, <1>2, WorkerKeepsKeys DEF Next, Failure, ReceiveJob, LoseMessage

\* An approval that is submitted again under its key, by a reload, a second tab
\* or a client's retry, never creates a second job.
THEOREM ApprovalIdempotent == Spec => []OneJobPerKey
<1>1. Init => KeyInv
  BY KeyInit
<1>2. TypeOK /\ KeyInv /\ [Next]_vars => KeyInv'
  BY KeyNext
<1>3. KeyInv => OneJobPerKey
  BY DEF KeyInv
<1>4. QED
  BY <1>1, <1>2, <1>3, TypeCorrect, PTL DEF Spec

=============================================================================
