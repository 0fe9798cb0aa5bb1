--------------------------- MODULE LifecycleProofs --------------------------
(***************************************************************************)
(* The workbench implements ItemLifecycle: with custody of the active job  *)
(* (CustodyProofs), every step is a step of the lifecycle or shows nothing *)
(* of it.  What holds of the lifecycle holds of the workbench.             *)
(***************************************************************************)
EXTENDS CustodyProofs, FiniteSetTheorems

USE DEF dbVars, vars

\* A worker that reaches completion has emailed the draft it holds.
EmailedInv ==
  \A w \in Workers : wk[w].pc = "complete" => \E e \in emails : e.body = wk[w].body

\* No worker is busy at first.
LEMMA EmailedInit == Init => EmailedInv
BY DEF Init, EmailedInv, IdleWorker

\* Only the side effects lead a worker to completion, and no email is ever taken back.
LEMMA EmailedNext == TypeOK /\ EmailedInv /\ [Next]_vars => EmailedInv'
<1> SUFFICES ASSUME TypeOK, EmailedInv, [Next]_vars PROVE EmailedInv'
  OBVIOUS
<1>1. CASE UNCHANGED <<wk, emails>>
  BY <1>1 DEF EmailedInv
<1>2. ASSUME NEW w \in Workers, wk' = [wk EXCEPT ![w] = IdleWorker], UNCHANGED emails
      PROVE  EmailedInv'
  BY <1>2 DEF EmailedInv, TypeOK, IdleWorker
<1>3. ASSUME NEW w \in Workers, SideEffects(w)
      PROVE  EmailedInv'
  <2>1. wk[w] \in BusyWorker
    BY <1>3 DEF SideEffects, TypeOK, IdleWorker
  <2>2. PICK pc \in {"complete", "error"} : /\ wk' = [wk EXCEPT ![w].pc = pc]
                                            /\ pc = "complete" => emails' = emails \cup {Email(w)}
                                            /\ emails \subseteq emails'
    BY <1>3 DEF SideEffects, EmailFails, EmailSent, Reaches
  <2>3. wk'[w].body = wk[w].body /\ wk'[w].pc = pc /\ \A v \in Workers : v # w => wk'[v] = wk[v]
    BY <2>1, <2>2 DEF TypeOK, BusyWorker
  <2>4. Email(w).body = wk[w].body
    BY DEF Email
  <2>5. QED
    BY <2>2, <2>3, <2>4 DEF EmailedInv
<1>4. ASSUME NEW w \in Workers, NEW j \in JobIds, NEW n \in 0..CeleryMaxRetries, Receive(w, j, n)
      PROVE  EmailedInv'
  <2>1. CASE BeginAttempt(w, j, n)
    <3>1. UNCHANGED emails
      BY <1>4 DEF Receive
    <3>2. wk'[w].pc # "complete"
      BY <2>1 DEF BeginAttempt, TypeOK, IdleWorker
    <3>3. \A v \in Workers : v # w => wk'[v] = wk[v]
      BY <2>1 DEF BeginAttempt, TypeOK
    <3>4. QED
      BY <3>1, <3>2, <3>3 DEF EmailedInv
  <2>2. QED
    BY <1>1, <1>4, <2>1 DEF Receive, FinishedJob, SentItem, UnclaimableItem, AttemptsExceeded,
       ActivationRefused
<1>5. CASE \E r \in Reviewers : ReviewerStep(r) \/ ApiStep(r) \/ ApiCrash(r)
  BY <1>1, <1>5 DEF ReviewerStep, ApiStep, Open, update_draft, reject_work_item,
     reopen_work_item, ApproveLookup, ApproveCommit, ApproveRefused, retry_processing, EnqueueOk,
     EnqueueRaises, mark_processing_enqueue_failed, RegenerateStart, RegenerateSave,
     RegenerateDiscarded, mark_regeneration_failed, ApiCrash
<1>6. QED
  BY <1>1, <1>2, <1>3, <1>4, <1>5 DEF Next, Failure, TaskStep, ReceiveJob, RecordError,
     CompleteProcessing, WorkerDies, Age, LoseMessage

LifecycleStep == [Lifecycle!Next]_(Lifecycle!lifecycle)

\* What is seeded is where a lifecycle may begin.
LEMMA LifecycleInit == Init => Lifecycle!Init
<1> SUFFICES ASSUME Init PROVE Lifecycle!Init
  OBVIOUS
<1>1. PICK s \in SeedStatuses, d \in Drafts :
        /\ item = SeedItem(s, d)
        /\ approvals = IF s = "FAILED" THEN {[draft |-> d, shown |-> d]} ELSE {}
  BY DEF Init
<1>2. /\ item.status = s /\ item.final_draft = d
      /\ item.snapshot = IF s = "FAILED" THEN d ELSE NoDraft
  BY <1>1 DEF SeedItem
<1>3. s \in {"PENDING_REVIEW", "FAILED", "REJECTED"}
  BY StoreAssumption
<1>4. {a.draft : a \in approvals} = IF s = "FAILED" THEN {d} ELSE {}
  <2>1. CASE s = "FAILED"
    <3>1. approvals = {[draft |-> d, shown |-> d]} /\ [draft |-> d, shown |-> d].draft = d
      BY <1>1, <2>1
    <3>2. {a.draft : a \in approvals} = {d}
      BY <3>1
    <3>3. QED
      BY <2>1, <3>2
  <2>2. CASE s # "FAILED"
    BY <1>1, <2>2
  <2>3. QED
    BY <2>1, <2>2
<1>5. {e.body : e \in emails} = {}
  BY DEF Init
<1>6. QED
  BY <1>2, <1>3, <1>4, <1>5 DEF Lifecycle!Init

\* Steps of which nothing shows.
LEMMA LifecycleStutter ==
  ASSUME item' = item, UNCHANGED <<approvals, emails>>
  PROVE  LifecycleStep
BY DEF LifecycleStep, Lifecycle!lifecycle

\* A step that moves the item and emails or approves nothing.
LEMMA LifecycleMove ==
  ASSUME TypeOK, NEW s \in WorkItemStatus, item' = Moved(item, s), UNCHANGED <<approvals, emails>>,
         \/ item.status \in {"PENDING_REVIEW", "FAILED"} /\ s \in {"REGENERATING", "REJECTED"}
         \/ item.status \in {"REGENERATING", "REJECTED"} /\ s = "PENDING_REVIEW"
         \/ item.status = "PROCESSING" /\ s = "FAILED"
         \/ item.status = "PROCESSING" /\ s = "SENT" /\ \E e \in emails : e.body = item.snapshot
  PROVE  LifecycleStep
<1>1. /\ item'.status = s /\ item'.final_draft = item.final_draft
      /\ item'.snapshot = item.snapshot
  BY MovedFields
<1>2. item.final_draft \in Drafts
  BY DEF TypeOK, ItemRow
<1>3. CASE item.status \in {"PENDING_REVIEW", "FAILED"} /\ s = "REGENERATING"
  BY <1>1, <1>3 DEF LifecycleStep, Lifecycle!Next, Lifecycle!Regenerate, Lifecycle!Reviewable,
     Lifecycle!Becomes
<1>4. CASE item.status \in {"PENDING_REVIEW", "FAILED"} /\ s = "REJECTED"
  BY <1>1, <1>4 DEF LifecycleStep, Lifecycle!Next, Lifecycle!Reject, Lifecycle!Reviewable,
     Lifecycle!Becomes
<1>5. CASE item.status = "REGENERATING" /\ s = "PENDING_REVIEW"
  BY <1>1, <1>2, <1>5 DEF LifecycleStep, Lifecycle!Next, Lifecycle!Regenerated, Lifecycle!Becomes
<1>6. CASE item.status = "REJECTED" /\ s = "PENDING_REVIEW"
  BY <1>1, <1>6 DEF LifecycleStep, Lifecycle!Next, Lifecycle!Reopen, Lifecycle!Becomes
<1>7. CASE item.status = "PROCESSING" /\ s = "FAILED"
  BY <1>1, <1>7 DEF LifecycleStep, Lifecycle!Next, Lifecycle!Fail, Lifecycle!Becomes
<1>8. CASE item.status = "PROCESSING" /\ s = "SENT" /\ \E e \in emails : e.body = item.snapshot
  <2>1. item.snapshot \in {e.body : e \in emails}
    BY <1>8
  <2>2. QED
    BY <1>1, <1>8, <2>1 DEF LifecycleStep, Lifecycle!Next, Lifecycle!Deliver, Lifecycle!Becomes
<1>9. QED
  BY <1>3, <1>4, <1>5, <1>6, <1>7, <1>8

\* A job that fails takes a PROCESSING item to FAILED, or changes nothing that shows.
LEMMA LifecycleJobFails ==
  ASSUME TypeOK, item' = FailedWithJob(item), UNCHANGED <<approvals, emails>>
  PROVE  LifecycleStep
BY LifecycleMove, LifecycleStutter DEF FailedWithJob, WorkItemStatus

\* An approval approves the live draft.
LEMMA LifecycleApprove ==
  ASSUME TypeOK, NEW r \in Reviewers, ApproveCommit(r)
  PROVE  LifecycleStep
<1>1. item.status \in {"PENDING_REVIEW", "FAILED"}
  BY DEF ApproveCommit, ApprovalAdmitted, Admits, can_perform_action, VALID_ACTIONS, TypeOK, ItemRow,
     WorkItemStatus
<1>2. /\ item'.status = "PROCESSING" /\ item'.final_draft = item.final_draft
      /\ item'.snapshot = item.final_draft
  <2>1. /\ Moved(item, "PROCESSING") \in ItemRow
        /\ Moved(item, "PROCESSING").status = "PROCESSING"
        /\ Moved(item, "PROCESSING").final_draft = item.final_draft
    BY MovedFields DEF WorkItemStatus
  <2>2. item' = [Moved(item, "PROCESSING") EXCEPT !.snapshot = item.final_draft]
    BY DEF ApproveCommit, ApprovedSnapshot
  <2>3. QED
    BY <2>1, <2>2 DEF ItemRow
<1>3. {a.draft : a \in approvals'} = {a.draft : a \in approvals} \cup {item.final_draft}
  <2>1. approvals' = approvals \cup {[draft |-> item.final_draft, shown |-> tab[r].draft]}
    BY DEF ApproveCommit, ApprovedSnapshot
  <2>2. [draft |-> item.final_draft, shown |-> tab[r].draft].draft = item.final_draft
    OBVIOUS
  <2>3. QED
    BY <2>1, <2>2
<1>4. UNCHANGED emails
  BY DEF ApproveCommit
<1>5. QED
  BY <1>1, <1>2, <1>3, <1>4 DEF LifecycleStep, Lifecycle!Next, Lifecycle!Approve,
     Lifecycle!Reviewable, Lifecycle!Becomes

\* A retry resumes what was approved, and does not show while the item is PROCESSING.
LEMMA LifecycleRetry ==
  ASSUME TypeOK, ApprovalInv, NEW r \in Reviewers, retry_processing(r)
  PROVE  LifecycleStep
<1>1. item.status \in {"PROCESSING", "FAILED"}
  BY DEF retry_processing, Requested, Admits, can_perform_action, VALID_ACTIONS, TypeOK, ItemRow,
     WorkItemStatus
<1>2. item.snapshot \in Drafts /\ item.snapshot # NoDraft
  BY <1>1 DEF ApprovalInv, TypeOK, ItemRow
<1>3. /\ item'.status = "PROCESSING" /\ item'.final_draft = item.final_draft
      /\ item'.snapshot = item.snapshot
  <2>1. /\ Moved(item, "PROCESSING") \in ItemRow
        /\ Moved(item, "PROCESSING").status = "PROCESSING"
        /\ Moved(item, "PROCESSING").final_draft = item.final_draft
    BY MovedFields DEF WorkItemStatus
  <2>2. item' = [Moved(item, "PROCESSING") EXCEPT !.snapshot = item.snapshot]
    BY <1>2 DEF retry_processing, RetrySnapshot
  <2>3. QED
    BY <2>1, <2>2 DEF ItemRow
<1>4. UNCHANGED <<approvals, emails>>
  BY DEF retry_processing
<1>5. CASE item.status = "FAILED"
  BY <1>2, <1>3, <1>4, <1>5 DEF LifecycleStep, Lifecycle!Next, Lifecycle!Retry, Lifecycle!Becomes
<1>6. CASE item.status = "PROCESSING"
  BY <1>3, <1>4, <1>6 DEF LifecycleStep, Lifecycle!lifecycle
<1>7. QED
  BY <1>1, <1>5, <1>6

\* The failure handler of a publish takes a PROCESSING item to FAILED.
LEMMA LifecycleEnqueueFailed ==
  ASSUME TypeOK, CustodyInv, NEW r \in Reviewers, mark_processing_enqueue_failed(r)
  PROVE  LifecycleStep
<1>1. item.status = "PROCESSING"
  BY Custody DEF mark_processing_enqueue_failed, Publishes
<1>2. /\ item'.status = "FAILED" /\ item'.final_draft = item.final_draft
      /\ item'.snapshot = item.snapshot
  BY EnqueueFailedRow DEF mark_processing_enqueue_failed
<1>3. UNCHANGED <<approvals, emails>>
  BY DEF mark_processing_enqueue_failed
<1>4. QED
  BY <1>1, <1>2, <1>3 DEF LifecycleStep, Lifecycle!Next, Lifecycle!Fail, Lifecycle!Becomes

\* A saved draft is an edit of a reviewable item.
LEMMA LifecycleEdit ==
  ASSUME TypeOK, NEW r \in Reviewers, NEW d \in Drafts, update_draft(r, d)
  PROVE  LifecycleStep
<1>1. item.status \in {"PENDING_REVIEW", "FAILED"}
  BY DEF update_draft, Requested, Admits, can_perform_action, VALID_ACTIONS, TypeOK, ItemRow,
     WorkItemStatus
<1>2. /\ item'.status = item.status /\ item'.final_draft = d
      /\ item'.snapshot = item.snapshot
  BY EditedRow DEF update_draft
<1>3. UNCHANGED <<approvals, emails>>
  BY DEF update_draft
<1>4. QED
  BY <1>1, <1>2, <1>3 DEF LifecycleStep, Lifecycle!Next, Lifecycle!Edit, Lifecycle!Reviewable

\* A regeneration that saves its draft ends with that draft under review.
LEMMA LifecycleRegenerated ==
  ASSUME TypeOK, NEW r \in Reviewers, RegenerateSave(r)
  PROVE  LifecycleStep
<1>1. item.status = "REGENERATING" /\ UNCHANGED <<approvals, emails>>
  BY DEF RegenerateSave, StillRegenerating
<1>2. PICK d \in Drafts : item' = [Moved(item, "PENDING_REVIEW") EXCEPT !.final_draft = d]
  BY DEF RegenerateSave, GeneratedDrafts, RegeneratedItem
<1>3. /\ item'.status = "PENDING_REVIEW" /\ item'.final_draft = d
      /\ item'.snapshot = item.snapshot
  <2>1. /\ Moved(item, "PENDING_REVIEW") \in ItemRow
        /\ Moved(item, "PENDING_REVIEW").status = "PENDING_REVIEW"
        /\ Moved(item, "PENDING_REVIEW").snapshot = item.snapshot
    BY MovedFields DEF WorkItemStatus
  <2>2. QED
    BY <1>2, <2>1 DEF ItemRow
<1>4. QED
  BY <1>1, <1>3 DEF LifecycleStep, Lifecycle!Next, Lifecycle!Regenerated, Lifecycle!Becomes

\* The other operations of a reviewer move the item to another status.
LEMMA LifecycleReviewMove ==
  ASSUME TypeOK, NEW r \in Reviewers,
         \/ reject_work_item(r)
         \/ reopen_work_item(r)
         \/ RegenerateStart(r)
         \/ mark_regeneration_failed(r)
  PROVE  LifecycleStep
<1>1. item.status \in WorkItemStatus
  BY DEF TypeOK, ItemRow
<1>2. CASE reject_work_item(r)
  BY <1>1, <1>2, LifecycleMove DEF reject_work_item, Requested, Admits, can_perform_action,
     VALID_ACTIONS, WorkItemStatus
<1>3. CASE reopen_work_item(r)
  BY <1>1, <1>3, LifecycleMove DEF reopen_work_item, Requested, Admits, can_perform_action,
     VALID_ACTIONS, WorkItemStatus
<1>4. CASE RegenerateStart(r)
  BY <1>1, <1>4, LifecycleMove DEF RegenerateStart, MarkRegenerating, Requested, Admits,
     can_perform_action, VALID_ACTIONS, WorkItemStatus
<1>5. CASE mark_regeneration_failed(r)
  BY <1>5, LifecycleMove, LifecycleStutter
     DEF mark_regeneration_failed, StillRegenerating, WorkItemStatus
<1>6. QED
  BY <1>2, <1>3, <1>4, <1>5

\* Every request is an operation of the lifecycle or does not show.
LEMMA LifecycleReviewNext ==
  ASSUME TypeOK, CustodyInv, ApprovalInv, NEW r \in Reviewers,
         ReviewerStep(r) \/ ApiStep(r) \/ ApiCrash(r)
  PROVE  LifecycleStep
<1>1. CASE \/ Open(r)
           \/ \E k \in Keys : ApproveLookup(r, k)
           \/ ApproveRefused(r) \/ EnqueueOk(r) \/ EnqueueRaises(r) \/ RegenerateDiscarded(r)
           \/ ApiCrash(r)
  BY <1>1, LifecycleStutter DEF Open, ApproveLookup, ApproveRefused, EnqueueOk, EnqueueRaises,
     RegenerateDiscarded, ApiCrash
<1>2. QED
  BY <1>1, LifecycleEdit, LifecycleReviewMove, LifecycleApprove, LifecycleRetry,
     LifecycleRegenerated, LifecycleEnqueueFailed DEF ReviewerStep, ApiStep

\* An email leaves while the item is PROCESSING and carries what was approved.
LEMMA LifecycleSend ==
  ASSUME TypeOK, CustodyInv, NEW w \in Workers, SideEffects(w)
  PROVE  LifecycleStep
<1>1. item.status = "PROCESSING" /\ wk[w].body = item.snapshot
  BY Custody DEF SideEffects, Busy, CustodyInv, WorkerInv
<1>2. UNCHANGED <<item, approvals>>
  BY DEF SideEffects
<1>3. CASE EmailFails(w)
  BY <1>2, <1>3, LifecycleStutter DEF EmailFails
<1>4. CASE EmailSent(w)
  <2>1. emails' = emails \cup {Email(w)} /\ Email(w).body = item.snapshot
    BY <1>1, <1>4 DEF EmailSent, Email
  <2>2. {e.body : e \in emails'} = {e.body : e \in emails} \cup {item.snapshot}
    BY <2>1
  <2>3. QED
    BY <1>1, <1>2, <2>2 DEF LifecycleStep, Lifecycle!Next, Lifecycle!Send
<1>5. QED
  BY <1>3, <1>4 DEF SideEffects

\* A worker that completes delivers what it has emailed; the item is still PROCESSING.
LEMMA LifecycleComplete ==
  ASSUME TypeOK, CustodyInv, EmailedInv, NEW w \in Workers, CompleteProcessing(w)
  PROVE  LifecycleStep
<1>1. Busy(w)
  BY DEF CompleteProcessing, Busy
<1>2. item.status = "PROCESSING" /\ wk[w].body = item.snapshot
  BY <1>1, Custody DEF CustodyInv, WorkerInv
<1>3. \E e \in emails : e.body = item.snapshot
  BY <1>2 DEF CompleteProcessing, EmailedInv
<1>4. item' = Moved(item, "SENT") /\ UNCHANGED <<approvals, emails>>
  BY <1>2 DEF CompleteProcessing, Deliver, AlreadySent, CompletionRefused
<1>5. QED
  BY <1>2, <1>3, <1>4, LifecycleMove DEF WorkItemStatus

\* Every step of the workers delivers, fails or sends what was approved, or does
\* not show.
LEMMA LifecycleWorkerNext ==
  ASSUME TypeOK, CustodyInv, EmailedInv, NEW w \in Workers,
         \/ \E j \in JobIds, n \in 0..CeleryMaxRetries : Receive(w, j, n)
         \/ TaskStep(w)
         \/ WorkerDies(w)
  PROVE  LifecycleStep
<1>1. ASSUME NEW j \in JobIds, NEW n \in 0..CeleryMaxRetries, Receive(w, j, n)
      PROVE  LifecycleStep
  <2>1. UNCHANGED <<approvals, emails>> /\ (item' = item \/ item' = FailedWithJob(item))
    BY <1>1 DEF Receive, FinishedJob, SentItem, UnclaimableItem, MarkJobFailed, AttemptsExceeded,
       ActivationRefused, BeginAttempt
  <2>2. QED
    BY <2>1, LifecycleJobFails, LifecycleStutter
<1>2. CASE RecordError(w)
  <2>1. UNCHANGED <<approvals, emails>> /\ (item' = item \/ item' = FailedWithJob(item))
    BY <1>2 DEF RecordError, GiveUp, Requeue, RequeueRefused, MarkJobFailed
  <2>2. QED
    BY <2>1, LifecycleJobFails, LifecycleStutter
<1>3. CASE WorkerDies(w)
  BY <1>3, LifecycleStutter DEF WorkerDies
<1>4. QED
  BY <1>1, <1>2, <1>3, LifecycleSend, LifecycleComplete DEF TaskStep

\* Every step of the workbench is a step of the lifecycle or a stutter.
LEMMA LifecycleNext ==
  TypeOK /\ CustodyInv /\ ApprovalInv /\ EmailedInv /\ [Next]_vars => LifecycleStep
<1> SUFFICES ASSUME TypeOK, CustodyInv, ApprovalInv, EmailedInv, [Next]_vars PROVE LifecycleStep
  OBVIOUS
<1>1. CASE \E j \in JobIds : Age(j) \/ \E n \in 0..CeleryMaxRetries : LoseMessage(j, n)
  BY <1>1, LifecycleStutter DEF Age, LoseMessage
<1>2. CASE UNCHANGED vars
  BY <1>2, LifecycleStutter
<1>3. QED
  BY <1>1, <1>2, LifecycleReviewNext, LifecycleWorkerNext DEF Next, ReceiveJob, Failure

\* A behaviour takes such steps only.
LEMMA LifecycleAlways ==
  ASSUME Prompt
  PROVE  Spec => [][LifecycleStep]_vars
<1>1. Init => EmailedInv /\ ApprovalInv
  BY EmailedInit, ApprovalInit
<1>2. TypeOK /\ EmailedInv /\ [Next]_vars => EmailedInv'
  BY EmailedNext
<1>3. TypeOK /\ ApprovalInv /\ [Next]_vars => ApprovalInv'
  BY ApprovalNext
<1>4. TypeOK /\ CustodyInv /\ ApprovalInv /\ EmailedInv /\ [Next]_vars => [LifecycleStep]_vars
  BY LifecycleNext
<1>5. QED
  BY <1>1, <1>2, <1>3, <1>4, TypeCorrect, CustodyHolds, PTL DEF Spec

\* The review API, the queue and the workers implement what a reviewer is promised:
\* only what was approved is emailed, while PROCESSING, and SENT follows an email.
THEOREM Refinement ==
  ASSUME Prompt
  PROVE  Spec => ImplementsLifecycle
<1>1. [LifecycleStep]_vars => [Lifecycle!Next]_(Lifecycle!lifecycle)
  BY LifecycleStutter DEF LifecycleStep
<1>2. QED
  BY <1>1, LifecycleInit, LifecycleAlways, PTL DEF Spec, ImplementsLifecycle, Lifecycle!Spec

-----------------------------------------------------------------------------
(* What the lifecycle implies of the item. *)

\* Every operation of the lifecycle changes the status along the status machine.
LEMMA LifecycleTransitions ==
  TypeOK /\ LifecycleStep =>
    (item'.status # item.status => can_transition(item.status, item'.status))
BY DEF LifecycleStep, Lifecycle!Next, Lifecycle!lifecycle, Lifecycle!Edit, Lifecycle!Approve,
   Lifecycle!Retry, Lifecycle!Send, Lifecycle!Deliver, Lifecycle!Fail, Lifecycle!Regenerate,
   Lifecycle!Regenerated, Lifecycle!Reject, Lifecycle!Reopen, Lifecycle!Reviewable,
   Lifecycle!Becomes, can_transition, VALID_TRANSITIONS

\* Once an item is SENT the lifecycle keeps it, and it became SENT after its email.
LEMMA LifecycleSent ==
  SentMatchesSnapshot /\ LifecycleStep => SentMatchesSnapshot'
<1> DEFINE emailed == {e.body : e \in emails}
<1>1. SentMatchesSnapshot <=> (item.status = "SENT" => item.snapshot \in emailed)
  BY DEF SentMatchesSnapshot
<1>2. SentMatchesSnapshot' <=> (item'.status = "SENT" => item'.snapshot \in emailed')
  BY DEF SentMatchesSnapshot
<1>3. LifecycleStep =>
        \/ item'.status # "SENT"
        \/ item'.status = item.status /\ item'.snapshot = item.snapshot /\ emailed \subseteq emailed'
        \/ item'.snapshot \in emailed'
  BY DEF LifecycleStep, Lifecycle!Next, Lifecycle!lifecycle, Lifecycle!Edit, Lifecycle!Approve,
     Lifecycle!Retry, Lifecycle!Send, Lifecycle!Deliver, Lifecycle!Fail, Lifecycle!Regenerate,
     Lifecycle!Regenerated, Lifecycle!Reject, Lifecycle!Reopen, Lifecycle!Becomes
<1>4. QED
  BY <1>1, <1>2, <1>3

\* No interleaving takes the item along an edge that VALID_TRANSITIONS does not have.
THEOREM StatusMachineFollowed ==
  ASSUME Prompt
  PROVE  Spec => TransitionsValid
<1>1. TypeOK /\ [LifecycleStep]_vars
        => [item'.status # item.status => can_transition(item.status, item'.status)]_vars
  BY LifecycleTransitions
<1>2. QED
  BY <1>1, LifecycleAlways, TypeCorrect, PTL DEF TransitionsValid

\* A SENT item's snapshot is what an email carried.
THEOREM SentWasEmailed ==
  ASSUME Prompt
  PROVE  Spec => []SentMatchesSnapshot
<1>1. Init => SentMatchesSnapshot
  BY StoreAssumption DEF Init, SeedItem, SentMatchesSnapshot
<1>2. SentMatchesSnapshot /\ [LifecycleStep]_vars => SentMatchesSnapshot'
  BY LifecycleSent, LifecycleStutter
<1>3. QED
  BY <1>1, <1>2, LifecycleAlways, PTL DEF Spec

-----------------------------------------------------------------------------
(* Versions. *)

\* A step that does not leave the item alone writes the next version, the failure
\* handler of a publish too: its item is as the request's own commit left it.
LEMMA VersionNext == TypeOK /\ CustodyInv /\ [Next]_vars =>
                       item' = item \/ item'.version = item.version + 1
<1> SUFFICES ASSUME TypeOK, CustodyInv, [Next]_vars
             PROVE  item' = item \/ item'.version = item.version + 1
  OBVIOUS
<1> DEFINE Advances == item' = item \/ item'.version = item.version + 1
<1>1. \A s \in WorkItemStatus : item' = Moved(item, s) => Advances
  BY MovedFields
<1>2. item' = FailedWithJob(item) => Advances
  BY <1>1 DEF FailedWithJob, WorkItemStatus
<1>3. \A d : \A s \in WorkItemStatus : item' = [Moved(item, s) EXCEPT !.snapshot = d] => Advances
  <2> TAKE d
  <2> TAKE s \in WorkItemStatus
  <2>1. Moved(item, s) \in ItemRow /\ Moved(item, s).version = item.version + 1
    BY MovedFields
  <2>2. QED
    BY <2>1 DEF ItemRow
<1>4. \A d : \A s \in WorkItemStatus : item' = [Moved(item, s) EXCEPT !.final_draft = d] => Advances
  <2> TAKE d
  <2> TAKE s \in WorkItemStatus
  <2>1. Moved(item, s) \in ItemRow /\ Moved(item, s).version = item.version + 1
    BY MovedFields
  <2>2. QED
    BY <2>1 DEF ItemRow
<1>5. ASSUME NEW r \in Reviewers, NEW d \in Drafts, update_draft(r, d) PROVE Advances
  BY <1>5, EditedRow DEF update_draft
<1>6. ASSUME NEW r \in Reviewers, mark_processing_enqueue_failed(r) PROVE Advances
  <2>1. item.version = tab[r].version + 1 /\ tab[r].version \in Nat
    BY <1>6 DEF mark_processing_enqueue_failed, Publishes, CustodyInv, PublisherInv, TypeOK, TabState
  <2>2. item'.version = tab[r].version + 2
    BY <1>6, EnqueueFailedRow DEF mark_processing_enqueue_failed
  <2>3. QED
    BY <2>1, <2>2
<1>7. ASSUME NEW r \in Reviewers, ReviewerStep(r) \/ ApiStep(r) \/ ApiCrash(r) PROVE Advances
  <2>1. CASE ApproveCommit(r) \/ retry_processing(r)
    BY <1>3, <2>1 DEF ApproveCommit, retry_processing, WorkItemStatus
  <2>2. CASE RegenerateSave(r)
    BY <1>4, <2>2 DEF RegenerateSave, RegeneratedItem, WorkItemStatus
  <2>3. CASE reject_work_item(r) \/ reopen_work_item(r) \/ RegenerateStart(r)
             \/ mark_regeneration_failed(r)
    BY <1>1, <2>3 DEF reject_work_item, reopen_work_item, RegenerateStart, MarkRegenerating,
       mark_regeneration_failed, WorkItemStatus
  <2>4. QED
    BY <1>5, <1>6, <1>7, <2>1, <2>2, <2>3
       DEF ReviewerStep, ApiStep, Open, ApproveLookup, ApproveRefused, EnqueueOk, EnqueueRaises,
       RegenerateDiscarded, ApiCrash
<1>8. ASSUME NEW w \in Workers, NEW j \in JobIds, NEW n \in 0..CeleryMaxRetries, Receive(w, j, n)
      PROVE  Advances
  BY <1>2, <1>8 DEF Receive, FinishedJob, SentItem, UnclaimableItem, MarkJobFailed,
     AttemptsExceeded, ActivationRefused, BeginAttempt
<1>9. ASSUME NEW w \in Workers, TaskStep(w) \/ WorkerDies(w)
      PROVE  Advances
  BY <1>1, <1>2, <1>9 DEF TaskStep, SideEffects, RecordError, GiveUp, Requeue, RequeueRefused,
     MarkJobFailed, CompleteProcessing, Deliver, AlreadySent, CompletionRefused, WorkerDies,
     WorkItemStatus
<1>10. QED
  BY <1>7, <1>8, <1>9 DEF Next, ReceiveJob, Failure, Age, LoseMessage

\* No version is ever reused for another content of the item.
THEOREM VersionsNeverReused ==
  ASSUME Prompt
  PROVE  Spec => VersionAdvances
<1>1. TypeOK /\ CustodyInv /\ [Next]_vars => [item' # item => item'.version > item.version]_vars
  <2>1. TypeOK => item.version + 1 > item.version
    BY DEF TypeOK, ItemRow
  <2>2. QED
    BY <2>1, VersionNext
<1>2. QED
  BY <1>1, TypeCorrect, CustodyHolds, PTL DEF Spec, VersionAdvances

-----------------------------------------------------------------------------
(* What a page shows. *)

\* A page that shows the current version shows the current draft, and no page is
\* ahead of the item.
PageInv ==
  /\ item.version > 0
  /\ \A r \in Reviewers : tab[r].version <= item.version
  /\ \A r \in Reviewers : tab[r].version = item.version => tab[r].draft = item.final_draft
  /\ ApprovedAsShown

\* At first no page was loaded, and what is seeded as approved was shown.
LEMMA PageInit == Init => PageInv
<1> SUFFICES ASSUME Init PROVE PageInv
  OBVIOUS
<1>1. PICK s \in SeedStatuses, d \in Drafts :
        /\ item = SeedItem(s, d)
        /\ approvals = IF s = "FAILED" THEN {[draft |-> d, shown |-> d]} ELSE {}
  BY DEF Init
<1>2. item.version = 1
  BY <1>1 DEF SeedItem
<1>3. \A r \in Reviewers : tab[r].version = 0
  BY DEF Init, Showing
<1>4. ApprovedAsShown
  BY <1>1 DEF ApprovedAsShown
<1>5. QED
  BY <1>2, <1>3, <1>4 DEF PageInv

\* Only GET changes what a page shows: a request in flight keeps it.
LEMMA PagesKept ==
  ASSUME TypeOK, [Next]_vars, NEW s \in Reviewers
  PROVE  \/ tab'[s].version = tab[s].version /\ tab'[s].draft = tab[s].draft
         \/ /\ item' = item
            /\ tab'[s].version = item.version
            /\ tab'[s].draft = item.final_draft
<1> DEFINE Kept == tab'[s].version = tab[s].version /\ tab'[s].draft = tab[s].draft
<1>1. CASE UNCHANGED tab
  BY <1>1
<1>2. ASSUME NEW r \in Reviewers, NEW t, tab' = [tab EXCEPT ![r] = t],
             t.version = tab[r].version, t.draft = tab[r].draft
      PROVE  Kept
  BY <1>2 DEF TypeOK
<1>3. ASSUME NEW r \in Reviewers, NEW pc, NEW k, NEW j, NEW n,
             tab' = [tab EXCEPT ![r] = InRequest(@, pc, k, j, n)]
      PROVE  Kept
  <2>1. /\ InRequest(tab[r], pc, k, j, n).version = tab[r].version
        /\ InRequest(tab[r], pc, k, j, n).draft = tab[r].draft
    BY DEF InRequest
  <2>2. QED
    BY <1>2, <1>3, <2>1
<1>4. ASSUME NEW r \in Reviewers, EnqueueRaises(r)
      PROVE  Kept
  <2>1. /\ [tab[r] EXCEPT !.pc = "mark_failed"].version = tab[r].version
        /\ [tab[r] EXCEPT !.pc = "mark_failed"].draft = tab[r].draft
    BY DEF TypeOK, TabState
  <2>2. tab' = [tab EXCEPT ![r] = [tab[r] EXCEPT !.pc = "mark_failed"]]
    BY <1>4 DEF EnqueueRaises
  <2>3. QED
    BY <1>2, <2>1, <2>2
<1>5. CASE \E r \in Reviewers : Open(r)
  <2> PICK r \in Reviewers : Open(r)
    BY <1>5
  <2>1. /\ Showing(item.version, item.final_draft).version = item.version
        /\ Showing(item.version, item.final_draft).draft = item.final_draft
    BY DEF Showing
  <2>2. QED
    BY <2>1 DEF Open, TypeOK
<1>6. ASSUME NEW r \in Reviewers, ReviewerStep(r) \/ ApiStep(r) \/ ApiCrash(r)
      PROVE  \/ Kept
             \/ /\ item' = item
                /\ tab'[s].version = item.version
                /\ tab'[s].draft = item.final_draft
  <2>1. CASE (\E d \in Drafts : update_draft(r, d)) \/ reject_work_item(r) \/ reopen_work_item(r)
    BY <1>1, <2>1 DEF update_draft, reject_work_item, reopen_work_item
  <2>2. CASE \E k \in Keys : ApproveLookup(r, k)
    BY <1>3, <2>2 DEF ApproveLookup
  <2>3. CASE ApproveCommit(r) \/ retry_processing(r)
    BY <1>3, <2>3 DEF ApproveCommit, retry_processing, Publishing
  <2>4. CASE RegenerateStart(r)
    BY <1>3, <2>4 DEF RegenerateStart
  <2>5. CASE \/ ApproveRefused(r) \/ EnqueueOk(r) \/ mark_processing_enqueue_failed(r)
             \/ RegenerateSave(r) \/ RegenerateDiscarded(r) \/ mark_regeneration_failed(r)
             \/ ApiCrash(r)
    <3>1. tab' = [tab EXCEPT ![r] = Idle(@)]
      BY <2>5 DEF ApproveRefused, EnqueueOk, mark_processing_enqueue_failed, RegenerateSave,
         RegenerateDiscarded, mark_regeneration_failed, ApiCrash
    <3>2. QED
      BY <1>3, <3>1 DEF Idle
  <2>6. QED
    BY <1>4, <1>5, <1>6, <2>1, <2>2, <2>3, <2>4, <2>5 DEF ReviewerStep, ApiStep
<1>7. QED
  BY <1>1, <1>6 DEF Next, ReceiveJob, Receive, Age, TaskStep, SideEffects, RecordError,
     CompleteProcessing, WorkerDies, Failure, LoseMessage

\* Only an approval approves.
LEMMA ApprovalsKept ==
  ASSUME [Next]_vars
  PROVE  approvals' = approvals \/ \E r \in Reviewers : ApproveCommit(r)
BY DEF Next, ReviewerStep, ApiStep, Open, update_draft, reject_work_item, reopen_work_item,
   ApproveLookup, ApproveRefused, retry_processing, EnqueueOk, EnqueueRaises,
   mark_processing_enqueue_failed, RegenerateStart, RegenerateSave, RegenerateDiscarded,
   mark_regeneration_failed, ApiCrash, ReceiveJob, Receive, Age, TaskStep, SideEffects,
   RecordError, CompleteProcessing, WorkerDies, Failure, LoseMessage

\* An approval is admitted only on the version shown, and every write leaves the
\* pages behind.
LEMMA PageNext == TypeOK /\ CustodyInv /\ PageInv /\ [Next]_vars => PageInv'
<1> SUFFICES ASSUME TypeOK, CustodyInv, PageInv, [Next]_vars PROVE PageInv'
  OBVIOUS
<1>1. item.version \in Nat /\ \A r \in Reviewers : tab[r].version \in Nat
  BY DEF TypeOK, ItemRow, TabState
<1>2. item' = item \/ item'.version = item.version + 1
  BY VersionNext
<1>3. item'.version > 0
  BY <1>1, <1>2 DEF PageInv
<1>4. ASSUME NEW r \in Reviewers
      PROVE  /\ tab'[r].version <= item'.version
             /\ tab'[r].version = item'.version => tab'[r].draft = item'.final_draft
  <2>1. /\ tab[r].version <= item.version
        /\ tab[r].version = item.version => tab[r].draft = item.final_draft
    BY DEF PageInv
  <2>2. QED
    BY <1>1, <1>2, <2>1, PagesKept
<1>5. ASSUME NEW r \in Reviewers, ApproveCommit(r)
      PROVE  ApprovedAsShown'
  <2>1. tab[r].draft = item.final_draft
    BY <1>5 DEF ApproveCommit, ApprovalAdmitted, Admits, check_version, PageInv
  <2>2. approvals' = approvals \cup {[draft |-> item.final_draft, shown |-> tab[r].draft]}
    BY <1>5 DEF ApproveCommit, ApprovedSnapshot
  <2>3. QED
    BY <2>1, <2>2 DEF PageInv, ApprovedAsShown
<1>6. ApprovedAsShown'
  BY <1>5, ApprovalsKept DEF PageInv, ApprovedAsShown
<1>7. QED
  BY <1>3, <1>4, <1>6 DEF PageInv

\* A reviewer approves the draft the page showed: last_seen_version does its work,
\* whatever other reviewers, workers and failure handlers write meanwhile.
THEOREM OnlyShownDraftsApproved ==
  ASSUME Prompt
  PROVE  Spec => []ApprovedAsShown
<1>1. TypeOK /\ CustodyInv /\ PageInv /\ [Next]_vars => PageInv'
  BY PageNext
<1>2. PageInv => ApprovedAsShown
  BY DEF PageInv
<1>3. QED
  BY <1>1, <1>2, PageInit, TypeCorrect, CustodyHolds, PTL DEF Spec

-----------------------------------------------------------------------------
(* Regeneration. *)

\* The property, and that a call in flight has a run of its own to end.
RegenInv ==
  /\ RegenerationExclusive
  /\ \A r \in Reviewers : tab[r].pc = "provider" => tab[r].run \in RunIds

\* No page has a provider call in flight at first.
LEMMA RegenInit == Init => RegenInv
BY DEF Init, Showing, RegenInv, RegenerationExclusive

\* While the item is REGENERATING, only the end of a regeneration writes it, and
\* only a start or an end of one writes the runs.
LEMMA RegenerationOwnsItem ==
  ASSUME TypeOK, CustodyInv, [Next]_vars,
         \A r \in Reviewers : ~RegenerateSave(r) /\ ~mark_regeneration_failed(r)
  PROVE  /\ item.status = "REGENERATING" => item' = item
         /\ runs' = runs \/ \E r \in Reviewers : RegenerateStart(r)
<1>1. ASSUME NEW r \in Reviewers, NEW a \in WorkItemAction, Admits(r, a)
      PROVE  item.status # "REGENERATING"
  BY <1>1 DEF Admits, can_perform_action, VALID_ACTIONS
<1>2. ASSUME NEW r \in Reviewers, mark_processing_enqueue_failed(r)
      PROVE  item.status = "PROCESSING"
  BY <1>2, Custody DEF mark_processing_enqueue_failed, Publishes
<1>3. item.status # "PROCESSING" => FailedWithJob(item) = item
  BY DEF FailedWithJob
<1>4. ASSUME NEW r \in Reviewers, ReviewerStep(r) \/ ApiStep(r) \/ ApiCrash(r),
             item.status = "REGENERATING"
      PROVE  item' = item
  BY <1>1, <1>2, <1>4
     DEF ReviewerStep, ApiStep, update_draft, reject_work_item, reopen_work_item, retry_processing,
     RegenerateStart, Requested, ApproveCommit, ApprovalAdmitted, WorkItemAction, Open,
     ApproveLookup, ApproveRefused, EnqueueOk, EnqueueRaises, RegenerateDiscarded, ApiCrash
<1>5. ASSUME NEW w \in Workers, NEW j \in JobIds, NEW n \in 0..CeleryMaxRetries, Receive(w, j, n),
             item.status = "REGENERATING"
      PROVE  item' = item
  BY <1>3, <1>5 DEF Receive, FinishedJob, SentItem, UnclaimableItem, MarkJobFailed,
     AttemptsExceeded, ActivationRefused, BeginAttempt
<1>6. ASSUME NEW w \in Workers, TaskStep(w) \/ WorkerDies(w), item.status = "REGENERATING"
      PROVE  item' = item
  BY <1>3, <1>6 DEF TaskStep, SideEffects, RecordError, GiveUp, Requeue, RequeueRefused,
     MarkJobFailed, CompleteProcessing, Deliver, AlreadySent, CompletionRefused, WorkerDies
<1>7. item.status = "REGENERATING" => item' = item
  BY <1>4, <1>5, <1>6 DEF Next, ReceiveJob, Failure, Age, LoseMessage
<1>8. runs' = runs \/ \E r \in Reviewers : RegenerateStart(r)
  BY DEF Next, ReviewerStep, ApiStep, Open, update_draft, reject_work_item, reopen_work_item,
     ApproveLookup, ApproveCommit, ApproveRefused, retry_processing, EnqueueOk, EnqueueRaises,
     mark_processing_enqueue_failed, RegenerateDiscarded, ApiCrash, ReceiveJob, Receive, Age,
     TaskStep, SideEffects, RecordError, CompleteProcessing, WorkerDies, Failure, LoseMessage
<1>9. QED
  BY <1>7, <1>8

\* Only a regeneration that starts calls the provider.
LEMMA ProviderCalls ==
  ASSUME TypeOK, [Next]_vars, NEW s \in Reviewers, tab'[s].pc = "provider",
         \A r \in Reviewers : ~RegenerateStart(r)
  PROVE  tab[s].pc = "provider" /\ tab'[s] = tab[s]
<1>1. CASE UNCHANGED tab
  BY <1>1
<1>2. ASSUME NEW r \in Reviewers, NEW t, tab' = [tab EXCEPT ![r] = t], t.pc # "provider"
      PROVE  tab'[s] = tab[s]
  BY <1>2 DEF TypeOK
<1>3. ASSUME NEW r \in Reviewers, NEW pc \in {"idle", "approve", "enqueue"}, NEW k, NEW j, NEW n,
             tab' = [tab EXCEPT ![r] = InRequest(@, pc, k, j, n)]
      PROVE  tab'[s] = tab[s]
  <2>1. InRequest(tab[r], pc, k, j, n).pc # "provider"
    BY DEF InRequest
  <2>2. QED
    BY <1>2, <1>3, <2>1
<1>4. ASSUME NEW r \in Reviewers, EnqueueRaises(r)
      PROVE  tab'[s] = tab[s]
  <2>1. [tab[r] EXCEPT !.pc = "mark_failed"].pc # "provider"
    BY DEF TypeOK, TabState
  <2>2. tab' = [tab EXCEPT ![r] = [tab[r] EXCEPT !.pc = "mark_failed"]]
    BY <1>4 DEF EnqueueRaises
  <2>3. QED
    BY <1>2, <2>1, <2>2
<1>5. ASSUME NEW r \in Reviewers, ReviewerStep(r) \/ ApiStep(r) \/ ApiCrash(r)
      PROVE  tab'[s] = tab[s]
  <2>1. CASE (\E d \in Drafts : update_draft(r, d)) \/ reject_work_item(r) \/ reopen_work_item(r)
    BY <2>1 DEF update_draft, reject_work_item, reopen_work_item
  <2>2. CASE \E k \in Keys : ApproveLookup(r, k)
    <3>1. PICK k \in Keys : tab' = [tab EXCEPT ![r] = InRequest(@, "approve", k, 0, 0)]
      BY <2>2 DEF ApproveLookup
    <3>2. QED
      BY <1>3, <3>1
  <2>3. CASE ApproveCommit(r) \/ retry_processing(r)
    BY <1>3, <2>3 DEF ApproveCommit, retry_processing, Publishing
  <2>4. CASE Open(r)
    <3>1. Showing(item.version, item.final_draft).pc # "provider"
      BY DEF Showing
    <3>2. QED
      BY <1>2, <2>4, <3>1 DEF Open
  <2>5. CASE \/ ApproveRefused(r) \/ EnqueueOk(r) \/ mark_processing_enqueue_failed(r)
             \/ RegenerateSave(r) \/ RegenerateDiscarded(r) \/ mark_regeneration_failed(r)
             \/ ApiCrash(r)
    <3>1. tab' = [tab EXCEPT ![r] = Idle(@)]
      BY <2>5 DEF ApproveRefused, EnqueueOk, mark_processing_enqueue_failed, RegenerateSave,
         RegenerateDiscarded, mark_regeneration_failed, ApiCrash
    <3>2. QED
      BY <1>3, <3>1 DEF Idle
  <2>6. QED
    BY <1>4, <1>5, <2>1, <2>2, <2>3, <2>4, <2>5 DEF ReviewerStep, ApiStep
<1>6. tab'[s] = tab[s]
  BY <1>1, <1>5 DEF Next, ReceiveJob, Receive, Age, TaskStep, SideEffects, RecordError,
     CompleteProcessing, WorkerDies, Failure, LoseMessage
<1>7. QED
  BY <1>6

\* A regeneration starts when no provider call is in flight and ends the one that is.
LEMMA RegenNext == TypeOK /\ CustodyInv /\ RegenInv /\ [Next]_vars => RegenInv'
<1> SUFFICES ASSUME TypeOK, CustodyInv, RegenInv, [Next]_vars PROVE RegenInv'
  OBVIOUS
<1>1. ASSUME NEW r \in Reviewers, RegenerateStart(r)
      PROVE  RegenInv'
  <2>1. \A s \in Reviewers : tab[s].pc # "provider"
    BY <1>1 DEF RegenerateStart, Requested, Admits, can_perform_action, VALID_ACTIONS, RegenInv,
       RegenerationExclusive
  <2>2. PICK n \in NextRun : /\ runs' = [runs EXCEPT ![n] = "STARTED"]
                             /\ tab' = [tab EXCEPT ![r] = InRequest(@, "provider", NoKey, 0, n)]
    BY <1>1 DEF RegenerateStart
  <2>3. n \in RunIds /\ InRequest(tab[r], "provider", NoKey, 0, n).run = n
    BY DEF NextRun, InRequest
  <2>4. runs'[n] = "STARTED" /\ tab'[r].run = n
    BY <2>2, <2>3 DEF TypeOK
  <2>5. \A s \in Reviewers : tab'[s].pc = "provider" => s = r
    BY <2>1, <2>2 DEF TypeOK
  <2>6. item'.status = "REGENERATING"
    BY <1>1, MovedFields DEF RegenerateStart, MarkRegenerating, WorkItemStatus
  <2>7. QED
    BY <2>3, <2>4, <2>5, <2>6 DEF RegenInv, RegenerationExclusive
<1>2. ASSUME NEW r \in Reviewers, RegenerateSave(r) \/ mark_regeneration_failed(r)
      PROVE  RegenInv'
  <2>1. tab[r].pc = "provider" /\ tab' = [tab EXCEPT ![r] = Idle(@)] /\ Idle(tab[r]).pc = "idle"
    BY <1>2 DEF RegenerateSave, mark_regeneration_failed, Idle, InRequest
  <2>2. \A s \in Reviewers : tab[s].pc = "provider" => s = r
    BY <2>1 DEF RegenInv, RegenerationExclusive
  <2>3. \A s \in Reviewers : tab'[s].pc # "provider"
    BY <2>1, <2>2 DEF TypeOK
  <2>4. QED
    BY <2>3 DEF RegenInv, RegenerationExclusive
<1>3. ASSUME \A r \in Reviewers :
               ~RegenerateStart(r) /\ ~RegenerateSave(r) /\ ~mark_regeneration_failed(r)
      PROVE  RegenInv'
  <2>1. \A s \in Reviewers : tab'[s].pc = "provider" => tab[s].pc = "provider" /\ tab'[s] = tab[s]
    BY <1>3, ProviderCalls
  <2>2. (item.status = "REGENERATING" => item' = item) /\ runs' = runs
    BY <1>3, RegenerationOwnsItem
  <2>3. QED
    BY <2>1, <2>2 DEF RegenInv, RegenerationExclusive
<1>4. QED
  BY <1>1, <1>2, <1>3

\* A provider call owns the REGENERATING status until its result is recorded: the
\* result never lands on an item that somebody else has moved on.
THEOREM ProviderCallOwnsItem ==
  ASSUME Prompt
  PROVE  Spec => []RegenerationExclusive
<1>1. TypeOK /\ CustodyInv /\ RegenInv /\ [Next]_vars => RegenInv'
  BY RegenNext
<1>2. RegenInv => RegenerationExclusive
  BY DEF RegenInv
<1>3. QED
  BY <1>1, <1>2, RegenInit, TypeCorrect, CustodyHolds, PTL DEF Spec

-----------------------------------------------------------------------------
(* One email. *)

\* The failures under which no attempt fails or dies once it has begun.
Undisturbed ==
  Faults \subseteq {"enqueue_fails", "message_lost", "provider_fails", "api_crash", "slow_queue"}

\* Who has sent the one email completes, or has completed the item.
OneEmailInv ==
  /\ \A e, f \in emails : e = f
  /\ emails # {} => item.status = "SENT" \/ \E w \in Workers : wk[w].pc = "complete"

\* An attempt begins only while nothing has been sent, and goes on to completion.
LEMMA OneEmailNext ==
  ASSUME Undisturbed
  PROVE  TypeOK /\ CustodyInv /\ OneEmailInv /\ [LifecycleStep]_vars /\ [Next]_vars => OneEmailInv'
<1> SUFFICES ASSUME TypeOK, CustodyInv, OneEmailInv, [LifecycleStep]_vars, [Next]_vars
             PROVE  OneEmailInv'
  OBVIOUS
<1>1. item.status = "SENT" => item'.status = "SENT"
  BY LifecycleTransitions DEF can_transition, VALID_TRANSITIONS
<1>2. ASSUME NEW w \in Workers, SideEffects(w)
      PROVE  OneEmailInv'
  <2>1. wk[w].pc = "side_effects" /\ Busy(w) /\ wk[w] \in BusyWorker
    BY <1>2 DEF SideEffects, Busy, TypeOK, IdleWorker
  <2>2. item.status = "PROCESSING" /\ \A v \in Workers : Busy(v) => v = w
    BY <2>1, Custody DEF CustodyInv, WorkerInv
  <2>3. \A v \in Workers : wk[v].pc # "complete"
    BY <2>1, <2>2 DEF Busy
  <2>4. emails = {}
    BY <2>2, <2>3 DEF OneEmailInv
  <2>5. emails' = emails \cup {Email(w)} /\ wk' = [wk EXCEPT ![w].pc = "complete"]
    BY <1>2 DEF SideEffects, EmailFails, EmailSent, Reaches, Undisturbed
  <2>6. wk'[w].pc = "complete"
    BY <2>1, <2>5 DEF TypeOK, BusyWorker
  <2>7. QED
    BY <2>4, <2>5, <2>6 DEF OneEmailInv
<1>3. ASSUME UNCHANGED emails,
             \A w \in Workers : wk[w].pc = "complete" => wk'[w].pc = "complete" \/ item'.status = "SENT"
      PROVE  OneEmailInv'
  BY <1>1, <1>3 DEF OneEmailInv
<1>4. ASSUME NEW w \in Workers, CompleteProcessing(w)
      PROVE  OneEmailInv'
  <2>1. item.status = "PROCESSING"
    BY <1>4, Custody DEF CompleteProcessing, Busy
  <2>2. item'.status = "SENT" /\ UNCHANGED emails
    BY <1>4, <2>1, MovedFields DEF CompleteProcessing, Deliver, AlreadySent, CompletionRefused,
       WorkItemStatus
  <2>3. QED
    BY <1>3, <2>2
<1>5. ASSUME NEW w \in Workers, RecordError(w) \/ WorkerDies(w)
      PROVE  FALSE
  <2>1. CASE RecordError(w)
    BY <2>1 DEF RecordError, Busy, CustodyInv, WorkerInv, Undisturbed
  <2>2. QED
    BY <1>5, <2>1 DEF WorkerDies, Undisturbed
<1>6. ASSUME NEW w \in Workers, NEW j \in JobIds, NEW n \in 0..CeleryMaxRetries, Receive(w, j, n)
      PROVE  OneEmailInv'
  <2>1. UNCHANGED emails /\ wk[w].pc = "idle"
    BY <1>6 DEF Receive, Busy
  <2>2. wk' = wk \/ \E t : wk' = [wk EXCEPT ![w] = t]
    BY <1>6 DEF Receive, FinishedJob, SentItem, UnclaimableItem, AttemptsExceeded,
       ActivationRefused, BeginAttempt
  <2>3. \A v \in Workers : v # w => wk'[v] = wk[v]
    BY <2>2 DEF TypeOK
  <2>4. QED
    BY <1>3, <2>1, <2>3
<1>7. CASE UNCHANGED <<wk, emails>>
  BY <1>3, <1>7
<1>8. ASSUME NEW r \in Reviewers, ReviewerStep(r) \/ ApiStep(r) \/ ApiCrash(r)
      PROVE  UNCHANGED <<wk, emails>>
  BY <1>8 DEF ReviewerStep, ApiStep, Open, update_draft, reject_work_item,
     reopen_work_item, ApproveLookup, ApproveCommit, ApproveRefused, retry_processing, EnqueueOk,
     EnqueueRaises, mark_processing_enqueue_failed, RegenerateStart, RegenerateSave,
     RegenerateDiscarded, mark_regeneration_failed, ApiCrash
<1>9. QED
  BY <1>2, <1>4, <1>5, <1>6, <1>7, <1>8 DEF Next, ReceiveJob, TaskStep, Failure, Age, LoseMessage

\* However long messages wait and however often approvals and retries are repeated,
\* at most one email is sent as long as no attempt fails or dies.
THEOREM OneEmailSent ==
  ASSUME Undisturbed
  PROVE  Spec => []AtMostOneEmail
<1>1. Prompt
  BY DEF Undisturbed, Prompt
<1>2. Init => OneEmailInv
  BY DEF Init, OneEmailInv
<1>3. TypeOK /\ CustodyInv /\ OneEmailInv /\ [LifecycleStep]_vars /\ [Next]_vars => OneEmailInv'
  BY OneEmailNext
<1>4. Spec => [][LifecycleStep]_vars /\ []CustodyInv
  BY <1>1, LifecycleAlways, CustodyHolds
<1>5. OneEmailInv => AtMostOneEmail
  <2> SUFFICES ASSUME OneEmailInv PROVE Cardinality(emails) <= 1
    BY DEF AtMostOneEmail
  <2>1. CASE emails = {}
    BY <2>1, FS_EmptySet
  <2>2. CASE emails # {}
    <3>1. PICK e \in emails : emails = {e}
      BY <2>2 DEF OneEmailInv
    <3>2. Cardinality({e}) = 1
      BY FS_Singleton
    <3>3. QED
      BY <3>1, <3>2
  <2>3. QED
    BY <2>1, <2>2
<1>6. QED
  BY <1>2, <1>3, <1>4, <1>5, TypeCorrect, PTL DEF Spec

=============================================================================
