--------------------------- MODULE ApprovalWorker ---------------------------
(***************************************************************************)
(* The Celery task process_approval (workers/approvals.py).  Messages are  *)
(* acknowledged on receipt: a worker that stops loses its message.  Each   *)
(* of the task's transactions is one step; the email and the CRM call      *)
(* read and write nothing shared and are one step between them.            *)
(***************************************************************************)
EXTENDS Store

\* As if failing a job left its item alone.
JobOnlyFailed(j) == jobs' = [jobs EXCEPT ![j].status = "FAILED"] /\ UNCHANGED item

MarkJobFailed(j) ==
  /\ jobs' = [jobs EXCEPT ![j].status = "FAILED"]
  /\ item' = FailedWithJob(item)

-----------------------------------------------------------------------------
(* _start_processing_attempt: what the first transaction finds. *)

Claimable(j) == jobs[j].status # "COMPLETED" /\ item.status = "PROCESSING"

FinishedJob(j) ==
  /\ jobs[j].status = "COMPLETED"
  /\ UNCHANGED <<item, jobs, wk>>

SentItem(j) ==
  /\ jobs[j].status # "COMPLETED"
  /\ item.status = "SENT"
  /\ jobs' = [jobs EXCEPT ![j].status = "COMPLETED"]
  /\ UNCHANGED <<item, wk>>

UnclaimableItem(j) ==
  /\ jobs[j].status # "COMPLETED"
  /\ item.status \notin {"SENT", "PROCESSING"}
  /\ MarkJobFailed(j)
  /\ UNCHANGED wk

ExceededRow(j) == [jobs[j] EXCEPT !.status = "FAILED", !.attempts = @ + 1]

AttemptsExceeded(j) ==
  /\ Claimable(j)
  /\ jobs[j].attempts >= MaxAttempts
  /\ jobs' = [jobs EXCEPT ![j] = ExceededRow(j)]
  /\ item' = FailedWithJob(item)
  /\ UNCHANGED wk

\* uq_background_jobs_active refuses RUNNING: the transaction rolls back and the
\* task ends with an error Celery does not retry.
ActivationRefused(j) ==
  /\ Claimable(j)
  /\ jobs[j].attempts < MaxAttempts
  /\ ~MayBeActive(j)
  /\ UNCHANGED <<item, jobs, wk>>

\* As if the attempt were not counted.
UncountedRow(j) == [jobs[j] EXCEPT !.status = "RUNNING"]

\* As if not even the first attempt set started_at.
StartedUndated(j) == [jobs[j] EXCEPT !.status = "RUNNING", !.attempts = @ + 1]

\* started_at is set by the first attempt only, so it alone renews the job.
StartedRow(j) ==
  [jobs[j] EXCEPT !.status = "RUNNING", !.attempts = @ + 1,
                  !.age = IF jobs[j].attempts = 0 THEN "fresh" ELSE @]

\* As if the worker sent the live draft.
LiveDraft == item.final_draft

AttemptBody == item.snapshot

\* A job without a snapshot ends the task after its status is committed.
BeginAttempt(w, j, n) ==
  /\ Claimable(j)
  /\ jobs[j].attempts < MaxAttempts
  /\ MayBeActive(j)
  /\ jobs' = [jobs EXCEPT ![j] = StartedRow(j)]
  /\ wk' = [wk EXCEPT ![w] =
              IF AttemptBody = NoDraft THEN IdleWorker
              ELSE [pc |-> "side_effects", job |-> j, retries |-> n,
                    attempt |-> jobs[j].attempts + 1, body |-> AttemptBody]]
  /\ UNCHANGED item

Receive(w, j, n) ==
  /\ ~Busy(w)
  /\ Consume(j, n)
  /\ \/ FinishedJob(j)
     \/ SentItem(j)
     \/ UnclaimableItem(j)
     \/ AttemptsExceeded(j)
     \/ ActivationRefused(j)
     \/ BeginAttempt(w, j, n)
  /\ UNCHANGED <<runs, keys, tab, emails, approvals>>

-----------------------------------------------------------------------------
(* The side effects: email, then CRM. *)

Reaches(w, pc) == wk' = [wk EXCEPT ![w].pc = pc]

Email(w) == [job |-> wk[w].job, attempt |-> wk[w].attempt, body |-> wk[w].body]

EmailFails(w) ==
  /\ "email_fails" \in Faults
  /\ Reaches(w, "error")
  /\ UNCHANGED emails

EmailSent(w) ==
  /\ emails' = emails \cup {Email(w)}
  /\ \/ Reaches(w, "complete")
     \/ "crm_fails" \in Faults /\ Reaches(w, "error")

SideEffects(w) ==
  /\ wk[w].pc = "side_effects"
  /\ EmailFails(w) \/ EmailSent(w)
  /\ UNCHANGED <<dbVars, queue, tab, approvals>>

-----------------------------------------------------------------------------
(* _record_processing_error and the Celery retry it asks for. *)

\* QUEUED is committed before the retry is published: a publish that raises is
\* rejected without requeueing, and the message at hand is acknowledged already.
RetryUnsent == Faults \cap {"enqueue_fails", "worker_dies"} # {} /\ UNCHANGED queue

\* Celery publishes the retry unless the task has had max_retries of them.
ScheduleRetry(j, n) ==
  \/ n < CeleryMaxRetries /\ Publish(j, n + 1)
  \/ n = CeleryMaxRetries /\ UNCHANGED queue
  \/ RetryUnsent

LastAttempt(j) == jobs[j].attempts >= MaxAttempts

GiveUp(j) ==
  /\ LastAttempt(j)
  /\ MarkJobFailed(j)
  /\ UNCHANGED queue

Requeue(j, n) ==
  /\ ~LastAttempt(j)
  /\ MayBeActive(j)
  /\ jobs' = [jobs EXCEPT ![j].status = "QUEUED"]
  /\ ScheduleRetry(j, n)
  /\ UNCHANGED item

RequeueRefused(j) ==
  /\ ~LastAttempt(j)
  /\ ~MayBeActive(j)
  /\ UNCHANGED <<item, jobs, queue>>

RecordError(w) ==
  /\ wk[w].pc = "error"
  /\ GiveUp(wk[w].job) \/ Requeue(wk[w].job, wk[w].retries) \/ RequeueRefused(wk[w].job)
  /\ wk' = [wk EXCEPT ![w] = IdleWorker]
  /\ UNCHANGED <<runs, keys, tab, emails, approvals>>

-----------------------------------------------------------------------------
(* _complete_processing. *)

\* As if completion only updated the item.
JobLeftRunning(j) == UNCHANGED jobs

CompleteJob(j) == jobs' = [jobs EXCEPT ![j].status = "COMPLETED"]

Deliver(j) ==
  /\ item.status = "PROCESSING"
  /\ item' = Moved(item, "SENT")
  /\ CompleteJob(j)

AlreadySent(j) ==
  /\ item.status = "SENT"
  /\ CompleteJob(j)
  /\ UNCHANGED item

CompletionRefused(j) ==
  /\ item.status \notin {"SENT", "PROCESSING"}
  /\ MarkJobFailed(j)

CompleteProcessing(w) ==
  /\ wk[w].pc = "complete"
  /\ Deliver(wk[w].job) \/ AlreadySent(wk[w].job) \/ CompletionRefused(wk[w].job)
  /\ wk' = [wk EXCEPT ![w] = IdleWorker]
  /\ UNCHANGED <<runs, keys, queue, tab, emails, approvals>>

WorkerDies(w) ==
  /\ "worker_dies" \in Faults
  /\ Busy(w)
  /\ wk' = [wk EXCEPT ![w] = IdleWorker]
  /\ UNCHANGED <<dbVars, queue, tab, emails, approvals>>

=============================================================================
