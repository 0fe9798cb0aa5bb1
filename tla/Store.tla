------------------------------- MODULE Store --------------------------------
(***************************************************************************)
(* The state the API processes and the Celery workers share: one work item *)
(* (items never interact), its background jobs, its generation runs, the   *)
(* idempotency keys, the Redis queue, and what each actor holds in memory  *)
(* between two transactions.  Every transaction of the program takes the   *)
(* item's row lock before it writes, so a transaction is one step here.    *)
(***************************************************************************)
EXTENDS Naturals, FiniteSets, StateMachine

CONSTANTS
  Reviewers,        \* browser tabs of users that may access the item
  Workers,          \* Celery worker processes
  Drafts,           \* email drafts
  NoDraft,          \* no approved snapshot (SQL NULL)
  Keys,             \* (user, endpoint, Idempotency-Key) triples
  NoKey,
  SeedStatuses,     \* statuses the item may be seeded with
  Ops,              \* the reviewer operations this instance exercises
  Faults,           \* the failures this instance admits
  MaxAttempts,      \* background_jobs.max_attempts
  CeleryMaxRetries, \* max_retries of the Celery task
  MaxVersion,       \* bound: no reviewer operation starts from this version on
  MaxJobs,          \* bound: background jobs created
  MaxRuns           \* bound: regenerations started

FaultNames ==
  {"enqueue_fails",     \* publish raises, nothing is published
   "ambiguous_enqueue", \* publish raises although the message was published
   "duplicate_message", \* the client's publish retry leaves two messages
   "message_lost",      \* the broker, or a worker holding a message, loses it
   "email_fails", "crm_fails", "provider_fails",
   "worker_dies",       \* a worker process, or its transaction, is killed
   "api_crash",         \* an API process stops inside a request
   "slow_queue",        \* a message waits longer than the stale threshold
   "slow_worker"}       \* an attempt or a request outlasts the stale threshold

ASSUME StoreAssumption ==
  /\ Reviewers # {} /\ Workers # {} /\ Drafts # {}
  /\ NoDraft \notin Drafts
  /\ NoKey \notin Keys
  /\ SeedStatuses \subseteq {"PENDING_REVIEW", "FAILED", "REJECTED"}
  /\ Ops \subseteq WorkItemAction
  /\ Faults \subseteq FaultNames
  /\ MaxAttempts \in Nat \ {0}
  /\ CeleryMaxRetries \in Nat /\ MaxAttempts <= CeleryMaxRetries
  /\ MaxVersion \in Nat /\ MaxRuns \in Nat
  /\ MaxJobs \in Nat \ {0}

VARIABLES
  item,      \* the lead_work_items row
  jobs,      \* background_jobs rows of the item, by creation order
  runs,      \* llm_generation_runs rows, by creation order
  keys,      \* idempotency_keys: last_seen_version of the request bound to a key
  queue,     \* the Celery messages in Redis: copies of (job, retries)
  tab,       \* each reviewer's page and the request it has in flight
  wk,        \* each worker's memory
  emails,    \* history: the emails sent
  approvals  \* history: the approvals committed, with the draft the tab showed

dbVars == <<item, jobs, runs, keys>>
vars == <<item, jobs, runs, keys, queue, tab, wk, emails, approvals>>

-----------------------------------------------------------------------------
JobIds == 1..MaxJobs
RunIds == 1..MaxRuns
Messages == JobIds \X (0..CeleryMaxRetries)

\* age: "stale" once now - (started_at or created_at) exceeds the stale threshold.
\* key: the idempotency_key in the metadata of the ITEM_APPROVED audit row.
JobRow == [status: BackgroundJobStatus, attempts: Nat, age: {"fresh", "stale"},
           key: Keys \cup {NoKey}]
NoRow == [status |-> "NONE", attempts |-> 0, age |-> "fresh", key |-> NoKey]
QueuedRow(k) == [NoRow EXCEPT !.status = "QUEUED", !.key = k]

ItemRow == [status: WorkItemStatus, version: Nat, final_draft: Drafts,
            snapshot: Drafts \cup {NoDraft}]

\* A page shows (version, draft) of its last GET; version 0 before the first.
TabState ==
  [pc: {"idle", "approve", "enqueue", "mark_failed", "provider"},
   version: Nat, draft: Drafts \cup {NoDraft},
   key: Keys \cup {NoKey}, job: JobIds \cup {0}, run: RunIds \cup {0}]

\* An idle page that shows version v with draft d.
Showing(v, d) ==
  [pc |-> "idle", version |-> v, draft |-> d, key |-> NoKey, job |-> 0, run |-> 0]

IdleWorker == [pc |-> "idle"]
BusyWorker ==
  [pc: {"side_effects", "complete", "error"}, job: JobIds,
   retries: 0..CeleryMaxRetries, attempt: Nat, body: Drafts]

\* Type invariant of the shared state and of the actors' memories.
TypeOK ==
  /\ item \in ItemRow
  /\ jobs \in [JobIds -> JobRow \cup {NoRow}]
  /\ runs \in [RunIds -> LLMRunStatus \cup {"NONE"}]
  /\ keys \in [Keys -> Nat]
  /\ queue \in [Messages -> Nat]
  /\ tab \in [Reviewers -> TabState]
  /\ wk \in [Workers -> BusyWorker \cup {IdleWorker}]
  /\ emails \subseteq [job: JobIds, attempt: Nat, body: Drafts]
  /\ approvals \subseteq [draft: Drafts, shown: Drafts \cup {NoDraft}]

-----------------------------------------------------------------------------
(* Row helpers. *)

ActiveJobs == {j \in JobIds : jobs[j].status \in {"QUEUED", "RUNNING"}}

\* As if the partial unique index uq_background_jobs_active did not exist.
NoActiveIndex(j) == TRUE

\* uq_background_jobs_active: j may be active only if no other job is.
MayBeActive(j) == ActiveJobs \subseteq {j}

NextJob == {j \in JobIds : jobs[j] = NoRow /\ \A i \in 1..(j - 1) : jobs[i] # NoRow}
NextRun == {n \in RunIds : runs[n] = "NONE" /\ \A i \in 1..(n - 1) : runs[i] # "NONE"}

Moved(row, status) == [row EXCEPT !.status = status, !.version = @ + 1]

\* A failing job takes the item to FAILED, provided it is PROCESSING.
FailedWithJob(row) == IF row.status = "PROCESSING" THEN Moved(row, "FAILED") ELSE row

\* Celery retries a publish whose acknowledgement it did not see.
Copies == IF "duplicate_message" \in Faults THEN {1, 2} ELSE {1}

Publish(j, n) == \E c \in Copies : queue' = [queue EXCEPT ![<<j, n>>] = @ + c]
Consume(j, n) == queue[<<j, n>>] > 0 /\ queue' = [queue EXCEPT ![<<j, n>>] = @ - 1]

\* Somebody will still act for job j: a request about to publish it, a message
\* of it, or a worker on it.
BeingEnqueued(j) == \E r \in Reviewers : tab[r].pc \in {"enqueue", "mark_failed"} /\ tab[r].job = j
HasMessage(j) == \E n \in 0..CeleryMaxRetries : queue[<<j, n>>] > 0
Busy(w) == wk[w].pc # "idle"
HasWorker(j) == \E w \in Workers : Busy(w) /\ wk[w].job = j
InFlight(j) == BeingEnqueued(j) \/ HasMessage(j) \/ HasWorker(j)

-----------------------------------------------------------------------------
(* The rows db/seed.py and signup create: no request or message is pending. *)

SeedItem(s, d) ==
  [status |-> s, version |-> 1, final_draft |-> d,
   snapshot |-> IF s = "FAILED" THEN d ELSE NoDraft]

SeedJob(s) ==
  IF s = "FAILED" THEN [NoRow EXCEPT !.status = "FAILED", !.attempts = 1] ELSE NoRow

Init ==
  /\ \E s \in SeedStatuses, d \in Drafts :
       /\ item = SeedItem(s, d)
       /\ jobs = [j \in JobIds |-> IF j = 1 THEN SeedJob(s) ELSE NoRow]
       /\ approvals = IF s = "FAILED" THEN {[draft |-> d, shown |-> d]} ELSE {}
  /\ runs = [n \in RunIds |-> "NONE"]
  /\ keys = [k \in Keys |-> 0]
  /\ queue = [m \in Messages |-> 0]
  /\ tab = [r \in Reviewers |-> Showing(0, NoDraft)]
  /\ wk = [w \in Workers |-> IdleWorker]
  /\ emails = {}

=============================================================================
