# TLA+ verification of the AI sales teammate workbench

Reviewers look at AI-written follow-up emails for sales leads, edit or
regenerate them, and approve or reject them. An approved email is sent by a
background worker. This directory models that workflow and what surrounds it
(the page, the row locks, the accounts, the choice of AI provider), checks it
with TLC and proves its main safety properties with TLAPS. Paths below are relative to
`src/`; `api` is short for `backend/app/api/routes/work_items.py` and `worker`
for `backend/app/workers/approvals.py`.

## The system

### Components, state, operations

| Component | State | Operations | Must hold |
|---|---|---|---|
| Status machine (`backend/app/work_items/state_machine.py`) | none | `can_transition`, `can_perform_action` | statuses change along the table only |
| Review endpoints (`api`) | `lead_work_items`, `background_jobs`, `idempotency_keys` rows; the session's objects during a request | open, save draft, reject, reopen, approve, retry processing; publish the job; record a failed publish | approvals apply to what was shown, one job per approval, no stuck item |
| Regeneration endpoint (`api`) | `llm_generation_runs` row, the request waiting for the provider | mark `REGENERATING`; call; save, discard or fail | one call at a time, its answer lands only on the state it started from, it ends |
| Approval worker (`worker`) | job row, the task's arguments, the snapshot in memory | start attempt, email, CRM, complete, record error, retry | emails carry approved text; jobs and items settle together |
| Queue (Celery on Redis) | messages | publish, deliver, lose, duplicate | (environment) |
| Work item page (`frontend/app/work-items/[id]/page.tsx`, `frontend/app/providers.tsx`) | cached item, its polling, text box, requests in flight, idempotency key | poll, refetch, type, the mutations above | what is approved is what is seen; no edit is lost; the page follows the item |
| Client library and proxy (`frontend/lib/api.ts`, `frontend/app/api/backend/`) | none | one request, one answer or an error | (environment of the page) |
| Signup and login (`backend/app/api/routes/auth.py`) | `users`, `organizations` rows | signup, login, logout, me | one account per email and organization, one admin, demo items kept by their reviewer |
| Rate limiter (`backend/app/auth/rate_limit.py`) | buckets per key, in one process | check, reset | admissions bounded in any span of time, `Retry-After` honest |
| Runtime provider (`backend/app/core/runtime_config.py`, `backend/app/api/routes/config.py`, `backend/app/llm/providers/__init__.py`, `frontend/app/admin/page.tsx`) | override per organization, provider cache, in one process | switch, read, regenerate, restart | each organization uses its own choice, the audit log says which |
| Audit log, seeds, health, configuration, migrations, other pages | rows, settings | append, create, read | |

Components meet in the database and the queue. A request takes the item's row
lock before it writes, and commits; approve and retry then publish a message
`(job)` outside the transaction. A worker takes the message and runs up to two
transactions, with the side effects between them and no lock held. The page
sends the version it shows (`last_seen_version`) with each mutation.

### What is hard

* The approval is committed before the job is published, and the failure
  handler of the publish is a third transaction that works on objects in memory.
* A publish can be ambiguous or duplicated; a message can be lost, since Celery
  acknowledges on receipt; it can be delivered after its job was withdrawn.
* `retry-processing` decides by elapsed time whether a job is abandoned.
* Two retry mechanisms count the same attempts: `attempt_count` and Celery's.
* Provider calls and side effects run between transactions, outside any lock.
* A signup looks organization and user up before it inserts them, without a lock.
* Rate limiting counts in windows that the first attempt opens.
* Requests lock the item before the job, tasks the job before the item, and
  approval reads the jobs without a lock.
* The email goes out before the CRM call: a CRM failure repeats both.
* The page polls while its own requests are under way; an answer may be older
  than what the page knows, or be lost after the server has acted.
* Provider overrides live in one process, beside a cache all organizations share,
  and take effect before they are committed to the audit log; two admins' commits
  may overtake each other.
* A job's retry is committed before Celery publishes it.

`PROJECT.json` lists each hazard with its line and the properties that cover it.

## The modules

| Module | Models | Extends |
|---|---|---|
| `StateMachine` | the two tables and their predicates | |
| `Store` | constants, all variables, rows, `TypeOK`, `Init` from the seed | `StateMachine` |
| `ReviewApi` | the review endpoints | `Store` |
| `Regeneration` | the regeneration endpoint | `ReviewApi` |
| `ApprovalWorker` | the Celery task | `Store` |
| `Workbench` | everything interleaved, with time and message loss; the properties; the refinement | `Regeneration`, `ApprovalWorker`, an instance of `ItemLifecycle` |
| `MCWorkbench` | symmetry for TLC; every run of the workflow uses it | `Workbench` |
| `ItemLifecycle` | what a reviewer is promised: the abstract specification that `Workbench` implements | |
| `RowLocks` | the same transactions one row lock at a time, deadlocks and their detector | `StateMachine` |
| `DetailPage` | one page against the server: query cache, editor, buttons, lost requests | `StateMachine` |
| `RuntimeProvider` | provider overrides, cache, admin pages, restarts | |
| `MCRuntimeProvider` | environments and symmetry for TLC | `RuntimeProvider` |
| `RateLimiter` | the limiter of login attempts, with its clock | |
| `Accounts` | signup and login requests in flight, demo items | `RateLimiter` |
| `MCAccounts` | symmetry for TLC | `Accounts` |
| `WorkbenchProofs` | theorems about the workflow: types, the active job, retries | `Workbench` |
| `ApprovalProofs` | what is emailed, and idempotency keys | `WorkbenchProofs` |
| `CustodyProofs` | who acts for the active job, while nobody is late | `ApprovalProofs` |
| `LifecycleProofs` | the refinement of `ItemLifecycle` and the properties that follow from custody | `CustodyProofs` |
| `RowLocksProofs`, `DetailPageProofs`, `RuntimeProviderProofs`, `AccountsProofs` | theorems about the module each is named for | that module |

### Workbench: state

* `item`: one `lead_work_items` row (`status`, `version`, `final_draft`,
  `snapshot` for `approved_draft_snapshot`). Items share nothing but workers,
  so one is enough.
* `jobs`, `runs`: its `background_jobs` and `llm_generation_runs` rows in order
  of creation; a row with status `"NONE"` does not exist yet. A job's `key` is
  the idempotency key in the metadata of the `ITEM_APPROVED` audit row written
  with it. Its `age` is `"stale"` once `_processing_job_is_stale` would say so.
* `keys`: for each `(user, endpoint, key)` triple the version the stored request
  sent, 0 if there is no row. The request hash covers the item, the note and
  that version; the note is left out here and modelled in `DetailPage`.
* `queue`: how many messages of each `(job, retries)` wait.
* `tab`: for each browser tab the version and draft it shows and the request in
  flight: `"approve"` (key looked up, lock not yet taken), `"enqueue"`
  (committed, not published), `"mark_failed"` (publish raised), `"provider"`.
* `wk`: for each worker its place in the task and the snapshot in its memory.
* `emails`, `approvals`: history, for the properties only.

Left out as data that decides nothing: names, notes, `ai_draft`,
`regeneration_count`, `celery_task_id`, cached responses, timestamps other than
through `age`, audit rows. Access control is a precondition: the tabs
belong to users who may access the item.

### Workbench: steps

Every transaction that writes takes the item's row lock first, or for the worker
the job's and then the item's, so a transaction is one step (`RowLocks` shows that
it may be). A request is split
where the code releases control: the key lookup before the lock
(`ApproveLookup`, then `ApproveCommit`), the publish after the commit
(`EnqueueOk`, `EnqueueRaises`, then `mark_processing_enqueue_failed`), the
provider call (`RegenerateStart`, then `RegenerateSave`,
`RegenerateDiscarded` or `mark_regeneration_failed`). The task is split into
`Receive` (all of `_start_processing_attempt`), `SideEffects`, and
`CompleteProcessing` or `RecordError`. Receipt and first transaction are one
step because a worker that dies in between is the same as a lost message; the
email and the CRM call are one because neither reads or writes shared state.

Two translations deserve a comment.

* `EnqueueFailedItem`. The handler calls `session.get(..., with_for_update=True)`
  in a session that already holds the item. SQLAlchemy then locks the row but
  does not refresh the object: sessions are made with `expire_on_commit=False`
  (`backend/app/db/session.py:20`) and the call does not pass the
  `populate_existing` that `backend/app/work_items/access.py:32` passes. The
  status is tested in memory, where it is always `PROCESSING`, and the version
  written is the one in memory plus one. Both regeneration transactions go
  through `access.py` and see the row.
* `Age`. Time is abstracted to one flag per job. It turns stale freely once
  nobody acts for the job; while a request, a worker or a message still does,
  only if the run admits `slow_worker` or `slow_queue`. Only the first attempt
  renews it, as in `job.started_at or now`.

A failing request that writes nothing is not a step; the page stays as it was.

### Accounts

Signups share the `users` and `organizations` rows and the demo items with each
other and nothing with the review of a single item, so `Accounts` is a system of
its own.

* `orgs`, `users`, `demo`: what is committed; `users` counts the rows of each
  organization, email and role, so that a duplicate row would show; `demo` is the reviewer of an
  organization's demo items, which are assigned together.
* `req`: each client's request. A step is one statement that reads, or can wait
  for, what another transaction writes; the locks and pending inserts of an open
  transaction follow from where it stands (`HoldsOrg`, `HoldsUser`, `HoldsItems`).
  A unique index makes an insert wait for a pending duplicate; `FOR UPDATE` waits
  and then tests the committed row again (PostgreSQL, READ COMMITTED).
* `clock`, `buckets`: the limiter. `check` and `reset` run between two awaits of
  one event loop, so they are atomic, but a login resets its key long after its
  `check`, and other attempts come in between. `now >= reset_at` is on ticks finer
  than a second, since `Retry-After` is truncated to seconds.
* `admitted` (the tick of every attempt admitted since the key's last reset), `told`,
  `raised`: history, for the properties only.

The limiter of signups works the same on buckets of its own and is left out. So
are hosts: one host's keys are modelled. Each API process has its own limiter
(`README.md:185`); the model is of one process. `Quiet` is no step of the code:
when the bounds are used up, clients may send nothing.

### ItemLifecycle

The abstract item has a status, a live draft, the approved draft, the drafts
reviewers have approved and the drafts that went out. It knows no request,
version, job, message or worker. `Workbench` implements it with `status`,
`draft` and `approved` read from the row and `reviewed` and `emailed` from the
two histories (`Lifecycle`, `ImplementsLifecycle` in `Workbench`). Key lookups,
publishes, receipts, retries of messages, lost messages and crashes become
stutters; so does a retry of an item that is still PROCESSING. The step
`Deliver` asks for the approved draft to be among those that went out, and
`Send` for a PROCESSING item: an implementation that lets an old worker
finish for a new approval does not refine it, which is findings 1 to 3 again,
and why the refinement is checked under the faults of `Timely`.

### RowLocks

* `lock`: the holder of the item's row and of each job's. `act`: which
  transaction each tab and worker is in, the row it asks for next, and what it
  has read. A transaction takes its locks in the order of the code, reads,
  and commits on what it has read; commit releases the locks.
* `"reject"` stands for the requests that lock the item alone. Versions, keys,
  snapshots and attempts do not matter to locks; the branches that depend on
  them are choices.
* `Abort` is PostgreSQL's deadlock detector. The victim's request answers 500; a
  task ends with an error that Celery does not retry (`autoretry_for=()`).
* `_create_processing_job` reads the active jobs with no lock on them
  (`api:285`). `ReadsCurrent` says that the read is still true at the commit:
  whoever changes a job's status holds the item as well. Together with
  `TransactionsAreAtomic` below this justifies the steps of `Workbench`.
* Left out: the branch for a job row that has disappeared (`api:340`), as nothing
  deletes jobs.

### DetailPage

* `page`: what the query cache shows, the fetch under way, the text box and the
  version it was filled from (`base`), whether the tab is hidden and whether the
  interval timer is set. Every render and every update of the query computes the
  interval anew, as React Query does; an invalidation cancels the fetch under way.
* `request`: requests with the answers they will get, including those the page
  has given up, which the server may still carry out.
* The server is `ReviewApi` seen from a page: an action that the status table and
  the version admit changes the item. `OtherActs` stands for other reviewers and
  `Settle` for the worker and for a failed enqueue. Every change raises the version
  by one. The failure handler writes the version from memory, which comes to the
  same as long as no publish is ambiguous (`PublisherInv`, `VersionsNeverReused`);
  a version reused after an ambiguous publish is outside this module.
* The page makes its idempotency key from the item, the version it shows and a
  random UUID, and keeps it as long as it shows that version (`page.tsx:348`). The
  reviewer's note is not in the key, but it is in the request hash, and its box can
  be edited between two clicks. So `keys` holds a version with the note it was
  approved with; a lookup replays the approval for the same note, and refuses
  another with `IDEMPOTENCY_KEY_REUSED`.
* React Query, fetch and the browser are modelled from how the page uses them:
  no refetch on focus of data younger than `staleTime` (15 s), no retry. `Arrive` is
  the render with its effect: React runs effects before the next click is handled.
* `made`, `acked`, `done`, `watched`, `repeat`: history, for the properties only.
  `made` is the version an answer reports, for a regeneration the one with its result,
  and `acked` the newest version reported to the page. `done` is the sequence of clicks
  that the server carried out, so that the same click carried out twice shows as two.
  `repeat` is recorded at the click: a second request that overlaps with the first
  is refused with 409 although the first succeeds, as both passed the unlocked
  lookup.

### RuntimeProvider

* Admin pages, several of one organization, loaded from some process at some
  time; their buttons send the PATCH to whatever process answers. `Restart` deploys
  a process anew with any of the environments, under pages loaded before.
* The PATCH handler has two steps: everything up to the commit, and the commit,
  which may fail. `runtime_config` and the cache change in the first. Two requests
  may commit in another order than they took effect in.
* A regeneration takes its provider object before the call and keeps it.
* `audit` is the provider in the last `RUNTIME_PROVIDER_CHANGED` row that a process
  has committed for an organization since it started. `settled` is history: that row
  is of the switch that took effect last. It is false while a switch is uncommitted,
  after its commit failed and after it was overtaken, until the next switch commits.

## The runs

The runs of the workflow check `MCWorkbench`; `Faults` says what may go wrong in
each.

| Run | Faults | Shows |
|---|---|---|
| `Failures` | every delivery failure, CRM failures, crashes, slow workers | `ProcessingHasActiveJob`, `EmailBodyApproved`, `RetryBudgetSuffices`, `EmailsCounted` hold whatever fails |
| `Timely` | failed publishes, lost messages, failing side effects and providers, crashes; all operations, two regenerations, every seeded status but SENT, which nothing leaves | `AttemptOwnsItem`, `SettledItemHasNoActiveJob`, `SentMatchesSnapshot`, `ApprovedAsShown`, `RegenerationExclusive`, `OneJobPerKey`, `TransitionsValid`, `VersionAdvances`, `TypeOK`; the refinement `ImplementsLifecycle` |
| `SlowQueue` | queueing beyond the stale threshold, lost messages, failed publishes, API crashes | `AtMostOneEmail`, `AttemptOwnsItem` although jobs are withdrawn while their messages still wait |
| `Progress` | failing and ambiguous publishes, failing emails and providers; fairness | `ProcessingSettles`, `RegenerationEnds`, also when a failure handler or a provider answer comes late and is discarded, with one exception: a retry that Celery could not publish |
| `StaleOverwrite`, `SentOther`, `FreshAttempt` | one each | findings 1 to 3 below |
| `Accounts` (`MCAccounts`) | a lost connection at any step | `OneAccountOneAdmin`, `DemoItemsKept` however signups interleave; `SlidingLimit`, `RetryAfterNearlySuffices` however attempts fall; `TypeOK` |
| `SignupRace` (`MCAccounts`) | none | finding 4 |
| `RowLocks` | deadlocks, publishes that raise; fairness | `ReadsCurrent`, `OneActiveJob`, `DeadlockNeedsRetry`, and `TransactionsEnd`: the detector resolves every deadlock |
| `RuntimeProvider` (`MCRuntimeProvider`) | failing and overtaken commits, restarts with other environments | `AuditTellsProvider`, `RegenerationUsesEffective` |
| `DetailPage` | failing fetches, lost requests and answers, a hidden tab; fairness | `RefreshedAfterAnswer`, `OneActionPerShownVersion`, `SaveReplacesWhatWasEdited`, `RepeatedApproveSucceeds`, `PollsUntilSettled` |

### Bounds

* `MaxVersion`: no reviewer operation starts from that version on; what has
  started finishes. `MaxJobs`, `MaxRuns`: rows created. A FAILED seed uses one
  job. Each run allows an approval, its retry, and one more edit, retry or
  approval that interferes; two jobs alive at once is all the active-job index
  leaves room for, and a third is where a withdrawn job's message arrives late.
  `Timely` has two runs, so that a second provider call could overlap with the first.
* Two tabs and two workers are the smallest that race; two drafts tell apart
  what was approved from what was written since; one key is submitted twice.
* `MaxAttempts` is 2 or 3 with `CeleryMaxRetries` equal to it, as in the code
  (both 3), so that first, repeated and last attempts differ.
* `Accounts`: two requests at a time and two signups are a race for one row and
  for one set of demo items; the seed, old or new, stands for the signups before.
  The window is 2 seconds of 2 ticks with limit 2, and time runs to tick 5: one
  window, the boundary, and the next. `SlidingLimit` says that of 2 * limit
  admissions in a row the last is a window after the first, so 3 may fall within a
  window's length where the limit is 2, which is what fixed windows promise.
* `RowLocks`: two tabs, one worker and two jobs. A deadlock has two members, since
  only the item's holder can be waited for by someone who holds a lock; two tabs
  add a request that waits behind them, and two jobs a retry with a stale one.
* `DetailPage`: versions to 3, two drafts, two notes, two requests of the page at a time, so
  that one overtakes or repeats the other, and one mishap. One lost answer, failed
  poll or hidden tab is what each property has to survive. Reviewers
  elsewhere edit and regenerate, one kind of change that settles and one that does not.
* `RuntimeProvider`: two organizations that could disturb each other, one of them
  with two pages whose switches could overtake each other, on one
  process whose environment `Restart` changes between the load of a page and its
  use: for the page, that is the same as another process that answers. Five
  environments tell all checks of a switch apart.
* Symmetry over tabs, clients, workers, drafts, keys and organizations is used in
  safety runs only.
* Deadlock is checked in every run but `DetailPage`. A page of a SENT item has
  nothing to do any more once the versions are used up; every other system here
  can always go on, as a page can be opened again at any time.

### Fairness

The `FairSpec` of `Workbench` gives weak fairness to each request that has
started, to the receipt of each job's messages and to each worker's task: the
event loop resumes a coroutine whose await has finished, and a free Celery worker
takes the next message and runs the task on. Reviewers, time and failures get
none. `Progress` admits no crash and no lost message, since the code has no
watchdog (`README.md:213`) and recovers from these only when a reviewer retries.
Publishes that fail are admitted. One of them leaves the item PROCESSING all the
same: `self.retry` publishes the next message after QUEUED is committed, and when
that raises, Celery rejects the message, which was acknowledged on receipt.
`ProcessingSettles` states this as its exception, `RetryLost`: a QUEUED job that was
tried before and that no request, message or worker acts for. In `Progress` nothing
else leads there, as messages are not lost, workers do not die and Celery's retries
suffice (`RetryBudgetSuffices`).

In `RowLocks` a transaction that has its locks proceeds (weak), one that waits for
a row gets it if the row is free again and again (strong: PostgreSQL queues those
who wait for a row), and the deadlock detector runs (weak). In `DetailPage` the
timer, the server's reads and their arrival are fair, and so is the end of work
the server has begun, which `ProcessingSettles` and `RegenerationEnds` are about.
Clicks, tabs and failures are not; `PollsUntilSettled` speaks of a page that stays
visible and whose polls succeed.

## Findings

1. `StaleOverwrite`: after an ambiguous publish, the failure handler writes
   FAILED, and an old version, over an item that is already SENT (`api:398`).
2. `SentOther`: `_complete_processing` completes an item on behalf of a job that
   is no longer its own; the item is SENT with a snapshot no email carried
   (`worker:200`).
3. `FreshAttempt`: staleness is measured from the first attempt's `started_at`
   (`worker:144`), so `retry-processing` can withdraw the job of an attempt that
   has just begun.
4. `SignupRace`: two signups that create one organization, or one account, end in
   a 500 instead of the 409 written for the case: the unique index raises in
   `session.flush()`, before the `try` around the commit
   (`backend/app/api/routes/auth.py:146` and `:183`).

Findings 1 to 3 need an ambiguous publish or a wait in the queue beyond the
stale threshold; `Timely` shows that without these the same properties hold.

Smaller differences between the code and what is said of it, seen while
modelling; the models follow the code, and no run is about them alone:

* An API process that stops during the provider call leaves the item
  REGENERATING, from where no action leads (`api:805`; `README.md:81` says that
  a regeneration "saves or fails in a second transaction").
* `retry-processing` locks the active job before it looks whether the job is
  stale (`api:339`). Even against a fresh job it can deadlock with the worker; if
  PostgreSQL picks the worker, its task ends after the email and is not retried, and
  the fresh job, which `README.md:85` says is protected, is left RUNNING.
* When Celery cannot publish a retry (`worker:56`), the job stays QUEUED without a
  message and the item PROCESSING until a reviewer retries, once the job is stale. The
  first publish of a job has a handler for this (`README.md:84`), a retry's has none.
  `ProcessingSettles` states the exception.
* A reviewer whose approval was carried out but not answered, and who edits the note
  and approves again, is told that the approval failed: the page sends the same key
  with another request (`page.tsx:348`, `api:653`). No second send comes of it
  (`README.md:82`). `RepeatedApproveSucceeds` is about the same note.
* `ANTHROPIC_API_KEY=""` counts as configured (`backend/app/core/config.py:187`)
  but the provider refuses it: a switch to it succeeds, and regenerations fail.
* An override stays in effect when the commit of its audit row fails, and rows of
  two admins who switch at the same time may be in another order than the overrides
  they record (`backend/app/api/routes/config.py:83` and `:106`), where `README.md:88`
  says that the switch is audited. `AuditTellsProvider` states both exceptions.
* One failed poll stops the page's polling for good (`page.tsx:310`), and a tab that
  comes back within `staleTime` of a fetch that ended while it was hidden does not poll
  until something renders; the page says that it polls until the item is sent or
  failed (`page.tsx:250`).
* Approve is enabled while the text box holds unsaved edits; the server approves
  the saved draft, and the refetch replaces the typing. `SaveReplacesWhatWasEdited`
  and `ApprovedAsShown` hold all the same: what is approved is the saved draft that
  the version shown belongs to.

## The proofs

TLAPS proves the theorems below for every value of the constants that the modules'
`ASSUME`s allow: any number of reviewers, workers, drafts, keys, clients and
processes, any bound. Every safety property and action property that a passing run
checks is stated by one of them.

Whatever fails (`WorkbenchProofs`, `ApprovalProofs`), with every combination of
faults:

| Theorem | States | Argument |
|---|---|---|
| `TypeCorrect` | `[]TypeOK` | inductive; lemmas say what each row helper keeps, then one lemma per component, one step per action |
| `ActiveJob` | `[]ProcessingHasActiveJob` | inductive given `TypeOK`: what ends the last active job settles the item (`FailedJobSettles`), what makes the item PROCESSING creates a job (`NewJobActive`) |
| `OnlyApprovedEmails` | `[]EmailBodyApproved` | `ApprovalInv` |
| `ApprovalIdempotent` | `[]OneJobPerKey` | `KeyInv` |
| `RetriesSuffice` | `[]RetryBudgetSuffices` | `BudgetInv` |
| `EmailsBounded` | `[]EmailsCounted` | `EmailInv` |

While nobody is late (`CustodyProofs`, `LifecycleProofs`, under `Prompt`, the last
one under `Undisturbed`):

| Theorem | States | Argument |
|---|---|---|
| `CustodyHolds` | `[]CustodyInv` | inductive given `TypeOK` |
| `WorkerOwnsItem` | `[]AttemptOwnsItem` | `WorkerInv` and `ActiveInv` |
| `SettledWithoutJob` | `[]SettledItemHasNoActiveJob` | `ActiveInv` |
| `Refinement` | `ImplementsLifecycle` | each action maps to one of `ItemLifecycle`, or to a stutter |
| `StatusMachineFollowed` | `TransitionsValid` | each action's step by `CustodyInv` |
| `SentWasEmailed` | `[]SentMatchesSnapshot` | from the refinement's invariant |
| `VersionsNeverReused` | `VersionAdvances` | `PublisherInv`: the version in memory is the row's |
| `OnlyShownDraftsApproved` | `[]ApprovedAsShown` | `PageInv`, which `VersionAdvances` keeps |
| `ProviderCallOwnsItem` | `[]RegenerationExclusive` | `RegenInv` |
| `OneEmailSent` | `[]AtMostOneEmail` | `OneEmailInv` |

The other components:

| Theorem | States | Argument |
|---|---|---|
| `TransactionsAreAtomic` | `[]ReadsCurrent` of `RowLocks` | `IInv` of `RowLocksProofs` |
| `ActiveJobUnique` | `[]OneActiveJob` | the same |
| `DeadlocksInvolveRetry` | `[]DeadlockNeedsRetry` | the same |
| `OneActionTakesEffect` | `[]OneActionPerShownVersion` of `DetailPage` | `IInv` of `DetailPageProofs` |
| `NoLostEdit` | `[]SaveReplacesWhatWasEdited` | the same |
| `RepeatsAreReplayed` | `[]RepeatedApproveSucceeds` | `RepeatsFindKey` |
| `AnswersAreShown` | `[]RefreshedAfterAnswer` | `Fresh`, with `MadeBefore` |
| `AuditAgrees` | `[]AuditTellsProvider` of `RuntimeProvider` | `LastInv` |
| `CacheTransparent` | `RegenerationUsesEffective` | `CacheInv` |
| `TypeCorrect` | `[]TypeOK` of `Accounts` | inductive; a bucket below the limit is what lets an attempt count |
| `SlidingLimitHolds` | `[]SlidingLimit` | `WindowInv` |
| `RetryAfterHolds` | `[]RetryAfterNearlySuffices` | `ToldInv` |
| `OneAccountHolds` | `[]OneAccountOneAdmin` | `SignupInv` |
| `DemoItemsHold` | `DemoItemsKept` | `SignupInv` |

The other three of these modules have a `TypeCorrect` of their own.

`EmailBodyApproved` is not inductive: a worker's memory and the snapshot of an
item a retry may process have to be approved too. That a retry never falls back
on the live draft needs one more fact, that a PROCESSING or FAILED item and an
item whose publish is pending have a snapshot at all; the failure handler, which
writes FAILED blindly, is why pending publishes are part of `ApprovalInv`.

`OneJobPerKey` needs that the key of every job is stored (`KeyInv`), and that a
request that looked its key up sends a version above 0, which marks it stored.

`RetryBudgetSuffices` needs that a message of the n-th retry follows n attempts of
its job and that a running task has counted one more (`BudgetInv`), which in
turn needs that no step lowers `attempt_count` (`AttemptsNeverDrop`). With
`MaxAttempts <= CeleryMaxRetries`, assumed because the code has 3 and 3, an
attempt below the limit then has a Celery retry left.

`EmailsBounded` numbers each email by its job's `attempt_count` when it left.
That no email of a job has the number of a worker about to send, and no other
worker holds it, is part of the property; `EmailInv` adds that a busy worker's
number is one its job has counted, so the next attempt's number is new.

`IInv` of `RowLocksProofs` says that a lock is held exactly by who has read the
row (`LocksAreReads`), what a transaction at each place may have read (`Shape`),
and that its copies agree with the rows (`CopiesCurrent`). The unlocked read of
the jobs stays true because its reader holds the item, and so does anyone who
is about to change a job's status.

`IInv` of `DetailPageProofs` says that the text box was filled from the version
shown (`PageOK`), that a request's text was typed over the version it is sent with
(`RequestOK`), and that whatever was carried out is of a version the item has left
behind (`DoneBefore`), so that no second request of that version is admitted, not even
the same one again. `RepeatsFindKey` says that a repeated approval has its key stored
with its note, and keys are never removed. `Fresh` says that a copy on its way to the page is no older than the newest
answered action, since the answer has cancelled any fetch that was.

`LastInv` of `RuntimeProviderProofs` says that a switch which is open, and which no
other of its organization on that process came after, is in use. So the row it will
write names the provider in use; `AuditTellsProvider` alone says nothing of a state in
which a switch is open.

`CacheInv` is that each cache entry holds the provider its key names, which makes
sharing the cache harmless.

### Custody

`Prompt` is what `CustodyProofs` and most of `LifecycleProofs` assume of `Faults`: no
publish is ambiguous or duplicated and no attempt outlasts the stale threshold; and
if messages may wait beyond it, no side effect fails, since the age of a job that was
tried before is not renewed. These are the faults of findings 1 to 3: each of
`StaleOverwrite`, `SentOther` and `FreshAttempt` violates `Prompt` and shows that the
theorem it is about fails without it. Lost messages, failed publishes, crashes of
either process, failing providers and, with a prompt queue, failing side effects are
all admitted. `Timely` and `SlowQueue` are instances, so the hypotheses can be met.

None of the properties is inductive, because what a step may do depends on who else is
at work. `CustodyInv` says that a job passes from hand to hand:

* `PublisherInv`: a request that is about to publish has a job that is new, QUEUED,
  has no message, and the item's version is the one the request's memory implies. So
  the failure handler, which writes status and version without looking, happens to
  write what it would have read. There is one such request at most.
* `MessageInv`: a job has one message at most, which finds the job as it was
  published; a message that was delayed finds a job that was never tried, perhaps
  withdrawn.
* `WorkerInv`: one worker at most is at work, on the latest attempt of a RUNNING and
  fresh job, with the item's snapshot in its memory.
* `ActiveInv`: one job is active at most, and only while the item is PROCESSING.

A fresh job cannot be withdrawn, so whoever holds it keeps it until it passes it on;
`retry-processing` can only withdraw one that nobody acts for, or whose message will
find it withdrawn.

`Refinement` needs in addition that whoever reaches completion has sent what it holds
(`EmailedInv`); with `WorkerInv` that is the item's snapshot, which is what `Deliver`
of `ItemLifecycle` asks for. `PageInv` says that a page that shows the current
version shows the current draft, which holds because versions only rise; so the
approval that `last_seen_version` admits is of the draft shown. `RegenInv` adds to
the property that a call in flight has a run to end. `OneEmailInv` says that who has
sent the one email is about to complete the item or has done so. `Undisturbed`
leaves out failing side effects and dying workers as well: with them a second attempt
sends a second email, and is meant to.

### Logins and signups

`WindowInv` keeps the place of the attempt that opened the current window among those
admitted: the bucket's count reaches back to it, the window ends a window's length
after it, and the attempt `Limit` places before it is a window older. Then of
`2 * Limit` attempts in a row a whole window lies between the first and the last. `ToldInv`
says that truncation takes less than a second off the wait.

`SignupInv` says what an open transaction owns. An organization that is being created
does not exist and has one creator, one that is joined exists (`OrgInv`); an account
that is being registered has no row, and one request (`UserInv`), so its commit makes
the first row of it; each organization has
an admin and no other (`AdminInv`); and who has locked demo items is alone, and the items
are still unassigned or an admin's (`ItemsInv`). The last one is not obvious: the
items were tested when the lock was taken, and it is the locks and the one admin that
keep the test true until the commit.

### What stays with TLC

Liveness under fairness (`ProcessingSettles`, `RegenerationEnds`, `TransactionsEnd`,
`PollsUntilSettled`) is out of this prover's reach. The four violated properties are
counterexamples, which only a run can show; three of them are theorems under
`Prompt`. The deadlock checks are of the runs' instances too, as they are about
`ENABLED`.

## Not modelled, and the plan

Not modelled: the audit log beyond the rows of provider switches, the queue and
login pages and the admin page's lists, health, logging, running migrations,
middleware, CORS and the check of production secrets, and what providers are asked
and how their answers are validated: a wrong answer is an exception. None keeps
state the workflow reads.

Partly modelled: the rows, of which descriptive columns are left out; signup and
login, without cookies, tokens and password hashing; the client library and
the proxy, which are the page's environment; startup and configuration, of which the
settings of the providers count.

Planned:

1. A proof that the promises hold for an ambiguous publish whose failure handler
   runs before the job's worker, which would narrow `Prompt` to what findings 1 and 2 need.
2. An abstract specification of the signups as single steps, and a proof that
   `Accounts` implements it.
