---------------------------- MODULE CustodyProofs ----------------------------
(***************************************************************************)
(* Proofs of what the workbench promises while a failed publish published  *)
(* nothing, no message is duplicated and the stale threshold outlasts an   *)
(* attempt.  The argument is custody: at any time one request, one message *)
(* or one worker acts for the item's active job, and no other job does.    *)
(***************************************************************************)
EXTENDS ApprovalProofs

USE DEF dbVars, vars

\* The failures admitted.  Messages may also outlast the threshold in the queue,
\* but not those of a job that was tried before: its age counts from the first try.
Prompt ==
  /\ Faults \cap {"ambiguous_enqueue", "duplicate_message", "slow_worker"} = {}
  /\ "slow_queue" \in Faults => Faults \cap {"email_fails", "crm_fails"} = {}

Publishes(r) == tab[r].pc \in {"enqueue", "mark_failed"}

\* A request about to publish holds a new job that nobody else acts for, and the
\* item is as its commit left it.
PublisherInv ==
  /\ \A r \in Reviewers : Publishes(r) =>
       /\ tab[r].job \in JobIds
       /\ jobs[tab[r].job].status = "QUEUED"
       /\ jobs[tab[r].job].age = "fresh"
       /\ jobs[tab[r].job].attempts = 0
       /\ ~HasMessage(tab[r].job)
       /\ item.version = tab[r].version + 1
  /\ \A r, s \in Reviewers : Publishes(r) /\ Publishes(s) => r = s

\* A job has one message at most.  A message that was not delayed finds its job as
\* it was published; one that was finds a job never tried, perhaps withdrawn.
MessageInv ==
  \A j \in JobIds, n \in 0..CeleryMaxRetries : queue[<<j, n>>] > 0 =>
    /\ queue[<<j, n>>] = 1
    /\ \A m \in 0..CeleryMaxRetries : queue[<<j, m>>] > 0 => m = n
    /\ jobs[j] # NoRow
    /\ IF "slow_queue" \in Faults THEN jobs[j].attempts = 0
       ELSE jobs[j].status = "QUEUED" /\ jobs[j].age = "fresh"

\* A worker with a draft in memory is alone and runs its job's latest attempt.
WorkerInv ==
  /\ \A w \in Workers : Busy(w) =>
       /\ jobs[wk[w].job].status = "RUNNING"
       /\ jobs[wk[w].job].age = "fresh"
       /\ wk[w].attempt = jobs[wk[w].job].attempts
       /\ wk[w].attempt > 0
       /\ wk[w].body = item.snapshot
       /\ wk[w].pc = "error" => Faults \cap {"email_fails", "crm_fails"} # {}
  /\ \A v, w \in Workers : Busy(v) /\ Busy(w) => v = w

\* One job is active at most, and only while the item is PROCESSING.
ActiveInv ==
  /\ \A i, j \in ActiveJobs : i = j
  /\ ActiveJobs # {} => item.status = "PROCESSING"

CustodyInv == PublisherInv /\ MessageInv /\ WorkerInv /\ ActiveInv

\* At first no job is active and nobody acts for one.
LEMMA CustodyInit == Init => CustodyInv
<1>1. SUFFICES ASSUME Init PROVE CustodyInv
  OBVIOUS
<1>2. \A r \in Reviewers : ~Publishes(r)
  BY <1>1 DEF Init, Showing, Publishes
<1>3. \A w \in Workers : ~Busy(w)
  BY <1>1 DEF Init, IdleWorker, Busy
<1>4. \A j \in JobIds, n \in 0..CeleryMaxRetries : queue[<<j, n>>] = 0
  BY <1>1 DEF Init, Messages
<1>5. ActiveJobs = {}
  <2>1. \A s : SeedJob(s).status \in {"NONE", "FAILED"} /\ NoRow.status = "NONE"
    BY DEF SeedJob, NoRow
  <2>2. \A j \in JobIds : jobs[j].status \in {"NONE", "FAILED"}
    BY <1>1, <2>1 DEF Init
  <2>3. QED
    BY <2>2 DEF ActiveJobs
<1>6. PublisherInv
  BY <1>2 DEF PublisherInv
<1>7. MessageInv
  BY <1>4 DEF MessageInv
<1>8. WorkerInv
  BY <1>3 DEF WorkerInv
<1>9. QED
  BY <1>5, <1>6, <1>7, <1>8 DEF CustodyInv, ActiveInv

-----------------------------------------------------------------------------
(* Rows, messages and what custody excludes. *)

\* The fields of a job row, created or not.
LEMMA JobFields ==
  ASSUME TypeOK, NEW j \in JobIds
  PROVE  jobs[j] \in [status: BackgroundJobStatus \cup {"NONE"}, attempts: Nat,
                      age: {"fresh", "stale"}, key: Keys \cup {NoKey}]
BY DEF TypeOK, JobRow, NoRow

\* Writing a job's status changes nothing else of it, and no other job.
LEMMA StatusWritten ==
  ASSUME TypeOK, NEW j \in JobIds, NEW s \in BackgroundJobStatus,
         jobs' = [jobs EXCEPT ![j].status = s]
  PROVE  /\ \A i \in JobIds : i # j => jobs'[i] = jobs[i]
         /\ jobs'[j].status = s
         /\ jobs'[j].age = jobs[j].age
         /\ jobs'[j].attempts = jobs[j].attempts
         /\ jobs'[j] # NoRow
<1>1. jobs'[j] = [jobs[j] EXCEPT !.status = s] /\ \A i \in JobIds : i # j => jobs'[i] = jobs[i]
  BY DEF TypeOK
<1>2. [jobs[j] EXCEPT !.status = s] =
        [status |-> s, attempts |-> jobs[j].attempts, age |-> jobs[j].age, key |-> jobs[j].key]
  BY JobFields
<1>3. s # "NONE"
  BY DEF BackgroundJobStatus
<1>4. QED
  BY <1>1, <1>2, <1>3 DEF NoRow

\* A move of the item, field by field.
LEMMA MovedFields ==
  ASSUME TypeOK, NEW s \in WorkItemStatus
  PROVE  /\ Moved(item, s) \in ItemRow
         /\ Moved(item, s).status = s
         /\ Moved(item, s).version = item.version + 1
         /\ Moved(item, s).final_draft = item.final_draft
         /\ Moved(item, s).snapshot = item.snapshot
<1>1. item \in ItemRow
  BY DEF TypeOK
<1>2. QED
  BY <1>1, MovedRow

\* Without duplicates a publish adds one message.
LEMMA OnePublished ==
  ASSUME TypeOK, Prompt, NEW j \in JobIds, NEW n \in 0..CeleryMaxRetries, Publish(j, n)
  PROVE  /\ queue'[<<j, n>>] = queue[<<j, n>>] + 1
         /\ \A i \in JobIds, m \in 0..CeleryMaxRetries :
              i # j \/ m # n => queue'[<<i, m>>] = queue[<<i, m>>]
<1>1. Copies = {1}
  BY DEF Prompt, Copies
<1>2. queue' = [queue EXCEPT ![<<j, n>>] = @ + 1]
  BY <1>1 DEF Publish
<1>3. <<j, n>> \in Messages
  BY DEF Messages
<1>4. \A i \in JobIds, m \in 0..CeleryMaxRetries : <<i, m>> \in Messages
  BY DEF Messages
<1>5. QED
  BY <1>2, <1>3, <1>4 DEF TypeOK

\* A job's only message is gone once it is consumed; other jobs' stay.
LEMMA OneConsumed ==
  ASSUME TypeOK, MessageInv, NEW j \in JobIds, NEW n \in 0..CeleryMaxRetries, Consume(j, n)
  PROVE  /\ HasMessage(j)
         /\ \A m \in 0..CeleryMaxRetries : queue'[<<j, m>>] = 0
         /\ \A i \in JobIds, m \in 0..CeleryMaxRetries :
              queue'[<<i, m>>] = queue[<<i, m>>] \/ queue'[<<i, m>>] = 0
<1>1. queue[<<j, n>>] = 1 /\ \A m \in 0..CeleryMaxRetries : queue[<<j, m>>] > 0 => m = n
  BY DEF Consume, MessageInv
<1>2. \A i \in JobIds, m \in 0..CeleryMaxRetries :
        /\ <<i, m>> \in Messages
        /\ queue[<<i, m>>] \in Nat
  BY DEF Messages, TypeOK
<1>3. queue' = [queue EXCEPT ![<<j, n>>] = @ - 1]
  BY DEF Consume
<1>4. queue'[<<j, n>>] = 0
  BY <1>1, <1>2, <1>3 DEF TypeOK
<1>5. \A i \in JobIds, m \in 0..CeleryMaxRetries :
        <<i, m>> # <<j, n>> => queue'[<<i, m>>] = queue[<<i, m>>]
  BY <1>2, <1>3 DEF TypeOK
<1>6. \A m \in 0..CeleryMaxRetries : m # n => queue[<<j, m>>] = 0
  BY <1>1, <1>2
<1>7. QED
  BY <1>1, <1>4, <1>5, <1>6 DEF HasMessage

\* Whoever acts for a job excludes the others: the job is the only active one.
LEMMA Custody ==
  ASSUME TypeOK, CustodyInv
  PROVE  /\ \A w \in Workers : Busy(w) =>
              /\ wk[w].job \in JobIds
              /\ ActiveJobs = {wk[w].job}
              /\ ~HasMessage(wk[w].job)
              /\ \A r \in Reviewers : ~Publishes(r)
              /\ item.status = "PROCESSING"
         /\ \A r \in Reviewers : Publishes(r) =>
              /\ ActiveJobs = {tab[r].job}
              /\ item.status = "PROCESSING"
<1>1. ASSUME NEW r \in Reviewers, Publishes(r)
      PROVE  tab[r].job \in ActiveJobs /\ jobs[tab[r].job].status = "QUEUED"
  BY <1>1 DEF CustodyInv, PublisherInv, ActiveJobs
<1>2. ASSUME NEW w \in Workers, Busy(w)
      PROVE  /\ wk[w].job \in ActiveJobs /\ wk[w].job \in JobIds
             /\ jobs[wk[w].job].status = "RUNNING"
             /\ jobs[wk[w].job].attempts # 0
  <2>1. wk[w].job \in JobIds
    BY <1>2 DEF TypeOK, Busy, BusyWorker, IdleWorker
  <2>2. QED
    BY <1>2, <2>1 DEF CustodyInv, WorkerInv, ActiveJobs
<1>3. ASSUME NEW w \in Workers, Busy(w)
      PROVE  ~HasMessage(wk[w].job)
  <2>1. \A n \in 0..CeleryMaxRetries : ~(queue[<<wk[w].job, n>>] > 0)
    BY <1>2, <1>3 DEF CustodyInv, MessageInv
  <2>2. QED
    BY <2>1 DEF HasMessage
<1>4. \A i \in ActiveJobs : ActiveJobs = {i} /\ item.status = "PROCESSING"
  BY DEF CustodyInv, ActiveInv
<1>5. \A w \in Workers, r \in Reviewers : Busy(w) /\ Publishes(r) => FALSE
  BY <1>1, <1>2, <1>4
<1>6. QED
  BY <1>1, <1>2, <1>3, <1>4, <1>5

\* Somebody acts for job j: what InFlight says, actor by actor.
ActsFor(j) ==
  \/ HasMessage(j)
  \/ \E r \in Reviewers : Publishes(r) /\ tab[r].job = j
  \/ \E w \in Workers : Busy(w) /\ wk[w].job = j

\* Steps by which nobody takes custody of a job: a job changes only by ending, with
\* nobody left to act for it, and the item only if no active job remains.
LEMMA CustodyFrame ==
  ASSUME TypeOK, CustodyInv,
         \A i \in JobIds : \/ jobs'[i] = jobs[i]
                           \/ jobs'[i].status \in {"COMPLETED", "FAILED"} /\ ~ActsFor(i)',
         \A i \in JobIds, n \in 0..CeleryMaxRetries :
           queue'[<<i, n>>] = queue[<<i, n>>] \/ queue'[<<i, n>>] = 0,
         \A r \in Reviewers : Publishes(r)' =>
           Publishes(r) /\ tab'[r].job = tab[r].job /\ tab'[r].version = tab[r].version,
         \A w \in Workers : Busy(w)' =>
           /\ Busy(w)
           /\ wk'[w].job = wk[w].job
           /\ wk'[w].attempt = wk[w].attempt
           /\ wk'[w].body = wk[w].body
           /\ wk'[w].pc = "error" => Faults \cap {"email_fails", "crm_fails"} # {},
         \/ /\ item'.status = item.status
            /\ item'.snapshot = item.snapshot
            /\ item'.version = item.version
         \/ ActiveJobs' = {}
  PROVE  CustodyInv'
<1>1. \A i \in ActiveJobs' : i \in ActiveJobs
  BY DEF ActiveJobs
<1>2. ActiveInv'
  <2>1. \A i, j \in ActiveJobs' : i = j
    BY <1>1 DEF CustodyInv, ActiveInv
  <2>2. ActiveJobs' # {} => item'.status = "PROCESSING"
    BY <1>1 DEF CustodyInv, ActiveInv
  <2>3. QED
    BY <2>1, <2>2 DEF ActiveInv
<1>3. \A i \in JobIds : HasMessage(i)' => HasMessage(i) /\ jobs'[i] = jobs[i]
  BY DEF HasMessage, ActsFor
<1>4. MessageInv'
  <2> SUFFICES ASSUME NEW j \in JobIds, NEW n \in 0..CeleryMaxRetries, queue'[<<j, n>>] > 0
               PROVE  /\ queue'[<<j, n>>] = 1
                      /\ \A m \in 0..CeleryMaxRetries : queue'[<<j, m>>] > 0 => m = n
                      /\ jobs'[j] # NoRow
                      /\ IF "slow_queue" \in Faults THEN jobs'[j].attempts = 0
                         ELSE jobs'[j].status = "QUEUED" /\ jobs'[j].age = "fresh"
    BY DEF MessageInv
  <2>1. jobs'[j] = jobs[j]
    BY <1>3 DEF HasMessage
  <2>2. \A m \in 0..CeleryMaxRetries : queue'[<<j, m>>] > 0 => queue'[<<j, m>>] = queue[<<j, m>>]
    OBVIOUS
  <2>3. QED
    BY <2>1, <2>2 DEF CustodyInv, MessageInv
<1>5. ASSUME NEW r \in Reviewers, Publishes(r)'
      PROVE  /\ Publishes(r) /\ tab'[r].job = tab[r].job
             /\ jobs'[tab[r].job] = jobs[tab[r].job]
             /\ item'.version = item.version
  <2>1. Publishes(r) /\ tab'[r].job = tab[r].job /\ tab[r].job \in JobIds
    BY <1>5 DEF CustodyInv, PublisherInv
  <2>2. jobs'[tab[r].job] = jobs[tab[r].job]
    BY <1>5, <2>1 DEF ActsFor
  <2>3. tab[r].job \in ActiveJobs'
    BY <2>1, <2>2 DEF CustodyInv, PublisherInv, ActiveJobs
  <2>4. QED
    BY <2>1, <2>2, <2>3
<1>6. PublisherInv'
  <2>1. ASSUME NEW r \in Reviewers, Publishes(r)'
        PROVE  /\ tab'[r].job \in JobIds
               /\ jobs'[tab'[r].job].status = "QUEUED"
               /\ jobs'[tab'[r].job].age = "fresh"
               /\ jobs'[tab'[r].job].attempts = 0
               /\ ~HasMessage(tab[r].job)'
               /\ item'.version = tab'[r].version + 1
    <3>1. /\ tab[r].job \in JobIds /\ ~HasMessage(tab[r].job)
          /\ jobs[tab[r].job].status = "QUEUED" /\ jobs[tab[r].job].age = "fresh"
          /\ jobs[tab[r].job].attempts = 0
          /\ item.version = tab[r].version + 1
      BY <1>5, <2>1 DEF CustodyInv, PublisherInv
    <3>2. \A n \in 0..CeleryMaxRetries : ~(queue'[<<tab[r].job, n>>] > 0)
      BY <3>1 DEF HasMessage
    <3>3. ~HasMessage(tab[r].job)'
      BY <1>5, <2>1, <3>2 DEF HasMessage
    <3>4. QED
      BY <1>5, <2>1, <3>1, <3>3
  <2>2. \A r, s \in Reviewers : Publishes(r)' /\ Publishes(s)' => r = s
    BY DEF CustodyInv, PublisherInv
  <2>3. QED
    BY <2>1, <2>2 DEF PublisherInv
<1>7. WorkerInv'
  <2>1. ASSUME NEW w \in Workers, Busy(w)'
        PROVE  /\ jobs'[wk'[w].job].status = "RUNNING"
               /\ jobs'[wk'[w].job].age = "fresh"
               /\ wk'[w].attempt = jobs'[wk'[w].job].attempts
               /\ wk'[w].attempt > 0
               /\ wk'[w].body = item'.snapshot
               /\ wk'[w].pc = "error" => Faults \cap {"email_fails", "crm_fails"} # {}
    <3>1. Busy(w) /\ wk[w].job \in JobIds /\ wk'[w].job = wk[w].job
      BY <2>1, Custody
    <3>2. jobs'[wk[w].job] = jobs[wk[w].job]
      BY <2>1, <3>1 DEF ActsFor
    <3>3. wk[w].job \in ActiveJobs'
      BY <3>1, <3>2 DEF CustodyInv, WorkerInv, ActiveJobs
    <3>4. item'.snapshot = item.snapshot
      BY <3>3
    <3>5. QED
      BY <2>1, <3>1, <3>2, <3>4 DEF CustodyInv, WorkerInv
  <2>2. \A v, w \in Workers : Busy(v)' /\ Busy(w)' => v = w
    BY DEF CustodyInv, WorkerInv
  <2>3. QED
    BY <2>1, <2>2 DEF WorkerInv
<1>8. QED
  BY <1>2, <1>4, <1>6, <1>7 DEF CustodyInv

\* A new job starts with the request that is to publish it, provided that the jobs
\* active before are withdrawn and had nobody but delayed messages acting for them.
LEMMA CustodyNewJob ==
  ASSUME TypeOK, Prompt, CustodyInv, NEW r \in Reviewers, ~Publishes(r), NEW j \in NextJob,
         NEW k \in Keys \cup {NoKey}, NEW js \in [JobIds -> JobRow \cup {NoRow}],
         \A i \in JobIds : js[i] = IF i \in ActiveJobs THEN [jobs[i] EXCEPT !.status = "FAILED"]
                                   ELSE jobs[i],
         \A i \in ActiveJobs : jobs[i].age = "stale",
         jobs' = CreateJob(js, j, k),
         tab' = [tab EXCEPT ![r] = Publishing(@, j)],
         tab[r].version = item.version,
         item'.status = "PROCESSING", item'.version = item.version + 1,
         UNCHANGED <<queue, wk>>
  PROVE  CustodyInv'
<1>1. (\A s \in Reviewers : ~Publishes(s)) /\ (\A w \in Workers : ~Busy(w))
  BY Custody DEF CustodyInv, PublisherInv, WorkerInv
<1>2. /\ j \in JobIds /\ jobs[j] = NoRow
      /\ jobs'[j] = [status |-> "QUEUED", attempts |-> 0, age |-> "fresh", key |-> k]
      /\ \A i \in JobIds : i # j => jobs'[i] = js[i]
  BY QueuedJobRow DEF NextJob, CreateJob
<1>3. ASSUME NEW i \in JobIds
      PROVE  /\ js[i].status \notin {"QUEUED", "RUNNING"}
             /\ js[i].attempts = jobs[i].attempts
             /\ i \notin ActiveJobs => js[i] = jobs[i]
             /\ i \in ActiveJobs => js[i] # NoRow
  <2>1. CASE i \in ActiveJobs
    <3>1. js[i] = [status |-> "FAILED", attempts |-> jobs[i].attempts, age |-> jobs[i].age,
                   key |-> jobs[i].key]
      BY <2>1, JobFields
    <3>2. QED
      BY <2>1, <3>1 DEF NoRow
  <2>2. CASE i \notin ActiveJobs
    BY <2>2 DEF ActiveJobs
  <2>3. QED
    BY <2>1, <2>2
<1>4. ActiveJobs' = {j}
  BY <1>2, <1>3 DEF ActiveJobs
<1>5. ~HasMessage(j)
  BY <1>2 DEF CustodyInv, MessageInv, HasMessage
<1>6. MessageInv'
  <2> SUFFICES ASSUME NEW i \in JobIds, NEW n \in 0..CeleryMaxRetries, queue[<<i, n>>] > 0
               PROVE  /\ queue[<<i, n>>] = 1
                      /\ \A m \in 0..CeleryMaxRetries : queue[<<i, m>>] > 0 => m = n
                      /\ jobs'[i] # NoRow
                      /\ IF "slow_queue" \in Faults THEN jobs'[i].attempts = 0
                         ELSE jobs'[i].status = "QUEUED" /\ jobs'[i].age = "fresh"
    BY DEF MessageInv
  <2>1. /\ queue[<<i, n>>] = 1
        /\ \A m \in 0..CeleryMaxRetries : queue[<<i, m>>] > 0 => m = n
        /\ jobs[i] # NoRow
    BY DEF CustodyInv, MessageInv
  <2>2. i # j
    BY <1>2, <2>1
  <2>3. jobs'[i] # NoRow
    BY <1>2, <1>3, <2>1, <2>2
  <2>4. CASE "slow_queue" \in Faults
    <3>1. jobs[i].attempts = 0
      BY <2>4 DEF CustodyInv, MessageInv
    <3>2. QED
      BY <1>2, <1>3, <2>1, <2>2, <2>3, <2>4, <3>1
  <2>5. CASE "slow_queue" \notin Faults
    <3>1. jobs[i].status = "QUEUED" /\ jobs[i].age = "fresh"
      BY <2>5 DEF CustodyInv, MessageInv
    <3>2. i \notin ActiveJobs
      BY <3>1
    <3>3. QED
      BY <3>1, <3>2 DEF ActiveJobs
  <2>6. QED
    BY <2>4, <2>5
<1>7. \A s \in Reviewers : Publishes(s)' => s = r
  BY <1>1 DEF Publishes, TypeOK
<1>8. tab'[r].job = j /\ tab'[r].version = item.version
  BY DEF TypeOK, Publishing, InRequest
<1>9. PublisherInv'
  <2>1. ~HasMessage(j)'
    BY <1>5 DEF HasMessage
  <2>2. QED
    BY <1>2, <1>7, <1>8, <2>1 DEF PublisherInv
<1>10. WorkerInv'
  BY <1>1 DEF WorkerInv, Busy
<1>11. ActiveInv'
  BY <1>4 DEF ActiveInv
<1>12. QED
  BY <1>6, <1>9, <1>10, <1>11 DEF CustodyInv

-----------------------------------------------------------------------------
(* The requests. *)

\* A request that leaves the jobs, the messages and the workers alone.
LEMMA CustodyOfRequest ==
  ASSUME TypeOK, CustodyInv, UNCHANGED <<jobs, queue, wk>>,
         NEW r \in Reviewers, NEW t,
         tab' = tab \/ tab' = [tab EXCEPT ![r] = t],
         t.pc \in {"enqueue", "mark_failed"} =>
           Publishes(r) /\ t.job = tab[r].job /\ t.version = tab[r].version,
         item' = item \/ item.status # "PROCESSING"
  PROVE  CustodyInv'
<1>1. \A s \in Reviewers : Publishes(s)' =>
        Publishes(s) /\ tab'[s].job = tab[s].job /\ tab'[s].version = tab[s].version
  BY DEF Publishes, TypeOK
<1>2. \A w \in Workers : Busy(w)' =>
        /\ Busy(w)
        /\ wk'[w].pc = "error" => Faults \cap {"email_fails", "crm_fails"} # {}
  BY DEF Busy, CustodyInv, WorkerInv
<1>3. item' = item \/ ActiveJobs' = {}
  BY DEF CustodyInv, ActiveInv, ActiveJobs
<1>4. QED
  BY <1>1, <1>2, <1>3, CustodyFrame

\* An operation admitted in a status other than PROCESSING.
LEMMA AdmittedWhenSettled ==
  ASSUME TypeOK, NEW r \in Reviewers, NEW a \in WorkItemAction \ {"RETRY_PROCESSING"}, Admits(r, a)
  PROVE  /\ item.status # "PROCESSING"
         /\ tab[r].version = item.version
BY DEF Admits, check_version, can_perform_action, VALID_ACTIONS, WorkItemAction, TypeOK, ItemRow,
   WorkItemStatus

\* An approval finds no active job and takes custody of the one it creates.
LEMMA CustodyApprove ==
  ASSUME TypeOK, Prompt, CustodyInv, NEW r \in Reviewers, ApproveCommit(r)
  PROVE  CustodyInv'
<1>1. ActiveJobs = {} /\ tab[r].version = item.version /\ ~Publishes(r)
  BY AdmittedWhenSettled
     DEF ApproveCommit, ApprovalAdmitted, NoActiveJob, WorkItemAction, Publishes
<1>2. tab[r].key \in Keys \cup {NoKey}
  BY DEF TypeOK, TabState
<1>3. PICK j \in NextJob :
        /\ jobs' = CreateJob(jobs, j, tab[r].key)
        /\ tab' = [tab EXCEPT ![r] = Publishing(@, j)]
  BY DEF ApproveCommit
<1>4. item'.status = "PROCESSING" /\ item'.version = item.version + 1
  <2>1. /\ Moved(item, "PROCESSING") \in ItemRow
        /\ Moved(item, "PROCESSING").status = "PROCESSING"
        /\ Moved(item, "PROCESSING").version = item.version + 1
    BY MovedFields DEF WorkItemStatus
  <2>2. item' = [Moved(item, "PROCESSING") EXCEPT !.snapshot = ApprovedSnapshot(item)]
    BY DEF ApproveCommit
  <2>3. QED
    BY <2>1, <2>2 DEF ItemRow
<1>5. \A i \in JobIds : jobs[i] = IF i \in ActiveJobs THEN [jobs[i] EXCEPT !.status = "FAILED"]
                                  ELSE jobs[i]
  BY <1>1
<1>6. UNCHANGED <<queue, wk>> /\ jobs \in [JobIds -> JobRow \cup {NoRow}]
  BY DEF ApproveCommit, TypeOK
<1>7. QED
  BY <1>1, <1>2, <1>3, <1>4, <1>5, <1>6, CustodyNewJob

\* A retry withdraws only stale jobs, which no request or worker acts for.
LEMMA CustodyRetry ==
  ASSUME TypeOK, Prompt, CustodyInv, NEW r \in Reviewers, retry_processing(r)
  PROVE  CustodyInv'
<1>1. tab[r].version = item.version /\ ~Publishes(r)
  BY DEF retry_processing, Requested, Admits, check_version, Publishes
<1>2. \A i \in ActiveJobs : jobs[i].age = "stale"
  BY DEF retry_processing, Recoverable
<1>3. PICK j \in NextJob :
        /\ jobs' = CreateJob(StaleJobsFailed, j, NoKey)
        /\ tab' = [tab EXCEPT ![r] = Publishing(@, j)]
  BY DEF retry_processing
<1>4. item'.status = "PROCESSING" /\ item'.version = item.version + 1
  <2>1. /\ Moved(item, "PROCESSING") \in ItemRow
        /\ Moved(item, "PROCESSING").status = "PROCESSING"
        /\ Moved(item, "PROCESSING").version = item.version + 1
    BY MovedFields DEF WorkItemStatus
  <2>2. item' = [Moved(item, "PROCESSING") EXCEPT !.snapshot = RetrySnapshot(item)]
    BY DEF retry_processing
  <2>3. QED
    BY <2>1, <2>2 DEF ItemRow
<1>5. StaleJobsFailed \in [JobIds -> JobRow \cup {NoRow}]
  BY DEF StaleJobsFailed, TypeOK, JobRow, NoRow, BackgroundJobStatus
<1>6. \A i \in JobIds : StaleJobsFailed[i] = IF i \in ActiveJobs
                                             THEN [jobs[i] EXCEPT !.status = "FAILED"] ELSE jobs[i]
  BY DEF StaleJobsFailed
<1>7. UNCHANGED <<queue, wk>>
  BY DEF retry_processing
<1>8. QED
  BY <1>1, <1>2, <1>3, <1>4, <1>5, <1>6, <1>7, CustodyNewJob

\* A successful publish hands its job over to the message.
LEMMA CustodyEnqueue ==
  ASSUME TypeOK, Prompt, CustodyInv, NEW r \in Reviewers, EnqueueOk(r)
  PROVE  CustodyInv'
<1> DEFINE j == tab[r].job
<1>1. /\ Publishes(r) /\ j \in JobIds /\ ~HasMessage(j)
      /\ jobs[j].status = "QUEUED" /\ jobs[j].age = "fresh" /\ jobs[j].attempts = 0
  BY DEF EnqueueOk, Publishes, CustodyInv, PublisherInv
<1>2. jobs' = jobs /\ item' = item /\ wk' = wk
  BY DEF EnqueueOk
<1>3. 0 \in 0..CeleryMaxRetries
  BY StoreAssumption
<1>4. /\ queue'[<<j, 0>>] = queue[<<j, 0>>] + 1
      /\ \A i \in JobIds, m \in 0..CeleryMaxRetries :
           i # j \/ m # 0 => queue'[<<i, m>>] = queue[<<i, m>>]
  BY <1>1, <1>3, OnePublished DEF EnqueueOk
<1>5. \A m \in 0..CeleryMaxRetries : queue[<<j, m>>] = 0
  <2>1. \A m \in 0..CeleryMaxRetries : <<j, m>> \in Messages /\ ~(queue[<<j, m>>] > 0)
    BY <1>1 DEF HasMessage, Messages
  <2>2. QED
    BY <2>1 DEF TypeOK
<1>6. \A s \in Reviewers : ~Publishes(s)'
  <2>1. \A s \in Reviewers : Publishes(s) => s = r
    BY <1>1 DEF CustodyInv, PublisherInv
  <2>2. tab' = [tab EXCEPT ![r] = Idle(@)] /\ Idle(tab[r]).pc = "idle"
    BY DEF EnqueueOk, Idle, InRequest
  <2>3. QED
    BY <2>1, <2>2 DEF Publishes, TypeOK
<1>7. PublisherInv'
  BY <1>6 DEF PublisherInv
<1>8. MessageInv'
  <2> SUFFICES ASSUME NEW i \in JobIds, NEW n \in 0..CeleryMaxRetries, queue'[<<i, n>>] > 0
               PROVE  /\ queue'[<<i, n>>] = 1
                      /\ \A m \in 0..CeleryMaxRetries : queue'[<<i, m>>] > 0 => m = n
                      /\ jobs[i] # NoRow
                      /\ IF "slow_queue" \in Faults THEN jobs[i].attempts = 0
                         ELSE jobs[i].status = "QUEUED" /\ jobs[i].age = "fresh"
    BY <1>2 DEF MessageInv
  <2>1. CASE i = j
    <3>1. n = 0 /\ queue'[<<j, 0>>] = 1 /\ \A m \in 0..CeleryMaxRetries : m # 0 => queue'[<<j, m>>] = 0
      BY <1>1, <1>3, <1>4, <1>5, <2>1
    <3>2. jobs[j] # NoRow
      BY <1>1 DEF NoRow
    <3>3. QED
      BY <1>1, <2>1, <3>1, <3>2
  <2>2. CASE i # j
    BY <1>4, <2>2 DEF CustodyInv, MessageInv
  <2>3. QED
    BY <2>1, <2>2
<1>9. WorkerInv'
  BY <1>2 DEF CustodyInv, WorkerInv, Busy
<1>10. ActiveInv'
  BY <1>2 DEF CustodyInv, ActiveInv, ActiveJobs
<1>11. QED
  BY <1>7, <1>8, <1>9, <1>10 DEF CustodyInv

\* The failure handler ends the job it holds, the only active one.
LEMMA CustodyEnqueueFailed ==
  ASSUME TypeOK, CustodyInv, NEW r \in Reviewers, mark_processing_enqueue_failed(r)
  PROVE  CustodyInv'
<1>0. Publishes(r) /\ tab[r].job \in JobIds
  BY DEF mark_processing_enqueue_failed, Publishes, CustodyInv, PublisherInv
<1> PICK j \in JobIds : j = tab[r].job
  BY <1>0
<1>1. Publishes(r) /\ ~HasMessage(j)
  BY <1>0 DEF CustodyInv, PublisherInv
<1>2. /\ ActiveJobs = {j}
      /\ \A w \in Workers : ~Busy(w)
      /\ \A s \in Reviewers : Publishes(s) => s = r
  BY <1>1, Custody DEF CustodyInv, PublisherInv
<1>3. /\ jobs'[j].status = "FAILED"
      /\ \A i \in JobIds : i # j => jobs'[i] = jobs[i]
  BY <1>1, StatusWritten DEF mark_processing_enqueue_failed, BackgroundJobStatus
<1>4. queue' = queue /\ wk' = wk
  BY DEF mark_processing_enqueue_failed
<1>5. \A s \in Reviewers : ~Publishes(s)'
  <2>1. tab' = [tab EXCEPT ![r] = Idle(@)] /\ Idle(tab[r]).pc = "idle"
    BY DEF mark_processing_enqueue_failed, Idle, InRequest
  <2>2. QED
    BY <1>2, <2>1 DEF Publishes, TypeOK
<1>6. \A w \in Workers : ~Busy(w)'
  BY <1>2, <1>4 DEF Busy
<1>7. ~ActsFor(j)'
  <2>1. ~HasMessage(j)'
    BY <1>1, <1>4 DEF HasMessage
  <2>2. QED
    BY <1>5, <1>6, <2>1 DEF ActsFor
<1>8. ActiveJobs' = {}
  BY <1>1, <1>2, <1>3 DEF ActiveJobs
<1>9. QED
  BY <1>3, <1>4, <1>5, <1>6, <1>7, <1>8, CustodyFrame

\* No request disturbs custody.
LEMMA CustodyReviewNext ==
  ASSUME TypeOK, Prompt, CustodyInv, NEW r \in Reviewers,
         ReviewerStep(r) \/ ApiStep(r) \/ ApiCrash(r)
  PROVE  CustodyInv'
<1>1. CASE Open(r)
  <2> DEFINE t == Showing(item.version, item.final_draft)
  <2>1. t.pc = "idle"
    BY DEF Showing
  <2>2. tab' = [tab EXCEPT ![r] = t] /\ UNCHANGED <<item, jobs, queue, wk>>
    BY <1>1 DEF Open
  <2> HIDE DEF t
  <2>3. QED
    BY <2>1, <2>2, CustodyOfRequest
<1>2. CASE (\E d \in Drafts : update_draft(r, d)) \/ reject_work_item(r) \/ reopen_work_item(r)
  <2>1. item.status # "PROCESSING"
    BY <1>2, AdmittedWhenSettled
       DEF update_draft, reject_work_item, reopen_work_item, Requested, WorkItemAction
  <2>2. UNCHANGED <<jobs, queue, wk, tab>>
    BY <1>2 DEF update_draft, reject_work_item, reopen_work_item
  <2> DEFINE t == Idle(tab[r])
  <2>3. t.pc = "idle"
    BY DEF Idle, InRequest
  <2>4. QED
    BY <2>1, <2>2, <2>3, CustodyOfRequest
<1>3. CASE \E k \in Keys : ApproveLookup(r, k)
  <2> PICK k \in Keys : ApproveLookup(r, k)
    BY <1>3
  <2> DEFINE t == InRequest(tab[r], "approve", k, 0, 0)
  <2>1. t.pc = "approve"
    BY DEF InRequest
  <2>2. tab' = [tab EXCEPT ![r] = t] /\ UNCHANGED <<item, jobs, queue, wk>>
    BY DEF ApproveLookup
  <2> HIDE DEF t
  <2>3. QED
    BY <2>1, <2>2, CustodyOfRequest
<1>4. CASE ApproveRefused(r) \/ RegenerateDiscarded(r) \/ ApiCrash(r)
  <2>1. Idle(tab[r]).pc = "idle"
    BY DEF Idle, InRequest
  <2>2. QED
    BY <1>4, <2>1, CustodyOfRequest DEF ApproveRefused, RegenerateDiscarded, ApiCrash
<1>5. CASE EnqueueRaises(r)
  <2> DEFINE t == [tab[r] EXCEPT !.pc = "mark_failed"]
  <2>1. t.job = tab[r].job /\ t.version = tab[r].version
    BY DEF TypeOK, TabState
  <2>2. tab' = [tab EXCEPT ![r] = t] /\ Publishes(r)
    BY <1>5 DEF EnqueueRaises, Publishes
  <2>3. UNCHANGED <<item, jobs, queue, wk>>
    BY <1>5 DEF EnqueueRaises, Prompt
  <2> HIDE DEF t
  <2>4. QED
    BY <2>1, <2>2, <2>3, CustodyOfRequest
<1>6. CASE RegenerateStart(r)
  <2>1. item.status # "PROCESSING"
    BY <1>6, AdmittedWhenSettled DEF RegenerateStart, Requested, WorkItemAction
  <2>2. PICK n \in NextRun : tab' = [tab EXCEPT ![r] = InRequest(@, "provider", NoKey, 0, n)]
    BY <1>6 DEF RegenerateStart
  <2>3. InRequest(tab[r], "provider", NoKey, 0, n).pc = "provider"
    BY DEF InRequest
  <2>4. QED
    BY <1>6, <2>1, <2>2, <2>3, CustodyOfRequest DEF RegenerateStart
<1>7. CASE RegenerateSave(r) \/ mark_regeneration_failed(r)
  <2>1. item' = item \/ item.status # "PROCESSING"
    BY <1>7 DEF RegenerateSave, mark_regeneration_failed, StillRegenerating
  <2>2. Idle(tab[r]).pc = "idle"
    BY DEF Idle, InRequest
  <2>3. QED
    BY <1>7, <2>1, <2>2, CustodyOfRequest DEF RegenerateSave, mark_regeneration_failed
<1>8. QED
  BY <1>1, <1>2, <1>3, <1>4, <1>5, <1>6, <1>7, CustodyApprove, CustodyRetry, CustodyEnqueue,
     CustodyEnqueueFailed DEF ReviewerStep, ApiStep

-----------------------------------------------------------------------------
(* The workers and the environment. *)

\* Whoever receives a message is the only one to act for its job.
LEMMA MessageAlone ==
  ASSUME TypeOK, CustodyInv, NEW j \in JobIds, HasMessage(j)
  PROVE  /\ \A r \in Reviewers : Publishes(r) => tab[r].job # j
         /\ \A w \in Workers : Busy(w) => wk[w].job # j
BY Custody DEF CustodyInv, PublisherInv

\* A message that begins no attempt.
LEMMA CustodyDropped ==
  ASSUME TypeOK, CustodyInv, NEW j \in JobIds, NEW n \in 0..CeleryMaxRetries, Consume(j, n),
         UNCHANGED <<tab, wk>>,
         \A i \in JobIds : i # j => jobs'[i] = jobs[i],
         jobs'[j] = jobs[j] \/ jobs'[j].status \in {"COMPLETED", "FAILED"},
         item' = item \/ ActiveJobs' = {}
  PROVE  CustodyInv'
<1>1. /\ HasMessage(j)
      /\ \A m \in 0..CeleryMaxRetries : queue'[<<j, m>>] = 0
      /\ \A i \in JobIds, m \in 0..CeleryMaxRetries :
           queue'[<<i, m>>] = queue[<<i, m>>] \/ queue'[<<i, m>>] = 0
  BY OneConsumed DEF CustodyInv
<1>2. ~ActsFor(j)'
  <2>1. ~HasMessage(j)'
    <3>1. \A m \in 0..CeleryMaxRetries : ~(queue'[<<j, m>>] > 0)
      BY <1>1
    <3>2. QED
      BY <3>1 DEF HasMessage
  <2>2. \A r \in Reviewers : ~(Publishes(r)' /\ tab'[r].job = j)
    BY <1>1, MessageAlone DEF Publishes
  <2>3. \A w \in Workers : ~(Busy(w)' /\ wk'[w].job = j)
    BY <1>1, MessageAlone DEF Busy
  <2>4. QED
    BY <2>1, <2>2, <2>3 DEF ActsFor
<1>3. \A i \in JobIds : \/ jobs'[i] = jobs[i]
                        \/ jobs'[i].status \in {"COMPLETED", "FAILED"} /\ ~ActsFor(i)'
  BY <1>2
<1>4. \A r \in Reviewers : Publishes(r)' =>
        Publishes(r) /\ tab'[r].job = tab[r].job /\ tab'[r].version = tab[r].version
  BY DEF Publishes
<1>5. \A w \in Workers : Busy(w)' =>
        /\ Busy(w)
        /\ wk'[w].pc = "error" => Faults \cap {"email_fails", "crm_fails"} # {}
  BY DEF Busy, CustodyInv, WorkerInv
<1>6. QED
  BY <1>1, <1>3, <1>4, <1>5, CustodyFrame

\* An attempt over the limit ends the item's only active job.
LEMMA CustodyExceeded ==
  ASSUME TypeOK, CustodyInv, NEW j \in JobIds, NEW n \in 0..CeleryMaxRetries, Consume(j, n),
         AttemptsExceeded(j), UNCHANGED tab
  PROVE  CustodyInv'
<1>1. /\ \A i \in JobIds : i # j => jobs'[i] = jobs[i]
      /\ jobs'[j].status = "FAILED"
  BY ExceededJobRow DEF AttemptsExceeded, TypeOK
<1>2. jobs[j].attempts # 0
  BY StoreAssumption DEF AttemptsExceeded
<1>3. j \in ActiveJobs
  <2>1. PICK m \in 0..CeleryMaxRetries : queue[<<j, m>>] > 0
    BY OneConsumed DEF CustodyInv, HasMessage
  <2>2. jobs[j].status = "QUEUED"
    BY <1>2, <2>1 DEF CustodyInv, MessageInv
  <2>3. QED
    BY <2>2 DEF ActiveJobs
<1>4. ActiveJobs' = {}
  BY <1>1, <1>3 DEF CustodyInv, ActiveInv, ActiveJobs
<1>5. QED
  BY <1>1, <1>4, CustodyDropped DEF AttemptsExceeded

\* An attempt takes over from its message, on the item's only active job.
LEMMA CustodyBegin ==
  ASSUME TypeOK, CustodyInv, NEW w \in Workers, NEW j \in JobIds, NEW n \in 0..CeleryMaxRetries,
         Consume(j, n), BeginAttempt(w, j, n), UNCHANGED tab
  PROVE  CustodyInv'
<1>1. /\ HasMessage(j)
      /\ \A m \in 0..CeleryMaxRetries : queue'[<<j, m>>] = 0
      /\ \A i \in JobIds, m \in 0..CeleryMaxRetries :
           queue'[<<i, m>>] = queue[<<i, m>>] \/ queue'[<<i, m>>] = 0
  BY OneConsumed DEF CustodyInv
<1>2. item.status = "PROCESSING" /\ item' = item /\ ActiveJobs \subseteq {j}
  BY DEF BeginAttempt, Claimable, MayBeActive
<1>3. (\A v \in Workers : ~Busy(v)) /\ (\A r \in Reviewers : ~Publishes(r))
  BY <1>1, <1>2, Custody, MessageAlone
<1>4. /\ jobs'[j] = StartedRow(j)
      /\ \A i \in JobIds : i # j => jobs'[i] = jobs[i]
  BY DEF BeginAttempt, TypeOK
<1>5. /\ jobs'[j].status = "RUNNING" /\ jobs'[j].age = "fresh"
      /\ jobs'[j].attempts = jobs[j].attempts + 1
  <2>1. jobs[j].attempts = 0 \/ jobs[j].age = "fresh"
    BY <1>1 DEF HasMessage, CustodyInv, MessageInv
  <2>2. QED
    BY <1>4, <2>1, StartedJobRow
<1>6. ActiveJobs' = {j}
  BY <1>2, <1>4, <1>5 DEF ActiveJobs
<1>7. ActiveInv'
  BY <1>2, <1>6 DEF ActiveInv
<1>8. MessageInv'
  <2> SUFFICES ASSUME NEW i \in JobIds, NEW m \in 0..CeleryMaxRetries, queue'[<<i, m>>] > 0
               PROVE  /\ queue'[<<i, m>>] = 1
                      /\ \A l \in 0..CeleryMaxRetries : queue'[<<i, l>>] > 0 => l = m
                      /\ jobs'[i] # NoRow
                      /\ IF "slow_queue" \in Faults THEN jobs'[i].attempts = 0
                         ELSE jobs'[i].status = "QUEUED" /\ jobs'[i].age = "fresh"
    BY DEF MessageInv
  <2>1. i # j
    BY <1>1
  <2>2. jobs'[i] = jobs[i]
    BY <1>4, <2>1
  <2>3. \A l \in 0..CeleryMaxRetries : queue'[<<i, l>>] > 0 => queue'[<<i, l>>] = queue[<<i, l>>]
    BY <1>1
  <2>4. QED
    BY <2>2, <2>3 DEF CustodyInv, MessageInv
<1>9. PublisherInv'
  BY <1>3 DEF PublisherInv, Publishes
<1>10. WorkerInv'
  <2>1. \A v \in Workers : Busy(v)' => v = w
    BY <1>3 DEF BeginAttempt, Busy, TypeOK
  <2>2. Busy(w)' => wk'[w] = [pc |-> "side_effects", job |-> j, retries |-> n,
                              attempt |-> jobs[j].attempts + 1, body |-> item.snapshot]
    BY DEF BeginAttempt, AttemptBody, Busy, TypeOK, IdleWorker
  <2>3. jobs[j].attempts + 1 > 0
    BY JobFields
  <2>4. Busy(w)' => /\ wk'[w].job = j /\ wk'[w].attempt = jobs[j].attempts + 1
                    /\ wk'[w].body = item.snapshot /\ wk'[w].pc = "side_effects"
    BY <2>2
  <2>5. QED
    BY <1>2, <1>5, <2>1, <2>3, <2>4 DEF WorkerInv
<1>11. QED
  BY <1>7, <1>8, <1>9, <1>10 DEF CustodyInv

\* A received message ends there or is taken over by the worker.
LEMMA CustodyReceive ==
  ASSUME TypeOK, CustodyInv, NEW w \in Workers, NEW j \in JobIds, NEW n \in 0..CeleryMaxRetries,
         Receive(w, j, n)
  PROVE  CustodyInv'
<1>1. Consume(j, n) /\ UNCHANGED tab
  BY DEF Receive
<1>2. CASE FinishedJob(j) \/ ActivationRefused(j)
  BY <1>1, <1>2, CustodyDropped DEF FinishedJob, ActivationRefused
<1>3. CASE SentItem(j)
  BY <1>1, <1>3, StatusWritten, CustodyDropped DEF SentItem, BackgroundJobStatus
<1>4. CASE UnclaimableItem(j)
  <2>1. item' = item
    BY <1>4 DEF UnclaimableItem, MarkJobFailed, FailedWithJob
  <2>2. jobs' = [jobs EXCEPT ![j].status = "FAILED"] /\ UNCHANGED wk
    BY <1>4 DEF UnclaimableItem, MarkJobFailed
  <2>3. QED
    BY <1>1, <2>1, <2>2, StatusWritten, CustodyDropped DEF BackgroundJobStatus
<1>5. QED
  BY <1>1, <1>2, <1>3, <1>4, CustodyExceeded, CustodyBegin DEF Receive

\* A worker that ends its task: its job stays as it is or ends with the item.
LEMMA CustodyTaskEnds ==
  ASSUME TypeOK, CustodyInv, NEW w \in Workers, Busy(w), wk' = [wk EXCEPT ![w] = IdleWorker],
         UNCHANGED <<tab, queue>>,
         \/ UNCHANGED <<item, jobs>>
         \/ \E s \in {"COMPLETED", "FAILED"} : jobs' = [jobs EXCEPT ![wk[w].job].status = s]
  PROVE  CustodyInv'
<1>0. wk[w].job \in JobIds
  BY Custody
<1> PICK j \in JobIds : j = wk[w].job
  BY <1>0
<1>1. /\ ActiveJobs = {j} /\ ~HasMessage(j) /\ \A r \in Reviewers : ~Publishes(r)
      /\ \A v \in Workers : Busy(v) => v = w
  BY Custody DEF CustodyInv, WorkerInv
<1>2. \A v \in Workers : ~Busy(v)'
  BY <1>1 DEF Busy, TypeOK, IdleWorker
<1>3. \A r \in Reviewers : ~Publishes(r)'
  BY <1>1 DEF Publishes
<1>4. ~HasMessage(j)'
  BY <1>1 DEF HasMessage
<1>5. ~ActsFor(j)'
  BY <1>2, <1>3, <1>4 DEF ActsFor
<1>6. CASE UNCHANGED <<item, jobs>>
  BY <1>2, <1>3, <1>6, CustodyFrame
<1>7. CASE \E s \in {"COMPLETED", "FAILED"} : jobs' = [jobs EXCEPT ![j].status = s]
  <2>1. /\ \A i \in JobIds : i # j => jobs'[i] = jobs[i]
        /\ jobs'[j].status \in {"COMPLETED", "FAILED"}
    BY <1>7, StatusWritten DEF BackgroundJobStatus
  <2>2. ActiveJobs' = {}
    BY <1>1, <2>1 DEF ActiveJobs
  <2>3. QED
    BY <1>2, <1>3, <1>5, <2>1, <2>2, CustodyFrame
<1>8. QED
  BY <1>6, <1>7

\* A retry hands the job over to a new message, still fresh.
LEMMA CustodyRequeue ==
  ASSUME TypeOK, Prompt, CustodyInv, NEW w \in Workers, wk[w].pc = "error",
         wk' = [wk EXCEPT ![w] = IdleWorker], Requeue(wk[w].job, wk[w].retries), UNCHANGED tab
  PROVE  CustodyInv'
<1>0. Busy(w) /\ wk[w].job \in JobIds /\ wk[w].retries \in 0..CeleryMaxRetries
  BY DEF Busy, TypeOK, BusyWorker, IdleWorker
<1> PICK j \in JobIds : j = wk[w].job
  BY <1>0
<1> PICK n \in 0..CeleryMaxRetries : n = wk[w].retries
  BY <1>0
<1>1. /\ ActiveJobs = {j} /\ ~HasMessage(j) /\ \A r \in Reviewers : ~Publishes(r)
      /\ \A v \in Workers : Busy(v) => v = w
      /\ item.status = "PROCESSING" /\ item' = item
  BY <1>0, Custody DEF CustodyInv, WorkerInv, Requeue
<1>2. "slow_queue" \notin Faults
  BY <1>0 DEF CustodyInv, WorkerInv, Prompt
<1>3. jobs[j].age = "fresh"
  BY <1>0 DEF CustodyInv, WorkerInv
<1>4. /\ \A i \in JobIds : i # j => jobs'[i] = jobs[i]
      /\ jobs'[j].status = "QUEUED" /\ jobs'[j].age = "fresh" /\ jobs'[j] # NoRow
  BY <1>3, StatusWritten DEF Requeue, BackgroundJobStatus
<1>5. \A v \in Workers : ~Busy(v)'
  BY <1>1 DEF Busy, TypeOK, IdleWorker
<1>6. \A r \in Reviewers : ~Publishes(r)'
  BY <1>1 DEF Publishes
<1>7. ActiveJobs' = {j}
  BY <1>1, <1>4 DEF ActiveJobs
<1>8. MessageInv'
  <2>1. \A m \in 0..CeleryMaxRetries : queue[<<j, m>>] = 0
    <3>1. \A m \in 0..CeleryMaxRetries : <<j, m>> \in Messages /\ ~(queue[<<j, m>>] > 0)
      BY <1>1 DEF HasMessage, Messages
    <3>2. QED
      BY <3>1 DEF TypeOK
  <2>2. /\ \A i \in JobIds, m \in 0..CeleryMaxRetries :
             i # j => queue'[<<i, m>>] = queue[<<i, m>>]
        /\ \A m, l \in 0..CeleryMaxRetries :
             queue'[<<j, m>>] > 0 => /\ queue'[<<j, m>>] = 1
                                     /\ queue'[<<j, l>>] > 0 => l = m
    <3>1. CASE UNCHANGED queue
      BY <2>1, <3>1
    <3>2. CASE n < CeleryMaxRetries /\ Publish(j, n + 1)
      <4>1. n + 1 \in 0..CeleryMaxRetries
        BY <3>2, StoreAssumption
      <4>2. /\ queue'[<<j, n + 1>>] = queue[<<j, n + 1>>] + 1
            /\ \A i \in JobIds, m \in 0..CeleryMaxRetries :
                 i # j \/ m # n + 1 => queue'[<<i, m>>] = queue[<<i, m>>]
        BY <3>2, <4>1, OnePublished
      <4>3. queue'[<<j, n + 1>>] = 1 /\ \A m \in 0..CeleryMaxRetries : m # n + 1 => queue'[<<j, m>>] = 0
        BY <2>1, <4>1, <4>2
      <4>4. QED
        BY <4>2, <4>3
    <3>3. QED
      BY <3>1, <3>2 DEF Requeue, ScheduleRetry, RetryUnsent
  <2>3. QED
    BY <1>2, <1>4, <2>2 DEF CustodyInv, MessageInv
<1>9. PublisherInv'
  BY <1>6 DEF PublisherInv
<1>10. WorkerInv'
  BY <1>5 DEF WorkerInv
<1>11. ActiveInv'
  BY <1>1, <1>7 DEF ActiveInv
<1>12. QED
  BY <1>8, <1>9, <1>10, <1>11 DEF CustodyInv

\* The side effects keep the worker on its attempt.
LEMMA CustodySideEffects ==
  ASSUME TypeOK, CustodyInv, NEW w \in Workers, SideEffects(w)
  PROVE  CustodyInv'
<1>1. Busy(w) /\ wk[w] \in BusyWorker
  BY DEF SideEffects, Busy, TypeOK, IdleWorker
<1>2. PICK pc \in {"complete", "error"} :
        /\ wk' = [wk EXCEPT ![w].pc = pc]
        /\ pc = "error" => Faults \cap {"email_fails", "crm_fails"} # {}
  BY DEF SideEffects, EmailFails, EmailSent, Reaches
<1>3. /\ wk'[w].job = wk[w].job /\ wk'[w].attempt = wk[w].attempt /\ wk'[w].body = wk[w].body
      /\ wk'[w].pc = pc
      /\ \A v \in Workers : v # w => wk'[v] = wk[v]
  BY <1>1, <1>2 DEF TypeOK, BusyWorker
<1>4. \A v \in Workers : Busy(v)' =>
        /\ Busy(v)
        /\ wk'[v].job = wk[v].job /\ wk'[v].attempt = wk[v].attempt /\ wk'[v].body = wk[v].body
        /\ wk'[v].pc = "error" => Faults \cap {"email_fails", "crm_fails"} # {}
  BY <1>1, <1>2, <1>3 DEF Busy, CustodyInv, WorkerInv
<1>5. UNCHANGED <<item, jobs, queue, tab>>
  BY DEF SideEffects
<1>6. QED
  BY <1>4, <1>5, CustodyFrame DEF Publishes

\* No step of a worker disturbs custody.
LEMMA CustodyTaskNext ==
  ASSUME TypeOK, Prompt, CustodyInv, NEW w \in Workers, TaskStep(w) \/ WorkerDies(w)
  PROVE  CustodyInv'
<1>1. CASE WorkerDies(w)
  BY <1>1, CustodyTaskEnds DEF WorkerDies
<1>2. CASE RecordError(w)
  <2>1. Busy(w) /\ wk' = [wk EXCEPT ![w] = IdleWorker] /\ UNCHANGED tab
    BY <1>2 DEF RecordError, Busy
  <2>2. CASE Requeue(wk[w].job, wk[w].retries)
    BY <1>2, <2>1, <2>2, CustodyRequeue DEF RecordError
  <2>3. CASE GiveUp(wk[w].job) \/ RequeueRefused(wk[w].job)
    BY <2>1, <2>3, CustodyTaskEnds DEF GiveUp, RequeueRefused, MarkJobFailed
  <2>4. QED
    BY <1>2, <2>2, <2>3 DEF RecordError
<1>3. CASE CompleteProcessing(w)
  <2>1. Busy(w) /\ wk' = [wk EXCEPT ![w] = IdleWorker] /\ UNCHANGED <<tab, queue>>
    BY <1>3 DEF CompleteProcessing, Busy
  <2>2. \E s \in {"COMPLETED", "FAILED"} : jobs' = [jobs EXCEPT ![wk[w].job].status = s]
    BY <1>3 DEF CompleteProcessing, Deliver, AlreadySent, CompletionRefused, CompleteJob,
       MarkJobFailed
  <2>3. QED
    BY <2>1, <2>2, CustodyTaskEnds
<1>4. QED
  BY <1>1, <1>2, <1>3, CustodySideEffects DEF TaskStep

\* Time makes only those jobs stale that nobody but a delayed message acts for.
LEMMA CustodyAge ==
  ASSUME TypeOK, Prompt, CustodyInv, NEW j \in JobIds, Age(j)
  PROVE  CustodyInv'
<1>1. /\ ~HasWorker(j) /\ ~BeingEnqueued(j)
      /\ HasMessage(j) => "slow_queue" \in Faults
  BY DEF Age, Prompt, InFlight
<1>2. /\ \A i \in JobIds : i # j => jobs'[i] = jobs[i]
      /\ jobs'[j].status = jobs[j].status
      /\ jobs'[j].attempts = jobs[j].attempts
      /\ jobs'[j] # NoRow
  <2>1. jobs' = [jobs EXCEPT ![j].age = "stale"] /\ jobs[j].status # "NONE"
    BY DEF Age
  <2>2. [jobs[j] EXCEPT !.age = "stale"] = [status |-> jobs[j].status, attempts |-> jobs[j].attempts,
                                            age |-> "stale", key |-> jobs[j].key]
    BY JobFields
  <2>3. QED
    BY <2>1, <2>2 DEF TypeOK, NoRow
<1>3. UNCHANGED <<item, queue, tab, wk>>
  BY DEF Age
<1>4. ActiveJobs' = ActiveJobs
  BY <1>2 DEF ActiveJobs
<1>5. ActiveInv'
  BY <1>3, <1>4 DEF CustodyInv, ActiveInv
<1>6. MessageInv'
  <2> SUFFICES ASSUME NEW i \in JobIds, NEW n \in 0..CeleryMaxRetries, queue[<<i, n>>] > 0
               PROVE  /\ queue[<<i, n>>] = 1
                      /\ \A m \in 0..CeleryMaxRetries : queue[<<i, m>>] > 0 => m = n
                      /\ jobs'[i] # NoRow
                      /\ IF "slow_queue" \in Faults THEN jobs'[i].attempts = 0
                         ELSE jobs'[i].status = "QUEUED" /\ jobs'[i].age = "fresh"
    BY <1>3 DEF MessageInv
  <2>1. CASE i = j
    <3>1. "slow_queue" \in Faults
      BY <1>1, <2>1 DEF HasMessage
    <3>2. QED
      BY <1>2, <2>1, <3>1 DEF CustodyInv, MessageInv
  <2>2. CASE i # j
    BY <1>2, <2>2 DEF CustodyInv, MessageInv
  <2>3. QED
    BY <2>1, <2>2
<1>7. PublisherInv'
  <2>1. \A r \in Reviewers : Publishes(r) => tab[r].job \in JobIds /\ tab[r].job # j
    BY <1>1 DEF BeingEnqueued, Publishes, CustodyInv, PublisherInv
  <2>2. \A r \in Reviewers : Publishes(r) => jobs'[tab[r].job] = jobs[tab[r].job]
    BY <1>2, <2>1
  <2>3. \A r \in Reviewers : HasMessage(tab[r].job)' = HasMessage(tab[r].job)
    BY <1>3 DEF HasMessage
  <2>4. \A r \in Reviewers : Publishes(r)' = Publishes(r) /\ tab'[r] = tab[r]
    BY <1>3 DEF Publishes
  <2>5. QED
    BY <1>3, <2>1, <2>2, <2>3, <2>4 DEF CustodyInv, PublisherInv
<1>8. WorkerInv'
  <2>1. \A w \in Workers : Busy(w) => jobs'[wk[w].job] = jobs[wk[w].job]
    BY <1>1, <1>2, Custody DEF HasWorker
  <2>2. QED
    BY <1>3, <2>1 DEF CustodyInv, WorkerInv, Busy
<1>9. QED
  BY <1>5, <1>6, <1>7, <1>8 DEF CustodyInv

\* Every step keeps custody.
LEMMA CustodyNext ==
  ASSUME Prompt
  PROVE  TypeOK /\ CustodyInv /\ [Next]_vars => CustodyInv'
<1> SUFFICES ASSUME TypeOK, CustodyInv, [Next]_vars PROVE CustodyInv'
  OBVIOUS
<1>1. CASE \E r \in Reviewers : ReviewerStep(r) \/ ApiStep(r) \/ ApiCrash(r)
  BY <1>1, CustodyReviewNext
<1>2. CASE \E w \in Workers : TaskStep(w) \/ WorkerDies(w)
  BY <1>2, CustodyTaskNext
<1>3. CASE \E j \in JobIds : ReceiveJob(j) \/ Age(j)
  BY <1>3, CustodyReceive, CustodyAge DEF ReceiveJob
<1>4. CASE \E j \in JobIds, n \in 0..CeleryMaxRetries : LoseMessage(j, n)
  BY <1>4, CustodyDropped DEF LoseMessage
<1>5. CASE UNCHANGED vars
  <2>1. UNCHANGED <<item, jobs, queue, tab, wk>>
    BY <1>5
  <2>2. \A w \in Workers : Busy(w)' =>
          Busy(w) /\ (wk'[w].pc = "error" => Faults \cap {"email_fails", "crm_fails"} # {})
    BY <2>1 DEF Busy, CustodyInv, WorkerInv
  <2>3. QED
    BY <2>1, <2>2, CustodyFrame DEF Publishes
<1>6. QED
  BY <1>1, <1>2, <1>3, <1>4, <1>5 DEF Next, Failure

\* At any time at most one request, message or worker acts for the item's job.
THEOREM CustodyHolds ==
  ASSUME Prompt
  PROVE  Spec => []CustodyInv
<1>1. Init => CustodyInv
  BY CustodyInit
<1>2. TypeOK /\ CustodyInv /\ [Next]_vars => CustodyInv'
  BY CustodyNext
<1>3. QED
  BY <1>1, <1>2, TypeCorrect, PTL DEF Spec

\* A worker that is about to send, or has sent, owns the item: no edit, approval or
\* retry withdraws the approval while it is at work, and no other worker is.
THEOREM WorkerOwnsItem ==
  ASSUME Prompt
  PROVE  Spec => []AttemptOwnsItem
<1>1. TypeOK /\ CustodyInv => AttemptOwnsItem
  BY Custody DEF AttemptOwnsItem, CustodyInv, WorkerInv
<1>2. QED
  BY <1>1, TypeCorrect, CustodyHolds, PTL

\* Once the item has settled, no job of it is active, so a FAILED item can always be
\* retried or approved again.
THEOREM SettledWithoutJob ==
  ASSUME Prompt
  PROVE  Spec => []SettledItemHasNoActiveJob
<1>1. CustodyInv => SettledItemHasNoActiveJob
  BY DEF CustodyInv, ActiveInv, SettledItemHasNoActiveJob
<1>2. QED
  BY <1>1, CustodyHolds, PTL

=============================================================================
